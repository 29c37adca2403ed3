---------------------------- MODULE ModuleLoading ----------------------------
(***************************************************************************)
(* RequireJS 2.1.16 loading the front end (js/libs/require.js, js/main.js):*)
(* the registry of modules and require calls, their scripts, which come in *)
(* any order, fail or never come, the timer that watches over them, and    *)
(* the breaking of circles.  JavaScript runs one event to its end: an      *)
(* event opens a turn, and the next one waits for the turn to be over.     *)
(***************************************************************************)
EXTENDS Naturals, FiniteSets

CONSTANTS
  Module,   (* the modules of the page                                       *)
  Call,     (* the require calls, which the loader keeps like modules        *)
  Needs,    (* the dependencies of each; for a gate, the shim's dependencies *)
  Gate,     (* for a module with a shim: the call its script waits for       *)
  Start,    (* the call made for the data-main attribute of the page         *)
  Main,     (* the module of that attribute, whose script makes ...          *)
  Entry,    (* ... the call that starts the application                      *)
  Wait      (* waitSeconds, in ticks of the clock                            *)

Node == Module \cup Call
Shimmed == DOMAIN Gate

ASSUME LoadingAssumption ==
  /\ IsFiniteSet(Node) /\ Module \cap Call = {}
  /\ Needs \in [Node -> SUBSET Module]
  /\ Shimmed \subseteq Module /\ Gate \in [Shimmed -> Call \ {Start, Entry}]
  /\ \A m, k \in Shimmed : Gate[m] = Gate[k] => m = k
  /\ Start \in Call /\ Entry \in Call /\ Main \in Module
  /\ Wait \in Nat

(* The attribute data-main becomes the one dependency of the first call. *)
ASSUME StartAssumption == Main \in Needs[Start]

VARIABLES
  script,   (* the script element of each module                           *)
  enabled,  (* what is wanted: enabledRegistry, and what was cleaned of it *)
  inited,   (* whose dependencies and factory are known                    *)
  matched,  (* the dependencies each has been given (depMatched)           *)
  done,     (* whose factory or callback has run (defined)                 *)
  broken,   (* modules with an error                                       *)
  ticks,    (* the require calls waiting in nextTick                       *)
  turn,     (* "idle", or what the event under way does next               *)
  armed,    (* checkLoadedTimeoutId                                        *)
  jammed,   (* inCheckLoaded was left set                                  *)
  age,      (* the clock since startTime                                   *)
  reported  (* an error was thrown                                         *)

registry == <<enabled, inited, matched, done, broken>>
watch    == <<armed, jammed, age, reported>>
loader   == <<script, registry, ticks, turn, watch>>

TypeOK ==
  /\ script \in [Module -> {"none", "asked", "come", "failed"}]
  /\ enabled \subseteq Node /\ inited \subseteq Node /\ done \subseteq Node
  /\ matched \in [Node -> SUBSET Module]
  /\ broken \subseteq Module /\ ticks \subseteq Call
  /\ turn \in {"idle", "run", "cycles"}
  /\ armed \in BOOLEAN /\ jammed \in BOOLEAN /\ reported \in BOOLEAN
  /\ age \in 0..(Wait + 1)

Init ==
  /\ script = [m \in Module |-> "none"]
  /\ enabled = {} /\ inited = {} /\ done = {} /\ broken = {}
  /\ matched = [n \in Node |-> {}]
  /\ ticks = {Start}
  /\ turn = "idle" /\ age = 0
  /\ armed = FALSE /\ jammed = FALSE /\ reported = FALSE

-----------------------------------------------------------------------------
(* Wanted, and neither there nor given up: what checkLoaded waits for. *)
Missing == (enabled \cap Module) \ (inited \cup broken)
Expired == age > Wait

Ready(n) == n \in inited \ (done \cup broken) /\ matched[n] = Needs[n]
Settled  == \A n \in Node : ~Ready(n)

(* init and enable of node n: it is given what is defined already, and     *)
(* what nobody wanted before is fetched, at once or behind its gate.       *)
Enter(n, calls) ==
  LET new == Needs[n] \ (enabled \cup {n})
  IN /\ inited' = inited \cup {n}
     /\ enabled' = enabled \cup {n} \cup Needs[n]
     /\ matched' = [matched EXCEPT ![n] = Needs[n] \cap done]
     /\ ticks' = calls \cup {Gate[m] : m \in new \cap Shimmed}
     /\ age' = IF new = {} THEN age ELSE 0
     /\ turn' = "run"
     /\ script' = [m \in Module |->
          IF m = n THEN "come" ELSE IF m \in new \ Shimmed THEN "asked" ELSE script[m]]
     /\ UNCHANGED <<done, broken, armed, jammed, reported>>

(* The callback of nextTick in localRequire. *)
Tick(c) ==
  /\ turn = "idle" /\ c \in ticks
  /\ Enter(c, ticks \ {c})

(* A script has run and its load event fires: completeLoad.  The script of *)
(* Main calls require.  A module given up is initialised all the same.     *)
ScriptLoads(m) ==
  /\ turn = "idle" /\ script[m] = "asked"
  /\ Enter(m, ticks \cup (IF m = Main THEN {Entry} ELSE {}))

(* onScriptError: nobody listens for errors of the module, so it is thrown. *)
ScriptFails(m) ==
  /\ turn = "idle" /\ script[m] = "asked"
  /\ script' = [script EXCEPT ![m] = "failed"]
  /\ broken' = broken \cup {m}
  /\ reported' = TRUE
  /\ UNCHANGED <<enabled, inited, matched, done, ticks, turn, armed, jammed, age>>

(* check: the factory or callback of n runs, and all that wait for n are   *)
(* given it; behind a gate, the script of the shimmed module is asked for. *)
Define(n) ==
  /\ turn # "idle" /\ Ready(n)
  /\ done' = done \cup {n}
  /\ matched' = [x \in Node |->
       IF x \in inited /\ n \in Needs[x] THEN matched[x] \cup {n} ELSE matched[x]]
  /\ script' = [m \in Module |->
       IF m \in Shimmed /\ Gate[m] = n THEN "asked" ELSE script[m]]
  /\ UNCHANGED <<enabled, inited, broken, ticks, turn, watch>>

(* A mutant: the timer is not set. *)
KeepWaitingUnwatched ==
  /\ turn = "run" /\ Settled /\ ~jammed /\ Missing # {} /\ ~Expired
  /\ turn' = "idle"
  /\ UNCHANGED <<script, registry, ticks, watch>>

(* The last call of every event, while nothing has expired: wait, or break *)
(* circles when all that is wanted is there.                               *)
KeepWaiting ==
  /\ turn = "run" /\ Settled /\ ~jammed /\ Missing # {} /\ ~Expired
  /\ armed' = TRUE /\ turn' = "idle"
  /\ UNCHANGED <<script, registry, ticks, jammed, age, reported>>

(* A mutant: checkLoaded returns without breakCycle. *)
LookNoFurther ==
  /\ turn = "run" /\ Settled /\ ~jammed /\ Missing = {}
  /\ turn' = "idle"
  /\ UNCHANGED <<script, registry, ticks, watch>>

LookForCycles ==
  /\ turn = "run" /\ Settled /\ ~jammed /\ Missing = {}
  /\ turn' = "cycles"
  /\ UNCHANGED <<script, registry, ticks, watch>>

(* The error is thrown out of checkLoaded, past the line that would let    *)
(* checkLoaded run again.                                                  *)
GiveUp ==
  /\ turn = "run" /\ Settled /\ ~jammed /\ Missing # {} /\ Expired
  /\ broken' = broken \cup Missing
  /\ jammed' = TRUE /\ reported' = TRUE /\ turn' = "idle"
  /\ UNCHANGED <<script, enabled, inited, matched, done, ticks, armed, age>>

NeverAgain ==
  /\ turn = "run" /\ Settled /\ jammed
  /\ turn' = "idle"
  /\ UNCHANGED <<script, registry, ticks, watch>>

(* What waits for what: breakCycle follows it from the require calls. *)
Waiting  == inited \ (done \cup broken)
Unmet(n) == (Needs[n] \ matched[n]) \cap Waiting
(* A mutant: whatever is waited for is taken for part of a circle. *)
LeadsAnywhere(d, n) == TRUE
LeadsTo(d, n) ==
  \A S \in SUBSET Waiting : d \in S /\ (\A x \in S : Unmet(x) \subseteq S) => n \in S

(* A module met again on the way back from itself is given as it is, with  *)
(* no value yet.  (Which one of a circle is met again depends on the order *)
(* of the dependency lists; here it is any of them.)  breakCycle goes no   *)
(* further at a module with an error, and there is nothing further: its    *)
(* script failed, so that its dependencies are not known, or it was given  *)
(* up, and after GiveUp no circle is looked for.                           *)
BreakCycle(n, d) ==
  /\ turn = "cycles" /\ Settled
  /\ n \in Waiting /\ d \in Unmet(n) /\ LeadsTo(d, n)
  /\ matched' = [matched EXCEPT ![n] = @ \cup {d}]
  /\ UNCHANGED <<script, enabled, inited, done, broken, ticks, turn, watch>>

CyclesBroken ==
  /\ turn = "cycles" /\ Settled
  /\ \A n \in Waiting : \A d \in Unmet(n) : ~LeadsTo(d, n)
  /\ turn' = "idle"
  /\ UNCHANGED <<script, registry, ticks, watch>>

(* The timer of checkLoaded, every 50 ms while something is missing. *)
Timer ==
  /\ turn = "idle" /\ armed
  /\ armed' = FALSE /\ turn' = "run"
  /\ UNCHANGED <<script, registry, ticks, jammed, age, reported>>

(* Time passes by seconds: no call stays in nextTick (4 ms) that long. *)
Clock ==
  /\ Missing # {} /\ ticks = {} /\ ~Expired
  /\ age' = age + 1
  /\ UNCHANGED <<script, registry, ticks, turn, armed, jammed, reported>>

Turn ==
  \/ KeepWaiting \/ LookForCycles \/ GiveUp \/ NeverAgain \/ CyclesBroken
  \/ \E n \in Node : Define(n) \/ \E d \in Module : BreakCycle(n, d)

Next ==
  \/ Turn \/ Timer \/ Clock
  \/ \E c \in Call : Tick(c)
  \/ \E m \in Module : ScriptLoads(m) \/ ScriptFails(m)

(* The browser finishes its events, its timers fire, the ones due first    *)
(* (nextTick) before the others, and time passes.  No script need ever     *)
(* come.                                                                   *)
Fairness == WF_loader(Turn) /\ WF_loader(Timer) /\ WF_loader(Clock)
            /\ SF_loader(\E c \in Call : Tick(c))

Loading == Init /\ [][Next]_loader

Spec == Loading /\ Fairness

-----------------------------------------------------------------------------
(* The factories run as ModuleGraph says, whatever order the scripts come  *)
(* in and whichever fail: each once, after all it needs or in a circle.    *)
Graph == INSTANCE ModuleGraph WITH done <- done
ImplementsGraph == Graph!Spec

(* While a script is missed and no error was thrown, checkLoaded is going  *)
(* to look at it again: at the end of the event under way or by the timer. *)
PendingIsWatched ==
  Missing # {} /\ ~jammed => armed \/ turn = "run"

(* Nothing is left behind: between events, when nothing is missed any more *)
(* and no error was thrown, all that anybody wanted has run, however the   *)
(* modules need each other: breaking circles leaves no factory waiting.    *)
NothingForgotten ==
  turn = "idle" /\ Missing = {} /\ ~reported => enabled = done

(* The loader does not wait for ever in silence, not even for scripts that *)
(* never come: the application starts or an error is thrown.               *)
StartsOrReports == <>(Entry \in done \/ reported)

(* The part of StartsOrReports that is not about fairness.  When no event   *)
(* is under way and nothing waits in nextTick, but no application has      *)
(* started and no error was thrown, then a module is missed and the timer  *)
(* is set: there is always something to come, even if no script does.      *)
NeverSilent ==
  turn = "idle" /\ ticks = {} /\ Entry \notin done /\ ~reported => Missing # {} /\ armed

(* And it does not wait for ever: only something newly wanted sets the     *)
(* clock back, and once that has run out checkLoaded does not pass over    *)
(* what is missing.                                                        *)
WaitIsBounded ==
  [][/\ age' < age => enabled \subseteq enabled' /\ enabled' # enabled
     /\ turn = "run" /\ turn' = "idle" /\ Missing # {} /\ Expired => reported']_loader
=============================================================================
