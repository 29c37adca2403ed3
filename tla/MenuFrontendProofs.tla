------------------------- MODULE MenuFrontendProofs --------------------------
(***************************************************************************)
(* Proofs about the page of WebGoat.  First its loader, ModuleLoading, for *)
(* every graph of modules, with and without circles and shims: its state   *)
(* keeps its type, what is missed is watched, nothing wanted is forgotten, *)
(* and it implements ModuleGraph.  None of this needs the fairness, so it  *)
(* is said of Loading; the page loads its modules as ModuleLoading says    *)
(* (PageIsLoaded), so it holds on the page, whatever user, network and     *)
(* server do.  Then the page itself: how much can be under way             *)
(* (PageTypeCorrect), and what menu, message, lesson and address tell the  *)
(* user once the page has come to rest (RestingMenu).                      *)
(***************************************************************************)
EXTENDS MenuFrontend, FiniteSetTheorems, TLAPS

(* The steps of the loader one by one, for the proofs to go through. *)
Entering ==
  \/ \E c \in Call : Tick(c)
  \/ \E m \in Module : ScriptLoads(m)

Rest ==
  \/ KeepWaiting \/ LookForCycles \/ GiveUp \/ NeverAgain \/ CyclesBroken \/ Timer \/ Clock
  \/ \E m \in Module : ScriptFails(m)

LEMMA Steps ==
  ASSUME Next
  PROVE  Entering \/ Rest \/ (\E n \in Node : Define(n))
         \/ \E n \in Node : \E d \in Module : BreakCycle(n, d)
BY Zenon DEF Next, Turn, Entering, Rest

(* Every event that enters a node is one of Enter. *)
LEMMA EnteringEnters ==
  ASSUME TypeOK, Entering
  PROVE  \E n \in Node : \E calls \in SUBSET Call : Enter(n, calls)
<1>1. ASSUME NEW c \in Call, Tick(c) PROVE \E n \in Node : \E calls \in SUBSET Call : Enter(n, calls)
  <2>1. c \in Node /\ ticks \ {c} \in SUBSET Call
    BY DEF Node, TypeOK
  <2>2. QED BY <1>1, <2>1 DEF Tick
<1>2. ASSUME NEW m \in Module, ScriptLoads(m)
      PROVE \E n \in Node : \E calls \in SUBSET Call : Enter(n, calls)
  <2>1. m \in Node /\ ticks \cup (IF m = Main THEN {Entry} ELSE {}) \in SUBSET Call
    BY LoadingAssumption DEF Node, TypeOK
  <2>2. QED BY <1>2, <2>1 DEF ScriptLoads
<1>3. QED BY <1>1, <1>2 DEF Entering

-----------------------------------------------------------------------------
(* Types *)

LEMMA TypeInit == Init => TypeOK
<1> SUFFICES ASSUME Init PROVE TypeOK
  OBVIOUS
<1>1. script \in [Module -> {"none", "asked", "come", "failed"}]
  BY DEF Init
<1>2. matched \in [Node -> SUBSET Module]
  BY DEF Init
<1>3. age \in 0..(Wait + 1)
  BY LoadingAssumption DEF Init
<1>4. ticks \subseteq Call
  BY LoadingAssumption DEF Init
<1>5. QED BY <1>1, <1>2, <1>3, <1>4 DEF Init, TypeOK

LEMMA TypeEnter ==
  ASSUME TypeOK, NEW n \in Node, NEW calls \in SUBSET Call, Enter(n, calls)
  PROVE  TypeOK'
<1> DEFINE new == Needs[n] \ (enabled \cup {n})
<1>1. Needs[n] \subseteq Module
  BY LoadingAssumption
<1>2. enabled' \subseteq Node /\ inited' \subseteq Node
  BY <1>1 DEF TypeOK, Enter, Node
<1>3. matched' \in [Node -> SUBSET Module]
  BY <1>1 DEF TypeOK, Enter
<1>4. ticks' \subseteq Call
  BY LoadingAssumption DEF TypeOK, Enter
<1>5. script' \in [Module -> {"none", "asked", "come", "failed"}]
  BY DEF TypeOK, Enter
<1>6. age' \in 0..(Wait + 1)
  BY LoadingAssumption DEF TypeOK, Enter
<1>7. QED
  BY <1>2, <1>3, <1>4, <1>5, <1>6 DEF TypeOK, Enter

LEMMA TypeDefine ==
  ASSUME TypeOK, NEW n \in Node, Define(n)
  PROVE  TypeOK'
<1>1. done' \subseteq Node
  BY DEF TypeOK, Define
<1>2. matched' \in [Node -> SUBSET Module]
  <2>1. ASSUME NEW x \in Node, n \in Needs[x] PROVE n \in Module
    BY <2>1, LoadingAssumption
  <2>2. QED BY <2>1 DEF TypeOK, Define
<1>3. script' \in [Module -> {"none", "asked", "come", "failed"}]
  BY DEF TypeOK, Define
<1>4. QED
  BY <1>1, <1>2, <1>3 DEF TypeOK, Define, watch

LEMMA TypeBreak ==
  ASSUME TypeOK, NEW n \in Node, NEW d \in Module, BreakCycle(n, d)
  PROVE  TypeOK'
<1>1. matched' \in [Node -> SUBSET Module]
  BY DEF TypeOK, BreakCycle
<1>2. QED
  BY <1>1 DEF TypeOK, BreakCycle, watch

LEMMA TypeRest ==
  ASSUME TypeOK, Rest
  PROVE  TypeOK'
<1>1. CASE \E m \in Module : ScriptFails(m)
  BY <1>1 DEF TypeOK, ScriptFails
<1>2. CASE KeepWaiting
  BY <1>2 DEF TypeOK, KeepWaiting, registry
<1>3. CASE LookForCycles \/ NeverAgain \/ CyclesBroken
  BY <1>3 DEF TypeOK, LookForCycles, NeverAgain, CyclesBroken, registry, watch
<1>4. CASE GiveUp
  BY <1>4 DEF TypeOK, GiveUp, Missing
<1>5. CASE Timer
  BY <1>5 DEF TypeOK, Timer, registry
<1>6. CASE Clock
  <2>1. age' \in 0..(Wait + 1)
    BY <1>6, LoadingAssumption DEF TypeOK, Clock, Expired
  <2>2. QED BY <1>6, <2>1 DEF TypeOK, Clock, registry
<1>7. QED BY <1>1, <1>2, <1>3, <1>4, <1>5, <1>6 DEF Rest

LEMMA TypeNext == TypeOK /\ [Next]_loader => TypeOK'
<1> SUFFICES ASSUME TypeOK, [Next]_loader PROVE TypeOK'
  OBVIOUS
<1>1. CASE Entering
  BY <1>1, EnteringEnters, TypeEnter
<1>2. CASE Rest
  BY <1>2, TypeRest
<1>3. CASE \E n \in Node : Define(n)
  BY <1>3, TypeDefine
<1>4. CASE \E n \in Node : \E d \in Module : BreakCycle(n, d)
  BY <1>4, TypeBreak
<1>5. CASE UNCHANGED loader
  BY <1>5 DEF TypeOK, loader, registry, watch
<1>6. QED BY <1>1, <1>2, <1>3, <1>4, <1>5, Steps

(* The loader's state is of its type, whatever the scripts do. *)
THEOREM TypeCorrect == Loading => []TypeOK
BY TypeInit, TypeNext, PTL DEF Loading

-----------------------------------------------------------------------------
(* What is missed is watched.  While circles are looked for nothing is     *)
(* missed: only an event adds to what is wanted, and it starts with "run". *)
WatchInv ==
  /\ PendingIsWatched
  /\ turn = "cycles" => Missing = {}

LEMMA WatchNext == TypeOK /\ WatchInv /\ [Next]_loader => WatchInv'
<1> SUFFICES ASSUME TypeOK, WatchInv, [Next]_loader PROVE WatchInv'
  OBVIOUS
<1> USE DEF WatchInv, PendingIsWatched
<1>1. CASE Entering
  <2>1. PICK n \in Node, calls \in SUBSET Call : Enter(n, calls)
    BY <1>1, EnteringEnters
  <2>2. QED BY <2>1 DEF Enter
<1>2. CASE Rest
  <2>1. CASE \E m \in Module : ScriptFails(m)
    <3>1. Missing' \subseteq Missing /\ UNCHANGED <<turn, armed, jammed>>
      BY <2>1 DEF ScriptFails, Missing
    <3>2. QED BY <3>1
  <2>2. CASE KeepWaiting
    BY <2>2 DEF KeepWaiting
  <2>3. CASE LookForCycles
    BY <2>3 DEF LookForCycles, Missing, registry, watch
  <2>4. CASE GiveUp
    BY <2>4 DEF GiveUp
  <2>5. CASE NeverAgain
    BY <2>5 DEF NeverAgain, watch
  <2>6. CASE CyclesBroken
    BY <2>6 DEF CyclesBroken, Missing, registry, watch
  <2>7. CASE Timer
    BY <2>7 DEF Timer
  <2>8. CASE Clock
    BY <2>8 DEF Clock, Missing, registry
  <2>9. QED BY <1>2, <2>1, <2>2, <2>3, <2>4, <2>5, <2>6, <2>7, <2>8 DEF Rest
<1>3. CASE \E n \in Node : Define(n)
  BY <1>3 DEF Define, Missing, watch
<1>4. CASE \E n \in Node : \E d \in Module : BreakCycle(n, d)
  BY <1>4 DEF BreakCycle, Missing, watch
<1>5. CASE UNCHANGED loader
  BY <1>5 DEF Missing, loader, registry, watch
<1>6. QED BY <1>1, <1>2, <1>3, <1>4, <1>5, Steps

(* checkLoaded is going to look again at whatever is missed, at the end of *)
(* the event under way or by its timer, until it has thrown its error.     *)
THEOREM Watched == Loading => []PendingIsWatched
<1>1. Init => WatchInv
  BY DEF Init, WatchInv, PendingIsWatched, Missing
<1>2. WatchInv => PendingIsWatched
  BY DEF WatchInv
<1>3. QED BY <1>1, <1>2, TypeCorrect, WatchNext, PTL DEF Loading

-----------------------------------------------------------------------------
(* The refinement.  What a node has been given has run, or leads back to   *)
(* the node: that is what breakCycle follows before it gives a module away *)
(* without a value.                                                        *)
GivenInv ==
  \A n \in Node : \A d \in matched[n] : d \in done \/ Graph!LeadsTo(d, n)

(* The circles breakCycle finds among what waits are circles of the graph. *)
LEMMA CircleOfGraph ==
  ASSUME NEW n, NEW d \in Unmet(n), LeadsTo(d, n)
  PROVE  Graph!LeadsTo(d, n)
<1> SUFFICES ASSUME NEW S \in SUBSET Node, d \in S, Graph!Closed(S)
             PROVE  n \in S
  BY DEF Graph!LeadsTo
<1>1. d \in S \cap Waiting
  BY DEF Unmet
<1>2. ASSUME NEW x \in S \cap Waiting PROVE Unmet(x) \subseteq S \cap Waiting
  BY DEF Unmet, Graph!Closed
<1>3. n \in S \cap Waiting
  BY <1>1, <1>2 DEF LeadsTo
<1>4. QED BY <1>3

LEMMA GivenNext == TypeOK /\ GivenInv /\ [Next]_loader => GivenInv'
<1> SUFFICES ASSUME TypeOK, GivenInv, [Next]_loader,
                    NEW n \in Node, NEW d \in matched'[n]
             PROVE  d \in done' \/ Graph!LeadsTo(d, n)
  BY DEF GivenInv, Graph!LeadsTo, Graph!Closed
<1> USE DEF GivenInv
<1>1. CASE Entering
  <2>1. PICK e \in Node, calls \in SUBSET Call : Enter(e, calls)
    BY <1>1, EnteringEnters
  <2>2. done' = done /\ matched' = [matched EXCEPT ![e] = Needs[e] \cap done]
    BY <2>1 DEF Enter
  <2>3. QED BY <2>2 DEF TypeOK
<1>2. CASE Rest
  BY <1>2 DEF Rest, KeepWaiting, LookForCycles, GiveUp, NeverAgain, CyclesBroken, Timer, Clock,
     ScriptFails, registry
<1>3. CASE \E x \in Node : Define(x)
  BY <1>3 DEF Define
<1>4. CASE \E x \in Node : \E y \in Module : BreakCycle(x, y)
  <2>1. PICK x \in Node, y \in Module : BreakCycle(x, y)
    BY <1>4
  <2>2. done' = done /\ matched' = [matched EXCEPT ![x] = @ \cup {y}] /\ Graph!LeadsTo(y, x)
    BY <2>1, CircleOfGraph DEF BreakCycle
  <2>3. QED BY <2>2 DEF TypeOK
<1>5. CASE UNCHANGED loader
  BY <1>5 DEF loader, registry
<1>6. QED BY <1>1, <1>2, <1>3, <1>4, <1>5, Steps

(* Only check runs factories, and it runs one that ModuleGraph may run. *)
LEMMA StepRefines == GivenInv /\ [Next]_loader => [Graph!Next]_done
<1> SUFFICES ASSUME GivenInv, [Next]_loader PROVE [Graph!Next]_done
  OBVIOUS
<1>1. CASE Entering
  BY <1>1 DEF Entering, Tick, ScriptLoads, Enter
<1>2. CASE Rest
  BY <1>2 DEF Rest, KeepWaiting, LookForCycles, GiveUp, NeverAgain, CyclesBroken, Timer, Clock,
     ScriptFails, registry
<1>3. CASE \E n \in Node : Define(n)
  <2>1. PICK n \in Node : Define(n)
    BY <1>3
  <2>2. n \notin done /\ matched[n] = Needs[n] /\ done' = done \cup {n}
    BY <2>1 DEF Define, Ready
  <2>3. \A d \in Needs[n] \ done : Graph!LeadsTo(d, n)
    BY <2>2 DEF GivenInv
  <2>4. QED BY <2>2, <2>3 DEF Graph!Next, Graph!Run
<1>4. CASE \E n \in Node : \E d \in Module : BreakCycle(n, d)
  BY <1>4 DEF BreakCycle
<1>5. CASE UNCHANGED loader
  BY <1>5 DEF loader, registry
<1>6. QED BY <1>1, <1>2, <1>3, <1>4, <1>5, Steps

(* RequireJS runs the factories and callbacks as ModuleGraph says: each at *)
(* most once, and after all it needs, or in a circle with what it does not *)
(* wait for; in whatever order the scripts come, and whichever fail.       *)
THEOREM LoaderImplementsGraph == Loading => ImplementsGraph
<1>1. Init => GivenInv
  BY DEF Init, GivenInv
<1>2. Init => Graph!Init
  BY DEF Init, Graph!Init
<1>3. QED
  BY <1>1, <1>2, TypeCorrect, GivenNext, StepRefines, PTL DEF Loading, ImplementsGraph, Graph!Spec

-----------------------------------------------------------------------------
(* Nothing is forgotten.  What the loader knows between its steps: *)
KnownInv ==
  /\ done \subseteq inited /\ inited \subseteq enabled /\ enabled \cap Call \subseteq inited
  /\ \A n \in inited : Needs[n] \subseteq enabled
  /\ \A n \in inited : Needs[n] \cap done \subseteq matched[n]
  /\ \A n \in Node : matched[n] \subseteq Needs[n]
  /\ jammed \/ broken # {} => reported

LEMMA KnownNext == TypeOK /\ KnownInv /\ [Next]_loader => KnownInv'
<1> SUFFICES ASSUME TypeOK, KnownInv, [Next]_loader PROVE KnownInv'
  OBVIOUS
<1>1. CASE Entering
  <2>1. PICK e \in Node, calls \in SUBSET Call : Enter(e, calls)
    BY <1>1, EnteringEnters
  <2>2. /\ inited' = inited \cup {e} /\ enabled' = enabled \cup {e} \cup Needs[e]
        /\ matched' = [matched EXCEPT ![e] = Needs[e] \cap done]
        /\ UNCHANGED <<done, broken, jammed, reported>>
    BY <2>1 DEF Enter
  <2>3. Needs[e] \subseteq Module /\ Module \cap Call = {}
    BY LoadingAssumption
  <2>4. /\ done' \subseteq inited' /\ inited' \subseteq enabled'
        /\ enabled' \cap Call \subseteq inited'
        /\ \A n \in inited' : Needs[n] \subseteq enabled'
    BY <2>2, <2>3 DEF KnownInv
  <2>5. \A n \in inited' : Needs[n] \cap done' \subseteq matched'[n]
    BY <2>2 DEF KnownInv, TypeOK
  <2>6. \A n \in Node : matched'[n] \subseteq Needs[n]
    BY <2>2 DEF KnownInv, TypeOK
  <2>7. QED BY <2>2, <2>4, <2>5, <2>6 DEF KnownInv
<1>2. CASE Rest
  <2>1. CASE (\E m \in Module : ScriptFails(m)) \/ GiveUp
    BY <2>1 DEF KnownInv, ScriptFails, GiveUp
  <2>2. CASE KeepWaiting \/ LookForCycles \/ NeverAgain \/ CyclesBroken \/ Timer \/ Clock
    BY <2>2 DEF KnownInv, KeepWaiting, LookForCycles, NeverAgain, CyclesBroken, Timer, Clock,
       registry, watch
  <2>3. QED BY <1>2, <2>1, <2>2 DEF Rest
<1>3. CASE \E n \in Node : Define(n)
  <2>1. PICK e \in Node : Define(e)
    BY <1>3
  <2>2. /\ e \in inited /\ done' = done \cup {e}
        /\ matched' = [x \in Node |->
             IF x \in inited /\ e \in Needs[x] THEN matched[x] \cup {e} ELSE matched[x]]
        /\ UNCHANGED <<inited, enabled, broken, jammed, reported>>
    BY <2>1 DEF Define, Ready, watch
  <2>3. \A n \in inited' : Needs[n] \cap done' \subseteq matched'[n]
    BY <2>2 DEF KnownInv, TypeOK
  <2>4. \A n \in Node : matched'[n] \subseteq Needs[n]
    BY <2>2 DEF KnownInv
  <2>5. QED BY <2>2, <2>3, <2>4 DEF KnownInv
<1>4. CASE \E n \in Node : \E d \in Module : BreakCycle(n, d)
  <2>1. PICK e \in Node, d \in Module : BreakCycle(e, d)
    BY <1>4
  <2>2. /\ d \in Needs[e] /\ matched' = [matched EXCEPT ![e] = @ \cup {d}]
        /\ UNCHANGED <<inited, enabled, done, broken, jammed, reported>>
    BY <2>1 DEF BreakCycle, Unmet, watch
  <2>3. QED BY <2>2 DEF KnownInv, TypeOK
<1>5. CASE UNCHANGED loader
  BY <1>5 DEF KnownInv, loader, registry, watch
<1>6. QED BY <1>1, <1>2, <1>3, <1>4, <1>5, Steps

(* When nothing is missed and no factory can run, each that waits waits    *)
(* for another one that waits.                                             *)
LEMMA WaitersWait ==
  ASSUME TypeOK, KnownInv, Settled, Missing = {}, ~reported, NEW n \in Waiting
  PROVE  \E d \in Waiting : d \in Unmet(n)
<1>1. n \in Node /\ n \in inited /\ n \notin done /\ broken = {}
  BY DEF Waiting, TypeOK, KnownInv
<1>2. matched[n] # Needs[n] /\ matched[n] \subseteq Needs[n]
  BY <1>1 DEF Settled, Ready, KnownInv
<1>3. PICK d \in Needs[n] : d \notin matched[n]
  BY <1>2
<1>4. d \in Module /\ d \in enabled /\ d \notin done
  BY <1>1, <1>3, LoadingAssumption DEF KnownInv
<1>5. d \in Waiting
  BY <1>1, <1>4 DEF Missing, Waiting
<1>6. QED BY <1>3, <1>5 DEF Unmet

(* What is found by following what waits for what, from n. *)
Found(n) == {x \in Waiting : LeadsTo(n, x)}

(* Once all circles are broken, less is found from d, which n waits for,   *)
(* than from n: n itself is not.                                           *)
LEMMA FoundShrinks ==
  ASSUME NEW n \in Waiting, NEW d \in Unmet(n), ~LeadsTo(d, n)
  PROVE  Found(d) \subseteq Found(n) /\ Found(d) # Found(n)
<1>1. d \in Waiting
  BY DEF Unmet
<1>2. ASSUME NEW x \in Found(d) PROVE LeadsTo(n, x)
  <2> SUFFICES ASSUME NEW S \in SUBSET Waiting, n \in S, \A y \in S : Unmet(y) \subseteq S
               PROVE  x \in S
    BY DEF LeadsTo
  <2>1. d \in S
    OBVIOUS
  <2>2. QED BY <1>2, <2>1 DEF Found, LeadsTo
<1>3. Found(d) \subseteq Found(n)
  BY <1>2 DEF Found
<1>4. n \in Found(n) /\ n \notin Found(d)
  BY DEF Found, LeadsTo
<1>5. QED BY <1>3, <1>4

(* So nothing waits once all circles are broken: the sets found would      *)
(* shrink for ever.                                                        *)
LEMMA NoCircleNoWaiting ==
  ASSUME TypeOK, KnownInv, Settled, Missing = {}, ~reported,
         \A n \in Waiting : \A d \in Unmet(n) : ~LeadsTo(d, n)
  PROVE  Waiting = {}
<1> SUFFICES ASSUME Waiting # {} PROVE FALSE
  OBVIOUS
<1> DEFINE T == {Found(n) : n \in Waiting}
<1>1. IsFiniteSet(Waiting)
  <2>1. Waiting \in SUBSET Node
    BY DEF Waiting, TypeOK
  <2>2. QED BY <2>1, LoadingAssumption, FS_Subset
<1>2. T \subseteq FiniteSubsetsOf(Waiting)
  <2> SUFFICES ASSUME NEW n \in Waiting PROVE Found(n) \in FiniteSubsetsOf(Waiting)
    OBVIOUS
  <2>1. Found(n) \in SUBSET Waiting
    BY DEF Found
  <2>2. IsFiniteSet(Found(n))
    BY <1>1, <2>1, FS_Subset
  <2>3. QED BY <2>1, <2>2 DEF FiniteSubsetsOf
<1>3. PICK s \in T : \A t \in T : <<t, s>> \notin StrictSubsetOrdering(Waiting)
  <2>1. IsWellFoundedOn(StrictSubsetOrdering(Waiting), FiniteSubsetsOf(Waiting))
    BY FS_StrictSubsetOrderingWellFounded
  <2>2. T # {}
    OBVIOUS
  <2> HIDE DEF T
  <2>3. QED BY <1>2, <2>1, <2>2, WFMin
<1>4. PICK n \in Waiting : s = Found(n)
  OBVIOUS
<1>5. PICK d \in Waiting : d \in Unmet(n)
  BY WaitersWait
<1>6. Found(d) \subseteq s /\ Found(d) # s
  BY <1>4, <1>5, FoundShrinks
<1>7. Found(d) \in T /\ <<Found(d), s>> \in StrictSubsetOrdering(Waiting)
  BY <1>4, <1>6 DEF StrictSubsetOrdering, Found
<1>8. QED BY <1>3, <1>7

LEMMA ForgottenNext ==
  TypeOK /\ KnownInv /\ WatchInv /\ NothingForgotten /\ [Next]_loader => NothingForgotten'
<1> SUFFICES ASSUME TypeOK, KnownInv, WatchInv, NothingForgotten, [Next]_loader,
                    turn' = "idle", Missing' = {}, ~reported'
             PROVE  enabled' = done'
  BY DEF NothingForgotten
<1> USE DEF NothingForgotten
<1>1. CASE Entering
  <2>1. PICK e \in Node, calls \in SUBSET Call : Enter(e, calls)
    BY <1>1, EnteringEnters
  <2>2. QED BY <2>1 DEF Enter
<1>2. CASE Rest
  <2>1. CASE (\E m \in Module : ScriptFails(m)) \/ GiveUp
    BY <2>1 DEF ScriptFails, GiveUp
  <2>2. CASE KeepWaiting \/ LookForCycles \/ Timer
    BY <2>2 DEF KeepWaiting, LookForCycles, Timer, Missing, registry
  <2>3. CASE NeverAgain
    BY <2>3 DEF NeverAgain, KnownInv, watch
  <2>4. CASE CyclesBroken
    <3>1. /\ Settled /\ Missing = {} /\ ~reported /\ done' = done /\ enabled' = enabled
          /\ \A n \in Waiting : \A d \in Unmet(n) : ~LeadsTo(d, n)
      BY <2>4 DEF CyclesBroken, WatchInv, registry, watch
    <3>2. Waiting = {} /\ broken = {}
      BY <3>1, NoCircleNoWaiting DEF KnownInv
    <3>3. enabled \subseteq inited
      BY <3>1, <3>2 DEF KnownInv, TypeOK, Missing, Node
    <3>4. QED BY <3>1, <3>2, <3>3 DEF KnownInv, Waiting
  <2>5. CASE Clock
    BY <2>5 DEF Clock, Missing, registry
  <2>6. QED BY <1>2, <2>1, <2>2, <2>3, <2>4, <2>5 DEF Rest
<1>3. CASE \E n \in Node : Define(n)
  BY <1>3 DEF Define
<1>4. CASE \E n \in Node : \E d \in Module : BreakCycle(n, d)
  BY <1>4 DEF BreakCycle
<1>5. CASE UNCHANGED loader
  BY <1>5 DEF Missing, loader, registry, watch
<1>6. QED BY <1>1, <1>2, <1>3, <1>4, <1>5, Steps

(* Breaking circles leaves nothing waiting: when nothing is missed between *)
(* events and no error was thrown, all that was wanted has run, whatever   *)
(* circles there are among the modules.                                    *)
THEOREM AllWantedRuns == Loading => []NothingForgotten
<1>1. Init => WatchInv /\ KnownInv /\ NothingForgotten
  BY DEF Init, WatchInv, PendingIsWatched, Missing, KnownInv, NothingForgotten
<1>2. QED
  BY <1>1, TypeCorrect, KnownNext, WatchNext, ForgottenNext, PTL DEF Loading

-----------------------------------------------------------------------------
(* The loader is never silent.  The call of the page and the call of its   *)
(* main script are made, or wait in nextTick to be made.                   *)
StartInv ==
  /\ Start \in ticks \cup inited
  /\ Main \in inited => Entry \in ticks \cup inited

LEMMA StartNext == TypeOK /\ StartInv /\ [Next]_loader => StartInv'
<1> SUFFICES ASSUME TypeOK, StartInv, [Next]_loader PROVE StartInv'
  OBVIOUS
<1>1. ASSUME NEW c \in Call, Tick(c) PROVE StartInv'
  <2>1. c # Main
    BY LoadingAssumption
  <2>2. QED BY <1>1, <2>1 DEF Tick, Enter, StartInv
<1>2. ASSUME NEW m \in Module, ScriptLoads(m) PROVE StartInv'
  BY <1>2 DEF ScriptLoads, Enter, StartInv
<1>3. ASSUME Rest \/ (\E n \in Node : Define(n)) \/ (\E n \in Node : \E d \in Module : BreakCycle(n, d))
      PROVE  ticks' = ticks /\ inited' = inited
  BY <1>3 DEF Rest, KeepWaiting, LookForCycles, GiveUp, NeverAgain, CyclesBroken, Timer, Clock,
     ScriptFails, Define, BreakCycle, registry
<1>4. CASE UNCHANGED loader
  BY <1>4 DEF StartInv, loader, registry
<1>5. QED BY <1>1, <1>2, <1>3, <1>4, Steps DEF Entering, StartInv

(* When nothing goes on and nothing is due, the application has started,   *)
(* an error was thrown, or something is missed and checkLoaded will look   *)
(* at it again, whatever scripts never come and whatever circles there are. *)
THEOREM LoaderIsNeverSilent == Loading => []NeverSilent
<1>1. Init => StartInv /\ WatchInv /\ KnownInv
  BY LoadingAssumption DEF Init, StartInv, WatchInv, PendingIsWatched, Missing, KnownInv
<1>2. StartInv /\ WatchInv /\ KnownInv /\ NothingForgotten => NeverSilent
  <2> SUFFICES ASSUME StartInv, WatchInv, KnownInv, NothingForgotten,
                      turn = "idle", ticks = {}, Entry \notin done, ~reported
               PROVE  Missing # {} /\ armed
    BY DEF NeverSilent
  <2>1. ~jammed /\ broken = {}
    BY DEF KnownInv
  <2>2. CASE Missing = {}
    <3>1. Main \in enabled /\ Main \in Module
      BY LoadingAssumption, StartAssumption DEF StartInv, KnownInv
    <3>2. Main \in inited
      BY <2>1, <2>2, <3>1 DEF Missing
    <3>3. Entry \in enabled
      BY <3>2 DEF StartInv, KnownInv
    <3>4. QED BY <2>2, <3>3 DEF NothingForgotten
  <2>3. CASE Missing # {}
    BY <2>1, <2>3 DEF WatchInv, PendingIsWatched
  <2>4. QED BY <2>2, <2>3
<1>3. QED
  BY <1>1, <1>2, TypeCorrect, StartNext, WatchNext, KnownNext, AllWantedRuns, PTL DEF Loading

(* The wait for a script that never comes ends: the clock is set back only *)
(* by what is newly wanted, of which there is a finite set of nodes, and   *)
(* the look after it has run out throws.                                   *)
THEOREM WaitEnds == Loading => WaitIsBounded
<1>1. ASSUME TypeOK, KnownInv, [Next]_loader
      PROVE  [/\ age' < age => enabled \subseteq enabled' /\ enabled' # enabled
              /\ turn = "run" /\ turn' = "idle" /\ Missing # {} /\ Expired => reported']_loader
  <2>1. CASE Entering
    <3>1. PICK n \in Node, calls \in SUBSET Call : Enter(n, calls)
      BY <1>1, <2>1, EnteringEnters
    <3>2. turn' = "run" /\ enabled' = enabled \cup {n} \cup Needs[n]
      BY <3>1 DEF Enter
    <3>3. ASSUME age' # age PROVE Needs[n] \ (enabled \cup {n}) # {}
      BY <3>1, <3>3 DEF Enter
    <3>4. ASSUME age' < age PROVE age' # age
      BY <1>1, <3>4 DEF TypeOK
    <3>5. QED BY <3>2, <3>3, <3>4
  <2>2. CASE Clock
    BY <1>1, <2>2, LoadingAssumption DEF Clock, TypeOK
  <2>3. CASE GiveUp \/ \E m \in Module : ScriptFails(m)
    BY <1>1, <2>3, LoadingAssumption DEF GiveUp, ScriptFails, TypeOK
  <2>4. CASE KeepWaiting \/ LookForCycles \/ CyclesBroken \/ Timer
    BY <1>1, <2>4, LoadingAssumption DEF KeepWaiting, LookForCycles, CyclesBroken, Timer, TypeOK, watch
  <2>5. CASE NeverAgain
    BY <1>1, <2>5, LoadingAssumption DEF NeverAgain, KnownInv, TypeOK, watch
  <2>6. CASE (\E n \in Node : Define(n)) \/ (\E n \in Node : \E d \in Module : BreakCycle(n, d))
    BY <1>1, <2>6, LoadingAssumption DEF Define, BreakCycle, TypeOK, watch
  <2>7. QED BY <1>1, <2>1, <2>2, <2>3, <2>4, <2>5, <2>6, Steps DEF Rest
<1>2. Init => KnownInv
  BY DEF Init, KnownInv
<1>3. QED
  BY <1>1, <1>2, TypeCorrect, KnownNext, PTL DEF Loading, WaitIsBounded

-----------------------------------------------------------------------------
(* The page adds nothing to the loader's steps: its own factories are two  *)
(* of those that Define runs, and nothing else touches the loader.         *)
LEMMA PageStep == [PageNext]_all => [Next]_loader
<1> SUFFICES ASSUME [PageNext]_all PROVE [Next]_loader
  OBVIOUS
<1>1. CASE LoaderTurn
  <2>1. ASSUME NEW n \in Node, Define(n) PROVE Next
    BY <2>1 DEF Next, Turn
  <2>2. Router \in Node /\ Entry \in Node
    BY MenuAssumption, LoadingAssumption DEF Node
  <2>3. QED BY <1>1, <2>1, <2>2 DEF LoaderTurn, CreateViews, InitApp, Next
<1>2. CASE LoaderEvent(Timer \/ Clock \/ \E c \in Call : Tick(c))
  BY <1>2 DEF LoaderEvent, Next
<1>3. CASE \E m \in Module : LoaderEvent(ScriptLoads(m) \/ ScriptFails(m))
  BY <1>3 DEF LoaderEvent, Next
<1>4. CASE Parse \/ CheckUrl
  BY <1>4 DEF Parse, CheckUrl
<1>5. CASE Answers
  BY <1>5 DEF Answers, ServeMenu, ServeProgress, ServeLesson, ShowLesson, ShowMenu, ShowProgress
<1>6. CASE User
  BY <1>6 DEF User, Submit, Click, GoTo
<1>7. CASE UNCHANGED all
  BY <1>7 DEF all
<1>8. QED
  BY <1>1, <1>2, <1>3, <1>4, <1>5, <1>6, <1>7 DEF PageNext, Browser, Network

(* What the page does is a behaviour of its loader. *)
THEOREM PageIsLoaded == PageSpec => Loading
<1>1. PageInit => Init
  BY DEF PageInit
<1>2. QED BY <1>1, PageStep, PTL DEF PageSpec, Loading

(* On the page of WebGoat each factory runs at most once and after all it  *)
(* needs, or in a circle with what it does not wait for.                   *)
THEOREM PageImplementsGraph == PageSpec => ImplementsGraph
BY PageIsLoaded, LoaderImplementsGraph, PTL

(* On the page of WebGoat, between events, nothing that was wanted is left *)
(* waiting once nothing is missed, unless an error was thrown.             *)
THEOREM PageForgetsNothing == PageSpec => []NothingForgotten
BY PageIsLoaded, AllWantedRuns, PTL

-----------------------------------------------------------------------------
(* The page at rest.  Its steps, one by one. *)

LoaderRuns == UNCHANGED page /\ done' \cap {Router, Entry} = done \cap {Router, Entry}

LEMMA PageSteps ==
  ASSUME [PageNext]_all
  PROVE  \/ Parse \/ CheckUrl \/ CreateViews \/ InitApp \/ Submit \/ ServeMenu \/ ServeProgress
         \/ \E l \in Lesson : Click(l) \/ GoTo(l) \/ ShowLesson(l)
         \/ \E q \in Question : ServeLesson(q)
         \/ \E c \in Marks : ShowMenu(c)
         \/ \E b \in BOOLEAN : ShowProgress(b)
         \/ LoaderRuns
<1>1. CASE LoaderTurn
  BY <1>1 DEF LoaderTurn, LoaderRuns
<1>2. ASSUME LoaderEvent(Timer \/ Clock \/ \E c \in Call : Tick(c)) PROVE LoaderRuns
  BY <1>2 DEF LoaderEvent, LoaderRuns, Timer, Clock, Tick, Enter, registry
<1>3. ASSUME NEW m \in Module, LoaderEvent(ScriptLoads(m) \/ ScriptFails(m)) PROVE LoaderRuns
  BY <1>3 DEF LoaderEvent, LoaderRuns, ScriptLoads, ScriptFails, Enter
<1>4. ASSUME UNCHANGED all PROVE LoaderRuns
  BY <1>4 DEF all, loader, registry, LoaderRuns
<1>. QED
  BY <1>1, <1>2, <1>3, <1>4 DEF PageNext, Browser, Network, User, Answers

(* A callback has run after all it needs, but for circles. *)
LEMMA AfterNeedsStep == AfterNeeds /\ [Graph!Next]_done => AfterNeeds'
BY DEF AfterNeeds, Graph!Next, Graph!Run, Graph!LeadsTo, Graph!Closed

LEMMA ViewsFirst ==
  ASSUME NEW S, \A n \in S : \A d \in Needs[n] : d \in S \/ Graph!LeadsTo(d, n), Entry \in S
  PROVE  Router \in S
<1>1. PICK app \in Needs[Entry] :
        Router \in Needs[app] /\ ~Graph!LeadsTo(app, Entry) /\ ~Graph!LeadsTo(Router, app)
  BY RouterAssumption
<1>. QED
  BY <1>1

LEMMA RouterIsNoEntry == Router # Entry
BY MenuAssumption, LoadingAssumption

(* Bags. *)
LEMMA AddCopy ==
  ASSUME NEW D, NEW f \in [D -> Nat], NEW x \in D
  PROVE  /\ Add(f, x) \in [D -> Nat] /\ Add(f, x)[x] = f[x] + 1
         /\ \A y \in D : y # x => Add(f, x)[y] = f[y]
BY DEF Add

LEMMA TakeCopy ==
  ASSUME NEW D, NEW f \in [D -> Nat], NEW x \in D, f[x] > 0
  PROVE  /\ Take(f, x) \in [D -> Nat] /\ Take(f, x)[x] = f[x] - 1
         /\ \A y \in D : y # x => Take(f, x)[y] = f[y]
BY DEF Take

LEMMA Questions ==
  /\ Ask("menu") \in Question /\ Ask("progress") \in Question /\ Ask("menu") # Ask("progress")
  /\ Ask("menu") \notin Contents /\ Ask("progress") \notin Contents
  /\ \A q \in Question : q \in Contents \/ q = Ask("menu") \/ q = Ask("progress")
  /\ Contents \subseteq Question
  /\ \A l \in Lesson : /\ RouteTo(l) \in Contents /\ RouteTo(l).lesson = l /\ RouteTo(l).of = "lesson"
                       /\ [of |-> "form", lesson |-> l] \in Contents
  /\ \A q \in Question : q.of \in {"lesson", "form"} => q \in Contents
  /\ \A q \in Contents : q.lesson \in Lesson
BY MenuAssumption DEF Question, Ask, RouteTo, Contents

(* The types of the page's variables, without the bounds. *)
PageTypes ==
  /\ parsed \in BOOLEAN /\ elements \in {"none", "missing", "there"} /\ wired \in BOOLEAN
  /\ hash \in Fragment /\ changed \in BOOLEAN /\ fragment \in Fragment
  /\ current \in Lesson \cup {"none"} /\ completed \in Marks
  /\ asked \in [Question -> Nat] /\ lessons \in [Lesson -> Nat]
  /\ menus \in [Marks -> Nat] /\ messages \in [BOOLEAN -> Nat]
  /\ shown \in Lesson \cup {"none"} /\ form \in Fragment /\ selected \in Lesson \cup {"none"}
  /\ menu \in Marks \cup {{"spinner"}} /\ message \in BOOLEAN
  /\ acts \in 0..MaxActs /\ raced \in BOOLEAN /\ strayed \in BOOLEAN

(* What a route asks for: a menu, and a lesson nobody has asked for so far. *)
LEMMA Routes ==
  ASSUME NEW before \in [Question -> Nat], NEW l \in Lesson
  PROVE  /\ Route(l, before) \in [Question -> Nat]
         /\ Route(l, before)[Ask("menu")] = before[Ask("menu")] + 1
         /\ Route(l, before)[Ask("progress")] = before[Ask("progress")]
         /\ Route(l, before)[RouteTo(l)] = before[RouteTo(l)] + 1
         /\ \A q \in Contents : q # RouteTo(l) => Route(l, before)[q] = before[q]
<1>1. /\ Add(before, Ask("menu")) \in [Question -> Nat]
      /\ Add(before, Ask("menu"))[Ask("menu")] = before[Ask("menu")] + 1
      /\ \A q \in Question : q # Ask("menu") => Add(before, Ask("menu"))[q] = before[q]
  BY AddCopy, Questions
<1>2. RouteTo(l) \in Contents /\ RouteTo(l) \in Question
  BY Questions
<1>. DEFINE f == Add(before, Ask("menu"))
<1>. HIDE DEF f
<1>3. /\ Add(f, RouteTo(l)) \in [Question -> Nat]
      /\ Add(f, RouteTo(l))[RouteTo(l)] = f[RouteTo(l)] + 1
      /\ \A q \in Question : q # RouteTo(l) => Add(f, RouteTo(l))[q] = f[q]
  BY <1>1, <1>2, AddCopy DEF f
<1>4. RouteTo(l) # Ask("menu") /\ RouteTo(l) # Ask("progress") /\ Ask("menu") # Ask("progress")
      /\ \A q \in Contents : q \in Question /\ q # Ask("menu")
  BY Questions
<1>. QED
  BY <1>1, <1>2, <1>3, <1>4, Questions DEF Route, f

(* What a lesson on the page asks for: its progress, and the menu anew. *)
More == IF wired THEN Add(Add(asked, Ask("progress")), Ask("menu")) ELSE Add(asked, Ask("progress"))

LEMMA Mores ==
  ASSUME asked \in [Question -> Nat]
  PROVE  /\ More \in [Question -> Nat]
         /\ More[Ask("menu")] = IF wired THEN asked[Ask("menu")] + 1 ELSE asked[Ask("menu")]
         /\ More[Ask("progress")] = asked[Ask("progress")] + 1
         /\ \A q \in Contents : More[q] = asked[q]
<1>1. /\ Add(asked, Ask("progress")) \in [Question -> Nat]
      /\ Add(asked, Ask("progress"))[Ask("progress")] = asked[Ask("progress")] + 1
      /\ \A q \in Question : q # Ask("progress") => Add(asked, Ask("progress"))[q] = asked[q]
  BY AddCopy, Questions
<1>. DEFINE f == Add(asked, Ask("progress"))
<1>. HIDE DEF f
<1>2. /\ Add(f, Ask("menu")) \in [Question -> Nat]
      /\ Add(f, Ask("menu"))[Ask("menu")] = f[Ask("menu")] + 1
      /\ \A q \in Question : q # Ask("menu") => Add(f, Ask("menu"))[q] = f[q]
  BY <1>1, AddCopy, Questions DEF f
<1>. QED
  BY <1>1, <1>2, Questions DEF More, f

(* The answer says whether the lesson of the session is completed. *)
LEMMA ProgressServed ==
  ASSUME ServeProgress
  PROVE  \E b \in BOOLEAN : (b <=> current \in completed) /\ messages' = Add(messages, b)
<1>1. CASE current \in completed
  <2>1. (current \in completed) = TRUE
    BY <1>1
  <2>2. messages' = Add(messages, TRUE)
    BY <2>1 DEF ServeProgress
  <2>. QED
    BY <1>1, <2>2
<1>2. CASE current \notin completed
  <2>1. (current \in completed) = FALSE
    BY <1>2
  <2>2. messages' = Add(messages, FALSE)
    BY <2>1 DEF ServeProgress
  <2>. QED
    BY <1>2, <2>2
<1>. QED
  BY <1>1, <1>2

(* Every variable of the page keeps its type, and no answer comes twice.   *)
LEMMA PageTypesStep ==
  ASSUME PageTypes, AddressInv, [PageNext]_all
  PROVE  PageTypes'
<1>. USE DEF begun, address, server, requests, screen, user, page, PageTypes
<1>1. CASE Parse
  BY <1>1 DEF Parse
<1>2. CASE CheckUrl
  BY <1>2, Routes, ZenonT(30) DEF CheckUrl
<1>3. CASE CreateViews
  BY <1>3, AddCopy, Questions DEF CreateViews
<1>4. CASE InitApp
  BY <1>4, Routes DEF InitApp
<1>5. CASE Submit
  <2>1. [of |-> "form", lesson |-> form] \in Question
    BY <1>5, Questions DEF Submit, AddressInv
  <2>2. asked' \in [Question -> Nat]
    BY <1>5, <2>1, AddCopy DEF Submit
  <2>. QED
    BY <1>5, <2>2, MenuAssumption DEF Submit, Act, AtRest, OnItsWay
<1>6. CASE ServeMenu
  BY <1>6, AddCopy, TakeCopy, Questions DEF ServeMenu
<1>7. CASE ServeProgress
  <2>1. messages' \in [BOOLEAN -> Nat]
    BY <1>7, ProgressServed, AddCopy
  <2>. QED
    BY <1>7, <2>1, TakeCopy, Questions DEF ServeProgress
<1>8. ASSUME NEW l \in Lesson, Click(l) PROVE PageTypes'
  <2>1. raced' \in BOOLEAN
    BY <1>8 DEF Click, Act, AtRest, OnItsWay
  <2>2. acts' \in 0..MaxActs
    BY <1>8, MenuAssumption DEF Click, Act
  <2>. QED
    BY <1>8, <2>1, <2>2, ZenonT(30) DEF Click, Fragment
<1>9. ASSUME NEW l \in Lesson, GoTo(l) PROVE PageTypes'
  <2>1. raced' \in BOOLEAN
    BY <1>9 DEF GoTo, Act, AtRest, OnItsWay
  <2>2. acts' \in 0..MaxActs
    BY <1>9, MenuAssumption DEF GoTo, Act
  <2>. QED
    BY <1>9, <2>1, <2>2 DEF GoTo, Fragment
<1>10. ASSUME NEW l \in Lesson, ShowLesson(l) PROVE PageTypes'
  BY <1>10, Mores, TakeCopy DEF ShowLesson, More
<1>11. ASSUME NEW q \in Question, ServeLesson(q) PROVE PageTypes'
  <2>1. q.lesson \in Lesson
    BY <1>11, Questions DEF ServeLesson
  <2>2. asked' \in [Question -> Nat] /\ lessons' \in [Lesson -> Nat]
    BY <1>11, <2>1, AddCopy, TakeCopy DEF ServeLesson
  <2>3. completed' \in Marks
    BY <1>11, <2>1 DEF ServeLesson, Marks
  <2>. QED
    BY <1>11, <2>1, <2>2, <2>3 DEF ServeLesson
<1>12. ASSUME NEW c \in Marks, ShowMenu(c) PROVE PageTypes'
  <2>1. menus' \in [Marks -> Nat]
    BY <1>12, TakeCopy DEF ShowMenu
  <2>2. menu' \in Marks \cup {{"spinner"}}
    BY <1>12 DEF ShowMenu, Marks
  <2>. QED
    BY <1>12, <2>1, <2>2 DEF ShowMenu
<1>13. ASSUME NEW b \in BOOLEAN, ShowProgress(b) PROVE PageTypes'
  BY <1>13, TakeCopy DEF ShowProgress
<1>14. CASE LoaderRuns
  BY <1>14 DEF LoaderRuns
<1>. QED
  BY PageSteps, <1>1, <1>2, <1>3, <1>4, <1>5, <1>6, <1>7, <1>8, <1>9, <1>10, <1>11, <1>12, <1>13, <1>14

(* Which of the two factories of the page run in a step. *)
LEMMA FactoriesRun ==
  /\ LoaderRuns => (Entry \in done' <=> Entry \in done) /\ (Router \in done' <=> Router \in done)
  /\ CreateViews => Router \notin done /\ Router \in done' /\ (Entry \in done' <=> Entry \in done)
  /\ InitApp => Entry \notin done /\ Entry \in done' /\ (Router \in done' <=> Router \in done)
  /\ UNCHANGED loader => done' = done
BY RouterIsNoEntry DEF LoaderRuns, CreateViews, InitApp, Define, Ready, loader, registry

LEMMA AddressStep ==
  ASSUME PageTypes, PageTypes', AddressInv, AfterNeeds', [PageNext]_all
  PROVE  AddressInv'
<1>. USE FactoriesRun DEF begun, address, server, requests, screen, user, page
<1>a. Entry \in done' => Router \in done'
  <2>1. \A n \in done' : \A d \in Needs[n] : d \in done' \/ Graph!LeadsTo(d, n)
    BY DEF AfterNeeds, Graph!LeadsTo, Graph!Closed
  <2>. QED
    BY <2>1, ViewsFirst
<1>1. CASE Parse \/ LoaderRuns
  BY <1>1 DEF Parse, LoaderRuns, AddressInv, NoLesson, NoMenu, NoProgress
<1>2. ASSUME NEW l \in Lesson, hash = l, fragment' = hash, lessons' = lessons,
             asked' = Route(l, asked), PageTypes
      PROVE  ~NoLesson'
  <2>1. asked'[RouteTo(l)] = asked[RouteTo(l)] + 1 /\ RouteTo(l) \in Contents
        /\ asked[RouteTo(l)] \in Nat
    BY <1>2, Routes, Questions, ZenonT(30) DEF PageTypes
  <2>. QED
    BY <2>1 DEF NoLesson
<1>3. CASE CheckUrl
  <2>1. CASE hash \in Lesson \ {fragment}
    BY <1>2, <1>3, <2>1 DEF CheckUrl, AddressInv
  <2>2. CASE hash \notin Lesson \ {fragment}
    <3>1. fragment' = fragment /\ asked' = asked /\ Entry \in done'
      BY <1>3, <2>2 DEF CheckUrl, AddressInv
    <3>. QED
      BY <1>3, <3>1 DEF CheckUrl, AddressInv, NoLesson, NoMenu, NoProgress
  <2>. QED
    BY <2>1, <2>2
<1>4. CASE CreateViews
  <2>1. /\ asked'[Ask("progress")] = asked[Ask("progress")]
        /\ \A q \in Contents : asked'[q] = asked[q]
    <3>1. \A q \in Question : q # Ask("menu") => Add(asked, Ask("menu"))[q] = asked[q]
      BY AddCopy, Questions DEF PageTypes
    <3>. QED
      BY <1>4, <3>1, Questions DEF CreateViews
  <2>2. (NoLesson' <=> NoLesson) /\ (NoProgress' <=> NoProgress)
    BY <1>4, <2>1 DEF CreateViews, NoLesson, NoProgress
  <2>. QED
    BY <1>4, <2>2, MenuAssumption DEF CreateViews, AddressInv
<1>5. CASE InitApp
  <2>1. CASE hash \in Lesson
    BY <1>a, <1>2, <1>5, <2>1 DEF InitApp, AddressInv
  <2>2. CASE hash \notin Lesson
    <3>1. asked' = asked
      BY <1>5, <2>2 DEF InitApp
    <3>. QED
      BY <1>a, <1>5, <2>2, <3>1 DEF InitApp, AddressInv, NoLesson
  <2>. QED
    BY <2>1, <2>2
<1>6. CASE Submit
  <2>1. [of |-> "form", lesson |-> form] \in Contents
    BY <1>6, Questions DEF Submit, AddressInv
  <2>2. ~NoLesson' /\ Entry \in done
    BY <1>6, <2>1, AddCopy, Questions DEF Submit, NoLesson, AddressInv, PageTypes
  <2>. QED
    BY <1>6, <2>2 DEF Submit, AddressInv
<1>7. CASE ServeMenu \/ ServeProgress
  <2>1. /\ \A q \in Contents : asked'[q] = asked[q]
        /\ lessons' = lessons
    BY <1>7, TakeCopy, Questions DEF ServeMenu, ServeProgress, PageTypes
  <2>2. NoLesson' <=> NoLesson
    BY <2>1 DEF NoLesson
  <2>3. Router \in done /\ (ServeProgress => Entry \in done)
    BY <1>7 DEF ServeMenu, ServeProgress, AddressInv, NoMenu, NoProgress
  <2>4. ServeMenu => asked'[Ask("progress")] = asked[Ask("progress")] /\ messages' = messages
    BY <1>7, TakeCopy, Questions DEF ServeMenu, PageTypes
  <2>. QED
    BY <1>7, <2>2, <2>3, <2>4 DEF ServeMenu, ServeProgress, AddressInv, NoProgress
<1>8. ASSUME NEW l \in Lesson, Click(l) PROVE AddressInv'
  BY <1>8, MenuAssumption DEF Click, AddressInv, NoLesson, NoMenu, NoProgress
<1>9. ASSUME NEW l \in Lesson, GoTo(l) PROVE AddressInv'
  BY <1>9 DEF GoTo, AddressInv, NoLesson, NoMenu, NoProgress
<1>10. ASSUME NEW l \in Lesson, ShowLesson(l) PROVE AddressInv'
  <2>1. ~NoLesson
    BY <1>10 DEF ShowLesson, NoLesson, PageTypes
  <2>2. fragment \in Lesson /\ Entry \in done /\ Router \in done
    BY <2>1 DEF AddressInv
  <2>3. elements = "there" => shown' = l /\ form' = fragment
    BY <1>10 DEF ShowLesson
  <2>4. elements # "there" => shown' = "none"
    BY <1>10 DEF ShowLesson, AddressInv
  <2>. QED
    BY <1>10, <2>2, <2>3, <2>4, MenuAssumption DEF ShowLesson, AddressInv
<1>11. ASSUME NEW q \in Question, ServeLesson(q) PROVE AddressInv'
  <2>1. q \in Contents /\ q.lesson \in Lesson
    BY <1>11, Questions DEF ServeLesson
  <2>2. ~NoLesson /\ ~NoLesson'
    <3>1. asked[q] > 0 /\ lessons' = Add(lessons, q.lesson)
      BY <1>11 DEF ServeLesson
    <3>2. lessons'[q.lesson] = lessons[q.lesson] + 1 /\ lessons[q.lesson] \in Nat
      BY <2>1, <3>1, AddCopy DEF PageTypes
    <3>. QED
      BY <2>1, <3>1, <3>2 DEF NoLesson
  <2>3. Entry \in done /\ Router \in done
    BY <2>2 DEF AddressInv
  <2>. QED
    BY <1>11, <2>2, <2>3 DEF ServeLesson, AddressInv
<1>12. ASSUME NEW c \in Marks, ShowMenu(c) PROVE AddressInv'
  <2>1. Router \in done
    BY <1>12 DEF ShowMenu, AddressInv, NoMenu
  <2>. QED
    BY <1>12, <2>1 DEF ShowMenu, AddressInv, NoLesson, NoProgress
<1>13. ASSUME NEW b \in BOOLEAN, ShowProgress(b) PROVE AddressInv'
  <2>1. Entry \in done
    BY <1>13 DEF ShowProgress, AddressInv, NoProgress
  <2>. QED
    BY <1>13, <2>1 DEF ShowProgress, AddressInv, NoLesson, NoMenu
<1>. QED
  BY PageSteps, <1>1, <1>3, <1>4, <1>5, <1>6, <1>7, <1>8, <1>9, <1>10, <1>11, <1>12, <1>13

LEMMA NothingOnItsWay ==
  ASSUME PageTypes, AtRest
  PROVE  NoLesson /\ NoMenu /\ NoProgress /\ ~changed
BY Questions DEF PageTypes, AtRest, OnItsWay, NoLesson, NoMenu, NoProgress

LEMMA OneAtATime ==
  ASSUME PageTypes, WaveInv, ~raced, Coming \/ ~NoProgress
  PROVE  NoLesson /\ (Coming => NoProgress) /\ (~Coming => LessonThere)
<1>1. ASSUME NEW q \in Contents PROVE asked[q] = 0
  BY Questions DEF WaveInv, SoleQuestion, PageTypes
<1>2. ASSUME NEW l \in Lesson PROVE lessons[l] = 0
  BY DEF WaveInv, SoleAnswer, PageTypes
<1>3. NoLesson
  BY <1>1, <1>2 DEF NoLesson
<1>. QED
  BY <1>3 DEF WaveInv

LEMMA WaveSame ==
  ASSUME WaveInv, Coming' <=> Coming, Entry \in done' <=> Entry \in done,
         UNCHANGED <<asked, lessons, menus, messages, completed, current, shown, message, menu,
                     elements, wired, hash, raced>>
  PROVE  WaveInv'
BY DEF WaveInv, SoleQuestion, SoleAnswer, LessonThere, NoLesson, NoMenu, NoProgress

(* A lesson that is asked for on a page without any is the only one.       *)
LEMMA WaveStarts ==
  ASSUME PageTypes, NoLesson, NoProgress, NEW q \in Contents,
         asked'[q] = asked[q] + 1, \A r \in Contents \ {q} : asked'[r] = asked[r],
         asked'[Ask("progress")] = asked[Ask("progress")],
         UNCHANGED <<lessons, menus, messages, completed>>,
         q.lesson = hash', ~Coming', q.of = "form" => NoMenu',
         \A c \in Marks : menus[c] > 0 => c = completed
  PROVE  WaveInv'
<1>1. asked'[q] = 1 /\ (\A r \in Contents \ {q} : asked'[r] = 0) /\ \A l \in Lesson : lessons'[l] = 0
  BY DEF NoLesson
<1>2. NoProgress'
  BY DEF NoProgress
<1>3. \A r \in Contents : asked'[r] > 0 => SoleQuestion(r)'
  BY <1>1, <1>2 DEF SoleQuestion
<1>4. ~NoLesson'
  BY <1>1 DEF NoLesson
<1>. QED
  BY <1>1, <1>2, <1>3, <1>4 DEF WaveInv

LEMMA WaveRoutes ==
  ASSUME PageTypes, NoLesson, NoProgress, hash \in Lesson, asked' = Route(hash, asked),
         UNCHANGED <<lessons, menus, messages, completed, hash>>, ~Coming',
         \A c \in Marks : menus[c] > 0 => c = completed
  PROVE  WaveInv'
<1>1. /\ asked'[Ask("progress")] = asked[Ask("progress")]
      /\ asked'[RouteTo(hash)] = asked[RouteTo(hash)] + 1
      /\ \A q \in Contents : q # RouteTo(hash) => asked'[q] = asked[q]
  BY Routes DEF PageTypes
<1>2. RouteTo(hash) \in Contents /\ RouteTo(hash).lesson = hash /\ RouteTo(hash).of = "lesson"
  BY Questions
<1>. DEFINE q == RouteTo(hash)
<1>. HIDE DEF q
<1>3. \A r \in Contents \ {q} : asked'[r] = asked[r]
  BY <1>1 DEF q
<1>4. /\ q \in Contents /\ q.lesson = hash' /\ q.of = "lesson"
      /\ asked'[q] = asked[q] + 1
  BY <1>1, <1>2 DEF q
<1>. QED
  BY <1>1, <1>3, <1>4, WaveStarts

(* While the user does not race, there is one lesson on its way at most,   *)
(* and when it has come the page is told all that it changed.              *)
LEMMA WaveStep ==
  ASSUME PageTypes, PageTypes', AddressInv, WaveInv, [PageNext]_all
  PROVE  WaveInv'
<1> SUFFICES ASSUME ~raced' PROVE WaveInv'
  BY DEF WaveInv
<1>. USE FactoriesRun DEF begun, address, server, requests, screen, user, page
<1>1. CASE Parse \/ LoaderRuns
  <2>1. Coming' <=> Coming
    BY <1>1 DEF Parse, LoaderRuns, Coming
  <2>. QED
    BY <1>1, <2>1, WaveSame DEF Parse, LoaderRuns
<1>2. CASE CheckUrl
  <2>1. ~raced /\ ~Coming' /\ changed /\ hash \in Lesson
    BY <1>2 DEF CheckUrl, Coming, AddressInv
  <2>2. CASE hash # fragment
    <3>1. NoLesson /\ NoProgress
      BY <2>1, <2>2, OneAtATime DEF WaveInv, Coming
    <3>. QED
      BY <1>2, <2>1, <2>2, <3>1, WaveRoutes DEF CheckUrl, WaveInv
  <2>3. CASE hash = fragment
    <3>1. asked' = asked /\ ~Coming
      BY <1>2, <2>3 DEF CheckUrl, Coming
    <3>. QED
      BY <1>2, <2>1, <3>1, WaveSame DEF CheckUrl
  <2>. QED
    BY <2>2, <2>3
<1>3. CASE CreateViews
  <2>1. /\ asked'[Ask("progress")] = asked[Ask("progress")]
        /\ asked'[Ask("menu")] = asked[Ask("menu")] + 1
        /\ \A q \in Contents : asked'[q] = asked[q]
    <3>1. /\ Add(asked, Ask("menu"))[Ask("menu")] = asked[Ask("menu")] + 1
          /\ \A q \in Question : q # Ask("menu") => Add(asked, Ask("menu"))[q] = asked[q]
      BY AddCopy, Questions, SMTT(30) DEF PageTypes
    <3>. QED
      BY <1>3, <3>1, Questions DEF CreateViews
  <2>2. NoLesson /\ NoLesson' /\ NoProgress' /\ shown' = "none" /\ ~raced
    <3>1. Entry \notin done
      BY <1>3 DEF AddressInv
    <3>. QED
      BY <1>3, <2>1, <3>1 DEF CreateViews, AddressInv, NoLesson, NoProgress
  <2>3. ~NoMenu'
    BY <2>1, Questions DEF NoMenu, PageTypes
  <2>4. \A c \in Marks : menus'[c] > 0 => c = completed'
    BY <1>3, <2>2 DEF CreateViews, WaveInv
  <2>. QED
    BY <2>2, <2>3, <2>4 DEF WaveInv, LessonThere, NoLesson
<1>4. CASE InitApp
  <2>1. ~raced /\ ~Coming' /\ NoLesson /\ NoProgress /\ shown = "none"
    BY <1>4 DEF InitApp, Coming, AddressInv
  <2>2. CASE hash \in Lesson
    BY <1>4, <2>1, <2>2, WaveRoutes DEF InitApp, WaveInv
  <2>3. CASE hash \notin Lesson
    <3>1. asked' = asked /\ ~Coming
      BY <1>4, <2>3 DEF InitApp, AddressInv, Coming
    <3>2. NoLesson' /\ NoProgress' /\ (NoMenu' <=> NoMenu)
      BY <1>4, <2>1, <3>1 DEF InitApp, NoLesson, NoProgress, NoMenu
    <3>3. LessonThere'
      BY <1>4, <2>1, <3>1, <3>2 DEF InitApp, WaveInv, LessonThere
    <3>. QED
      BY <1>4, <2>1, <3>1, <3>2, <3>3 DEF InitApp, WaveInv, NoLesson
  <2>. QED
    BY <2>2, <2>3
<1>5. CASE Submit
  <2>1. NoLesson /\ NoMenu /\ NoProgress /\ ~changed
    BY <1>5, NothingOnItsWay DEF Submit, Act
  <2>2. form = hash /\ form \in Lesson
    BY <1>5, <2>1 DEF Submit, AddressInv
  <2>. DEFINE q == [of |-> "form", lesson |-> form]
  <2>3. q \in Contents /\ q.lesson = form /\ q.of = "form"
    BY <2>2, Questions
  <2>. HIDE DEF q
  <2>4. /\ asked'[q] = asked[q] + 1
        /\ \A r \in Question : r # q => asked'[r] = asked[r]
    <3>1. q \in Question /\ asked' = Add(asked, q)
      BY <1>5, <2>3, Questions DEF Submit, q
    <3>2. /\ Add(asked, q)[q] = asked[q] + 1
          /\ \A r \in Question : r # q => Add(asked, q)[r] = asked[r]
      BY <3>1, AddCopy DEF PageTypes
    <3>. QED
      BY <3>1, <3>2
  <2>5. /\ asked'[Ask("progress")] = asked[Ask("progress")]
        /\ asked'[Ask("menu")] = asked[Ask("menu")]
        /\ \A r \in Contents \ {q} : asked'[r] = asked[r]
    BY <2>3, <2>4, Questions
  <2>6. NoMenu' /\ ~Coming'
    BY <1>5, <2>1, <2>5 DEF Submit, NoMenu, Coming
  <2>7. \A c \in Marks : menus[c] > 0 => c = completed
    BY <2>1 DEF NoMenu, PageTypes
  <2>. QED
    BY <1>5, <2>1, <2>2, <2>3, <2>4, <2>5, <2>6, <2>7, WaveStarts DEF Submit
<1>6. CASE ServeMenu
  <2>1. /\ asked[Ask("menu")] > 0
        /\ asked'[Ask("progress")] = asked[Ask("progress")]
        /\ \A q \in Contents : asked'[q] = asked[q]
    BY <1>6, TakeCopy, Questions DEF ServeMenu, PageTypes
  <2>2. menus'[completed] > 0 /\ \A c \in Marks : c # completed => menus'[c] = menus[c]
    BY <1>6, AddCopy DEF ServeMenu, PageTypes
  <2>3. (NoLesson' <=> NoLesson) /\ (NoProgress' <=> NoProgress) /\ ~NoMenu' /\ ~NoMenu
        /\ (Coming' <=> Coming) /\ ~raced /\ UNCHANGED <<lessons, hash, current, completed, shown, messages, message>>
    BY <1>6, <2>1, <2>2 DEF ServeMenu, NoLesson, NoProgress, NoMenu, Coming, PageTypes
  <2>4. \A q \in Contents : SoleQuestion(q) => SoleQuestion(q)'
    BY <2>1, <2>3 DEF SoleQuestion
  <2>5. \A l \in Lesson : SoleAnswer(l) => SoleAnswer(l)'
    BY <2>1, <2>3 DEF SoleAnswer
  <2>6. LessonThere => LessonThere'
    BY <2>3 DEF LessonThere
  <2>. QED
    BY <2>1, <2>2, <2>3, <2>4, <2>5, <2>6 DEF WaveInv
<1>7. CASE ServeProgress
  <2>1. ~NoProgress /\ ~raced
    BY <1>7 DEF ServeProgress, NoProgress
  <2>2. NoLesson /\ ~Coming /\ LessonThere
    BY <2>1, OneAtATime
  <2>3. /\ \A q \in Contents : asked'[q] = asked[q]
        /\ asked'[Ask("menu")] = asked[Ask("menu")]
    BY <1>7, TakeCopy, Questions DEF ServeProgress, PageTypes
  <2>4. NoLesson' /\ ~Coming' /\ (NoMenu' <=> NoMenu)
    BY <1>7, <2>2, <2>3 DEF ServeProgress, NoLesson, Coming, NoMenu
  <2>5. PICK b \in BOOLEAN : (b <=> current \in completed) /\ messages' = Add(messages, b)
    BY <1>7, ProgressServed
  <2>6. messages'[b] > 0 /\ \A d \in BOOLEAN : d # b => messages'[d] = messages[d]
    <3>1. /\ Add(messages, b)[b] = messages[b] + 1 /\ messages[b] \in Nat
          /\ \A d \in BOOLEAN : d # b => Add(messages, b)[d] = messages[d]
      <4>1. messages \in [BOOLEAN -> Nat]
        BY DEF PageTypes
      <4>. QED
        BY <4>1 DEF Add
    <3>. QED
      BY <2>5, <3>1
  <2>7. ~NoProgress'
    BY <2>6 DEF NoProgress
  <2>8. LessonThere'
    BY <1>7, <2>2, <2>4, <2>5, <2>6, <2>7 DEF ServeProgress, LessonThere
  <2>. QED
    BY <1>7, <2>1, <2>4, <2>8 DEF ServeProgress, WaveInv, NoLesson
<1>8. ASSUME NEW l \in Lesson, Click(l) \/ GoTo(l) PROVE WaveInv'
  <2>1. CASE l = hash
    <3>1. Click(l) /\ hash' = hash /\ raced' = raced /\ fragment' = fragment
      BY <1>8, <2>1 DEF Click, GoTo, Act
    <3>2. changed' <=> changed
      BY <2>1, <3>1 DEF Click
    <3>3. Coming' <=> Coming
      BY <3>1, <3>2 DEF Coming
    <3>. QED
      BY <3>1, <3>3, WaveSame DEF Click
  <2>2. CASE l # hash
    <3>1. NoLesson /\ NoMenu /\ NoProgress /\ ~changed
      BY <1>8, <2>2, NothingOnItsWay DEF Click, GoTo, Act
    <3>2. Coming' /\ NoLesson' /\ NoMenu' /\ NoProgress'
      <4>1. fragment' # l
        BY <1>8, <2>2, <3>1, MenuAssumption DEF Click, GoTo, AddressInv
      <4>. QED
        BY <1>8, <2>2, <3>1, <4>1 DEF Click, GoTo, Coming, NoLesson, NoMenu, NoProgress
    <3>. QED
      BY <3>2 DEF WaveInv, NoLesson, NoMenu
  <2>. QED
    BY <2>1, <2>2
<1>9. ASSUME NEW l \in Lesson, ShowLesson(l) PROVE WaveInv'
  <2>1. ~raced /\ lessons[l] > 0
    BY <1>9 DEF ShowLesson
  <2>2. SoleAnswer(l)
    BY <2>1 DEF WaveInv
  <2>3. /\ \A q \in Contents : asked'[q] = asked[q]
        /\ asked'[Ask("progress")] > 0
        /\ wired => asked'[Ask("menu")] > 0
    BY <1>9, Mores, Questions DEF ShowLesson, More, PageTypes
  <2>4. \A m \in Lesson : lessons'[m] = 0
    BY <1>9, <2>2, TakeCopy DEF ShowLesson, SoleAnswer, PageTypes
  <2>5. NoLesson' /\ ~Coming' /\ ~NoProgress' /\ (NoMenu' => ~wired')
    BY <1>9, <2>2, <2>3, <2>4 DEF ShowLesson, SoleAnswer, NoLesson, NoProgress, NoMenu, Coming
  <2>6. Entry \in done
    BY <2>1 DEF AddressInv, NoLesson
  <2>7. shown' # "none" => shown' = l
    BY <1>9 DEF ShowLesson, AddressInv
  <2>8. \A b \in BOOLEAN : messages'[b] = 0
    BY <1>9, <2>2 DEF ShowLesson, SoleAnswer, NoProgress
  <2>9. LessonThere'
    BY <1>9, <2>2, <2>5, <2>6, <2>7, <2>8 DEF ShowLesson, SoleAnswer, LessonThere
  <2>. QED
    BY <1>9, <2>1, <2>5, <2>9 DEF ShowLesson, WaveInv, NoLesson
<1>10. ASSUME NEW q \in Question, ServeLesson(q) PROVE WaveInv'
  <2>1. q \in Contents /\ q.lesson \in Lesson /\ asked[q] > 0 /\ ~raced
    BY <1>10, Questions DEF ServeLesson
  <2>2. SoleQuestion(q)
    BY <2>1 DEF WaveInv
  <2>3. q.lesson = hash
    BY <2>2 DEF SoleQuestion
  <2>4. /\ \A r \in Contents : asked'[r] = 0
        /\ asked'[Ask("progress")] = asked[Ask("progress")]
    BY <1>10, <2>1, <2>2, TakeCopy, Questions, SMTT(30) DEF ServeLesson, SoleQuestion, PageTypes
  <2>5. lessons'[hash] = 1 /\ \A m \in Lesson \ {hash} : lessons'[m] = 0
    <3>1. lessons' = Add(lessons, hash) /\ hash \in Lesson
      BY <1>10, <2>1, <2>3 DEF ServeLesson
    <3>2. /\ Add(lessons, hash)[hash] = lessons[hash] + 1
          /\ \A m \in Lesson : m # hash => Add(lessons, hash)[m] = lessons[m]
      <4>1. lessons \in [Lesson -> Nat]
        BY DEF PageTypes
      <4>. QED
        BY <3>1, <4>1 DEF Add
    <3>3. \A m \in Lesson : lessons[m] = 0
      BY <2>2 DEF SoleQuestion
    <3>. QED
      BY <3>1, <3>2, <3>3
  <2>6. NoProgress' /\ ~Coming' /\ ~NoLesson' /\ current' = hash'
    BY <1>10, <2>1, <2>2, <2>3, <2>4, <2>5 DEF ServeLesson, SoleQuestion, NoProgress, Coming, NoLesson
  <2>7. \A c \in Marks : menus'[c] > 0 => c = completed'
    <3>1. CASE q.of = "form"
      BY <1>10, <2>2, <3>1 DEF ServeLesson, SoleQuestion, NoMenu
    <3>2. CASE q.of # "form"
      <4>1. completed' = completed
        BY <1>10, <3>2 DEF ServeLesson
      <4>. QED
        BY <1>10, <2>1, <4>1 DEF ServeLesson, WaveInv
    <3>. QED
      BY <3>1, <3>2
  <2>8. SoleAnswer(hash)' /\ \A m \in Lesson : lessons'[m] > 0 => m = hash'
    BY <1>10, <2>4, <2>5, <2>6 DEF ServeLesson, SoleAnswer
  <2>. QED
    BY <2>4, <2>6, <2>7, <2>8 DEF WaveInv
<1>11. ASSUME NEW c \in Marks, ShowMenu(c) PROVE WaveInv'
  <2>1. c = completed /\ ~raced
    BY <1>11 DEF ShowMenu, WaveInv
  <2>2. \A d \in Marks : menus'[d] > 0 => menus[d] > 0
    BY <1>11, TakeCopy DEF ShowMenu, PageTypes
  <2>3. (NoLesson' <=> NoLesson) /\ (NoProgress' <=> NoProgress) /\ (Coming' <=> Coming)
        /\ (NoMenu => NoMenu')
    <3>1. NoMenu => FALSE
      BY <1>11 DEF ShowMenu, NoMenu
    <3>. QED
      BY <1>11, <3>1 DEF ShowMenu, NoLesson, NoProgress, Coming
  <2>4. \A q \in Contents : SoleQuestion(q) => SoleQuestion(q)'
    BY <1>11, <2>3 DEF ShowMenu, SoleQuestion
  <2>5. \A l \in Lesson : SoleAnswer(l) => SoleAnswer(l)'
    BY <1>11, <2>3 DEF ShowMenu, SoleAnswer
  <2>6. LessonThere => LessonThere'
    BY <1>11, <2>1, <2>3 DEF ShowMenu, LessonThere
  <2>. QED
    BY <1>11, <2>1, <2>2, <2>3, <2>4, <2>5, <2>6 DEF ShowMenu, WaveInv
<1>12. ASSUME NEW b \in BOOLEAN, ShowProgress(b) PROVE WaveInv'
  <2>1. ~NoProgress /\ ~raced
    BY <1>12 DEF ShowProgress, NoProgress
  <2>2. NoLesson /\ ~Coming /\ LessonThere
    BY <2>1, OneAtATime
  <2>3. NoLesson' /\ ~Coming' /\ (NoMenu' <=> NoMenu)
    BY <1>12, <2>2 DEF ShowProgress, NoLesson, Coming, NoMenu
  <2>4. \A d \in BOOLEAN : messages'[d] > 0 => messages[d] > 0
    BY <1>12, TakeCopy DEF ShowProgress, PageTypes
  <2>5. shown # "none" => (b <=> current \in completed) /\ message' = b
    BY <1>12, <2>2 DEF ShowProgress, LessonThere, AddressInv
  <2>6. LessonThere'
    BY <1>12, <2>2, <2>3, <2>4, <2>5 DEF ShowProgress, LessonThere
  <2>. QED
    BY <1>12, <2>1, <2>3, <2>6 DEF ShowProgress, WaveInv, NoLesson
<1>. QED
  BY PageSteps, <1>1, <1>2, <1>3, <1>4, <1>5, <1>6, <1>7, <1>8, <1>9, <1>10, <1>11, <1>12

-----------------------------------------------------------------------------
(* How much can be under way.  Copies(f, S) has an element for each answer *)
(* or request, so that adding one and taking one can be counted.           *)

LEMMA CopiesSame ==
  ASSUME NEW D, NEW S \in SUBSET D, NEW f \in [D -> Nat], NEW g \in [D -> Nat],
         \A x \in S : g[x] = f[x]
  PROVE  Copies(g, S) = Copies(f, S)
BY DEF Copies

LEMMA CopiesMore ==
  ASSUME NEW D, NEW S \in SUBSET D, NEW f \in [D -> Nat], NEW g \in [D -> Nat], NEW x \in S,
         g[x] = f[x] + 1, \A y \in S : y # x => g[y] = f[y]
  PROVE  Copies(g, S) = Copies(f, S) \cup {<<x, g[x]>>} /\ <<x, g[x]>> \notin Copies(f, S)
<1>1. <<x, g[x]>> \notin Copies(f, S)
  <2> SUFFICES ASSUME <<x, g[x]>> \in Copies(f, S) PROVE FALSE
    OBVIOUS
  <2>1. PICK y \in S : \E i \in 1..f[y] : <<x, g[x]>> = <<y, i>>
    BY DEF Copies
  <2>. QED
    BY <2>1
<1>2. ASSUME NEW e \in Copies(g, S) PROVE e \in Copies(f, S) \cup {<<x, g[x]>>}
  <2>1. PICK y \in S : \E i \in 1..g[y] : e = <<y, i>>
    BY <1>2 DEF Copies
  <2>2. PICK i \in 1..g[y] : e = <<y, i>>
    BY <2>1
  <2>3. CASE y = x /\ i = g[x]
    BY <2>2, <2>3
  <2>4. CASE ~(y = x /\ i = g[x])
    <3>1. i \in 1..f[y]
      BY <2>2, <2>4
    <3>. QED
      BY <2>2, <3>1 DEF Copies
  <2>. QED
    BY <2>3, <2>4
<1>3. ASSUME NEW e \in Copies(f, S) \cup {<<x, g[x]>>} PROVE e \in Copies(g, S)
  <2>1. CASE e = <<x, g[x]>>
    <3>1. g[x] \in 1..g[x]
      OBVIOUS
    <3>. QED
      BY <2>1, <3>1 DEF Copies
  <2>2. CASE e \in Copies(f, S)
    <3>1. PICK y \in S : \E i \in 1..f[y] : e = <<y, i>>
      BY <2>2 DEF Copies
    <3>2. PICK i \in 1..f[y] : e = <<y, i>>
      BY <3>1
    <3>3. i \in 1..g[y]
      BY <3>2
    <3>. QED
      BY <3>2, <3>3 DEF Copies
  <2>. QED
    BY <1>3, <2>1, <2>2
<1>. QED
  BY <1>1, <1>2, <1>3

LEMMA SizeMore ==
  ASSUME NEW D, NEW S \in SUBSET D, NEW f \in [D -> Nat], NEW g \in [D -> Nat], NEW x \in S,
         IsFiniteSet(Copies(f, S)), g[x] = f[x] + 1, \A y \in S : y # x => g[y] = f[y]
  PROVE  IsFiniteSet(Copies(g, S)) /\ Size(g, S) = Size(f, S) + 1
<1>. DEFINE C == Copies(f, S)
            e == <<x, g[x]>>
<1>1. Copies(g, S) = C \cup {e} /\ e \notin C
  BY CopiesMore
<1>. HIDE DEF e, C
<1>2. IsFiniteSet(C \cup {e}) /\ Cardinality(C \cup {e}) = Cardinality(C) + 1
  <2>1. IsFiniteSet(C)
    BY DEF C
  <2>. QED
    BY <1>1, <2>1, FS_AddElement
<1>. QED
  BY <1>1, <1>2 DEF Size, C

LEMMA SizeLess ==
  ASSUME NEW D, NEW S \in SUBSET D, NEW f \in [D -> Nat], NEW g \in [D -> Nat], NEW x \in S,
         IsFiniteSet(Copies(f, S)), f[x] = g[x] + 1, \A y \in S : y # x => g[y] = f[y]
  PROVE  IsFiniteSet(Copies(g, S)) /\ Size(g, S) = Size(f, S) - 1
<1>1. Copies(f, S) = Copies(g, S) \cup {<<x, f[x]>>} /\ <<x, f[x]>> \notin Copies(g, S)
  BY CopiesMore
<1>2. Copies(g, S) = Copies(f, S) \ {<<x, f[x]>>} /\ <<x, f[x]>> \in Copies(f, S)
  BY <1>1
<1>. DEFINE C == Copies(f, S)
            e == <<x, f[x]>>
<1>3. Copies(g, S) = C \ {e} /\ e \in C
  BY <1>2
<1>. HIDE DEF e, C
<1>4. IsFiniteSet(C \ {e}) /\ Cardinality(C \ {e}) = Cardinality(C) - 1
  <2>1. IsFiniteSet(C)
    BY DEF C
  <2>. QED
    BY <1>3, <2>1, FS_RemoveElement
<1>. QED
  BY <1>3, <1>4 DEF Size, C

(* The same of whole bags. *)
LEMMA BagMore ==
  ASSUME NEW D, NEW f \in [D -> Nat], NEW g \in [D -> Nat], NEW x \in D,
         IsFiniteSet(Copies(f, D)), g[x] = f[x] + 1, \A y \in D : y # x => g[y] = f[y]
  PROVE  IsFiniteSet(Copies(g, D)) /\ Size(g, D) = Size(f, D) + 1
<1>1. D \in SUBSET D
  OBVIOUS
<1>2. \A S \in SUBSET D : x \in S /\ IsFiniteSet(Copies(f, S)) /\ (\A y \in S : y # x => g[y] = f[y])
        => IsFiniteSet(Copies(g, S)) /\ Size(g, S) = Size(f, S) + 1
  BY SizeMore
<1>. QED
  BY <1>1, <1>2

LEMMA BagLess ==
  ASSUME NEW D, NEW f \in [D -> Nat], NEW g \in [D -> Nat], NEW x \in D,
         IsFiniteSet(Copies(f, D)), f[x] = g[x] + 1, \A y \in D : y # x => g[y] = f[y]
  PROVE  IsFiniteSet(Copies(g, D)) /\ Size(g, D) = Size(f, D) - 1
<1>1. Copies(g, D) \subseteq Copies(f, D)
  BY DEF Copies
<1>2. IsFiniteSet(Copies(g, D))
  BY <1>1, FS_Subset
<1>3. Size(f, D) = Size(g, D) + 1
  BY <1>2, BagMore
<1>4. Size(g, D) \in Nat
  BY <1>2, FS_CardinalityType DEF Size
<1>. QED
  BY <1>2, <1>3, <1>4

LEMMA SizeBounds ==
  ASSUME NEW D, NEW S \in SUBSET D, NEW f \in [D -> Nat], IsFiniteSet(Copies(f, S))
  PROVE  Size(f, S) \in Nat /\ \A x \in S : f[x] <= Size(f, S)
<1>1. Size(f, S) \in Nat
  BY FS_CardinalityType DEF Size
<1>2. ASSUME NEW x \in S PROVE f[x] <= Size(f, S)
  <2>1. f[x] \in Nat
    OBVIOUS
  <2>2. IsFiniteSet(1..f[x]) /\ Cardinality(1..f[x]) = f[x]
    BY <2>1, FS_Interval
  <2>3. IsFiniteSet({x}) /\ Cardinality({x}) = 1
    BY FS_Singleton
  <2>4. Cardinality({x} \X (1..f[x])) = f[x]
    <3>1. Cardinality({x} \X (1..f[x])) = Cardinality({x}) * Cardinality(1..f[x])
      BY <2>2, <2>3, FS_Product
    <3>2. Cardinality({x} \X (1..f[x])) = 1 * f[x]
      BY <2>2, <2>3, <3>1
    <3>. QED
      BY <2>1, <3>2
  <2>5. {x} \X (1..f[x]) \subseteq Copies(f, S)
    BY DEF Copies
  <2>. QED
    BY <2>4, <2>5, FS_Subset DEF Size
<1>. QED
  BY <1>1, <1>2

LEMMA CountsAreNat ==
  ASSUME PageTypes, Counted
  PROVE  /\ LessonsAsked \in Nat /\ LessonsSent \in Nat /\ MenusAsked \in Nat /\ MenusSent \in Nat
         /\ MessagesAsked \in Nat /\ MessagesSent \in Nat /\ acts \in Nat
<1>. USE DEF PageTypes, Counted
<1>1. LessonsAsked \in Nat
  BY SizeBounds, Questions DEF LessonsAsked
<1>2. LessonsSent \in Nat
  BY SizeBounds DEF LessonsSent
<1>3. MenusSent \in Nat
  BY SizeBounds DEF MenusSent
<1>4. MessagesSent \in Nat
  BY SizeBounds DEF MessagesSent
<1>. QED
  BY <1>1, <1>2, <1>3, <1>4, Questions, MenuAssumption DEF MenusAsked, MessagesAsked

LEMMA SizeZero ==
  ASSUME NEW D, NEW S \in SUBSET D, NEW f \in [D -> Nat], IsFiniteSet(Copies(f, S))
  PROVE  Size(f, S) = 0 <=> \A x \in S : f[x] = 0
<1>1. ASSUME \A x \in S : f[x] = 0 PROVE Copies(f, S) = {}
  BY <1>1 DEF Copies
<1>2. Cardinality({}) = 0
  BY FS_EmptySet
<1>3. ASSUME Size(f, S) = 0, NEW x \in S PROVE f[x] = 0
  BY <1>3, SizeBounds
<1>. QED
  BY <1>1, <1>2, <1>3 DEF Size

(* What is asked for beside lessons does not change the number of those.   *)
LEMMA ContentsSame ==
  ASSUME PageTypes, PageTypes', Counted, \A q \in Contents : asked'[q] = asked[q]
  PROVE  IsFiniteSet(Copies(asked', Contents)) /\ Size(asked', Contents) = Size(asked, Contents)
<1>1. asked \in [Question -> Nat] /\ asked' \in [Question -> Nat] /\ Contents \in SUBSET Question
  BY Questions DEF PageTypes
<1>2. Copies(asked', Contents) = Copies(asked, Contents)
  BY <1>1, CopiesSame
<1>. QED
  BY <1>2 DEF Counted, Size

LEMMA ContentsMore ==
  ASSUME PageTypes, PageTypes', Counted, NEW q \in Contents, asked'[q] = asked[q] + 1,
         \A r \in Contents : r # q => asked'[r] = asked[r]
  PROVE  IsFiniteSet(Copies(asked', Contents)) /\ Size(asked', Contents) = Size(asked, Contents) + 1
<1>1. asked \in [Question -> Nat] /\ asked' \in [Question -> Nat] /\ Contents \in SUBSET Question
  BY Questions DEF PageTypes
<1>. QED
  BY <1>1, SizeMore DEF Counted

(* What an answer takes from what is under way, and what it adds to it.    *)
Others == <<LessonsAsked, LessonsSent, MenusAsked, MenusSent, MessagesAsked, MessagesSent>>

LEMMA RouteCounts ==
  ASSUME PageTypes, PageTypes', Counted, hash \in Lesson, asked' = Route(hash, asked),
         UNCHANGED <<lessons, menus, messages>>
  PROVE  /\ Counted' /\ LessonsAsked' = LessonsAsked + 1 /\ MenusAsked' = MenusAsked + 1
         /\ UNCHANGED <<LessonsSent, MenusSent, MessagesAsked, MessagesSent>>
<1>1. asked \in [Question -> Nat]
  BY DEF PageTypes
<1>2. /\ Route(hash, asked)[Ask("menu")] = asked[Ask("menu")] + 1
      /\ Route(hash, asked)[Ask("progress")] = asked[Ask("progress")]
      /\ Route(hash, asked)[RouteTo(hash)] = asked[RouteTo(hash)] + 1
      /\ \A q \in Contents : q # RouteTo(hash) => Route(hash, asked)[q] = asked[q]
  BY <1>1, Routes
<1>3. RouteTo(hash) \in Contents
  BY Questions
<1>4. /\ asked'[RouteTo(hash)] = asked[RouteTo(hash)] + 1
      /\ \A q \in Contents : q # RouteTo(hash) => asked'[q] = asked[q]
  BY <1>2
<1>5. IsFiniteSet(Copies(asked', Contents)) /\ LessonsAsked' = LessonsAsked + 1
  BY <1>3, <1>4, ContentsMore DEF LessonsAsked
<1>6. MenusAsked' = MenusAsked + 1 /\ MessagesAsked' = MessagesAsked
  BY <1>2 DEF MenusAsked, MessagesAsked
<1>. QED
  BY <1>5, <1>6 DEF Counted, LessonsSent, MenusSent, MessagesSent

LEMMA AnswerCounts ==
  ASSUME PageTypes, PageTypes', Counted, Answers \/ CheckUrl
  PROVE  /\ Counted' /\ UNCHANGED <<acts, done>>
         /\ \/ /\ changed /\ ~changed'
               /\ \/ UNCHANGED Others
                  \/ /\ LessonsAsked' = LessonsAsked + 1 /\ MenusAsked' = MenusAsked + 1
                     /\ UNCHANGED <<LessonsSent, MenusSent, MessagesAsked, MessagesSent>>
            \/ /\ changed' = changed
               /\ \/ /\ MenusAsked' = MenusAsked - 1 /\ MenusSent' = MenusSent + 1
                     /\ UNCHANGED <<LessonsAsked, LessonsSent, MessagesAsked, MessagesSent>>
                  \/ /\ MessagesAsked' = MessagesAsked - 1 /\ MessagesSent' = MessagesSent + 1
                     /\ UNCHANGED <<LessonsAsked, LessonsSent, MenusAsked, MenusSent>>
                  \/ /\ LessonsAsked' = LessonsAsked - 1 /\ LessonsSent' = LessonsSent + 1
                     /\ UNCHANGED <<MenusAsked, MenusSent, MessagesAsked, MessagesSent>>
                  \/ /\ LessonsSent' = LessonsSent - 1 /\ MessagesAsked' = MessagesAsked + 1
                     /\ MenusAsked' \in {MenusAsked, MenusAsked + 1}
                     /\ UNCHANGED <<LessonsAsked, MenusSent, MessagesSent>>
                  \/ /\ MenusSent' = MenusSent - 1
                     /\ UNCHANGED <<LessonsAsked, LessonsSent, MenusAsked, MessagesAsked, MessagesSent>>
                  \/ /\ MessagesSent' = MessagesSent - 1
                     /\ UNCHANGED <<LessonsAsked, LessonsSent, MenusAsked, MenusSent, MessagesAsked>>
<1>. USE DEF begun, address, server, requests, screen, user, page
<1>f. UNCHANGED <<acts, done>>
  BY DEF Answers, CheckUrl, ServeMenu, ServeProgress, ServeLesson, ShowLesson, ShowMenu, ShowProgress,
     loader, registry
<1>1. CASE CheckUrl
  <2>1. changed /\ ~changed' /\ UNCHANGED <<lessons, menus, messages>>
    BY <1>1 DEF CheckUrl
  <2>2. CASE hash \in Lesson \ {fragment}
    <3>1. asked' = Route(hash, asked)
      BY <1>1, <2>2 DEF CheckUrl
    <3>. QED
      BY <1>f, <2>1, <2>2, <3>1, RouteCounts
  <2>3. CASE hash \notin Lesson \ {fragment}
    <3>1. asked' = asked
      BY <1>1, <2>3 DEF CheckUrl
    <3>2. Counted' /\ UNCHANGED Others
      BY <2>1, <3>1 DEF Counted, Others, LessonsAsked, LessonsSent, MenusAsked, MenusSent, MessagesAsked,
         MessagesSent
    <3>. QED
      BY <1>f, <2>1, <3>2
  <2>. QED
    BY <2>2, <2>3
<1>2. CASE ServeMenu
  <2>1. /\ asked'[Ask("progress")] = asked[Ask("progress")]
        /\ asked'[Ask("menu")] = asked[Ask("menu")] - 1
        /\ \A q \in Contents : asked'[q] = asked[q]
    BY <1>2, TakeCopy, Questions DEF ServeMenu, PageTypes
  <2>2. UNCHANGED <<lessons, messages, changed>>
    BY <1>2 DEF ServeMenu
  <2>3. /\ menus' \in [Marks -> Nat] /\ completed \in Marks /\ menus \in [Marks -> Nat]
        /\ menus'[completed] = menus[completed] + 1
        /\ \A c \in Marks : c # completed => menus'[c] = menus[c]
    BY <1>2, AddCopy DEF ServeMenu, PageTypes
  <2>4. IsFiniteSet(Copies(menus', Marks)) /\ MenusSent' = MenusSent + 1
    BY <2>3, BagMore DEF Counted, MenusSent
  <2>5. Counted' /\ UNCHANGED <<LessonsAsked, LessonsSent, MessagesSent>>
    BY <2>1, <2>2, <2>4, ContentsSame DEF Counted, LessonsAsked, LessonsSent, MessagesSent
  <2>. QED
    BY <1>f, <2>1, <2>2, <2>4, <2>5 DEF MenusAsked, MessagesAsked
<1>3. CASE ServeProgress
  <2>1. /\ asked'[Ask("menu")] = asked[Ask("menu")]
        /\ asked'[Ask("progress")] = asked[Ask("progress")] - 1
        /\ \A q \in Contents : asked'[q] = asked[q]
    BY <1>3, TakeCopy, Questions DEF ServeProgress, PageTypes
  <2>2. UNCHANGED <<lessons, menus, changed>>
    BY <1>3 DEF ServeProgress
  <2>3. PICK b \in BOOLEAN : messages' = Add(messages, b)
    BY <1>3, ProgressServed
  <2>4. messages \in [BOOLEAN -> Nat] /\ messages' \in [BOOLEAN -> Nat]
    BY DEF PageTypes
  <2>5. messages'[b] = messages[b] + 1 /\ \A d \in BOOLEAN : d # b => messages'[d] = messages[d]
    BY <2>3, <2>4 DEF Add
  <2>6. IsFiniteSet(Copies(messages', BOOLEAN)) /\ MessagesSent' = MessagesSent + 1
    BY <2>4, <2>5, BagMore DEF Counted, MessagesSent
  <2>7. Counted' /\ UNCHANGED <<LessonsAsked, LessonsSent, MenusSent>>
    BY <2>1, <2>2, <2>6, ContentsSame DEF Counted, LessonsAsked, LessonsSent, MenusSent
  <2>. QED
    BY <1>f, <2>1, <2>2, <2>6, <2>7 DEF MenusAsked, MessagesAsked
<1>4. ASSUME NEW q \in Question, ServeLesson(q)
      PROVE  /\ Counted' /\ changed' = changed
             /\ LessonsAsked' = LessonsAsked - 1 /\ LessonsSent' = LessonsSent + 1
             /\ UNCHANGED <<MenusAsked, MenusSent, MessagesAsked, MessagesSent>>
  <2>1. q \in Contents /\ q.lesson \in Lesson /\ asked[q] > 0
    BY <1>4, Questions DEF ServeLesson
  <2>2. asked \in [Question -> Nat] /\ asked' \in [Question -> Nat] /\ Contents \in SUBSET Question
        /\ lessons' \in [Lesson -> Nat] /\ lessons \in [Lesson -> Nat]
    BY Questions DEF PageTypes
  <2>3. asked[q] = asked'[q] + 1 /\ \A r \in Question : r # q => asked'[r] = asked[r]
    BY <1>4, <2>1, <2>2 DEF ServeLesson, Take
  <2>4. asked'[Ask("menu")] = asked[Ask("menu")] /\ asked'[Ask("progress")] = asked[Ask("progress")]
    BY <2>1, <2>3, Questions
  <2>5. IsFiniteSet(Copies(asked', Contents)) /\ LessonsAsked' = LessonsAsked - 1
    BY <2>1, <2>2, <2>3, SizeLess DEF Counted, LessonsAsked
  <2>6. lessons'[q.lesson] = lessons[q.lesson] + 1
        /\ \A m \in Lesson : m # q.lesson => lessons'[m] = lessons[m]
    BY <1>4, <2>1, <2>2 DEF ServeLesson, Add
  <2>7. IsFiniteSet(Copies(lessons', Lesson)) /\ LessonsSent' = LessonsSent + 1
    BY <2>1, <2>2, <2>6, BagMore DEF Counted, LessonsSent
  <2>8. UNCHANGED <<menus, messages, changed>>
    BY <1>4 DEF ServeLesson
  <2>. QED
    BY <2>4, <2>5, <2>7, <2>8 DEF Counted, MenusAsked, MenusSent, MessagesAsked, MessagesSent
<1>5. ASSUME NEW l \in Lesson, ShowLesson(l)
      PROVE  /\ Counted' /\ changed' = changed
             /\ LessonsSent' = LessonsSent - 1 /\ MessagesAsked' = MessagesAsked + 1
             /\ MenusAsked' \in {MenusAsked, MenusAsked + 1}
             /\ UNCHANGED <<LessonsAsked, MenusSent, MessagesSent>>
  <2>1. /\ asked'[Ask("menu")] \in {asked[Ask("menu")], asked[Ask("menu")] + 1}
        /\ asked'[Ask("progress")] = asked[Ask("progress")] + 1
        /\ \A q \in Contents : asked'[q] = asked[q]
    BY <1>5, Mores, Questions DEF ShowLesson, More, PageTypes
  <2>2. UNCHANGED <<menus, messages, changed>>
    BY <1>5 DEF ShowLesson
  <2>3. /\ lessons' \in [Lesson -> Nat] /\ lessons \in [Lesson -> Nat]
        /\ lessons[l] = lessons'[l] + 1
        /\ \A m \in Lesson : m # l => lessons'[m] = lessons[m]
    BY <1>5 DEF ShowLesson, Take, PageTypes
  <2>4. IsFiniteSet(Copies(lessons', Lesson)) /\ LessonsSent' = LessonsSent - 1
    BY <2>3, BagLess DEF Counted, LessonsSent
  <2>5. Counted' /\ UNCHANGED <<LessonsAsked, MenusSent, MessagesSent>>
    BY <2>1, <2>2, <2>4, ContentsSame DEF Counted, LessonsAsked, MenusSent, MessagesSent
  <2>. QED
    BY <2>1, <2>2, <2>4, <2>5 DEF MenusAsked, MessagesAsked
<1>6. ASSUME NEW c \in Marks, ShowMenu(c)
      PROVE  /\ Counted' /\ changed' = changed /\ MenusSent' = MenusSent - 1
             /\ UNCHANGED <<LessonsAsked, LessonsSent, MenusAsked, MessagesAsked, MessagesSent>>
  <2>1. UNCHANGED <<asked, lessons, messages, changed>>
    BY <1>6 DEF ShowMenu
  <2>2. /\ menus' \in [Marks -> Nat] /\ menus \in [Marks -> Nat]
        /\ menus[c] = menus'[c] + 1
        /\ \A d \in Marks : d # c => menus'[d] = menus[d]
    BY <1>6 DEF ShowMenu, Take, PageTypes
  <2>3. IsFiniteSet(Copies(menus', Marks)) /\ MenusSent' = MenusSent - 1
    BY <2>2, BagLess DEF Counted, MenusSent
  <2>. QED
    BY <2>1, <2>3 DEF Counted, LessonsAsked, LessonsSent, MenusAsked, MessagesAsked, MessagesSent
<1>7. ASSUME NEW b \in BOOLEAN, ShowProgress(b)
      PROVE  /\ Counted' /\ changed' = changed /\ MessagesSent' = MessagesSent - 1
             /\ UNCHANGED <<LessonsAsked, LessonsSent, MenusAsked, MenusSent, MessagesAsked>>
  <2>1. UNCHANGED <<asked, lessons, menus, changed>>
    BY <1>7 DEF ShowProgress
  <2>2. /\ messages' \in [BOOLEAN -> Nat] /\ messages \in [BOOLEAN -> Nat]
        /\ messages[b] = messages'[b] + 1
        /\ \A d \in BOOLEAN : d # b => messages'[d] = messages[d]
    BY <1>7 DEF ShowProgress, Take, PageTypes
  <2>3. IsFiniteSet(Copies(messages', BOOLEAN)) /\ MessagesSent' = MessagesSent - 1
    BY <2>2, BagLess DEF Counted, MessagesSent
  <2>. QED
    BY <2>1, <2>3 DEF Counted, LessonsAsked, LessonsSent, MenusAsked, MenusSent, MessagesAsked
<1>. QED
  BY <1>f, <1>1, <1>2, <1>3, <1>4, <1>5, <1>6, <1>7 DEF Answers

LEMMA StepKinds ==
  ASSUME [PageNext]_all
  PROVE  \/ Parse \/ LoaderRuns \/ Answers \/ CheckUrl \/ CreateViews \/ InitApp \/ Submit
         \/ \E l \in Lesson : Click(l) \/ GoTo(l)
<1>1. ASSUME NEW l \in Lesson, Click(l) \/ GoTo(l) \/ ShowLesson(l)
      PROVE  Answers \/ \E m \in Lesson : Click(m) \/ GoTo(m)
  BY <1>1 DEF Answers
<1>2. (\E q \in Question : ServeLesson(q)) \/ (\E c \in Marks : ShowMenu(c)) => Answers
  BY Zenon DEF Answers
<1>3. (\E b \in BOOLEAN : ShowProgress(b)) \/ ServeMenu \/ ServeProgress => Answers
  BY Zenon DEF Answers
<1>. QED
  BY <1>1, <1>2, <1>3, PageSteps

(* Nothing that is counted grows but by what its action allows.            *)
LEMMA CountStep ==
  ASSUME PageTypes, PageTypes', AddressInv, CountInv, [PageNext]_all
  PROVE  CountInv'
<1>. USE FactoriesRun DEF begun, address, server, requests, screen, user, page
<1>a. Counted
  BY DEF CountInv
<1>b. LessonsAsked \in Nat /\ LessonsSent \in Nat /\ MenusAsked \in Nat /\ MenusSent \in Nat
      /\ MessagesAsked \in Nat /\ MessagesSent \in Nat /\ acts \in Nat
  BY <1>a, CountsAreNat
<1>c. /\ MessagesAsked + MessagesSent + (LessonsAsked + LessonsSent + One(changed))
           <= acts + One(Entry \in done)
      /\ MenusAsked + MenusSent + (LessonsAsked + LessonsSent + One(changed)) + One(changed)
           <= 2 * (acts + One(Entry \in done)) + One(Router \in done)
  BY DEF CountInv, Pending
<1>d. ASSUME Counted',
             MessagesAsked' + MessagesSent' + (LessonsAsked' + LessonsSent' + One(changed'))
               <= acts' + One(Entry \in done'),
             MenusAsked' + MenusSent' + (LessonsAsked' + LessonsSent' + One(changed')) + One(changed')
               <= 2 * (acts' + One(Entry \in done')) + One(Router \in done')
      PROVE  CountInv'
  BY <1>d DEF CountInv, Pending, One
<1>1. CASE Parse \/ LoaderRuns
  <2>1. UNCHANGED <<asked, lessons, menus, messages, changed, acts>>
    BY <1>1 DEF Parse, LoaderRuns
  <2>2. done' \cap {Router, Entry} = done \cap {Router, Entry}
    BY <1>1 DEF Parse, LoaderRuns, loader, registry
  <2>3. Counted' /\ UNCHANGED Others
    BY <1>a, <2>1 DEF Counted, Others, LessonsAsked, LessonsSent, MenusAsked, MenusSent, MessagesAsked,
       MessagesSent
  <2>4. One(Entry \in done') = One(Entry \in done) /\ One(Router \in done') = One(Router \in done)
    BY <2>2 DEF One
  <2>. QED
    BY <1>c, <1>d, <2>1, <2>3, <2>4 DEF Others
<1>2. CASE Answers \/ CheckUrl
  <2>1. Counted' /\ acts' = acts /\ done' = done
    BY <1>2, <1>a, AnswerCounts
  <2>. QED
    BY <1>2, <1>a, <1>b, <1>c, <1>d, <2>1, AnswerCounts DEF Others, One
<1>3. CASE CreateViews
  <2>1. /\ asked'[Ask("progress")] = asked[Ask("progress")]
        /\ asked'[Ask("menu")] = asked[Ask("menu")] + 1
        /\ \A q \in Contents : asked'[q] = asked[q]
    <3>1. /\ Add(asked, Ask("menu"))[Ask("menu")] = asked[Ask("menu")] + 1
          /\ \A q \in Question : q # Ask("menu") => Add(asked, Ask("menu"))[q] = asked[q]
      BY AddCopy, Questions DEF PageTypes
    <3>. QED
      BY <1>3, <3>1, Questions DEF CreateViews
  <2>2. UNCHANGED <<lessons, menus, messages, changed, acts>>
    BY <1>3 DEF CreateViews
  <2>3. /\ Counted' /\ MenusAsked' = MenusAsked + 1
        /\ UNCHANGED <<LessonsAsked, LessonsSent, MenusSent, MessagesAsked, MessagesSent>>
    BY <1>a, <2>1, <2>2, ContentsSame
    DEF Counted, LessonsAsked, LessonsSent, MenusAsked, MenusSent, MessagesAsked, MessagesSent
  <2>. QED
    BY <1>b, <1>c, <1>d, <1>3, <2>2, <2>3 DEF One
<1>4. CASE InitApp
  <2>1. UNCHANGED <<lessons, menus, messages, changed, acts>>
    BY <1>4 DEF InitApp
  <2>2. CASE hash \in Lesson
    <3>1. asked' = Route(hash, asked)
      BY <1>4, <2>2 DEF InitApp
    <3>. QED
      BY <1>a, <1>b, <1>c, <1>d, <1>4, <2>1, <2>2, <3>1, RouteCounts DEF One
  <2>3. CASE hash \notin Lesson
    <3>1. asked' = asked
      BY <1>4, <2>3 DEF InitApp
    <3>2. Counted' /\ UNCHANGED Others
      BY <1>a, <2>1, <3>1 DEF Counted, Others, LessonsAsked, LessonsSent, MenusAsked, MenusSent,
         MessagesAsked, MessagesSent
    <3>. QED
      BY <1>b, <1>c, <1>d, <1>4, <2>1, <3>2 DEF Others, One
  <2>. QED
    BY <2>2, <2>3
<1>5. CASE Submit
  <2>. DEFINE q == [of |-> "form", lesson |-> form]
  <2>1. q \in Contents /\ q \in Question /\ asked' = Add(asked, q)
    BY <1>5, Questions DEF Submit, AddressInv
  <2>. HIDE DEF q
  <2>2. /\ asked'[q] = asked[q] + 1
        /\ \A r \in Question : r # q => asked'[r] = asked[r]
    <3>1. /\ Add(asked, q)[q] = asked[q] + 1
          /\ \A r \in Question : r # q => Add(asked, q)[r] = asked[r]
      BY <2>1, AddCopy DEF PageTypes
    <3>. QED
      BY <2>1, <3>1
  <2>3. /\ asked'[Ask("progress")] = asked[Ask("progress")]
        /\ asked'[Ask("menu")] = asked[Ask("menu")]
        /\ \A r \in Contents : r # q => asked'[r] = asked[r]
    BY <2>1, <2>2, Questions
  <2>4. UNCHANGED <<lessons, menus, messages, changed>> /\ acts' = acts + 1 /\ done' = done
    BY <1>5 DEF Submit, Act
  <2>5. IsFiniteSet(Copies(asked', Contents)) /\ LessonsAsked' = LessonsAsked + 1
    BY <1>a, <2>1, <2>2, <2>3, ContentsMore DEF LessonsAsked
  <2>6. Counted' /\ UNCHANGED <<LessonsSent, MenusAsked, MenusSent, MessagesAsked, MessagesSent>>
    BY <1>a, <2>3, <2>4, <2>5 DEF Counted, LessonsSent, MenusAsked, MenusSent, MessagesAsked, MessagesSent
  <2>. QED
    BY <1>b, <1>c, <1>d, <2>4, <2>5, <2>6 DEF One
<1>6. ASSUME NEW l \in Lesson, Click(l) \/ GoTo(l) PROVE CountInv'
  <2>1. UNCHANGED <<asked, lessons, menus, messages>> /\ acts' = acts + 1 /\ done' = done
    BY <1>6 DEF Click, GoTo, Act
  <2>2. Counted' /\ UNCHANGED Others
    BY <1>a, <2>1 DEF Counted, Others, LessonsAsked, LessonsSent, MenusAsked, MenusSent, MessagesAsked,
       MessagesSent
  <2>3. One(changed') \in {0, 1} /\ One(changed) \in {0, 1} /\ One(changed') <= One(changed) + 1
    BY DEF One
  <2>. QED
    BY <1>b, <1>c, <1>d, <2>1, <2>2, <2>3 DEF Others, One
<1>. QED
  BY StepKinds, <1>1, <1>2, <1>3, <1>4, <1>5, <1>6

-----------------------------------------------------------------------------
(* What the page is like at its start, and always. *)

LEMMA NoCopies ==
  ASSUME NEW D, NEW S \in SUBSET D
  PROVE  IsFiniteSet(Copies(None(D), S)) /\ Size(None(D), S) = 0
<1>1. Copies(None(D), S) = {}
  BY DEF Copies, None
<1>. QED
  BY <1>1, FS_EmptySet DEF Size

PageInv == PageTypes /\ AfterNeeds /\ AddressInv /\ WaveInv /\ CountInv

LEMMA PageStarts == PageInit => PageInv
<1> SUFFICES ASSUME PageInit PROVE PageInv
  OBVIOUS
<1>1. asked = None(Question) /\ lessons = None(Lesson) /\ menus = None(Marks) /\ messages = None(BOOLEAN)
  BY DEF PageInit
<1>2. /\ asked \in [Question -> Nat] /\ lessons \in [Lesson -> Nat]
      /\ menus \in [Marks -> Nat] /\ messages \in [BOOLEAN -> Nat]
  BY <1>1 DEF None
<1>3. PageTypes
  <2>1. hash \in Fragment /\ fragment \in Fragment /\ form \in Fragment
    BY MenuAssumption DEF PageInit, Fragment
  <2>2. completed \in Marks /\ menu \in Marks \cup {{"spinner"}}
    BY DEF PageInit, Marks
  <2>3. acts \in 0..MaxActs
    BY MenuAssumption DEF PageInit
  <2>. QED
    BY <1>2, <2>1, <2>2, <2>3 DEF PageInit, PageTypes
<1>4. NoLesson /\ NoMenu /\ NoProgress /\ \A c \in Marks : menus[c] = 0
  BY <1>1, Questions DEF None, NoLesson, NoMenu, NoProgress
<1>5. done = {} /\ AfterNeeds
  BY DEF PageInit, Init, AfterNeeds
<1>6. AddressInv
  BY <1>4, <1>5, MenuAssumption DEF PageInit, AddressInv
<1>7. WaveInv
  BY <1>4, MenuAssumption DEF PageInit, WaveInv, LessonThere, NoLesson, Coming
<1>8. CountInv
  <2>1. /\ IsFiniteSet(Copies(asked, Contents)) /\ Size(asked, Contents) = 0
        /\ IsFiniteSet(Copies(lessons, Lesson)) /\ Size(lessons, Lesson) = 0
        /\ IsFiniteSet(Copies(menus, Marks)) /\ Size(menus, Marks) = 0
        /\ IsFiniteSet(Copies(messages, BOOLEAN)) /\ Size(messages, BOOLEAN) = 0
    BY <1>1, Questions, NoCopies
  <2>2. asked[Ask("menu")] = 0 /\ asked[Ask("progress")] = 0 /\ ~changed /\ acts = 0
    BY <1>4 DEF NoMenu, NoProgress, PageInit
  <2>. QED
    BY <2>1, <2>2, <1>5 DEF CountInv, Counted, Pending, One, LessonsAsked, LessonsSent, MenusAsked,
       MenusSent, MessagesAsked, MessagesSent
<1>. QED
  BY <1>3, <1>5, <1>6, <1>7, <1>8 DEF PageInv

LEMMA PageInductive == PageSpec => []PageInv
<1>1. PageInv /\ [PageNext]_all /\ [Graph!Next]_done => PageInv'
  <2> SUFFICES ASSUME PageInv, [PageNext]_all, [Graph!Next]_done PROVE PageInv'
    OBVIOUS
  <2>1. AfterNeeds'
    BY AfterNeedsStep DEF PageInv
  <2>2. PageTypes'
    BY PageTypesStep DEF PageInv
  <2>3. AddressInv'
    BY <2>1, <2>2, AddressStep DEF PageInv
  <2>4. WaveInv'
    BY <2>2, WaveStep DEF PageInv
  <2>5. CountInv'
    BY <2>2, CountStep DEF PageInv
  <2>. QED
    BY <2>1, <2>2, <2>3, <2>4, <2>5 DEF PageInv
<1>2. PageSpec => [][Graph!Next]_done
  BY PageImplementsGraph, PTL DEF ImplementsGraph, Graph!Spec
<1>. QED
  BY <1>1, <1>2, PageStarts, PTL DEF PageSpec

(* No more can be under way than the user's actions account for.           *)
LEMMA NoMoreThanMany ==
  ASSUME PageTypes, CountInv
  PROVE  /\ asked \in [Question -> Many] /\ lessons \in [Lesson -> Many]
         /\ menus \in [Marks -> Many] /\ messages \in [BOOLEAN -> Many]
<1>a. Counted
  BY DEF CountInv
<1>b. LessonsAsked \in Nat /\ LessonsSent \in Nat /\ MenusAsked \in Nat /\ MenusSent \in Nat
      /\ MessagesAsked \in Nat /\ MessagesSent \in Nat
  BY <1>a, CountsAreNat
<1>c. /\ MessagesAsked + MessagesSent + (LessonsAsked + LessonsSent + One(changed))
           <= acts + One(Entry \in done)
      /\ MenusAsked + MenusSent + (LessonsAsked + LessonsSent + One(changed)) + One(changed)
           <= 2 * (acts + One(Entry \in done)) + One(Router \in done)
  BY DEF CountInv, Pending
<1>d. acts \in Nat /\ MaxActs \in Nat /\ acts <= MaxActs
  BY MenuAssumption DEF PageTypes
<1>e. /\ asked \in [Question -> Nat] /\ lessons \in [Lesson -> Nat]
      /\ menus \in [Marks -> Nat] /\ messages \in [BOOLEAN -> Nat]
  BY DEF PageTypes
<1>1. \A q \in Contents : asked[q] <= LessonsAsked
  BY <1>a, <1>e, Questions, SizeBounds DEF Counted, LessonsAsked
<1>2. \A l \in Lesson : lessons[l] <= LessonsSent
  BY <1>a, <1>e, SizeBounds DEF Counted, LessonsSent
<1>3. \A c \in Marks : menus[c] <= MenusSent
  BY <1>a, <1>e, SizeBounds DEF Counted, MenusSent
<1>4. \A b \in BOOLEAN : messages[b] <= MessagesSent
  BY <1>a, <1>e, SizeBounds DEF Counted, MessagesSent
<1>5. /\ LessonsAsked <= 2 * MaxActs + 3 /\ LessonsSent <= 2 * MaxActs + 3
      /\ MenusAsked <= 2 * MaxActs + 3 /\ MenusSent <= 2 * MaxActs + 3
      /\ MessagesAsked <= 2 * MaxActs + 3 /\ MessagesSent <= 2 * MaxActs + 3
  BY <1>b, <1>c, <1>d DEF One
<1>6. \A q \in Question : asked[q] <= 2 * MaxActs + 3
  <2>1. ASSUME NEW q \in Contents PROVE asked[q] <= 2 * MaxActs + 3
    <3>1. asked[q] \in Nat /\ asked[q] <= LessonsAsked
      BY <1>1, <1>e, Questions
    <3>. QED
      BY <3>1, <1>5, <1>b, <1>d
  <2>. QED
    BY <2>1, <1>5, Questions DEF MenusAsked, MessagesAsked
<1>7. \A l \in Lesson : lessons[l] <= 2 * MaxActs + 3
  BY <1>2, <1>5, <1>b, <1>d, <1>e
<1>8. \A c \in Marks : menus[c] <= 2 * MaxActs + 3
  BY <1>3, <1>5, <1>b, <1>d, <1>e
<1>9. \A b \in BOOLEAN : messages[b] <= 2 * MaxActs + 3
  BY <1>4, <1>5, <1>b, <1>d, <1>e
<1>. QED
  BY <1>6, <1>7, <1>8, <1>9, <1>d, <1>e DEF Many

(* Every variable of the page keeps its type: of requests and answers there *)
(* are never more under way than 2 * MaxActs + 3.                          *)
THEOREM PageTypeCorrect == PageSpec => []PageTypeOK
<1>1. TypeOK /\ PageInv => PageTypeOK
  BY NoMoreThanMany DEF PageInv, PageTypes, PageTypeOK
<1>. QED
  BY <1>1, PageIsLoaded, TypeCorrect, PageInductive, PTL

(* Whatever races went before: once the user has let the page come to rest *)
(* and done one thing more, and that has come to rest too, the page shows  *)
(* the lesson of the address and of the session, with the message and the  *)
(* marks of what the server knows to be completed, and the menu has that   *)
(* lesson selected, as long as lessons are chosen there.                   *)
THEOREM RestingMenu == PageSpec => []RestingMenuAgrees
<1>1. PageInv => RestingMenuAgrees
  <2> SUFFICES ASSUME PageInv, Works, AtRest, ~raced
               PROVE  /\ wired => menu = completed \cap Lab
                      /\ shown # "none" =>
                           message = (shown \in completed) /\ shown = current /\ shown = hash
                           /\ shown = form
                      /\ ~strayed /\ selected # "none" => selected = shown
    BY DEF RestingMenuAgrees
  <2>1. NoLesson /\ NoMenu /\ NoProgress /\ ~changed /\ ~Coming
    BY NothingOnItsWay DEF PageInv, Coming
  <2>2. Entry \in done /\ elements = "there" /\ hash = fragment
    BY <2>1 DEF Works, PageInv, AddressInv
  <2>3. LessonThere
    BY <2>1 DEF PageInv, WaveInv
  <2>4. wired => menu = completed \cap Lab
    BY <2>1, <2>2, <2>3 DEF LessonThere
  <2>5. ASSUME shown # "none"
        PROVE  message = (shown \in completed) /\ shown = current /\ shown = hash /\ shown = form
    <3>1. shown = current /\ shown = hash /\ (message <=> current \in completed)
      BY <2>1, <2>3, <2>5 DEF LessonThere
    <3>2. shown = form
      BY <2>1, <2>2, <2>5, <3>1 DEF PageInv, AddressInv
    <3>3. message = (shown \in completed)
      BY <3>1 DEF PageInv, PageTypes
    <3>. QED
      BY <3>1, <3>2, <3>3
  <2>6. ASSUME ~strayed, selected # "none" PROVE selected = shown
    <3>1. selected = hash /\ selected \in Lesson
      BY <2>6 DEF PageInv, AddressInv, PageTypes
    <3>2. shown # "none"
      BY <2>1, <2>2, <3>1 DEF PageInv, AddressInv
    <3>. QED
      BY <2>5, <3>1, <3>2
  <2>. QED
    BY <2>4, <2>5, <2>6
<1>. QED
  BY <1>1, PageInductive, PTL

(* The page comes to rest: each answer, whatever it sets off, and each     *)
(* change of the address takes from a number that is 0 at rest, and only   *)
(* the user and the start of the application add to it.                    *)
THEOREM AnswersEnd ==
  PageSpec => AnswersRunOut /\ [](PageLeft \in Nat /\ (AtRest <=> PageLeft = 0))
<1>1. ASSUME PageTypes, Counted
      PROVE  PageLeft \in Nat /\ (AtRest <=> PageLeft = 0)
  <2>1. LessonsAsked \in Nat /\ LessonsSent \in Nat /\ MenusAsked \in Nat /\ MenusSent \in Nat
        /\ MessagesAsked \in Nat /\ MessagesSent \in Nat /\ One(changed) \in Nat
    BY <1>1, CountsAreNat DEF One
  <2>2. PageLeft \in Nat /\ (PageLeft = 0 <=>
          /\ ~changed /\ LessonsAsked = 0 /\ LessonsSent = 0 /\ MenusAsked = 0 /\ MenusSent = 0
          /\ MessagesAsked = 0 /\ MessagesSent = 0)
    BY <2>1 DEF PageLeft, One
  <2>3. /\ asked \in [Question -> Nat] /\ lessons \in [Lesson -> Nat]
        /\ menus \in [Marks -> Nat] /\ messages \in [BOOLEAN -> Nat]
    BY <1>1 DEF PageTypes
  <2>4. /\ LessonsAsked = 0 <=> \A q \in Contents : asked[q] = 0
        /\ LessonsSent = 0 <=> \A l \in Lesson : lessons[l] = 0
        /\ MenusSent = 0 <=> \A c \in Marks : menus[c] = 0
        /\ MessagesSent = 0 <=> \A b \in BOOLEAN : messages[b] = 0
    <3>1. LessonsAsked = 0 <=> \A q \in Contents : asked[q] = 0
      BY <1>1, <2>3, Questions, SizeZero DEF Counted, LessonsAsked
    <3>2. LessonsSent = 0 <=> \A l \in Lesson : lessons[l] = 0
      BY <1>1, <2>3, SizeZero DEF Counted, LessonsSent
    <3>3. MenusSent = 0 <=> \A c \in Marks : menus[c] = 0
      BY <1>1, <2>3, SizeZero DEF Counted, MenusSent
    <3>4. MessagesSent = 0 <=> \A b \in BOOLEAN : messages[b] = 0
      <4>1. \A S \in SUBSET BOOLEAN : IsFiniteSet(Copies(messages, S)) =>
              (Size(messages, S) = 0 <=> \A b \in S : messages[b] = 0)
        BY <2>3, SizeZero
      <4>2. IsFiniteSet(Copies(messages, BOOLEAN)) /\ BOOLEAN \in SUBSET BOOLEAN
        BY <1>1 DEF Counted
      <4>. QED
        BY <4>1, <4>2, Zenon DEF MessagesSent
    <3>. QED
      BY <3>1, <3>2, <3>3, <3>4
  <2>5. ~OnItsWay(asked) <=> (\A q \in Contents : asked[q] = 0) /\ MenusAsked = 0 /\ MessagesAsked = 0
    BY <2>3, Questions DEF OnItsWay, MenusAsked, MessagesAsked
  <2>6. /\ ~OnItsWay(lessons) <=> \A l \in Lesson : lessons[l] = 0
        /\ ~OnItsWay(menus) <=> \A c \in Marks : menus[c] = 0
        /\ ~OnItsWay(messages) <=> \A b \in BOOLEAN : messages[b] = 0
    BY <2>3 DEF OnItsWay
  <2>. QED
    BY <2>2, <2>4, <2>5, <2>6 DEF AtRest
<1>2. ASSUME PageTypes, PageTypes', Counted, Answers \/ CheckUrl
      PROVE  PageLeft' \in Int /\ PageLeft' < PageLeft
  <2>1. LessonsAsked \in Nat /\ LessonsSent \in Nat /\ MenusAsked \in Nat /\ MenusSent \in Nat
        /\ MessagesAsked \in Nat /\ MessagesSent \in Nat
    BY <1>2, CountsAreNat
  <2>2. PageLeft' = 9 * One(changed') + 6 * LessonsAsked' + 5 * LessonsSent'
                      + 2 * MenusAsked' + MenusSent' + 2 * MessagesAsked' + MessagesSent'
    BY DEF PageLeft, One
  <2>. QED
    BY <1>2, <2>1, <2>2, AnswerCounts DEF PageLeft, Others, One
<1>3. ASSUME PageTypes, PageTypes', Counted, [PageNext]_all
      PROVE  [/\ Answers \/ CheckUrl => PageLeft' < PageLeft
              /\ PageLeft' > PageLeft =>
                   acts' = acts + 1 \/ done' \cap {Router, Entry} # done \cap {Router, Entry}]_all
  <2>1. ASSUME Answers \/ CheckUrl PROVE PageLeft' \in Int /\ PageLeft' < PageLeft
    BY <1>2, <1>3, <2>1
  <2>2. ASSUME Parse \/ LoaderRuns PROVE PageLeft' = PageLeft
    BY <2>2 DEF Parse, LoaderRuns, page, requests, address, PageLeft, One, LessonsAsked, LessonsSent,
       MenusAsked, MenusSent, MessagesAsked, MessagesSent
  <2>3. ASSUME CreateViews \/ InitApp
        PROVE  done' \cap {Router, Entry} # done \cap {Router, Entry}
    BY <2>3 DEF CreateViews, InitApp, Define, Ready
  <2>4. ASSUME Submit \/ \E l \in Lesson : Click(l) \/ GoTo(l) PROVE acts' = acts + 1
    BY <2>4 DEF Submit, Click, GoTo, Act
  <2>5. PageLeft \in Nat
    BY <1>1, <1>3
  <2>. QED
    BY <1>3, <2>1, <2>2, <2>3, <2>4, <2>5, StepKinds
<1>4. PageInv => PageTypes /\ Counted
  BY DEF PageInv, CountInv
<1>. QED
  BY <1>1, <1>3, <1>4, PageInductive, PTL DEF PageSpec, AnswersRunOut
=============================================================================
