--------------------------- MODULE LessonTracking ---------------------------
(***************************************************************************)
(* How the progress of one user in the staged lessons is kept: the cache   *)
(* of trackers in UserTracker, the tracker objects (RandomLessonTracker),  *)
(* their property files, and the requests that touch them.  Requests run   *)
(* in parallel in the servlet container, none of this code takes a lock,   *)
(* and the server may stop at any point.                                   *)
(*                                                                         *)
(* The cache is two levels of HashMap, user -> title -> tracker.  A map is *)
(* named after the thread that created it: a thread creates one at most,   *)
(* because the user's entry is never removed.                              *)
(***************************************************************************)
EXTENDS Naturals, FiniteSets

CONSTANTS
  Thread,    (* container threads that serve this user's requests          *)
  Lesson,    (* the lessons with stages (subclasses of RandomLessonAdapter) *)
  Requests,  (* the kinds of request considered, a subset of Kind           *)
  NumStages, (* length of getStages(), the same for every lesson           *)
  Tracker,   (* the objects a tracker can be; a free one always exists     *)
  None       (* Java null                                                  *)

Kind  == {"page", "look", "restart", "catcher"}
Accident == {"replaced", "stale", "failed", "torn", "revived", "forged"}

ASSUME ConstantsAssumption ==
  /\ Requests \subseteq Kind
  /\ NumStages \in Nat \ {0}
  /\ None \notin Thread \cup Tracker \cup Lesson \cup Accident

VARIABLES
  disk,      (* disk[l]: content of the lesson's property file             *)
  storage,   (* UserTracker.storage: the user's map, or None               *)
  maps,      (* maps[m][l]: entry of l in map m, or None                   *)
  completed, (* completed[k]: the stages tracker k holds as completed      *)
  stage,     (* stage[k]: number of the stage tracker k is at, 0 for null  *)
  props,     (* props[k]: lessonProperties of tracker k                    *)
  pc, kind, phase, at, umap, trk, snap, (* locals of the requests          *)
  gain,      (* history: stages completed by the running request           *)
  earned,    (* history: stages the user ever completed                    *)
  forged,    (* history: stages a parameter of Catcher marked as completed *)
             (* while the properties were being stored                     *)
  since,     (* history: stages completed since the last restart           *)
  acked,     (* history: those whose request has been answered             *)
  kept,      (* history: lessons whose Catcher property has been stored    *)
  accident,  (* history: the first thing that happened to the lesson that  *)
             (* may lose progress, or None                                 *)
  alone      (* history: the request, if any, that has been the only one   *)
             (* since it began                                             *)

store   == <<disk, storage, maps>>
objects == <<completed, stage, props>>
local   == <<pc, kind, phase, at, umap, trk, snap>>
history == <<gain, earned, forged, since, acked, kept, accident>>
vars    == <<store, objects, local, history, alone>>

Stage == 1..NumStages
StageOrNull == 0..NumStages
Props == [done : SUBSET Stage, stage : StageOrNull, custom : BOOLEAN]

(* A file that does not exist and one that was truncated and not written   *)
(* yet load alike: no property is found in either.                         *)
NoProps == [done |-> {}, stage |-> 0, custom |-> FALSE]
NoEntries == [l \in Lesson |-> None]

Phase == {"act", "restart", "catch", "update", "publish"}
PC    == {"idle", "userMap", "newMap", "get", "load", "put", "use",
          "props", "open", "write"}

TypeOK ==
  /\ disk \in [Lesson -> Props]
  /\ storage \in Thread \cup {None}
  /\ maps \in [Thread -> [Lesson -> Tracker \cup {None}]]
  /\ completed \in [Tracker -> SUBSET Stage]
  /\ stage \in [Tracker -> StageOrNull]
  /\ props \in [Tracker -> Props]
  /\ pc \in [Thread -> PC]
  /\ kind \in [Thread -> Kind]
  /\ phase \in [Thread -> Phase]
  /\ at \in [Thread -> Lesson]
  /\ umap \in [Thread -> Thread \cup {None}]
  /\ trk \in [Thread -> Tracker \cup {None}]
  /\ snap \in [Thread -> SUBSET Stage]
  /\ gain \in [Thread -> SUBSET Stage]
  /\ earned \in [Lesson -> SUBSET Stage]
  /\ forged \in [Lesson -> SUBSET Stage]
  /\ since \in [Lesson -> SUBSET Stage]
  /\ acked \in [Lesson -> SUBSET Stage]
  /\ kept \subseteq Lesson
  /\ accident \in [Lesson -> Accident \cup {None}]
  /\ alone \subseteq Thread

-----------------------------------------------------------------------------
(* The entry the current user map has for a lesson. *)
Cached(l) == IF storage = None THEN None ELSE maps[storage][l]

(* RandomLessonTracker.getStage: a null stage is read as the first. *)
GetStage(k) == IF stage[k] = 0 THEN 1 ELSE stage[k]

(* Maps and objects a request can still reach; the others are garbage. *)
Live == ({storage} \cup {umap[t] : t \in Thread}) \ {None}
Used == {trk[t] : t \in Thread} \cup {maps[m][l] : m \in Live, l \in Lesson}

(* Only the first accident of a lesson is recorded. *)
Blame(l, p, a) ==
  accident' = [accident EXCEPT ![l] = IF @ = None /\ p THEN a ELSE @]

Goto(t, from, to) == pc[t] = from /\ pc' = [pc EXCEPT ![t] = to]

(* A request ends: its locals go. *)
Leave(t) ==
  /\ pc' = [pc EXCEPT ![t] = "idle"]
  /\ trk' = [trk EXCEPT ![t] = None]
  /\ umap' = [umap EXCEPT ![t] = None]
  /\ snap' = [snap EXCEPT ![t] = {}]
  /\ kind' = [kind EXCEPT ![t] = "look"]
  /\ phase' = [phase EXCEPT ![t] = "act"]
  /\ UNCHANGED at

(* The request calls getLessonTracker again, for its next phase. *)
Again(t, p) ==
  /\ pc' = [pc EXCEPT ![t] = "userMap"]
  /\ phase' = [phase EXCEPT ![t] = p]
  /\ trk' = [trk EXCEPT ![t] = None]
  /\ umap' = [umap EXCEPT ![t] = None]
  /\ snap' = [snap EXCEPT ![t] = {}]
  /\ UNCHANGED <<kind, at>>

Init ==
  /\ disk = [l \in Lesson |-> NoProps]
  /\ storage = None
  /\ maps = [m \in Thread |-> NoEntries]
  /\ completed = [k \in Tracker |-> {}]
  /\ stage = [k \in Tracker |-> 0]
  /\ props = [k \in Tracker |-> NoProps]
  /\ pc = [t \in Thread |-> "idle"]
  /\ kind = [t \in Thread |-> "look"]
  /\ phase = [t \in Thread |-> "act"]
  /\ at \in [Thread -> Lesson]
  /\ umap = [t \in Thread |-> None]
  /\ trk = [t \in Thread |-> None]
  /\ snap = [t \in Thread |-> {}]
  /\ gain = [t \in Thread |-> {}]
  /\ earned = [l \in Lesson |-> {}]
  /\ forged = [l \in Lesson |-> {}]
  /\ since = [l \in Lesson |-> {}]
  /\ acked = [l \in Lesson |-> {}]
  /\ kept = {}
  /\ accident = [l \in Lesson |-> None]
  /\ alone = {}

-----------------------------------------------------------------------------
(* A request arrives for a lesson: a page (HammerHead), a menu or progress *)
(* query, a restart, or a call of Catcher.                                 *)
Begin(t, k, l) ==
  /\ Goto(t, "idle", "userMap")
  /\ kind' = [kind EXCEPT ![t] = k]
  /\ at' = [at EXCEPT ![t] = l]
  /\ gain' = [gain EXCEPT ![t] = {}]
  /\ UNCHANGED <<store, objects, phase, umap, trk, snap, earned, forged, since,
                 acked, kept, accident>>

(* storage.get(user) in getUserMap. *)
GetUserMap(t) ==
  /\ \/ storage = None /\ Goto(t, "userMap", "newMap")
     \/ storage # None /\ phase[t] # "publish" /\ Goto(t, "userMap", "get")
     \/ storage # None /\ phase[t] = "publish" /\ Goto(t, "userMap", "put")
  /\ umap' = [umap EXCEPT ![t] = storage]
  /\ UNCHANGED <<store, objects, kind, phase, at, trk, snap, history>>

(* storage.put(user, new HashMap): a map another request has put there in  *)
(* the meantime is replaced, with the trackers in it.                      *)
NewUserMap(t) ==
  /\ Goto(t, "newMap", "get")
  /\ storage' = t
  /\ maps' = [maps EXCEPT ![t] = NoEntries]
  /\ umap' = [umap EXCEPT ![t] = t]
  /\ accident' = [l \in Lesson |->
       IF accident[l] = None /\ Cached(l) # None THEN "replaced" ELSE accident[l]]
  /\ UNCHANGED <<disk, objects, kind, phase, at, trk, snap, gain, earned, forged,
                 since, acked, kept>>

(* usermap.get(title) in getLessonTracker. *)
GetTracker(t) ==
  LET entry == maps[umap[t]][at[t]] IN
  /\ pc[t] = "get"
  /\ \/ /\ entry = None
        /\ Goto(t, "get", "load")
        /\ UNCHANGED <<trk, umap>>
     \/ /\ entry # None
        /\ Goto(t, "get", "use")
        /\ trk' = [trk EXCEPT ![t] = entry]
        /\ umap' = [umap EXCEPT ![t] = None]
  /\ UNCHANGED <<store, objects, kind, phase, at, snap, history>>

(* LessonTracker.load into a new object.  Its lessonProperties start empty. *)
Load(t, k) ==
  /\ Goto(t, "load", "put")
  /\ k \notin Used
  /\ completed' = [completed EXCEPT ![k] = disk[at[t]].done]
  /\ stage' = [stage EXCEPT ![k] = disk[at[t]].stage]
  /\ props' = [props EXCEPT ![k] = NoProps]
  /\ trk' = [trk EXCEPT ![t] = k]
  /\ UNCHANGED <<store, kind, phase, at, umap, snap, history>>

(* usermap.put(title, tracker): at the end of getLessonTracker, and again  *)
(* at the end of UserTracker.update, after which the page is answered.     *)
PutEntry(t) ==
  LET l == at[t] IN
  /\ maps' = [maps EXCEPT ![umap[t]] = [@ EXCEPT ![l] = trk[t]]]
  /\ Blame(l, umap[t] # storage \/ maps[umap[t]][l] \notin {None, trk[t]}, "replaced")

PutTracker(t) ==
  /\ phase[t] # "publish"
  /\ Goto(t, "put", "use")
  /\ PutEntry(t)
  /\ umap' = [umap EXCEPT ![t] = None]
  /\ UNCHANGED <<disk, storage, objects, kind, phase, at, trk, snap, gain,
                 earned, forged, since, acked, kept>>

PublishTracker(t) ==
  /\ pc[t] = "put" /\ phase[t] = "publish"
  /\ PutEntry(t)
  /\ acked' = [acked EXCEPT ![at[t]] = @ \cup gain[t]]
  /\ gain' = [gain EXCEPT ![t] = {}]
  /\ Leave(t)
  /\ UNCHANGED <<disk, storage, objects, earned, forged, since, kept>>

-----------------------------------------------------------------------------
(* What a request does with the tracker it got. *)
Acts(t, k) == pc[t] = "use" /\ kind[t] = k /\ phase[t] = "act"

(* The lesson finds the user has solved stage s.  It compared s with       *)
(* getStage at an earlier lookup: the tracker may be at another stage now. *)
CompleteStage(t, s) ==
  LET k == trk[t] IN
  /\ Acts(t, "page")
  /\ completed' = [completed EXCEPT ![k] = @ \cup {s}]
  /\ stage' = [stage EXCEPT ![k] = IF s < NumStages THEN s + 1 ELSE @]
  /\ gain' = [gain EXCEPT ![t] = @ \cup {s}]
  /\ earned' = [earned EXCEPT ![at[t]] = @ \cup {s}]
  /\ since' = [since EXCEPT ![at[t]] = @ \cup {s}]
  /\ \E p \in {"act", "update"} : Again(t, p)
  /\ UNCHANGED <<store, props, forged, acked, kept, accident>>

(* The user picks a stage in the menu; "null" clears it.  WebSession.update *)
(* does this for the pages and for Catcher, before anything else.          *)
ChooseStage(t, n) ==
  /\ Acts(t, "page") \/ Acts(t, "catcher")
  /\ stage' = [stage EXCEPT ![trk[t]] = n]
  /\ Again(t, "act")
  /\ UNCHANGED <<store, completed, props, history>>

(* The page only reads the tracker, or counts the visit. *)
ReadPage(t) ==
  /\ Acts(t, "page")
  /\ Again(t, "update")
  /\ UNCHANGED <<store, objects, history>>

(* The lesson throws: doPost writes an ErrorScreen and skips the update.   *)
(* Catcher catches what is thrown, and stores nothing.                     *)
PageFails(t) ==
  /\ Acts(t, "page") \/ Acts(t, "catcher")
  /\ gain' = [gain EXCEPT ![t] = {}]
  /\ Leave(t)
  /\ UNCHANGED <<store, objects, earned, forged, since, acked, kept, accident>>

Look(t) ==
  /\ Acts(t, "look")
  /\ Leave(t)
  /\ UNCHANGED <<store, objects, history>>

RestartKeepsCompleted(t) ==
  /\ \E k \in {"restart", "page", "catcher"} : Acts(t, k)
  /\ stage' = [stage EXCEPT ![trk[t]] = 1]
  /\ since' = [since EXCEPT ![at[t]] = {}]
  /\ acked' = [acked EXCEPT ![at[t]] = {}]
  /\ gain' = [u \in Thread |-> IF at[u] = at[t] THEN {} ELSE gain[u]]
  /\ Again(t, "restart")
  /\ UNCHANGED <<store, completed, props, earned, forged, kept, accident>>

(* restartLesson: setCompleted(false), then setStage(stages[0]) on the     *)
(* tracker a second lookup returns.  The restart service stores nothing; a *)
(* page or a Catcher call with the Restart parameter goes on with what it  *)
(* has to do.                                                              *)
RestartClear(t) ==
  /\ \E k \in {"restart", "page", "catcher"} : Acts(t, k)
  /\ completed' = [completed EXCEPT ![trk[t]] = {}]
  /\ stage' = [stage EXCEPT ![trk[t]] = 1]
  /\ since' = [since EXCEPT ![at[t]] = {}]
  /\ acked' = [acked EXCEPT ![at[t]] = {}]
  /\ gain' = [u \in Thread |-> IF at[u] = at[t] THEN {} ELSE gain[u]]
  /\ Again(t, "restart")
  /\ UNCHANGED <<store, props, earned, forged, kept, accident>>

RestartStageClears(t) ==
  /\ pc[t] = "use" /\ phase[t] = "restart"
  /\ completed' = [completed EXCEPT ![trk[t]] = {}]
  /\ stage' = [stage EXCEPT ![trk[t]] = 1]
  /\ \/ kind[t] = "restart" /\ Leave(t)
     \/ kind[t] # "restart" /\ Again(t, "act")
  /\ UNCHANGED <<store, props, history>>

RestartStage(t) ==
  /\ pc[t] = "use" /\ phase[t] = "restart"
  /\ stage' = [stage EXCEPT ![trk[t]] = 1]
  /\ \/ kind[t] = "restart" /\ Leave(t)
     \/ kind[t] # "restart" /\ Again(t, "act")
  /\ UNCHANGED <<store, completed, props, history>>

(* A request has set the properties of tracker k and not yet written them. *)
BeingStored(k) == \E t \in Thread : pc[t] \in {"open", "write"} /\ trk[t] = k

(* Properties after setProperty with one parameter: its name may be one of *)
(* those store uses, "<title>.<stage>.completed" or "<title>.stage".       *)
WithParameter(p) ==
  {[p EXCEPT !.custom = TRUE]} \cup {[p EXCEPT !.stage = n] : n \in Stage}
    \cup {[p EXCEPT !.done = @ \cup {s}] : s \in Stage}
    \cup {[p EXCEPT !.done = @ \ {s}] : s \in Stage}

Catching(t) == Acts(t, "catcher") \/ (pc[t] = "use" /\ phase[t] = "catch")

(* Catcher, if one parameter is PROPERTY, writes all of them under their   *)
(* own names into the properties of the tracker, looked up for each again. *)
CatchProperty(t) ==
  LET k == trk[t] IN
  /\ Catching(t)
  /\ \E p \in WithParameter(props[k]) :
       /\ props' = [props EXCEPT ![k] = p]
       /\ forged' = IF BeingStored(k)
                    THEN [forged EXCEPT ![at[t]] = @ \cup (p.done \ props[k].done)]
                    ELSE forged
       /\ Blame(at[t], /\ BeingStored(k)
                       /\ p.done # props[k].done \/ p.stage # props[k].stage, "forged")
  /\ Again(t, "catch")
  /\ UNCHANGED <<store, completed, stage, gain, earned, since, acked, kept>>

(* No parameter is left, or none was PROPERTY: Catcher stores the tracker. *)
CatchNoMore(t) ==
  /\ Catching(t)
  /\ Again(t, "update")
  /\ UNCHANGED <<store, objects, history>>

-----------------------------------------------------------------------------
(* RandomLessonTracker.store.  hasCompleted is read before the property is *)
(* set or removed, and another request may run between the two.            *)
ReadCompleted(t) ==
  /\ phase[t] = "update"
  /\ Goto(t, "use", "props")
  /\ snap' = [snap EXCEPT ![t] = completed[trk[t]]]
  /\ UNCHANGED <<store, objects, kind, phase, at, umap, trk, history>>

SetPropertiesNeverRemoved(t) ==
  LET k == trk[t] IN
  /\ Goto(t, "props", "open")
  /\ props' = [props EXCEPT ![k] =
       [done |-> @.done \cup snap[t], stage |-> GetStage(k), custom |-> @.custom]]
  /\ Blame(at[t], snap[t] # completed[k], "stale")
  /\ snap' = [snap EXCEPT ![t] = {}]
  /\ UNCHANGED <<store, completed, stage, kind, phase, at, umap, trk, gain,
                 earned, forged, since, acked, kept>>

SetPropertiesWithoutStage(t) ==
  LET k == trk[t] IN
  /\ Goto(t, "props", "open")
  /\ props' = [props EXCEPT ![k] =
       [done |-> snap[t], stage |-> @.stage, custom |-> @.custom]]
  /\ Blame(at[t], snap[t] # completed[k], "stale")
  /\ snap' = [snap EXCEPT ![t] = {}]
  /\ UNCHANGED <<store, completed, stage, kind, phase, at, umap, trk, gain,
                 earned, forged, since, acked, kept>>

SetProperties(t) ==
  LET k == trk[t] IN
  /\ Goto(t, "props", "open")
  /\ props' = [props EXCEPT ![k] =
       [done |-> snap[t], stage |-> GetStage(k), custom |-> @.custom]]
  /\ Blame(at[t], snap[t] # completed[k], "stale")
  /\ snap' = [snap EXCEPT ![t] = {}]
  /\ UNCHANGED <<store, completed, stage, kind, phase, at, umap, trk, gain,
                 earned, forged, since, acked, kept>>

(* new FileOutputStream truncates the file; what follows writes it. *)
OpenFile(t) ==
  /\ Goto(t, "open", "write")
  /\ disk' = [disk EXCEPT ![at[t]] = NoProps]
  /\ UNCHANGED <<storage, maps, objects, kind, phase, at, umap, trk, snap, history>>

(* After store a page goes on to publish; a Catcher call is answered. *)
AfterStore(t) ==
  \/ /\ kind[t] = "page"
     /\ pc' = [pc EXCEPT ![t] = "userMap"]
     /\ phase' = [phase EXCEPT ![t] = "publish"]
     /\ UNCHANGED <<kind, at, umap, trk, snap, kept>>
  \/ /\ kind[t] = "catcher"
     /\ kept' = IF props[trk[t]].custom THEN kept \cup {at[t]} ELSE kept
     /\ Leave(t)

WriteNothing(t) ==
  /\ pc[t] = "write"
  /\ AfterStore(t)
  /\ UNCHANGED <<store, objects, gain, earned, forged, since, acked, accident>>

WriteFile(t) ==
  /\ pc[t] = "write"
  /\ disk' = [disk EXCEPT ![at[t]] = props[trk[t]]]
  /\ AfterStore(t)
  /\ UNCHANGED <<storage, maps, objects, gain, earned, forged, since, acked, accident>>

(* Opening or writing fails: store prints a warning and goes on. *)
StoreFails(t) ==
  /\ pc[t] \in {"open", "write"}
  /\ AfterStore(t)
  /\ Blame(at[t], TRUE, "failed")
  /\ UNCHANGED <<store, objects, gain, earned, forged, since, acked>>

(* The server stops and starts again: only the files are left. *)
Crash ==
  /\ storage # None
  /\ storage' = None
  /\ maps' = [m \in Thread |-> NoEntries]
  /\ completed' = [k \in Tracker |-> {}]
  /\ stage' = [k \in Tracker |-> 0]
  /\ props' = [k \in Tracker |-> NoProps]
  /\ pc' = [t \in Thread |-> "idle"]
  /\ kind' = [t \in Thread |-> "look"]
  /\ phase' = [t \in Thread |-> "act"]
  /\ umap' = [t \in Thread |-> None]
  /\ trk' = [t \in Thread |-> None]
  /\ snap' = [t \in Thread |-> {}]
  /\ gain' = [t \in Thread |-> {}]
  /\ accident' = [l \in Lesson |->
       IF accident[l] # None THEN accident[l]
       ELSE IF \E t \in Thread : pc[t] = "write" /\ at[t] = l THEN "torn"
       ELSE IF disk[l].done \subseteq since[l] THEN None ELSE "revived"]
  /\ UNCHANGED <<disk, at, earned, forged, since, acked, kept>>

Step(t) ==
  \/ GetUserMap(t) \/ NewUserMap(t) \/ GetTracker(t)
  \/ \E k \in Tracker : Load(t, k)
  \/ PutTracker(t) \/ PublishTracker(t)
  \/ (\E s \in Stage : CompleteStage(t, s)) \/ (\E n \in StageOrNull : ChooseStage(t, n))
  \/ ReadPage(t) \/ PageFails(t) \/ Look(t)
  \/ RestartClear(t) \/ RestartStage(t) \/ CatchProperty(t) \/ CatchNoMore(t)
  \/ ReadCompleted(t) \/ SetProperties(t)
  \/ OpenFile(t) \/ WriteFile(t) \/ StoreFails(t)

Lone == {t \in Thread : pc[t] # "idle" /\ \A u \in Thread \ {t} : pc[u] = "idle"}

Next ==
  /\ \/ \E t \in Thread :
          \/ \E k \in Requests, l \in Lesson : Begin(t, k, l)
          \/ Step(t)
     \/ Crash
  /\ alone' = {t \in Lone' : t \in alone \/ pc[t] = "idle"}

Spec == Init /\ [][Next]_vars

-----------------------------------------------------------------------------
(* What may be on record for a lesson. *)
Credit(l) == earned[l] \cup forged[l]

(* Whatever is on record, in any tracker, any property file and the        *)
(* progress the user sees, the user has earned in that very lesson, or a   *)
(* parameter of Catcher has put it there between the property loop of a    *)
(* store of that lesson and Properties.store.  No other interleaving of    *)
(* loads, stores, restarts and Catcher calls, nor a crash, makes up a      *)
(* completed stage or moves one to another lesson.                         *)
NoForgedProgress ==
  \A l \in Lesson :
    /\ disk[l].done \subseteq Credit(l)
    /\ \A m \in Live : maps[m][l] # None =>
         completed[maps[m][l]] \subseteq Credit(l)

(* Unless one of the named accidents has happened to the lesson, the       *)
(* tracker every request finds holds all progress that was acknowledged,   *)
(* and nothing from before the last restart.                               *)
MemoryIsExact ==
  \A l \in Lesson :
    accident[l] = None /\ Cached(l) # None =>
      /\ acked[l] \subseteq completed[Cached(l)]
      /\ completed[Cached(l)] \subseteq since[l]

(* Unless one of the named accidents has happened to the lesson, progress  *)
(* whose page was answered is in the property file whenever no request is  *)
(* between truncating that file and writing it: a restart of the server    *)
(* does not lose it.                                                       *)
AckedIsDurable ==
  \A l \in Lesson :
    accident[l] = None /\ (\A t \in Thread : pc[t] = "write" => at[t] # l) =>
      acked[l] \subseteq disk[l].done

(* When a page is answered that has been the only request since it began,  *)
(* whatever overlapped before, the property file says what the tracker     *)
(* says, stage included: after a restart of the server the lesson resumes  *)
(* where the user has left it.                                             *)
AnsweredPageReloads ==
  [][\A t \in alone :
       LET k == trk[t] IN
       (/\ pc[t] = "put" /\ phase[t] = "publish" /\ storage' = storage
        /\ accident[at[t]] = None)
       => /\ disk[at[t]].done = completed[k]
          /\ disk[at[t]].stage = GetStage(k)]_vars

(* What a lesson counts as completed: what its tracker holds, or the file   *)
(* the tracker will be loaded from.                                        *)
Shown(l) == IF Cached(l) = None THEN disk[l].done ELSE completed[Cached(l)]

Progress == INSTANCE LessonProgress WITH
  shown  <- [l \in Lesson |-> Shown(l)],
  acked  <- [l \in Lesson |-> IF accident[l] = None THEN acked[l] ELSE {}],
  earned <- [l \in Lesson |-> Credit(l)],
  spoilt <- {l \in Lesson : accident[l] # None}

(* Cache, trackers and files together keep the promise of LessonProgress:  *)
(* however requests interleave, unless one of the named accidents happens  *)
(* a stage once completed stays until a restart of the lesson, and a stop  *)
(* of the server takes only what no page has answered.                     *)
KeepsProgress == Progress!Spec

(* What the comments of load and of Screen.createLessonTracker(Properties) *)
(* promise: a property a screen has set survives in the user's file.       *)
CustomPropertyKept ==
  \A l \in Lesson :
    l \in kept /\ accident[l] = None /\ (\A t \in Thread : pc[t] = "write" => at[t] # l) =>
      disk[l].custom

-----------------------------------------------------------------------------
(* The strengthenings the proofs use. *)

(* Which locals a request has at which point. *)
LocalsOK ==
  \A t \in Thread :
    /\ pc[t] = "idle" => phase[t] = "act"
    /\ pc[t] \in {"get", "load", "put"} => umap[t] \in Thread
    /\ pc[t] \in {"put", "use", "props", "open", "write"} => trk[t] \in Tracker
    /\ pc[t] \in {"props", "open", "write"} => phase[t] = "update"
    /\ phase[t] = "publish" => pc[t] \in {"userMap", "put"} /\ trk[t] \in Tracker
    /\ phase[t] # "publish" /\ pc[t] \in {"idle", "userMap", "newMap", "get", "load"} =>
         trk[t] = None
    /\ pc[t] # "props" => snap[t] = {}
    /\ pc[t] \notin {"idle", "userMap", "newMap"} \/ phase[t] = "publish" => storage # None

(* Lesson l has a reachable reference to object k. *)
Refers(l, k) ==
  \/ \E t \in Thread : trk[t] = k /\ at[t] = l
  \/ \E m \in Live : maps[m][l] = k

(* No object serves two lessons, and all it holds is to the credit of its  *)
(* lesson, as is what is about to be written.                              *)
EarnedInv ==
  /\ \A l \in Lesson : disk[l].done \subseteq Credit(l)
  /\ \A k \in Tracker, l \in Lesson : Refers(l, k) =>
       /\ completed[k] \subseteq Credit(l)
       /\ BeingStored(k) => props[k].done \subseteq Credit(l)
       /\ \A n \in Lesson : Refers(n, k) => n = l
  /\ \A t \in Thread : snap[t] \subseteq Credit(at[t])

(* The request has a tracker it got from the cache, or is storing it. *)
Holds(t)   == pc[t] \in {"use", "props", "open", "write"} \/ phase[t] = "publish"
Storing(t) == pc[t] \in {"open", "write"} \/ phase[t] = "publish"

(* A lesson without an accident: only the current map has an entry for it, *)
(* and it is the tracker of every request that has one.                    *)
OneTracker(l) ==
  /\ \A m \in Live \ {storage} : maps[m][l] = None
  /\ \A t \in Thread : at[t] = l /\ Holds(t) => trk[t] = Cached(l)

(* No tracker yet: the next one to be put is what the file holds, and no   *)
(* running request has completed anything.                                 *)
LoadedFresh(l) ==
  Cached(l) = None =>
    /\ disk[l].done \subseteq since[l]
    /\ \A t \in Thread : at[t] = l =>
         /\ gain[t] = {}
         /\ pc[t] = "put" => completed[trk[t]] = disk[l].done

TrackerExact(l) ==
  Cached(l) # None =>
    /\ acked[l] \subseteq completed[Cached(l)]
    /\ completed[Cached(l)] \subseteq since[l]
    /\ \A t \in Thread : at[t] = l => gain[t] \subseteq completed[Cached(l)]

(* What is about to be written is complete, and so is what was written. *)
StoredExact(l) ==
  /\ BeingStored(Cached(l)) => \A t \in Thread : at[t] = l /\ Storing(t) =>
       acked[l] \cup gain[t] \subseteq props[Cached(l)].done
  /\ (\A t \in Thread : pc[t] = "write" => at[t] # l) =>
       /\ acked[l] \subseteq disk[l].done
       /\ \A t \in Thread : at[t] = l /\ phase[t] = "publish" => gain[t] \subseteq disk[l].done

Exact(l) == OneTracker(l) /\ LoadedFresh(l) /\ TrackerExact(l) /\ StoredExact(l)

ExactInv == \A l \in Lesson : accident[l] = None => Exact(l)

(* Of the stages earned since the last restart, neither the file nor what   *)
(* is about to be written knows one the tracker does not: a stop brings    *)
(* nothing back that is not there now.                                     *)
Behind(l) ==
  Cached(l) # None =>
    /\ disk[l].done \cap since[l] \subseteq completed[Cached(l)]
    /\ BeingStored(Cached(l)) =>
         props[Cached(l)].done \cap since[l] \subseteq completed[Cached(l)]

BehindInv == \A l \in Lesson : accident[l] = None => Behind(l)

(* What a request that runs alone is about to write, or has written, is    *)
(* what its tracker holds.                                                 *)
LoneStore ==
  \A t \in alone : accident[at[t]] = None =>
    /\ pc[t] \in {"open", "write"} => /\ props[trk[t]].done = completed[trk[t]]
                                      /\ props[trk[t]].stage = GetStage(trk[t])
    /\ phase[t] = "publish" => /\ disk[at[t]].done = completed[trk[t]]
                               /\ disk[at[t]].stage = GetStage(trk[t])
=============================================================================
