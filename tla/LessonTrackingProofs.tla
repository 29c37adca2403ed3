------------------------ MODULE LessonTrackingProofs ------------------------
(* Proofs about LessonTracking, for any number of threads, lessons, stages *)
(* and tracker objects.                                                    *)
EXTENDS LessonTracking, TLAPS

(* A tracker always has a current stage. *)
LEMMA GetStageType ==
  ASSUME TypeOK, NEW k \in Tracker
  PROVE  GetStage(k) \in Stage
BY ConstantsAssumption DEF TypeOK, GetStage, Stage, StageOrNull

(* The stages are stage numbers, and so is the one after a stage. *)
LEMMA StageFacts == 0 \in StageOrNull /\ 1 \in StageOrNull /\ Stage \subseteq StageOrNull
                    /\ \A s \in Stage : (IF s < NumStages THEN s + 1 ELSE s) \in StageOrNull
BY ConstantsAssumption DEF Stage, StageOrNull

(* A parameter under any name leaves properties behind. *)
LEMMA WithParameterType ==
  ASSUME NEW p \in Props, NEW q \in WithParameter(p)
  PROVE  q \in Props
<1>1. p.done \in SUBSET Stage /\ p.stage \in StageOrNull /\ p.custom \in BOOLEAN
      /\ p = [done |-> p.done, stage |-> p.stage, custom |-> p.custom]
  BY DEF Props
<1>2. q = [p EXCEPT !.custom = TRUE] => q \in Props
  BY <1>1 DEF Props
<1>3. ASSUME NEW n \in Stage, q = [p EXCEPT !.stage = n] PROVE q \in Props
  BY <1>1, <1>3, StageFacts DEF Props
<1>4. ASSUME NEW d \in Stage, q = [p EXCEPT !.done = @ \cup {d}] \/ q = [p EXCEPT !.done = @ \ {d}]
      PROVE  q \in Props
  BY <1>1, <1>4 DEF Props
<1>. QED
  BY <1>2, <1>3, <1>4 DEF WithParameter

(* What setProperty with one parameter of Catcher does: only the           *)
(* properties of the request's tracker change, and if they are just being  *)
(* stored, what is new in them is held against the lesson.                 *)
LEMMA CatchPropertyDoes ==
  ASSUME TypeOK, LocalsOK, NEW t \in Thread, CatchProperty(t)
  PROVE  /\ pc[t] = "use" /\ trk[t] \in Tracker /\ at[t] \in Lesson
         /\ Again(t, "catch")
         /\ UNCHANGED <<store, completed, stage, gain, earned, since, acked, kept>>
         /\ props' \in [Tracker -> Props]
         /\ \A k \in Tracker \ {trk[t]} : props'[k] = props[k]
         /\ forged' \in [Lesson -> SUBSET Stage]
         /\ \A l \in Lesson : forged[l] \subseteq forged'[l] /\ (l # at[t] => forged'[l] = forged[l])
         /\ BeingStored(trk[t]) =>
              props'[trk[t]].done \subseteq props[trk[t]].done \cup forged'[at[t]]
         /\ accident' \in [Lesson -> Accident \cup {None}]
         /\ \A l \in Lesson \ {at[t]} : accident'[l] = accident[l]
         /\ accident[at[t]] # None => accident'[at[t]] # None
         /\ accident'[at[t]] = None =>
              /\ forged' = forged
              /\ BeingStored(trk[t]) => props'[trk[t]].done = props[trk[t]].done
<1>1. PICK p \in WithParameter(props[trk[t]]) :
        /\ props' = [props EXCEPT ![trk[t]] = p]
        /\ forged' = IF BeingStored(trk[t])
                     THEN [forged EXCEPT ![at[t]] = @ \cup (p.done \ props[trk[t]].done)]
                     ELSE forged
        /\ Blame(at[t], /\ BeingStored(trk[t])
                        /\ p.done # props[trk[t]].done \/ p.stage # props[trk[t]].stage, "forged")
  BY DEF CatchProperty
<1>2. /\ pc[t] = "use" /\ trk[t] \in Tracker /\ at[t] \in Lesson /\ Again(t, "catch")
      /\ UNCHANGED <<store, completed, stage, gain, earned, since, acked, kept>>
  BY DEF CatchProperty, Catching, Acts, LocalsOK, TypeOK
<1>3. p \in Props /\ p.done \subseteq Stage
  <2>1. props[trk[t]] \in Props
    BY <1>2 DEF TypeOK
  <2>. QED
    BY <2>1, WithParameterType DEF Props
<1>4. /\ props' \in [Tracker -> Props] /\ props'[trk[t]] = p
      /\ \A k \in Tracker \ {trk[t]} : props'[k] = props[k]
  <2>. HIDE DEF Props
  <2>. QED
    BY <1>1, <1>2, <1>3 DEF TypeOK
<1>5. /\ forged' \in [Lesson -> SUBSET Stage]
      /\ \A l \in Lesson : forged[l] \subseteq forged'[l] /\ (l # at[t] => forged'[l] = forged[l])
      /\ BeingStored(trk[t]) => forged'[at[t]] = forged[at[t]] \cup (p.done \ props[trk[t]].done)
  BY <1>1, <1>2, <1>3 DEF TypeOK
<1>6. /\ accident' \in [Lesson -> Accident \cup {None}]
      /\ \A l \in Lesson \ {at[t]} : accident'[l] = accident[l]
      /\ accident[at[t]] # None => accident'[at[t]] # None
      /\ accident'[at[t]] = None /\ BeingStored(trk[t]) => p.done = props[trk[t]].done
  BY <1>1, <1>2, ConstantsAssumption DEF Blame, TypeOK, Accident
<1>7. accident'[at[t]] = None => forged' = forged
  <2>1. CASE BeingStored(trk[t])
    <3>1. accident'[at[t]] = None => forged' = [forged EXCEPT ![at[t]] = @]
      BY <1>1, <1>6, <2>1
    <3>. QED
      BY <1>2, <3>1 DEF TypeOK
  <2>. QED
    BY <1>1, <2>1
<1>. QED
  BY <1>2, <1>4, <1>5, <1>6, <1>7

(* Every variable keeps its type, and a request's locals are what the      *)
(* point it has reached requires: no step reads a null map or tracker.     *)
THEOREM TypeCorrect == Spec => [](TypeOK /\ LocalsOK)
<1>1. Init => TypeOK /\ LocalsOK
  BY ConstantsAssumption, StageFacts DEF Init, TypeOK, LocalsOK, NoProps, NoEntries, Props, PC,
     Kind, Phase, Accident
<1>2. TypeOK /\ LocalsOK /\ [Next]_vars => TypeOK'
  <2> SUFFICES ASSUME TypeOK, LocalsOK, [Next]_vars, alone' \subseteq Thread PROVE TypeOK'
    BY DEF TypeOK, Next, Lone, vars
  <2> USE DEF TypeOK, Phase, PC, Kind, Props, Accident, store, objects, history
  <2>1. ASSUME NEW t \in Thread, NEW k \in Requests, NEW l \in Lesson, Begin(t, k, l)
        PROVE  TypeOK'
    BY <2>1, ConstantsAssumption, StageFacts DEF Begin, Goto
  <2>2. ASSUME NEW t \in Thread, GetUserMap(t)
        PROVE  TypeOK'
    BY <2>2, ConstantsAssumption, StageFacts DEF GetUserMap, Goto
  <2>3. ASSUME NEW t \in Thread, NewUserMap(t)
        PROVE  TypeOK'
    BY <2>3, ConstantsAssumption, StageFacts DEF NewUserMap, Goto, NoEntries
  <2>4. ASSUME NEW t \in Thread, GetTracker(t)
        PROVE  TypeOK'
    <3>1. maps[umap[t]][at[t]] \in Tracker \cup {None}
      BY <2>4 DEF GetTracker, LocalsOK
    <3>. QED
      BY <2>4, <3>1 DEF GetTracker, Goto
  <2>5. ASSUME NEW t \in Thread, NEW k \in Tracker, Load(t, k)
        PROVE  TypeOK'
    BY <2>5, ConstantsAssumption, StageFacts DEF Load, Goto, NoProps, LocalsOK
  <2>6. ASSUME NEW t \in Thread, PutTracker(t)
        PROVE  TypeOK'
    BY <2>6, ConstantsAssumption, StageFacts DEF PutTracker, PutEntry, Blame, Goto, LocalsOK
  <2>7. ASSUME NEW t \in Thread, PublishTracker(t)
        PROVE  TypeOK'
    BY <2>7, ConstantsAssumption, StageFacts DEF PublishTracker, PutEntry, Leave, Blame, LocalsOK
  <2>8. ASSUME NEW t \in Thread, NEW s \in Stage, CompleteStage(t, s)
        PROVE  TypeOK'
    BY <2>8, ConstantsAssumption, StageFacts DEF CompleteStage, Acts, Again, LocalsOK
  <2>9. ASSUME NEW t \in Thread, NEW n \in StageOrNull, ChooseStage(t, n)
        PROVE  TypeOK'
    <3>1. stage' \in [Tracker -> StageOrNull]
      BY <2>9 DEF ChooseStage
    <3>. QED
      BY <2>9, <3>1 DEF ChooseStage, Again
  <2>10. ASSUME NEW t \in Thread, ReadPage(t)
        PROVE  TypeOK'
    BY <2>10, ConstantsAssumption, StageFacts DEF ReadPage, Acts, Again
  <2>11. ASSUME NEW t \in Thread, PageFails(t)
        PROVE  TypeOK'
    BY <2>11, ConstantsAssumption, StageFacts DEF PageFails, Acts, Leave
  <2>12. ASSUME NEW t \in Thread, Look(t)
        PROVE  TypeOK'
    BY <2>12, ConstantsAssumption, StageFacts DEF Look, Acts, Leave
  <2>13. ASSUME NEW t \in Thread, RestartClear(t)
        PROVE  TypeOK'
    BY <2>13, ConstantsAssumption, StageFacts DEF RestartClear, Acts, Again
  <2>14. ASSUME NEW t \in Thread, RestartStage(t)
        PROVE  TypeOK'
    <3>1. CASE Leave(t)
      BY <2>14, <3>1, ConstantsAssumption, StageFacts DEF RestartStage, Leave
    <3>2. CASE Again(t, "act")
      BY <2>14, <3>2, ConstantsAssumption, StageFacts DEF RestartStage, Again
    <3>. QED
      BY <2>14, <3>1, <3>2 DEF RestartStage
  <2>15. ASSUME NEW t \in Thread, CatchProperty(t)
        PROVE  TypeOK'
    <3>. HIDE DEF Props, Accident
    <3>1. /\ Again(t, "catch")
          /\ UNCHANGED <<store, completed, stage, gain, earned, since, acked, kept>>
          /\ props' \in [Tracker -> Props] /\ forged' \in [Lesson -> SUBSET Stage]
          /\ accident' \in [Lesson -> Accident \cup {None}]
      <4>. HIDE DEF TypeOK, LocalsOK
      <4>. QED
        BY <2>15, CatchPropertyDoes
    <3>. QED
      BY <3>1 DEF Again
  <2>16. ASSUME NEW t \in Thread, ReadCompleted(t)
        PROVE  TypeOK'
    BY <2>16, ConstantsAssumption, StageFacts DEF ReadCompleted, Goto, LocalsOK
  <2>17. ASSUME NEW t \in Thread, SetProperties(t)
        PROVE  TypeOK'
    BY <2>17, ConstantsAssumption, StageFacts, GetStageType DEF SetProperties, Goto, Blame, LocalsOK
  <2>18. ASSUME NEW t \in Thread, OpenFile(t)
        PROVE  TypeOK'
    BY <2>18, ConstantsAssumption, StageFacts DEF OpenFile, Goto, NoProps
  <2>19. ASSUME NEW t \in Thread, WriteFile(t)
        PROVE  TypeOK'
    <3>1. props[trk[t]] \in Props
      BY <2>19 DEF WriteFile, LocalsOK
    <3>2. disk' \in [Lesson -> Props]
      BY <2>19, <3>1 DEF WriteFile
    <3>. HIDE DEF Props
    <3>3. CASE kind[t] = "page"
      BY <2>19, <3>2, <3>3 DEF WriteFile, AfterStore
    <3>4. CASE kind[t] = "catcher"
      <4>1. kept' \subseteq Lesson
        BY <2>19, <3>4 DEF WriteFile, AfterStore
      <4>2. Leave(t)
        BY <2>19, <3>4 DEF WriteFile, AfterStore
      <4>. QED
        BY <2>19, <3>2, <4>1, <4>2 DEF WriteFile, Leave
    <3>. QED
      BY <2>19, <3>3, <3>4 DEF WriteFile, AfterStore
  <2>20. ASSUME NEW t \in Thread, StoreFails(t)
        PROVE  TypeOK'
    <3>. HIDE DEF Props
    <3>1. accident' \in [Lesson -> Accident \cup {None}]
      BY <2>20 DEF StoreFails, Blame
    <3>2. CASE kind[t] = "page"
      BY <2>20, <3>1, <3>2 DEF StoreFails, AfterStore
    <3>3. CASE kind[t] = "catcher"
      <4>1. kept' \subseteq Lesson
        BY <2>20, <3>3 DEF StoreFails, AfterStore
      <4>2. Leave(t)
        BY <2>20, <3>3 DEF StoreFails, AfterStore
      <4>. QED
        BY <2>20, <3>1, <4>1, <4>2 DEF StoreFails, Leave
    <3>. QED
      BY <2>20, <3>2, <3>3 DEF StoreFails, AfterStore
  <2>21. CASE Crash
    BY <2>21, ConstantsAssumption, StageFacts DEF Crash, NoEntries, NoProps
  <2>22. CASE UNCHANGED vars
    BY <2>22, ConstantsAssumption, StageFacts DEF vars, local
  <2>23. ASSUME NEW t \in Thread, CatchNoMore(t)
        PROVE  TypeOK'
    BY <2>23, ConstantsAssumption, StageFacts DEF CatchNoMore, Again
  <2>. QED
    BY <2>1, <2>2, <2>3, <2>4, <2>5, <2>6, <2>7, <2>8, <2>9, <2>10, <2>11, <2>12, <2>13, <2>14, <2>15, <2>16, <2>17, <2>18, <2>19, <2>20, <2>21, <2>22, <2>23 DEF Next, Step
<1>3. TypeOK /\ LocalsOK /\ [Next]_vars => LocalsOK'
  <2> SUFFICES ASSUME TypeOK, LocalsOK, [Next]_vars PROVE LocalsOK'
    OBVIOUS
  <2> USE DEF TypeOK, LocalsOK, store, objects, history
  <2>1. ASSUME NEW t \in Thread, NEW k \in Requests, NEW l \in Lesson, Begin(t, k, l)
        PROVE  LocalsOK'
    BY <2>1, ConstantsAssumption DEF Begin, Goto
  <2>2. ASSUME NEW t \in Thread, GetUserMap(t)
        PROVE  LocalsOK'
    BY <2>2, ConstantsAssumption DEF GetUserMap, Goto
  <2>3. ASSUME NEW t \in Thread, NewUserMap(t)
        PROVE  LocalsOK'
    BY <2>3, ConstantsAssumption DEF NewUserMap, Goto, NoEntries
  <2>4. ASSUME NEW t \in Thread, GetTracker(t)
        PROVE  LocalsOK'
    BY <2>4, ConstantsAssumption DEF GetTracker, Goto
  <2>5. ASSUME NEW t \in Thread, NEW k \in Tracker, Load(t, k)
        PROVE  LocalsOK'
    BY <2>5, ConstantsAssumption DEF Load, Goto, NoProps
  <2>6. ASSUME NEW t \in Thread, PutTracker(t)
        PROVE  LocalsOK'
    BY <2>6, ConstantsAssumption DEF PutTracker, PutEntry, Blame, Goto
  <2>7. ASSUME NEW t \in Thread, PublishTracker(t)
        PROVE  LocalsOK'
    BY <2>7, ConstantsAssumption DEF PublishTracker, PutEntry, Leave, Blame
  <2>8. ASSUME NEW t \in Thread, NEW s \in Stage, CompleteStage(t, s)
        PROVE  LocalsOK'
    BY <2>8, ConstantsAssumption DEF CompleteStage, Acts, Again
  <2>9. ASSUME NEW t \in Thread, NEW n \in StageOrNull, ChooseStage(t, n)
        PROVE  LocalsOK'
    BY <2>9, ConstantsAssumption DEF ChooseStage, Acts, Again
  <2>10. ASSUME NEW t \in Thread, ReadPage(t)
        PROVE  LocalsOK'
    BY <2>10, ConstantsAssumption DEF ReadPage, Acts, Again
  <2>11. ASSUME NEW t \in Thread, PageFails(t)
        PROVE  LocalsOK'
    BY <2>11, ConstantsAssumption DEF PageFails, Acts, Leave
  <2>12. ASSUME NEW t \in Thread, Look(t)
        PROVE  LocalsOK'
    BY <2>12, ConstantsAssumption DEF Look, Acts, Leave
  <2>13. ASSUME NEW t \in Thread, RestartClear(t)
        PROVE  LocalsOK'
    BY <2>13, ConstantsAssumption DEF RestartClear, Acts, Again
  <2>14. ASSUME NEW t \in Thread, RestartStage(t)
        PROVE  LocalsOK'
    <3>1. CASE Leave(t)
      BY <2>14, <3>1, ConstantsAssumption DEF RestartStage, Leave
    <3>2. CASE Again(t, "act")
      BY <2>14, <3>2, ConstantsAssumption DEF RestartStage, Again
    <3>. QED
      BY <2>14, <3>1, <3>2 DEF RestartStage
  <2>15. ASSUME NEW t \in Thread, CatchProperty(t)
        PROVE  LocalsOK'
    <3>1. /\ pc[t] = "use" /\ Again(t, "catch") /\ UNCHANGED store
      <4>. HIDE DEF TypeOK, LocalsOK
      <4>. QED
        BY <2>15, CatchPropertyDoes
    <3>. QED
      BY <3>1, ConstantsAssumption DEF Again
  <2>16. ASSUME NEW t \in Thread, ReadCompleted(t)
        PROVE  LocalsOK'
    BY <2>16, ConstantsAssumption DEF ReadCompleted, Goto
  <2>17. ASSUME NEW t \in Thread, SetProperties(t)
        PROVE  LocalsOK'
    BY <2>17, ConstantsAssumption DEF SetProperties, Goto, Blame
  <2>18. ASSUME NEW t \in Thread, OpenFile(t)
        PROVE  LocalsOK'
    BY <2>18, ConstantsAssumption DEF OpenFile, Goto, NoProps
  <2>19. ASSUME NEW t \in Thread, WriteFile(t)
        PROVE  LocalsOK'
    <3>1. CASE kind[t] = "page"
      BY <2>19, <3>1, ConstantsAssumption DEF WriteFile, AfterStore
    <3>2. CASE kind[t] = "catcher"
      <4>1. Leave(t) /\ UNCHANGED storage
        BY <2>19, <3>2 DEF WriteFile, AfterStore
      <4>. QED
        BY <4>1, ConstantsAssumption DEF Leave
    <3>. QED
      BY <2>19, <3>1, <3>2 DEF WriteFile, AfterStore
  <2>20. ASSUME NEW t \in Thread, StoreFails(t)
        PROVE  LocalsOK'
    BY <2>20, ConstantsAssumption, SMTT(30) DEF StoreFails, AfterStore, Leave, Blame
  <2>21. CASE Crash
    BY <2>21, ConstantsAssumption DEF Crash, NoEntries, NoProps
  <2>22. CASE UNCHANGED vars
    BY <2>22, ConstantsAssumption DEF vars, local
  <2>23. ASSUME NEW t \in Thread, CatchNoMore(t)
        PROVE  LocalsOK'
    BY <2>23, ConstantsAssumption DEF CatchNoMore, Again
  <2>. QED
    BY <2>1, <2>2, <2>3, <2>4, <2>5, <2>6, <2>7, <2>8, <2>9, <2>10, <2>11, <2>12, <2>13, <2>14, <2>15, <2>16, <2>17, <2>18, <2>19, <2>20, <2>21, <2>22, <2>23 DEF Next, Step
<1>. QED
  BY <1>1, <1>2, <1>3, PTL DEF Spec

(* No step but Load makes an object reachable for a lesson; Load adds the  *)
(* object it fills, which nothing referred to before.                      *)
LEMMA RefersStep ==
  ASSUME TypeOK, LocalsOK, NEW t \in Thread, Step(t),
         NEW l \in Lesson, NEW k \in Tracker, Refers(l, k)'
  PROVE  Refers(l, k) \/ (pc[t] = "load" /\ k = trk'[t] /\ k \notin Used /\ l = at[t])
<1> USE DEF TypeOK, LocalsOK, store, objects, history, Refers, Live
<1>1. ASSUME GetUserMap(t) PROVE Refers(l, k)
  BY <1>1, ConstantsAssumption DEF GetUserMap, Goto
<1>2. ASSUME NewUserMap(t) PROVE Refers(l, k)
  BY <1>2, ConstantsAssumption DEF NewUserMap, Goto, NoEntries
<1>3. ASSUME GetTracker(t) PROVE Refers(l, k)
  BY <1>3, ConstantsAssumption DEF GetTracker, Goto
<1>4. ASSUME PutTracker(t) PROVE Refers(l, k)
  BY <1>4, ConstantsAssumption DEF PutTracker, PutEntry, Blame, Goto
<1>5. ASSUME PublishTracker(t) PROVE Refers(l, k)
  BY <1>5, ConstantsAssumption DEF PublishTracker, PutEntry, Leave, Blame
<1>6. ASSUME NEW s \in Stage, CompleteStage(t, s) PROVE Refers(l, k)
  BY <1>6, ConstantsAssumption DEF CompleteStage, Acts, Again
<1>7. ASSUME NEW n \in StageOrNull, ChooseStage(t, n) PROVE Refers(l, k)
  BY <1>7, ConstantsAssumption DEF ChooseStage, Acts, Again
<1>8. ASSUME ReadPage(t) PROVE Refers(l, k)
  BY <1>8, ConstantsAssumption DEF ReadPage, Acts, Again
<1>9. ASSUME PageFails(t) PROVE Refers(l, k)
  BY <1>9, ConstantsAssumption DEF PageFails, Acts, Leave
<1>10. ASSUME Look(t) PROVE Refers(l, k)
  BY <1>10, ConstantsAssumption DEF Look, Acts, Leave
<1>11. ASSUME RestartClear(t) PROVE Refers(l, k)
  BY <1>11, ConstantsAssumption DEF RestartClear, Acts, Again
<1>12. ASSUME RestartStage(t) PROVE Refers(l, k)
  BY <1>12, ConstantsAssumption DEF RestartStage, Leave, Again
<1>13. ASSUME CatchProperty(t) PROVE Refers(l, k)
  BY <1>13, ConstantsAssumption DEF CatchProperty, Again
<1>14. ASSUME ReadCompleted(t) PROVE Refers(l, k)
  BY <1>14, ConstantsAssumption DEF ReadCompleted, Goto
<1>15. ASSUME SetProperties(t) PROVE Refers(l, k)
  BY <1>15, ConstantsAssumption DEF SetProperties, Goto, Blame
<1>16. ASSUME OpenFile(t) PROVE Refers(l, k)
  BY <1>16, ConstantsAssumption DEF OpenFile, Goto, NoProps
<1>17. ASSUME WriteFile(t) PROVE Refers(l, k)
  BY <1>17, ConstantsAssumption DEF WriteFile, AfterStore, Leave
<1>18. ASSUME StoreFails(t) PROVE Refers(l, k)
  BY <1>18, ConstantsAssumption DEF StoreFails, AfterStore, Leave, Blame
<1>19. ASSUME NEW j \in Tracker, Load(t, j)
      PROVE  Refers(l, k) \/ (pc[t] = "load" /\ k = trk'[t] /\ k \notin Used /\ l = at[t])
  BY <1>19, ConstantsAssumption DEF Load, Goto
<1>20. ASSUME CatchNoMore(t) PROVE Refers(l, k)
  BY <1>20, ConstantsAssumption DEF CatchNoMore, Again
<1>. HIDE DEF TypeOK, LocalsOK, Refers, Live
<1>. QED
  BY <1>1, <1>2, <1>3, <1>4, <1>5, <1>6, <1>7, <1>8, <1>9, <1>10, <1>11, <1>12, <1>13, <1>14, <1>15, <1>16, <1>17, <1>18, <1>19, <1>20 DEF Step

(* Only SetProperties makes a request one that stores its tracker, and a    *)
(* request that stores keeps its tracker until it is done.                  *)
LEMMA StoringStep ==
  ASSUME TypeOK, NEW t \in Thread, Step(t)
  PROVE  /\ at' = at
         /\ \A u \in Thread \ {t} : pc'[u] = pc[u] /\ trk'[u] = trk[u]
         /\ pc'[t] \in {"open", "write"} =>
              trk'[t] = trk[t] /\ (pc[t] = "open" \/ SetProperties(t))
<1>. DEFINE Goal == /\ at' = at
                    /\ \A u \in Thread \ {t} : pc'[u] = pc[u] /\ trk'[u] = trk[u]
                    /\ pc'[t] \in {"open", "write"} =>
                         trk'[t] = trk[t] /\ (pc[t] = "open" \/ SetProperties(t))
<1>. USE DEF TypeOK
<1>1. ASSUME GetUserMap(t) PROVE Goal
  BY <1>1 DEF GetUserMap, Goto
<1>2. ASSUME NewUserMap(t) PROVE Goal
  BY <1>2 DEF NewUserMap, Goto
<1>3. ASSUME GetTracker(t) PROVE Goal
  BY <1>3 DEF GetTracker, Goto
<1>4. ASSUME PutTracker(t) PROVE Goal
  BY <1>4 DEF PutTracker, Goto
<1>5. ASSUME PublishTracker(t) PROVE Goal
  BY <1>5 DEF PublishTracker, Leave
<1>6. ASSUME ReadPage(t) PROVE Goal
  BY <1>6 DEF ReadPage, Again
<1>7. ASSUME PageFails(t) PROVE Goal
  BY <1>7 DEF PageFails, Leave
<1>8. ASSUME Look(t) PROVE Goal
  BY <1>8 DEF Look, Leave
<1>9. ASSUME RestartClear(t) PROVE Goal
  BY <1>9 DEF RestartClear, Again
<1>10. ASSUME RestartStage(t) PROVE Goal
  BY <1>10 DEF RestartStage, Leave, Again
<1>11. ASSUME CatchProperty(t) PROVE Goal
  BY <1>11 DEF CatchProperty, Again
<1>12. ASSUME CatchNoMore(t) PROVE Goal
  BY <1>12 DEF CatchNoMore, Again
<1>13. ASSUME ReadCompleted(t) PROVE Goal
  BY <1>13 DEF ReadCompleted, Goto
<1>14. ASSUME SetProperties(t) PROVE Goal
  BY <1>14 DEF SetProperties, Goto
<1>15. ASSUME OpenFile(t) PROVE Goal
  BY <1>15 DEF OpenFile, Goto
<1>16. ASSUME WriteFile(t) PROVE Goal
  BY <1>16 DEF WriteFile, AfterStore, Leave
<1>17. ASSUME StoreFails(t) PROVE Goal
  BY <1>17 DEF StoreFails, AfterStore, Leave
<1>18. ASSUME NEW k \in Tracker, Load(t, k) PROVE Goal
  BY <1>18 DEF Load, Goto
<1>19. ASSUME NEW s \in Stage, CompleteStage(t, s) PROVE Goal
  BY <1>19 DEF CompleteStage, Again
<1>20. ASSUME NEW n \in StageOrNull, ChooseStage(t, n) PROVE Goal
  BY <1>20 DEF ChooseStage, Again
<1>. HIDE DEF TypeOK, Goal
<1>0. Goal
  BY <1>1, <1>2, <1>3, <1>4, <1>5, <1>6, <1>7, <1>8, <1>9, <1>10, <1>11, <1>12, <1>13, <1>14, <1>15, <1>16, <1>17, <1>18, <1>19, <1>20 DEF Step
<1>. QED
  BY <1>0 DEF Goal

LEMMA BeingStoredStep ==
  ASSUME TypeOK, NEW t \in Thread, Step(t), NEW k, BeingStored(k)'
  PROVE  BeingStored(k) \/ (SetProperties(t) /\ k = trk[t])
<1>1. PICK u \in Thread : pc'[u] \in {"open", "write"} /\ trk'[u] = k
  BY DEF BeingStored
<1>2. CASE u = t
  BY <1>1, <1>2, StoringStep DEF BeingStored
<1>3. CASE u # t
  BY <1>1, <1>3, StoringStep DEF BeingStored
<1>. QED
  BY <1>2, <1>3

(* The tracker of a lesson is stored by requests of that lesson only. *)
LEMMA StoredByHolder ==
  ASSUME TypeOK, LocalsOK, EarnedInv, NEW l \in Lesson, NEW k \in Tracker, Refers(l, k),
         NEW u \in Thread, pc[u] \in {"open", "write"}, trk[u] = k
  PROVE  at[u] = l /\ Holds(u)
<1>1. at[u] \in Lesson /\ Refers(at[u], k)
  BY DEF Refers, TypeOK
<1>. QED
  BY <1>1 DEF EarnedInv, Holds

(* No step makes up progress, but a parameter of Catcher may add some to    *)
(* what is being stored.  The invariant behind it: an object serves one     *)
(* lesson at most, and what it holds is to the credit of that lesson.       *)
LEMMA EarnedStep ==
  ASSUME TypeOK, LocalsOK, EarnedInv, [Next]_vars
  PROVE  EarnedInv'
<1>1. CASE UNCHANGED vars
  BY <1>1 DEF vars, store, objects, local, history, EarnedInv, Refers, Live, Credit, BeingStored
<1>2. CASE Crash
  BY <1>2, ConstantsAssumption
  DEF Crash, EarnedInv, Refers, Live, NoEntries, NoProps, TypeOK, Credit
<1>3. ASSUME NEW t \in Thread, NEW r \in Requests, NEW n \in Lesson, Begin(t, r, n)
      PROVE  EarnedInv'
  <2>1. \A l \in Lesson, k \in Tracker : Refers(l, k)' => Refers(l, k)
    BY <1>3, ConstantsAssumption DEF Begin, Goto, LocalsOK, TypeOK, Refers, Live, store
  <2>2. snap'[t] = {}
    BY <1>3 DEF Begin, Goto, LocalsOK
  <2>3. \A u \in Thread : snap'[u] \subseteq Credit(at[u])'
    BY <1>3, <2>2 DEF Begin, EarnedInv, TypeOK, Credit
  <2>4. \A k \in Tracker : BeingStored(k)' => BeingStored(k)
    BY <1>3 DEF Begin, Goto, TypeOK, BeingStored
  <2>5. \A l \in Lesson : Credit(l)' = Credit(l)
    BY <1>3 DEF Begin, Credit
  <2>. QED
    BY <1>3, <2>1, <2>3, <2>4, <2>5 DEF Begin, EarnedInv, store, objects
<1>4. ASSUME NEW t \in Thread, Step(t)
      PROVE  EarnedInv'
  <2> DEFINE Disk    == \A l \in Lesson : disk'[l].done \subseteq Credit(l)'
             Objects == \A k \in Tracker, l \in Lesson : Refers(l, k) =>
                          /\ completed'[k] \subseteq Credit(l)'
                          /\ BeingStored(k)' => props'[k].done \subseteq Credit(l)'
             Snaps   == \A u \in Thread : snap'[u] \subseteq Credit(at[u])'
             Quick   == /\ UNCHANGED <<disk, completed, props, earned, forged>>
                        /\ \A u \in Thread : snap'[u] \subseteq snap[u]
  <2>1. at \in [Thread -> Lesson] /\ at' = at
    BY <1>4, StoringStep DEF TypeOK
  <2>2. \A l \in Lesson, k \in Tracker : Refers(l, k)' =>
          Refers(l, k) \/ (pc[t] = "load" /\ k = trk'[t] /\ k \notin Used /\ l = at[t])
    BY <1>4, RefersStep
  <2>3. pc[t] \in {"put", "use", "props", "open", "write"} =>
          /\ trk[t] \in Tracker
          /\ Refers(at[t], trk[t])
    BY DEF LocalsOK, Refers
  <2>4. ASSUME pc[t] # "load", Disk, Objects, Snaps PROVE EarnedInv'
    <3>1. \A l \in Lesson, k \in Tracker : Refers(l, k)' => Refers(l, k)
      BY <2>2, <2>4
    <3>2. \A l \in Lesson, k \in Tracker, n \in Lesson : Refers(l, k) /\ Refers(n, k) => n = l
      BY DEF EarnedInv
    <3>. QED
      BY <2>1, <2>4, <3>1, <3>2 DEF EarnedInv
  <2>5. \A k \in Tracker : BeingStored(k)' => BeingStored(k) \/ (SetProperties(t) /\ k = trk[t])
    BY <1>4, BeingStoredStep
  <2>6. ASSUME pc[t] # "load", ~SetProperties(t), Quick PROVE EarnedInv'
    <3>1. \A l \in Lesson : Credit(l)' = Credit(l)
      BY <2>6 DEF Credit
    <3>2. Disk /\ Snaps
      BY <2>1, <2>6, <3>1 DEF EarnedInv
    <3>3. Objects
      BY <2>5, <2>6, <3>1 DEF EarnedInv
    <3>. QED
      BY <2>4, <2>6, <3>2, <3>3
  <2>7. ASSUME NEW j \in Tracker, Load(t, j) PROVE EarnedInv'
    <3>1. \A l \in Lesson : ~ Refers(l, j)
      BY <2>7, ConstantsAssumption DEF Load, Used, Refers, TypeOK
    <3>2. /\ trk'[t] = j /\ at[t] \in Lesson /\ pc'[t] = "put" /\ pc[t] = "load"
          /\ completed'[j] = disk[at[t]].done
          /\ \A k \in Tracker \ {j} : completed'[k] = completed[k] /\ props'[k] = props[k]
          /\ disk' = disk /\ earned' = earned /\ forged' = forged /\ snap' = snap
      BY <2>7 DEF Load, Goto, TypeOK, store, history
    <3>3. ~BeingStored(j)
      BY <2>7 DEF Load, Used, BeingStored
    <3>4. \A k \in Tracker : BeingStored(k)' => BeingStored(k)
      BY <2>5, <3>2 DEF SetProperties, Goto
    <3>5. \A l \in Lesson : Credit(l)' = Credit(l)
      BY <3>2 DEF Credit
    <3>. QED
      BY <2>1, <2>2, <3>1, <3>2, <3>3, <3>4, <3>5 DEF EarnedInv
  <2>8. CASE GetUserMap(t)
    <3>1. pc[t] # "load" /\ ~SetProperties(t)
      BY <2>8 DEF GetUserMap, Goto, SetProperties
    <3>2. Quick
      BY <2>8 DEF GetUserMap, Goto, TypeOK, store, objects, history
    <3>. QED
      BY <2>6, <3>1, <3>2
  <2>9. CASE NewUserMap(t)
    <3>1. pc[t] # "load" /\ ~SetProperties(t)
      BY <2>9 DEF NewUserMap, Goto, SetProperties
    <3>2. Quick
      BY <2>9 DEF NewUserMap, Goto, TypeOK, store, objects, history
    <3>. QED
      BY <2>6, <3>1, <3>2
  <2>10. CASE GetTracker(t)
    <3>1. pc[t] # "load" /\ ~SetProperties(t)
      BY <2>10 DEF GetTracker, Goto, SetProperties
    <3>2. Quick
      BY <2>10 DEF GetTracker, Goto, TypeOK, store, objects, history
    <3>. QED
      BY <2>6, <3>1, <3>2
  <2>11. CASE PutTracker(t)
    <3>1. pc[t] # "load" /\ ~SetProperties(t)
      BY <2>11 DEF PutTracker, Goto, SetProperties
    <3>2. Quick
      BY <2>11 DEF PutTracker, Goto, TypeOK, store, objects, history
    <3>. QED
      BY <2>6, <3>1, <3>2
  <2>12. CASE PublishTracker(t)
    <3>1. pc[t] # "load" /\ ~SetProperties(t)
      BY <2>12 DEF PublishTracker, Leave, SetProperties, Goto, Acts
    <3>2. Quick
      BY <2>12 DEF PublishTracker, Leave, TypeOK, store, objects, history
    <3>. QED
      BY <2>6, <3>1, <3>2
  <2>13. CASE ReadPage(t)
    <3>1. pc[t] # "load" /\ ~SetProperties(t)
      BY <2>13 DEF ReadPage, Again, SetProperties, Goto, Acts
    <3>2. Quick
      BY <2>13 DEF ReadPage, Again, TypeOK, store, objects, history
    <3>. QED
      BY <2>6, <3>1, <3>2
  <2>14. CASE PageFails(t)
    <3>1. pc[t] # "load" /\ ~SetProperties(t)
      BY <2>14 DEF PageFails, Leave, SetProperties, Goto, Acts
    <3>2. Quick
      BY <2>14 DEF PageFails, Leave, TypeOK, store, objects, history
    <3>. QED
      BY <2>6, <3>1, <3>2
  <2>15. CASE Look(t)
    <3>1. pc[t] # "load" /\ ~SetProperties(t)
      BY <2>15 DEF Look, Leave, SetProperties, Goto, Acts
    <3>2. Quick
      BY <2>15 DEF Look, Leave, TypeOK, store, objects, history
    <3>. QED
      BY <2>6, <3>1, <3>2
  <2>16. CASE CatchNoMore(t)
    <3>1. pc[t] # "load" /\ ~SetProperties(t)
      BY <2>16 DEF CatchNoMore, Again, SetProperties, Goto, Acts, Catching
    <3>2. Quick
      BY <2>16 DEF CatchNoMore, Again, TypeOK, store, objects, history
    <3>. QED
      BY <2>6, <3>1, <3>2
  <2>17. CASE StoreFails(t)
    <3>1. pc[t] # "load" /\ ~SetProperties(t)
      BY <2>17 DEF StoreFails, AfterStore, Leave, SetProperties, Goto, Acts
    <3>2. Quick
      BY <2>17 DEF StoreFails, AfterStore, Leave, TypeOK, store, objects, history
    <3>. QED
      BY <2>6, <3>1, <3>2
  <2>18. CASE RestartStage(t)
    <3>1. pc[t] # "load" /\ ~SetProperties(t)
      BY <2>18 DEF RestartStage, SetProperties, Goto
    <3>2. \A u \in Thread : snap'[u] \subseteq snap[u]
      BY <2>18 DEF RestartStage, Leave, Again, TypeOK
    <3>. QED
      BY <2>6, <2>18, <3>1, <3>2 DEF RestartStage, store, history
  <2>19. ASSUME NEW n \in StageOrNull, ChooseStage(t, n) PROVE EarnedInv'
    <3>1. pc[t] # "load" /\ ~SetProperties(t)
      BY <2>19 DEF ChooseStage, Acts, SetProperties, Goto
    <3>2. Quick
      BY <2>19 DEF ChooseStage, Again, TypeOK, store, history
    <3>. QED
      BY <2>6, <3>1, <3>2
  <2>20. ASSUME NEW s \in Stage, CompleteStage(t, s) PROVE EarnedInv'
    <3>1. pc[t] # "load" /\ ~SetProperties(t)
      BY <2>20 DEF CompleteStage, Acts, SetProperties, Goto
    <3>2. Disk
      BY <2>20 DEF CompleteStage, EarnedInv, TypeOK, Credit, store, objects, history
    <3>3. Objects
      BY <2>1, <2>3, <2>5, <2>20, <3>1 DEF CompleteStage, Acts, Again, EarnedInv, TypeOK, Credit, store, objects, history
    <3>4. Snaps
      BY <2>1, <2>3, <2>20 DEF CompleteStage, Acts, Again, EarnedInv, TypeOK, Credit, store, objects, history
    <3>. QED
      BY <2>4, <3>1, <3>2, <3>3, <3>4
  <2>21. CASE RestartClear(t)
    <3>1. pc[t] # "load" /\ ~SetProperties(t)
      BY <2>21 DEF RestartClear, Acts, SetProperties, Goto
    <3>2. Disk
      BY <2>21 DEF RestartClear, EarnedInv, TypeOK, Credit, store, objects, history
    <3>3. Objects
      <4>1. /\ props' = props /\ \A l \in Lesson : Credit(l)' = Credit(l)
            /\ \A k \in Tracker : completed'[k] \subseteq completed[k]
        BY <2>21 DEF RestartClear, Credit, TypeOK
      <4>. QED
        BY <2>5, <3>1, <4>1 DEF EarnedInv
    <3>4. Snaps
      BY <2>1, <2>3, <2>21 DEF RestartClear, Acts, Again, EarnedInv, TypeOK, Credit, store, objects, history
    <3>. QED
      BY <2>4, <3>1, <3>2, <3>3, <3>4
  <2>22. CASE ReadCompleted(t)
    <3>1. pc[t] # "load" /\ ~SetProperties(t)
      BY <2>22 DEF ReadCompleted, SetProperties, Goto
    <3>2. Disk
      BY <2>22 DEF ReadCompleted, EarnedInv, TypeOK, Credit, store, objects, history
    <3>3. Objects
      BY <2>1, <2>3, <2>5, <2>22, <3>1 DEF ReadCompleted, Goto, EarnedInv, TypeOK, Credit, store, objects, history
    <3>4. Snaps
      BY <2>1, <2>3, <2>22 DEF ReadCompleted, Goto, EarnedInv, TypeOK, Credit, store, objects, history
    <3>. QED
      BY <2>4, <3>1, <3>2, <3>3, <3>4
  <2>23. CASE OpenFile(t)
    <3>1. pc[t] # "load" /\ ~SetProperties(t)
      BY <2>23 DEF OpenFile, SetProperties, Goto
    <3>2. Disk
      BY <2>23 DEF OpenFile, EarnedInv, TypeOK, Credit, store, objects, history, NoProps
    <3>3. Objects
      BY <2>1, <2>3, <2>5, <2>23, <3>1 DEF OpenFile, Goto, EarnedInv, TypeOK, Credit, store, objects, history
    <3>4. Snaps
      BY <2>1, <2>3, <2>23 DEF OpenFile, Goto, EarnedInv, TypeOK, Credit, store, objects, history
    <3>. QED
      BY <2>4, <3>1, <3>2, <3>3, <3>4
  <2>24. CASE WriteFile(t)
    <3>1. pc[t] # "load" /\ ~SetProperties(t)
      BY <2>24 DEF WriteFile, SetProperties, Goto
    <3>2. \A l \in Lesson : Credit(l)' = Credit(l)
      BY <2>24 DEF WriteFile, Credit
    <3>3. Disk
      <4>1. BeingStored(trk[t]) /\ trk[t] \in Tracker /\ Refers(at[t], trk[t])
        BY <2>3, <2>24 DEF WriteFile, BeingStored
      <4>2. props[trk[t]].done \subseteq Credit(at[t])
        BY <2>1, <4>1 DEF EarnedInv
      <4>. QED
        BY <2>24, <3>2, <4>2 DEF WriteFile, EarnedInv, TypeOK
    <3>4. Objects
      BY <2>5, <2>24, <3>1, <3>2 DEF WriteFile, EarnedInv, objects
    <3>5. \A u \in Thread : snap'[u] \subseteq snap[u]
      BY <2>24, ZenonT(30) DEF WriteFile, AfterStore, Leave, TypeOK
    <3>. QED
      BY <2>1, <2>4, <3>1, <3>2, <3>3, <3>4, <3>5 DEF EarnedInv
  <2>25. CASE SetProperties(t)
    <3>1. pc[t] = "props" /\ \A l \in Lesson : Credit(l)' = Credit(l)
      BY <2>25 DEF SetProperties, Goto, Credit
    <3>2. Disk
      BY <2>25, <3>1 DEF SetProperties, EarnedInv, store
    <3>3. Objects
      <4>1. props'[trk[t]].done = snap[t] /\ snap[t] \subseteq Credit(at[t]) /\ completed' = completed
            /\ \A k \in Tracker \ {trk[t]} : props'[k] = props[k]
        BY <2>3, <2>25, <3>1 DEF SetProperties, EarnedInv, TypeOK
      <4>. QED
        BY <2>1, <2>3, <2>5, <3>1, <4>1 DEF EarnedInv
    <3>4. \A u \in Thread : snap'[u] \subseteq snap[u]
      BY <2>25 DEF SetProperties, TypeOK
    <3>. QED
      BY <2>1, <2>4, <3>1, <3>2, <3>3, <3>4 DEF EarnedInv
  <2>26. CASE CatchProperty(t)
    <3>1. pc[t] = "use" /\ ~SetProperties(t)
      BY <2>26, CatchPropertyDoes DEF SetProperties, Goto
    <3>2. \A l \in Lesson : Credit(l) \subseteq Credit(l)'
      BY <2>26, CatchPropertyDoes DEF Credit
    <3>3. Disk
      BY <2>26, <3>2, CatchPropertyDoes DEF EarnedInv, store
    <3>4. Objects
      <4>1. completed' = completed /\ \A k \in Tracker \ {trk[t]} : props'[k] = props[k]
        BY <2>26, CatchPropertyDoes
      <4>2. ASSUME NEW l \in Lesson, l = at[t], BeingStored(trk[t])
            PROVE  props'[trk[t]].done \subseteq Credit(l)'
        <5>1. props[trk[t]].done \subseteq Credit(l)
          BY <4>2, <2>1, <2>3, <3>1 DEF EarnedInv
        <5>2. props'[trk[t]].done \subseteq props[trk[t]].done \cup forged'[l]
          BY <2>26, <4>2, CatchPropertyDoes
        <5>3. forged'[l] \subseteq Credit(l)'
          BY DEF Credit
        <5>. QED
          BY <3>2, <5>1, <5>2, <5>3
      <4>3. ASSUME NEW k \in Tracker, NEW l \in Lesson, Refers(l, k)
            PROVE  /\ completed'[k] \subseteq Credit(l)'
                   /\ BeingStored(k)' => props'[k].done \subseteq Credit(l)'
        <5>1. completed'[k] \subseteq Credit(l)'
          BY <3>2, <4>1, <4>3 DEF EarnedInv
        <5>2. CASE k = trk[t]
          <6>1. l = at[t]
            BY <2>1, <2>3, <3>1, <4>3, <5>2 DEF EarnedInv
          <6>. QED
            BY <2>5, <3>1, <4>2, <5>1, <5>2, <6>1
        <5>3. CASE k # trk[t]
          BY <2>5, <3>1, <3>2, <4>1, <4>3, <5>1, <5>3 DEF EarnedInv
        <5>. QED
          BY <5>2, <5>3
      <4>. QED
        BY <4>3
    <3>5. \A u \in Thread : snap'[u] \subseteq snap[u]
      <4>1. Again(t, "catch")
        BY <2>26, CatchPropertyDoes
      <4>. QED
        BY <4>1 DEF Again, TypeOK
    <3>. QED
      BY <2>1, <2>4, <3>1, <3>2, <3>3, <3>4, <3>5 DEF EarnedInv
  <2>. QED
    BY <1>4, <2>7, <2>8, <2>9, <2>10, <2>11, <2>12, <2>13, <2>14, <2>15, <2>16, <2>17, <2>18, <2>19, <2>20, <2>21, <2>22, <2>23, <2>24, <2>25, <2>26 DEF Step
<1>. QED
  BY <1>1, <1>2, <1>3, <1>4 DEF Next

LEMMA AlwaysEarned == Spec => []EarnedInv
<1>1. Init => EarnedInv
  BY ConstantsAssumption DEF Init, EarnedInv, Refers, Live, NoEntries, NoProps, Credit
<1>. QED
  BY <1>1, TypeCorrect, EarnedStep, PTL DEF Spec

(* No tracker, property file or cache entry ever shows a stage as completed *)
(* that the user has not completed in that lesson, unless a parameter of    *)
(* Catcher wrote its control property while a request of the lesson was     *)
(* between setting the properties and storing them; whatever the number of  *)
(* requests, lessons, stages and crashes.  At any other point such a        *)
(* parameter is overwritten by the next store, or lost with the tracker.    *)
THEOREM ProgressIsEarned == Spec => []NoForgedProgress
<1>1. TypeOK /\ LocalsOK /\ EarnedInv => NoForgedProgress
  <2> SUFFICES ASSUME TypeOK, EarnedInv, NEW l \in Lesson
               PROVE  /\ disk[l].done \subseteq Credit(l)
                      /\ \A m \in Live : maps[m][l] # None =>
                           completed[maps[m][l]] \subseteq Credit(l)
    BY DEF NoForgedProgress
  <2>1. ASSUME NEW m \in Live, maps[m][l] # None
        PROVE  maps[m][l] \in Tracker /\ Refers(l, maps[m][l])
    BY <2>1, ConstantsAssumption, SMTT(30) DEF TypeOK, Live, Refers
  <2>. QED
    BY <2>1 DEF EarnedInv
<1>. QED
  BY <1>1, TypeCorrect, AlwaysEarned, PTL

-----------------------------------------------------------------------------
(* Nothing a request of another lesson does reaches what Exact(n) is about. *)
Apart(n) ==
  /\ storage' = storage
  /\ Live' \subseteq Live
  /\ \A m \in Thread : maps'[m][n] = maps[m][n]
  /\ disk'[n] = disk[n] /\ since'[n] = since[n] /\ acked'[n] = acked[n]
  /\ at' = at
  /\ \A u \in Thread : at[u] = n =>
       pc'[u] = pc[u] /\ phase'[u] = phase[u] /\ trk'[u] = trk[u] /\ gain'[u] = gain[u]
  /\ \A u \in Thread : pc'[u] = "write" /\ at[u] = n <=> pc[u] = "write" /\ at[u] = n
  /\ \A k \in Tracker : Refers(n, k) => /\ completed'[k] = completed[k]
                                        /\ props'[k].done = props[k].done
                                        /\ BeingStored(k)' => BeingStored(k)

LEMMA ApartKeepsExact ==
  ASSUME TypeOK, LocalsOK, NEW n \in Lesson, Exact(n), Apart(n)
  PROVE  Exact(n)'
<1>1. Cached(n)' = Cached(n)
  BY DEF Apart, Cached, TypeOK
<1>2. Cached(n) # None => Cached(n) \in Tracker /\ Refers(n, Cached(n))
  BY ConstantsAssumption DEF Cached, Refers, Live, TypeOK
<1>3. \A u \in Thread : at[u] = n =>
        /\ at'[u] = n /\ Holds(u)' = Holds(u) /\ Storing(u)' = Storing(u)
        /\ trk'[u] = trk[u] /\ gain'[u] = gain[u] /\ phase'[u] = phase[u] /\ pc'[u] = pc[u]
        /\ Storing(u) => Holds(u)
  BY DEF Apart, Holds, Storing
<1>4. \A u \in Thread : at'[u] = n => at[u] = n
  BY DEF Apart
<1>5. \A u \in Thread : at[u] = n /\ Holds(u) => Cached(n) # None
  BY ConstantsAssumption DEF Exact, OneTracker, Holds, LocalsOK
<1>6. OneTracker(n)'
  <2>1. Live \subseteq Thread
    BY DEF Live, TypeOK
  <2>. QED
    BY <1>1, <1>3, <1>4, <2>1 DEF Exact, OneTracker, Apart
<1>7. LoadedFresh(n)'
  <2>1. \A u \in Thread : at[u] = n /\ pc[u] = "put" => trk[u] \in Tracker /\ Refers(n, trk[u])
    BY DEF LocalsOK, Refers
  <2>. QED
    BY <1>1, <1>3, <1>4, <2>1 DEF Exact, LoadedFresh, Apart
<1>8. TrackerExact(n)'
  BY <1>1, <1>2, <1>3, <1>4 DEF Exact, TrackerExact, Apart
<1>9. StoredExact(n)'
  <2>1. CASE Cached(n) = None
    BY <1>1, <1>3, <1>4, <1>5, <2>1 DEF Exact, StoredExact, Apart
  <2>2. CASE Cached(n) # None
    <3>1. (\E u \in Thread : pc'[u] \in {"open", "write"} /\ trk'[u] = Cached(n)) =>
            \E u \in Thread : pc[u] \in {"open", "write"} /\ trk[u] = Cached(n)
      BY <1>2, <2>2 DEF Apart, BeingStored
    <3>2. props'[Cached(n)].done = props[Cached(n)].done
      BY <1>2, <2>2 DEF Apart
    <3>. QED
      BY <1>1, <1>3, <1>4, <3>1, <3>2 DEF Exact, StoredExact, Apart, BeingStored
  <2>. QED
    BY <2>1, <2>2
<1>. QED
  BY <1>6, <1>7, <1>8, <1>9 DEF Exact

(* A step of a request leaves the lessons of the others alone, except that *)
(* NewUserMap may replace the trackers of all of them.                     *)
LEMMA StepApart ==
  ASSUME TypeOK, LocalsOK, EarnedInv, NEW t \in Thread, Step(t), ~ NewUserMap(t),
         NEW n \in Lesson, n # at[t]
  PROVE  Apart(n) /\ accident'[n] = accident[n]
<1>. DEFINE Mine == /\ at' = at
                    /\ \A u \in Thread \ {t} : /\ pc'[u] = pc[u] /\ phase'[u] = phase[u]
                                               /\ trk'[u] = trk[u] /\ umap'[u] = umap[u]
                    /\ umap'[t] \in {None, umap[t], storage}
                    /\ pc'[t] \in {"open", "write"} => trk'[t] = trk[t]
           Kept == /\ storage' = storage
                   /\ \A m \in Thread : maps'[m][n] = maps[m][n]
                   /\ disk'[n] = disk[n] /\ since'[n] = since[n] /\ acked'[n] = acked[n]
                   /\ \A u \in Thread : at[u] = n => gain'[u] = gain[u]
                   /\ accident'[n] = accident[n]
           Same(k) == completed'[k] = completed[k] /\ props'[k].done = props[k].done
           Objs == \A k \in Used \cap Tracker : k # trk[t] => Same(k)
<1>. USE DEF TypeOK, store, objects, local, history
<1>1. ASSUME GetUserMap(t) PROVE Mine /\ Kept /\ Objs
  <2>1. Mine
    BY <1>1 DEF GetUserMap, Goto
  <2>2. Kept
    BY <1>1 DEF GetUserMap, Goto
  <2>3. Objs
    BY <1>1 DEF GetUserMap, Goto
  <2>. QED
    BY <2>1, <2>2, <2>3
<1>2. ASSUME GetTracker(t) PROVE Mine /\ Kept /\ Objs
  <2>1. Mine
    BY <1>2 DEF GetTracker, Goto
  <2>2. Kept
    BY <1>2 DEF GetTracker, Goto
  <2>3. Objs
    BY <1>2 DEF GetTracker, Goto
  <2>. QED
    BY <2>1, <2>2, <2>3
<1>3. ASSUME PutTracker(t) PROVE Mine /\ Kept /\ Objs
  <2>1. Mine
    BY <1>3 DEF PutTracker, PutEntry, Blame, Goto, LocalsOK
  <2>2. Kept
    BY <1>3 DEF PutTracker, PutEntry, Blame, Goto, LocalsOK
  <2>3. Objs
    BY <1>3 DEF PutTracker, PutEntry, Blame, Goto, LocalsOK
  <2>. QED
    BY <2>1, <2>2, <2>3
<1>4. ASSUME PublishTracker(t) PROVE Mine /\ Kept /\ Objs
  <2>1. Mine
    BY <1>4 DEF PublishTracker, PutEntry, Blame, Leave, LocalsOK
  <2>2. Kept
    BY <1>4 DEF PublishTracker, PutEntry, Blame, Leave, LocalsOK
  <2>3. Objs
    BY <1>4 DEF PublishTracker, PutEntry, Blame, Leave, LocalsOK
  <2>. QED
    BY <2>1, <2>2, <2>3
<1>5. ASSUME ReadPage(t) PROVE Mine /\ Kept /\ Objs
  <2>1. Mine
    BY <1>5 DEF ReadPage, Again
  <2>2. Kept
    BY <1>5 DEF ReadPage, Again
  <2>3. Objs
    BY <1>5 DEF ReadPage, Again
  <2>. QED
    BY <2>1, <2>2, <2>3
<1>6. ASSUME PageFails(t) PROVE Mine /\ Kept /\ Objs
  <2>1. Mine
    BY <1>6 DEF PageFails, Leave
  <2>2. Kept
    BY <1>6 DEF PageFails, Leave
  <2>3. Objs
    BY <1>6 DEF PageFails, Leave
  <2>. QED
    BY <2>1, <2>2, <2>3
<1>7. ASSUME Look(t) PROVE Mine /\ Kept /\ Objs
  <2>1. Mine
    BY <1>7 DEF Look, Leave
  <2>2. Kept
    BY <1>7 DEF Look, Leave
  <2>3. Objs
    BY <1>7 DEF Look, Leave
  <2>. QED
    BY <2>1, <2>2, <2>3
<1>8. ASSUME RestartClear(t) PROVE Mine /\ Kept /\ Objs
  <2>1. Mine
    BY <1>8 DEF RestartClear, Again
  <2>2. Kept
    BY <1>8 DEF RestartClear, Again
  <2>3. Objs
    BY <1>8 DEF RestartClear, Again
  <2>. QED
    BY <2>1, <2>2, <2>3
<1>9. ASSUME RestartStage(t) PROVE Mine /\ Kept /\ Objs
  <2>1. Mine
    BY <1>9 DEF RestartStage, Leave, Again
  <2>2. Kept
    BY <1>9 DEF RestartStage, Leave, Again
  <2>3. Objs
    BY <1>9 DEF RestartStage, Leave, Again
  <2>. QED
    BY <2>1, <2>2, <2>3
<1>10. ASSUME ReadCompleted(t) PROVE Mine /\ Kept /\ Objs
  <2>1. Mine
    BY <1>10 DEF ReadCompleted, Goto
  <2>2. Kept
    BY <1>10 DEF ReadCompleted, Goto
  <2>3. Objs
    BY <1>10 DEF ReadCompleted, Goto
  <2>. QED
    BY <2>1, <2>2, <2>3
<1>11. ASSUME SetProperties(t) PROVE Mine /\ Kept /\ Objs
  <2>1. Mine
    BY <1>11 DEF SetProperties, Blame, Goto
  <2>2. Kept
    BY <1>11 DEF SetProperties, Blame, Goto
  <2>3. Objs
    BY <1>11 DEF SetProperties, Blame, Goto
  <2>. QED
    BY <2>1, <2>2, <2>3
<1>12. ASSUME OpenFile(t) PROVE Mine /\ Kept /\ Objs
  <2>1. Mine
    BY <1>12 DEF OpenFile, Goto
  <2>2. Kept
    BY <1>12 DEF OpenFile, Goto
  <2>3. Objs
    BY <1>12 DEF OpenFile, Goto
  <2>. QED
    BY <2>1, <2>2, <2>3
<1>13. ASSUME WriteFile(t) PROVE Mine /\ Kept /\ Objs
  <2>1. Mine
    BY <1>13 DEF WriteFile, AfterStore, Leave
  <2>2. Kept
    BY <1>13 DEF WriteFile, AfterStore, Leave
  <2>3. Objs
    BY <1>13 DEF WriteFile, AfterStore, Leave
  <2>. QED
    BY <2>1, <2>2, <2>3
<1>14. ASSUME StoreFails(t) PROVE Mine /\ Kept /\ Objs
  <2>1. Mine
    BY <1>14 DEF StoreFails, AfterStore, Leave, Blame
  <2>2. Kept
    BY <1>14 DEF StoreFails, AfterStore, Leave, Blame
  <2>3. Objs
    BY <1>14 DEF StoreFails, AfterStore, Leave, Blame
  <2>. QED
    BY <2>1, <2>2, <2>3
<1>15. ASSUME CatchProperty(t) PROVE Mine /\ Kept /\ Objs
  <2>0. /\ Again(t, "catch") /\ UNCHANGED <<store, completed, gain, since, acked>>
        /\ \A k \in Tracker \ {trk[t]} : props'[k] = props[k]
        /\ \A l \in Lesson \ {at[t]} : accident'[l] = accident[l]
    <3>. HIDE DEF TypeOK
    <3>. QED
      BY <1>15, CatchPropertyDoes
  <2>1. Mine
    BY <2>0 DEF Again
  <2>2. Kept
    BY <2>0
  <2>3. Objs
    BY <2>0
  <2>. QED
    BY <2>1, <2>2, <2>3
<1>16. ASSUME NEW s \in Stage, CompleteStage(t, s) PROVE Mine /\ Kept /\ Objs
  <2>1. Mine
    BY <1>16 DEF CompleteStage, Again
  <2>2. Kept
    BY <1>16 DEF CompleteStage, Again
  <2>3. Objs
    BY <1>16 DEF CompleteStage, Again
  <2>. QED
    BY <2>1, <2>2, <2>3
<1>17. ASSUME NEW j \in StageOrNull, ChooseStage(t, j) PROVE Mine /\ Kept /\ Objs
  <2>1. Mine
    BY <1>17 DEF ChooseStage, Again
  <2>2. Kept
    BY <1>17 DEF ChooseStage, Again
  <2>3. Objs
    BY <1>17 DEF ChooseStage, Again
  <2>. QED
    BY <2>1, <2>2, <2>3
<1>18. ASSUME NEW j \in Tracker, Load(t, j) PROVE Mine /\ Kept /\ Objs
  <2>1. Mine
    BY <1>18 DEF Load, Goto
  <2>2. Kept
    BY <1>18 DEF Load, Goto
  <2>3. Objs
    BY <1>18 DEF Load, Goto
  <2>. QED
    BY <2>1, <2>2, <2>3
<1>19. ASSUME CatchNoMore(t) PROVE Mine /\ Kept /\ Objs
  <2>1. Mine
    BY <1>19 DEF CatchNoMore, Again
  <2>2. Kept /\ Objs
    BY <1>19 DEF CatchNoMore
  <2>. QED
    BY <2>1, <2>2
<1>20. Mine /\ Kept /\ Objs
  BY <1>1, <1>2, <1>3, <1>4, <1>5, <1>6, <1>7, <1>8, <1>9, <1>10, <1>11, <1>12, <1>13, <1>14, <1>15, <1>16, <1>17, <1>18, <1>19 DEF Step
<1>21. \A j \in Tracker : Refers(n, j) => j \in Used /\ j # trk[t]
  <2>1. at[t] \in Lesson /\ Refers(at[t], trk[t])
    BY DEF Refers
  <2>2. \A j \in Tracker : Refers(n, j) => j \in Used
    BY DEF Refers, Used
  <2>. QED
    BY <2>1, <2>2 DEF EarnedInv
<1>22. ASSUME NEW j \in Tracker, Refers(n, j), BeingStored(j)' PROVE BeingStored(j)
  <2>1. PICK u \in Thread : pc'[u] \in {"open", "write"} /\ trk'[u] = j
    BY <1>22 DEF BeingStored
  <2>2. u # t
    BY <1>20, <1>21, <1>22, <2>1
  <2>. QED
    BY <1>20, <2>1, <2>2 DEF BeingStored
<1>23. Live' \subseteq Live
  BY <1>20 DEF Live
<1>. QED
  BY <1>20, <1>21, <1>23, <1>22 DEF Apart

(* Who has a tracker from the cache has the cached one. *)
LEMMA HolderHasCached ==
  ASSUME TypeOK, LocalsOK, NEW l \in Lesson, Exact(l)
  PROVE  /\ Cached(l) # None => Cached(l) \in Tracker /\ storage \in Live
         /\ \A u \in Thread : at[u] = l /\ Holds(u) => trk[u] = Cached(l) /\ Cached(l) \in Tracker
         /\ \A u \in Thread : Storing(u) => Holds(u)
BY ConstantsAssumption DEF Exact, OneTracker, Cached, Holds, Storing, LocalsOK, TypeOK, Live

(* What a step of request t does to the lesson it is for. *)
LEMMA StepKeepsExact ==
  ASSUME TypeOK, LocalsOK, EarnedInv, NEW t \in Thread, Step(t), ~ NewUserMap(t),
         accident'[at[t]] = None, accident[at[t]] = None => Exact(at[t])
  PROVE  Exact(at[t])'
<1>. DEFINE l == at[t]
<1>. USE DEF store, objects, local, history
<1>1. l \in Lesson
  BY DEF TypeOK
<1>2. ASSUME GetUserMap(t) PROVE Exact(l)'
  <2>1. Exact(l)
    BY <1>2, <1>1 DEF GetUserMap, Goto, TypeOK
  <2>2. at' = at
    BY <1>2 DEF GetUserMap, Goto
  <2>3. /\ Cached(l) # None => Cached(l) \in Tracker /\ storage \in Live
        /\ \A u \in Thread : at[u] = l /\ Holds(u) => trk[u] = Cached(l) /\ Cached(l) \in Tracker
        /\ \A u \in Thread : Storing(u) => Holds(u)
    BY <1>1, <2>1, HolderHasCached
  <2>4. OneTracker(l)'
    BY <1>2, <1>1, <2>1, <2>2, <2>3, ConstantsAssumption DEF GetUserMap, Goto, Exact, OneTracker, Cached, Live, Holds, Storing, LocalsOK, TypeOK
  <2>5. LoadedFresh(l)'
    BY <1>2, <1>1, <2>1, <2>2, <2>3, ConstantsAssumption DEF GetUserMap, Goto, Exact, LoadedFresh, Cached, Live, Holds, Storing, LocalsOK, TypeOK
  <2>6. TrackerExact(l)'
    BY <1>2, <1>1, <2>1, <2>2, <2>3, ConstantsAssumption DEF GetUserMap, Goto, Exact, TrackerExact, Cached, Live, Holds, Storing, LocalsOK, TypeOK
  <2>7. StoredExact(l)'
    BY <1>2, <1>1, <2>1, <2>2, <2>3, ConstantsAssumption DEF GetUserMap, Goto, Exact, StoredExact, BeingStored, Cached, Live, Holds, Storing, LocalsOK, TypeOK
  <2>. QED
    BY <2>4, <2>5, <2>6, <2>7 DEF Exact
<1>3. ASSUME GetTracker(t) PROVE Exact(l)'
  <2>1. Exact(l)
    BY <1>3, <1>1 DEF GetTracker, Goto, TypeOK
  <2>2. at' = at
    BY <1>3 DEF GetTracker, Goto
  <2>3. /\ Cached(l) # None => Cached(l) \in Tracker /\ storage \in Live
        /\ \A u \in Thread : at[u] = l /\ Holds(u) => trk[u] = Cached(l) /\ Cached(l) \in Tracker
        /\ \A u \in Thread : Storing(u) => Holds(u)
    BY <1>1, <2>1, HolderHasCached
  <2>4. OneTracker(l)'
    BY <1>3, <1>1, <2>1, <2>2, <2>3, ConstantsAssumption DEF GetTracker, Goto, Exact, OneTracker, Cached, Live, Holds, Storing, LocalsOK, TypeOK
  <2>5. LoadedFresh(l)'
    <3>1. Cached(l)' = Cached(l) /\ UNCHANGED <<disk, since, gain, completed>>
      BY <1>3 DEF GetTracker, Cached
    <3>2. \A u \in Thread : pc'[u] = "put" => pc[u] = "put" /\ trk'[u] = trk[u]
      BY <1>3 DEF GetTracker, Goto, TypeOK
    <3>. QED
      BY <2>1, <2>2, <3>1, <3>2 DEF Exact, LoadedFresh
  <2>6. TrackerExact(l)'
    BY <1>3, <1>1, <2>1, <2>2, <2>3, ConstantsAssumption DEF GetTracker, Goto, Exact, TrackerExact, Cached, Live, Holds, Storing, LocalsOK, TypeOK
  <2>7. StoredExact(l)'
    <3>1. /\ UNCHANGED <<disk, props, acked, gain>> /\ Cached(l)' = Cached(l)
          /\ pc[t] = "get" /\ pc'[t] \notin {"open", "write"} /\ ~Storing(t) /\ ~Storing(t)'
          /\ \A u \in Thread \ {t} : pc'[u] = pc[u] /\ phase'[u] = phase[u] /\ trk'[u] = trk[u]
      BY <1>3 DEF GetTracker, Goto, Cached, Storing, LocalsOK, TypeOK
    <3>. QED
      BY <2>1, <2>2, <3>1 DEF Exact, StoredExact, BeingStored, Storing
  <2>. QED
    BY <2>4, <2>5, <2>6, <2>7 DEF Exact
<1>4. ASSUME NEW k \in Tracker, Load(t, k) PROVE Exact(l)'
  <2>1. Exact(l)
    BY <1>4, <1>1 DEF Load, Goto, TypeOK
  <2>2. at' = at
    BY <1>4 DEF Load, Goto
  <2>3. /\ Cached(l) # None => Cached(l) \in Tracker /\ storage \in Live
        /\ \A u \in Thread : at[u] = l /\ Holds(u) => trk[u] = Cached(l) /\ Cached(l) \in Tracker
        /\ \A u \in Thread : Storing(u) => Holds(u)
    BY <1>1, <2>1, HolderHasCached
  <2>8. Cached(l) # k
    BY <1>4, <1>1, ConstantsAssumption DEF Load, Used, Cached, Live, TypeOK
  <2>4. OneTracker(l)'
    BY <1>4, <1>1, <2>1, <2>2, <2>3, <2>8, ConstantsAssumption DEF Load, Goto, Exact, OneTracker, Cached, Live, Holds, Storing, LocalsOK, TypeOK
  <2>5. LoadedFresh(l)'
    BY <1>4, <1>1, <2>1, <2>2, <2>3, <2>8, ConstantsAssumption DEF Load, Goto, Exact, LoadedFresh, Cached, Live, Holds, Storing, LocalsOK, TypeOK
  <2>6. TrackerExact(l)'
    BY <1>4, <1>1, <2>1, <2>2, <2>3, <2>8, ConstantsAssumption DEF Load, Goto, Exact, TrackerExact, Cached, Live, Holds, Storing, LocalsOK, TypeOK
  <2>7. StoredExact(l)'
    BY <1>4, <1>1, <2>1, <2>2, <2>3, <2>8, ConstantsAssumption DEF Load, Goto, Exact, StoredExact, BeingStored, Cached, Live, Holds, Storing, LocalsOK, TypeOK
  <2>. QED
    BY <2>4, <2>5, <2>6, <2>7 DEF Exact
<1>5. ASSUME PutTracker(t) PROVE Exact(l)'
  <2>1. Exact(l)
    BY <1>5, <1>1 DEF PutTracker, PutEntry, Blame, Goto, TypeOK
  <2>2. at' = at
    BY <1>5 DEF PutTracker, PutEntry, Blame, Goto
  <2>3. /\ Cached(l) # None => Cached(l) \in Tracker /\ storage \in Live
        /\ \A u \in Thread : at[u] = l /\ Holds(u) => trk[u] = Cached(l) /\ Cached(l) \in Tracker
        /\ \A u \in Thread : Storing(u) => Holds(u)
    BY <1>1, <2>1, HolderHasCached
  <2>8. /\ umap[t] = storage /\ storage \in Thread /\ trk[t] \in Tracker
        /\ Cached(l) \in {None, trk[t]} /\ Cached(l)' = trk[t]
        /\ maps' = [maps EXCEPT ![storage] = [@ EXCEPT ![l] = trk[t]]]
    <3>1. /\ umap[t] \in Thread /\ trk[t] \in Tracker /\ storage' = storage
          /\ maps' = [maps EXCEPT ![umap[t]] = [@ EXCEPT ![l] = trk[t]]]
      BY <1>5 DEF PutTracker, PutEntry, Goto, LocalsOK
    <3>2. umap[t] = storage /\ maps[umap[t]][l] \in {None, trk[t]}
      BY <1>5, <1>1, ConstantsAssumption DEF PutTracker, PutEntry, Blame, Accident, TypeOK
    <3>. QED
      BY <3>1, <3>2, <1>1, <2>2, ConstantsAssumption DEF Cached, TypeOK
  <2>9. Live' \subseteq Live
    BY <1>5 DEF PutTracker, PutEntry, Blame, Goto, Live, TypeOK
  <2>4. OneTracker(l)'
    BY <1>5, <1>1, <2>1, <2>2, <2>3, <2>8, <2>9, ConstantsAssumption DEF PutTracker, PutEntry, Blame, Goto, Exact, OneTracker, Cached, Live, Holds, Storing, LocalsOK, TypeOK
  <2>5. LoadedFresh(l)'
    BY <1>5, <1>1, <2>1, <2>2, <2>3, <2>8, <2>9, ConstantsAssumption DEF PutTracker, PutEntry, Blame, Goto, Exact, LoadedFresh, Cached, Live, Holds, Storing, LocalsOK, TypeOK
  <2>6. TrackerExact(l)'
    <3>1. /\ UNCHANGED <<acked, since, gain, completed>> /\ pc[t] = "put" /\ phase[t] # "publish"
      BY <1>5 DEF PutTracker, Goto
    <3>2. CASE Cached(l) = trk[t]
      BY <2>1, <2>2, <2>8, <3>1, <3>2, ConstantsAssumption DEF Exact, TrackerExact
    <3>3. CASE Cached(l) = None
      <4>1. \A u \in Thread : at[u] = l => pc[u] # "write"
        BY <2>3, <3>3, ConstantsAssumption DEF Holds
      <4>. QED
        BY <1>1, <2>1, <2>2, <2>8, <3>1, <3>3, <4>1 DEF Exact, LoadedFresh, StoredExact, TrackerExact
    <3>. QED
      BY <2>8, <3>2, <3>3
  <2>7. StoredExact(l)'
    BY <1>5, <1>1, <2>1, <2>2, <2>3, <2>8, <2>9, ConstantsAssumption DEF PutTracker, PutEntry, Blame, Goto, Exact, StoredExact, BeingStored, Cached, Live, Holds, Storing, LocalsOK, TypeOK
  <2>. QED
    BY <2>4, <2>5, <2>6, <2>7 DEF Exact
<1>6. ASSUME PublishTracker(t) PROVE Exact(l)'
  <2>1. Exact(l)
    BY <1>6, <1>1 DEF PublishTracker, PutEntry, Blame, Leave, TypeOK
  <2>2. at' = at
    BY <1>6 DEF PublishTracker, PutEntry, Blame, Leave
  <2>3. /\ Cached(l) # None => Cached(l) \in Tracker /\ storage \in Live
        /\ \A u \in Thread : at[u] = l /\ Holds(u) => trk[u] = Cached(l) /\ Cached(l) \in Tracker
        /\ \A u \in Thread : Storing(u) => Holds(u)
    BY <1>1, <2>1, HolderHasCached
  <2>8. /\ umap[t] = storage /\ storage \in Thread /\ trk[t] \in Tracker
        /\ Cached(l) \in {None, trk[t]} /\ Cached(l)' = trk[t]
        /\ maps' = [maps EXCEPT ![storage] = [@ EXCEPT ![l] = trk[t]]]
    <3>1. /\ umap[t] \in Thread /\ trk[t] \in Tracker /\ storage' = storage
          /\ maps' = [maps EXCEPT ![umap[t]] = [@ EXCEPT ![l] = trk[t]]]
      BY <1>6 DEF PublishTracker, PutEntry, Goto, LocalsOK
    <3>2. umap[t] = storage /\ maps[umap[t]][l] \in {None, trk[t]}
      BY <1>6, <1>1, ConstantsAssumption DEF PublishTracker, PutEntry, Blame, Accident, TypeOK
    <3>. QED
      BY <3>1, <3>2, <1>1, <2>2, ConstantsAssumption DEF Cached, TypeOK
  <2>9. Live' \subseteq Live
    BY <1>6 DEF PublishTracker, PutEntry, Blame, Leave, Live, TypeOK
  <2>4. OneTracker(l)'
    BY <1>6, <1>1, <2>1, <2>2, <2>3, <2>8, <2>9, ConstantsAssumption DEF PublishTracker, PutEntry, Blame, Leave, Exact, OneTracker, Cached, Live, Holds, Storing, LocalsOK, TypeOK
  <2>5. LoadedFresh(l)'
    BY <1>6, <1>1, <2>1, <2>2, <2>3, <2>8, <2>9, ConstantsAssumption DEF PublishTracker, PutEntry, Blame, Leave, Exact, LoadedFresh, Cached, Live, Holds, Storing, LocalsOK, TypeOK
  <2>6. TrackerExact(l)'
    BY <1>6, <1>1, <2>1, <2>2, <2>3, <2>8, <2>9, ConstantsAssumption DEF PublishTracker, PutEntry, Blame, Leave, Exact, TrackerExact, Cached, Live, Holds, Storing, LocalsOK, TypeOK
  <2>7. StoredExact(l)'
    BY <1>6, <1>1, <2>1, <2>2, <2>3, <2>8, <2>9, ConstantsAssumption, SMTT(30) DEF PublishTracker, PutEntry, Blame, Leave, Exact, StoredExact, BeingStored, Cached, Live, Holds, Storing, LocalsOK, TypeOK
  <2>. QED
    BY <2>4, <2>5, <2>6, <2>7 DEF Exact
<1>7. ASSUME NEW s \in Stage, CompleteStage(t, s) PROVE Exact(l)'
  <2>1. Exact(l)
    BY <1>7, <1>1 DEF CompleteStage, Acts, Again, TypeOK
  <2>2. at' = at
    BY <1>7 DEF CompleteStage, Acts, Again
  <2>3. /\ Cached(l) # None => Cached(l) \in Tracker /\ storage \in Live
        /\ \A u \in Thread : at[u] = l /\ Holds(u) => trk[u] = Cached(l) /\ Cached(l) \in Tracker
        /\ \A u \in Thread : Storing(u) => Holds(u)
    BY <1>1, <2>1, HolderHasCached
  <2>4. OneTracker(l)'
    BY <1>7, <1>1, <2>1, <2>2, <2>3, ConstantsAssumption DEF CompleteStage, Acts, Again, Exact, OneTracker, Cached, Live, Holds, Storing, LocalsOK, TypeOK
  <2>5. LoadedFresh(l)'
    BY <1>7, <1>1, <2>1, <2>2, <2>3, ConstantsAssumption DEF CompleteStage, Acts, Again, Exact, LoadedFresh, Cached, Live, Holds, Storing, LocalsOK, TypeOK
  <2>6. TrackerExact(l)'
    BY <1>7, <1>1, <2>1, <2>2, <2>3, ConstantsAssumption, SMTT(30) DEF CompleteStage, Acts, Again, Exact, TrackerExact, Cached, Live, Holds, Storing, LocalsOK, TypeOK
  <2>7. StoredExact(l)'
    BY <1>7, <1>1, <2>1, <2>2, <2>3, ConstantsAssumption, SMTT(30) DEF CompleteStage, Acts, Again, Exact, StoredExact, BeingStored, Cached, Live, Holds, Storing, LocalsOK, TypeOK
  <2>. QED
    BY <2>4, <2>5, <2>6, <2>7 DEF Exact
<1>8. ASSUME NEW s \in StageOrNull, ChooseStage(t, s) PROVE Exact(l)'
  <2>1. Exact(l)
    BY <1>8, <1>1 DEF ChooseStage, Acts, Again, TypeOK
  <2>2. at' = at
    BY <1>8 DEF ChooseStage, Acts, Again
  <2>3. /\ Cached(l) # None => Cached(l) \in Tracker /\ storage \in Live
        /\ \A u \in Thread : at[u] = l /\ Holds(u) => trk[u] = Cached(l) /\ Cached(l) \in Tracker
        /\ \A u \in Thread : Storing(u) => Holds(u)
    BY <1>1, <2>1, HolderHasCached
  <2>4. OneTracker(l)'
    BY <1>8, <1>1, <2>1, <2>2, <2>3, ConstantsAssumption DEF ChooseStage, Acts, Again, Exact, OneTracker, Cached, Live, Holds, Storing, LocalsOK, TypeOK
  <2>5. LoadedFresh(l)'
    BY <1>8, <1>1, <2>1, <2>2, <2>3, ConstantsAssumption DEF ChooseStage, Acts, Again, Exact, LoadedFresh, Cached, Live, Holds, Storing, LocalsOK, TypeOK
  <2>6. TrackerExact(l)'
    BY <1>8, <1>1, <2>1, <2>2, <2>3, ConstantsAssumption DEF ChooseStage, Acts, Again, Exact, TrackerExact, Cached, Live, Holds, Storing, LocalsOK, TypeOK
  <2>7. StoredExact(l)'
    BY <1>8, <1>1, <2>1, <2>2, <2>3, ConstantsAssumption DEF ChooseStage, Acts, Again, Exact, StoredExact, BeingStored, Cached, Live, Holds, Storing, LocalsOK, TypeOK
  <2>. QED
    BY <2>4, <2>5, <2>6, <2>7 DEF Exact
<1>9. ASSUME ReadPage(t) PROVE Exact(l)'
  <2>1. Exact(l)
    BY <1>9, <1>1 DEF ReadPage, Acts, Again, TypeOK
  <2>2. at' = at
    BY <1>9 DEF ReadPage, Acts, Again
  <2>3. /\ Cached(l) # None => Cached(l) \in Tracker /\ storage \in Live
        /\ \A u \in Thread : at[u] = l /\ Holds(u) => trk[u] = Cached(l) /\ Cached(l) \in Tracker
        /\ \A u \in Thread : Storing(u) => Holds(u)
    BY <1>1, <2>1, HolderHasCached
  <2>4. OneTracker(l)'
    BY <1>9, <1>1, <2>1, <2>2, <2>3, ConstantsAssumption DEF ReadPage, Acts, Again, Exact, OneTracker, Cached, Live, Holds, Storing, LocalsOK, TypeOK
  <2>5. LoadedFresh(l)'
    BY <1>9, <1>1, <2>1, <2>2, <2>3, ConstantsAssumption DEF ReadPage, Acts, Again, Exact, LoadedFresh, Cached, Live, Holds, Storing, LocalsOK, TypeOK
  <2>6. TrackerExact(l)'
    BY <1>9, <1>1, <2>1, <2>2, <2>3, ConstantsAssumption DEF ReadPage, Acts, Again, Exact, TrackerExact, Cached, Live, Holds, Storing, LocalsOK, TypeOK
  <2>7. StoredExact(l)'
    BY <1>9, <1>1, <2>1, <2>2, <2>3, ConstantsAssumption DEF ReadPage, Acts, Again, Exact, StoredExact, BeingStored, Cached, Live, Holds, Storing, LocalsOK, TypeOK
  <2>. QED
    BY <2>4, <2>5, <2>6, <2>7 DEF Exact
<1>10. ASSUME PageFails(t) PROVE Exact(l)'
  <2>1. Exact(l)
    BY <1>10, <1>1 DEF PageFails, Acts, Leave, TypeOK
  <2>2. at' = at
    BY <1>10 DEF PageFails, Acts, Leave
  <2>3. /\ Cached(l) # None => Cached(l) \in Tracker /\ storage \in Live
        /\ \A u \in Thread : at[u] = l /\ Holds(u) => trk[u] = Cached(l) /\ Cached(l) \in Tracker
        /\ \A u \in Thread : Storing(u) => Holds(u)
    BY <1>1, <2>1, HolderHasCached
  <2>4. OneTracker(l)'
    BY <1>10, <1>1, <2>1, <2>2, <2>3, ConstantsAssumption DEF PageFails, Acts, Leave, Exact, OneTracker, Cached, Live, Holds, Storing, LocalsOK, TypeOK
  <2>5. LoadedFresh(l)'
    BY <1>10, <1>1, <2>1, <2>2, <2>3, ConstantsAssumption DEF PageFails, Acts, Leave, Exact, LoadedFresh, Cached, Live, Holds, Storing, LocalsOK, TypeOK
  <2>6. TrackerExact(l)'
    BY <1>10, <1>1, <2>1, <2>2, <2>3, ConstantsAssumption DEF PageFails, Acts, Leave, Exact, TrackerExact, Cached, Live, Holds, Storing, LocalsOK, TypeOK
  <2>7. StoredExact(l)'
    BY <1>10, <1>1, <2>1, <2>2, <2>3, ConstantsAssumption DEF PageFails, Acts, Leave, Exact, StoredExact, BeingStored, Cached, Live, Holds, Storing, LocalsOK, TypeOK
  <2>. QED
    BY <2>4, <2>5, <2>6, <2>7 DEF Exact
<1>11. ASSUME Look(t) PROVE Exact(l)'
  <2>1. Exact(l)
    BY <1>11, <1>1 DEF Look, Acts, Leave, TypeOK
  <2>2. at' = at
    BY <1>11 DEF Look, Acts, Leave
  <2>3. /\ Cached(l) # None => Cached(l) \in Tracker /\ storage \in Live
        /\ \A u \in Thread : at[u] = l /\ Holds(u) => trk[u] = Cached(l) /\ Cached(l) \in Tracker
        /\ \A u \in Thread : Storing(u) => Holds(u)
    BY <1>1, <2>1, HolderHasCached
  <2>4. OneTracker(l)'
    BY <1>11, <1>1, <2>1, <2>2, <2>3, ConstantsAssumption DEF Look, Acts, Leave, Exact, OneTracker, Cached, Live, Holds, Storing, LocalsOK, TypeOK
  <2>5. LoadedFresh(l)'
    BY <1>11, <1>1, <2>1, <2>2, <2>3, ConstantsAssumption DEF Look, Acts, Leave, Exact, LoadedFresh, Cached, Live, Holds, Storing, LocalsOK, TypeOK
  <2>6. TrackerExact(l)'
    BY <1>11, <1>1, <2>1, <2>2, <2>3, ConstantsAssumption DEF Look, Acts, Leave, Exact, TrackerExact, Cached, Live, Holds, Storing, LocalsOK, TypeOK
  <2>7. StoredExact(l)'
    BY <1>11, <1>1, <2>1, <2>2, <2>3, ConstantsAssumption DEF Look, Acts, Leave, Exact, StoredExact, BeingStored, Cached, Live, Holds, Storing, LocalsOK, TypeOK
  <2>. QED
    BY <2>4, <2>5, <2>6, <2>7 DEF Exact
<1>12. ASSUME RestartClear(t) PROVE Exact(l)'
  <2>1. Exact(l)
    BY <1>12, <1>1 DEF RestartClear, Acts, Again, TypeOK
  <2>2. at' = at
    BY <1>12 DEF RestartClear, Acts, Again
  <2>3. /\ Cached(l) # None => Cached(l) \in Tracker /\ storage \in Live
        /\ \A u \in Thread : at[u] = l /\ Holds(u) => trk[u] = Cached(l) /\ Cached(l) \in Tracker
        /\ \A u \in Thread : Storing(u) => Holds(u)
    BY <1>1, <2>1, HolderHasCached
  <2>4. OneTracker(l)'
    BY <1>12, <1>1, <2>1, <2>2, <2>3, ConstantsAssumption DEF RestartClear, Acts, Again, Exact, OneTracker, Cached, Live, Holds, Storing, LocalsOK, TypeOK
  <2>5. LoadedFresh(l)'
    BY <1>12, <1>1, <2>1, <2>2, <2>3, ConstantsAssumption DEF RestartClear, Acts, Again, Exact, LoadedFresh, Cached, Live, Holds, Storing, LocalsOK, TypeOK
  <2>6. TrackerExact(l)'
    BY <1>12, <1>1, <2>1, <2>2, <2>3, ConstantsAssumption DEF RestartClear, Acts, Again, Exact, TrackerExact, Cached, Live, Holds, Storing, LocalsOK, TypeOK
  <2>7. StoredExact(l)'
    BY <1>12, <1>1, <2>1, <2>2, <2>3, ConstantsAssumption DEF RestartClear, Acts, Again, Exact, StoredExact, BeingStored, Cached, Live, Holds, Storing, LocalsOK, TypeOK
  <2>. QED
    BY <2>4, <2>5, <2>6, <2>7 DEF Exact
<1>13. ASSUME RestartStage(t) PROVE Exact(l)'
  <2>1. Exact(l)
    BY <1>13, <1>1 DEF RestartStage, Leave, Again, TypeOK
  <2>2. at' = at
    BY <1>13 DEF RestartStage, Leave, Again
  <2>3. /\ Cached(l) # None => Cached(l) \in Tracker /\ storage \in Live
        /\ \A u \in Thread : at[u] = l /\ Holds(u) => trk[u] = Cached(l) /\ Cached(l) \in Tracker
        /\ \A u \in Thread : Storing(u) => Holds(u)
    BY <1>1, <2>1, HolderHasCached
  <2>8. /\ UNCHANGED <<disk, storage, maps, completed, props, gain, since, acked>>
        /\ Live' \subseteq Live /\ Cached(l)' = Cached(l)
        /\ \A u \in Thread \ {t} : pc'[u] = pc[u] /\ phase'[u] = phase[u] /\ trk'[u] = trk[u]
        /\ pc[t] # "write" /\ ~Holds(t)' /\ ~Storing(t)'
    BY <1>13 DEF RestartStage, Leave, Again, Live, Cached, Holds, Storing, TypeOK
  <2>4. OneTracker(l)'
    BY <2>1, <2>2, <2>3, <2>8 DEF Exact, OneTracker, Holds
  <2>5. LoadedFresh(l)'
    BY <1>13, <1>1, <2>1, <2>2, <2>3, ConstantsAssumption DEF RestartStage, Leave, Again, Exact, LoadedFresh, Cached, Live, Holds, Storing, LocalsOK, TypeOK
  <2>6. TrackerExact(l)'
    BY <1>13, <1>1, <2>1, <2>2, <2>3, ConstantsAssumption DEF RestartStage, Leave, Again, Exact, TrackerExact, Cached, Live, Holds, Storing, LocalsOK, TypeOK
  <2>7. StoredExact(l)'
    BY <2>1, <2>2, <2>3, <2>8 DEF Exact, StoredExact, BeingStored, Storing
  <2>. QED
    BY <2>4, <2>5, <2>6, <2>7 DEF Exact
<1>14. ASSUME CatchProperty(t) PROVE Exact(l)'
  <2>0. /\ Again(t, "catch") /\ pc[t] = "use" /\ trk[t] \in Tracker
        /\ UNCHANGED <<store, completed, stage, gain, earned, since, acked, kept>>
        /\ \A k \in Tracker \ {trk[t]} : props'[k] = props[k]
        /\ accident[l] = None
        /\ BeingStored(trk[t]) => props'[trk[t]].done = props[trk[t]].done
    BY <1>14, CatchPropertyDoes
  <2>1. Exact(l)
    BY <2>0
  <2>2. at' = at
    BY <2>0 DEF Again
  <2>3. /\ Cached(l) # None => Cached(l) \in Tracker /\ storage \in Live
        /\ \A u \in Thread : at[u] = l /\ Holds(u) => trk[u] = Cached(l) /\ Cached(l) \in Tracker
        /\ \A u \in Thread : Storing(u) => Holds(u)
    BY <1>1, <2>1, HolderHasCached
  <2>8. /\ UNCHANGED <<disk, storage, maps, completed, gain, since, acked>>
        /\ Live' \subseteq Live /\ Cached(l)' = Cached(l)
        /\ \A u \in Thread \ {t} : pc'[u] = pc[u] /\ phase'[u] = phase[u] /\ trk'[u] = trk[u]
        /\ pc'[t] = "userMap" /\ pc[t] # "write" /\ ~Holds(t)' /\ ~Storing(t)'
    BY <2>0 DEF Again, Live, Cached, Holds, Storing, TypeOK
  <2>4. OneTracker(l)'
    BY <2>1, <2>2, <2>3, <2>8 DEF Exact, OneTracker, Holds
  <2>5. LoadedFresh(l)'
    BY <2>1, <2>2, <2>8 DEF Exact, LoadedFresh
  <2>6. TrackerExact(l)'
    BY <2>1, <2>2, <2>8 DEF Exact, TrackerExact
  <2>7. StoredExact(l)'
    <3>1. ASSUME NEW u \in Thread, pc'[u] \in {"open", "write"}, trk'[u] = Cached(l), Cached(l) \in Tracker
          PROVE  BeingStored(Cached(l)) /\ props'[Cached(l)].done = props[Cached(l)].done
      <4>1. BeingStored(Cached(l))
        BY <2>8, <3>1 DEF BeingStored
      <4>. QED
        BY <2>0, <3>1, <4>1
    <3>. QED
      BY <2>1, <2>2, <2>3, <2>8, <3>1 DEF Exact, StoredExact, BeingStored, Storing
  <2>. QED
    BY <2>4, <2>5, <2>6, <2>7 DEF Exact
<1>15. ASSUME ReadCompleted(t) PROVE Exact(l)'
  <2>1. Exact(l)
    BY <1>15, <1>1 DEF ReadCompleted, Goto, TypeOK
  <2>2. at' = at
    BY <1>15 DEF ReadCompleted, Goto
  <2>3. /\ Cached(l) # None => Cached(l) \in Tracker /\ storage \in Live
        /\ \A u \in Thread : at[u] = l /\ Holds(u) => trk[u] = Cached(l) /\ Cached(l) \in Tracker
        /\ \A u \in Thread : Storing(u) => Holds(u)
    BY <1>1, <2>1, HolderHasCached
  <2>4. OneTracker(l)'
    BY <1>15, <1>1, <2>1, <2>2, <2>3, ConstantsAssumption DEF ReadCompleted, Goto, Exact, OneTracker, Cached, Live, Holds, Storing, LocalsOK, TypeOK
  <2>5. LoadedFresh(l)'
    BY <1>15, <1>1, <2>1, <2>2, <2>3, ConstantsAssumption DEF ReadCompleted, Goto, Exact, LoadedFresh, Cached, Live, Holds, Storing, LocalsOK, TypeOK
  <2>6. TrackerExact(l)'
    BY <1>15, <1>1, <2>1, <2>2, <2>3, ConstantsAssumption DEF ReadCompleted, Goto, Exact, TrackerExact, Cached, Live, Holds, Storing, LocalsOK, TypeOK
  <2>7. StoredExact(l)'
    BY <1>15, <1>1, <2>1, <2>2, <2>3, ConstantsAssumption DEF ReadCompleted, Goto, Exact, StoredExact, BeingStored, Cached, Live, Holds, Storing, LocalsOK, TypeOK
  <2>. QED
    BY <2>4, <2>5, <2>6, <2>7 DEF Exact
<1>16. ASSUME SetProperties(t) PROVE Exact(l)'
  <2>1. Exact(l)
    BY <1>16, <1>1 DEF SetProperties, Blame, Goto, TypeOK
  <2>2. at' = at
    BY <1>16 DEF SetProperties, Blame, Goto
  <2>3. /\ Cached(l) # None => Cached(l) \in Tracker /\ storage \in Live
        /\ \A u \in Thread : at[u] = l /\ Holds(u) => trk[u] = Cached(l) /\ Cached(l) \in Tracker
        /\ \A u \in Thread : Storing(u) => Holds(u)
    BY <1>1, <2>1, HolderHasCached
  <2>8. /\ trk[t] = Cached(l) /\ trk[t] \in Tracker /\ props'[trk[t]].done = completed[trk[t]]
        /\ Cached(l)' = Cached(l) /\ UNCHANGED <<disk, acked, gain, completed, phase>>
        /\ \A u \in Thread \ {t} : pc'[u] = pc[u]
        /\ pc[t] # "write" /\ pc'[t] # "write"
    BY <1>16, <1>1, <2>3, ConstantsAssumption DEF SetProperties, Blame, Goto, Cached, Holds, TypeOK, Accident
  <2>4. OneTracker(l)'
    BY <1>16, <1>1, <2>1, <2>2, <2>3, ConstantsAssumption DEF SetProperties, Blame, Goto, Exact, OneTracker, Cached, Live, Holds, Storing, LocalsOK, TypeOK
  <2>5. LoadedFresh(l)'
    BY <1>16, <1>1, <2>1, <2>2, <2>3, ConstantsAssumption DEF SetProperties, Blame, Goto, Exact, LoadedFresh, Cached, Live, Holds, Storing, LocalsOK, TypeOK
  <2>6. TrackerExact(l)'
    BY <1>16, <1>1, <2>1, <2>2, <2>3, ConstantsAssumption DEF SetProperties, Blame, Goto, Exact, TrackerExact, Cached, Live, Holds, Storing, LocalsOK, TypeOK
  <2>7. StoredExact(l)'
    <3>1. \A u \in Thread : at[u] = l => acked[l] \cup gain[u] \subseteq completed[Cached(l)]
      BY <2>1, <2>3, <2>8, ConstantsAssumption DEF Exact, TrackerExact
    <3>. QED
      BY <2>1, <2>2, <2>8, <3>1 DEF Exact, StoredExact, BeingStored, Storing
  <2>. QED
    BY <2>4, <2>5, <2>6, <2>7 DEF Exact
<1>17. ASSUME OpenFile(t) PROVE Exact(l)'
  <2>1. Exact(l)
    BY <1>17, <1>1 DEF OpenFile, Goto, TypeOK
  <2>2. at' = at
    BY <1>17 DEF OpenFile, Goto
  <2>3. /\ Cached(l) # None => Cached(l) \in Tracker /\ storage \in Live
        /\ \A u \in Thread : at[u] = l /\ Holds(u) => trk[u] = Cached(l) /\ Cached(l) \in Tracker
        /\ \A u \in Thread : Storing(u) => Holds(u)
    BY <1>1, <2>1, HolderHasCached
  <2>4. OneTracker(l)'
    BY <1>17, <1>1, <2>1, <2>2, <2>3, ConstantsAssumption DEF OpenFile, Goto, Exact, OneTracker, Cached, Live, Holds, Storing, LocalsOK, TypeOK
  <2>5. LoadedFresh(l)'
    BY <1>17, <1>1, <2>1, <2>2, <2>3, ConstantsAssumption DEF OpenFile, Goto, Exact, LoadedFresh, Cached, Live, Holds, Storing, LocalsOK, TypeOK
  <2>6. TrackerExact(l)'
    BY <1>17, <1>1, <2>1, <2>2, <2>3, ConstantsAssumption DEF OpenFile, Goto, Exact, TrackerExact, Cached, Live, Holds, Storing, LocalsOK, TypeOK
  <2>7. StoredExact(l)'
    BY <1>17, <1>1, <2>1, <2>2, <2>3, ConstantsAssumption DEF OpenFile, Goto, Exact, StoredExact, BeingStored, Cached, Live, Holds, Storing, LocalsOK, TypeOK
  <2>. QED
    BY <2>4, <2>5, <2>6, <2>7 DEF Exact
<1>18. ASSUME WriteFile(t) PROVE Exact(l)'
  <2>1. Exact(l)
    BY <1>18, <1>1 DEF WriteFile, AfterStore, Leave, TypeOK
  <2>2. at' = at
    BY <1>18 DEF WriteFile, AfterStore, Leave
  <2>3. /\ Cached(l) # None => Cached(l) \in Tracker /\ storage \in Live
        /\ \A u \in Thread : at[u] = l /\ Holds(u) => trk[u] = Cached(l) /\ Cached(l) \in Tracker
        /\ \A u \in Thread : Storing(u) => Holds(u)
    BY <1>1, <2>1, HolderHasCached
  <2>4. OneTracker(l)'
    <3>1. /\ UNCHANGED <<storage, maps>> /\ Live' \subseteq Live /\ Cached(l)' = Cached(l) /\ Holds(t)
          /\ trk'[t] = trk[t] \/ ~Holds(t)'
          /\ \A u \in Thread \ {t} : pc'[u] = pc[u] /\ phase'[u] = phase[u] /\ trk'[u] = trk[u]
      BY <1>18 DEF WriteFile, AfterStore, Leave, Live, Cached, Holds, TypeOK
    <3>. QED
      BY <2>1, <2>2, <2>3, <3>1 DEF Exact, OneTracker, Holds
  <2>5. LoadedFresh(l)'
    BY <1>18, <1>1, <2>1, <2>2, <2>3, ConstantsAssumption DEF WriteFile, AfterStore, Leave, Exact, LoadedFresh, Cached, Live, Holds, Storing, LocalsOK, TypeOK
  <2>6. TrackerExact(l)'
    BY <1>18, <1>1, <2>1, <2>2, <2>3, ConstantsAssumption DEF WriteFile, AfterStore, Leave, Exact, TrackerExact, Cached, Live, Holds, Storing, LocalsOK, TypeOK
  <2>7. StoredExact(l)'
    <3>1. /\ UNCHANGED <<props, acked, gain>> /\ Cached(l)' = Cached(l)
          /\ pc[t] = "write" /\ pc'[t] \notin {"open", "write"} /\ Storing(t) /\ Holds(t)
          /\ disk'[l] = props[trk[t]]
          /\ \A u \in Thread \ {t} : pc'[u] = pc[u] /\ phase'[u] = phase[u] /\ trk'[u] = trk[u]
      BY <1>18 DEF WriteFile, AfterStore, Leave, Cached, Storing, Holds, TypeOK
    <3>2. \A u \in Thread : at[u] = l /\ Storing(u) => acked[l] \cup gain[u] \subseteq disk'[l].done
      BY <2>1, <2>3, <3>1 DEF Exact, StoredExact, BeingStored
    <3>3. \A u \in Thread : Storing(u)' => Storing(u)
      BY <3>1 DEF Storing
    <3>. QED
      BY <2>1, <2>2, <3>1, <3>2, <3>3 DEF Exact, StoredExact, BeingStored, Storing
  <2>. QED
    BY <2>4, <2>5, <2>6, <2>7 DEF Exact
<1>19. ASSUME StoreFails(t) PROVE Exact(l)'
  BY <1>19, <1>1, ConstantsAssumption DEF StoreFails, Blame, TypeOK, Accident
<1>20. ASSUME CatchNoMore(t) PROVE Exact(l)'
  <2>1. Exact(l)
    BY <1>20, <1>1 DEF CatchNoMore, Again, TypeOK
  <2>2. at' = at
    BY <1>20 DEF CatchNoMore, Again
  <2>3. /\ Cached(l) # None => Cached(l) \in Tracker /\ storage \in Live
        /\ \A u \in Thread : at[u] = l /\ Holds(u) => trk[u] = Cached(l) /\ Cached(l) \in Tracker
        /\ \A u \in Thread : Storing(u) => Holds(u)
    BY <1>1, <2>1, HolderHasCached
  <2>4. OneTracker(l)'
    BY <1>20, <1>1, <2>1, <2>2, <2>3, ConstantsAssumption DEF CatchNoMore, Again, Exact, OneTracker, Cached, Live, Holds, Storing, LocalsOK, TypeOK
  <2>5. LoadedFresh(l)'
    BY <1>20, <1>1, <2>1, <2>2, <2>3, ConstantsAssumption DEF CatchNoMore, Again, Exact, LoadedFresh, Cached, Live, Holds, Storing, LocalsOK, TypeOK
  <2>6. TrackerExact(l)'
    BY <1>20, <1>1, <2>1, <2>2, <2>3, ConstantsAssumption DEF CatchNoMore, Again, Exact, TrackerExact, Cached, Live, Holds, Storing, LocalsOK, TypeOK
  <2>7. StoredExact(l)'
    <3>1. /\ UNCHANGED <<disk, props, acked, gain>> /\ Cached(l)' = Cached(l)
          /\ pc[t] = "use" /\ pc'[t] \notin {"open", "write"} /\ ~Storing(t) /\ ~Storing(t)'
          /\ \A u \in Thread \ {t} : pc'[u] = pc[u] /\ phase'[u] = phase[u] /\ trk'[u] = trk[u]
      BY <1>20 DEF CatchNoMore, Catching, Acts, Again, Cached, Storing, LocalsOK, TypeOK
    <3>. QED
      BY <2>1, <2>2, <3>1 DEF Exact, StoredExact, BeingStored, Storing
  <2>. QED
    BY <2>4, <2>5, <2>6, <2>7 DEF Exact
<1>. QED
  BY <1>2, <1>3, <1>4, <1>5, <1>6, <1>7, <1>8, <1>9, <1>10, <1>11, <1>12, <1>13, <1>14, <1>15, <1>16, <1>17, <1>18, <1>19, <1>20 DEF Step

LEMMA NewUserMapKeepsExact ==
  ASSUME TypeOK, LocalsOK, ExactInv, NEW t \in Thread, NewUserMap(t)
  PROVE  ExactInv'
<1> SUFFICES ASSUME NEW l \in Lesson, accident'[l] = None PROVE Exact(l)'
  BY DEF ExactInv
<1>1. accident[l] = None /\ Cached(l) = None /\ Cached(l)' = None
  BY ConstantsAssumption DEF NewUserMap, TypeOK, Accident, Cached, NoEntries
<1>2. Exact(l)
  BY <1>1 DEF ExactInv
<1>3. \A u \in Thread : at[u] = l => ~Holds(u) /\ ~Storing(u)
  BY <1>1, <1>2, HolderHasCached, ConstantsAssumption
<1>4. /\ pc' = [pc EXCEPT ![t] = "get"] /\ pc[t] = "newMap"
      /\ UNCHANGED <<disk, completed, props, phase, at, trk, gain, since, acked>>
  BY DEF NewUserMap, Goto, objects
<1>5. \A u \in Thread : at[u] = l => ~Holds(u)' /\ ~Storing(u)'
  BY <1>3, <1>4 DEF Holds, Storing, TypeOK
<1>6. \A m \in Live' \ {storage'} : maps'[m][l] = None
  <2>1. \A m \in Thread : m # t /\ m \in Live' => m \in Live /\ maps'[m][l] = maps[m][l]
    BY ConstantsAssumption DEF NewUserMap, Live, TypeOK
  <2>2. Live' \subseteq Thread /\ storage' = t
    BY DEF NewUserMap, Live, TypeOK
  <2>3. \A m \in Live : maps[m][l] = None
    BY <1>1, <1>2 DEF Exact, OneTracker, Cached, Live
  <2>. QED
    BY <2>1, <2>2, <2>3
<1>7. OneTracker(l)'
  BY <1>4, <1>5, <1>6 DEF OneTracker
<1>8. LoadedFresh(l)'
  BY <1>1, <1>2, <1>4 DEF Exact, LoadedFresh, TypeOK
<1>9. TrackerExact(l)' /\ StoredExact(l)'
  BY <1>1, <1>2, <1>4, <1>5 DEF Exact, TrackerExact, StoredExact, TypeOK
<1>. QED
  BY <1>7, <1>8, <1>9 DEF Exact

LEMMA CrashKeepsExact ==
  ASSUME TypeOK, LocalsOK, ExactInv, Crash
  PROVE  ExactInv'
<1> SUFFICES ASSUME NEW l \in Lesson, accident'[l] = None PROVE Exact(l)'
  BY DEF ExactInv
<1>1. /\ accident[l] = None /\ disk[l].done \subseteq since[l]
      /\ \A u \in Thread : pc[u] = "write" => at[u] # l
  BY ConstantsAssumption DEF Crash, TypeOK, Accident
<1>2. acked[l] \subseteq disk[l].done
  BY <1>1 DEF ExactInv, Exact, StoredExact
<1>3. Cached(l)' = None /\ Live' = {} /\ UNCHANGED <<disk, since, acked, at>>
  BY DEF Crash, Cached, Live
<1>4. \A u \in Thread : pc'[u] = "idle" /\ phase'[u] = "act" /\ gain'[u] = {}
  BY DEF Crash
<1>. QED
  BY <1>1, <1>2, <1>3, <1>4 DEF Exact, OneTracker, LoadedFresh, TrackerExact, StoredExact, Holds, Storing

LEMMA BeginKeepsExact ==
  ASSUME TypeOK, LocalsOK, ExactInv,
         NEW t \in Thread, NEW r \in Requests, NEW n \in Lesson, Begin(t, r, n)
  PROVE  ExactInv'
<1> SUFFICES ASSUME NEW l \in Lesson, accident'[l] = None PROVE Exact(l)'
  BY DEF ExactInv
<1>1. /\ UNCHANGED <<disk, storage, maps, completed, props, phase, umap, trk, since, acked, accident>>
      /\ Cached(l)' = Cached(l) /\ Live' = Live
      /\ pc' = [pc EXCEPT ![t] = "userMap"] /\ pc[t] = "idle" /\ phase[t] = "act"
      /\ at' = [at EXCEPT ![t] = n] /\ gain' = [gain EXCEPT ![t] = {}]
  BY DEF Begin, Goto, LocalsOK, Cached, Live, store, objects
<1>2. Exact(l)
  BY <1>1 DEF ExactInv
<1>3. /\ ~Holds(t)' /\ ~Storing(t)' /\ gain'[t] = {} /\ pc'[t] = "userMap"
      /\ \A u \in Thread \ {t} :
           /\ Holds(u)' = Holds(u) /\ Storing(u)' = Storing(u) /\ at'[u] = at[u]
           /\ gain'[u] = gain[u] /\ pc'[u] = pc[u]
  BY <1>1 DEF Holds, Storing, TypeOK
<1>4. OneTracker(l)'
  BY <1>1, <1>2, <1>3 DEF Exact, OneTracker
<1>5. LoadedFresh(l)'
  BY <1>1, <1>2, <1>3 DEF Exact, LoadedFresh
<1>6. TrackerExact(l)'
  BY <1>1, <1>2, <1>3 DEF Exact, TrackerExact
<1>7. StoredExact(l)'
  BY <1>1, <1>2, <1>3 DEF Exact, StoredExact, BeingStored
<1>. QED
  BY <1>4, <1>5, <1>6, <1>7 DEF Exact

(* Without an accident the cached tracker holds what was acknowledged, and *)
(* what is stored or about to be is complete, through every step.          *)
LEMMA ExactStep ==
  ASSUME TypeOK, LocalsOK, EarnedInv, ExactInv, [Next]_vars
  PROVE  ExactInv'
<1>1. CASE UNCHANGED vars
  BY <1>1 DEF vars, store, objects, local, history, ExactInv, Exact, OneTracker, LoadedFresh,
     TrackerExact, StoredExact, BeingStored, Holds, Storing, Cached, Live
<1>2. ASSUME NEW t \in Thread, Step(t), ~NewUserMap(t) PROVE ExactInv'
  <2> SUFFICES ASSUME NEW l \in Lesson, accident'[l] = None PROVE Exact(l)'
    BY DEF ExactInv
  <2>1. CASE l # at[t]
    BY <1>2, <2>1, StepApart, ApartKeepsExact DEF ExactInv
  <2>2. CASE l = at[t]
    <3>1. at' = at
      BY <1>2, StoringStep
    <3>2. Exact(at[t])'
      BY <1>2, <2>2, StepKeepsExact DEF ExactInv
    <3>. QED
      BY <2>2, <3>1, <3>2 DEF Exact, OneTracker, LoadedFresh, TrackerExact, StoredExact, Cached
  <2>. QED
    BY <2>1, <2>2
<1>. QED
  BY <1>1, <1>2, NewUserMapKeepsExact, CrashKeepsExact, BeginKeepsExact DEF Next

(* Nothing an accident does not explain happens to the progress of a lesson. *)
LEMMA AlwaysExact == Spec => []ExactInv
<1>1. Init => ExactInv
  BY ConstantsAssumption DEF Init, NoEntries, NoProps, ExactInv, Exact,
     OneTracker, LoadedFresh, TrackerExact, StoredExact, Holds, Storing, Cached, Live
<1>. QED
  BY <1>1, TypeCorrect, AlwaysEarned, ExactStep, PTL DEF Spec

(* Whatever the number of requests that interleave, of lessons, stages and  *)
(* crashes: until one of the accidents the model names happens to a lesson, *)
(* every request finds the tracker that holds what was acknowledged, and no *)
(* stage from before the last restart.                                      *)
THEOREM CachedTrackerIsExact == Spec => []MemoryIsExact
<1>1. ExactInv => MemoryIsExact
  BY DEF ExactInv, Exact, TrackerExact, MemoryIsExact
<1>. QED
  BY <1>1, AlwaysExact, PTL

(* And what was acknowledged is in the property file, so that a restart of *)
(* the server finds it, except while a request is rewriting the file.      *)
THEOREM AcknowledgedIsDurable == Spec => []AckedIsDurable
<1>1. ExactInv => AckedIsDurable
  BY DEF ExactInv, Exact, StoredExact, AckedIsDurable
<1>. QED
  BY <1>1, AlwaysExact, PTL

(* A request that has been the only one is under way, and no other is. *)
AloneInv == \A t \in alone : pc[t] # "idle" /\ \A u \in Thread \ {t} : pc[u] = "idle"

(* A step of a request is a step of the only one that is under way, if one  *)
(* is to be the only one after it.                                         *)
LEMMA LoneStep ==
  ASSUME TypeOK, AloneInv, NEW t \in alone',
         alone' = {s \in Lone' : s \in alone \/ pc[s] = "idle"}
  PROVE  /\ t \in Thread
         /\ \A u \in Thread, r \in Requests, n \in Lesson : Begin(u, r, n) => u = t
         /\ \A u \in Thread : Step(u) => u = t /\ t \in alone
<1>1. t \in Thread /\ pc'[t] # "idle" /\ (\A u \in Thread \ {t} : pc'[u] = "idle")
      /\ (t \in alone \/ pc[t] = "idle")
  BY DEF Lone
<1>2. ASSUME NEW u \in Thread, NEW r \in Requests, NEW n \in Lesson, Begin(u, r, n) PROVE u = t
  BY <1>1, <1>2 DEF Begin, Goto, TypeOK
<1>3. ASSUME NEW u \in Thread, Step(u) PROVE u = t /\ t \in alone
  <2>1. pc[u] # "idle"
    BY <1>3 DEF Step, GetUserMap, NewUserMap, GetTracker, Load, PutTracker, PublishTracker,
       CompleteStage, ChooseStage, ReadPage, PageFails, Look, RestartClear, RestartStage,
       CatchProperty, CatchNoMore, Catching, Acts, ReadCompleted, SetProperties, OpenFile,
       WriteFile, StoreFails, Goto
  <2>2. \A s \in Thread \ {u} : pc'[s] = pc[s]
    BY <1>3, StoringStep
  <2>. QED
    BY <1>1, <2>1, <2>2 DEF AloneInv
<1>. QED
  BY <1>1, <1>2, <1>3

LEMMA AloneStep ==
  ASSUME AloneInv, [Next]_vars
  PROVE  AloneInv'
BY DEF AloneInv, Next, Lone, vars, local

LEMMA LoneStoreStep ==
  ASSUME TypeOK, LocalsOK, AloneInv, LoneStore, [Next]_vars
  PROVE  LoneStore'
<1>. USE DEF store, objects, local, history
<1> SUFFICES ASSUME NEW t \in alone', accident'[at'[t]] = None
             PROVE  /\ pc'[t] \in {"open", "write"} => /\ props'[trk'[t]].done = completed'[trk'[t]]
                                                       /\ props'[trk'[t]].stage = GetStage(trk[t])'
                    /\ phase'[t] = "publish" => /\ disk'[at'[t]].done = completed'[trk'[t]]
                                                /\ disk'[at'[t]].stage = GetStage(trk[t])'
  BY DEF LoneStore
<1>1. CASE UNCHANGED vars
  BY <1>1 DEF vars, LoneStore, GetStage
<1>. SUFFICES ASSUME ~UNCHANGED vars
              PROVE  /\ pc'[t] \in {"open", "write"} => /\ props'[trk'[t]].done = completed'[trk'[t]]
                                                        /\ props'[trk'[t]].stage = GetStage(trk[t])'
                     /\ phase'[t] = "publish" => /\ disk'[at'[t]].done = completed'[trk'[t]]
                                                 /\ disk'[at'[t]].stage = GetStage(trk[t])'
  BY <1>1
<1>0. alone' = {s \in Lone' : s \in alone \/ pc[s] = "idle"}
  BY DEF Next
<1>t. t \in Thread
  BY <1>0, LoneStep
<1>2. CASE Crash
  BY <1>t, <1>2 DEF Crash
<1>3. ASSUME NEW u \in Thread, NEW r \in Requests, NEW n \in Lesson, Begin(u, r, n)
      PROVE  pc'[t] = "userMap" /\ phase'[t] = "act"
  <2>1. u = t
    BY <1>0, <1>3, LoneStep
  <2>. QED
    BY <1>t, <1>3, <2>1 DEF Begin, Goto, LocalsOK, TypeOK
<1>11. ASSUME NEW u \in Thread, Step(u)
       PROVE  /\ pc'[t] \in {"open", "write"} => /\ props'[trk'[t]].done = completed'[trk'[t]]
                                                 /\ props'[trk'[t]].stage = GetStage(trk[t])'
              /\ phase'[t] = "publish" => /\ disk'[at'[t]].done = completed'[trk'[t]]
                                          /\ disk'[at'[t]].stage = GetStage(trk[t])'
  <2>1. t \in alone /\ t \in Thread /\ Step(t)
    BY <1>0, <1>11, LoneStep
  <2>4. CASE GetUserMap(t)
    BY <2>1, <2>4 DEF GetUserMap, Goto, LoneStore, GetStage, TypeOK
  <2>5. CASE SetProperties(t)
    <3>1. /\ snap[t] = completed[trk[t]] /\ trk[t] \in Tracker /\ phase'[t] = "update"
          /\ props' = [props EXCEPT ![trk[t]] =
               [done |-> snap[t], stage |-> GetStage(trk[t]), custom |-> @.custom]]
          /\ UNCHANGED <<trk, completed, stage>>
      BY <2>1, <2>5, ConstantsAssumption DEF SetProperties, Blame, Goto, LocalsOK, TypeOK, Accident
    <3>. QED
      BY <2>1, <3>1 DEF GetStage, TypeOK
  <2>6. CASE OpenFile(t)
    BY <2>1, <2>6 DEF OpenFile, Goto, LoneStore, GetStage, TypeOK, LocalsOK
  <2>7. CASE WriteFile(t)
    <3>1. /\ disk'[at[t]] = props[trk[t]] /\ pc'[t] \in {"userMap", "idle"}
          /\ UNCHANGED <<at, completed, stage, accident>>
          /\ phase'[t] = "publish" => trk' = trk
      BY <2>1, <2>7 DEF WriteFile, AfterStore, Leave, TypeOK
    <3>. QED
      BY <2>1, <2>7, <3>1 DEF WriteFile, LoneStore, GetStage
  <2>8. CASE StoreFails(t)
    BY <2>1, <2>8, ConstantsAssumption DEF StoreFails, AfterStore, Leave, Blame, TypeOK, Accident
  <2>9. ASSUME \/ NewUserMap(t) \/ GetTracker(t) \/ (\E k \in Tracker : Load(t, k)) \/ PutTracker(t)
               \/ ReadCompleted(t)
        PROVE  pc'[t] \notin {"open", "write"} /\ phase'[t] # "publish"
    BY <2>1, <2>9 DEF NewUserMap, GetTracker, Load, PutTracker, ReadCompleted, Goto, LocalsOK, TypeOK
  <2>10. ASSUME \/ PublishTracker(t) \/ (\E s \in Stage : CompleteStage(t, s))
                \/ (\E n \in StageOrNull : ChooseStage(t, n)) \/ ReadPage(t) \/ PageFails(t) \/ Look(t)
                \/ RestartClear(t) \/ RestartStage(t) \/ CatchProperty(t) \/ CatchNoMore(t)
         PROVE  pc'[t] \notin {"open", "write"} /\ phase'[t] # "publish"
    <3>1. Leave(t) \/ (\E p \in Phase \ {"publish"} : Again(t, p))
      BY <2>10 DEF PublishTracker, CompleteStage, ChooseStage, ReadPage, PageFails, Look,
         RestartClear, RestartStage, CatchProperty, CatchNoMore, Phase
    <3>. QED
      BY <2>1, <3>1 DEF Leave, Again, TypeOK
  <2>. QED
    BY <2>1, <2>4, <2>5, <2>6, <2>7, <2>8, <2>9, <2>10 DEF Step
<1>. QED
  BY <1>2, <1>3, <1>11 DEF Next

(* When a page is answered that was the only request since it began, the   *)
(* file says what the tracker says, the stage included, whatever requests  *)
(* came before and overlapped.  If another one came while it ran, it need  *)
(* not: that one may complete a stage after the file was written and fail  *)
(* before it stores it.                                                    *)
THEOREM LonePageReloads == Spec => AnsweredPageReloads
<1>1. Init => AloneInv /\ LoneStore
  BY DEF Init, AloneInv, LoneStore
<1>2. LoneStore /\ [Next]_vars =>
        [\A t \in alone :
           LET k == trk[t] IN
           (/\ pc[t] = "put" /\ phase[t] = "publish" /\ storage' = storage
            /\ accident[at[t]] = None)
           => /\ disk[at[t]].done = completed[k]
              /\ disk[at[t]].stage = GetStage(k)]_vars
  BY DEF LoneStore
<1>3. TypeOK /\ LocalsOK /\ AloneInv /\ LoneStore /\ [Next]_vars => AloneInv' /\ LoneStore'
  BY AloneStep, LoneStoreStep
<1>. QED
  BY <1>1, <1>2, <1>3, TypeCorrect, PTL DEF Spec, AnsweredPageReloads

-----------------------------------------------------------------------------
(* The refinement of LessonProgress.  It needs one more invariant: what the *)
(* file and the properties of the tracker hold back from the tracker was    *)
(* completed before the last restart.                                       *)

(* Storing the tracker of a lesson that stays without an accident stores it *)
(* in the user's map, where it is the first of the lesson or there already. *)
LEMMA PutUnblamed ==
  ASSUME TypeOK, LocalsOK, NEW t \in Thread, pc[t] = "put", PutEntry(t), storage' = storage,
         accident'[at[t]] = None
  PROVE  /\ accident[at[t]] = None /\ trk[t] \in Tracker
         /\ Cached(at[t]) \in {None, trk[t]}
         /\ \A n \in Lesson : Cached(n)' = IF n = at[t] THEN trk[t] ELSE Cached(n)
<1>1. /\ umap[t] \in Thread /\ trk[t] \in Tracker /\ at[t] \in Lesson
      /\ maps' = [maps EXCEPT ![umap[t]] = [@ EXCEPT ![at[t]] = trk[t]]]
  BY DEF PutEntry, LocalsOK, TypeOK
<1>2. accident[at[t]] = None /\ umap[t] = storage /\ maps[umap[t]][at[t]] \in {None, trk[t]}
  BY ConstantsAssumption DEF PutEntry, Blame, Accident, TypeOK
<1>. QED
  BY <1>1, <1>2, ConstantsAssumption DEF Cached, TypeOK

(* A step that touches neither a file, nor a map, nor what a tracker holds  *)
(* as completed, nor what is about to be written.                           *)
Quiet ==
  /\ UNCHANGED <<disk, storage, maps, completed, at, earned, forged, since, acked, accident>>
  /\ \A k \in Tracker : BeingStored(k)' => BeingStored(k) /\ props'[k].done = props[k].done

LEMMA QuietSteps ==
  ASSUME TypeOK, LocalsOK, NEW t \in Thread, accident'[at[t]] = None,
         \/ GetUserMap(t) \/ GetTracker(t) \/ (\E n \in StageOrNull : ChooseStage(t, n))
         \/ ReadPage(t) \/ PageFails(t) \/ Look(t) \/ RestartStage(t) \/ CatchProperty(t)
         \/ CatchNoMore(t) \/ ReadCompleted(t)
  PROVE  Quiet
<1>. DEFINE Still == UNCHANGED <<disk, storage, maps, completed, earned, forged, since, acked, accident>>
<1>. USE DEF store, objects, history
<1>1. Step(t) /\ ~SetProperties(t)
  BY DEF Step, GetUserMap, GetTracker, ChooseStage, ReadPage, PageFails, Look, RestartStage,
     CatchProperty, CatchNoMore, Catching, Acts, ReadCompleted, SetProperties, Goto
<1>2. at' = at /\ \A k \in Tracker : BeingStored(k)' => BeingStored(k)
  BY <1>1, StoringStep, BeingStoredStep
<1>3. CASE CatchProperty(t)
  <2>1. /\ UNCHANGED <<disk, storage, maps, completed, earned, forged, since, acked>>
        /\ accident[at[t]] = None /\ \A l \in Lesson \ {at[t]} : accident'[l] = accident[l]
        /\ accident' \in [Lesson -> Accident \cup {None}]
        /\ \A k \in Tracker \ {trk[t]} : props'[k] = props[k]
        /\ BeingStored(trk[t]) => props'[trk[t]].done = props[trk[t]].done
    BY <1>3, CatchPropertyDoes
  <2>2. accident' = accident
    BY <2>1 DEF TypeOK
  <2>. QED
    BY <1>2, <2>1, <2>2 DEF Quiet
<1>4. CASE ~CatchProperty(t)
  <2>1. Still /\ props' = props
    BY <1>4 DEF GetUserMap, GetTracker, ChooseStage, ReadPage, PageFails, Look, RestartStage,
       CatchNoMore, ReadCompleted
  <2>. QED
    BY <1>2, <2>1 DEF Quiet
<1>. QED
  BY <1>3, <1>4

LEMMA QuietKeepsBehind ==
  ASSUME TypeOK, LocalsOK, NEW l \in Lesson, Exact(l), Behind(l), Quiet
  PROVE  Behind(l)'
<1>1. Cached(l)' = Cached(l) /\ (Cached(l) # None => Cached(l) \in Tracker)
  BY ConstantsAssumption DEF Quiet, Cached, TypeOK
<1>2. BeingStored(Cached(l))' /\ Cached(l) # None =>
        BeingStored(Cached(l)) /\ props'[Cached(l)].done = props[Cached(l)].done
  BY <1>1 DEF Quiet, BeingStored
<1>. QED
  BY <1>1, <1>2 DEF Behind, Quiet, BeingStored

LEMMA BehindAfter ==
  ASSUME NEW l \in Lesson, NEW k, Cached(l)' = k, disk'[l].done \cap since'[l] \subseteq completed'[k],
         BeingStored(k)' => props'[k].done \cap since'[l] \subseteq completed'[k]
  PROVE  Behind(l)'
BY DEF Behind, BeingStored

(* The steps that change what Behind is about, in their own lesson. *)
LEMMA StepKeepsBehind ==
  ASSUME TypeOK, LocalsOK, EarnedInv, NEW t \in Thread, Step(t), ~ NewUserMap(t),
         NEW l \in Lesson, l = at[t], accident'[l] = None,
         accident[l] = None => Exact(l) /\ Behind(l)
  PROVE  Behind(l)'
<1>1. at' = at /\ \A k \in Tracker : BeingStored(k)' => BeingStored(k) \/ (SetProperties(t) /\ k = trk[t])
  BY StoringStep, BeingStoredStep
<1>2. ASSUME NEW k \in Tracker, Load(t, k) PROVE Behind(l)'
  <2>1. /\ UNCHANGED <<disk, storage, maps, since, accident>> /\ k \notin Used /\ pc[t] = "load"
        /\ \A j \in Tracker \ {k} : props'[j] = props[j] /\ completed'[j] = completed[j]
    BY <1>2 DEF Load, Goto, store, history, TypeOK
  <2>2. Behind(l) /\ Cached(l)' = Cached(l)
    BY <2>1 DEF Cached
  <2>3. CASE Cached(l) = None
    BY <2>2, <2>3 DEF Behind
  <2>4. ASSUME NEW j, j = Cached(l), j # None PROVE Behind(l)'
    <3>1. j \in Tracker \ {k}
      BY <2>1, <2>4, ConstantsAssumption DEF Used, Live, Cached, TypeOK
    <3>2. ~SetProperties(t)
      BY <2>1 DEF SetProperties, Goto
    <3>3. BeingStored(j)' => BeingStored(j)
      BY <1>1, <3>1, <3>2
    <3>. QED
      BY <2>1, <2>2, <2>4, <3>1, <3>3, BehindAfter DEF Behind
  <2>. QED
    BY <2>3, <2>4
<1>3. ASSUME PutTracker(t) \/ PublishTracker(t) PROVE Behind(l)'
  <2>1. /\ pc[t] = "put" /\ PutEntry(t) /\ UNCHANGED <<disk, storage, completed, props, since>>
    BY <1>3 DEF PutTracker, PublishTracker, Goto, objects
  <2>2. /\ accident[l] = None /\ trk[t] \in Tracker /\ Cached(l) \in {None, trk[t]}
        /\ Cached(l)' = trk[t]
    BY <2>1, PutUnblamed
  <2>3. PICK k \in Tracker : k = trk[t]
    BY <2>2
  <2>4. BeingStored(k)' => BeingStored(k)
    BY <1>1, <2>1 DEF SetProperties, Goto
  <2>5. CASE Cached(l) = k
    BY <2>1, <2>2, <2>3, <2>4, <2>5, BehindAfter, ConstantsAssumption DEF Behind
  <2>6. CASE Cached(l) = None
    <3>1. ~BeingStored(k)
      <4>1. Refers(l, k)
        BY <2>3 DEF Refers
      <4>2. \A u \in Thread : at[u] = l => ~Holds(u)
        BY <2>2, <2>6, HolderHasCached, ConstantsAssumption
      <4>. QED
        BY <4>1, <4>2, StoredByHolder DEF BeingStored
    <3>2. completed[k] = disk[l].done
      BY <2>1, <2>2, <2>3, <2>6 DEF Exact, LoadedFresh
    <3>. QED
      BY <2>1, <2>2, <2>3, <2>4, <3>1, <3>2, BehindAfter
  <2>. QED
    BY <2>2, <2>3, <2>5, <2>6
<1>4. ASSUME \/ \E s \in Stage : CompleteStage(t, s)
             \/ RestartClear(t) \/ SetProperties(t) \/ OpenFile(t) \/ WriteFile(t)
      PROVE  Behind(l)'
  <2>1. Holds(t) /\ UNCHANGED <<storage, maps>> /\ accident[l] = None
    BY <1>4, ConstantsAssumption DEF CompleteStage, RestartClear, SetProperties, OpenFile, WriteFile,
       Acts, Goto, Blame, Holds, store, history, TypeOK, Accident
  <2>2. Exact(l) /\ Behind(l)
    BY <2>1
  <2>3. PICK k \in Tracker : k = trk[t] /\ Cached(l) = k /\ Cached(l)' = k
    BY <2>1, <2>2, HolderHasCached DEF Cached
  <2>4. /\ disk[l].done \cap since[l] \subseteq completed[k]
        /\ BeingStored(k) => props[k].done \cap since[l] \subseteq completed[k]
    BY <2>2, <2>3, ConstantsAssumption DEF Behind
  <2>5. ~SetProperties(t) => (BeingStored(k)' => BeingStored(k))
    BY <1>1
  <2>6. ASSUME NEW s \in Stage, CompleteStage(t, s) PROVE Behind(l)'
    <3>1. /\ UNCHANGED <<disk, props>> /\ ~SetProperties(t)
          /\ completed'[k] = completed[k] \cup {s} /\ since'[l] = since[l] \cup {s}
      BY <2>3, <2>6 DEF CompleteStage, Acts, SetProperties, Goto, store, TypeOK
    <3>. QED
      BY <2>3, <2>4, <2>5, <3>1, BehindAfter
  <2>7. CASE RestartClear(t)
    <3>1. since'[l] = {}
      BY <2>7 DEF RestartClear, TypeOK
    <3>. QED
      BY <2>3, <3>1, BehindAfter
  <2>8. CASE SetProperties(t)
    <3>1. props'[k].done = completed[k] /\ UNCHANGED <<disk, completed, since>>
      BY <2>3, <2>8, ConstantsAssumption DEF SetProperties, Blame, store, TypeOK, Accident
    <3>. QED
      BY <2>3, <2>4, <3>1, BehindAfter
  <2>9. CASE OpenFile(t)
    <3>1. UNCHANGED <<props, completed, since>> /\ ~SetProperties(t) /\ disk'[l].done = {}
      BY <2>9 DEF OpenFile, SetProperties, Goto, NoProps, objects, history, TypeOK
    <3>. QED
      BY <2>3, <2>4, <2>5, <3>1, BehindAfter
  <2>10. CASE WriteFile(t)
    <3>1. /\ UNCHANGED <<props, completed, since>> /\ ~SetProperties(t)
          /\ disk'[l] = props[k] /\ BeingStored(k)
      BY <2>3, <2>10 DEF WriteFile, SetProperties, Goto, BeingStored, objects, TypeOK
    <3>. QED
      BY <2>3, <2>4, <2>5, <3>1, BehindAfter
  <2>. QED
    BY <1>4, <2>6, <2>7, <2>8, <2>9, <2>10
<1>5. ASSUME StoreFails(t) PROVE FALSE
  BY <1>5, ConstantsAssumption DEF StoreFails, Blame, TypeOK, Accident
<1>6. ASSUME \/ GetUserMap(t) \/ GetTracker(t) \/ (\E n \in StageOrNull : ChooseStage(t, n))
             \/ ReadPage(t) \/ PageFails(t) \/ Look(t) \/ RestartStage(t) \/ CatchProperty(t)
             \/ CatchNoMore(t) \/ ReadCompleted(t)
      PROVE  Behind(l)'
  <2>1. Quiet
    BY <1>6, QuietSteps
  <2>. QED
    BY <2>1, QuietKeepsBehind DEF Quiet
<1>. QED
  BY <1>2, <1>3, <1>4, <1>5, <1>6 DEF Step

LEMMA ApartKeepsBehind ==
  ASSUME TypeOK, LocalsOK, NEW n \in Lesson, Behind(n), Apart(n)
  PROVE  Behind(n)'
<1>1. Cached(n)' = Cached(n)
  BY DEF Apart, Cached, TypeOK
<1>2. Cached(n) # None => Cached(n) \in Tracker /\ Refers(n, Cached(n))
  BY ConstantsAssumption DEF Cached, Refers, Live, TypeOK
<1>3. ASSUME NEW k, k = Cached(n), k # None PROVE Behind(n)'
  BY <1>1, <1>2, <1>3, BehindAfter DEF Behind, Apart
<1>. QED
  BY <1>1, <1>3 DEF Behind

(* Without an accident, a stop of the server brings no stage back that the *)
(* user has completed since the restart and the tracker does not show.     *)
LEMMA BehindStep ==
  ASSUME TypeOK, LocalsOK, EarnedInv, ExactInv, BehindInv, [Next]_vars
  PROVE  BehindInv'
<1> SUFFICES ASSUME NEW l \in Lesson, accident'[l] = None PROVE Behind(l)'
  BY DEF BehindInv
<1>1. CASE UNCHANGED vars
  BY <1>1 DEF vars, store, objects, local, history, BehindInv, Behind, BeingStored, Cached
<1>2. ASSUME NEW t \in Thread, Step(t), ~NewUserMap(t) PROVE Behind(l)'
  <2>1. CASE l # at[t]
    BY <1>2, <2>1, StepApart, ApartKeepsBehind DEF BehindInv
  <2>2. CASE l = at[t]
    BY <1>2, <2>2, StepKeepsBehind DEF ExactInv, BehindInv
  <2>. QED
    BY <2>1, <2>2
<1>3. ASSUME NEW t \in Thread, NewUserMap(t) PROVE Behind(l)'
  <2>1. accident[l] = None /\ Cached(l) = None /\ Cached(l)' = None
    BY <1>3, ConstantsAssumption DEF NewUserMap, TypeOK, Accident, Cached, NoEntries
  <2>. QED
    BY <2>1 DEF Behind
<1>4. CASE Crash
  BY <1>4 DEF Crash, Behind, Cached
<1>5. ASSUME NEW t \in Thread, NEW r \in Requests, NEW n \in Lesson, Begin(t, r, n)
      PROVE  Behind(l)'
  <2>1. /\ UNCHANGED <<disk, storage, maps, completed, props, trk, since, accident>>
        /\ \A u \in Thread : pc'[u] \in {"open", "write"} => pc[u] = pc'[u]
        /\ Cached(l)' = Cached(l)
    BY <1>5 DEF Begin, Goto, TypeOK, store, objects, Cached
  <2>. QED
    BY <2>1 DEF BehindInv, Behind, BeingStored
<1>. QED
  BY <1>1, <1>2, <1>3, <1>4, <1>5 DEF Next

LEMMA AlwaysBehind == Spec => []BehindInv
<1>1. Init => BehindInv
  BY DEF Init, BehindInv, Behind, Cached, NoProps
<1>. QED
  BY <1>1, TypeCorrect, AlwaysEarned, AlwaysExact, BehindStep, PTL DEF Spec

(* What a step means for the promise, lesson by lesson.                     *)
StaysShown(l) == Shown(l)' = Shown(l) /\ acked'[l] = acked[l]

(* A lesson is spoilt for good, and even then shows only what is to its     *)
(* credit.                                                                  *)
LEMMA AccidentStays ==
  ASSUME TypeOK, [Next]_vars, NEW l \in Lesson, accident[l] # None
  PROVE  accident'[l] # None
<1>. USE DEF store, objects, local, history, vars
<1>1. ASSUME NEW t \in Thread, NewUserMap(t) PROVE accident'[l] # None
  BY <1>1 DEF NewUserMap
<1>2. CASE Crash
  BY <1>2 DEF Crash
<1>3. ASSUME NEW t \in Thread, Step(t), ~NewUserMap(t)
      PROVE  \/ accident' = accident
             \/ \E n \in Lesson, p \in BOOLEAN, a \in Accident : Blame(n, p, a)
  <2>1. at[t] \in Lesson /\ {"replaced", "stale", "failed", "forged"} \subseteq Accident
    BY DEF TypeOK, Accident
  <2>2. ASSUME NEW p, NEW a \in {"replaced", "stale", "failed", "forged"}, Blame(at[t], p, a)
        PROVE  \E n \in Lesson, q \in BOOLEAN, b \in Accident : Blame(n, q, b)
    <3>1. Blame(at[t], TRUE, a) \/ Blame(at[t], FALSE, a)
      BY <2>2 DEF Blame
    <3>. QED
      BY <2>1, <3>1
  <2>3. CASE CatchProperty(t)
    <3>1. PICK p \in WithParameter(props[trk[t]]) :
            Blame(at[t], /\ BeingStored(trk[t])
                         /\ p.done # props[trk[t]].done \/ p.stage # props[trk[t]].stage, "forged")
      BY <2>3 DEF CatchProperty
    <3>. QED
      BY <2>2, <3>1
  <2>. QED
    BY <1>3, <2>2, <2>3 DEF Step, GetUserMap, GetTracker, Load, PutTracker, PublishTracker, PutEntry,
       CompleteStage, ChooseStage, ReadPage, PageFails, Look, RestartClear, RestartStage,
       CatchNoMore, ReadCompleted, SetProperties, OpenFile, WriteFile, StoreFails
<1>4. ASSUME NEW t \in Thread, NEW r \in Requests, NEW n \in Lesson, Begin(t, r, n)
      PROVE  accident' = accident
  BY <1>4 DEF Begin
<1>5. ASSUME NEW n \in Lesson, NEW p \in BOOLEAN, NEW a \in Accident, Blame(n, p, a)
      PROVE  accident'[l] # None
  BY <1>5 DEF Blame, TypeOK
<1>. QED
  BY <1>1, <1>2, <1>3, <1>4, <1>5 DEF Next

ShownEarned == \A l \in Lesson : Shown(l) \subseteq Credit(l)

LEMMA ShownIsEarned ==
  ASSUME TypeOK, NoForgedProgress
  PROVE  ShownEarned
<1>1. ASSUME NEW l \in Lesson, Cached(l) # None
      PROVE  storage \in Live /\ Cached(l) = maps[storage][l]
  BY <1>1 DEF Cached, Live
<1>. QED
  BY <1>1 DEF ShownEarned, Shown, NoForgedProgress

LEMMA ApartStaysShown ==
  ASSUME TypeOK, NEW n \in Lesson, Apart(n)
  PROVE  StaysShown(n)
<1>1. Cached(n)' = Cached(n)
  BY DEF Apart, Cached, TypeOK
<1>2. Cached(n) # None => Cached(n) \in Tracker /\ Refers(n, Cached(n))
  BY ConstantsAssumption DEF Cached, Refers, Live, TypeOK
<1>. QED
  BY <1>1, <1>2 DEF StaysShown, Shown, Apart

(* What the steps of a request do to what its lesson shows. *)
LEMMA QuietStaysShown ==
  ASSUME TypeOK, NEW l \in Lesson, Quiet
  PROVE  StaysShown(l)
BY DEF Quiet, StaysShown, Shown, Cached

LEMMA OtherStepStaysShown ==
  ASSUME TypeOK, LocalsOK, NEW t \in Thread, accident'[at[t]] = None, ExactInv,
         \/ GetUserMap(t) \/ GetTracker(t) \/ (\E k \in Tracker : Load(t, k)) \/ PutTracker(t)
         \/ (\E n \in StageOrNull : ChooseStage(t, n)) \/ ReadPage(t) \/ PageFails(t) \/ Look(t)
         \/ RestartStage(t) \/ CatchProperty(t) \/ CatchNoMore(t) \/ ReadCompleted(t)
         \/ SetProperties(t) \/ OpenFile(t) \/ WriteFile(t) \/ StoreFails(t)
  PROVE  StaysShown(at[t]) /\ UNCHANGED <<earned, forged>>
<1>. DEFINE l == at[t]
<1>1. l \in Lesson
  BY DEF TypeOK
<1>2. ASSUME \/ GetUserMap(t) \/ GetTracker(t) \/ (\E n \in StageOrNull : ChooseStage(t, n))
             \/ ReadPage(t) \/ PageFails(t) \/ Look(t) \/ RestartStage(t) \/ CatchProperty(t)
             \/ CatchNoMore(t) \/ ReadCompleted(t)
      PROVE  StaysShown(l) /\ UNCHANGED <<earned, forged>>
  <2>1. Quiet
    BY <1>2, QuietSteps
  <2>. QED
    BY <1>1, <2>1, QuietStaysShown DEF Quiet
<1>3. ASSUME NEW k \in Tracker, Load(t, k) PROVE StaysShown(l) /\ UNCHANGED <<earned, forged>>
  <2>1. Cached(l) # k /\ (Cached(l) # None => Cached(l) \in Tracker)
    BY <1>1, <1>3, ConstantsAssumption DEF Load, Used, Live, Cached, TypeOK
  <2>. QED
    BY <1>1, <1>3, <2>1 DEF Load, StaysShown, Shown, Cached, store, history, TypeOK
<1>4. CASE PutTracker(t)
  <2>1. /\ accident[l] = None /\ trk[t] \in Tracker
        /\ Cached(l) \in {None, trk[t]} /\ Cached(l)' = trk[t]
    BY <1>1, <1>4, PutUnblamed DEF PutTracker, Goto
  <2>2. Cached(l) = None => completed[trk[t]] = disk[l].done
    BY <1>1, <1>4, <2>1 DEF PutTracker, Goto, ExactInv, Exact, LoadedFresh
  <2>. QED
    BY <1>4, <2>1, <2>2, ConstantsAssumption DEF PutTracker, StaysShown, Shown, objects
<1>5. CASE SetProperties(t)
  BY <1>5 DEF SetProperties, StaysShown, Shown, Cached, store
<1>6. ASSUME OpenFile(t) \/ WriteFile(t) PROVE StaysShown(l) /\ UNCHANGED <<earned, forged>>
  <2>1. Holds(t) /\ UNCHANGED <<storage, maps, completed, earned, forged, acked, accident, at>>
    BY <1>6 DEF OpenFile, WriteFile, AfterStore, Leave, Goto, Holds, objects, history
  <2>2. Cached(l) # None
    BY <1>1, <2>1, HolderHasCached, ConstantsAssumption DEF ExactInv
  <2>. QED
    BY <2>1, <2>2 DEF StaysShown, Shown, Cached
<1>7. ASSUME StoreFails(t) PROVE FALSE
  BY <1>1, <1>7, ConstantsAssumption DEF StoreFails, Blame, TypeOK, Accident
<1>. QED
  BY <1>2, <1>3, <1>4, <1>5, <1>6, <1>7

LEMMA CompleteStageShows ==
  ASSUME TypeOK, LocalsOK, ExactInv, NEW t \in Thread, NEW s \in Stage, CompleteStage(t, s),
         accident'[at[t]] = None
  PROVE  Shown(at[t])' = Shown(at[t]) \cup {s} /\ acked' = acked
<1>1. Cached(at[t]) = trk[t] /\ trk[t] \in Tracker /\ at[t] \in Lesson
  BY HolderHasCached, ConstantsAssumption DEF CompleteStage, Acts, Holds, ExactInv, TypeOK
<1>2. UNCHANGED <<storage, maps, acked>> /\ completed' = [completed EXCEPT ![trk[t]] = @ \cup {s}]
  BY DEF CompleteStage, store
<1>3. at' = at
  BY DEF CompleteStage, Again
<1>. QED
  BY <1>1, <1>2, <1>3, ConstantsAssumption DEF Shown, Cached, TypeOK

LEMMA RestartClearShows ==
  ASSUME TypeOK, LocalsOK, ExactInv, NEW t \in Thread, RestartClear(t), accident'[at[t]] = None
  PROVE  Shown(at[t])' = {} /\ acked'[at[t]] = {}
<1>1. Cached(at[t]) = trk[t] /\ trk[t] \in Tracker /\ at[t] \in Lesson
  BY HolderHasCached, ConstantsAssumption DEF RestartClear, Acts, Holds, ExactInv, TypeOK
<1>2. UNCHANGED <<storage, maps>> /\ completed' = [completed EXCEPT ![trk[t]] = {}]
      /\ acked' = [acked EXCEPT ![at[t]] = {}]
  BY DEF RestartClear, store
<1>3. at' = at
  BY DEF RestartClear, Again
<1>. QED
  BY <1>1, <1>2, <1>3, ConstantsAssumption DEF Shown, Cached, TypeOK

LEMMA PublishTrackerShows ==
  ASSUME TypeOK, LocalsOK, ExactInv, NEW t \in Thread, PublishTracker(t), accident'[at[t]] = None
  PROVE  /\ Shown(at[t])' = Shown(at[t])
         /\ acked[at[t]] \subseteq acked'[at[t]] /\ acked'[at[t]] \subseteq Shown(at[t])
<1>1. /\ pc[t] = "put" /\ phase[t] = "publish" /\ PutEntry(t)
      /\ UNCHANGED <<disk, storage, completed, at>>
      /\ acked' = [acked EXCEPT ![at[t]] = @ \cup gain[t]]
  BY DEF PublishTracker, Leave, objects
<1>2. /\ accident[at[t]] = None /\ trk[t] \in Tracker /\ at[t] \in Lesson
      /\ Cached(at[t])' = trk[t]
  BY <1>1, PutUnblamed DEF TypeOK
<1>3. Cached(at[t]) = trk[t]
  BY <1>1, <1>2, HolderHasCached, ConstantsAssumption DEF Holds, ExactInv
<1>4. acked[at[t]] \cup gain[t] \subseteq completed[trk[t]]
  BY <1>2, <1>3, ConstantsAssumption DEF ExactInv, Exact, TrackerExact
<1>. QED
  BY <1>1, <1>2, <1>3, <1>4, ConstantsAssumption DEF Shown, TypeOK

LEMMA NewUserMapStaysShown ==
  ASSUME TypeOK, NEW t \in Thread, NewUserMap(t), NEW l \in Lesson, accident'[l] = None
  PROVE  StaysShown(l)
BY ConstantsAssumption DEF NewUserMap, TypeOK, Accident, Cached, NoEntries, StaysShown, Shown

(* What was answered survives a stop, and nothing comes back. *)
LEMMA CrashShows ==
  ASSUME TypeOK, LocalsOK, ExactInv, BehindInv, Crash, NEW l \in Lesson, accident'[l] = None
  PROVE  acked[l] \subseteq Shown(l)' /\ Shown(l)' \subseteq Shown(l)
<1>1. /\ accident[l] = None /\ disk[l].done \subseteq since[l]
      /\ \A u \in Thread : pc[u] = "write" => at[u] # l
      /\ Shown(l)' = disk[l].done
  BY ConstantsAssumption DEF Crash, TypeOK, Accident, Shown, Cached
<1>2. acked[l] \subseteq disk[l].done
  BY <1>1 DEF ExactInv, Exact, StoredExact
<1>3. disk[l].done \subseteq Shown(l)
  BY <1>1 DEF BehindInv, Behind, Shown
<1>. QED
  BY <1>1, <1>2, <1>3

(* The steps of the promise, said of the lessons of this module. *)
Keeps(l) == accident'[l] = None => StaysShown(l)

LEMMA StaysIsSame ==
  ASSUME TypeOK, [Next]_vars, NEW l \in Lesson, accident'[l] = None, StaysShown(l)
  PROVE  Progress!Same(l)
<1>1. accident[l] = None
  BY AccidentStays
<1>. QED
  BY <1>1 DEF Progress!Same, StaysShown

LEMMA SpoiltLessons ==
  ASSUME TypeOK, [Next]_vars, ShownEarned'
  PROVE  Progress!Spoiling
BY AccidentStays DEF Progress!Spoiling, ShownEarned

LEMMA OthersKeep ==
  ASSUME TypeOK, [Next]_vars, NEW l \in Lesson, \A n \in Lesson \ {l} : Keeps(n)
  PROVE  Progress!Only(l)
BY StaysIsSame DEF Progress!Only, Keeps

LEMMA AllKeepIsMishap ==
  ASSUME TypeOK, [Next]_vars, UNCHANGED <<earned, forged>>, \A l \in Lesson : Keeps(l)
  PROVE  Progress!Mishap
BY StaysIsSame DEF Progress!Mishap, Keeps, Credit

(* A parameter of Catcher that reached what was being stored. *)
LEMMA CatchPropertyForges ==
  ASSUME TypeOK, LocalsOK, NEW t \in Thread, CatchProperty(t), [Next]_vars, NEW l \in Lesson,
         l = at[t], accident'[l] # None, \A n \in Lesson \ {l} : Keeps(n)
  PROVE  Progress!Forge(l)
<1>1. /\ earned' = earned /\ forged' \in [Lesson -> SUBSET Stage] /\ forged[l] \subseteq forged'[l]
      /\ \A n \in Lesson \ {l} : forged'[n] = forged[n]
  BY CatchPropertyDoes
<1>2. [n \in Lesson |-> Credit(n)]' = [[n \in Lesson |-> Credit(n)] EXCEPT ![l] = @ \cup forged'[l]]
  BY <1>1 DEF Credit
<1>. QED
  BY <1>1, <1>2, OthersKeep DEF Progress!Forge

LEMMA CompleteStageEarns ==
  ASSUME TypeOK, [Next]_vars, NEW l \in Lesson, NEW s \in Stage,
         earned' = [earned EXCEPT ![l] = @ \cup {s}], forged' = forged,
         accident'[l] = None => Shown(l)' = Shown(l) \cup {s} /\ acked'[l] = acked[l],
         \A n \in Lesson \ {l} : Keeps(n)
  PROVE  Progress!Earn(l, s)
<1>1. accident'[l] = None => accident[l] = None
  BY AccidentStays
<1>2. [n \in Lesson |-> Credit(n)]' = [[n \in Lesson |-> Credit(n)] EXCEPT ![l] = @ \cup {s}]
  BY DEF Credit, TypeOK
<1>. QED
  BY <1>1, <1>2, OthersKeep DEF Progress!Earn

LEMMA PublishTrackerAnswers ==
  ASSUME TypeOK, [Next]_vars, NEW l \in Lesson, UNCHANGED <<earned, forged>>,
         accident'[l] = None => /\ Shown(l)' = Shown(l)
                                /\ acked[l] \subseteq acked'[l] /\ acked'[l] \subseteq Shown(l),
         \A n \in Lesson \ {l} : Keeps(n)
  PROVE  Progress!Answer(l)
<1>1. accident'[l] = None => accident[l] = None
  BY AccidentStays
<1>. QED
  BY <1>1, OthersKeep DEF Progress!Answer, Credit

LEMMA RestartClearRestarts ==
  ASSUME TypeOK, [Next]_vars, NEW l \in Lesson, UNCHANGED <<earned, forged>>,
         accident'[l] = None => Shown(l)' = {} /\ acked'[l] = {},
         \A n \in Lesson \ {l} : Keeps(n)
  PROVE  Progress!Restart(l)
BY OthersKeep DEF Progress!Restart, Credit

LEMMA CrashStops ==
  ASSUME TypeOK, LocalsOK, ExactInv, BehindInv, Crash, [Next]_vars
  PROVE  Progress!Stop
<1>1. UNCHANGED <<earned, forged, acked>>
  BY DEF Crash
<1>2. \A l \in Lesson : accident'[l] = None => accident[l] = None
  BY <1>1, AccidentStays
<1>. QED
  BY <1>1, <1>2, CrashShows DEF Progress!Stop, Credit

(* Every step of this module is one of the promise, or changes nothing the *)
(* promise is about.                                                       *)
LEMMA ProgressStep ==
  ASSUME TypeOK, LocalsOK, EarnedInv, ExactInv, BehindInv, ShownEarned', [Next]_vars
  PROVE  [Progress!Next]_(Progress!vars)
<1>1. Progress!Spoiling
  BY SpoiltLessons
<1>2. CASE UNCHANGED vars
  <2>1. UNCHANGED <<earned, forged>> /\ \A l \in Lesson : Keeps(l)
    BY <1>2 DEF vars, store, objects, history, Keeps, StaysShown, Shown, Cached
  <2>. QED
    BY <1>1, <2>1, AllKeepIsMishap DEF Progress!Next
<1>3. CASE Crash
  BY <1>1, <1>3, CrashStops DEF Progress!Next
<1>4. ASSUME NEW t \in Thread, NEW r \in Requests, NEW n \in Lesson, Begin(t, r, n)
      PROVE  Progress!Next
  <2>1. UNCHANGED <<earned, forged>> /\ \A l \in Lesson : Keeps(l)
    BY <1>4 DEF Begin, store, objects, Keeps, StaysShown, Shown, Cached
  <2>. QED
    BY <1>1, <2>1, AllKeepIsMishap DEF Progress!Next
<1>5. ASSUME NEW t \in Thread, NewUserMap(t) PROVE Progress!Next
  <2>1. UNCHANGED <<earned, forged>> /\ \A l \in Lesson : Keeps(l)
    BY <1>5, NewUserMapStaysShown DEF NewUserMap, Keeps
  <2>. QED
    BY <1>1, <2>1, AllKeepIsMishap DEF Progress!Next
<1>6. ASSUME NEW t \in Thread, Step(t), ~NewUserMap(t) PROVE Progress!Next
  <2>1. PICK l \in Lesson : l = at[t] /\ l = at'[t]
    BY <1>6, StoringStep DEF TypeOK
  <2>2. /\ accident'[at[t]] = accident'[l] /\ acked'[at[t]] = acked'[l]
        /\ Shown(at[t]) = Shown(l) /\ Shown(at[t])' = Shown(l)'
        /\ StaysShown(at[t]) <=> StaysShown(l)
    BY <2>1 DEF Shown, Cached, StaysShown
  <2>3. \A n \in Lesson \ {l} : Keeps(n)
    BY <1>6, <2>1, StepApart, ApartStaysShown DEF Keeps
  <2>4. ASSUME NEW s \in Stage, CompleteStage(t, s) PROVE Progress!Earn(l, s)
    <3>1. earned' = [earned EXCEPT ![l] = @ \cup {s}] /\ forged' = forged
      BY <2>1, <2>4 DEF CompleteStage
    <3>2. accident'[l] = None => Shown(l)' = Shown(l) \cup {s} /\ acked'[l] = acked[l]
      BY <2>1, <2>2, <2>4, CompleteStageShows
    <3>. QED
      BY <2>3, <3>1, <3>2, CompleteStageEarns
  <2>5. ASSUME PublishTracker(t) PROVE Progress!Answer(l)
    <3>1. UNCHANGED <<earned, forged>>
      BY <2>5 DEF PublishTracker
    <3>2. accident'[l] = None => /\ Shown(l)' = Shown(l)
                                 /\ acked[l] \subseteq acked'[l] /\ acked'[l] \subseteq Shown(l)
      BY <2>1, <2>2, <2>5, PublishTrackerShows
    <3>. QED
      BY <2>3, <3>1, <3>2, PublishTrackerAnswers
  <2>6. ASSUME RestartClear(t) PROVE Progress!Restart(l)
    <3>1. UNCHANGED <<earned, forged>>
      BY <2>6 DEF RestartClear
    <3>2. accident'[l] = None => Shown(l)' = {} /\ acked'[l] = {}
      BY <2>1, <2>2, <2>6, RestartClearShows
    <3>. QED
      BY <2>3, <3>1, <3>2, RestartClearRestarts
  <2>7. ASSUME \/ GetUserMap(t) \/ GetTracker(t) \/ (\E k \in Tracker : Load(t, k)) \/ PutTracker(t)
               \/ (\E n \in StageOrNull : ChooseStage(t, n)) \/ ReadPage(t) \/ PageFails(t) \/ Look(t)
               \/ RestartStage(t) \/ CatchNoMore(t) \/ ReadCompleted(t) \/ SetProperties(t)
               \/ OpenFile(t) \/ WriteFile(t) \/ StoreFails(t)
        PROVE  Progress!Mishap
    <3>1. UNCHANGED <<earned, forged>>
      BY <2>7 DEF GetUserMap, GetTracker, Load, PutTracker, ChooseStage, ReadPage, PageFails, Look,
         RestartStage, CatchNoMore, ReadCompleted, SetProperties, OpenFile, WriteFile, StoreFails,
         history
    <3>2. Keeps(l)
      BY <2>2, <2>7, OtherStepStaysShown DEF Keeps
    <3>. QED
      BY <2>3, <3>1, <3>2, AllKeepIsMishap
  <2>8. ASSUME CatchProperty(t), accident'[l] = None PROVE Progress!Mishap
    <3>1. StaysShown(l) /\ UNCHANGED <<earned, forged>>
      BY <2>2, <2>8, OtherStepStaysShown
    <3>. QED
      BY <2>3, <3>1, AllKeepIsMishap DEF Keeps
  <2>9. ASSUME CatchProperty(t), accident'[l] # None PROVE Progress!Forge(l)
    BY <2>1, <2>3, <2>9, CatchPropertyForges
  <2>. QED
    BY <1>1, <1>6, <2>4, <2>5, <2>6, <2>7, <2>8, <2>9 DEF Step, Progress!Next
<1>. QED
  BY <1>2, <1>3, <1>4, <1>5, <1>6 DEF Next

(* The cache, the tracker objects and the property files implement what    *)
(* LessonProgress promises, whatever the number of requests, lessons and   *)
(* stages: the interleavings and stops of the server that no accident      *)
(* accounts for can neither lose answered progress, nor bring back what a  *)
(* restart took; and what was not earned is shown only of a lesson a       *)
(* parameter of Catcher was stored in.                                     *)
THEOREM ProgressIsKept == Spec => KeepsProgress
<1>1. Init => Progress!Init
  BY DEF Init, Progress!Init, Progress!Nothing, Shown, Cached, NoProps, Credit
<1>2. TypeOK /\ NoForgedProgress => ShownEarned
  BY ShownIsEarned
<1>3. /\ TypeOK /\ LocalsOK /\ EarnedInv /\ ExactInv /\ BehindInv /\ ShownEarned'
      /\ [Next]_vars
      => [Progress!Next]_(Progress!vars)
  BY ProgressStep
<1>. QED
  BY <1>1, <1>2, <1>3, TypeCorrect, AlwaysEarned, AlwaysExact, AlwaysBehind, ProgressIsEarned, PTL
  DEF Spec, KeepsProgress, Progress!Spec
=============================================================================
