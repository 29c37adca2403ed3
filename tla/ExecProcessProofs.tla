-------------------------- MODULE ExecProcessProofs --------------------------
(* Proofs about ExecProcess, for pipes and streams of any size. *)
EXTENDS ExecProcess, TLAPS

(* Every variable keeps its type, and what the caller knows of the child's  *)
(* output at each point of execOptions is right: CallInv is inductive.      *)
THEOREM CallInvariant == Spec => [](TypeOK /\ CallInv)
<1> USE DEF Out, Stream, Doing, Alive
<1>1. Init => TypeOK /\ CallInv
  <2>1. Init => TypeOK
    <3> SUFFICES ASSUME Init PROVE TypeOK
      OBVIOUS
    <3>1. TRUE \in BOOLEAN /\ FALSE \in BOOLEAN
      OBVIOUS
    <3>2. pipe \in [Stream -> 0..Capacity] /\ open \in [Stream -> BOOLEAN]
      BY <3>1, SizesAssumption DEF Init
    <3>3. res \in [output : 0..(2 * MaxBytes), errors : 0..MaxBytes,
                  interrupted : BOOLEAN, error : {"none", "throwable", "returnCode"}]
      BY <3>1, SizesAssumption DEF Init
    <3>. QED
      BY <3>1, <3>2, <3>3, SizesAssumption DEF Init, TypeOK
  <2>2. Init => CallInv
    BY SizesAssumption DEF Init, CallInv, ReadingOutput
  <2>. QED
    BY <2>1, <2>2
<1>2. TypeOK /\ CallInv /\ [Next]_vars => TypeOK'
  <2> SUFFICES ASSUME TypeOK, CallInv, [Next]_vars PROVE TypeOK'
    OBVIOUS
  <2> USE DEF TypeOK, CallInv, process, caller
  <2>1. ASSUME NEW op \in Out \cup {"in"}, ChildCalls(op)
        PROVE  TypeOK'
    BY <2>1, SizesAssumption DEF ChildCalls
  <2>2. ASSUME NEW s \in Out, ChildWrites(s)
        PROVE  TypeOK'
    BY <2>2, SizesAssumption DEF ChildWrites
  <2>3. ASSUME NEW s \in Out, ChildCloses(s)
        PROVE  TypeOK'
    BY <2>3, SizesAssumption DEF ChildCloses
  <2>4. CASE ChildReads
    BY <2>4, SizesAssumption DEF ChildReads
  <2>5. ASSUME NEW c \in {"success", "failure"}, ChildExits(c)
        PROVE  TypeOK'
    BY <2>5, SizesAssumption DEF ChildExits
  <2>6. CASE WatcherMarks
    BY <2>6, SizesAssumption DEF WatcherMarks
  <2>7. CASE WatcherDestroys
    BY <2>7, SizesAssumption DEF WatcherDestroys, Kill
  <2>8. CASE Start
    BY <2>8, SizesAssumption DEF Start, Goto
  <2>9. CASE StartFails
    BY <2>9, SizesAssumption DEF StartFails, Goto
  <2>10. CASE WriteInput
    <3>1. sent' \in 0..MaxBytes /\ pipe' \in [Stream -> 0..Capacity]
      BY <2>10, SizesAssumption DEF WriteInput
    <3>2. pc' \in {"testout", "input"} /\ open' \in [Stream -> BOOLEAN]
      <4>1. FALSE \in BOOLEAN
        OBVIOUS
      <4>2. CASE sent' = call.input
        BY <2>10, <4>1, <4>2 DEF WriteInput
      <4>3. CASE sent' # call.input
        BY <2>10, <4>3 DEF WriteInput
      <4>. QED
        BY <4>2, <4>3
    <3>. QED
      BY <2>10, <3>1, <3>2 DEF WriteInput
  <2>11. CASE InputFails
    BY <2>11, SizesAssumption DEF InputFails, Goto
  <2>12. ASSUME NEW s \in Out, Test(s)
        PROVE  TypeOK'
    BY <2>12, SizesAssumption DEF Test, Goto, TestPC, ReadPC, EndPC
  <2>13. ASSUME NEW s \in Out, ReadByte(s)
        PROVE  TypeOK'
    BY <2>13, SizesAssumption DEF ReadByte, Goto, TestPC, ReadPC
  <2>14. ASSUME NEW s \in Out, ReadEnd(s)
        PROVE  TypeOK'
    BY <2>14, SizesAssumption DEF ReadEnd, Goto, ReadPC, EndPC
  <2>15. ASSUME NEW s \in Out, ReadFails(s)
        PROVE  TypeOK'
    BY <2>15, SizesAssumption DEF ReadFails, Goto, ReadPC, EndPC
  <2>16. CASE EndOut
    <3> DEFINE b == res.interrupted \/ interrupted
    <3>1. b \in BOOLEAN
      OBVIOUS
    <3>2. res' = [res EXCEPT !.output = buf, !.interrupted = b]
      BY <2>16 DEF EndOut
    <3>. HIDE DEF b
    <3>3. res' \in [output : 0..(2 * MaxBytes), errors : 0..MaxBytes,
                   interrupted : BOOLEAN, error : {"none", "throwable", "returnCode"}]
      <4>1. buf \in 0..(2 * MaxBytes) /\ 0 \in 0..MaxBytes
        BY SizesAssumption
      <4>. HIDE DEF CallInv
      <4>. QED
        BY <3>1, <3>2, <4>1
    <3>. QED
      BY <2>16, <3>3 DEF EndOut, Goto
  <2>17. CASE EndErr
    <3> DEFINE b == res.interrupted \/ interrupted
    <3>1. b \in BOOLEAN
      OBVIOUS
    <3>2. res' = [res EXCEPT !.errors = 0, !.interrupted = b]
      BY <2>17 DEF EndErr
    <3>. HIDE DEF b
    <3>3. res' \in [output : 0..(2 * MaxBytes), errors : 0..MaxBytes,
                   interrupted : BOOLEAN, error : {"none", "throwable", "returnCode"}]
      <4>1. buf \in 0..(2 * MaxBytes) /\ 0 \in 0..MaxBytes
        BY SizesAssumption
      <4>. HIDE DEF CallInv
      <4>. QED
        BY <3>1, <3>2, <4>1
    <3>. QED
      BY <2>17, <3>3 DEF EndErr, Goto
  <2>18. CASE Decide
    BY <2>18, SizesAssumption DEF Decide, Goto
  <2>19. CASE Wait
    BY <2>19, SizesAssumption DEF Wait, Goto
  <2>20. CASE Destroy
    BY <2>20, SizesAssumption DEF Destroy, Goto, Kill
  <2>21. CASE UNCHANGED vars
    BY <2>21 DEF vars
  <2>. QED
    BY <2>1, <2>2, <2>3, <2>4, <2>5, <2>6, <2>7, <2>8, <2>9, <2>10, <2>11, <2>12, <2>13, <2>14, <2>15, <2>16, <2>17, <2>18, <2>19, <2>20, <2>21 DEF Next, Child, Caller, Watcher
<1>3. TypeOK /\ CallInv /\ [Next]_vars => CallInv'
  <2> SUFFICES ASSUME TypeOK, CallInv, [Next]_vars PROVE CallInv'
    OBVIOUS
  <2> USE DEF TypeOK, CallInv, process, caller, ReadingOutput, OutputSettled
  <2>1. ASSUME NEW op \in Out \cup {"in"}, ChildCalls(op)
        PROVE  CallInv'
    BY <2>1, SizesAssumption DEF ChildCalls
  <2>2. ASSUME NEW s \in Out, ChildWrites(s)
        PROVE  CallInv'
    BY <2>2, SizesAssumption DEF ChildWrites
  <2>3. ASSUME NEW s \in Out, ChildCloses(s)
        PROVE  CallInv'
    BY <2>3, SizesAssumption DEF ChildCloses
  <2>4. CASE ChildReads
    BY <2>4, SizesAssumption DEF ChildReads
  <2>5. ASSUME NEW c \in {"success", "failure"}, ChildExits(c)
        PROVE  CallInv'
    BY <2>5, SizesAssumption DEF ChildExits
  <2>6. CASE WatcherMarks
    BY <2>6, SizesAssumption DEF WatcherMarks
  <2>7. CASE WatcherDestroys
    <3>1. CASE Alive
      BY <2>7, <3>1 DEF WatcherDestroys, Kill
    <3>2. CASE ~Alive
      BY <2>7, <3>2 DEF WatcherDestroys, Kill
    <3>. QED
      BY <3>1, <3>2
  <2>8. CASE Start
    BY <2>8, SizesAssumption DEF Start, Goto
  <2>9. CASE StartFails
    BY <2>9, SizesAssumption DEF StartFails, Goto
  <2>10. CASE WriteInput
    BY <2>10, SizesAssumption DEF WriteInput
  <2>11. CASE InputFails
    BY <2>11, SizesAssumption DEF InputFails, Goto
  <2>12. ASSUME NEW s \in Out, Test(s)
        PROVE  CallInv'
    BY <2>12, SizesAssumption DEF Test, Goto, TestPC, ReadPC, EndPC
  <2>13. ASSUME NEW s \in Out, ReadByte(s)
        PROVE  CallInv'
    BY <2>13, SizesAssumption DEF ReadByte, Goto, TestPC, ReadPC
  <2>14. ASSUME NEW s \in Out, ReadEnd(s)
        PROVE  CallInv'
    <3>1. CASE s = "out"
      BY <2>14, <3>1, SizesAssumption DEF ReadEnd, Goto, ReadPC, EndPC
    <3>2. CASE s = "err"
      BY <2>14, <3>2, SizesAssumption DEF ReadEnd, Goto, ReadPC, EndPC
    <3>. QED
      BY <3>1, <3>2
  <2>15. ASSUME NEW s \in Out, ReadFails(s)
        PROVE  CallInv'
    BY <2>15, SizesAssumption DEF ReadFails, Goto, ReadPC, EndPC
  <2>16. CASE EndOut
    BY <2>16, SizesAssumption DEF EndOut, Goto
  <2>17. CASE EndErr
    BY <2>17, SizesAssumption DEF EndErr, Goto
  <2>18. CASE Decide
    BY <2>18, SizesAssumption DEF Decide, Goto
  <2>19. CASE Wait
    BY <2>19, SizesAssumption DEF Wait, Goto
  <2>20. CASE Destroy
    BY <2>20, SizesAssumption DEF Destroy, Goto, Kill
  <2>21. CASE UNCHANGED vars
    BY <2>21 DEF vars
  <2>. QED
    BY <2>1, <2>2, <2>3, <2>4, <2>5, <2>6, <2>7, <2>8, <2>9, <2>10, <2>11, <2>12, <2>13, <2>14, <2>15, <2>16, <2>17, <2>18, <2>19, <2>20, <2>21 DEF Next, Child, Caller, Watcher
<1>. QED
  BY <1>1, <1>2, <1>3, PTL DEF Spec

(* An output that is not marked as cut short is all the child wrote.        *)
THEOREM WholeOutput == Spec => []OutputIsWhole
<1>1. CallInv => OutputIsWhole
  BY DEF CallInv, OutputIsWhole, OutputSettled, ReadingOutput
<1>. QED
  BY <1>1, CallInvariant, PTL

(* The child never outlives the call.                                       *)
THEOREM ChildIsGone == Spec => []NoOrphan
<1>1. CallInv => NoOrphan
  BY DEF CallInv, NoOrphan
<1>. QED
  BY <1>1, CallInvariant, PTL

-----------------------------------------------------------------------------
(* Who can move.  The watcher's two steps end with the child dead; what the *)
(* caller has passed tells which streams the child may still block on.      *)
LEMMA MoveInvariant == Spec => []MoveInv
<1>. USE DEF Out, Stream, Doing, Alive
<1>1. Init => MoveInv
  BY DEF Init, MoveInv
<1>2. TypeOK /\ CallInv /\ MoveInv /\ [Next]_vars => MoveInv'
  <2> SUFFICES ASSUME TypeOK, CallInv, MoveInv, [Next]_vars PROVE MoveInv'
    OBVIOUS
  <2> USE DEF TypeOK, CallInv, MoveInv, process, caller, ReadingOutput
  <2>1. ASSUME NEW op \in Out \cup {"in"}, ChildCalls(op) PROVE MoveInv'
    BY <2>1 DEF ChildCalls
  <2>2. ASSUME NEW s \in Out, ChildWrites(s) PROVE MoveInv'
    BY <2>2 DEF ChildWrites
  <2>3. ASSUME NEW s \in Out, ChildCloses(s) PROVE MoveInv'
    BY <2>3 DEF ChildCloses
  <2>4. CASE ChildReads
    BY <2>4 DEF ChildReads
  <2>5. ASSUME NEW c \in {"success", "failure"}, ChildExits(c) PROVE MoveInv'
    BY <2>5 DEF ChildExits
  <2>6. CASE WatcherMarks
    BY <2>6 DEF WatcherMarks
  <2>7. CASE WatcherDestroys
    BY <2>7 DEF WatcherDestroys, Kill
  <2>8. CASE Start
    BY <2>8, SizesAssumption DEF Start, Goto
  <2>9. CASE StartFails
    BY <2>9 DEF StartFails, Goto
  <2>10. CASE WriteInput
    BY <2>10 DEF WriteInput
  <2>11. CASE InputFails
    BY <2>11 DEF InputFails, Goto
  <2>12. ASSUME NEW s \in Out, Test(s) PROVE MoveInv'
    BY <2>12 DEF Test, Goto, TestPC, ReadPC, EndPC
  <2>13. ASSUME NEW s \in Out, ReadByte(s) PROVE MoveInv'
    BY <2>13 DEF ReadByte, Goto, TestPC, ReadPC
  <2>14. ASSUME NEW s \in Out, ReadEnd(s) PROVE MoveInv'
    BY <2>14 DEF ReadEnd, Goto, ReadPC, EndPC
  <2>15. ASSUME NEW s \in Out, ReadFails(s) PROVE MoveInv'
    BY <2>15 DEF ReadFails, Goto, ReadPC, EndPC
  <2>16. CASE EndOut
    BY <2>16 DEF EndOut, Goto
  <2>17. CASE EndErr
    BY <2>17 DEF EndErr, Goto
  <2>18. CASE Decide
    BY <2>18 DEF Decide, Goto
  <2>19. CASE Wait
    BY <2>19 DEF Wait, Goto
  <2>20. CASE Destroy
    BY <2>20 DEF Destroy, Goto, Kill
  <2>21. CASE UNCHANGED vars
    BY <2>21 DEF vars
  <2>. QED
    BY <2>1, <2>2, <2>3, <2>4, <2>5, <2>6, <2>7, <2>8, <2>9, <2>10, <2>11, <2>12, <2>13, <2>14,
       <2>15, <2>16, <2>17, <2>18, <2>19, <2>20, <2>21 DEF Next, Child, Caller, Watcher
<1>. QED
  BY <1>1, <1>2, CallInvariant, PTL DEF Spec

(* The conditions leave no step out: whoever takes one satisfies his.       *)
LEMMA StepsAreMoves ==
  ASSUME TypeOK
  PROVE  /\ Caller => CallerCanMove
         /\ Child => ChildCanMove
         /\ Watcher => WatcherCanMove
<1>1. Caller => CallerCanMove
  BY DEF Caller, CallerCanMove, Start, StartFails, WriteInput, InputFails, Test, ReadByte, ReadEnd,
     ReadFails, EndOut, EndErr, Decide, Wait, Destroy, Goto, TestPC, ReadPC, Out
<1>2. Child => ChildCanMove
  BY DEF Child, ChildCanMove, ChildCalls, ChildWrites, ChildReads, ChildCloses, ChildExits
<1>3. Watcher => WatcherCanMove
  BY DEF Watcher, WatcherCanMove, WatcherMarks, WatcherDestroys
<1>. QED
  BY <1>1, <1>2, <1>3

(* If neither the caller nor the watcher nor the child can move, the call   *)
(* is over or hangs in one of the three ways of an untimed call, whatever   *)
(* the sizes of pipes, input and output.                                    *)
THEOREM HangsArePipes == Spec => []OnlyPipesHang
<1>1. TypeOK /\ CallInv /\ MoveInv => OnlyPipesHang
  <2>1. SUFFICES ASSUME TypeOK, CallInv, MoveInv, ~CallerCanMove, ~ChildCanMove, ~WatcherCanMove,
                        pc # "done"
                 PROVE  /\ ~call.timed
                        /\ \/ pc = "readout" /\ child = "err" /\ pipe["err"] = Capacity
                           \/ pc = "input" /\ child \in Out /\ pipe[child] = Capacity
                           \/ call.input = 0 /\ child = "in"
    BY DEF OnlyPipesHang
  <2>2. pc \in {"input", "readout", "readerr", "wait"}
    BY <2>1 DEF CallerCanMove, TypeOK
  <2>3. Alive /\ ~destroyed
    BY <2>1, <2>2 DEF CallerCanMove, ReadPC, Out, MoveInv
  <2>4. ~interrupted /\ watcher = "none" /\ ~res.interrupted /\ ~call.timed
    BY <2>1, <2>2, <2>3 DEF MoveInv, WatcherCanMove, TypeOK
  <2>5. CASE child = "in"
    <3>1. pipe["in"] = 0 /\ open["in"]
      BY <2>1, <2>5, SizesAssumption DEF ChildCanMove, TypeOK, Stream
    <3>2. pc # "input"
      BY <2>1, <2>3, <3>1, SizesAssumption DEF CallerCanMove
    <3>. QED
      BY <2>1, <2>2, <2>3, <2>4, <2>5, <3>1, <3>2 DEF MoveInv
  <2>6. CASE child \in Out
    <3>1. pipe[child] = Capacity /\ Capacity > 0
      BY <2>1, <2>6, SizesAssumption DEF ChildCanMove, TypeOK, Stream
    <3>2. CASE pc = "input"
      BY <2>4, <2>6, <3>1, <3>2
    <3>3. CASE pc = "readout"
      BY <2>1, <2>4, <2>6, <3>1, <3>3 DEF CallerCanMove, ReadPC, Out
    <3>4. CASE pc = "readerr"
      <4>1. child = "out"
        BY <2>1, <2>6, <3>1, <3>4 DEF CallerCanMove, ReadPC, Out
      <4>2. open["out"] /\ ~lazyQuit
        BY <2>1, <3>4, <4>1 DEF CallInv
      <4>. QED
        BY <2>1, <2>4, <3>4, <4>2 DEF CallInv, ReadingOutput, OutputSettled
    <3>5. CASE pc = "wait"
      BY <2>1, <2>3, <2>4, <2>6, <3>5 DEF CallInv, MoveInv, ReadingOutput, OutputSettled, Out
    <3>. QED
      BY <2>2, <3>2, <3>3, <3>4, <3>5
  <2>7. child \in Out \cup {"in"}
    BY <2>1, <2>3 DEF ChildCanMove, Alive, Doing, Out
  <2>. QED
    BY <2>5, <2>6, <2>7
<1>. QED
  BY <1>1, CallInvariant, MoveInvariant, PTL

(* A call with a timeout never waits for the child alone: once the watcher  *)
(* is through, every point of execOptions can be passed.                    *)
THEOREM TimedCallIsFree == Spec => []TimedCallMoves
<1>1. TypeOK /\ MoveInv => TimedCallMoves
  <2>1. SUFFICES ASSUME TypeOK, MoveInv, call.timed, pc # "done", ~WatcherCanMove
                 PROVE  CallerCanMove
    BY DEF TimedCallMoves
  <2>2. CASE pc = "start"
    BY <2>2 DEF CallerCanMove
  <2>3. CASE pc # "start"
    <3>1. ~Alive
      BY <2>1, <2>3 DEF MoveInv, WatcherCanMove, TypeOK
    <3>. QED
      BY <2>1, <3>1 DEF CallerCanMove, ReadPC, Out, TypeOK
  <2>. QED
    BY <2>2, <2>3
<1>. QED
  BY <1>1, CallInvariant, MoveInvariant, PTL

LEMMA LeftIsNatural == ASSUME TypeOK PROVE Left \in Nat
<1>1. PointsLeft \in Nat /\ WatcherLeft \in Nat
  BY DEF TypeOK, PointsLeft, WatcherLeft
<1>2. 2 * (2 * MaxBytes - buf) \in Nat /\ MaxBytes - sent \in Nat
  BY SizesAssumption DEF TypeOK
<1>. QED
  BY <1>1, <1>2 DEF Left

(* The caller and the watcher take a bounded number of steps, so a caller   *)
(* with a timeout that is never stopped for good returns: with              *)
(* TimedCallMoves all that TimeoutEndsTheCall needs but fairness.           *)
THEOREM CallsAreBounded == Spec => [](Left \in Nat) /\ StepsRunOut
<1>1. TypeOK => Left \in Nat
  BY LeftIsNatural
<1>2. ASSUME TypeOK, TypeOK', CallInv, MoveInv, Next
      PROVE  (Caller \/ Watcher => Left' < Left) /\ (Child => Left' = Left)
  <2>1. /\ MaxBytes \in Nat /\ buf \in Nat /\ buf' \in Nat /\ sent \in Nat /\ sent' \in Nat
        /\ pc \in {"start", "input", "testout", "readout", "endout", "testerr", "readerr", "enderr",
                   "decide", "wait", "destroy", "done"}
        /\ watcher \in {"none", "asleep", "marked", "over"}
        /\ pc = "start" => watcher = "none"
    BY <1>2, SizesAssumption DEF TypeOK, MoveInv
  <2>. USE DEF Left, PointsLeft, WatcherLeft, process, caller
  <2>2. ASSUME WatcherMarks PROVE Left' < Left
    BY <2>1, <2>2 DEF WatcherMarks
  <2>3. ASSUME WatcherDestroys PROVE Left' < Left
    BY <2>1, <2>3 DEF WatcherDestroys
  <2>4. ASSUME Start PROVE Left' < Left
    BY <2>1, <2>4 DEF Start, Goto
  <2>5. ASSUME StartFails PROVE Left' < Left
    BY <2>1, <2>5 DEF StartFails, Goto
  <2>6. ASSUME WriteInput PROVE Left' < Left
    BY <2>1, <2>6 DEF WriteInput
  <2>7. ASSUME InputFails PROVE Left' < Left
    BY <2>1, <2>7 DEF InputFails, Goto
  <2>8. ASSUME NEW s \in Out, Test(s) PROVE Left' < Left
    BY <2>1, <2>8 DEF Test, Goto, TestPC, ReadPC, EndPC, Out
  <2>9. ASSUME NEW s \in Out, ReadByte(s) PROVE Left' < Left
    BY <2>1, <2>9 DEF ReadByte, Goto, TestPC, ReadPC, Out
  <2>10. ASSUME NEW s \in Out, ReadEnd(s) PROVE Left' < Left
    BY <2>1, <2>10 DEF ReadEnd, Goto, ReadPC, EndPC, Out
  <2>11. ASSUME NEW s \in Out, ReadFails(s) PROVE Left' < Left
    BY <2>1, <2>11 DEF ReadFails, Goto, ReadPC, EndPC, Out
  <2>12. ASSUME EndOut PROVE Left' < Left
    BY <2>1, <2>12 DEF EndOut, Goto
  <2>13. ASSUME EndErr PROVE Left' < Left
    BY <2>1, <2>13 DEF EndErr, Goto
  <2>14. ASSUME Decide PROVE Left' < Left
    BY <2>1, <2>14 DEF Decide, Goto
  <2>15. ASSUME Wait PROVE Left' < Left
    BY <2>1, <2>15 DEF Wait, Goto
  <2>16. ASSUME Destroy PROVE Left' < Left
    BY <2>1, <2>16 DEF Destroy, Goto
  <2>17. ASSUME Child PROVE Left' = Left
    BY <2>17 DEF Child, ChildCalls, ChildWrites, ChildReads, ChildCloses, ChildExits
  <2>. HIDE DEF Left
  <2>. QED
    BY <2>2, <2>3, <2>4, <2>5, <2>6, <2>7, <2>8, <2>9, <2>10, <2>11, <2>12, <2>13, <2>14, <2>15, <2>16, <2>17 DEF Caller, Watcher
<1>. QED
  BY <1>1, <1>2, CallInvariant, MoveInvariant, PTL DEF Spec, StepsRunOut
=============================================================================
