----------------------------- MODULE ExecProcess -----------------------------
(***************************************************************************)
(* One call of Exec.execOptions: the child process, its three pipes, the   *)
(* thread that calls and the ThreadWatcher that interrupts it.  Bytes are  *)
(* counted and told apart by the stream they were written to.  The child   *)
(* is any program: it reads, writes, closes its streams and exits when it  *)
(* likes, or never does anything again.                                    *)
(***************************************************************************)
EXTENDS Naturals

CONSTANTS
  MaxBytes, (* bound on the bytes the child writes to one stream, and on   *)
            (* the length of the input                                     *)
  Capacity  (* bytes a pipe holds                                          *)

ASSUME SizesAssumption == MaxBytes \in Nat /\ Capacity \in Nat \ {0}

VARIABLES
  call,        (* the arguments: length of input, timeout > 0, lazy        *)
  child,       (* what the child is doing                                  *)
  code,        (* how the child exits                                      *)
  pipe,        (* bytes in each pipe                                       *)
  open,        (* whether the writer of the pipe has it open               *)
  wrote,       (* bytes the child has written to each stream               *)
  destroyed,   (* Process.destroy was called: our ends are closed          *)
  pc, sent, buf, lazyQuit, (* locals of execOptions; buf is output         *)
  interrupted, (* the bit shared with the watcher                          *)
  watcher,     (* where the ThreadWatcher is                               *)
  res          (* the ExecResults                                          *)

process == <<child, code, pipe, open, wrote>>
caller  == <<pc, sent, buf, lazyQuit>>
vars    == <<call, process, destroyed, caller, interrupted, watcher, res>>

Out     == {"out", "err"}          (* the streams the child writes         *)
Stream  == Out \cup {"in"}
Doing   == {"think", "out", "err", "in"} (* a live child; the last three   *)
                                         (* are system calls that may block *)
Alive   == child \in Doing

TypeOK ==
  /\ call \in [input : 0..MaxBytes, timed : BOOLEAN, lazy : BOOLEAN]
  /\ child \in Doing \cup {"none", "exited", "killed"}
  /\ code \in {"success", "failure"}
  /\ pipe \in [Stream -> 0..Capacity]
  /\ open \in [Stream -> BOOLEAN]
  /\ wrote \in [Out -> 0..MaxBytes]
  /\ destroyed \in BOOLEAN
  /\ pc \in {"start", "input", "testout", "readout", "endout",
             "testerr", "readerr", "enderr", "decide", "wait", "destroy", "done"}
  /\ sent \in 0..MaxBytes
  /\ buf \in 0..(2 * MaxBytes)
  /\ lazyQuit \in BOOLEAN
  /\ interrupted \in BOOLEAN
  /\ watcher \in {"none", "asleep", "marked", "over"}
  /\ res \in [output : 0..(2 * MaxBytes), errors : 0..MaxBytes,
              interrupted : BOOLEAN, error : {"none", "throwable", "returnCode"}]

Init ==
  /\ call \in [input : 0..MaxBytes, timed : BOOLEAN, lazy : BOOLEAN]
  /\ child = "none" /\ code = "success"
  /\ pipe = [s \in Stream |-> 0]
  /\ open = [s \in Stream |-> TRUE]
  /\ wrote = [s \in Out |-> 0]
  /\ destroyed = FALSE
  /\ pc = "start" /\ sent = 0 /\ buf = 0 /\ lazyQuit = FALSE
  /\ interrupted = FALSE
  /\ watcher = "none"
  /\ res = [output |-> 0, errors |-> 0, interrupted |-> FALSE, error |-> "none"]

-----------------------------------------------------------------------------
(* The child.  A system call it has entered may block for good. *)
ChildCalls(op) ==
  /\ child = "think"
  /\ op \in Out => open[op] /\ wrote[op] < MaxBytes
  /\ child' = op
  /\ UNCHANGED <<call, code, pipe, open, wrote, destroyed, caller, interrupted, watcher, res>>

ChildWrites(s) ==
  /\ child = s /\ pipe[s] < Capacity
  /\ pipe' = [pipe EXCEPT ![s] = @ + 1]
  /\ wrote' = [wrote EXCEPT ![s] = @ + 1]
  /\ child' = "think"
  /\ UNCHANGED <<call, code, open, destroyed, caller, interrupted, watcher, res>>

(* It gets a byte, or the end of its input once the caller has closed it. *)
ChildReads ==
  /\ child = "in"
  /\ \/ pipe["in"] > 0 /\ pipe' = [pipe EXCEPT !["in"] = @ - 1]
     \/ pipe["in"] = 0 /\ ~open["in"] /\ UNCHANGED pipe
  /\ child' = "think"
  /\ UNCHANGED <<call, code, open, wrote, destroyed, caller, interrupted, watcher, res>>

ChildCloses(s) ==
  /\ child = "think" /\ open[s]
  /\ open' = [open EXCEPT ![s] = FALSE]
  /\ UNCHANGED <<call, child, code, pipe, wrote, destroyed, caller, interrupted, watcher, res>>

ChildExits(c) ==
  /\ child = "think"
  /\ child' = "exited" /\ code' = c
  /\ open' = [s \in Stream |-> IF s \in Out THEN FALSE ELSE open[s]]
  /\ UNCHANGED <<call, pipe, wrote, destroyed, caller, interrupted, watcher, res>>

Child ==
  \/ \E op \in Out \cup {"in"} : ChildCalls(op)
  \/ \E s \in Out : ChildWrites(s) \/ ChildCloses(s)
  \/ ChildReads
  \/ \E c \in {"success", "failure"} : ChildExits(c)

-----------------------------------------------------------------------------
(* The watcher: run sleeps, then interrupt sets the bit and, in a second   *)
(* step, destroys the process.  Nobody stops it when the command is over.  *)
Kill ==
  /\ destroyed' = TRUE
  /\ child' = IF Alive THEN "killed" ELSE child

WatcherMarks ==
  /\ watcher = "asleep"
  /\ watcher' = "marked" /\ interrupted' = TRUE
  /\ UNCHANGED <<call, process, destroyed, caller, res>>

WatcherDestroysFirst ==
  /\ watcher \in {"asleep", "marked"}
  /\ watcher' = IF watcher = "asleep" THEN "asleep" ELSE "over"
  /\ Kill
  /\ UNCHANGED <<call, code, pipe, open, wrote, caller, interrupted, res>>

WatcherOnlyMarks ==
  /\ watcher = "marked"
  /\ watcher' = "over"
  /\ UNCHANGED <<call, process, destroyed, caller, interrupted, res>>

WatcherDestroys ==
  /\ watcher = "marked"
  /\ watcher' = "over"
  /\ Kill
  /\ UNCHANGED <<call, code, pipe, open, wrote, caller, interrupted, res>>

-----------------------------------------------------------------------------
(* The caller: execOptions from top to bottom. *)
Goto(from, to) == pc = from /\ pc' = to

Start ==
  /\ Goto("start", IF call.input > 0 THEN "input" ELSE "testout")
  /\ child' = "think"
  /\ watcher' = IF call.timed THEN "asleep" ELSE "none"
  /\ UNCHANGED <<call, code, pipe, open, wrote, destroyed, sent, buf, lazyQuit, interrupted, res>>

(* Runtime.exec throws: there is no child to destroy. *)
StartFails ==
  /\ Goto("start", "done")
  /\ res' = [res EXCEPT !.error = "throwable"]
  /\ UNCHANGED <<call, process, destroyed, sent, buf, lazyQuit, interrupted, watcher>>

(* The input is written, then closed.  An empty input is never closed. *)
WriteInput ==
  /\ pc = "input" /\ Alive /\ ~destroyed /\ pipe["in"] < Capacity
  /\ sent' = sent + 1
  /\ pipe' = [pipe EXCEPT !["in"] = @ + 1]
  /\ IF sent' = call.input
       THEN pc' = "testout" /\ open' = [open EXCEPT !["in"] = FALSE]
       ELSE UNCHANGED <<pc, open>>
  /\ UNCHANGED <<call, child, code, wrote, destroyed, buf, lazyQuit, interrupted, watcher, res>>

(* Nobody reads that pipe any more: IOException, and on with the output. *)
InputFails ==
  /\ ~Alive \/ destroyed
  /\ Goto("input", "testout")
  /\ res' = [res EXCEPT !.error = "throwable"]
  /\ UNCHANGED <<call, process, destroyed, sent, buf, lazyQuit, interrupted, watcher>>

(* The two reading loops differ in the stream only: both fill "output".    *)
TestPC(s) == IF s = "out" THEN "testout" ELSE "testerr"
ReadPC(s) == IF s = "out" THEN "readout" ELSE "readerr"
EndPC(s)  == IF s = "out" THEN "endout" ELSE "enderr"

Test(s) ==
  /\ Goto(TestPC(s), IF interrupted \/ lazyQuit THEN EndPC(s) ELSE ReadPC(s))
  /\ UNCHANGED <<call, process, destroyed, sent, buf, lazyQuit, interrupted, watcher, res>>

(* read returns a byte; a lazy call quits when no more are waiting. *)
ReadByte(s) ==
  /\ Goto(ReadPC(s), TestPC(s))
  /\ pipe[s] > 0
  /\ pipe' = [pipe EXCEPT ![s] = @ - 1]
  /\ buf' = buf + 1
  /\ lazyQuit' = (call.lazy /\ pipe'[s] = 0)
  /\ UNCHANGED <<call, child, code, open, wrote, destroyed, sent, interrupted, watcher, res>>

ReadEnd(s) ==
  /\ Goto(ReadPC(s), EndPC(s))
  /\ pipe[s] = 0
  /\ ~open[s] \/ ~Alive
  /\ UNCHANGED <<call, process, destroyed, sent, buf, lazyQuit, interrupted, watcher, res>>

(* destroy has closed the stream under the reader: IOException. *)
ReadFails(s) ==
  /\ Goto(ReadPC(s), EndPC(s))
  /\ destroyed
  /\ res' = [res EXCEPT !.error = "throwable"]
  /\ UNCHANGED <<call, process, destroyed, sent, buf, lazyQuit, interrupted, watcher>>

(* The finally blocks.  Nothing has been written to "errors". *)
EndOut ==
  /\ Goto("endout", "testerr")
  /\ res' = [res EXCEPT !.output = buf, !.interrupted = @ \/ interrupted]
  /\ UNCHANGED <<call, process, destroyed, sent, buf, lazyQuit, interrupted, watcher>>

EndErr ==
  /\ Goto("enderr", "decide")
  /\ res' = [res EXCEPT !.errors = 0, !.interrupted = @ \/ interrupted]
  /\ UNCHANGED <<call, process, destroyed, sent, buf, lazyQuit, interrupted, watcher>>

(* if (!interrupted.get(0) && !lazyQuit): the bit is read once more. *)
Decide ==
  /\ Goto("decide", IF interrupted \/ lazyQuit THEN "destroy" ELSE "wait")
  /\ UNCHANGED <<call, process, destroyed, sent, buf, lazyQuit, interrupted, watcher, res>>

(* waitFor.  A killed process does not return the code of success. *)
Wait ==
  /\ ~Alive
  /\ Goto("wait", "destroy")
  /\ res' = [res EXCEPT !.error =
       IF child = "exited" /\ code = "success" THEN @ ELSE "returnCode"]
  /\ UNCHANGED <<call, process, destroyed, sent, buf, lazyQuit, interrupted, watcher>>

DestroyIfInterrupted ==
  /\ Goto("destroy", "done")
  /\ IF interrupted THEN Kill ELSE UNCHANGED <<child, destroyed>>
  /\ UNCHANGED <<call, code, pipe, open, wrote, sent, buf, lazyQuit, interrupted, watcher, res>>

Destroy ==
  /\ Goto("destroy", "done")
  /\ Kill
  /\ UNCHANGED <<call, code, pipe, open, wrote, sent, buf, lazyQuit, interrupted, watcher, res>>

Caller ==
  \/ Start \/ StartFails \/ WriteInput \/ InputFails
  \/ \E s \in Out : Test(s) \/ ReadByte(s) \/ ReadEnd(s) \/ ReadFails(s)
  \/ EndOut \/ EndErr \/ Decide \/ Wait \/ Destroy

Watcher == WatcherMarks \/ WatcherDestroys

Next == Child \/ Caller \/ Watcher

(* The threads of the virtual machine run; the child owes nothing. *)
Spec == Init /\ [][Next]_vars /\ WF_vars(Caller) /\ WF_vars(Watcher)

-----------------------------------------------------------------------------
(* An output that is not marked as cut short (timed out, an exception, or   *)
(* a lazy call that quit) is all the child wrote to it: the child itself    *)
(* had closed the stream, however the watcher's two steps fell among the    *)
(* steps of the reading loop.                                               *)
OutputIsWhole ==
  pc = "done" /\ ~res.interrupted /\ res.error # "throwable" /\ ~lazyQuit =>
    ~open["out"] /\ res.output = wrote["out"]

(* When the call is over, so is the child, whichever way the call ended.    *)
NoOrphan == pc = "done" => ~Alive

(* Who can take a step: the guards of the actions above, without ENABLED. *)
CallerCanMove ==
  \/ pc \in {"start", "testout", "endout", "testerr", "enderr", "decide", "destroy"}
  \/ pc = "input" /\ (~Alive \/ destroyed \/ pipe["in"] < Capacity)
  \/ \E s \in Out : pc = ReadPC(s) /\ (pipe[s] > 0 \/ ~open[s] \/ ~Alive \/ destroyed)
  \/ pc = "wait" /\ ~Alive

ChildCanMove ==
  \/ child = "think"
  \/ child \in Out /\ pipe[child] < Capacity
  \/ child = "in" /\ (pipe["in"] > 0 \/ ~open["in"])

WatcherCanMove == watcher \in {"asleep", "marked"}

(* Nobody can move only if the call is over, or in one of three ways for an *)
(* untimed call to hang: the child fills the pipe of its error stream while *)
(* its output is read; it fills a pipe while the caller still writes input; *)
(* or it waits for the end of an input that was empty and is never closed.  *)
OnlyPipesHang ==
  CallerCanMove \/ ChildCanMove \/ WatcherCanMove
    \/ pc = "done"
    \/ /\ ~call.timed
       /\ \/ pc = "readout" /\ child = "err" /\ pipe["err"] = Capacity
          \/ pc = "input" /\ child \in Out /\ pipe[child] = Capacity
          \/ call.input = 0 /\ child = "in"

(* A call with a timeout returns, whatever the child does or fails to do:   *)
(* blocked in a read, in a write of the input or in waitFor, the caller is  *)
(* freed when the watcher destroys the process.                             *)
TimeoutEndsTheCall == call.timed => <>(pc = "done")

(* The part of TimeoutEndsTheCall that is not about fairness: until a call   *)
(* with a timeout returns, the caller or the watcher has a step to take,    *)
(* whatever the child does.                                                 *)
TimedCallMoves == call.timed /\ pc # "done" => CallerCanMove \/ WatcherCanMove

(* And these steps run out: each of them takes from a number that no step   *)
(* of the child adds to, two for every byte still to be read and one for    *)
(* every byte of input and every point of execOptions still to be passed.   *)
PointsLeft ==
  [start |-> 11, input |-> 10, testout |-> 9, readout |-> 8, endout |-> 7, testerr |-> 6,
   readerr |-> 5, enderr |-> 4, decide |-> 3, wait |-> 2, destroy |-> 1, done |-> 0][pc]
WatcherLeft == [none |-> 2, asleep |-> 2, marked |-> 1, over |-> 0][watcher]
Left == 2 * (2 * MaxBytes - buf) + (MaxBytes - sent) + PointsLeft + WatcherLeft

StepsRunOut == [][/\ Caller \/ Watcher => Left' < Left
                  /\ Child => Left' = Left]_vars

-----------------------------------------------------------------------------
(* The strengthening behind TypeOK, OutputIsWhole and NoOrphan. *)

(* The caller has not finished with the output of the child. *)
ReadingOutput == pc \in {"start", "input", "testout", "readout", "endout"}

(* The caller has read what there was, or has a reason to stop, which its   *)
(* result tells.                                                            *)
OutputSettled ==
  res.interrupted \/ lazyQuit \/ (~open["out"] /\ res.output = wrote["out"])

CallInv ==
  /\ pc = "start" => child = "none"
  /\ child = "none" => pc \in {"start", "done"}
  /\ child = "exited" => ~open["out"]
  /\ watcher = "marked" => interrupted
  /\ pc = "start" => sent = 0
  /\ pc = "input" => sent < call.input
  /\ pc \in {"readout", "readerr"} => ~lazyQuit
  /\ buf + pipe["out"] + pipe["err"] = wrote["out"] + wrote["err"]
  /\ child = "out" => open["out"] /\ wrote["out"] < MaxBytes
  /\ child = "err" => wrote["err"] < MaxBytes
  /\ child = "killed" => destroyed
  /\ destroyed /\ pc # "done" => interrupted
  /\ ReadingOutput => pipe["err"] = wrote["err"]
  /\ pc = "endout" => interrupted \/ lazyQuit \/ (~open["out"] /\ pipe["out"] = 0)
  /\ ~ReadingOutput => OutputSettled \/ (pc = "done" /\ res.error = "throwable")
  /\ pc = "done" => ~Alive

(* The strengthening behind OnlyPipesHang and TimedCallMoves. *)
MoveInv ==
  /\ pc = "start" => ~interrupted /\ ~destroyed /\ watcher = "none"
  /\ call.timed /\ pc \notin {"start", "done"} => watcher # "none"
  /\ res.interrupted => interrupted
  /\ interrupted => watcher \in {"marked", "over"}
  /\ watcher = "over" => destroyed
  /\ destroyed => ~Alive
  /\ open["in"] /\ pc \notin {"start", "input"} => call.input = 0 \/ ~Alive
  /\ child = "err" => open["err"]
  /\ pc \in {"enderr", "decide", "wait"} => interrupted \/ lazyQuit \/ ~open["err"] \/ ~Alive
  /\ pc = "wait" => ~lazyQuit
=============================================================================
