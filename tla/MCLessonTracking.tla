-------------------------- MODULE MCLessonTracking --------------------------
(* A small instance of LessonTracking: two requests at a time and two      *)
(* stages.                                                                 *)
EXTENDS LessonTracking, TLC

Symmetry == Permutations(Tracker) \cup Permutations(Thread)

(* States that differ only in garbage are the same state. *)
Reachable ==
  << disk, storage, local, history, alone,
     [m \in Live |-> maps[m]],
     [k \in Used \ {None} |-> <<completed[k], stage[k], props[k]>>] >>

(* The same without Catcher's own properties. *)
Progressing ==
  << [l \in Lesson |-> <<disk[l].done, disk[l].stage>>], storage, local,
     gain, earned, forged, since, acked, accident, alone,
     [m \in Live |-> maps[m]],
     [k \in Used \ {None} |->
        <<completed[k], stage[k], props[k].done, props[k].stage>>] >>

(* What decides about the stages on record: neither the stage a tracker is *)
(* at, nor other properties, nor the other histories do.                   *)
Recorded ==
  << [l \in Lesson |-> <<disk[l].done, Credit(l)>>], storage, local,
     [m \in Live |-> maps[m]],
     [k \in Used \ {None} |-> <<completed[k], props[k].done>>] >>

(* Of a lesson with an accident the properties speak of stages on record.  *)
Accidents == {l \in Lesson : accident[l] # None}
Told == IF Accidents = {} THEN Progressing ELSE Recorded

(* Requests that overlap, or come after an accident, are about the last    *)
(* stage only, and then it is no matter which one that is; a request that  *)
(* is alone goes through all of them.                                      *)
Overlapping == \E t, u \in Thread : t # u /\ pc[t] # "idle" /\ pc[u] # "idle"
LastOnly ==
  /\ Overlapping \/ Accidents # {} => \A l \in Lesson : Credit(l) \subseteq {NumStages}
  /\ Overlapping /\ Accidents = {} =>
       /\ \A l \in Lesson : disk[l].stage < NumStages
       /\ \A k \in Used \ {None} : stage[k] < NumStages /\ props[k].stage < NumStages

(* Follow the lessons up to their first accident. *)
AccidentFree == Accidents = {}
=============================================================================
