--------------------------- MODULE LessonProgress ---------------------------
(***************************************************************************)
(* What a user is promised about the progress in the staged lessons.  A    *)
(* lesson shows what was earned in it; a page that was answered stands for *)
(* it; a stop of the server loses at most what no page has answered yet,   *)
(* and only a restart of the lesson takes progress back.  A lesson an      *)
(* accident has happened to is spoilt: all that is promised of it is that  *)
(* it shows nothing that was not earned in it, or credited to it from      *)
(* outside.                                                                *)
(***************************************************************************)
CONSTANTS Lesson, Stage

VARIABLES
  shown,   (* shown[l]: the stages the lesson counts as completed          *)
  acked,   (* acked[l]: those a page has answered for                      *)
  earned,  (* earned[l]: the stages that may be shown: those the user ever *)
           (* completed, and for a spoilt lesson those credited otherwise  *)
  spoilt   (* the lessons an accident has happened to                      *)

vars == <<shown, acked, earned, spoilt>>

Nothing == [l \in Lesson |-> {}]

Init == shown = Nothing /\ acked = Nothing /\ earned = Nothing /\ spoilt = {}

Same(l) == shown'[l] = shown[l] /\ acked'[l] = acked[l]
Only(l) == \A m \in Lesson \ ({l} \cup spoilt') : Same(m)

Earn(l, s) ==
  /\ earned' = [earned EXCEPT ![l] = @ \cup {s}]
  /\ l \notin spoilt' => shown'[l] = shown[l] \cup {s} /\ acked'[l] = acked[l]
  /\ Only(l)

Answer(l) ==
  /\ earned' = earned
  /\ l \notin spoilt' =>
       /\ shown'[l] = shown[l]
       /\ acked[l] \subseteq acked'[l] /\ acked'[l] \subseteq shown[l]
  /\ Only(l)

Restart(l) ==
  /\ earned' = earned
  /\ l \notin spoilt' => shown'[l] = {} /\ acked'[l] = {}
  /\ Only(l)

(* The server stops and starts again. *)
Stop ==
  /\ earned' = earned
  /\ \A l \in Lesson \ spoilt' :
       /\ acked[l] \subseteq shown'[l] /\ shown'[l] \subseteq shown[l]
       /\ acked'[l] = acked[l]

(* All that happens is what happens to spoilt lessons. *)
Mishap ==
  /\ earned' = earned
  /\ \A l \in Lesson \ spoilt' : Same(l)

(* A spoilt lesson is credited with stages the user has not completed. *)
Forge(l) ==
  /\ l \in spoilt'
  /\ \E S \in SUBSET Stage : earned' = [earned EXCEPT ![l] = @ \cup S]
  /\ Only(l)

(* What holds of the spoilt lessons in every step. *)
Spoiling ==
  /\ spoilt \subseteq spoilt'
  /\ \A l \in spoilt' : shown'[l] \subseteq earned'[l] /\ acked'[l] = {}

Next ==
  /\ Spoiling
  /\ \/ \E l \in Lesson : (\E s \in Stage : Earn(l, s)) \/ Answer(l) \/ Restart(l) \/ Forge(l)
     \/ Stop
     \/ Mishap

Spec == Init /\ [][Next]_vars
=============================================================================
