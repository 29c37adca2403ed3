--------------------------- MODULE MCLessonFrontend ---------------------------
(* Two lessons, one of them staged: the menu links to its stages only. *)
EXTENDS LessonFrontend

CONSTANTS basics, lab, t1, t2

MCRole  == [l \in {basics, lab} |-> "user"]
MCLinks == [lesson : {basics, Unknown}, stage : {0}] \cup [lesson : {lab}, stage : 1..N]
MCRequests == {Nothing} \cup {Attack(p) : p \in {q \in Place : q.lesson # Absent}}

(* What can still matter, the histories of SessionScreens left out: the      *)
(* previous screen between "remember" and "compare", the forms of a lesson,  *)
(* the newest info while one is under way.                                   *)
Reachable ==
  LET busy == {t \in Thread : pc[t] # "idle"}
      sent == {t \in Thread \ busy : ajax[t] # "none"}
      asking == \E t \in Thread : info[t] # "none"
  IN <<current, previousStage, {parser} \cap busy, stage, pc, model, ajax, info, user,
       shown, title,
       IF previous \in Lesson /\ \A t \in busy : pc[t] \notin {"choose", "compare"} THEN First ELSE previous,
       [t \in IF busy = {} THEN {} ELSE busy \cup {parser} |-> req[t]],
       [t \in {u \in busy : pc[u] \in {"user", "challenge", "handle"}} |-> scr[t]],
       [t \in sent |-> <<page[t].kind, page[t].lesson>>],
       IF shown \in Lesson THEN form ELSE Nowhere,
       IF asking THEN <<newest, loaded>> ELSE <<>>>>
=============================================================================
