--------------------------- MODULE MCSessionScreens ---------------------------
(* Three lessons: the first, a staged one and one of the hacked admin. *)
EXTENDS SessionScreens, TLC

CONSTANTS basics, lab, users, t1, t2

MCRole == [l \in {basics, lab, users} |-> IF l = users THEN "hacked" ELSE "user"]

Ask(s, n, r, a, k) == [screen |-> s, stage |-> n, restart |-> r, admin |-> a, kind |-> k]

(* Links, forms, a stage link, a stage that does not exist, the commands,   *)
(* the admin parameter and the ways to leave an unknown screen behind.      *)
MCRequests == {
  Ask(Absent, 0, Absent, "absent", "page"),
  Ask(lab, 2, Absent, "absent", "page"),
  Ask(lab, 3, Absent, "absent", "page"),
  Ask(lab, 0, Unknown, "absent", "page"),
  Ask(Absent, 0, lab, "absent", "source"),
  Ask(users, 0, Absent, "true", "page"),
  Ask(users, 0, Absent, "absent", "page"),
  Ask(Unknown, 0, Absent, "true", "start"),
  Ask(Unknown, 0, Absent, "absent", "page"),
  Ask(WELCOME, 0, Absent, "false", "page") }

(* What can still matter.  A request that raced and that the parser does    *)
(* not read is only asked whether it is a start; a page that has been sent   *)
(* is history.                                                               *)
Reachable ==
  LET busy == {t \in Thread : pc[t] # "idle"}
      exact == {t \in busy : Alone(t)}
  IN <<screens, flags, parser, stage, pc, streak, exact,
       [t \in exact \cup {parser} |-> req[t]],
       [t \in exact |-> asked[t]],
       {t \in busy : req[t].kind = "start"},
       [t \in {u \in busy : pc[u] \in {"challenge", "user", "handle"}} |-> scr[t]]>>

Threads == Permutations(Thread)
=============================================================================
