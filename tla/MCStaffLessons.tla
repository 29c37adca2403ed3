---------------------------- MODULE MCStaffLessons ----------------------------
(* Two employees: one of the personnel department whose address has a script,  *)
(* and one without the right to delete.  Two threads, and the requests of the  *)
(* pages: a login, right or wrong or without credentials, and each action with *)
(* and without an employee.                                                    *)
EXTENDS StaffLessons, TLC

CONSTANTS hr, tom, t1, t2, other

MCRoleOf == (hr :> "hr") @@ (tom :> "employee")
MCAuth ==
  ({"hr"} \X Functions)
  \cup ({"employee"} \X {"Logout", "ListStaff", "ViewProfile", "EditProfile",
                         "SearchStaff", "FindProfile"})
MCOwnership == {<<hr, hr>>, <<tom, tom>>}

MCRequests ==
  {Request0, Request("Login", hr, "good"), Request("Login", tom, "good"),
   Request("Logout", hr, "none"), Request("SearchStaff", NoOne, "none"),
   Request("FindProfile", NoOne, "good"), Request("ViewProfile", tom, "none"),
   Request("EditProfile", NoOne, "none"), Request("UpdateProfile", tom, "script"),
   Request("DeleteProfile", tom, "none"), Request("DeleteProfile", hr, "none")}

(* What has been read matters until it is used, the parser while a request may *)
(* read it, and the request of a thread while it is alone: states that differ  *)
(* in nothing else are one state.                                              *)
Until(j, ats, value, none) == IF j.at \in ats THEN value ELSE none
Seen(j) ==
  [j EXCEPT !.req   = IF j.alone THEN @ ELSE Request0,
            !.asked = Until(j, {"authorize"}, @, "Login"),
            !.me    = Until(j, {"authorize", "check", "act"}, @, NoOne),
            !.got   = Until(j, {"keep", "status"}, @, NoOne),
            !.mark  = Until(j, {"act", "keep", "status"}, @, FALSE)]
Reading == \E t \in Thread : job[t].at \notin {"idle", "page", "refused"}
Reachable ==
  <<lesson, session, database, completed, history,
    [t \in Thread |-> Seen(job[t])], IF Reading THEN params ELSE Request0>>

Symmetry == Permutations(Thread)
===============================================================================
