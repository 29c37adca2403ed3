------------------------------ MODULE MCTanLogin ------------------------------
(* Joe has transaction numbers, Jack has none; what the forms and the links  *)
(* of the lesson send, filled in rightly or wrongly.                         *)
EXTENDS TanLogin

Login(u, p) == [Visit EXCEPT !.user = u, !.password = p]
MCRequests ==
  {Visit, [Visit EXCEPT !.logout = TRUE], [Visit EXCEPT !.tan = "Joe"],
   Login("Joe", "Joe"), Login("Joe", "wrong"), Login("Jack", "Jack")}
=============================================================================
