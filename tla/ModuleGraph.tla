----------------------------- MODULE ModuleGraph -----------------------------
(***************************************************************************)
(* What the page of WebGoat expects of its module loader: the factories of *)
(* the modules, and the callbacks of the require calls, run once each, and *)
(* each after those it needs.  Only where modules need each other in a     *)
(* circle may one of them run before another one it needs.                 *)
(***************************************************************************)
CONSTANTS
  Node,   (* the modules and the require calls                             *)
  Needs   (* the nodes whose values a factory or callback is given         *)

Closed(S) == \A x \in S : Needs[x] \subseteq S

(* The needs of d, their needs and so on lead to n. *)
LeadsTo(d, n) == \A S \in SUBSET Node : d \in S /\ Closed(S) => n \in S

VARIABLE done   (* the nodes that have run *)

Init == done = {}

Run(n) ==
  /\ n \notin done
  /\ \A d \in Needs[n] \ done : LeadsTo(d, n)
  /\ done' = done \cup {n}

Next == \E n \in Node : Run(n)

Spec == Init /\ [][Next]_done
=============================================================================
