--------------------------- MODULE MCPluginLoading ---------------------------
(* A small instance of PluginLoading: two threads, two jars.               *)
EXTENDS PluginLoading, TLC

ThreadSymmetry == Permutations(Thread)

(* A course that no session and no load has any more is forgotten.         *)
Reachable ==
  LET Live == {c \in Thread : session = c \/ \E t \in Thread : load[t].course = c}
  IN  <<dir, loader, disk, cache, load, job, session, admin \cap Live, raced \cap Live, settled,
        [c \in Live |-> listed[c]], [c \in Live |-> lessons[c]]>>

(* Bound: once plugin_lessons has changed, loads come one at a time.       *)
LoadsOverlapBeforeChanges ==
  changes > 0 => Cardinality({t \in Thread : Busy(t) \/ Working(t)}) <= 1
=============================================================================
