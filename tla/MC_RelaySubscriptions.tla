----------------------- MODULE MC_RelaySubscriptions -----------------------
(* Model values for TLC: tasks, evictors, connections and ids are interchangeable. *)
EXTENDS RelaySubscriptions, TLC

Interchangeable ==
    Permutations(Tasks) \cup Permutations(Evictors) \cup Permutations(SubIds) \cup Permutations(Conns)
=============================================================================
