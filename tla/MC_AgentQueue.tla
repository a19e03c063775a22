--------------------------- MODULE MC_AgentQueue ---------------------------
(* Constants of the agent queue's runs. *)
EXTENDS AgentQueue, TLC

\* A replay delivers the newer of two stored events first.
ReplayedFirst == [e \in 1..MaxEvents |-> IF e = 1 THEN 2 ELSE IF e = 2 THEN 1 ELSE e]

AgentSymmetry == Permutations(Agents)
=============================================================================
