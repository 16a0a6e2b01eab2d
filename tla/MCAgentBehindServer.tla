------------------------ MODULE MCAgentBehindServer ------------------------
(* Small instances of AgentBehindServer. Requests are not interchangeable  *)
(* when only some of them are UUIDs.                                       *)
EXTENDS AgentBehindServer, TLC

Symmetry == Permutations(Tasks) \cup Permutations(Conns)
=============================================================================
