---------------------------- MODULE MCAgentLoop ----------------------------
(* Constants for checking AgentLoop. *)
EXTENDS AgentLoop, TLC

(* Capital for one move, or for two; or a breached reserve and capital in  *)
(* Aave.                                                                   *)
LittleIdle     == {<<7, 0>>}
IdleOrBreached == {<<8, 0>>, <<1, 4>>}

Symmetry == Permutations(Scanners) \cup Permutations(Reconcilers)
============================================================================
