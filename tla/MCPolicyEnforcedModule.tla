----------------------- MODULE MCPolicyEnforcedModule -----------------------
(* Small instances of PolicyEnforcedModule for TLC. *)
EXTENDS PolicyEnforcedModule, TLC

(* Targets, selectors and executor accounts are interchangeable: no        *)
(* definition names one of them.                                           *)
Symmetry ==
  Permutations(Targets) \cup Permutations(Selectors) \cup Permutations(Accounts)
=============================================================================
