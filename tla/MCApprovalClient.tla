--------------------------- MODULE MCApprovalClient ---------------------------
(* A small instance of ApprovalClient for TLC. *)
EXTENDS ApprovalClient, TLC

(* No definition names a hash or a client; Key names an account.           *)
Symmetry == Permutations(Hashes) \cup Permutations(Clients)
=============================================================================
