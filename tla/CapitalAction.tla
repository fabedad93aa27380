---------------------------- MODULE CapitalAction ----------------------------
(***************************************************************************)
(* What a decision of the agent promises, whichever process carries it     *)
(* out: capital moves for it only after a simulation has passed, and once. *)
(* Every further move is the price of a fault, such as a crash, a failed   *)
(* write or an answer that is lost, and each fault pays for one.           *)
(***************************************************************************)
EXTENDS Integers

CONSTANTS Decisions, MaxFaults

VARIABLES
  proven,   \* decisions with a passed simulation
  moves,    \* how often capital moved for a decision
  faults    \* faults so far

vars == <<proven, moves, faults>>

Init ==
  /\ proven = {}
  /\ moves = [d \in Decisions |-> 0]
  /\ faults = 0

Prove(d) ==
  /\ proven' = proven \cup {d}
  /\ UNCHANGED <<moves, faults>>

Move(d) ==
  /\ d \in proven
  /\ moves[d] <= faults
  /\ moves' = [moves EXCEPT ![d] = @ + 1]
  /\ UNCHANGED <<proven, faults>>

Fault ==
  /\ faults < MaxFaults
  /\ faults' = faults + 1
  /\ UNCHANGED <<proven, moves>>

Next == Fault \/ \E d \in Decisions : Prove(d) \/ Move(d)

Spec == Init /\ [][Next]_vars
=============================================================================
