--------------------------- MODULE OneUseApproval ---------------------------
(***************************************************************************)
(* What an approval of the Safe promises, whoever keeps it: each grant     *)
(* lets the approved transaction run at most once, and not after the grant *)
(* was withdrawn or ran out.  AgentExecutorModule implements it.           *)
(***************************************************************************)
EXTENDS Naturals

CONSTANT Hashes        \* the transactions that can be approved

VARIABLES
  live,                \* transactions with a usable approval
  granted,             \* granted[h]: approvals given so far
  redeemed             \* redeemed[h]: executions so far

vars == <<live, granted, redeemed>>

Init ==
  /\ live = {}
  /\ granted = [h \in Hashes |-> 0]
  /\ redeemed = [h \in Hashes |-> 0]

(* A second grant of a live approval renews it: it does not add a use. *)
Grant(h) ==
  /\ live' = live \cup {h}
  /\ granted' = [granted EXCEPT ![h] = @ + 1]
  /\ UNCHANGED redeemed

Redeem(h) ==
  /\ h \in live
  /\ live' = live \ {h}
  /\ redeemed' = [redeemed EXCEPT ![h] = @ + 1]
  /\ UNCHANGED granted

(* Approvals end unused: one is revoked, or several expire together. *)
Lapse(S) ==
  /\ live' = live \ S
  /\ UNCHANGED <<granted, redeemed>>

Next ==
  \/ \E h \in Hashes : Grant(h) \/ Redeem(h)
  \/ \E S \in SUBSET live : Lapse(S)

Spec == Init /\ [][Next]_vars

TypeOK ==
  /\ live \subseteq Hashes
  /\ granted \in [Hashes -> Nat]
  /\ redeemed \in [Hashes -> Nat]

(* No transaction runs more often than it was approved, and a live         *)
(* approval is a grant that has not been used.                             *)
UsesCovered ==
  \A h \in Hashes :
    redeemed[h] + (IF h \in live THEN 1 ELSE 0) <= granted[h]
=============================================================================
