------------------------ MODULE AgentExecutorModule -------------------------
(***************************************************************************)
(* The V1 Safe module (contracts/src/AgentExecutorModule.sol): the Safe    *)
(* approves the hash of one transaction until a block, and the executor    *)
(* may then run that transaction once.  A transaction that reverts changes *)
(* nothing, so the reverts are guards.                                     *)
(***************************************************************************)
EXTENDS Naturals

CONSTANTS
  Hashes,         \* keccak256(abi.encode(to, value, data, operation))
  Accounts,       \* accounts that may be made executor
  ZeroAddress,    \* address(0)
  MaxBlock,       \* bound: last block number
  MaxGrants       \* bound: approvals given per hash

ASSUME ConstantsAssumption ==
  /\ MaxBlock \in Nat \ {0} /\ MaxGrants \in Nat
  /\ ZeroAddress \notin Accounts

VARIABLES
  executor,       \* the account allowed to call execute
  approvals,      \* hash -> valid-until block, 0: not approved
  block           \* block.number

(* History, read by properties only. *)
VARIABLES
  granted,        \* approveCalldata transactions per hash
  executions      \* executions per hash

vars == <<executor, approvals, block, granted, executions>>

Block == 0 .. MaxBlock

(* isApprovalValid(h), and the two checks of execute. *)
IsApprovalValid(h) == approvals[h] # 0 /\ block <= approvals[h]

(* constructor(_safe, _executor), in any block after genesis *)
Init ==
  /\ executor \in Accounts
  /\ approvals = [h \in Hashes |-> 0]
  /\ block = 1
  /\ granted = [h \in Hashes |-> 0]
  /\ executions = [h \in Hashes |-> 0]

ApproveCalldata(h, validUntil) ==
  /\ validUntil > block
  /\ granted[h] < MaxGrants
  /\ approvals' = [approvals EXCEPT ![h] = validUntil]
  /\ granted' = [granted EXCEPT ![h] = @ + 1]
  /\ UNCHANGED <<executor, block, executions>>

RevokeCalldata(h) ==
  /\ approvals' = [approvals EXCEPT ![h] = 0]
  /\ UNCHANGED <<executor, block, granted, executions>>

SetExecutor(account) ==
  /\ account # ZeroAddress
  /\ executor' = account
  /\ UNCHANGED <<approvals, block, granted, executions>>

ExecuteIgnoringExpiry(caller, h) ==                              \* mutant
  /\ caller = executor
  /\ approvals[h] # 0
  /\ approvals' = [approvals EXCEPT ![h] = 0]
  /\ executions' = [executions EXCEPT ![h] = @ + 1]
  /\ UNCHANGED <<executor, block, granted>>

(* execute: the approval is consumed before the Safe runs the transaction; *)
(* a transaction that fails in the Safe reverts the consumption with it.   *)
Execute(caller, h) ==
  /\ caller = executor
  /\ IsApprovalValid(h)
  /\ approvals' = [approvals EXCEPT ![h] = 0]
  /\ executions' = [executions EXCEPT ![h] = @ + 1]
  /\ UNCHANGED <<executor, block, granted>>

NextBlock ==
  /\ block < MaxBlock
  /\ block' = block + 1
  /\ UNCHANGED <<executor, approvals, granted, executions>>

Next ==
  \/ \E h \in Hashes, validUntil \in Block : ApproveCalldata(h, validUntil)
  \/ \E h \in Hashes : RevokeCalldata(h)
  \/ \E account \in Accounts \cup {ZeroAddress} : SetExecutor(account)
  \/ \E caller \in Accounts, h \in Hashes : Execute(caller, h)
  \/ NextBlock

Spec == Init /\ [][Next]_vars

-----------------------------------------------------------------------------
(* Properties *)

(* Storage keeps its types; the executor is a real account, and the number *)
(* of executions stays a number the approvals bound.                       *)
TypeOK ==
  /\ executor \in Accounts
  /\ approvals \in [Hashes -> Block]
  /\ block \in Block
  /\ granted \in [Hashes -> Nat]
  /\ executions \in [Hashes -> Nat]

(* The usable approvals are those isApprovalValid reports.                 *)
Approval == INSTANCE OneUseApproval WITH
  live <- {h \in Hashes : IsApprovalValid(h)},
  redeemed <- executions

(* The module implements one-use approvals: renewing, revoking, expiring   *)
(* and executing in any order never yields a second use or a late one.     *)
OneUse == Approval!Spec

(* No calldata runs more often than the Safe approved it, and an approval  *)
(* that is still valid has not been used.                                  *)
ExecutionsApproved == Approval!UsesCovered
=============================================================================
