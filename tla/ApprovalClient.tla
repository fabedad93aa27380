---------------------------- MODULE ApprovalClient ----------------------------
(***************************************************************************)
(* The client of the V1 module (module-executor.ts): approveOnSafe asks    *)
(* the owners of the Safe to approve the hash of a proven batch until a    *)
(* block that it computes at once, and executeViaModule, once they have    *)
(* signed, checks the approval and sends the execution.  A step is the     *)
(* code between two awaits, or a transaction in a block.                   *)
(***************************************************************************)
EXTENDS AgentExecutorModule, FiniteSets

CONSTANTS
  Clients,        \* calls of executeViaModule going on
  Window          \* validForBlocks: 300, or 600 in the end-to-end script

ASSUME WindowAssumption == Window \in Nat

VARIABLES
  asking,         \* the call of approveOnSafe: [at, hash, until]
  safeNonce,      \* nonce of the Safe
  proposals,      \* proposals of approveCalldata: [hash, until, nonce]
  client          \* client[c]: [at, hash, lost]

Key == CHOOSE a \in Accounts : TRUE    \* EXECUTOR_PRIVATE_KEY

clientVars == <<asking, safeNonce, proposals, client>>

NoAsk  == [at |-> "idle", hash |-> "none", until |-> 0]

(* lost: the approval that the client saw has gone since, or its key is    *)
(* not the executor's.                                                     *)
NoCall == [at |-> "idle", hash |-> "none", lost |-> FALSE]

ClientInit ==
  /\ Init
  /\ asking = NoAsk /\ safeNonce = 0 /\ proposals = {}
  /\ client = [c \in Clients |-> NoCall]

-----------------------------------------------------------------------------
(* approveOnSafe *)

(* currentBlock + validForBlocks, long before the owners sign.             *)
ReadBlock(h) ==
  /\ asking.at = "idle" /\ block + Window <= MaxBlock
  /\ asking' = [at |-> "nonce", hash |-> h, until |-> block + Window]
  /\ UNCHANGED <<safeNonce, proposals, client>>

(* The nonce is read after, and the proposal posted, or refused.           *)
Propose ==
  /\ asking.at = "nonce"
  /\ \/ proposals' = proposals \cup {[hash |-> asking.hash, until |-> asking.until, nonce |-> safeNonce]}
     \/ UNCHANGED proposals
  /\ asking' = NoAsk
  /\ UNCHANGED <<safeNonce, client>>

-----------------------------------------------------------------------------
(* The Safe and the chain.  A client's view of its approval:               *)

Watched(c) == client[c].at \in {"checked", "sent", "reverted"}
ValidAfter(h) == approvals'[h] # 0 /\ block' <= approvals'[h]
Lose == client' = [c \in Clients |->
          IF Watched(c) /\ ~ValidAfter(client[c].hash)
          THEN [client[c] EXCEPT !.lost = TRUE] ELSE client[c]]

(* The owners execute a proposal at the nonce of the Safe.  One whose      *)
(* block has passed reverts, and with it the nonce stays.                  *)
Grant(p) ==
  /\ p \in proposals /\ p.nonce = safeNonce
  /\ ApproveCalldata(p.hash, p.until)
  /\ safeNonce' = safeNonce + 1
  /\ proposals' = {q \in proposals : q.nonce > safeNonce}
  /\ Lose /\ UNCHANGED asking

(* Another transaction of the Safe: an approval until a block of the       *)
(* owners' choice, a revocation, a new executor, or one that replaces      *)
(* whatever was proposed at its nonce.                                     *)
OwnersDo ==
  /\ \/ \E h \in Hashes, until \in Block : ApproveCalldata(h, until)
     \/ \E h \in Hashes : RevokeCalldata(h)
     \/ \E account \in Accounts \cup {ZeroAddress} : SetExecutor(account)
     \/ UNCHANGED vars /\ \E p \in proposals : p.nonce = safeNonce
  /\ safeNonce < MaxGrants + 1 /\ safeNonce' = safeNonce + 1
  /\ proposals' = {q \in proposals : q.nonce > safeNonce}
  /\ Lose /\ UNCHANGED asking

Mine == NextBlock /\ Lose /\ UNCHANGED <<asking, safeNonce, proposals>>

-----------------------------------------------------------------------------
(* executeViaModule *)

(* isApprovalValid, or the error that the hash is not valid, which changes *)
(* nothing.                                                                *)
Start(c, h) ==
  /\ client[c].at = "idle" /\ IsApprovalValid(h)
  /\ client' = [client EXCEPT ![c] = [at |-> "checked", hash |-> h, lost |-> FALSE]]
  /\ UNCHANGED <<asking, safeNonce, proposals>>

SendTransaction(c) ==
  /\ client[c].at = "checked"
  /\ client' = [client EXCEPT ![c].at = "sent"]
  /\ UNCHANGED <<asking, safeNonce, proposals>>

RevertConsuming(h) ==                                            \* mutant
  /\ approvals' = [approvals EXCEPT ![h] = 0]
  /\ UNCHANGED <<executor, block, granted, executions>>

(* The module refuses the caller or the hash, or the Safe refuses the call *)
(* (it fails, or the module is disabled): the module then reverts too, and *)
(* with it the deletion of the approval.                                   *)
Revert(h) == UNCHANGED vars

(* The transaction in a block: the module runs it or it reverts.  The      *)
(* receipt is waited for and its status not looked at.                     *)
Include(c, caller) ==
  /\ client[c].at = "sent"
  /\ \/ /\ Execute(caller, client[c].hash)
        /\ client' = [d \in Clients |->
             IF d = c THEN NoCall
             ELSE IF Watched(d) /\ client[d].hash = client[c].hash
                  THEN [client[d] EXCEPT !.lost = TRUE] ELSE client[d]]
     \/ /\ Revert(client[c].hash)
        /\ client' = [client EXCEPT ![c].at = "reverted", ![c].lost = @ \/ executor # Key]
  /\ UNCHANGED <<asking, safeNonce, proposals>>

(* waitForTransactionReceipt returns: success is reported in any case.     *)
Report(c) ==
  /\ client[c].at = "reverted"
  /\ client' = [client EXCEPT ![c] = NoCall]
  /\ UNCHANGED <<asking, safeNonce, proposals>>

ClientNext ==
  \/ \E h \in Hashes : ReadBlock(h) /\ UNCHANGED vars
  \/ Propose /\ UNCHANGED vars
  \/ \E p \in proposals : Grant(p)
  \/ OwnersDo
  \/ Mine
  \/ \E c \in Clients, h \in Hashes : Start(c, h) /\ UNCHANGED vars
  \/ \E c \in Clients : (SendTransaction(c) \/ Report(c)) /\ UNCHANGED vars
  \/ \E c \in Clients : Include(c, Key)

ClientSpec == ClientInit /\ [][ClientNext]_<<vars, clientVars>>

-----------------------------------------------------------------------------
(* Properties *)

(* A checked execution that reverts (and is reported like a success) had   *)
(* its approval used, revoked or expired after the check, or is not the    *)
(* executor's; else it was the Safe that refused the call, and then the    *)
(* approval, deleted before the call, is there for another try.            *)
RevertsExplained ==
  \A c \in Clients :
    client[c].at = "reverted" => client[c].lost \/ IsApprovalValid(client[c].hash)
=============================================================================
