---------------------- MODULE AgentExecutorModuleProofs ---------------------
(***************************************************************************)
(* The approval module implements one-use approvals, for any hashes, any   *)
(* accounts and any number of blocks and approvals; so it does behind any  *)
(* number of clients, whose late and reverted transactions are explained.  *)
(***************************************************************************)
EXTENDS ApprovalClient, TLAPS

(* Storage is well typed at first and after every operation. *)
LEMMA TypeHolds == Init => TypeOK
BY ConstantsAssumption DEF Init, TypeOK, Block

LEMMA TypeKept == TypeOK /\ [Next]_vars => TypeOK'
<1> SUFFICES ASSUME TypeOK, [Next]_vars PROVE TypeOK'
  OBVIOUS
<1> USE DEF TypeOK, Block
<1>1. ASSUME NEW h \in Hashes, NEW validUntil \in Block,
             ApproveCalldata(h, validUntil)
      PROVE  TypeOK'
  BY <1>1 DEF ApproveCalldata
<1>2. ASSUME NEW h \in Hashes, RevokeCalldata(h)
      PROVE  TypeOK'
  BY <1>2, ConstantsAssumption DEF RevokeCalldata
<1>3. ASSUME NEW account \in Accounts \cup {ZeroAddress},
             SetExecutor(account)
      PROVE  TypeOK'
  BY <1>3 DEF SetExecutor
<1>4. ASSUME NEW caller \in Accounts, NEW h \in Hashes, Execute(caller, h)
      PROVE  TypeOK'
  BY <1>4, ConstantsAssumption DEF Execute
<1>5. CASE NextBlock
  BY <1>5, ConstantsAssumption DEF NextBlock
<1>6. CASE UNCHANGED vars
  BY <1>6 DEF vars
<1> QED
  BY <1>1, <1>2, <1>3, <1>4, <1>5, <1>6 DEF Next

LEMMA TypeCorrect == Spec => []TypeOK
BY TypeHolds, TypeKept, PTL DEF Spec

(* Every operation is a step of OneUseApproval, or invisible there: the    *)
(* passing of blocks can only end approvals.                               *)
LEMMA StepRefines == TypeOK /\ [Next]_vars => [Approval!Next]_(Approval!vars)
<1> SUFFICES ASSUME TypeOK, [Next]_vars
             PROVE  Approval!Next \/ UNCHANGED Approval!vars
  OBVIOUS
<1> DEFINE Live == {h \in Hashes : IsApprovalValid(h)}
<1>0. approvals \in [Hashes -> Block] /\ block \in Nat
  BY DEF TypeOK, Block
<1>1. ASSUME NEW h \in Hashes, NEW validUntil \in Block,
             ApproveCalldata(h, validUntil)
      PROVE  Approval!Next
  <2>1. Live' = Live \cup {h}
    BY <1>0, <1>1 DEF ApproveCalldata, IsApprovalValid, Block
  <2>2. Approval!Grant(h)
    BY <1>1, <2>1 DEF ApproveCalldata, Approval!Grant
  <2> QED
    BY <2>2 DEF Approval!Next
<1>2. ASSUME NEW h \in Hashes, RevokeCalldata(h)
      PROVE  Approval!Next
  <2>1. Live' = Live \ ({h} \cap Live)
    BY <1>0, <1>2 DEF RevokeCalldata, IsApprovalValid
  <2>2. Approval!Lapse({h} \cap Live)
    BY <1>2, <2>1 DEF RevokeCalldata, Approval!Lapse
  <2> QED
    BY <2>2 DEF Approval!Next
<1>3. ASSUME NEW caller \in Accounts, NEW h \in Hashes, Execute(caller, h)
      PROVE  Approval!Next
  <2>1. h \in Live /\ Live' = Live \ {h}
    BY <1>0, <1>3 DEF Execute, IsApprovalValid
  <2>2. Approval!Redeem(h)
    BY <1>3, <2>1 DEF Execute, Approval!Redeem
  <2> QED
    BY <2>2 DEF Approval!Next
<1>4. CASE NextBlock
  <2>1. Live' = Live \ (Live \ Live')
    BY <1>0, <1>4 DEF NextBlock, IsApprovalValid, Block
  <2>2. Approval!Lapse(Live \ Live')
    BY <1>4, <2>1 DEF NextBlock, Approval!Lapse
  <2>3. Live \ Live' \in SUBSET Live
    OBVIOUS
  <2> QED
    BY <2>2, <2>3 DEF Approval!Next
<1>5. ASSUME NEW account \in Accounts \cup {ZeroAddress}, SetExecutor(account)
      PROVE  UNCHANGED Approval!vars
  BY <1>5 DEF SetExecutor, Approval!vars, IsApprovalValid
<1>6. CASE UNCHANGED vars
  BY <1>6 DEF vars, Approval!vars, IsApprovalValid
<1> QED
  BY <1>1, <1>2, <1>3, <1>4, <1>5, <1>6 DEF Next

(* Nothing is approved at first, in the module and in the abstraction.      *)
LEMMA InitRefines == Init => Approval!Init
BY DEF Init, Approval!Init, IsApprovalValid

(* The module implements the abstract approvals: no renewal, revocation,   *)
(* expiry or execution gives a second or a late use.                       *)
THEOREM Refinement == Spec => OneUse
BY InitRefines, StepRefines, TypeCorrect, PTL DEF Spec, OneUse, Approval!Spec

(* No calldata is executed more often than the Safe approved it.           *)
THEOREM ExecutionsBounded == Spec => []ExecutionsApproved
<1>1. Init => ExecutionsApproved
  <2> SUFFICES ASSUME Init PROVE ExecutionsApproved
    OBVIOUS
  <2>1. \A h \in Hashes : executions[h] = 0 /\ granted[h] = 0
    BY DEF Init
  <2>2. \A h \in Hashes : ~IsApprovalValid(h)
    BY DEF Init, IsApprovalValid
  <2>3. ASSUME NEW h \in Hashes
        PROVE  executions[h] + (IF h \in {k \in Hashes : IsApprovalValid(k)}
                                  THEN 1 ELSE 0) <= granted[h]
    BY <2>1, <2>2
  <2> QED
    BY <2>3 DEF ExecutionsApproved, Approval!UsesCovered
<1>2. TypeOK /\ ExecutionsApproved /\ [Approval!Next]_(Approval!vars) =>
        ExecutionsApproved'
  <2> SUFFICES ASSUME TypeOK, ExecutionsApproved,
                      Approval!Next \/ UNCHANGED Approval!vars
               PROVE  ExecutionsApproved'
    BY DEF Approval!vars
  <2> DEFINE Live == {h \in Hashes : IsApprovalValid(h)}
  <2> USE DEF ExecutionsApproved, Approval!UsesCovered
  <2>0. granted \in [Hashes -> Nat] /\ executions \in [Hashes -> Nat]
    BY DEF TypeOK
  <2>1. ASSUME NEW h \in Hashes, Approval!Grant(h)
        PROVE  ExecutionsApproved'
    BY <2>0, <2>1 DEF Approval!Grant
  <2>2. ASSUME NEW h \in Hashes, Approval!Redeem(h)
        PROVE  ExecutionsApproved'
    BY <2>0, <2>2 DEF Approval!Redeem
  <2>3. ASSUME NEW S \in SUBSET Live, Approval!Lapse(S)
        PROVE  ExecutionsApproved'
    BY <2>0, <2>3 DEF Approval!Lapse
  <2>4. CASE UNCHANGED Approval!vars
    BY <2>4 DEF Approval!vars
  <2> QED
    BY <2>1, <2>2, <2>3, <2>4 DEF Approval!Next
<1> QED
  BY <1>1, <1>2, StepRefines, TypeCorrect, PTL DEF Spec

-----------------------------------------------------------------------------
(* The client *)

allVars == <<vars, clientVars>>

(* What was asked of the owners: a known hash, until some block.           *)
Asked(hash, until) == hash \in Hashes /\ until \in Block

(* A client at work has a hash; the approval it saw holds until something  *)
(* takes it away, and does so after a revert too.                          *)
ClientOK(c) ==
  /\ client[c].at # "idle" => client[c].hash \in Hashes
  /\ Watched(c) /\ ~client[c].lost => IsApprovalValid(client[c].hash)

Calls  == [at : {"idle", "checked", "sent", "reverted"}, hash : Hashes \cup {"none"}, lost : BOOLEAN]
Asking == [at : {"idle", "nonce"}, hash : Hashes \cup {"none"}, until : Block]

AskingInv ==
  /\ asking \in Asking
  /\ asking.at # "idle" => Asked(asking.hash, asking.until)
  /\ \A p \in proposals : Asked(p.hash, p.until)

ClientInv ==
  /\ TypeOK
  /\ AskingInv
  /\ client \in [Clients -> Calls]
  /\ \A c \in Clients : ClientOK(c)

(* The inductive invariant holds at first: nothing is asked for, nothing   *)
(* is approved and no client is at work.                                   *)
LEMMA ClientInitially == ClientInit => ClientInv
<1> SUFFICES ASSUME ClientInit PROVE ClientInv
  OBVIOUS
<1> USE DEF ClientInit, NoAsk, NoCall
<1>1. TypeOK
  BY TypeHolds
<1>2. AskingInv
  BY ConstantsAssumption DEF Init, Block, AskingInv, Asking
<1>3. client \in [Clients -> Calls] /\ \A c \in Clients : ClientOK(c)
  BY DEF ClientOK, Watched, Calls
<1> QED
  BY <1>1, <1>2, <1>3 DEF ClientInv

(* Whatever the clients, the owners and the chain do is an operation of    *)
(* the module, or does not touch it: a client calls it with its own key.   *)
LEMMA ClientCallsModule == ClientInv /\ [ClientNext]_allVars => [Next]_vars
<1> SUFFICES ASSUME ClientInv, ClientNext, ~ UNCHANGED vars PROVE Next
  BY DEF allVars
<1>1. ASSUME NEW p \in proposals, Grant(p) PROVE Next
  <2>1. p.hash \in Hashes /\ p.until \in Block
    BY DEF ClientInv, AskingInv, Asked
  <2> QED
    BY <1>1, <2>1 DEF Grant, Next
<1>2. CASE OwnersDo
  BY <1>2 DEF OwnersDo, Next
<1>3. CASE Mine
  BY <1>3 DEF Mine, Next
<1>4. ASSUME NEW c \in Clients, Include(c, Key) PROVE Next
  <2>1. Key \in Accounts
    BY DEF Key, ClientInv, TypeOK
  <2>2. client[c].hash \in Hashes
    BY <1>4 DEF ClientInv, ClientOK, Include
  <2>3. Execute(Key, client[c].hash)
    BY <1>4 DEF Include, Revert
  <2> QED
    BY <2>1, <2>2, <2>3 DEF Next
<1> QED
  BY <1>1, <1>2, <1>3, <1>4 DEF ClientNext

(* Proposals that go leave what was asked as it is.                        *)
LEMMA AskingKept ==
  ASSUME AskingInv, proposals' \subseteq proposals, UNCHANGED asking
  PROVE  AskingInv'
BY DEF AskingInv, Asked

(* A transaction of the owners, or the passing of a block, marks every     *)
(* client whose approval it takes away.                                    *)
LEMMA LoseKeepsClients ==
  ASSUME client \in [Clients -> Calls], \A c \in Clients : ClientOK(c), Lose
  PROVE  client' \in [Clients -> Calls] /\ \A c \in Clients : ClientOK(c)'
<1>1. ASSUME NEW c \in Clients
      PROVE  client'[c] \in Calls /\ ClientOK(c)'
  <2>1. client'[c] = IF Watched(c) /\ ~ValidAfter(client[c].hash)
                     THEN [client[c] EXCEPT !.lost = TRUE] ELSE client[c]
    BY DEF Lose
  <2>2. client[c] \in Calls /\ ClientOK(c)
    OBVIOUS
  <2>3. CASE Watched(c) /\ ~ValidAfter(client[c].hash)
    <3>1. client'[c] = [at |-> client[c].at, hash |-> client[c].hash, lost |-> TRUE]
      BY <2>1, <2>2, <2>3 DEF Calls
    <3> QED
      BY <2>2, <3>1 DEF Calls, ClientOK, Watched
  <2>4. CASE ~(Watched(c) /\ ~ValidAfter(client[c].hash))
    BY <2>1, <2>2, <2>4 DEF ClientOK, Watched, ValidAfter, IsApprovalValid
  <2> QED
    BY <2>3, <2>4
<1>2. client' \in [Clients -> Calls]
  BY <1>1 DEF Lose
<1> QED
  BY <1>1, <1>2

(* The inductive invariant is kept by every step of the client, the owners *)
(* and the chain.                                                          *)
LEMMA ClientKeeps == ClientInv /\ [ClientNext]_allVars => ClientInv'
<1> SUFFICES ASSUME ClientInv, [ClientNext]_allVars PROVE ClientInv'
  OBVIOUS
<1>1. TypeOK'
  BY ClientCallsModule, TypeKept DEF ClientInv
<1>2. TypeOK /\ AskingInv /\ client \in [Clients -> Calls]
  BY DEF ClientInv
<1>3. \A c \in Clients : ClientOK(c)
  BY DEF ClientInv
<1>4. approvals \in [Hashes -> Nat] /\ approvals' \in [Hashes -> Nat]
  BY <1>1, <1>2 DEF TypeOK, Block
<1> DEFINE Safe == AskingInv'
           Calm == client' \in [Clients -> Calls] /\ \A c \in Clients : ClientOK(c)'
<1>5. ASSUME NEW h \in Hashes, ReadBlock(h), UNCHANGED vars
      PROVE  Safe /\ Calm
  <2>1. block + Window \in Block
    BY <1>2, <1>5, WindowAssumption DEF ReadBlock, Block, TypeOK
  <2>2. asking' = [at |-> "nonce", hash |-> h, until |-> block + Window] /\ UNCHANGED proposals
    BY <1>5 DEF ReadBlock
  <2>3. AskingInv'
    BY <1>2, <2>1, <2>2 DEF AskingInv, Asked, Asking
  <2> QED
    BY <1>2, <1>3, <1>5, <2>3 DEF ReadBlock, vars, ClientOK, Watched, IsApprovalValid
<1>6. ASSUME Propose, UNCHANGED vars
      PROVE  Safe /\ Calm
  <2>1. \A p \in proposals' : Asked(p.hash, p.until)'
    BY <1>2, <1>6 DEF Propose, AskingInv, Asked, vars
  <2>2. asking' \in Asking /\ asking'.at = "idle"
    BY <1>6, ConstantsAssumption DEF Propose, NoAsk, Asking, Block
  <2>3. AskingInv'
    BY <1>2, <1>6, <2>1, <2>2 DEF AskingInv, Propose, vars
  <2> QED
    BY <1>2, <1>3, <1>4, <1>6, <2>3 DEF Propose, vars, ClientOK, Watched, IsApprovalValid
<1>7. ASSUME NEW p \in proposals, Grant(p)
      PROVE  Safe /\ Calm
  BY <1>2, <1>3, <1>7, AskingKept, LoseKeepsClients DEF Grant
<1>8. ASSUME OwnersDo PROVE Safe /\ Calm
  BY <1>2, <1>3, <1>8, AskingKept, LoseKeepsClients DEF OwnersDo
<1>9. ASSUME Mine PROVE Safe /\ Calm
  BY <1>2, <1>3, <1>9, AskingKept, LoseKeepsClients DEF Mine
<1>10. ASSUME NEW c \in Clients, NEW h \in Hashes, Start(c, h), UNCHANGED vars
       PROVE  Safe /\ Calm
  <2>1. client' = [client EXCEPT ![c] = [at |-> "checked", hash |-> h, lost |-> FALSE]]
        /\ IsApprovalValid(h) /\ UNCHANGED <<asking, safeNonce, proposals>>
    BY <1>10 DEF Start
  <2>2. Calm
    BY <1>2, <1>3, <1>10, <2>1 DEF Calls, ClientOK, Watched, IsApprovalValid, vars
  <2> QED
    BY <1>2, <1>4, <1>10, <2>1, <2>2 DEF AskingInv, Asked, vars
<1>11. ASSUME NEW c \in Clients, SendTransaction(c) \/ Report(c), UNCHANGED vars
       PROVE  Safe /\ Calm
  <2>1. UNCHANGED <<asking, safeNonce, proposals>>
    BY <1>11 DEF SendTransaction, Report
  <2>2. \/ client' = [client EXCEPT ![c].at = "sent"] /\ client[c].at = "checked"
        \/ client' = [client EXCEPT ![c] = NoCall]
    BY <1>11 DEF SendTransaction, Report
  <2>3. CASE client' = [client EXCEPT ![c].at = "sent"] /\ client[c].at = "checked"
    <3>1. client[c] \in Calls /\ ClientOK(c)
      BY <1>2, <1>3
    <3>2. client'[c] = [at |-> "sent", hash |-> client[c].hash, lost |-> client[c].lost]
      BY <1>2, <2>3, <3>1 DEF Calls
    <3>3. client'[c] \in Calls /\ ClientOK(c)'
      BY <1>11, <2>3, <3>1, <3>2 DEF Calls, ClientOK, Watched, IsApprovalValid, vars
    <3>4. ASSUME NEW d \in Clients, d # c PROVE client'[d] = client[d] /\ ClientOK(d)'
      BY <1>2, <1>3, <1>11, <2>3, <3>4 DEF ClientOK, Watched, IsApprovalValid, vars
    <3>5. Calm
      BY <1>2, <2>3, <3>3, <3>4
    <3> QED
      BY <1>2, <1>4, <1>11, <2>1, <3>5 DEF AskingInv, Asked, vars
  <2>4. CASE client' = [client EXCEPT ![c] = NoCall]
    <3>1. Calm
      BY <1>2, <1>3, <1>11, <2>4 DEF Calls, NoCall, ClientOK, Watched, IsApprovalValid, vars
    <3> QED
      BY <1>2, <1>4, <1>11, <2>1, <3>1 DEF AskingInv, Asked, vars
  <2> QED
    BY <2>2, <2>3, <2>4
<1>12. ASSUME NEW c \in Clients, Include(c, Key)
       PROVE  Safe /\ Calm
  <2>1. UNCHANGED <<asking, safeNonce, proposals, block>>
    BY <1>12 DEF Include, Execute, Revert, vars
  <2>3. Safe
    BY <1>2, <2>1, AskingKept
  <2>4. ASSUME Execute(Key, client[c].hash),
               client' = [d \in Clients |->
                 IF d = c THEN NoCall
                 ELSE IF Watched(d) /\ client[d].hash = client[c].hash
                      THEN [client[d] EXCEPT !.lost = TRUE] ELSE client[d]]
        PROVE  Calm
    <3>1. approvals' = [approvals EXCEPT ![client[c].hash] = 0]
      BY <2>4 DEF Execute
    <3>2. ASSUME NEW d \in Clients PROVE client'[d] \in Calls /\ ClientOK(d)'
      <4>1. client[d] \in Calls /\ ClientOK(d)
        BY <1>2, <1>3
      <4>2. CASE d = c
        BY <2>4, <4>2 DEF NoCall, Calls, ClientOK, Watched
      <4>3. CASE d # c /\ Watched(d) /\ client[d].hash = client[c].hash
        <5>1. client'[d] = [at |-> client[d].at, hash |-> client[d].hash, lost |-> TRUE]
          BY <2>4, <4>1, <4>3 DEF Calls
        <5> QED
          BY <4>1, <5>1 DEF Calls, ClientOK, Watched
      <4>4. CASE d # c /\ ~(Watched(d) /\ client[d].hash = client[c].hash)
        <5>1. client'[d] = client[d]
          BY <2>4, <4>4
        <5> QED
          BY <1>4, <2>1, <3>1, <4>1, <4>4, <5>1 DEF ClientOK, Watched, IsApprovalValid
      <4> QED
        BY <4>2, <4>3, <4>4
    <3> QED
      BY <2>4, <3>2
  <2>5. ASSUME UNCHANGED vars,
               client' = [client EXCEPT ![c].at = "reverted", ![c].lost = @ \/ executor # Key]
        PROVE  Calm
    <3>1. client[c].at = "sent" /\ client[c] \in Calls /\ ClientOK(c)
      BY <1>2, <1>3, <1>12 DEF Include
    <3>2. client'[c] = [at |-> "reverted", hash |-> client[c].hash,
                        lost |-> client[c].lost \/ executor # Key]
      BY <1>2, <2>5, <3>1 DEF Calls
    <3>3. client'[c] \in Calls /\ ClientOK(c)'
      <4>1. /\ client[c].hash \in Hashes
            /\ ~client[c].lost => approvals'[client[c].hash] # 0 /\ block' <= approvals'[client[c].hash]
        BY <2>5, <3>1 DEF ClientOK, Watched, IsApprovalValid, vars
      <4>2. CASE client[c].lost \/ executor # Key
        <5>1. client'[c] = [at |-> "reverted", hash |-> client[c].hash, lost |-> TRUE]
          BY <3>1, <3>2, <4>2 DEF Calls
        <5> QED BY <4>1, <5>1 DEF Calls, ClientOK, Watched
      <4>3. CASE ~(client[c].lost \/ executor # Key)
        <5>1. client'[c] = [at |-> "reverted", hash |-> client[c].hash, lost |-> FALSE]
          BY <3>1, <3>2, <4>3 DEF Calls
        <5> QED BY <4>1, <4>3, <5>1 DEF Calls, ClientOK, Watched, IsApprovalValid
      <4> QED BY <4>2, <4>3
    <3>4. ASSUME NEW d \in Clients, d # c PROVE client'[d] \in Calls /\ ClientOK(d)'
      <4>1. client'[d] = client[d]
        BY <1>2, <2>5, <3>4
      <4> QED
        BY <1>2, <1>3, <2>5, <4>1 DEF ClientOK, Watched, IsApprovalValid, vars
    <3> QED
      BY <1>2, <2>5, <3>3, <3>4
  <2> QED
    BY <1>12, <2>3, <2>4, <2>5 DEF Include, Revert
<1>13. ASSUME UNCHANGED allVars PROVE Safe /\ Calm
  BY <1>2, <1>3, <1>4, <1>13
     DEF allVars, vars, clientVars, AskingInv, Asked, ClientOK,
         Watched, IsApprovalValid
<1>14. Safe /\ Calm
  BY <1>5, <1>6, <1>7, <1>8, <1>9, <1>10, <1>11, <1>12, <1>13 DEF ClientNext
<1> QED
  BY <1>1, <1>14 DEF ClientInv

LEMMA ClientInvHolds == ClientSpec => []ClientInv
BY ClientInitially, ClientKeeps, PTL DEF ClientSpec, allVars

(* A transaction of executeViaModule that was checked and reverts had its  *)
(* approval used, revoked or expired, or its executor rotated; or else the *)
(* Safe refused the call, and the approval is still there.                 *)
THEOREM RevertsAreExplained == ClientSpec => []RevertsExplained
<1>1. ClientInv => RevertsExplained
  BY DEF ClientInv, ClientOK, RevertsExplained, Watched
<1> QED
  BY <1>1, ClientInvHolds, PTL

(* Clients, owners and chain together still use each approval once.        *)
THEOREM ClientsUseOnce == ClientSpec => OneUse
<1>1. ClientInit => Init
  BY DEF ClientInit
<1>2. ClientInv => TypeOK
  BY DEF ClientInv
<1> QED
  BY <1>1, <1>2, InitRefines, ClientInvHolds, ClientCallsModule, StepRefines, PTL
     DEF ClientSpec, OneUse, Approval!Spec, allVars

=============================================================================
