--------------------------- MODULE MandateWorkers ----------------------------
(***************************************************************************)
(* services/executor: one worker runs the simulation jobs the mandate      *)
(* monitor has queued, under BullMQ, which retries a job that throws; a    *)
(* second one reconciles what the Safe executed.                           *)
(*                                                                         *)
(* One active mandate.  A step is the code between two awaits.  A run of a *)
(* job is one call of its handler: <<d, n>> is the n-th run for decision   *)
(* d, with its own artifact and execution record.  A Safe transaction is   *)
(* <<d, nonce>>: its hash depends on the calldata and the nonce alone, so  *)
(* a second proposal with an unused nonce is the first one again.          *)
(* Balances and amounts are in AgentLoop; here the simulator's verdict and *)
(* the fate of a transaction are inputs.                                   *)
(***************************************************************************)
EXTENDS Integers, FiniteSets

CONSTANTS
  Modes,         \* deployments: subset of "fork", "manual" (no Safe or no key), "safe", "module"
  Concurrency,   \* jobs of the simulation worker at once: 2 in the code
  Attempts,      \* attempts of a job that throws: 3 in the code
  Decisions,
  PageSize,      \* submitted records read by a pass: 20 in the code
  MaxFaults      \* bound: crashes, failed writes and failed calls

RunNumbers == 1 .. MaxFaults + 1
Runs == Decisions \X RunNumbers
Nonces == 0 .. Cardinality(Decisions) * (MaxFaults + 1)
Txs == Decisions \X Nonces

(* The passes of the worker, and the one made when the process starts. *)
Callers == {"worker", "startup"}

ASSUME ConstantsAssumption ==
  /\ Modes \subseteq {"fork", "manual", "safe", "module"}
  /\ Concurrency \in Nat \ {0} /\ Attempts \in Nat \ {0}
  /\ PageSize \in Nat \ {0}
  /\ IsFiniteSet(Decisions) /\ MaxFaults \in Nat

VARIABLES
  mode,
  \* the database
  decision,       \* agentDecisions.status
  artifact,       \* simulationArtifacts.status of a run
  record,         \* executionRecords of a run: status and safeTxId
  positions,      \* positions rows by deployTxHash, a Safe transaction
  forkPositions,  \* positions rows made for a decision in fork mode
  \* the queue, and the memory of the processes
  job,            \* where a decision's job is, its runs and its failures
  nonceRead,      \* the Safe nonce submitSafeProposal has read
  pass,           \* where each reconciliation pass is, and its records
  \* the chain and the Safe Transaction Service
  moduleTx,       \* fate of the policy module transaction of a run
  posted,         \* Safe transactions proposed
  executed,       \* Safe transactions executed
  safeNonce,
  faults,         \* faults so far
  blind           \* those that can hide a position from a pass (history)

database == <<decision, artifact, record, positions, forkPositions>>
chain    == <<moduleTx, posted, executed, safeNonce>>
vars     == <<mode, database, job, nonceRead, pass, chain, faults, blind>>

NoTx     == <<"none", 0>>
NoNonce  == -1
NoRecord == [status |-> "none", tx |-> NoTx]
IdlePass == [at |-> "idle", todo |-> {}, current |-> NoTx]

Ended   == {"none", "waiting", "completed", "failed"}
Active  == {d \in Decisions : job[d].at \notin Ended}
Run(d)  == <<d, job[d].runs>>

OneMoreFault == faults < MaxFaults /\ faults' = faults + 1
Fault      == OneMoreFault /\ UNCHANGED blind
BlindFault == OneMoreFault /\ blind' = blind + 1
NoFault    == UNCHANGED <<faults, blind>>

Init ==
  /\ mode \in Modes
  /\ decision = [d \in Decisions |-> "none"]
  /\ artifact = [r \in Runs |-> "none"]
  /\ record = [r \in Runs |-> NoRecord]
  /\ positions = [t \in Txs |-> 0]
  /\ forkPositions = [d \in Decisions |-> 0]
  /\ job = [d \in Decisions |-> [at |-> "none", runs |-> 0, failures |-> 0]]
  /\ nonceRead = [d \in Decisions |-> NoNonce]
  /\ pass = [p \in Callers |-> IdlePass]
  /\ moduleTx = [r \in Runs |-> "none"]
  /\ posted = {} /\ executed = {} /\ safeNonce = 0
  /\ faults = 0 /\ blind = 0

-----------------------------------------------------------------------------
(* The mandate monitor has stored a decision and queued its job; the first *)
(* attempts may have thrown before they stored anything.                   *)
Enqueue(d) ==
  /\ job[d].at = "none"
  /\ decision' = [decision EXCEPT ![d] = "proposed"]
  /\ \E n \in 0 .. Attempts - 1 :
       job' = [job EXCEPT ![d].at = "waiting", ![d].failures = n]
  /\ UNCHANGED <<mode, artifact, record, positions, forkPositions, nonceRead, pass, chain, faults, blind>>

-----------------------------------------------------------------------------
(* services/executor: the simulation worker *)

Goto(d, step) == job' = [job EXCEPT ![d].at = step]

(* The handler throws: BullMQ runs it again, Attempts times in all.        *)
Retry(d) ==
  job' = [job EXCEPT
            ![d].failures = @ + 1,
            ![d].at = IF job[d].failures + 1 < Attempts THEN "waiting" ELSE "failed"]

(* The handler starts over, whatever an earlier run has done; the mandate  *)
(* is active and the decision exists.                                      *)
StartJob(d) ==
  /\ job[d].at = "waiting"
  /\ Cardinality(Active) < Concurrency
  /\ job' = [job EXCEPT ![d].at = "simulate", ![d].runs = @ + 1]
  /\ nonceRead' = [nonceRead EXCEPT ![d] = NoNonce]
  /\ UNCHANGED <<mode, database, pass, chain, faults, blind>>

SimulateAnyway(d) ==                                             \* mutant
  /\ job[d].at = "simulate"
  /\ artifact' = [artifact EXCEPT ![Run(d)] = "failed"]
  /\ Goto(d, IF mode = "module" THEN "module" ELSE "nonce")
  /\ NoFault
  /\ UNCHANGED <<mode, decision, record, positions, forkPositions, nonceRead, pass, chain>>

(* mandateSimulator.run, whose errors make a failed artifact, and the      *)
(* insert of the artifact.                                                 *)
Simulate(d) ==
  /\ job[d].at = "simulate"
  /\ \/ /\ \E result \in {"passed", "failed"} :
             /\ artifact' = [artifact EXCEPT ![Run(d)] = result]
             /\ Goto(d, IF result = "passed" THEN "route" ELSE "block")
        /\ NoFault
     \/ Fault /\ Retry(d) /\ UNCHANGED artifact
  /\ UNCHANGED <<mode, decision, record, positions, forkPositions, nonceRead, pass, chain>>

(* Where a passed simulation goes depends on the deployment; the           *)
(* organisation is read first.                                             *)
Route(d) ==
  /\ job[d].at = "route"
  /\ \/ /\ Goto(d, CASE mode = "fork"   -> "forkRecord"
                     [] mode = "module" -> "module"
                     [] mode = "safe"   -> "nonce"
                     [] OTHER           -> "recordProposed")
        /\ NoFault
     \/ Fault /\ Retry(d)
  /\ UNCHANGED <<mode, database, nonceRead, pass, chain>>

(* Fork mode: a record, a position and the status; each failure throws.    *)
ForkRecord(d) ==
  /\ job[d].at = "forkRecord"
  /\ \/ /\ record' = [record EXCEPT ![Run(d)].status = "proposed"]
        /\ Goto(d, "forkPosition") /\ NoFault
     \/ Fault /\ Retry(d) /\ UNCHANGED record
  /\ UNCHANGED <<mode, decision, artifact, positions, forkPositions, nonceRead, pass, chain>>

ForkPosition(d) ==
  /\ job[d].at = "forkPosition"
  /\ \/ /\ forkPositions' = [forkPositions EXCEPT ![d] = @ + 1]
        /\ Goto(d, "forkReady") /\ NoFault
     \/ Fault /\ Retry(d) /\ UNCHANGED forkPositions
  /\ UNCHANGED <<mode, decision, artifact, record, positions, nonceRead, pass, chain>>

ForkReady(d) ==
  /\ job[d].at = "forkReady"
  /\ \/ /\ decision' = [decision EXCEPT ![d] = "ready"]
        /\ Goto(d, "publish") /\ NoFault
     \/ Fault /\ Retry(d) /\ UNCHANGED decision
  /\ UNCHANGED <<mode, artifact, record, positions, forkPositions, nonceRead, pass, chain>>

(* executePolicyModule up to the transaction; a refusal or an error falls  *)
(* back to a Safe proposal.                                                *)
SendModuleTx(d) ==
  /\ job[d].at = "module"
  /\ \/ moduleTx' = [moduleTx EXCEPT ![Run(d)] = "pending"] /\ Goto(d, "receipt")
     \/ UNCHANGED moduleTx /\ Goto(d, "nonce")
  /\ UNCHANGED <<mode, database, nonceRead, pass, posted, executed, safeNonce, faults, blind>>

MineModuleTx(r) ==
  /\ moduleTx[r] = "pending"
  /\ \E fate \in {"executed", "reverted"} : moduleTx' = [moduleTx EXCEPT ![r] = fate]
  /\ UNCHANGED <<mode, database, job, nonceRead, pass, posted, executed, safeNonce, faults, blind>>

(* The receipt arrives, or waiting for it fails although the transaction   *)
(* was sent: also that falls back to a proposal.                           *)
ReadReceipt(d) ==
  /\ job[d].at = "receipt"
  /\ \/ moduleTx[Run(d)] # "pending" /\ Goto(d, "moduleRecord") /\ NoFault
     \/ Fault /\ Goto(d, "nonce")
  /\ UNCHANGED <<mode, database, nonceRead, pass, chain>>

RecordModuleTxOrPropose(d) ==                                    \* mutant
  /\ job[d].at = "moduleRecord"
  /\ \/ /\ record' = [record EXCEPT ![Run(d)].status = "reconciled"]
        /\ Goto(d, "executed")
     \/ Goto(d, "nonce") /\ UNCHANGED record
  /\ NoFault
  /\ UNCHANGED <<mode, decision, artifact, positions, forkPositions, nonceRead, pass, chain>>

(* The record of an executed action.  Its failure is caught where those of *)
(* the module are, after usedPolicyModule was set: the job goes on.        *)
RecordModuleTx(d) ==
  /\ job[d].at = "moduleRecord"
  /\ \/ /\ record' = [record EXCEPT ![Run(d)].status = "reconciled"]
        /\ Goto(d, "executed") /\ NoFault
     \/ Fault /\ Goto(d, "publish") /\ UNCHANGED record
  /\ UNCHANGED <<mode, decision, artifact, positions, forkPositions, nonceRead, pass, chain>>

(* getSafeInfo and the nonce, then the POST; a failure leaves a record     *)
(* that nobody submitted.                                                  *)
ReadSafeNonce(d) ==
  /\ job[d].at = "nonce"
  /\ \/ /\ nonceRead' = [nonceRead EXCEPT ![d] = safeNonce]
        /\ Goto(d, "post") /\ NoFault
     \/ Fault /\ Goto(d, "recordProposed") /\ UNCHANGED nonceRead
  /\ UNCHANGED <<mode, database, pass, chain>>

PostProposal(d) ==
  LET tx == <<d, nonceRead[d]>>
  IN  /\ job[d].at = "post"
      /\ \/ posted' = posted \cup {tx} /\ Goto(d, "recordSubmitted") /\ NoFault
         \/ Fault /\ posted' \in {posted, posted \cup {tx}} /\ Goto(d, "recordProposed")
      /\ UNCHANGED <<mode, database, nonceRead, pass, moduleTx, executed, safeNonce>>

RecordProposal(d) ==
  /\ job[d].at \in {"recordProposed", "recordSubmitted"}
  /\ \/ /\ record' = [record EXCEPT ![Run(d)] =
             IF job[d].at = "recordSubmitted"
             THEN [status |-> "submitted", tx |-> <<d, nonceRead[d]>>]
             ELSE [status |-> "proposed", tx |-> NoTx]]
        /\ Goto(d, "ready") /\ NoFault
     \/ Fault /\ Retry(d) /\ UNCHANGED record
  /\ nonceRead' = [nonceRead EXCEPT ![d] = NoNonce]
  /\ UNCHANGED <<mode, decision, artifact, positions, forkPositions, pass, chain>>

(* The new status of the decision; a failed update is swallowed.           *)
MarkDecision(d) ==
  /\ job[d].at \in {"block", "ready", "executed"}
  /\ \/ /\ decision' = [decision EXCEPT ![d] = IF job[d].at = "block" THEN "blocked" ELSE job[d].at]
        /\ NoFault
     \/ Fault /\ UNCHANGED decision
  /\ Goto(d, "publish")
  /\ UNCHANGED <<mode, artifact, record, positions, forkPositions, nonceRead, pass, chain>>

(* The result goes to Redis: when that fails the whole job runs again.     *)
Publish(d) ==
  /\ job[d].at = "publish"
  /\ \/ Goto(d, "completed") /\ NoFault
     \/ Fault /\ Retry(d)
  /\ UNCHANGED <<mode, database, nonceRead, pass, chain>>

-----------------------------------------------------------------------------
(* services/executor: the reconciliation worker *)

PassGoto(p, step) == pass' = [pass EXCEPT ![p].at = step]

(* The pass turns to its next record, or ends.                             *)
NextRecord(p) == pass' = [pass EXCEPT ![p] = IF @.todo = {} THEN IdlePass
                                             ELSE [@ EXCEPT !.at = "next"]]

Submitted == {r \in Runs : record[r].status = "submitted"}

(* getSubmittedExecutionRecords: a page of the submitted records, in no    *)
(* order of the query's.                                                   *)
Pages == {todo \in SUBSET Submitted :
            Cardinality(todo) = IF Cardinality(Submitted) < PageSize
                                THEN Cardinality(Submitted) ELSE PageSize}

StartPass(p) ==
  /\ pass[p].at \in IF p = "startup" THEN {"boot"} ELSE {"idle"}
  /\ \E todo \in Pages :
       pass' = [pass EXCEPT ![p] = IF todo = {} THEN IdlePass
                                   ELSE [at |-> "next", todo |-> todo, current |-> NoTx]]
  /\ UNCHANGED <<mode, database, job, nonceRead, chain, faults, blind>>

(* isExecuted: the Safe reverts a transaction whose call fails, so what it *)
(* executed has succeeded.                                                 *)
getSafeExecutionStatus(r) == record[r].tx \in executed

(* A record whose transaction is not executed, or whose status cannot be   *)
(* read, is left for a later pass.                                         *)
ReadStatus(p) ==
  /\ pass[p].at = "next"
  /\ \E r \in pass[p].todo :
       LET rest == [pass[p] EXCEPT !.todo = @ \ {r}, !.current = r]
       IN  \/ /\ getSafeExecutionStatus(r) /\ NoFault
              /\ pass' = [pass EXCEPT ![p] = [rest EXCEPT !.at = "lookup"]]
           \/ /\ \/ ~getSafeExecutionStatus(r) /\ NoFault
                 \/ Fault
              /\ pass' = [pass EXCEPT ![p] = IF rest.todo = {} THEN IdlePass ELSE rest]
  /\ UNCHANGED <<mode, database, job, nonceRead, chain>>

LookupNothing(p) ==                                              \* mutant
  /\ pass[p].at = "lookup"
  /\ PassGoto(p, "position")
  /\ NoFault
  /\ UNCHANGED <<mode, database, job, nonceRead, chain>>

LookupSkips(p) ==                                                \* mutant
  /\ pass[p].at = "lookup"
  /\ IF positions[record[pass[p].current].tx] > 0 THEN NextRecord(p) ELSE PassGoto(p, "position")
  /\ NoFault
  /\ UNCHANGED <<mode, database, job, nonceRead, chain>>

(* getPositionByDeployTxHash: an error counts as no position.              *)
LookupPosition(p) ==
  /\ pass[p].at = "lookup"
  /\ \/ /\ PassGoto(p, IF positions[record[pass[p].current].tx] > 0 THEN "duplicate" ELSE "position")
        /\ NoFault
     \/ BlindFault /\ PassGoto(p, "position")
  /\ UNCHANGED <<mode, database, job, nonceRead, chain>>

ActivatePosition(p) ==
  /\ pass[p].at = "position"
  /\ \/ /\ positions' = [positions EXCEPT ![record[pass[p].current].tx] = @ + 1]
        /\ PassGoto(p, "reconciled") /\ NoFault
     \/ Fault /\ NextRecord(p) /\ UNCHANGED positions
  /\ UNCHANGED <<mode, decision, artifact, record, forkPositions, job, nonceRead, chain>>

MarkReconciled(p) ==
  /\ pass[p].at \in {"duplicate", "reconciled"}
  /\ \/ /\ record' = [record EXCEPT ![pass[p].current].status = "reconciled"]
        /\ IF pass[p].at = "duplicate" THEN NextRecord(p) ELSE PassGoto(p, "decision")
        /\ NoFault
     \/ Fault /\ NextRecord(p) /\ UNCHANGED record
  /\ UNCHANGED <<mode, decision, artifact, positions, forkPositions, job, nonceRead, chain>>

MarkExecuted(p) ==
  LET d == pass[p].current[1]
  IN  /\ pass[p].at = "decision"
      /\ \/ /\ decision' = [decision EXCEPT ![d] = "executed"]
            /\ NoFault
         \/ Fault /\ UNCHANGED decision
      /\ NextRecord(p)
      /\ UNCHANGED <<mode, artifact, record, positions, forkPositions, job, nonceRead, chain>>

(* The executor process ends and starts again: BullMQ hands its stalled    *)
(* jobs out again, and reconciliation makes its pass at the start.         *)
ExecutorRestarts ==
  /\ BlindFault
  /\ job' = [d \in Decisions |-> IF d \in Active THEN [job[d] EXCEPT !.at = "waiting"] ELSE job[d]]
  /\ pass' = [p \in Callers |-> [IdlePass EXCEPT !.at = IF p = "startup" THEN "boot" ELSE "idle"]]
  /\ UNCHANGED <<mode, database, nonceRead, chain>>

-----------------------------------------------------------------------------
(* The owners sign the proposal with the Safe's nonce. *)
ExecuteProposal(tx) ==
  /\ tx \in posted /\ tx[2] = safeNonce
  /\ executed' = executed \cup {tx}
  /\ safeNonce' = safeNonce + 1
  /\ UNCHANGED <<mode, database, job, nonceRead, pass, moduleTx, posted, faults, blind>>

JobStep(d) ==
  \/ Simulate(d) \/ Route(d) \/ ForkRecord(d) \/ ForkPosition(d) \/ ForkReady(d)
  \/ SendModuleTx(d) \/ ReadReceipt(d) \/ RecordModuleTx(d)
  \/ ReadSafeNonce(d) \/ PostProposal(d) \/ RecordProposal(d)
  \/ MarkDecision(d) \/ Publish(d)

PassStep(p) ==
  \/ StartPass(p) \/ ReadStatus(p) \/ LookupPosition(p)
  \/ ActivatePosition(p) \/ MarkReconciled(p) \/ MarkExecuted(p)

Next ==
  \/ \E d \in Decisions : Enqueue(d) \/ StartJob(d) \/ JobStep(d)
  \/ \E p \in Callers : PassStep(p)
  \/ \E r \in Runs : MineModuleTx(r)
  \/ \E tx \in posted : ExecuteProposal(tx)
  \/ ExecutorRestarts

Spec == Init /\ [][Next]_vars

(* Promises settle, Redis hands jobs out, the reconciliation timer fires,  *)
(* and transactions are mined.  Nothing is assumed of the owners.          *)
FairSpec ==
  /\ Spec
  /\ \A d \in Decisions : WF_vars(JobStep(d)) /\ SF_vars(StartJob(d))
  /\ \A p \in Callers : WF_vars(PassStep(p))
  /\ \A r \in Runs : WF_vars(MineModuleTx(r))

-----------------------------------------------------------------------------
(* Properties *)

(* Types.  A run number is never above one more than the faults.           *)
TypeOK ==
  /\ mode \in Modes
  /\ decision \in [Decisions -> {"none", "proposed", "ready", "blocked", "executed"}]
  /\ artifact \in [Runs -> {"none", "passed", "failed"}]
  /\ record \in [Runs ->
                   [status : {"none", "proposed", "submitted", "reconciled"}, tx : Txs \cup {NoTx}]]
  /\ positions \in [Txs -> Nat] /\ forkPositions \in [Decisions -> Nat]
  /\ \A d \in Decisions : /\ job[d].runs \in 0 .. faults + 1
                          /\ job[d].failures \in 0 .. Attempts
                          /\ job[d].at = "waiting" => job[d].failures < Attempts
  /\ nonceRead \in [Decisions -> Nonces \cup {NoNonce}]
  /\ moduleTx \in [Runs -> {"none", "pending", "executed", "reverted"}]
  /\ executed \subseteq posted /\ posted \subseteq Txs
  /\ faults \in 0 .. MaxFaults /\ blind \in 0 .. faults

(* How often capital moved for a decision.                                 *)
Moves(d) ==
  Cardinality({n \in RunNumbers : moduleTx[<<d, n>>] = "executed"})
  + Cardinality({tx \in executed : tx[1] = d})

(* A decision moves capital after a passed simulation and once, and every  *)
(* repetition, by a retry or by the fallback from the policy module to a   *)
(* proposal, is paid for by a fault of its own: neither other jobs nor the *)
(* two channels nor reconciliation repeat one.                             *)
Capital == INSTANCE CapitalAction WITH
             proven <- {r[1] : r \in {q \in Runs : artifact[q] = "passed"}},
             moves <- [d \in Decisions |-> Moves(d)]
MovesAreProvenAndPaid == Capital!Spec

(* A movement of capital that the database does not know of is paid for by *)
(* a fault as well: once a job has ended, its executed transactions have   *)
(* records, the policy module's through the insert whose failure is        *)
(* swallowed, the proposals through the record of their run.               *)
MovesAreRecorded ==
  \A d \in Decisions : job[d].at \in {"completed", "failed"} =>
    Moves(d) <= faults + Cardinality({n \in RunNumbers :
                  record[<<d, n>>].status \in {"submitted", "reconciled"}})

(* However many records name a transaction, it becomes one position, one   *)
(* more only where a restarted process makes its first pass beside the     *)
(* worker's or a fault hides what is there; and no position and no         *)
(* reconciled record is about a transaction that was not mined.            *)
PositionsOnce ==
  /\ \A t \in Txs : positions[t] <= IF t \in executed THEN 1 + blind ELSE 0
  /\ \A r \in Runs : record[r].status = "reconciled" =>
       record[r].tx \in executed \/ moduleTx[r] \in {"executed", "reverted"}

(* A queued job ends, also after retries and restarts.                     *)
JobsEnd == \A d \in Decisions :
             job[d].at = "waiting" ~> job[d].at \in {"completed", "failed"}

(* A proposal the owners executed is reconciled, whatever a pass that      *)
(* ended half way left behind, unless records the owners leave unsigned    *)
(* fill a page: no query orders them, and every pass may read those.       *)
ExecutedIsReconciled ==
  \A r \in Runs : (record[r].status = "submitted" /\ record[r].tx \in executed)
                    ~> \/ record[r].status = "reconciled"
                       \/ Cardinality({q \in Submitted : record[q].tx \notin executed}) >= PageSize

(* Records and positions are what happened, in whatever order it happened. *)
PositionsSound == TypeOK /\ PositionsOnce

(* Nothing that was begun stays undone: jobs end, and what the owners      *)
(* executed is reconciled, unless a full page hides it.                    *)
WorkEnds == JobsEnd /\ ExecutedIsReconciled
=============================================================================
