----------------------------- MODULE AgentLoop ------------------------------
(***************************************************************************)
(* The agent loop of the backend (apps/backend/src/agent/agent-loop.ts):   *)
(* timers scan the treasury, at most MAX_CONCURRENT_SIMS simulations run,  *)
(* a passed simulation moves capital through the policy module or a Safe   *)
(* proposal, and a second timer reconciles what the Safe has executed.     *)
(*                                                                         *)
(* One process, one active mandate.  A step is the code between two        *)
(* awaits, so everything else may happen at each await.  The database and  *)
(* the chain survive the process, its memory does not.  A decision, its    *)
(* simulation job, its artifact and its execution record are one to one    *)
(* and share a number.                                                     *)
(***************************************************************************)
EXTENDS Integers, Sequences, FiniteSets, FiniteSetsExt

CONSTANTS
  Modes,                \* deployments: subset of "fork", "safe", "module"
  Chains,               \* chains: subset of "base", "stagenet" (52638 and 1)
  Scanners,             \* scans that may be in progress at once
  Reconcilers,          \* reconciliation passes that may be in progress at once
  MAX_CONCURRENT_SIMS,
  ReconcileLimit,       \* rows getSubmittedExecutionRecords returns at most
  ReserveFloor,         \* the mandate's reserve, also the floor of the module
  IdleThreshold,        \* IDLE_THRESHOLD_USD
  MaxSingleAction,      \* the mandate's maxSingleActionUsd
  InitialFunds,         \* <<USDC, aUSDC>> of the Safe at the start
  OutsideBalances,      \* USDC balances others may bring the Safe to
  MaxDecisions,         \* bound: decisions ever made
  MaxOwnerTxs,          \* bound: Safe nonce up to which owners act on their own
  MaxFaults             \* bound: crashes, failed writes and failed calls

Decisions == 1 .. MaxDecisions

ASSUME ConstantsAssumption ==
  /\ Modes \subseteq {"fork", "safe", "module"} /\ Chains \subseteq {"base", "stagenet"}
  /\ MAX_CONCURRENT_SIMS \in Nat \ {0} /\ ReconcileLimit \in Nat \ {0}
  /\ ReserveFloor \in Nat /\ IdleThreshold \in Nat /\ MaxSingleAction \in Nat
  /\ InitialFunds \subseteq Nat \X Nat /\ OutsideBalances \subseteq Nat
  /\ MaxDecisions \in Nat /\ MaxOwnerTxs \in Nat /\ MaxFaults \in Nat
  /\ 0 \notin Scanners \cup Reconcilers

VARIABLES
  mode,         \* FORK_MODE, and whether the policy module is on the Safe
  network,      \* CHAIN_ID
  overlapped,   \* a reconciliation pass began while another ran (history)
  \* the database
  decision,     \* agentDecisions.status
  plan,         \* agentDecisions: playbook and amount
  fresh,        \* decisions updated within the window of their status
  artifact,     \* simulationArtifacts.status
  record,       \* executionRecords.status
  positions,    \* number of positions rows made for the decision
  \* the memory of the process
  simQueue,     \* jobs waiting
  runningSims,  \* the counter of running jobs
  job,          \* where runSimulation is, "idle" when it is not running
  nonceRead,    \* the Safe nonce submitSafeProposal has read
  scan,         \* where each scanOrg is, and the balances it has read
  pass,         \* where each reconcilePending is, and its records
  \* the chain and the Safe Transaction Service
  usdc,         \* USDC of the Safe
  aUsdc,        \* aUSDC of the Safe
  safeNonce,
  proposal,     \* Safe nonce a decision was proposed with, or NoNonce
  safeRuns,     \* decisions whose proposal the Safe executed
  moduleTx,     \* fate of a decision's policy module transaction
  faults        \* faults so far

database == <<decision, plan, fresh, artifact, record, positions>>
queueing == <<simQueue, runningSims, job>>
memory   == <<queueing, nonceRead, scan, pass>>
safe     == <<safeNonce, proposal, safeRuns>>
chain    == <<usdc, aUsdc, safe, moduleTx>>
deployed == <<mode, network, overlapped>>
vars     == <<deployed, database, memory, chain, faults>>

NoNonce == -1
NoPlan  == [playbook |-> "none", amount |-> 0]
IdleScan == [at |-> "idle", usdc |-> 0, funded |-> FALSE]
IdlePass == [at |-> "idle", todo |-> {}, current |-> 0]

Jobs == {"idle", "simulate", "block", "forkRecord", "position", "module",
         "receipt", "moduleRecord", "nonce", "post", "recordProposed",
         "recordSubmitted", "ready", "executed"}

Created == {d \in Decisions : decision[d] # "none"}
Running == {d \in Decisions : job[d] # "idle"}

(* A call or a write fails, or the process dies: at most MaxFaults times.  *)
Fault   == faults < MaxFaults /\ faults' = faults + 1
NoFault == UNCHANGED faults

Init ==
  /\ mode \in Modes /\ network \in Chains /\ overlapped = FALSE
  /\ decision = [d \in Decisions |-> "none"]
  /\ plan = [d \in Decisions |-> NoPlan]
  /\ fresh = {}
  /\ artifact = [d \in Decisions |-> "none"]
  /\ record = [d \in Decisions |-> "none"]
  /\ positions = [d \in Decisions |-> 0]
  /\ simQueue = <<>> /\ runningSims = 0
  /\ job = [d \in Decisions |-> "idle"]
  /\ nonceRead = [d \in Decisions |-> NoNonce]
  /\ scan = [s \in Scanners |-> IdleScan]
  /\ pass = [r \in Reconcilers |-> IdlePass]
  /\ \E funds \in InitialFunds : usdc = funds[1] /\ aUsdc = funds[2]
  /\ safeNonce = 0
  /\ proposal = [d \in Decisions |-> NoNonce]
  /\ safeRuns = {}
  /\ moduleTx = [d \in Decisions |-> "none"]
  /\ faults = 0

-----------------------------------------------------------------------------
(* The job queue *)

(* drainSimQueue: start waiting jobs, oldest first, while slots are free.  *)
Drain(queue, busy, jobs) ==
  LET n == Min({Len(queue), MAX_CONCURRENT_SIMS - busy})
      started == {queue[i] : i \in 1 .. n}
  IN  /\ simQueue' = SubSeq(queue, n + 1, Len(queue))
      /\ runningSims' = busy + n
      /\ job' = [d \in Decisions |-> IF d \in started THEN "simulate" ELSE jobs[d]]

(* runSimulation goes on at another step. *)
Goto(d, step) ==
  /\ job' = [job EXCEPT ![d] = step]
  /\ UNCHANGED <<simQueue, runningSims>>

DoneWithoutDrain(d) ==                                           \* mutant
  /\ runningSims' = runningSims - 1
  /\ job' = [job EXCEPT ![d] = "idle"]
  /\ UNCHANGED simQueue

(* runSimulation returns and its finally callback runs. *)
Done(d) == Drain(simQueue, runningSims - 1, [job EXCEPT ![d] = "idle"])

(* The process ends and starts again: a crash, a deployment, or an error   *)
(* that runSimulation lets through, which is an unhandled rejection.       *)
LoseMemory ==
  /\ simQueue' = <<>> /\ runningSims' = 0
  /\ job' = [d \in Decisions |-> "idle"]
  /\ nonceRead' = [d \in Decisions |-> NoNonce]
  /\ scan' = [s \in Scanners |-> IdleScan]
  /\ pass' = [r \in Reconcilers |-> IdlePass]

Crash ==
  /\ Fault
  /\ LoseMemory
  /\ UNCHANGED <<deployed, database, chain>>

-----------------------------------------------------------------------------
(* scanOrg *)

HasPendingIgnoringAge ==                                         \* mutant
  \E d \in Decisions : decision[d] \in {"simulating", "ready"}

(* mandateHasPendingWork: a decision in simulation for less than 15        *)
(* minutes, or ready for less than 6 hours.                                *)
HasPendingWork ==
  \E d \in fresh : decision[d] \in {"simulating", "ready"}

(* The scan timer or POST /trigger-scan: nothing waits for an earlier scan.  *)
StartScan(s) ==
  /\ scan[s].at = "idle"
  /\ scan' = [scan EXCEPT ![s] = [at |-> "aUsdc", usdc |-> usdc, funded |-> FALSE]]
  /\ UNCHANGED <<deployed, database, queueing, nonceRead, pass, chain, faults>>

(* A failed aUSDC read counts as no position. *)
ReadAUsdc(s) ==
  /\ scan[s].at = "aUsdc"
  /\ \/ NoFault /\ scan' = [scan EXCEPT ![s].at = "check", ![s].funded = aUsdc > 0]
     \/ Fault   /\ scan' = [scan EXCEPT ![s].at = "check"]
  /\ UNCHANGED <<deployed, database, queueing, nonceRead, pass, chain>>

CheckPending(s) ==
  /\ scan[s].at = "check"
  /\ scan' = [scan EXCEPT ![s] = IF HasPendingWork THEN IdleScan
                                 ELSE [@ EXCEPT !.at = "decide"]]
  /\ UNCHANGED <<deployed, database, queueing, nonceRead, pass, chain, faults>>

(* IDLE_DEPLOY_FRACTION = 0.8, capped by the mandate. *)
DeployAmount(idle) == Min({(idle * 4) \div 5, MaxSingleAction})

(* What the balances a scan has read call for; the two cases exclude each  *)
(* other.                                                                  *)
Proposed(seen) ==
  IF seen.usdc - ReserveFloor > IdleThreshold
  THEN {[playbook |-> "supply", amount |-> DeployAmount(seen.usdc - ReserveFloor)]}
  ELSE IF seen.usdc < ReserveFloor /\ seen.funded
  THEN {[playbook |-> "withdraw", amount |-> ReserveFloor - seen.usdc]}
  ELSE {}

(* createAgentDecision, then the push of the job and the drain. *)
Decide(s, d, p) ==
  /\ scan[s].at = "decide"
  /\ p \in Proposed(scan[s])
  /\ d \notin Created /\ 1 .. d - 1 \subseteq Created
  /\ decision' = [decision EXCEPT ![d] = "simulating"]
  /\ plan' = [plan EXCEPT ![d] = p]
  /\ fresh' = fresh \cup {d}
  /\ Drain(Append(simQueue, d), runningSims, job)
  /\ scan' = [scan EXCEPT ![s] = IdleScan]
  /\ UNCHANGED <<deployed, artifact, record, positions, nonceRead, pass, chain, faults>>

(* Nothing to do, or the insert failed; also where the bound on decisions  *)
(* ends a scan.                                                            *)
DecideNothing(s) ==
  /\ scan[s].at = "decide"
  /\ \/ Proposed(scan[s]) = {} /\ NoFault
     \/ Created = Decisions /\ NoFault
     \/ Proposed(scan[s]) # {} /\ Fault
  /\ scan' = [scan EXCEPT ![s] = IdleScan]
  /\ UNCHANGED <<deployed, database, queueing, nonceRead, pass, chain>>

(* 15 minutes, or 6 hours, pass since the last update of a decision. *)
AgeOut(d) ==
  /\ d \in fresh /\ decision[d] \in {"simulating", "ready"}
  /\ fresh' = fresh \ {d}
  /\ UNCHANGED <<deployed, decision, plan, artifact, record, positions, memory, chain, faults>>

-----------------------------------------------------------------------------
(* runSimulation *)

(* The calldata of a decision supplies: buildStagenetArtifact knows no     *)
(* other playbook.                                                         *)
Supplies(d) == network = "stagenet" \/ plan[d].playbook = "supply"

(* The calldata succeeds when the Safe runs it now. *)
Runnable(d) == plan[d].amount <= IF Supplies(d) THEN usdc ELSE aUsdc

(* declaredUsdcAmount: the withdraw playbook reports as spent the aUSDC it *)
(* set up on the fork, twice the amount.                                   *)
Declared(d) == IF Supplies(d) THEN plan[d].amount ELSE 2 * plan[d].amount

(* The reserve floor of PolicyEnforcedModule.execute, and the calldata in  *)
(* the Safe.  Its limits, its allowlist and whether it is paused are left  *)
(* open: whatever this accepts may still be refused, then or when mined.   *)
ModuleAccepts(d) == Runnable(d) /\ usdc >= ReserveFloor + Declared(d)

MoveFunds(d) ==
  LET out == IF Supplies(d) THEN plan[d].amount ELSE 0 - plan[d].amount
  IN  usdc' = usdc - out /\ aUsdc' = aUsdc + out

(* The simulation may pass.  Base: the fork funds a test wallet, so the    *)
(* state of the Safe is not looked at.  Stagenet: the balance check, then  *)
(* the preflight and eth_call of the policy module if there is one.        *)
MayPass(d) ==
  network = "stagenet" =>
    /\ plan[d].amount <= usdc
    /\ mode = "module" => ModuleAccepts(d)

SimulateAnyway(d) ==                                             \* mutant
  /\ job[d] = "simulate"
  /\ \E result \in {"passed", "failed"} :
       artifact' = [artifact EXCEPT ![d] = result]
  /\ Goto(d, IF mode = "fork" THEN "forkRecord"
             ELSE IF mode = "module" THEN "module" ELSE "nonce")
  /\ NoFault
  /\ UNCHANGED <<deployed, decision, plan, fresh, record, positions, nonceRead, scan, pass, chain>>

(* Simulate and persist the artifact. *)
Simulate(d) ==
  /\ job[d] = "simulate"
  /\ \/ /\ \E result \in {"passed", "failed"} :
             /\ result = "passed" => MayPass(d)
             /\ artifact' = [artifact EXCEPT ![d] = result]
             /\ Goto(d, IF result = "failed" THEN "block"
                        ELSE IF mode = "fork" THEN "forkRecord"
                        ELSE IF mode = "module" THEN "module" ELSE "nonce")
        /\ NoFault
     \/ Fault /\ Done(d) /\ UNCHANGED artifact
  /\ UNCHANGED <<deployed, decision, plan, fresh, record, positions, nonceRead, scan, pass, chain>>

(* The last step of a job: the new status of its decision.  A failed       *)
(* update is swallowed.                                                    *)
Finish(d) ==
  /\ job[d] \in {"block", "ready", "executed"}
  /\ \/ /\ decision' = [decision EXCEPT ![d] = IF job[d] = "block" THEN "blocked" ELSE job[d]]
        /\ fresh' = fresh \cup {d}
        /\ NoFault
     \/ Fault /\ UNCHANGED <<decision, fresh>>
  /\ Done(d)
  /\ UNCHANGED <<deployed, plan, artifact, record, positions, nonceRead, scan, pass, chain>>

(* createExecutionRecord outside a try: a failure ends the process. *)
InsertRecord(d, status, next) ==
  \/ /\ record' = [record EXCEPT ![d] = status]
     /\ Goto(d, next)
     /\ NoFault
     /\ UNCHANGED <<nonceRead, scan, pass>>
  \/ Fault /\ LoseMemory /\ UNCHANGED record

(* Fork mode: a record, then a position in status simulating. *)
ForkRecord(d) ==
  /\ job[d] = "forkRecord"
  /\ InsertRecord(d, "proposed", "position")
  /\ UNCHANGED <<deployed, decision, plan, fresh, artifact, positions, chain>>

ForkPosition(d) ==
  /\ job[d] = "position"
  /\ \/ /\ positions' = [positions EXCEPT ![d] = @ + 1]
        /\ Goto(d, "ready")
        /\ NoFault
        /\ UNCHANGED <<nonceRead, scan, pass>>
     \/ Fault /\ LoseMemory /\ UNCHANGED positions
  /\ UNCHANGED <<deployed, decision, plan, fresh, artifact, record, chain>>

(* isPolicyModuleEnabled and executePolicyModule up to sendTransaction; a  *)
(* refusal of canExecute (the floor, a limit, a pause) or an error falls   *)
(* back to a Safe proposal.                                                *)
SendModuleTx(d) ==
  /\ job[d] = "module"
  /\ \/ /\ ModuleAccepts(d)
        /\ moduleTx' = [moduleTx EXCEPT ![d] = "pending"]
        /\ Goto(d, "receipt")
     \/ UNCHANGED moduleTx /\ Goto(d, "nonce")
  /\ UNCHANGED <<deployed, database, nonceRead, scan, pass, usdc, aUsdc, safe, faults>>

(* The transaction is mined, whatever became of the process that sent it;  *)
(* it reverts if the floor or the calldata fails by then, or because the   *)
(* policy was changed, used up or paused since it was asked.               *)
MineModuleTx(d) ==
  /\ moduleTx[d] = "pending"
  /\ \/ /\ ModuleAccepts(d)
        /\ moduleTx' = [moduleTx EXCEPT ![d] = "executed"]
        /\ MoveFunds(d)
     \/ /\ moduleTx' = [moduleTx EXCEPT ![d] = "reverted"]
        /\ UNCHANGED <<usdc, aUsdc>>
  /\ UNCHANGED <<deployed, database, memory, safe, faults>>

(* waitForTransactionReceipt: the status of the receipt is not looked at,  *)
(* and a timeout or a failed poll throws.                                  *)
ReadReceipt(d) ==
  /\ job[d] = "receipt"
  /\ \/ moduleTx[d] # "pending" /\ NoFault /\ Goto(d, "moduleRecord")
     \/ Fault /\ Goto(d, "nonce")
  /\ UNCHANGED <<deployed, database, nonceRead, scan, pass, chain>>

RecordModuleTxAndPropose(d) ==                                   \* mutant
  /\ job[d] = "moduleRecord"
  /\ record' = [record EXCEPT ![d] = "reconciled"]
  /\ Goto(d, "nonce")
  /\ NoFault
  /\ UNCHANGED <<deployed, decision, plan, fresh, artifact, positions, nonceRead, scan, pass, chain>>

(* createExecutionRecord inside the try of the policy module: a failure    *)
(* falls back to a Safe proposal as well.                                  *)
RecordModuleTx(d) ==
  /\ job[d] = "moduleRecord"
  /\ \/ /\ record' = [record EXCEPT ![d] = "reconciled"]
        /\ Goto(d, "executed")
        /\ NoFault
     \/ Fault /\ Goto(d, "nonce") /\ UNCHANGED record
  /\ UNCHANGED <<deployed, decision, plan, fresh, artifact, positions, nonceRead, scan, pass, chain>>

(* getSafeInfo and getSafeNonce. *)
ReadSafeNonce(d) ==
  /\ job[d] = "nonce"
  /\ \/ /\ nonceRead' = [nonceRead EXCEPT ![d] = safeNonce]
        /\ Goto(d, "post")
        /\ NoFault
     \/ Fault /\ Goto(d, "recordProposed") /\ UNCHANGED nonceRead
  /\ UNCHANGED <<deployed, database, scan, pass, chain>>

(* The POST of submitSafeProposal.  When it throws, the service may still  *)
(* have stored the proposal.                                               *)
PostProposal(d) ==
  /\ job[d] = "post"
  /\ \/ /\ proposal' = [proposal EXCEPT ![d] = nonceRead[d]]
        /\ Goto(d, "recordSubmitted")
        /\ NoFault
     \/ /\ proposal' \in {proposal, [proposal EXCEPT ![d] = nonceRead[d]]}
        /\ Goto(d, "recordProposed")
        /\ Fault
  /\ nonceRead' = [nonceRead EXCEPT ![d] = NoNonce]
  /\ UNCHANGED <<deployed, database, scan, pass, usdc, aUsdc, safeNonce, safeRuns, moduleTx>>

RecordProposal(d) ==
  /\ \/ job[d] = "recordProposed"  /\ InsertRecord(d, "proposed", "ready")
     \/ job[d] = "recordSubmitted" /\ InsertRecord(d, "submitted", "ready")
  /\ UNCHANGED <<deployed, decision, plan, fresh, artifact, positions, chain>>

-----------------------------------------------------------------------------
(* The Safe and its owners *)

(* The owners sign and execute a proposal; one that fails reverts. *)
ExecuteProposal(d) ==
  /\ proposal[d] = safeNonce
  /\ Runnable(d)
  /\ MoveFunds(d)
  /\ safeNonce' = safeNonce + 1
  /\ safeRuns' = safeRuns \cup {d}
  /\ UNCHANGED <<deployed, database, memory, proposal, moduleTx, faults>>

(* Another transaction of the owners, or a deposit by anyone. *)
OutsideTransfer(balance) ==
  /\ balance # usdc
  /\ \/ safeNonce < MaxOwnerTxs /\ safeNonce' = safeNonce + 1
     \/ balance > usdc /\ UNCHANGED safeNonce
  /\ usdc' = balance
  /\ UNCHANGED <<deployed, database, memory, aUsdc, proposal, safeRuns, moduleTx, faults>>

-----------------------------------------------------------------------------
(* reconcilePending *)

Submitted == {d \in Decisions : record[d] = "submitted"}

(* getSubmittedExecutionRecords: LIMIT without an order, so any rows.  The *)
(* timer does not wait for the pass before.                                *)
StartReconcile(r) ==
  /\ pass[r].at = "idle" /\ Submitted # {}
  /\ \E rows \in SUBSET Submitted :
       /\ Cardinality(rows) = Min({ReconcileLimit, Cardinality(Submitted)})
       /\ pass' = [pass EXCEPT ![r] = [at |-> "next", todo |-> rows, current |-> 0]]
  /\ overlapped' = (overlapped \/ \E q \in Reconcilers : pass[q].at # "idle")
  /\ UNCHANGED <<mode, network, database, queueing, nonceRead, scan, chain, faults>>

(* On to the next record of the pass, or the end of it. *)
NextRecord(r, todo) ==
  pass' = [pass EXCEPT ![r] =
             IF todo = {} THEN IdlePass ELSE [at |-> "next", todo |-> todo, current |-> 0]]

PassGoto(r, step) == pass' = [pass EXCEPT ![r].at = step]

ReadStatusProposed(r) ==                                         \* mutant
  /\ pass[r].at = "next"
  /\ \E d \in pass[r].todo :
       pass' = [pass EXCEPT ![r] =
                  [at |-> "lookup", todo |-> @.todo \ {d}, current |-> d]]
  /\ NoFault
  /\ UNCHANGED <<deployed, database, queueing, nonceRead, scan, chain>>

(* getSafeExecutionStatus of one record: not executed, or an error, skips. *)
ReadStatus(r) ==
  /\ pass[r].at = "next"
  /\ \E d \in pass[r].todo :
       \/ /\ d \in safeRuns
          /\ pass' = [pass EXCEPT ![r] =
                        [at |-> "lookup", todo |-> @.todo \ {d}, current |-> d]]
          /\ NoFault
       \/ d \notin safeRuns /\ NextRecord(r, pass[r].todo \ {d}) /\ NoFault
       \/ d \in safeRuns /\ NextRecord(r, pass[r].todo \ {d}) /\ Fault
  /\ UNCHANGED <<deployed, database, queueing, nonceRead, scan, chain>>

LookupNothing(r) ==                                              \* mutant
  /\ pass[r].at = "lookup"
  /\ PassGoto(r, "create")
  /\ NoFault
  /\ UNCHANGED <<deployed, database, queueing, nonceRead, scan, chain>>

LookupSkips(r) ==                                                \* mutant
  /\ pass[r].at = "lookup"
  /\ \/ positions[pass[r].current] > 0 /\ NextRecord(r, pass[r].todo) /\ NoFault
     \/ positions[pass[r].current] = 0 /\ PassGoto(r, "create") /\ NoFault
     \/ positions[pass[r].current] > 0 /\ PassGoto(r, "create") /\ Fault
  /\ UNCHANGED <<deployed, database, queueing, nonceRead, scan, chain>>

(* getPositionByDeployTxHash: an error counts as no position. *)
LookupPosition(r) ==
  /\ pass[r].at = "lookup"
  /\ \/ positions[pass[r].current] > 0 /\ PassGoto(r, "markExisting") /\ NoFault
     \/ positions[pass[r].current] = 0 /\ PassGoto(r, "create") /\ NoFault
     \/ positions[pass[r].current] > 0 /\ PassGoto(r, "create") /\ Fault
  /\ UNCHANGED <<deployed, database, queueing, nonceRead, scan, chain>>

(* The position exists: the record is marked, the decision left as it is.  *)
MarkExisting(r) ==
  /\ pass[r].at = "markExisting"
  /\ \/ record' = [record EXCEPT ![pass[r].current] = "reconciled"] /\ NoFault
     \/ UNCHANGED record /\ Fault
  /\ NextRecord(r, pass[r].todo)
  /\ UNCHANGED <<deployed, decision, plan, fresh, artifact, positions, queueing, nonceRead, scan, chain>>

(* createPosition with status active. *)
ActivatePosition(r) ==
  /\ pass[r].at = "create"
  /\ \/ /\ positions' = [positions EXCEPT ![pass[r].current] = @ + 1]
        /\ PassGoto(r, "mark")
        /\ NoFault
     \/ UNCHANGED positions /\ NextRecord(r, pass[r].todo) /\ Fault
  /\ UNCHANGED <<deployed, decision, plan, fresh, artifact, record, queueing, nonceRead, scan, chain>>

MarkReconciled(r) ==
  /\ pass[r].at = "mark"
  /\ \/ /\ record' = [record EXCEPT ![pass[r].current] = "reconciled"]
        /\ PassGoto(r, "decision")
        /\ NoFault
     \/ UNCHANGED record /\ NextRecord(r, pass[r].todo) /\ Fault
  /\ UNCHANGED <<deployed, decision, plan, fresh, artifact, positions, queueing, nonceRead, scan, chain>>

(* The decision is executed; a failed update, or a failed read of the      *)
(* artifact before it, leaves it.                                          *)
MarkDecision(r) ==
  /\ pass[r].at = "decision"
  /\ \/ /\ decision' = [decision EXCEPT ![pass[r].current] = "executed"]
        /\ fresh' = fresh \cup {pass[r].current}
        /\ NoFault
     \/ UNCHANGED <<decision, fresh>> /\ Fault
  /\ NextRecord(r, pass[r].todo)
  /\ UNCHANGED <<deployed, plan, artifact, record, positions, queueing, nonceRead, scan, chain>>

-----------------------------------------------------------------------------
ScanStep(s) ==
  \/ StartScan(s) \/ ReadAUsdc(s) \/ CheckPending(s) \/ DecideNothing(s)
  \/ \E d \in Decisions, p \in Proposed(scan[s]) : Decide(s, d, p)

JobStep(d) ==
  \/ Simulate(d) \/ Finish(d) \/ ForkRecord(d) \/ ForkPosition(d)
  \/ SendModuleTx(d) \/ ReadReceipt(d) \/ RecordModuleTx(d)
  \/ ReadSafeNonce(d) \/ PostProposal(d) \/ RecordProposal(d)

ReconcileStep(r) ==
  \/ StartReconcile(r) \/ ReadStatus(r) \/ LookupPosition(r) \/ MarkExisting(r)
  \/ ActivatePosition(r) \/ MarkReconciled(r) \/ MarkDecision(r)

Next ==
  \/ \E s \in Scanners : ScanStep(s)
  \/ \E d \in Decisions : JobStep(d) \/ MineModuleTx(d) \/ ExecuteProposal(d) \/ AgeOut(d)
  \/ \E r \in Reconcilers : ReconcileStep(r)
  \/ \E balance \in OutsideBalances : OutsideTransfer(balance)
  \/ Crash

Spec == Init /\ [][Next]_vars

(* Promises settle, timers fire, transactions are mined and time passes.   *)
(* Nothing is asked of the owners, and nothing of the scan timer.          *)
FairSpec ==
  /\ Spec
  /\ \A d \in Decisions :
       /\ WF_vars(JobStep(d)) /\ WF_vars(MineModuleTx(d)) /\ WF_vars(AgeOut(d))
  /\ \A r \in Reconcilers : WF_vars(ReconcileStep(r))

-----------------------------------------------------------------------------
(* Properties *)

(* Every variable keeps its type, and the counter of running jobs stays    *)
(* within MAX_CONCURRENT_SIMS (drainSimQueue).                             *)
TypeOK ==
  /\ mode \in Modes /\ network \in Chains /\ overlapped \in BOOLEAN
  /\ decision \in [Decisions -> {"none", "simulating", "blocked", "ready", "executed"}]
  /\ plan \in [Decisions -> [playbook : {"none", "supply", "withdraw"}, amount : Nat]]
  /\ fresh \subseteq Decisions
  /\ artifact \in [Decisions -> {"none", "passed", "failed"}]
  /\ record \in [Decisions -> {"none", "proposed", "submitted", "reconciled"}]
  /\ positions \in [Decisions -> Nat]
  /\ simQueue \in Seq(Decisions) /\ runningSims \in 0 .. MAX_CONCURRENT_SIMS
  /\ job \in [Decisions -> Jobs]
  /\ nonceRead \in [Decisions -> Nat \cup {NoNonce}]
  /\ scan \in [Scanners -> [at : {"idle", "aUsdc", "check", "decide"},
                            usdc : Nat, funded : BOOLEAN]]
  /\ pass \in [Reconcilers -> [at : {"idle", "next", "lookup", "create", "markExisting",
                                     "mark", "decision"},
                               todo : SUBSET Decisions, current : Decisions \cup {0}]]
  /\ usdc \in Nat /\ aUsdc \in Nat /\ safeNonce \in Nat
  /\ proposal \in [Decisions -> Nat \cup {NoNonce}]
  /\ safeRuns \subseteq Decisions
  /\ moduleTx \in [Decisions -> {"none", "pending", "executed", "reverted"}]
  /\ faults \in 0 .. MaxFaults

(* The queue loses no wakeup: the counter is the number of running jobs,   *)
(* a job is queued or running but not both nor twice, and jobs wait only   *)
(* while every slot is taken (drainSimQueue and its finally callback).     *)
QueueAccounting ==
  LET waiting == {simQueue[i] : i \in 1 .. Len(simQueue)}
  IN  /\ runningSims = Cardinality(Running)
      /\ Cardinality(waiting) = Len(simQueue)
      /\ waiting \cap Running = {}
      /\ simQueue # <<>> => runningSims = MAX_CONCURRENT_SIMS

(* What is known of the queue and of every other variable at all times.    *)
QueueSound == TypeOK /\ QueueAccounting

(* No capital action without proof: whatever is proposed, sent, recorded   *)
(* or shown as a position has a passed simulation in the database, across  *)
(* failed writes and crashes (runSimulation).                              *)
ProvenFirst ==
  \A d \in Decisions :
    (proposal[d] # NoNonce \/ moduleTx[d] # "none" \/ record[d] # "none" \/ positions[d] > 0)
      => artifact[d] = "passed"

(* In Safe proposal mode a position is there only for a proposal the Safe  *)
(* executed, and a reconciled record has its position: reconciliation      *)
(* never announces capital that did not move.  In module mode a reconciled *)
(* record stands for an executed proposal or a mined transaction, be it    *)
(* reverted: its receipt's status is not looked at (executePolicyModule).  *)
ReconciliationSound ==
  \A d \in Decisions :
    /\ mode = "safe" /\ positions[d] > 0 => d \in safeRuns
    /\ mode = "safe" /\ record[d] = "reconciled" => positions[d] > 0
    /\ mode = "module" /\ record[d] = "reconciled" =>
         d \in safeRuns \/ moduleTx[d] \in {"executed", "reverted"}

(* One position row per executed transaction, "skip creating a duplicate"  *)
(* (packages/db/src/queries/positions.ts).                                 *)
OnePositionPerTx == \A d \in Decisions : positions[d] <= 1

(* A second row takes two passes that overlapped, or two failures or       *)
(* crashes: while each pass ended before the next began, no single fault   *)
(* makes one (reconcilePending; its timer does not wait).                  *)
OnePositionUnderOneFault == faults <= 1 /\ ~overlapped => OnePositionPerTx

(* The calldata of a decision goes out through one channel, "submit Safe   *)
(* proposal OR execute via PolicyModule" (agent-loop.ts).                  *)
OneChannel ==
  \A d \in Decisions : ~(moduleTx[d] = "executed" /\ proposal[d] # NoNonce)

(* How often capital has moved for a decision, by either channel. *)
Capital == INSTANCE CapitalAction WITH
  proven <- {d \in Decisions : artifact[d] = "passed"},
  moves  <- [d \in Decisions |->
               (IF moduleTx[d] = "executed" THEN 1 ELSE 0) + (IF d \in safeRuns THEN 1 ELSE 0)]

(* "Prove before execute": capital moves for a decision only after its     *)
(* simulation passed, and once but for the faults (agent-loop.ts).         *)
MovesAreProvenAndPaid == Capital!Spec

(* "this prevents permanent deadlock if owners never sign"                 *)
(* (mandateHasPendingWork): pending work never blocks scans for good, even *)
(* when its job was lost and nobody signs.                                 *)
ScansUnblocked == HasPendingWork ~> ~HasPendingWork

(* What the Safe executed of a submitted record is reconciled in the end,  *)
(* even after a fault in the middle of reconciling it, unless records the  *)
(* owners leave unsigned fill a page: no query orders them, and every pass *)
(* may read those.                                                         *)
ExecutedIsReconciled ==
  \A d \in Decisions :
    (record[d] = "submitted" /\ d \in safeRuns)
      ~> \/ record[d] = "reconciled"
         \/ Cardinality(Submitted \ safeRuns) >= ReconcileLimit
=============================================================================
