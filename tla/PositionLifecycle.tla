-------------------------- MODULE PositionLifecycle --------------------------
(***************************************************************************)
(* The rows of the positions table and what writes their status and        *)
(* health: the deploy dialog with the strategy routes, the execution       *)
(* worker, the agent, the position routes, the monitor's cycles and the    *)
(* rebalance worker.                                                       *)
(*                                                                         *)
(* One organisation.  A step is the code between two awaits.  A health     *)
(* factor is "ok", "warning" or "critical", as the thresholds of the       *)
(* monitor see it, or "null"; market data and simulator verdicts are       *)
(* inputs.  A rebalance job is <<p, kind>>.                                *)
(***************************************************************************)
EXTENDS Integers, FiniteSets

CONSTANTS
  Positions,   \* ids of positions
  Plan,        \* transactions of an execution plan
  Workers,     \* rebalance jobs worked on at once: 5 in the code
  Cycles,      \* check cycles that overlap: the timer starts one every minute
  Readable,    \* positions with an aave-v3 node and a Safe
  MaxQueued,   \* bound: rebalance jobs waiting when a cycle starts
  MaxFaults    \* bound: failed calls and crashes

ASSUME ConstantsAssumption ==
  /\ IsFiniteSet(Positions) /\ Readable \subseteq Positions
  /\ Plan \in Nat \ {0} /\ MaxQueued \in Nat /\ MaxFaults \in Nat

Nobody == "nobody"
Kinds  == {"emergency", "drift"}
Jobs   == Positions \X Kinds
Health == {"ok", "warning", "critical"}
Listed == {"active", "rebalancing"}

VARIABLES
  \* the database
  position,   \* positions.status
  stored,     \* positions.healthFactor
  alerts,     \* alerts rows: <<p, type>>, without the warnings
  \* the chain and the Safe Transaction Service
  live,       \* health factor on chain
  signed,     \* transactions of its plan a position's owner has sent
  proposed,   \* transactions proposed to the Safe
  \* Redis
  jobs,       \* waiting rebalance jobs
  \* the processes
  dialog, execution, cycle, worker,
  faults,
  wasCritical, \* positions ever critical on chain (history)
  opened,      \* positions the agent opened (history)
  claimed,     \* positions confirmed by others than their dialog (history)
  lost         \* alerts the database did not take (history)

database  == <<position, stored, alerts>>
chain     == <<live, signed, proposed, wasCritical>>
history   == <<opened, claimed, lost>>
processes == <<dialog, execution, cycle, worker>>
vars      == <<database, chain, jobs, processes, faults, history>>

Fault   == faults < MaxFaults /\ faults' = faults + 1
NoFault == UNCHANGED faults

Unused == {p \in Positions : position[p] = "none"}

NoDialog == [at |-> "review", pos |-> Nobody]
NoCheck  == [at |-> "next", todo |-> {}, pos |-> Nobody, type |-> "none"]

Init ==
  /\ position = [p \in Positions |-> "none"]
  /\ stored = [p \in Positions |-> "null"]
  /\ alerts = {}
  /\ live = [p \in Positions |-> "ok"]
  /\ signed = [p \in Positions |-> 0]
  /\ proposed = {}
  /\ jobs = [j \in Jobs |-> 0]
  /\ dialog = NoDialog
  /\ execution = [at |-> "none", pos |-> Nobody]
  /\ cycle = [c \in Cycles |-> [at |-> "idle", hf |-> stored, health |-> NoCheck, apy |-> NoCheck]]
  /\ worker = [w \in Workers |-> [at |-> "idle", job |-> <<Nobody, "drift">>]]
  /\ faults = 0
  /\ wasCritical = {} /\ opened = {} /\ claimed = {} /\ lost = {}

-----------------------------------------------------------------------------
(* The chain *)

MarketMoves(p) ==
  /\ p \in Readable /\ \E h \in Health \ {live[p]} : live' = [live EXCEPT ![p] = h]
  /\ wasCritical' = IF live'[p] = "critical" THEN wasCritical \cup {p} ELSE wasCritical
  /\ UNCHANGED <<database, signed, proposed, jobs, processes, faults, history>>

-----------------------------------------------------------------------------
(* DeployModal and the strategy routes it calls *)

Step(at) == dialog' = [dialog EXCEPT !.at = at]
Dialog   == UNCHANGED <<stored, alerts, live, proposed, wasCritical, jobs, execution, cycle, worker,
                        history>>

(* The deploy route; a candidate with blockers, one whose simulation       *)
(* failed, or an unknown organisation is refused before it writes.         *)
CreatePending(p) == position' = [position EXCEPT ![p] = "pending"]

(* When the intent cannot be updated after createPosition, the dialog is   *)
(* told of a failure and the row stays.                                    *)
Deploy ==
  /\ dialog.at = "review"
  /\ \E p \in Unused :
       /\ CreatePending(p)
       /\ \/ NoFault /\ dialog' = [at |-> "prepare", pos |-> p]
          \/ Fault /\ UNCHANGED dialog
  /\ UNCHANGED signed /\ Dialog

(* prepare-execution writes nothing; a plan without a transaction is       *)
(* refused.                                                                *)
Prepare ==
  /\ dialog.at = "prepare"
  /\ \/ NoFault /\ Step("sign")
     \/ Fault /\ dialog' = NoDialog
  /\ UNCHANGED <<position, signed>> /\ Dialog

SignAllButOne ==                                                 \* mutant
  /\ dialog.at = "sign"
  /\ signed' = [signed EXCEPT ![dialog.pos] = @ + 1]
  /\ Step(IF signed'[dialog.pos] >= Plan - 1 THEN "confirm" ELSE "sign")
  /\ NoFault /\ UNCHANGED position /\ Dialog

(* The wallet sends the transactions one by one, each two seconds after    *)
(* the one before: waitForTx does not wait for its inclusion, and none may *)
(* be included.  The user may reject one.                                  *)
Sign ==
  /\ dialog.at = "sign"
  /\ \/ /\ signed' = [signed EXCEPT ![dialog.pos] = @ + 1]
        /\ Step(IF signed'[dialog.pos] = Plan THEN "confirm" ELSE "sign")
     \/ dialog' = NoDialog /\ UNCHANGED signed
  /\ NoFault /\ UNCHANGED position /\ Dialog

(* confirm-execution, whatever the row says. *)
ConfirmActive(p) == position' = [position EXCEPT ![p] = "active"]

(* The dialog ignores a failure, and the next one starts afresh. *)
Confirm ==
  /\ dialog.at = "confirm"
  /\ \/ ConfirmActive(dialog.pos) /\ NoFault
     \/ Fault /\ UNCHANGED position
  /\ dialog' = NoDialog /\ UNCHANGED signed /\ Dialog

-----------------------------------------------------------------------------
(* services/executor: the execution worker, for one job *)

Executing(at, p) == execution' = [at |-> at, pos |-> p]
Execution == UNCHANGED <<stored, alerts, live, signed, wasCritical, jobs, dialog, cycle, worker,
                         history>>

(* Blockers, a failed simulation or a missing organisation end the job     *)
(* before it writes anything.  Then createPosition.                        *)
Record ==
  /\ execution.at = "none"
  /\ \E p \in Unused :
       /\ position' = [position EXCEPT ![p] = "awaiting_approval"]
       /\ Executing("nonce", p)
  /\ NoFault /\ UNCHANGED proposed /\ Execution

ProposeInAnyCase ==                                              \* mutant
  /\ execution.at = "propose"
  /\ proposed' = proposed
  /\ Executing("mark", execution.pos)
  /\ NoFault /\ UNCHANGED position /\ Execution

(* encodeMultiSend: the transactions of the plan in their order, each a    *)
(* CALL.                                                                   *)
Batch == [n \in 1 .. Plan |-> "call"]

(* What is hashed and signed: MultiSendCallOnly is itself called, and not  *)
(* delegated to as a batch needs; what the Safe makes of it is left out.   *)
SafeTransaction(p) == [pos |-> p, data |-> Batch, operation |-> "call"]

(* Nonce, signature and POST, in a try whose failure only logs.            *)
NotProposed == Executing("done", Nobody)

ReadNonce ==
  /\ execution.at = "nonce"
  /\ \/ Executing("propose", execution.pos) /\ NoFault
     \/ NotProposed /\ Fault
  /\ UNCHANGED <<position, proposed>> /\ Execution

(* The service may refuse it: the nonce is the Safe's, which may be used   *)
(* by now.  A crash makes the queue run the job again, with another        *)
(* position.                                                               *)
Propose ==
  /\ execution.at = "propose"
  /\ \/ /\ proposed' = proposed \cup {SafeTransaction(execution.pos)}
        /\ \/ NoFault /\ Executing("mark", execution.pos)
           \/ Fault /\ Executing("none", Nobody)
     \/ NoFault /\ UNCHANGED proposed /\ NotProposed
  /\ UNCHANGED position /\ Execution

MarkDeploying ==
  /\ execution.at = "mark"
  /\ \/ position' = [position EXCEPT ![execution.pos] = "deploying"] /\ NoFault
     \/ Fault /\ UNCHANGED position
  /\ Executing("done", Nobody)
  /\ UNCHANGED proposed /\ Execution

-----------------------------------------------------------------------------
(* Others who make a position active *)

(* The agent, for what a decision has done: a passed simulation on a fork  *)
(* (mandate executor, agent loop) or an executed Safe transaction (both    *)
(* reconciliations).  The modules of the agent say when; here it may be    *)
(* whenever, and no dialog has a part in it.                               *)
AgentOpens(p) ==
  /\ p \in Unused
  /\ position' = [position EXCEPT ![p] = "active"]
  /\ opened' = opened \cup {p}
  /\ UNCHANGED <<stored, alerts, chain, jobs, processes, faults, claimed, lost>>

(* confirm-execution takes any position from any client, and asks neither  *)
(* for its status nor for its transactions.                                *)
OtherConfirms(p) ==
  /\ position[p] # "none"
  /\ ConfirmActive(p)
  /\ claimed' = claimed \cup {p}
  /\ UNCHANGED <<stored, alerts, chain, jobs, processes, faults, opened, lost>>

-----------------------------------------------------------------------------
(* routes/positions.ts *)

(* Any position, whatever its status. *)
Close(p) ==
  /\ position[p] \notin {"none", "closed"}
  /\ position' = [position EXCEPT ![p] = "closed"]
  /\ UNCHANGED <<stored, alerts, chain, jobs, processes, faults, history>>

(* The only writer of a first health factor: a row is created without one. *)
ReadHealth(p) ==
  /\ p \in Readable /\ position[p] # "none" /\ stored[p] # live[p]
  /\ stored' = [stored EXCEPT ![p] = live[p]]
  /\ UNCHANGED <<position, alerts, chain, jobs, processes, faults, history>>

-----------------------------------------------------------------------------
(* services/monitor: a cycle checks health and APY concurrently, each      *)
(* position by position in the order the database gave them.               *)

ListWithClosed == {p \in Positions : position[p] \in Listed \cup {"closed"}}  \* mutant

listActivePositions == {p \in Positions : position[p] \in Listed}

Waiting == {j \in Jobs : jobs[j] > 0}

StartCycle(c) ==
  /\ cycle[c].at = "idle" /\ listActivePositions # {}
  /\ \A j \in Jobs : jobs[j] <= MaxQueued
  /\ cycle' = [cycle EXCEPT ![c] =
       [at     |-> "check",
        hf     |-> stored,
        health |-> [NoCheck EXCEPT !.todo = {p \in listActivePositions : stored[p] # "null"}],
        apy    |-> [NoCheck EXCEPT !.todo = listActivePositions]]]
  /\ UNCHANGED <<database, chain, jobs, dialog, execution, worker, faults, history>>

(* The health factor read now, or the listed one when the read or its      *)
(* update fails; what it calls for.                                        *)
CheckHealth(c) ==
  /\ cycle[c].at = "check" /\ cycle[c].health.at = "next"
  /\ \E p \in cycle[c].health.todo :
       LET found(hf) ==
             cycle' = [cycle EXCEPT
               ![c].hf[p]  = "null",
               ![c].health = [todo |-> @.todo \ {p}, pos |-> p, type |-> hf,
                              at   |-> IF hf = "ok" THEN "next" ELSE "alert"]]
       IN  \/ /\ p \in Readable /\ found(live[p])
              /\ stored' = [stored EXCEPT ![p] = live[p]]
              /\ NoFault
           \/ /\ p \in Readable => Fault
              /\ p \notin Readable => NoFault
              /\ found(cycle[c].hf[p])
              /\ UNCHANGED stored
  /\ UNCHANGED <<position, alerts, chain, jobs, dialog, execution, worker, history>>

(* The APY of the market has dropped by half, or has not, or the adapter   *)
(* fails, which is no signal.                                              *)
CheckApyDrift(c) ==
  /\ cycle[c].at = "check" /\ cycle[c].apy.at = "next"
  /\ \E p \in cycle[c].apy.todo, collapsed \in BOOLEAN :
       cycle' = [cycle EXCEPT ![c].apy =
         [todo |-> @.todo \ {p}, pos |-> p, type |-> "drift",
          at   |-> IF collapsed THEN "alert" ELSE "next"]]
  /\ UNCHANGED <<database, chain, jobs, dialog, execution, worker, faults, history>>

Check(c, kind) == cycle[c][kind]

Warnings == Positions \X {"warning"}

(* createAlert, whose failure is logged, then the publication and the      *)
(* notifiers.  A warning is the end of it.                                 *)
FireAlert(c, kind) ==
  LET check == Check(c, kind)
  IN  /\ cycle[c].at = "check" /\ check.at = "alert"
      /\ LET fired == {<<check.pos, check.type>>} \ Warnings
         IN  \/ alerts' = alerts \cup fired /\ UNCHANGED lost /\ NoFault
             \/ Fault /\ lost' = lost \cup fired /\ UNCHANGED alerts
      /\ cycle' = [cycle EXCEPT ![c][kind].at =
                     IF check.type = "warning" THEN "next" ELSE "trigger"]
      /\ UNCHANGED <<position, stored, chain, jobs, dialog, execution, worker, opened, claimed>>

Queue(j) == jobs' = [jobs EXCEPT ![j] = @ + 1]

(* The rebalance handler adds a job; its failure is swallowed. *)
TriggerRebalance(c, kind) ==
  LET check == Check(c, kind)
  IN  /\ cycle[c].at = "check" /\ check.at = "trigger"
      /\ \/ Queue(<<check.pos, IF kind = "apy" THEN "drift" ELSE "emergency">>) /\ NoFault
         \/ Fault /\ UNCHANGED jobs
      /\ cycle' = [cycle EXCEPT ![c][kind].at = "next"]
      /\ UNCHANGED <<database, chain, dialog, execution, worker, history>>

Checked(check) == check.at = "next" /\ check.todo = {}

EndCycle(c) ==
  /\ cycle[c].at = "check" /\ Checked(cycle[c].health) /\ Checked(cycle[c].apy)
  /\ cycle' = [cycle EXCEPT ![c] = [at |-> "idle", hf |-> [p \in Positions |-> "null"],
                                    health |-> NoCheck, apy |-> NoCheck]]
  /\ UNCHANGED <<database, chain, jobs, dialog, execution, worker, faults, history>>

CycleStep(c) ==
  \/ StartCycle(c) \/ CheckHealth(c) \/ CheckApyDrift(c) \/ EndCycle(c)
  \/ \E kind \in {"health", "apy"} : FireAlert(c, kind) \/ TriggerRebalance(c, kind)

-----------------------------------------------------------------------------
(* services/executor: the rebalance worker *)

IdleWorker == [at |-> "idle", job |-> <<Nobody, "drift">>]

(* getPosition may fail, and getOrg finds no organisation: the monitor, who *)
(* alone queues these jobs, names none.  Either way the handler throws      *)
(* before it marks, unwinds or plans anything.                             *)
TakeJob(w) ==
  /\ worker[w].at = "idle"
  /\ \E j \in Waiting :
       /\ jobs' = [jobs EXCEPT ![j] = @ - 1]
       /\ worker' = [worker EXCEPT ![w] = [at |-> "fail", job |-> j]]
  /\ UNCHANGED <<database, chain, dialog, execution, cycle, history, faults>>

FailNothing(w) ==                                                \* mutant
  /\ worker[w].at = "fail"
  /\ worker' = [worker EXCEPT ![w] = IdleWorker]
  /\ NoFault
  /\ UNCHANGED <<database, chain, jobs, dialog, execution, cycle, history>>

(* The handler of "failed"; an error of its own is ignored. *)
FailJob(w) ==
  /\ worker[w].at = "fail"
  /\ \/ position' = [position EXCEPT ![worker[w].job[1]] = "failed"] /\ NoFault
     \/ Fault /\ UNCHANGED position
  /\ worker' = [worker EXCEPT ![w] = IdleWorker]
  /\ UNCHANGED <<stored, alerts, chain, jobs, dialog, execution, cycle, history>>

WorkerStep(w) == TakeJob(w) \/ FailJob(w)

-----------------------------------------------------------------------------
Next ==
  \/ \E p \in Positions :
       \/ MarketMoves(p) \/ Close(p) \/ ReadHealth(p) \/ AgentOpens(p) \/ OtherConfirms(p)
  \/ Deploy \/ Prepare \/ Sign \/ Confirm
  \/ Record \/ ReadNonce \/ Propose \/ MarkDeploying
  \/ \E c \in Cycles : CycleStep(c)
  \/ \E w \in Workers : WorkerStep(w)

Spec == Init /\ [][Next]_vars

(* The timers and the workers keep running; users, wallets and markets may *)
(* stop.  A read that can succeed and fail is not made to fail for ever:   *)
(* failures are faults, of which there are MaxFaults.                      *)
FairSpec ==
  /\ Spec
  /\ \A c \in Cycles :
       /\ WF_vars(StartCycle(c)) /\ WF_vars(CheckHealth(c)) /\ WF_vars(CheckApyDrift(c))
       /\ WF_vars(EndCycle(c))
       /\ \A kind \in {"health", "apy"} : WF_vars(FireAlert(c, kind)) /\ WF_vars(TriggerRebalance(c, kind))
  /\ \A w \in Workers : WF_vars(WorkerStep(w))

-----------------------------------------------------------------------------
Statuses == {"none", "pending", "awaiting_approval", "deploying", "active",
             "rebalancing", "closing", "closed", "failed"}

TypeOK ==
  /\ position \in [Positions -> Statuses]
  /\ stored \in [Positions -> Health \cup {"null"}]
  /\ alerts \cup lost \subseteq Positions \X {"critical", "drift"}
  /\ opened \cup claimed \subseteq Positions
  /\ live \in [Positions -> Health] /\ wasCritical \subseteq Positions
  /\ signed \in [Positions -> 0 .. Plan]
  /\ proposed \subseteq {SafeTransaction(p) : p \in Positions}
  /\ jobs \in [Jobs -> Nat]
  /\ faults \in 0 .. MaxFaults

(* What the monitor watches has had every transaction of its plan signed   *)
(* in its dialog, or the agent opened it, or a client other than its dialog *)
(* confirmed it: no dialog that stopped half-way and no job of a queue     *)
(* makes one of a partial deployment (DeployModal, executor).              *)
WatchedWasSigned ==
  \A p \in Positions :
    position[p] \in Listed => signed[p] = Plan \/ p \in opened \cup claimed

(* Who may still write the status of a position it has seen before. *)
Pending(p) ==
  \/ dialog.at \in {"prepare", "sign", "confirm"} /\ dialog.pos = p
  \/ execution.at \in {"nonce", "propose", "mark"} /\ execution.pos = p
  \/ \E j \in Waiting : j[1] = p
  \/ \E w \in Workers : worker[w].at # "idle" /\ worker[w].job[1] = p
  \/ \E c \in Cycles, kind \in {"health", "apy"} :
       LET check == cycle[c][kind]
       IN  p \in check.todo \/ (check.at # "next" /\ check.pos = p)

(* A closed position comes back only by the hand of somebody who was at    *)
(* work on it when it was closed, or of a client that confirms it whatever *)
(* it is: nobody else picks it up afterwards (routes/positions.ts,         *)
(* listActivePositions).                                                   *)
ClosedIsFinal ==
  [][\A p \in Positions :
       position[p] = "closed" /\ ~Pending(p) =>
         p \in claimed' \/ (position'[p] = "closed" /\ ~Pending(p)')]_vars

Alerted(p, type) == <<p, type>> \in alerts \cup lost

(* The monitor asks for no rebalance without having alerted somebody, or   *)
(* tried to: one that the database did not take (fireAlert,                *)
(* triggerRebalance).                                                      *)
RebalancesAreAlerted ==
  \A p \in Positions :
    /\ jobs[<<p, "emergency">>] > 0 => Alerted(p, "critical")
    /\ jobs[<<p, "drift">>] > 0 => Alerted(p, "drift")

(* A position is shown as "failed" after an alert about it only, and one   *)
(* of a near liquidation only if it was near liquidation: what a cycle     *)
(* listed minutes ago, a job that waited and a worker that stopped do not  *)
(* mix up positions (checkHealthFactors, the rebalance worker).            *)
FailedWasAlerted ==
  \A p \in Positions :
    /\ position[p] = "failed" => Alerted(p, "critical") \/ Alerted(p, "drift")
    /\ Alerted(p, "critical") => p \in wasCritical

(* "deploying" means that the Safe has the proposal: a nonce, a signature   *)
(* or a POST that fails leaves the position where it was, and so does a    *)
(* crash that makes the queue run the job again (execution worker).        *)
DeployingIsProposed == \A p \in Positions : position[p] = "deploying" => SafeTransaction(p) \in proposed

(* A watched position near liquidation does not stay watched, though a     *)
(* read, an alert, the queue or the worker fails on the way: its user      *)
(* closes it, or the next cycle queues another job.  That job does not do  *)
(* the emergency unwind it is for, because it names no organisation: it    *)
(* ends with the position shown as "failed", its capital where it was      *)
(* (MonitoringAgent; onRebalanceTrigger; the rebalance worker).            *)
CriticalLeavesTheWatch ==
  \A p \in Readable :
    position[p] \in Listed /\ stored[p] # "null" /\ live[p] = "critical"
      ~> position[p] \notin Listed \/ live[p] # "critical"

(* Every status and job of a position has what must come before it: an     *)
(* alert, a near liquidation, a proposal.                                  *)
JobsWarranted ==
  /\ TypeOK
  /\ RebalancesAreAlerted
  /\ FailedWasAlerted
  /\ DeployingIsProposed
=============================================================================
