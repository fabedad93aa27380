# defi-composer in TLA+

DeFi Composer moves the idle capital of a company's Gnosis Safe into lending
protocols, inside a mandate the owners signed. This directory models the parts
of it that decide whether capital moves, how much, how often, and what the
database says afterwards.

## 1. Inventory

| Component | State it keeps | Operations | What makes it correct | Module |
|---|---|---|---|---|
| **PolicyEnforcedModule** (`contracts/src/PolicyEnforcedModule.sol`) | policy, allowlists of targets and selectors, spending window, executor | `execute` by the executor; setters by the Safe | limits per action and window, reserve floor, allowlist inside encoded MultiSend batches, preflight agrees with `execute` | `PolicyEnforcedModule` |
| **AgentExecutorModule** (`contracts/src/AgentExecutorModule.sol`) | approvals (hash to block), executor | approve, revoke, rotate, `execute` | one use per approval, never after expiry | `AgentExecutorModule` |
| **Policy set-up scripts** (`scripts/`) | the Safe's module list, the queue of its proposals | set up V1, replace it by V2, patch the addresses | the executor is confined; what was replaced stays replaced; scripts do not compete for a nonce | `PolicySetup` |
| **Agent loop** (`apps/backend/src/agent/agent-loop.ts`) | in memory: simulation queue, slot counter, timers; in the database: decisions, artifacts, execution records, positions | scan, simulate, execute through the module or propose to the Safe, reconcile | jobs are neither lost nor run twice; no action without a passed simulation; a dead job or an absent owner does not block the mandate | `AgentLoop` |
| **Module executor** (`packages/execution-engine/src/module-executor.ts`) | – (chain) | propose an approval, check and execute it; preflight, send and wait for a policy module transaction | a late signature approves nothing; a revert has a cause | `ApprovalClient`; steps of `AgentLoop`, `MandateWorkers` |
| **Safe submitter** (`safe-submitter.ts`), **simulation routes** (`routes/simulations.ts`, `safe-proposal.ts`) | execution records, the Safe's queue | simulate, store, hand out a payload, submit | fresh and passed artifacts only; a repeated submit is the same proposal | `SafeSubmission` |
| **Mandate simulator and playbooks** (`packages/simulation-engine`) | a fork per run, or a shared node | ordered policy checks, funding, seven playbooks, artifact | what passes is what the mandate allows, and took effect | `MandatePolicy`, `ForkSimulation` |
| **Mandate lifecycle** (dialog, `routes/mandates.ts`) and **mandate monitor** (`services/monitor`) | mandates, versions, decisions, jobs | draft, sign, activate (two unordered updates); scan, decide, enqueue | the agent acts under a signed mandate only; a second decision waits only if two scans raced | `MandateLifecycle`, `MandateTerms` |
| **Mandate executor, reconciliation worker** (`services/executor`) | BullMQ jobs with retries, the same tables | the agent loop's work split over processes | a repetition is the price of a fault; jobs end; what was executed is recorded | `MandateWorkers` |
| **Position lifecycle** (`DeployModal`, strategy and position routes, monitor cycles, execution and rebalance workers) | position statuses, health factors, alerts, queues | deploy, confirm, close, check, ask for a rebalance, fail | a dialog makes only what was signed active; a closed position stays closed; a failed one was alerted; a critical one leaves the watch | `PositionLifecycle` |
| **Intents and planner** (`routes/intent.ts`, planner service, LLM client, polling screen) | intents, candidates, the active provider | parse, plan, fail over, store, poll, select | a ready intent has candidates of one policy; every intent gets a verdict | `IntentPlanning` |
| **Strategy graph** | nodes, edges | build: cycle check, order, risk propagation | cycles and only cycles refused; the order follows the edges | `StrategyGraph` |
| **Risk engine, fee engine, stress test** | none | scores, warnings, blockers, fees, projections | scores grow with the graph; verdicts agree; fees stay above the benchmark only | `StrategyAssessment` |
| **Execution plans** (`execution-engine/src/index.ts`) | – (allowances on chain) | approvals and actions of a graph, sent one by one or as a batch | a planned step has its allowance | `ExecutionPlan` |
| **Legacy simulation engine** (`simulation-engine/src/index.ts`) | one `anvilProcess` | start, fund, estimate, stop | a node is stopped by who started it | `LegacySimulation` |
| Database queries | the tables | one statement each | – | steps of the above |
| Treasury and protocol routes, adapters, frontend pages, alerts, other scripts | – | mostly reads | – | partly `IntentPlanning`, `ExecutionPlan`; see section 6 |

How they interact. A scan writes a decision and queues a job; the job runs the
simulator, stores the artifact, then either calls the policy module, which
enforces the limits again on chain, or posts a proposal the Safe's owners may
sign at any later time, or never; reconciliation polls the Safe Transaction
Service and turns executed proposals into positions. The older path goes from
an intent over planned candidates to a position that a dialog or the execution
worker deploys and the monitor watches. Everything is joined by the database,
which is updated by independent statements: almost nothing in the repository
runs in a transaction.

What is hard: every `await` lets timers, routes and other jobs in; a process
may die at any of them and its queue with it; a call may take effect and still
report failure; the chain changes between a read and the transaction sized by
it; owners answer late. `PROJECT.json` lists each such hazard at its line.

## 2. Modules

Conventions. A step is the code between two `await`s that matter, or one
transaction. A field `at` is the place in an asynchronous function. A call that
may fail has a second outcome that uses up one of `MaxFaults`; crashes and
restarts do too. Variables marked *(history)* are read by properties only.
Where a module holds definitions marked `\* mutant`, these are plausible
mistakes against which the properties were tried; nothing in `Next` uses them.

**`PolicyEnforcedModule`, `AgentExecutorModule`.** One variable per storage
slot, one action per function; reverts are guards; the clock and the Safe's
balance are the environment. A delegatecall's data is two sets of calls, those
the module reads (at a fixed place, whatever the target) and those the Safe runs:
the same for a batch in the layout the repository's encoders build
(`encodeMultiSend`, executor/src/index.ts:198; safe-proposal.ts:101) and sent to
MultiSend, unrelated for anything else. Data too short to read reverts and is
left out. `OneUseApproval`
is what an approval promises (grant, redeem, lapse), and `OneUse` says that the
contract implements it.

**`ApprovalClient`** composes the V1 contract with its clients: `approveOnSafe`
computes a deadline, reads the nonce and proposes; owners sign later;
`executeViaModule` checks, sends, and takes any receipt for success. The owners
also approve on their own, until any block; the Safe may refuse a call (it fails,
or the module is disabled), and the module then reverts.

**`PolicySetup`** composes the V2 contract with the Safe's module manager and
the three scripts. A script reads modules and nonce, then the queue, then
posts; a batch runs call by call and is undone by a call that fails.

**`CapitalAction`** is abstract: a decision's capital moves after a passed
simulation, and once, any further move being paid for by a fault. `AgentLoop`
and `MandateWorkers`, the two implementations of the same work, both implement
it (`MovesAreProvenAndPaid`), each under its own mapping.

**`AgentLoop`.** `decision`, `plan`, `artifact`, `record`, `positions`, `fresh`
are the tables; `simQueue`, `runningSims`, `job`, `scan`, `pass` the memory of
the process; `proposal`, `safeNonce`, `safeRuns`, `moduleTx`, `usdc`, `aUsdc`
the outside. `mode` is the deployment, `network` selects `mandateSimulator`
(Base) or `buildStagenetArtifact`. Two code paths end the process on their own:
the execution record and the position inserts outside any `try` reject
`runSimulation`, whose promise nobody catches (`InsertRecord`, `ForkPosition`).
Simplifications, each of which only adds behaviour or leaves out what no
property tells apart: one organisation with one mandate; the simulator's verdict
is free where it does not depend on the Safe; `canExecute` may refuse for any
reason; the windows of `mandateHasPendingWork` are membership in `fresh`, which
`AgeOut` ends at any time; a mined Safe transaction is one that succeeded,
because `safeTxGas` is 0. A pass reads any page of the submitted records, since
no query orders them, and `overlapped` *(history)* says whether two passes ever
were under way together, which the timer does not prevent.

**`MandateWorkers`.** `<<d, n>>` is the n-th run of the handler for decision d,
with an artifact and a record of its own, because BullMQ runs a job again that
throws or stalls and the handler starts over. A Safe transaction is
`<<d, nonce>>`: a second proposal with an unused nonce is the first one again.
Passes read pages here as well.

**`MandateLifecycle`, `MandateTerms`, `MandatePolicy`.** The first has the
state: dialog, requests being served, the two updates of an activation in either
order, the monitor's scans from worker and start-up; a draft of an organisation
that is missing, or needs a Safe and has none, is refused. `torn` and `raced`
*(history)* are the mandates of which an update failed, and those on which both
scans were deciding at once. The second has the terms as
pure functions: what the sliders send, `validateMandateInput`, the stored
version, the two messages built independently, and what a scan decides. The
third is `enforceMandatePolicy`, shared with the simulator.

**`ForkSimulation`, `SafeSubmission`.** `node` is the state of the forks
(balances, allowances), `sim` the place of each simulation; `external` selects
one shared node. A playbook is its legs: check, approve, estimate, send, verify,
with the results the code reads and ignores. `excess` is what a withdrawal's set-up
supplies above twice the amount, which the code computes in floating point and the
funding exactly. `SafeSubmission` adds the routes,
the Transaction Service and the owners.

**`PositionLifecycle`.** The writers of the same rows: dialog, execution worker,
the agent (which opens active positions no dialog knows of, `opened`), other
clients of `confirm-execution` (`claimed`), position routes, check cycles (health
and APY side by side, with the health factors *listed at their start*), rebalance
worker. `lost` holds the alerts the database did not take. Of the rebalance
worker only what its jobs reach is here: they name no organisation, and fail.

**`IntentPlanning`.** The `/parse` request, the run that it starts and nobody
awaits, the provider index shared by concurrent calls (read before a call, written
by its answer), the polling screen, and policy changes meanwhile. The planner
service does the same for a queue that nothing reachable fills.

**`StrategyGraph` <- `StrategyAssessment` <- `ExecutionPlan` <- `LegacySimulation`.**
One chain, each extending the one before: a graph is built step by step (the
recursion of `hasCycle` is a stack), assessed by pure functions, planned node by
node from allowances read at that moment, run, and simulated by callers who
share one engine. `Pair` is the allowance a step's node names, which is read and
approved, `Spends` the one its call needs. A node started with `--silent` may or
may not say that it listens (`silent`). The last composes them (`EngineSpec`): a graph that is built
does not change any more, and plan and simulations only read it. Fees are exact
integers; scores count tenths. `Only` is JavaScript's `filter`.

`MC*` modules hold what a run needs beyond constants: symmetry, initial funds,
sets of requests, views and the constraints described below. `*Proofs` modules
hold theorems only.

## 3. Runs

| Run | Question | Shows |
|---|---|---|
| `policy_spending` | does the V2 contract keep its limits in every order of executions, setters, pauses and ticks? | exact accounting, at most two limits in any day (`SpendingInv`); `canExecute` and `remainingDailyLimit` agree with `execute` (`ViewsAgree` = `PreflightAgrees`, `RemainingLimitAgrees`); allowlist and floor |
| `agent_executor` | are approvals used once, and what do clients see? | `OneUse` as a refinement (which a late signature that approves would break); after a check and a revert the approval was used, revoked or expired, the executor rotated, or the Safe refused the call and the approval is still there |
| `policy_setup` | what can the scripts' proposals, executed in any order, leave behind? | `Confined`; `ReplacementsStick` = `V1Replaced`, `PatchSticks`; `NoncesDiffer` |
| `agent_queue` | with overlapping scans, a full queue and any one fault, is a job lost or run twice, or an action taken without proof? | `QueueSound` = `TypeOK`, `QueueAccounting`; `ProvenFirst`; `ReconciliationSound`; the refinement of `CapitalAction` |
| `agent_settlement` | through a failure anywhere, is each decision settled? | `OnePositionUnderOneFault`, until passes overlap; pending work stops blocking; what was executed is reconciled, unless unsigned records fill a page |
| `agent_double` | proposal *or* module? | **violated**: a failure after the module transaction was sent proposes the same calldata again |
| `mandate_workers` | the same work under BullMQ, retries and restarts | the refinement of `CapitalAction`; `MovesAreRecorded`; `PositionsSound` = `TypeOK`, `PositionsOnce`; `WorkEnds` = `JobsEnd`, `ExecutedIsReconciled` |
| `mandate_lifecycle` | may the agent act under terms nobody signed, or twice at once? | `ActsUnderSignedMandate`; `ActivationsSound` = `DialogAccepted`, `OneMandatePerSetup`, `ActivationWhole`, `DoneIsActive`; `DecisionsSound` = `DecisionsPermitted`, `OneQueuedPerMandate`; `NothingHangs` = `ActivationAnswered`, `MandateUnblocks` |
| `position_lifecycle` | do so many writers keep a position's status true? | `WatchedWasSigned`; `JobsWarranted` = `RebalancesAreAlerted`, `FailedWasAlerted`, `DeployingIsProposed`; `ClosedIsFinal` as an action property; `CriticalLeavesTheWatch`, as "failed" and never unwound |
| `intent_planning` | what do readers find of a plan, through failover, restarts and policy changes? | `PlansSound` = `ReadyHasCandidates`, `CandidatesApproved`; `HalfDoneExplained` = `WalletWithOrg`, `GivingUpTriedAll`; `IntentsEnd` |
| `safe_submission` | is a passed artifact evidence, and is only that proposed? | `ArtifactsSound` = `PassedMoved`, `HealthyProves`; `ReserveKept`; `ProposalsSound` = `ProposedWasProven`, `FreshUnlessUnread`, `ResubmitIsIdempotent`; `NothingLeftBehind` = `ForksOwned`, `RecordsMatch` |
| `strategy_engine` | is a graph built, assessed, planned and simulated as it says? | `GraphSound` = `RefusesCyclesOnly`, `OrderFollowsEdges`, `RisksCovered`; `AssessmentSound` = `RiskGrows`, `BlockersAgree`, `NetKeepsBenchmark`, `SplitPeriodsCostNoLess`, `ProjectionIsBilled`, `StressAnswersAgree`; `PlanSound` = `PlannedStepsRun`, `ApprovalsSpent`, `SuppliesPlanned`; `SimulationsSound` = `SoloStopsItsNode`, `FailuresExplained` |

A property that names several parts is their conjunction; the module's type
invariant is one of them, so it costs no run of its own.

**Bounds.** `policy_spending`: amounts 0..2 make "exactly at the limit", "one
over" and "limit lowered below what is spent" happen; times 0..3 with a day of 2
hold two windows with an odd offset. `agent_executor`: two hashes, three blocks,
two grants each, so a grant can be renewed, used, expire and be renewed again,
and two clients race for one. `policy_setup`: three Safe transactions and four
proposals, so that each script can run and one of them twice, with one failed
read. `agent_queue`: one slot and two decisions fill the queue; two scans
overlap; one fault anywhere. `agent_settlement`: two decisions with records, two
passes that may overlap and a page of one record, so that the other is hidden;
one fault, at any step of the recovery too.
`mandate_workers`: one decision with two attempts and one fault reaches every
second run, and so two records for a page of one; decisions meet only in the
worker's slots, which is a bound of the run and not of the module, and the fault
is spent on either the run or its reconciliation. `mandate_lifecycle`: two mandates and two requests overlap, two
decisions fill both scans, so that a second queued one shows unless both scans
were deciding; amounts 0, 1, 2, 3, 4 and 6 meet the floor, the
threshold of 1 and the single-action limit from both sides. `position_lifecycle`:
positions are independent but for the worker's slots; one of them with one
cycle, one worker and one fault already has every writer race for its row.
`intent_planning`: two intents share organisation, provider index and policy;
one of them is watched. `safe_submission`: two simulations share a node; two
calls of the routes; a block that makes artifacts stale; eleven requests reach
every playbook and refusal, and withdrawals with a set-up above and within what
was funded. Simulations come before the routes
(`SimulateFirst`), because neither reads what the other writes later; the view
then keeps of a simulation what the routes read. `strategy_engine`: graphs
of three nodes and up to three edges whose nodes are of one kind, a deposit or a
borrow of Aave; of all kinds, those without edges and those of two nodes and one
edge (`ShapesOrKinds`): the algorithms on the shape do not read what nodes say.
Three edges hold a cycle that the first root does not reach, a diamond's two
meeting branches and parallel edges. Simulations run on one-node graphs. What
stands before a plan is an allowance that does not suffice (1) or one that does
(2) for one action.

**Symmetry** is used only in runs without liveness, over identifiers that no
definition names. **Deadlock** is not checked where the system comes to rest
(every request served and every bound used up).

**Fairness.** Promises settle and calls time out (weak fairness of each step of
a job, pass, request or run), timers fire, Redis hands jobs out (strong fairness
of `StartJob`, whose slot others may take meanwhile), transactions are mined and
time passes. Nothing is assumed of owners, users, wallets, markets or deposits,
and failures are limited in number, not in place. A liveness property therefore
says: whatever failed, and whoever does not act, this happens.

## 4. Proofs

`tlapm` checks the theorems for every value of the constants, from the named
assumption (`ASSUME`) of the module that declares them. These say that bounds
are numbers, that certain sets are finite and that identifiers differ; TLC
evaluates each on a run.

Every proof has one shape. Few of the properties are inductive, so a module
states an invariant `Inv` (or `IInv`) that is, first says what it must be for the
initial states, then for each operation, and concludes with one temporal step.
TLC checked the invariants on the runs' instances before they were proved. Most
of `Inv` is local: what is true of one decision, job, row or simulation, by
*where its asynchronous function is*. A step then disturbs the one it is about,
and a lemma (`QuietStep`, `QuietKeeps`, `RecordKept`, `OneKept`) says once that
all others keep theirs.

- **`PolicyEnforcedModuleProofs`.** `SpendingInvariant`: the bound of two limits
  per day is not inductive alone: it needs that the window's sum is exact, that
  the ledger of past totals is monotone, that nothing is dated after the end of
  the window (the next `execute` opens a new one), and that the day ending where
  the window began saw at most one limit. `AnyDayBound` is its consequence.
  `AllowlistEnforced` and `FloorEnforced` follow the same scheme, and
  `ViewsAgreeAlways` compares `canExecute` and `remainingDailyLimit` with
  `execute` in every typed state.
  The second half is about the set-up scripts, whose proposals the Safe executes
  in any order, one call at a time, rolling back when one fails. `SetupInv` says
  what is left of the running batch: a target is added after the modules are
  changed and before its selectors are approved (`Sane`). Every approved target is
  therefore guarded or will be by this batch, which can then no longer fail
  (`AllowInv`): `ExecutorIsConfined`. The list of modules, and the one to roll
  back to, agrees with the history of executed batches (`ModuleInv`, `Partway`):
  `ReplacementsHold`. The queue is ahead of the Safe, and a script that read it
  undisturbed is ahead of the queue (`NonceInv`): `NoncesAreDistinct`. The
  script's nonce is the `Max` of a set the invariant only bounds; that it exists
  is `LargestNatural`, from a least counterexample (`WFMin`).
- **`AgentExecutorModuleProofs`.** `Refinement`: the contract implements
  `OneUseApproval` under the mapping "live = what `isApprovalValid` reports"; a
  block that lets approvals expire maps to `Lapse`. `ExecutionsBounded` counts
  uses against grants. `RevertsAreExplained`: a client that has checked either
  still finds its approval, before and after a revert, or has counted what took it. `ClientsUseOnce`: the composition is
  still a refinement, since a client's step is a step of the contract or none.
- **`AgentLoopProofs`.** `ProvenFirstAlways`: that a job reaches its channels only
  with a passed artifact needs where the job is (`DecisionInv`), a started job
  needs that nothing was done for it while it waited (`QueueInv`, which in turn
  needs that nothing waits twice), and a pass that marks a record later needs
  that the record still exists (`PassInv`). `QueueIsSound` adds that the counter
  of `drainSimQueue` is the number of running jobs (`CountInv`). A ledger of each
  decision's channels, record and positions against its job (`LedgerInv`) gives
  `ReconciliationIsSound`, and `CapitalIsProvenAndPaid`, the refinement of
  `CapitalAction`. `OnePositionEach` holds until two passes overlap: two that both
  look the position up before either writes make two rows without any fault, and
  nothing in the code prevents them; a second fault does the same.
- **`MandateWorkersProofs`.** The three theorems are about counting. `Budget`
  counts the ways out of the Safe a decision has opened, `Sent` and `Posted`,
  against the faults and against its records: one is free, each further one was
  paid for, and each is on record, about to be, or paid for (`MovesAreOnRecord`,
  `CapitalIsProvenAndPaid`). `PositionInv` counts the positions of a transaction
  together with those that the two passes are about to make
  (`PositionsAreSound`). That nonces stay in range is an injection of the executed
  transactions into runs.
- **`MandateLifecycleProofs`.** Two halves that do not disturb each other:
  `SetupInv` (what the dialog and the requests may still do to a mandate, and how
  many activations the dialog and the faults have paid for) and `ScanInv` (queued
  decisions and scans about to queue one: a second one only where the scans raced).
  `DecisionsAreSigned`, `ActivationsAreSound`, `DecisionsAreSound`; the last two
  rest on lemmas about the terms themselves: what the dialog sends is valid, what
  is stored is what was signed (`DialogIsAccepted`), and what a scan decides the
  terms permit, for any amounts.
- **`PositionLifecycleProofs`.** `WatchedIsSigned` and `JobsAreWarranted`: what a
  row says was true of its position once, and so is whatever a check, a job or a
  worker still holds of it, since signatures, alerts (taken or lost), critical
  readings and the agent's and other clients' part in it are never withdrawn. `ClosedStaysClosed` is an action property, over the same
  invariant and `Unattended`, which says without counting that nobody holds on to
  the position.
- **`StrategyProofs`**, about `EngineSpec`. `EngineInv` joins three invariants
  of which each is untouched by the steps of the other two.
  *The graph* (`GraphInv`): the stack of the depth-first check is a path along
  the edges its calls stopped at (`OnPath`), every edge a call has passed leads
  to a node left for good or to the call above (`Passed`), and of the nodes left
  for good no set feeds itself (`Ranked`). An edge back into the path closes a
  cycle, so what is refused has one; when every node was left there is none. For
  the sort, `Kahn` says that the count of a node is that of its edges not taken
  away yet, and that what has none of them is queued or put out; an order that is
  short leaves a set that feeds itself, which the check would have refused.
  These are predicates of edges, stack and sets, so that
  the steps of both algorithms are lemmas about values. `GraphsAreSound`.
  *The plan* (`PlanInv`): what is known of an allowance that a step relies on:
  approved by the step before it, or standing when the plan was made and then
  used by an action before it (`Backed`, `Used`, `Grown`), or, of a vault that
  takes another token, known to be missing. One step keeps
  this, hence a batch does, and a plan sent step by step; the deposits among the
  steps are those of the nodes planned so far. `ExecutionPlansAreSound`.
  *The simulations* (`SimInv`): a call that no other overlapped owns the engine's
  field, and two calls under way of which one is alone are one.
  `SimulationsAreSound`.
  `AssessmentsAreSound` needs of `GraphInv` that the order is one of known kinds;
  the rest is arithmetic: each score is monotone in the nodes and on its scale, a
  weighted sum of such scores is, a truncated share of what exceeds the benchmark
  leaves the benchmark, and the excess over two periods is at most the sum of
  theirs.
  *Intents*, in the same module and about the specification of `IntentPlanning`.
  `PlansAreSound`: what a run has picked is allowed by one policy that it could
  have read (`Approved`), and nothing was stored before it. `HalfDoneIsExplained`:
  the providers an undisturbed run has asked are consecutive from the active one
  (`AskedFrom`), and `N` steps around the ring reach all of them (`RingComplete`).
- **`SafeSubmissionProofs`.** `ArtifactsAreSound`: that a transaction took effect
  rests on what the wallet holds and has approved at each step of a playbook
  (`Funds`, `Health`) and on the balance read before it (`Evidence`), which needs
  that nobody else writes to that node: always on a fork of its own, on a shared
  node while the simulation is alone (`SimInv`). These are predicates of a
  record and a node, so that the lemmas on legs are about values. The same
  invariant carries `ReserveIsKept` (the policy was asked again once the amount
  was known), `ProposalsAreSound` and `NothingIsLeftBehind`.

*Recursion.* `Only`, `LiquidityScore` and `Executed` are functions on `0 .. n`
given by their next value. That such a function exists, and what its last value
is, would be an induction; instead the lemmas look at the least argument at which
the claim fails (`LeastNatural`, from the well-foundedness of `<`), which is not 0
and is no successor (`Upwards`, `RecursionExists`).

*Assumptions on constants* that these proofs use are named beside them: severities
are of the three known ones (`RiskAssumption`), fees and periods are integers
(`FeeAssumption`), a target LTV counts whole percents and prices whole dollars
(`ScoreAssumption`), capital and allowances are amounts (`PlanAssumption`).

*Model-checked only.* Liveness (`ScansUnblocked`, `ExecutedIsReconciled`,
`WorkEnds`, `NothingHangs`, `CriticalLeavesTheWatch`, `IntentsEnd`): the prover has no
rules for fairness and `ENABLED`. Every other property of a passing run is a
theorem, for every value of the constants.

## 5. What a reader of the code should know

The runs are about what holds. Where code and comment disagree, or where the
code is weaker than one would guess, the model follows the code. One such place
is a run (`agent_double`); the others, which the properties are worded around:

*On chain.* The daily limit is per fixed window, not "rolling" (sol:22, 84; the
reset is at sol:268): a day can see twice the limit, never more. Removing and
adding a target again keeps its selector guard (sol:191), although a comment
there (sol:210) says it is reset. Calls without a selector, and those to
MultiSend itself, pass the guard. The comment at sol:17-19 promises the allowlist
for what a MultiSend batch does; the decoder keeps it for data in the layout of
the encoders, which is all `OnlyAllowlistedCalls`, `Confined` and their theorems
say. It reads a fixed place, not the offset the data states, and does so for a
delegatecall to any approved target: of other data the contract checks the target
and the limits, not the calls. A failing V2 set-up batch keeps its nonce, so
nothing behind it runs until it is replaced.

*Agent loop and workers.* Two overlapping scans may decide the same thing
(agent-loop.ts:739), and two overlapping passes may store a position twice
(agent-loop.ts:892): neither the timers nor start-up wait for the last one. On a
stagenet a withdrawal supplies (agent-loop.ts:314). A reverted policy module
transaction is recorded as executed, because the receipt's status is not read
(module-executor.ts:482). The submitted records are read 20 at a time and in no order
(queries/mandates.ts:163), by both reconciliations: 20 that will never execute
can hide one that did for good, which `ExecutedIsReconciled` excepts in both modules. Amounts are sized at scan time;
the reserve is not looked at again before the owners sign. A lost answer to the
POST leaves a proposal no record names. A retried job executes again.

*Mandates.* A withdrawal that restores the reserve but exceeds
`maxSingleActionUsd` is decided every time and refused every time. Basis points
that are not whole pass validation and can never be activated (BigInt). No
mandate the route accepts can name "morpho", the name the simulator wants. The
signed message covers floor, risk, slippage, protocols and version, rounded, not
the single-action limit. "deposit" never meets the reserve floor. Submit does
not look at the mandate again, and the nonce ignores what is already proposed.

*Positions.* The dialog's `waitForTx` returns after two seconds whether mined or
not, so "active" means signed, not included. The execution worker proposes a
CALL to MultiSendCallOnly, which needs a DELEGATECALL; what the Safe makes of it
is outside the model. The monitor's rebalance jobs have no organisation and
always fail (monitor/src/index.ts:491): the emergency unwind that monitor and
executor announce (executor/src/index.ts:409, "immediate full withdrawal") never
runs, and a position near liquidation ends as "failed", where no cycle looks at it
again. `CriticalLeavesTheWatch` says this and no more. `confirm-execution` makes
any position active for any client. Whoever began before a user closed a position
may still write its status.

*Simulation.* The set-up of a WETH withdrawal supplies `(parseFloat(amount) * 2)` with
18 decimals (mandate-simulator.ts:367): for "0.1" that is a few wei above what the
wallet is funded with (:270), the set-up's failure is ignored, and the withdrawal
fails as if it had no aTokens. A swap or deposit for another account passes only if
that account holds the tokens on the fork. `HealthyProves` excepts both.

*Planning and assessment.* A candidate may be stored after the policy that allowed
it was changed. A call whose next attempt follows another call's answer counts
from the provider that answered there (llm-client.ts:130), and may ask one twice
and another never. The screen swallows "failed" and polls until its time is up. The risk engine's score replaces the planner's, and with it the blocker for
protocols without an adapter; one stable pool takes the impermanent-loss warning
back. `targetLtv * 12` scores 20 percent with 2.4, where a comment says 1. There
is no high-water mark: two periods never cost less than one. A borrow without a
target LTV survives every stress test and has a buffer of 40 percent. Borrows
and withdrawals are approved like deposits; what an adapter cannot encode is
left out of the plan. A deposit of a token whose address only the adapter knows
(DAI, USDT, rETH: aave-v3.ts:27) is planned without an approval
(execution-engine/src/index.ts:219) and reverts unless something stands. A Morpho
deposit of another token than USDC goes to a vault of USDC all the same
(morpho-blue.ts:321): the plan approves the node's token, the deposit takes USDC
from an allowance nobody approved, and the approval stays. The legacy engine's
overlapping calls stop one node twice and leave the other. It starts Anvil with
`--silent` and waits for "Listening on" (simulation-engine/src/index.ts:67, 83);
fork-context.ts:317 says that `--silent` suppresses that line. If so, every one of
its calls gives up after thirty seconds, and `FailuresExplained` has nothing else
to explain; the model leaves it to the Anvil build.

## 6. Not modelled

- **Alerts** (socket registry): `broadcastAlert` and `broadcastMonitorEvent` have
  no caller; nothing of capital, status or jobs depends on a subscriber.
- **Reads**: treasury, protocol and activity routes, market adapters with their
  fallbacks, list queries, health and metrics: no state, and nothing in them is
  about an order of events. What a read that fails makes of a decision is in the
  module of the decision.
- **Frontend pages** but for the two dialogs, the intent page and the polling
  screen: presentation.
- The rebalance worker behind its look-up of the organisation (marking, unwinding,
  planning again): no job that the repository queues gets there, and so none
  reaches the planner service.
- `checkIdleCapital`, whose alert has no effect, the notifiers, session keys (a
  stub) and `simulateSingleTx` (no caller).
- **Language models**: prompts and parsing; an answer is any subset of the
  templates, one of them possibly twice.
- **Floating point**: scores, fees and stress tests are exact here, so rounding
  is not checked.
- Other scripts (demonstrations, one-off deployments) and the vendored forge-std.
