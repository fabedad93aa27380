------------------------- MODULE MandateWorkersProofs -------------------------
(***************************************************************************)
(* What MandateWorkers promises, for any deployments, decisions, attempts, *)
(* concurrency and number of faults: positions and records say what        *)
(* happened, what was executed is recorded but for the faults, and the     *)
(* workers implement CapitalAction.                                        *)
(*                                                                         *)
(* None of this is inductive by itself.  The invariant ties what a run has *)
(* left in the database and outside to the place of its job (RunInv),      *)
(* counts for each decision the ways out of the Safe it has opened against *)
(* faults and records (Budget), and what the passes are about to make      *)
(* against the positions that are there (PositionInv).                     *)
(***************************************************************************)
EXTENDS MandateWorkers, FiniteSetTheorems, TLAPS

(* Where a job is, and where a pass is. *)
Opening    == {"simulate", "route", "module", "nonce", "post"}
Unrecorded == {"receipt", "moduleRecord", "recordSubmitted"}
Settling   == {"block", "forkRecord", "forkPosition", "forkReady", "recordProposed",
               "ready", "executed", "publish"}
Busy       == Opening \cup Unrecorded \cup Settling
JobStates  == Busy \cup Ended
PassStates == {"boot", "idle", "next", "lookup", "duplicate", "position", "reconciled",
               "decision"}
Settled    == {"submitted", "reconciled"}

JobRecord  == [at : JobStates, runs : Nat, failures : Nat]
RunRecord  == [status : {"none", "proposed", "submitted", "reconciled"}, tx : Txs \cup {NoTx}]
PassRecord == [at : PassStates, todo : SUBSET Runs, current : Runs \cup {NoTx}]

(* The type invariant, with what it leaves to the shape of the model.      *)
RowTypes ==
  /\ mode \in Modes
  /\ decision \in [Decisions -> {"none", "proposed", "ready", "blocked", "executed"}]
  /\ positions \in [Txs -> Nat] /\ forkPositions \in [Decisions -> Nat]
RunTypes ==
  /\ artifact \in [Runs -> {"none", "passed", "failed"}]
  /\ record \in [Runs -> RunRecord]
  /\ moduleTx \in [Runs -> {"none", "pending", "executed", "reverted"}]
JobTypes ==
  /\ job \in [Decisions -> JobRecord]
  /\ nonceRead \in [Decisions -> Nonces \cup {NoNonce}]
PassTypes  == pass \in [Callers -> PassRecord]
SafeTypes  == executed \subseteq posted /\ posted \subseteq Txs /\ safeNonce \in Nonces
FaultTypes == faults \in 0 .. MaxFaults /\ blind \in 0 .. faults

Types == RowTypes /\ RunTypes /\ JobTypes /\ PassTypes /\ SafeTypes /\ FaultTypes

(* A run begins while there is a fault to pay for it, and within the       *)
(* attempts.                                                               *)
JobInv(d) ==
  /\ job[d].runs <= faults + 1 /\ job[d].failures <= Attempts
  /\ job[d].at = "none" => job[d].runs = 0
  /\ job[d].at = "waiting" => job[d].runs <= faults
  /\ job[d].at \in Busy => job[d].runs > 0
  /\ job[d].at \in Busy \cup {"waiting"} => job[d].failures < Attempts

(* What the runs of a decision have left behind, by where its job is.      *)
RunInv(d) ==
  /\ \A n \in RunNumbers : n > job[d].runs =>
       /\ artifact[<<d, n>>] = "none" /\ record[<<d, n>>].status = "none"
       /\ moduleTx[<<d, n>>] = "none"
  /\ job[d].at = "simulate" => artifact[Run(d)] = "none"
  /\ job[d].at \in (Opening \cup Unrecorded) \ {"simulate"} => artifact[Run(d)] = "passed"
  /\ job[d].at \in Opening \cup Unrecorded \cup {"forkRecord", "recordProposed"} =>
       record[Run(d)].status = "none"
  /\ job[d].at \in {"simulate", "route", "module"} => moduleTx[Run(d)] = "none"
  /\ job[d].at \in {"receipt", "moduleRecord"} => moduleTx[Run(d)] # "none"
  /\ job[d].at = "moduleRecord" => moduleTx[Run(d)] # "pending"
  /\ job[d].at = "post" => nonceRead[d] # NoNonce
  /\ job[d].at = "recordSubmitted" => nonceRead[d] # NoNonce /\ <<d, nonceRead[d]>> \in posted

(* The ways out of the Safe that a decision has opened, and its records.   *)
Sent(d)     == {n \in RunNumbers : moduleTx[<<d, n>>] # "none"}
Posted(d)   == {tx \in posted : tx[1] = d}
Recorded(d) == {n \in RunNumbers : record[<<d, n>>].status \in Settled}
ProvenRuns(d) == {n \in RunNumbers : artifact[<<d, n>>] = "passed"}

(* What a job has still to open, and whether it has still to record it.    *)
May(at)  == IF at \in Opening \cup {"none", "waiting"} THEN 0 ELSE 1
Owed(at) == IF at \in Unrecorded THEN 1 ELSE 0

(* Each of them but one has its fault, and each its record or its fault.   *)
Budget(d) ==
  /\ Cardinality(Sent(d)) + Cardinality(Posted(d)) <= faults + May(job[d].at)
  /\ Cardinality(Sent(d)) + Cardinality(Posted(d))
       <= faults + Cardinality(Recorded(d)) + Owed(job[d].at)

ProvenInv(d) == Sent(d) # {} \/ Posted(d) # {} => ProvenRuns(d) # {}

DecisionInv(d) == JobInv(d) /\ RunInv(d) /\ Budget(d) /\ ProvenInv(d)

(* The Safe's nonce counts what it executed. *)
NonceInv ==
  /\ safeNonce = Cardinality(executed)
  /\ \A tx \in executed : tx[2] < safeNonce

RecordInv(r) ==
  /\ record[r].status = "submitted" => record[r].tx \in posted
  /\ record[r].status = "reconciled" =>
       record[r].tx \in executed \/ moduleTx[r] \in {"executed", "reverted"}

(* A pass has records whose proposal was posted, and writes for those the  *)
(* Safe executed.                                                          *)
PassInv(p) ==
  /\ \A r \in pass[p].todo : record[r].status \in Settled /\ record[r].tx \in posted
  /\ pass[p].at \notin {"boot", "idle", "next"} =>
       /\ pass[p].current \in Runs
       /\ record[pass[p].current].status \in Settled
       /\ record[pass[p].current].tx \in executed

(* The pass at the start needs a restart. *)
StartupInv == blind = 0 => pass["startup"].at = "idle"

Creates(p, t) == pass[p].at = "position" /\ record[pass[p].current].tx = t
Making(p, t) == IF Creates(p, t) THEN 1 ELSE 0

(* A position is made while there is none, but for what hides one.         *)
PositionInv(t) ==
  /\ positions[t] + Making("worker", t) + Making("startup", t) <= 1 + blind
  /\ positions[t] > 0 => t \in executed

Inv ==
  /\ Types /\ NonceInv /\ StartupInv
  /\ \A d \in Decisions : DecisionInv(d)
  /\ \A r \in Runs : RecordInv(r)
  /\ \A p \in Callers : PassInv(p)
  /\ \A t \in Txs : PositionInv(t)

-----------------------------------------------------------------------------
(* Counting *)

LEMMA FiniteParts ==
  ASSUME ConstantsAssumption, posted \subseteq Txs, NEW d
  PROVE  /\ IsFiniteSet(Txs) /\ IsFiniteSet(Runs) /\ IsFiniteSet(posted)
         /\ IsFiniteSet(Sent(d)) /\ Cardinality(Sent(d)) \in Nat
         /\ IsFiniteSet(Posted(d)) /\ Cardinality(Posted(d)) \in Nat
         /\ IsFiniteSet(Recorded(d)) /\ Cardinality(Recorded(d)) \in Nat
<1>1. IsFiniteSet(RunNumbers)
  BY FS_Interval DEF RunNumbers, ConstantsAssumption
<1>2. Cardinality(Decisions) \in Nat
  BY FS_CardinalityType DEF ConstantsAssumption
<1>3. Cardinality(Decisions) * (MaxFaults + 1) \in Nat
  BY <1>2 DEF ConstantsAssumption
<1>4. IsFiniteSet(Nonces)
  BY <1>3, FS_Interval DEF Nonces
<1>5. IsFiniteSet(Txs) /\ IsFiniteSet(Runs)
  BY <1>1, <1>4, FS_Product DEF Txs, Runs, ConstantsAssumption
<1>6. IsFiniteSet(posted)
  BY <1>5, FS_Subset
<1>7. Sent(d) \subseteq RunNumbers /\ Recorded(d) \subseteq RunNumbers /\ Posted(d) \subseteq posted
  BY DEF Sent, Recorded, Posted
<1>8. IsFiniteSet(Sent(d)) /\ IsFiniteSet(Recorded(d)) /\ IsFiniteSet(Posted(d))
  BY <1>1, <1>6, <1>7, FS_Subset
<1> QED BY <1>5, <1>6, <1>8, FS_CardinalityType

LEMMA OneMore ==
  ASSUME NEW S, IsFiniteSet(S), NEW T, NEW x, T \subseteq S \cup {x}
  PROVE  Cardinality(T) \in Nat /\ Cardinality(S) \in Nat /\ Cardinality(T) <= Cardinality(S) + 1
<1>1. IsFiniteSet(S \cup {x}) /\ Cardinality(S \cup {x}) \in {Cardinality(S), Cardinality(S) + 1}
  BY FS_AddElement
<1>2. IsFiniteSet(T) /\ Cardinality(T) <= Cardinality(S \cup {x})
  BY <1>1, FS_Subset
<1>3. Cardinality(T) \in Nat /\ Cardinality(S) \in Nat
  BY <1>2, FS_CardinalityType
<1> QED BY <1>1, <1>2, <1>3

(* A step of a decision's job that opens o ways and writes q records, with *)
(* f faults, keeps its budget.                                             *)
LEMMA BudgetStep ==
  ASSUME NEW d \in Decisions, Types, faults' \in Nat, Budget(d), ConstantsAssumption,
         NEW o \in {0, 1}, NEW q \in {0, 1}, NEW f \in {0, 1},
         Cardinality(Sent(d))' \in Nat, Cardinality(Posted(d))' \in Nat,
         Cardinality(Recorded(d))' \in Nat,
         Cardinality(Sent(d))' + Cardinality(Posted(d))'
           <= Cardinality(Sent(d)) + Cardinality(Posted(d)) + o,
         Cardinality(Recorded(d))' >= Cardinality(Recorded(d)) + q,
         faults' = faults + f,
         o + May(job[d].at) <= f + May(job'[d].at),
         o + Owed(job[d].at) <= f + q + Owed(job'[d].at)
  PROVE  Budget(d)'
<1>1. /\ Cardinality(Sent(d)) \in Nat /\ Cardinality(Posted(d)) \in Nat
      /\ Cardinality(Recorded(d)) \in Nat /\ faults \in Nat
  BY FiniteParts DEF Types, SafeTypes, FaultTypes
<1>2. PICK m0 \in {0, 1} : m0 = May(job[d].at)
  BY DEF May
<1>3. PICK m1 \in {0, 1} : m1 = May(job'[d].at)
  BY DEF May
<1>4. PICK w0 \in {0, 1} : w0 = Owed(job[d].at)
  BY DEF Owed
<1>5. PICK w1 \in {0, 1} : w1 = Owed(job'[d].at)
  BY DEF Owed
<1> QED BY <1>1, <1>2, <1>3, <1>4, <1>5 DEF Budget, May, Owed

-----------------------------------------------------------------------------
(* What other actors leave alone *)

(* A record that a pass may have marked, a transaction that may be mined.  *)
SameRecord(r) == /\ record'[r].tx = record[r].tx
                 /\ record'[r].status = record[r].status
                    \/ (record[r].status \in Settled /\ record'[r].status \in Settled)
SameTx(r) == moduleTx'[r] = moduleTx[r]
             \/ (moduleTx[r] = "pending" /\ moduleTx'[r] \in {"executed", "reverted"})

(* Nothing happens to a decision but what a pass or the chain may do.      *)
Quiet(e) ==
  /\ job'[e] = job[e] /\ nonceRead'[e] = nonceRead[e]
  /\ \A n \in RunNumbers : /\ artifact'[<<e, n>>] = artifact[<<e, n>>]
                           /\ SameRecord(<<e, n>>) /\ SameTx(<<e, n>>)
  /\ Posted(e)' = Posted(e)
  /\ faults <= faults'

LEMMA RunIsRun ==
  ASSUME NEW d \in Decisions, Types, JobInv(d), job[d].at \in Busy, ConstantsAssumption
  PROVE  job[d].runs \in RunNumbers /\ Run(d) \in Runs
<1>1. /\ job[d].runs > 0 /\ job[d].runs <= faults + 1 /\ faults <= MaxFaults
      /\ job[d].runs \in Nat /\ faults \in Nat
  BY DEF JobInv, Types, JobTypes, JobRecord, FaultTypes
<1>2. job[d].runs \in RunNumbers
  BY <1>1 DEF RunNumbers, ConstantsAssumption
<1> QED BY <1>2 DEF Runs, Run

(* A quiet decision keeps its part of the invariant. *)
LEMMA QuietKeeps ==
  ASSUME NEW e \in Decisions, ConstantsAssumption, Types, Types', DecisionInv(e), Quiet(e)
  PROVE  DecisionInv(e)'
<1>1. faults \in Nat /\ faults' \in Nat /\ job[e].runs \in Nat /\ job'[e] = job[e]
  BY DEF Types, FaultTypes, JobTypes, JobRecord, Quiet
<1>2. JobInv(e)'
  BY <1>1, ConstantsAssumption DEF DecisionInv, Quiet, JobInv
<1>3. Sent(e)' = Sent(e) /\ Recorded(e)' = Recorded(e) /\ ProvenRuns(e)' = ProvenRuns(e)
  <2>1. \A n \in RunNumbers : moduleTx'[<<e, n>>] # "none" <=> moduleTx[<<e, n>>] # "none"
    BY DEF Quiet, SameTx
  <2>2. \A n \in RunNumbers : record'[<<e, n>>].status \in Settled <=> record[<<e, n>>].status \in Settled
    BY DEF Quiet, SameRecord
  <2> QED BY <2>1, <2>2 DEF Quiet, Sent, Recorded, ProvenRuns
<1>4. ProvenInv(e)'
  BY <1>3 DEF ProvenInv, Quiet, DecisionInv
<1>5. Budget(e)'
  <2>1. /\ Cardinality(Sent(e)) \in Nat /\ Cardinality(Posted(e)) \in Nat
        /\ Cardinality(Recorded(e)) \in Nat
    BY FiniteParts DEF Types, SafeTypes
  <2>2. May(job[e].at) \in Nat /\ Owed(job[e].at) \in Nat
    BY DEF May, Owed
  <2> QED BY <1>1, <1>3, <2>1, <2>2 DEF Budget, Quiet, DecisionInv
<1>6. RunInv(e)'
  <2>1. \A n \in RunNumbers :
          /\ artifact'[<<e, n>>] = artifact[<<e, n>>]
          /\ record'[<<e, n>>].status = "none" <=> record[<<e, n>>].status = "none"
          /\ moduleTx'[<<e, n>>] = "none" <=> moduleTx[<<e, n>>] = "none"
          /\ moduleTx[<<e, n>>] # "pending" => moduleTx'[<<e, n>>] # "pending"
    BY DEF Quiet, SameTx, SameRecord, Settled
  <2>2. ASSUME job[e].at \in Busy PROVE job[e].runs \in RunNumbers
    BY <2>2, RunIsRun DEF DecisionInv
  <2>3. nonceRead'[e] = nonceRead[e] /\ \A n : <<e, n>> \in posted => <<e, n>> \in posted'
    BY DEF Quiet, Posted
  <2>4. RunInv(e)
    BY DEF DecisionInv
  <2> QED BY <1>1, <2>1, <2>2, <2>3, <2>4 DEF RunInv, Run, Busy, Opening, Unrecorded, Settling
<1> QED BY <1>2, <1>4, <1>5, <1>6 DEF DecisionInv

(* What the records and the passes see of a step that is not a pass's.     *)
SettledKept(r) == record[r].status \in Settled =>
                    record'[r].status = record[r].status /\ record'[r].tx = record[r].tx

Steady ==
  /\ pass' = pass /\ positions' = positions /\ executed \subseteq executed'
  /\ posted \subseteq posted' /\ blind <= blind'
  /\ \A r \in Runs : SettledKept(r)
  /\ \A r \in Runs : moduleTx[r] \in {"executed", "reverted"} => moduleTx'[r] = moduleTx[r]

LEMMA SteadyKeeps ==
  ASSUME Types, Types', Steady,
         \A p \in Callers : PassInv(p), \A t \in Txs : PositionInv(t), StartupInv
  PROVE  /\ \A p \in Callers : PassInv(p)'
         /\ \A t \in Txs : PositionInv(t)'
         /\ StartupInv'
<1>1. ASSUME NEW p \in Callers PROVE PassInv(p)'
  <2>1. pass[p].todo \subseteq Runs
    BY <1>1 DEF Types, PassTypes, PassRecord
  <2>2. PassInv(p)
    BY <1>1
  <2> QED BY <2>1, <2>2 DEF PassInv, Steady, SettledKept
<1>2. ASSUME NEW t \in Txs PROVE PositionInv(t)'
  <2>1. ASSUME NEW p \in Callers PROVE Making(p, t)' = Making(p, t)
    <3>1. Creates(p, t)' <=> Creates(p, t)
      <4>1. PassInv(p)
        BY <2>1
      <4> QED BY <4>1 DEF PassInv, Creates, Steady, SettledKept
    <3> QED BY <3>1 DEF Making
  <2>2. Making("worker", t)' = Making("worker", t) /\ Making("startup", t)' = Making("startup", t)
    BY <2>1 DEF Callers
  <2>3. Making("worker", t) \in Nat /\ Making("startup", t) \in Nat /\ positions[t] \in Nat
    BY <1>2 DEF Making, Types, RowTypes
  <2>4. blind \in Nat /\ blind' \in Nat
    BY DEF Types, FaultTypes
  <2>5. PositionInv(t)
    BY <1>2
  <2> QED BY <2>2, <2>3, <2>4, <2>5 DEF PositionInv, Steady
<1>3. StartupInv'
  BY DEF StartupInv, Steady, Types, FaultTypes
<1> QED BY <1>1, <1>2, <1>3

(* A record about which a step says nothing keeps its part.                *)
LEMMA RecordKept ==
  ASSUME NEW r \in Runs, RecordInv(r), Steady, record'[r] = record[r]
  PROVE  RecordInv(r)'
BY DEF RecordInv, Steady

-----------------------------------------------------------------------------
(* Where a job goes *)

LEMMA GotoIs ==
  ASSUME NEW d \in Decisions, NEW step \in JobStates, Types, Goto(d, step)
  PROVE  /\ job' \in [Decisions -> JobRecord]
         /\ job'[d].at = step /\ job'[d].runs = job[d].runs /\ job'[d].failures = job[d].failures
         /\ \A e \in Decisions : e # d => job'[e] = job[e]
<1>1. job \in [Decisions -> JobRecord]
  BY DEF Types, JobTypes
<1>2. PICK seen \in JobRecord : seen = job[d]
  BY <1>1
<1>3. job' = [job EXCEPT ![d] = [seen EXCEPT !.at = step]]
  BY <1>2, Zenon DEF Goto
<1>4. [seen EXCEPT !.at = step] = [at |-> step, runs |-> seen.runs, failures |-> seen.failures]
  BY DEF JobRecord
<1>5. PICK next \in JobRecord : next = [at |-> step, runs |-> seen.runs, failures |-> seen.failures]
  BY <1>2 DEF JobRecord
<1>6. job' = [job EXCEPT ![d] = next]
  BY <1>3, <1>4, <1>5, Zenon
<1> QED BY <1>1, <1>2, <1>5, <1>6

LEMMA RetryIs ==
  ASSUME NEW d \in Decisions, Types, Retry(d), ConstantsAssumption
  PROVE  /\ job' \in [Decisions -> JobRecord]
         /\ job'[d].at = IF job[d].failures + 1 < Attempts THEN "waiting" ELSE "failed"
         /\ job'[d].runs = job[d].runs /\ job'[d].failures = job[d].failures + 1
         /\ \A e \in Decisions : e # d => job'[e] = job[e]
<1>1. job \in [Decisions -> JobRecord]
  BY DEF Types, JobTypes
<1>2. PICK seen \in JobRecord : seen = job[d]
  BY <1>1
<1>3. PICK step \in JobStates : step = IF job[d].failures + 1 < Attempts THEN "waiting" ELSE "failed"
  BY DEF JobStates, Ended
<1>4. PICK n \in Nat : n = seen.failures + 1
  BY <1>2 DEF JobRecord
<1>5. job' = [job EXCEPT ![d] = [[seen EXCEPT !.failures = n] EXCEPT !.at = step]]
  <2>1. job' = [job EXCEPT ![d] = [[job[d] EXCEPT !.failures = job[d].failures + 1] EXCEPT
            !.at = IF job[d].failures + 1 < Attempts THEN "waiting" ELSE "failed"]]
    BY Zenon DEF Retry
  <2> QED BY <2>1, <1>2, <1>3, <1>4, Zenon
<1>6. [[seen EXCEPT !.failures = n] EXCEPT !.at = step] = [at |-> step, runs |-> seen.runs, failures |-> n]
  <2>1. [seen EXCEPT !.failures = n] = [at |-> seen.at, runs |-> seen.runs, failures |-> n]
    BY DEF JobRecord
  <2>2. PICK mid \in JobRecord : mid = [at |-> seen.at, runs |-> seen.runs, failures |-> n]
    BY <1>4 DEF JobRecord
  <2>3. [mid EXCEPT !.at = step] = [at |-> step, runs |-> mid.runs, failures |-> mid.failures]
    BY DEF JobRecord
  <2> QED BY <2>1, <2>2, <2>3
<1>7. PICK next \in JobRecord : next = [at |-> step, runs |-> seen.runs, failures |-> n]
  BY <1>2, <1>4 DEF JobRecord
<1>8. job' = [job EXCEPT ![d] = next]
  BY <1>5, <1>6, <1>7, Zenon
<1> QED BY <1>1, <1>2, <1>3, <1>4, <1>7, <1>8

(* What a step of a decision's job leaves: its own part of the invariant,  *)
(* and of the rest what other steps are entitled to find.                  *)
JobOutcome(d) ==
  /\ Types' /\ NonceInv' /\ DecisionInv(d)'
  /\ \A e \in Decisions : e # d => Quiet(e)
  /\ Steady
  /\ \A r \in Runs : RecordInv(r)'

(* A step that leaves runs and proposals alone. *)
LEMMA UntouchedStep ==
  ASSUME NEW d \in Decisions, Inv, ConstantsAssumption, NEW f \in {0, 1},
         UNCHANGED <<mode, positions, artifact, record, pass, chain>>,
         decision' \in [Decisions -> {"none", "proposed", "ready", "blocked", "executed"}],
         forkPositions' \in [Decisions -> Nat],
         job' \in [Decisions -> JobRecord],
         nonceRead' \in [Decisions -> Nonces \cup {NoNonce}],
         \A e \in Decisions : e # d => job'[e] = job[e] /\ nonceRead'[e] = nonceRead[e],
         faults' = faults + f, faults' <= MaxFaults, blind' = blind,
         May(job[d].at) <= f + May(job'[d].at),
         Owed(job[d].at) <= f + Owed(job'[d].at),
         JobInv(d)', RunInv(d)'
  PROVE  JobOutcome(d)
<1>1. Types /\ DecisionInv(d)
  BY DEF Inv
<1>2. Types'
  <2>1. FaultTypes'
    BY <1>1, ConstantsAssumption DEF Types, FaultTypes
  <2> QED BY <1>1, <2>1 DEF Types, RowTypes, RunTypes, JobTypes, PassTypes, SafeTypes, chain
<1>3. faults \in Nat /\ blind \in Nat
  BY <1>1 DEF Types, FaultTypes
<1>4. Sent(d)' = Sent(d) /\ Posted(d)' = Posted(d) /\ Recorded(d)' = Recorded(d)
      /\ ProvenRuns(d)' = ProvenRuns(d)
  BY DEF Sent, Posted, Recorded, ProvenRuns, chain
<1>5. DecisionInv(d)'
  <2>1. /\ Cardinality(Sent(d)) \in Nat /\ Cardinality(Posted(d)) \in Nat
        /\ Cardinality(Recorded(d)) \in Nat
    BY <1>1, FiniteParts DEF Types, SafeTypes
  <2>2. May(job[d].at) \in Nat /\ Owed(job[d].at) \in Nat /\ May(job'[d].at) \in Nat /\ Owed(job'[d].at) \in Nat
    BY DEF May, Owed
  <2>3. Budget(d)'
    BY <1>1, <1>3, <1>4, <2>1, <2>2 DEF DecisionInv, Budget, May, Owed
  <2>4. ProvenInv(d)'
    BY <1>1, <1>4 DEF DecisionInv, ProvenInv
  <2> QED BY <2>3, <2>4 DEF DecisionInv
<1>6. ASSUME NEW e \in Decisions, e # d PROVE Quiet(e)
  BY <1>3, <1>6 DEF Quiet, SameRecord, SameTx, Posted, chain
<1>7. Steady
  BY <1>3 DEF Steady, SettledKept, chain
<1>8. NonceInv' /\ \A r \in Runs : RecordInv(r)'
  BY <1>7, RecordKept DEF Inv, NonceInv, chain
<1> QED BY <1>2, <1>5, <1>6, <1>7, <1>8 DEF JobOutcome

(* ... and goes on. *)
LEMMA GoesOn ==
  ASSUME NEW d \in Decisions, Inv, ConstantsAssumption,
         NEW step \in Busy \cup {"completed"}, Goto(d, step), job[d].at \in Busy,
         NEW f \in {0, 1}, faults' = faults + f, faults' <= MaxFaults, blind' = blind,
         UNCHANGED <<mode, positions, artifact, record, pass, chain>>,
         decision' \in [Decisions -> {"none", "proposed", "ready", "blocked", "executed"}],
         forkPositions' \in [Decisions -> Nat],
         nonceRead' \in [Decisions -> Nonces \cup {NoNonce}],
         \A e \in Decisions : e # d => nonceRead'[e] = nonceRead[e],
         May(job[d].at) <= f + May(step),
         Owed(job[d].at) <= f + Owed(step),
         (* what the next place asks of the run *)
         job[d].at \in (Opening \cup Unrecorded) \ {"simulate"} \/ step \notin Opening \cup Unrecorded,
         step # "simulate",
         step \in {"forkRecord", "recordProposed"} => job[d].at \in Opening,
         step = "module" => job[d].at = "route",
         step # "route",
         step = "moduleRecord" => job[d].at = "receipt" /\ moduleTx[Run(d)] # "pending",
         step # "receipt",
         step = "post" => nonceRead'[d] # NoNonce,
         step # "recordSubmitted"
  PROVE  JobOutcome(d)
<1>1. Types /\ JobInv(d) /\ RunInv(d)
  BY DEF Inv, DecisionInv
<1>2. step \in JobStates
  BY DEF JobStates, Ended
<1>3. /\ job' \in [Decisions -> JobRecord]
      /\ job'[d].at = step /\ job'[d].runs = job[d].runs /\ job'[d].failures = job[d].failures
      /\ \A e \in Decisions : e # d => job'[e] = job[e]
  BY <1>1, <1>2, GotoIs
<1>4. faults \in Nat /\ job[d].runs \in Nat /\ job[d].failures \in Nat
  BY <1>1 DEF Types, FaultTypes, JobTypes, JobRecord
<1>5. JobInv(d)'
  BY <1>1, <1>3, <1>4 DEF JobInv, Busy, Opening, Unrecorded, Settling
<1>6. RunInv(d)'
  <2>1. Run(d)' = Run(d)
    BY <1>3 DEF Run
  <2>2. step \in Opening \cup Unrecorded =>
          artifact[Run(d)] = "passed" /\ record[Run(d)].status = "none"
    BY <1>1 DEF RunInv
  <2>3. step \in {"forkRecord", "recordProposed"} => record[Run(d)].status = "none"
    BY <1>1 DEF RunInv
  <2>4. step \in {"simulate", "route", "module"} => moduleTx[Run(d)] = "none"
    BY <1>1 DEF RunInv
  <2>5. step = "moduleRecord" => moduleTx[Run(d)] \notin {"none", "pending"}
    BY <1>1 DEF RunInv
  <2>6. UNCHANGED <<artifact, record, moduleTx, posted>>
    BY DEF chain
  <2> QED BY <1>1, <1>3, <2>1, <2>2, <2>3, <2>4, <2>5, <2>6 DEF RunInv
<1> QED BY <1>3, <1>5, <1>6, UntouchedStep

(* ... and throws: whatever it was doing, a fault pays for the next run.   *)
LEMMA Throws ==
  ASSUME NEW d \in Decisions, Inv, ConstantsAssumption, Retry(d), job[d].at \in Busy,
         Fault, UNCHANGED <<mode, database, pass, chain>>,
         nonceRead' \in [Decisions -> Nonces \cup {NoNonce}],
         \A e \in Decisions : e # d => nonceRead'[e] = nonceRead[e]
  PROVE  JobOutcome(d)
<1>1. Types /\ JobInv(d) /\ RunInv(d)
  BY DEF Inv, DecisionInv
<1>2. /\ job' \in [Decisions -> JobRecord]
      /\ job'[d].at = IF job[d].failures + 1 < Attempts THEN "waiting" ELSE "failed"
      /\ job'[d].runs = job[d].runs /\ job'[d].failures = job[d].failures + 1
      /\ \A e \in Decisions : e # d => job'[e] = job[e]
  BY <1>1, RetryIs
<1>3. /\ faults \in Nat /\ job[d].runs \in Nat /\ job[d].failures \in Nat /\ Attempts \in Nat
      /\ faults' = faults + 1 /\ faults' <= MaxFaults /\ blind' = blind
  BY <1>1, ConstantsAssumption DEF Types, FaultTypes, JobTypes, JobRecord, Fault, OneMoreFault
<1>4. JobInv(d)'
  BY <1>1, <1>2, <1>3 DEF JobInv, Busy, Opening, Unrecorded, Settling
<1>5. RunInv(d)'
  BY <1>1, <1>2 DEF RunInv, Opening, Unrecorded, database, chain
<1>6. May(job[d].at) <= 1 + May(job'[d].at) /\ Owed(job[d].at) <= 1 + Owed(job'[d].at)
  BY DEF May, Owed
<1> QED BY <1>1, <1>2, <1>3, <1>4, <1>5, <1>6, UntouchedStep DEF Types, RowTypes, database

LEMMA EnqueueStep ==
  ASSUME NEW d \in Decisions, Inv, ConstantsAssumption, Enqueue(d)
  PROVE  JobOutcome(d)
<1>1. Types /\ JobInv(d) /\ RunInv(d)
  BY DEF Inv, DecisionInv
<1>2. PICK n \in 0 .. Attempts - 1 : job' = [job EXCEPT ![d].at = "waiting", ![d].failures = n]
  BY DEF Enqueue
<1>3. PICK seen \in JobRecord : seen = job[d]
  BY <1>1 DEF Types, JobTypes
<1>4. job' = [job EXCEPT ![d] = [[seen EXCEPT !.at = "waiting"] EXCEPT !.failures = n]]
  BY <1>2, <1>3, Zenon
<1>5. [[seen EXCEPT !.at = "waiting"] EXCEPT !.failures = n]
        = [at |-> "waiting", runs |-> seen.runs, failures |-> n]
  <2>1. [seen EXCEPT !.at = "waiting"] = [at |-> "waiting", runs |-> seen.runs, failures |-> seen.failures]
    BY DEF JobRecord
  <2>2. PICK mid \in JobRecord : mid = [at |-> "waiting", runs |-> seen.runs, failures |-> seen.failures]
    BY DEF JobRecord, JobStates, Ended
  <2>3. [mid EXCEPT !.failures = n] = [at |-> mid.at, runs |-> mid.runs, failures |-> n]
    BY DEF JobRecord
  <2> QED BY <2>1, <2>2, <2>3
<1>6. PICK next \in JobRecord : next = [at |-> "waiting", runs |-> seen.runs, failures |-> n]
  <2>1. n \in Nat
    BY DEF ConstantsAssumption
  <2> QED BY <2>1 DEF JobRecord, JobStates, Ended
<1>7. job' = [job EXCEPT ![d] = next]
  BY <1>4, <1>5, <1>6, Zenon
<1>8. /\ job' \in [Decisions -> JobRecord]
      /\ job'[d].at = "waiting" /\ job'[d].runs = job[d].runs /\ job'[d].failures = n
      /\ \A e \in Decisions : e # d => job'[e] = job[e]
  BY <1>1, <1>3, <1>6, <1>7 DEF Types, JobTypes
<1>9. job[d].at = "none" /\ faults' = faults + 0 /\ faults' <= MaxFaults /\ faults \in Nat /\ blind' = blind
  BY <1>1 DEF Enqueue, Types, FaultTypes
<1>10. JobInv(d)'
  BY <1>1, <1>8, <1>9, ConstantsAssumption DEF JobInv, Busy, Opening, Unrecorded, Settling
<1>11. RunInv(d)'
  BY <1>1, <1>8 DEF RunInv, Opening, Unrecorded, Enqueue, chain
<1>12. May(job[d].at) <= 0 + May(job'[d].at) /\ Owed(job[d].at) <= 0 + Owed(job'[d].at)
  BY <1>8, <1>9 DEF May, Owed, Unrecorded
<1>13. decision' \in [Decisions -> {"none", "proposed", "ready", "blocked", "executed"}]
  BY <1>1 DEF Enqueue, Types, RowTypes
<1> QED BY <1>1, <1>8, <1>9, <1>10, <1>11, <1>12, <1>13, UntouchedStep
        DEF Enqueue, Types, RowTypes, JobTypes

LEMMA StartStep ==
  ASSUME NEW d \in Decisions, Inv, ConstantsAssumption, StartJob(d)
  PROVE  JobOutcome(d)
<1>1. Types /\ JobInv(d) /\ RunInv(d)
  BY DEF Inv, DecisionInv
<1>2. PICK seen \in JobRecord : seen = job[d]
  BY <1>1 DEF Types, JobTypes
<1>3. PICK n \in Nat : n = seen.runs + 1
  BY DEF JobRecord
<1>4. job' = [job EXCEPT ![d] = [[seen EXCEPT !.at = "simulate"] EXCEPT !.runs = n]]
  <2>1. job' = [job EXCEPT ![d] = [[job[d] EXCEPT !.at = "simulate"] EXCEPT !.runs = job[d].runs + 1]]
    BY Zenon DEF StartJob
  <2> QED BY <1>2, <1>3, <2>1, Zenon
<1>5. [[seen EXCEPT !.at = "simulate"] EXCEPT !.runs = n]
        = [at |-> "simulate", runs |-> n, failures |-> seen.failures]
  <2>1. [seen EXCEPT !.at = "simulate"] = [at |-> "simulate", runs |-> seen.runs, failures |-> seen.failures]
    BY DEF JobRecord
  <2>2. PICK mid \in JobRecord : mid = [at |-> "simulate", runs |-> seen.runs, failures |-> seen.failures]
    BY DEF JobRecord, JobStates, Busy, Opening
  <2>3. [mid EXCEPT !.runs = n] = [at |-> mid.at, runs |-> n, failures |-> mid.failures]
    BY DEF JobRecord
  <2> QED BY <2>1, <2>2, <2>3
<1>6. PICK next \in JobRecord : next = [at |-> "simulate", runs |-> n, failures |-> seen.failures]
  BY DEF JobRecord, JobStates, Busy, Opening
<1>7. job' = [job EXCEPT ![d] = next]
  BY <1>4, <1>5, <1>6, Zenon
<1>8. /\ job' \in [Decisions -> JobRecord]
      /\ job'[d].at = "simulate" /\ job'[d].runs = job[d].runs + 1 /\ job'[d].failures = job[d].failures
      /\ \A e \in Decisions : e # d => job'[e] = job[e]
  BY <1>1, <1>2, <1>3, <1>6, <1>7 DEF Types, JobTypes
<1>9. /\ job[d].at = "waiting" /\ faults' = faults + 0 /\ faults' <= MaxFaults
      /\ faults \in Nat /\ blind' = blind /\ job[d].runs \in Nat /\ job[d].failures \in Nat
  BY <1>1 DEF StartJob, Types, FaultTypes, JobTypes, JobRecord
<1>10. JobInv(d)'
  BY <1>1, <1>8, <1>9 DEF JobInv, Busy, Opening, Unrecorded, Settling
<1>11. RunInv(d)'
  <2>1. \A n1 \in RunNumbers : n1 > job'[d].runs => n1 > job[d].runs
    BY <1>8, <1>9 DEF RunNumbers
  <2>2. job'[d].runs \in RunNumbers /\ job'[d].runs > job[d].runs
    BY <1>1, <1>8, <1>9, ConstantsAssumption DEF RunNumbers, JobInv, Types, FaultTypes
  <2> QED BY <1>1, <1>8, <2>1, <2>2 DEF RunInv, Run, Opening, Unrecorded, StartJob, database, chain
<1>12. May(job[d].at) <= 0 + May(job'[d].at) /\ Owed(job[d].at) <= 0 + Owed(job'[d].at)
  BY <1>8, <1>9 DEF May, Owed, Unrecorded, Opening
<1>13. nonceRead' \in [Decisions -> Nonces \cup {NoNonce}]
       /\ \A e \in Decisions : e # d => nonceRead'[e] = nonceRead[e]
  BY <1>1 DEF StartJob, Types, JobTypes
<1> QED BY <1>1, <1>8, <1>9, <1>10, <1>11, <1>12, <1>13, UntouchedStep
        DEF StartJob, database, Types, RowTypes

(* A step that writes something about the run of a decision. *)
LEMMA TouchedStep ==
  ASSUME NEW d \in Decisions, Inv, ConstantsAssumption, NEW f \in {0, 1},
         UNCHANGED <<mode, decision, positions, forkPositions, pass, executed, safeNonce>>,
         RunTypes', JobTypes', posted' \subseteq Txs, posted \subseteq posted',
         \A tx \in posted' : tx \in posted \/ tx[1] = d,
         \A e \in Decisions : e # d => job'[e] = job[e] /\ nonceRead'[e] = nonceRead[e],
         \A r \in Runs : r # Run(d) =>
           artifact'[r] = artifact[r] /\ record'[r] = record[r] /\ moduleTx'[r] = moduleTx[r],
         SettledKept(Run(d)),
         moduleTx[Run(d)] \in {"executed", "reverted"} => moduleTx'[Run(d)] = moduleTx[Run(d)],
         record'[Run(d)].status = "submitted" => record'[Run(d)].tx \in posted',
         record'[Run(d)].status = "reconciled" =>
           record'[Run(d)].tx \in executed' \/ moduleTx'[Run(d)] \in {"executed", "reverted"},
         faults' = faults + f, faults' <= MaxFaults, blind' = blind,
         JobInv(d)', RunInv(d)', Budget(d)', ProvenInv(d)'
  PROVE  JobOutcome(d)
<1>1. Types /\ DecisionInv(d)
  BY DEF Inv
<1>2. faults \in Nat /\ blind \in Nat /\ blind <= faults
  BY <1>1 DEF Types, FaultTypes
<1>3. Types'
  <2>1. FaultTypes'
    BY <1>2, ConstantsAssumption DEF FaultTypes
  <2> QED BY <1>1, <2>1 DEF Types, RowTypes, PassTypes, SafeTypes
<1>4. DecisionInv(d)'
  BY DEF DecisionInv
<1>5. ASSUME NEW e \in Decisions, e # d PROVE Quiet(e)
  <2>1. ASSUME NEW n \in RunNumbers PROVE <<e, n>> \in Runs /\ <<e, n>> # Run(d)
    BY <1>5, <2>1 DEF Runs, Run
  <2>2. Posted(e)' = Posted(e)
    BY <1>5 DEF Posted
  <2> QED BY <1>2, <1>5, <2>1, <2>2 DEF Quiet, SameRecord, SameTx
<1>6. Steady
  BY <1>2 DEF Steady, SettledKept
<1>7. ASSUME NEW r \in Runs PROVE RecordInv(r)'
  <2>1. CASE r = Run(d)
    BY <2>1 DEF RecordInv
  <2>2. CASE r # Run(d)
    BY <1>6, <1>7, <2>2, RecordKept DEF Inv
  <2> QED BY <2>1, <2>2
<1>8. NonceInv'
  BY DEF Inv, NonceInv
<1> QED BY <1>3, <1>4, <1>5, <1>6, <1>7, <1>8 DEF JobOutcome

(* The counts of a decision, where a step adds to one set at most.         *)
LEMMA Counts ==
  ASSUME NEW d \in Decisions, Types, posted' \subseteq Txs, ConstantsAssumption
  PROVE  /\ Cardinality(Sent(d)) \in Nat /\ Cardinality(Posted(d)) \in Nat
         /\ Cardinality(Recorded(d)) \in Nat
         /\ Cardinality(Sent(d))' \in Nat /\ Cardinality(Posted(d))' \in Nat
         /\ Cardinality(Recorded(d))' \in Nat
<1>1. ASSUME Types
      PROVE  /\ Cardinality(Sent(d)) \in Nat /\ Cardinality(Posted(d)) \in Nat
             /\ Cardinality(Recorded(d)) \in Nat
  BY <1>1, FiniteParts DEF Types, SafeTypes
<1>2. IsFiniteSet(Sent(d))' /\ IsFiniteSet(Posted(d))' /\ IsFiniteSet(Recorded(d))'
  <2>1. IsFiniteSet(RunNumbers)
    BY FS_Interval DEF RunNumbers, ConstantsAssumption
  <2>2. IsFiniteSet(Txs)
    BY FiniteParts DEF Types, SafeTypes
  <2>3. Sent(d)' \subseteq RunNumbers /\ Recorded(d)' \subseteq RunNumbers /\ Posted(d)' \subseteq Txs
    BY DEF Sent, Recorded, Posted
  <2> QED BY <2>1, <2>2, <2>3, FS_Subset
<1> QED BY <1>1, <1>2, FS_CardinalityType

LEMMA SimulateStep ==
  ASSUME NEW d \in Decisions, Inv, ConstantsAssumption, Simulate(d)
  PROVE  JobOutcome(d)
<1>1. Types /\ JobInv(d) /\ RunInv(d) /\ Budget(d) /\ ProvenInv(d)
  BY DEF Inv, DecisionInv
<1>2. job[d].at = "simulate"
  BY DEF Simulate
<1>3. Run(d) \in Runs /\ job[d].runs \in RunNumbers
  BY <1>1, <1>2, RunIsRun DEF Busy, Opening
<1>4. CASE Fault /\ Retry(d) /\ UNCHANGED artifact
  <2>1. UNCHANGED <<mode, database, pass, chain>> /\ UNCHANGED nonceRead
    BY <1>4 DEF Simulate, database
  <2> QED BY <1>1, <1>2, <1>4, <2>1, Throws DEF Types, JobTypes, Busy, Opening
<1>5. ASSUME NEW result \in {"passed", "failed"}, artifact' = [artifact EXCEPT ![Run(d)] = result],
             Goto(d, IF result = "passed" THEN "route" ELSE "block"), NoFault
      PROVE  JobOutcome(d)
  <2>1. PICK step \in {"route", "block"} : step = IF result = "passed" THEN "route" ELSE "block"
    OBVIOUS
  <2>2. Goto(d, step)
    BY <1>5, <2>1, Zenon
  <2>3. /\ job' \in [Decisions -> JobRecord]
        /\ job'[d].at = step /\ job'[d].runs = job[d].runs /\ job'[d].failures = job[d].failures
        /\ \A e \in Decisions : e # d => job'[e] = job[e]
    BY <1>1, <2>2, GotoIs DEF JobStates, Busy, Opening, Settling
  <2>4. /\ UNCHANGED <<mode, decision, record, positions, forkPositions, nonceRead, pass,
                       moduleTx, posted, executed, safeNonce>>
        /\ faults' = faults + 0 /\ faults' <= MaxFaults /\ blind' = blind /\ faults \in Nat
    BY <1>1, <1>5 DEF Simulate, NoFault, chain, Types, FaultTypes
  <2>5. /\ RunTypes' /\ JobTypes'
        /\ artifact'[Run(d)] = result /\ \A r \in Runs : r # Run(d) => artifact'[r] = artifact[r]
    BY <1>1, <1>3, <1>5, <2>3, <2>4 DEF Types, RunTypes, JobTypes
  <2>6. record[Run(d)].status = "none" /\ moduleTx[Run(d)] = "none" /\ artifact[Run(d)] = "none"
    BY <1>1, <1>2 DEF RunInv, Opening
  <2>7. JobInv(d)'
    BY <1>1, <1>2, <2>1, <2>3, <2>4 DEF JobInv, Busy, Opening, Unrecorded, Settling
  <2>8. RunInv(d)'
    <3>1. \A n \in RunNumbers : n > job[d].runs => <<d, n>> \in Runs /\ <<d, n>> # Run(d)
      BY <1>3 DEF Runs, Run, RunNumbers
    <3>2. \A n \in RunNumbers : n > job'[d].runs => artifact'[<<d, n>>] = "none"
      BY <1>1, <2>3, <2>5, <3>1 DEF RunInv
    <3> QED BY <1>1, <2>1, <2>3, <2>4, <2>5, <2>6, <3>2 DEF RunInv, Run, Opening, Unrecorded
  <2>9. Sent(d)' = Sent(d) /\ Posted(d)' = Posted(d) /\ Recorded(d)' = Recorded(d)
    BY <2>4 DEF Sent, Posted, Recorded
  <2>10. Budget(d)'
    <3>1. 0 + May(job[d].at) <= 0 + May(job'[d].at) /\ 0 + Owed(job[d].at) <= 0 + 0 + Owed(job'[d].at)
      BY <1>2, <2>1, <2>3 DEF May, Owed, Opening, Unrecorded
    <3>2. posted' \subseteq Txs
      BY <1>1, <2>4 DEF Types, SafeTypes
    <3> QED BY <1>1, <2>4, <2>9, <3>1, <3>2, Counts, BudgetStep
  <2>11. ProvenRuns(d) \subseteq ProvenRuns(d)'
    <3>1. ASSUME NEW n \in RunNumbers, artifact[<<d, n>>] = "passed"
          PROVE  artifact'[<<d, n>>] = "passed"
      BY <2>5, <2>6, <3>1 DEF Runs
    <3> QED BY <3>1 DEF ProvenRuns
  <2>12. ProvenInv(d)'
    BY <1>1, <2>9, <2>11 DEF ProvenInv
  <2>13. posted' \subseteq Txs
    BY <1>1, <2>4 DEF Types, SafeTypes
  <2> QED BY <1>1, <2>3, <2>4, <2>5, <2>6, <2>7, <2>8, <2>10, <2>12, <2>13, TouchedStep
          DEF SettledKept, Settled
<1> QED BY <1>4, <1>5 DEF Simulate

LEMMA RouteStep ==
  ASSUME NEW d \in Decisions, Inv, ConstantsAssumption, Route(d)
  PROVE  JobOutcome(d)
<1>1. Types
  BY DEF Inv
<1>2. /\ job[d].at = "route" /\ UNCHANGED <<mode, database, pass, chain>> /\ UNCHANGED nonceRead
      /\ job[d].at \in Busy
  BY DEF Route, Busy, Opening
<1>3. CASE Fault /\ Retry(d)
  BY <1>1, <1>2, <1>3, Throws DEF Types, JobTypes
<1>4. ASSUME NEW step \in {"forkRecord", "module", "nonce", "recordProposed"}, Goto(d, step), NoFault
      PROVE  JobOutcome(d)
  <2>1. faults' = faults + 0 /\ faults' <= MaxFaults /\ blind' = blind
    BY <1>1, <1>4 DEF Types, FaultTypes, NoFault
  <2>2. May(job[d].at) <= 0 + May(step) /\ Owed(job[d].at) <= 0 + Owed(step)
    BY <1>2 DEF May, Owed, Opening, Unrecorded
  <2>3. step \in Busy \cup {"completed"} /\ job[d].at \in Opening
    BY <1>2 DEF Busy, Opening, Settling
  <2> QED BY <1>1, <1>2, <1>4, <2>1, <2>2, <2>3, GoesOn
          DEF database, Types, RowTypes, JobTypes, Opening
<1>5. CASE /\ Goto(d, CASE mode = "fork"   -> "forkRecord"
                        [] mode = "module" -> "module"
                        [] mode = "safe"   -> "nonce"
                        [] OTHER           -> "recordProposed")
           /\ NoFault
  <2>1. PICK step \in {"forkRecord", "module", "nonce", "recordProposed"} :
          step = CASE mode = "fork"   -> "forkRecord"
                   [] mode = "module" -> "module"
                   [] mode = "safe"   -> "nonce"
                   [] OTHER           -> "recordProposed"
    OBVIOUS
  <2>2. Goto(d, step)
    BY <1>5, <2>1, Zenon
  <2> QED BY <1>4, <1>5, <2>2
<1> QED BY <1>3, <1>5 DEF Route

SetStatus(r, status) == record' = [record EXCEPT ![r].status = status]

LEMMA StatusIs ==
  ASSUME NEW r \in Runs, NEW status \in {"none", "proposed", "submitted", "reconciled"}, Types,
         SetStatus(r, status)
  PROVE  /\ record' \in [Runs -> RunRecord]
         /\ record'[r].status = status /\ record'[r].tx = record[r].tx
         /\ \A q \in Runs : q # r => record'[q] = record[q]
<1>1. record \in [Runs -> RunRecord]
  BY DEF Types, RunTypes
<1>2. PICK seen \in RunRecord : seen = record[r]
  BY <1>1
<1>3. record' = [record EXCEPT ![r] = [seen EXCEPT !.status = status]]
  BY <1>2, Zenon DEF SetStatus
<1>4. [seen EXCEPT !.status = status] = [status |-> status, tx |-> seen.tx]
  BY DEF RunRecord
<1>5. PICK next \in RunRecord : next = [status |-> status, tx |-> seen.tx]
  BY DEF RunRecord
<1>6. record' = [record EXCEPT ![r] = next]
  BY <1>3, <1>4, <1>5, Zenon
<1> QED BY <1>1, <1>2, <1>5, <1>6

(* The record of a run is written, once, and the job settles down.         *)
LEMMA WriteStep ==
  ASSUME NEW d \in Decisions, Inv, ConstantsAssumption,
         NEW step \in Settling \ {"forkRecord", "recordProposed"}, Goto(d, step), NoFault,
         job[d].at \in {"forkRecord", "moduleRecord", "recordProposed", "recordSubmitted"},
         UNCHANGED <<mode, decision, artifact, positions, forkPositions, pass, chain>>,
         record' \in [Runs -> RunRecord],
         \A r \in Runs : r # Run(d) => record'[r] = record[r],
         nonceRead' \in [Decisions -> Nonces \cup {NoNonce}],
         \A e \in Decisions : e # d => nonceRead'[e] = nonceRead[e],
         job[d].at \in Unrecorded => record'[Run(d)].status \in Settled,
         record'[Run(d)].status = "submitted" => record'[Run(d)].tx \in posted,
         record'[Run(d)].status = "reconciled" => moduleTx[Run(d)] \in {"executed", "reverted"}
  PROVE  JobOutcome(d)
<1>1. Types /\ JobInv(d) /\ RunInv(d) /\ Budget(d) /\ ProvenInv(d)
  BY DEF Inv, DecisionInv
<1>2. Run(d) \in Runs /\ job[d].runs \in RunNumbers
  BY <1>1, RunIsRun DEF Busy, Opening, Unrecorded, Settling
<1>3. /\ job' \in [Decisions -> JobRecord]
      /\ job'[d].at = step /\ job'[d].runs = job[d].runs /\ job'[d].failures = job[d].failures
      /\ \A e \in Decisions : e # d => job'[e] = job[e]
  BY <1>1, GotoIs DEF JobStates, Busy
<1>4. /\ faults' = faults + 0 /\ faults' <= MaxFaults /\ blind' = blind /\ faults \in Nat
      /\ UNCHANGED <<moduleTx, posted, executed, safeNonce>>
  BY <1>1 DEF NoFault, Types, FaultTypes, chain
<1>5. record[Run(d)].status = "none"
  BY <1>1 DEF RunInv, Unrecorded
<1>6. JobInv(d)'
  BY <1>1, <1>3, <1>4 DEF JobInv, Busy, Opening, Unrecorded, Settling
<1>7. RunInv(d)'
  <2>1. \A n \in RunNumbers : n > job[d].runs => <<d, n>> \in Runs /\ <<d, n>> # Run(d)
    BY <1>2 DEF Runs, Run, RunNumbers
  <2>2. \A n \in RunNumbers : n > job'[d].runs => record'[<<d, n>>].status = "none"
    BY <1>1, <1>3, <2>1 DEF RunInv
  <2> QED BY <1>1, <1>3, <1>4, <2>2 DEF RunInv, Opening, Unrecorded, Settling
<1>8. Sent(d)' = Sent(d) /\ Posted(d)' = Posted(d) /\ ProvenRuns(d)' = ProvenRuns(d)
  BY <1>4 DEF Sent, Posted, ProvenRuns
<1>9. Recorded(d) \subseteq Recorded(d)'
  <2>1. ASSUME NEW n \in RunNumbers, record[<<d, n>>].status \in Settled
        PROVE  record'[<<d, n>>].status \in Settled
    <3>1. <<d, n>> \in Runs /\ <<d, n>> # Run(d)
      BY <1>5, <2>1 DEF Runs, Settled
    <3> QED BY <2>1, <3>1
  <2> QED BY <2>1 DEF Recorded
<1>10. posted' \subseteq Txs
  BY <1>1, <1>4 DEF Types, SafeTypes
<1>11. PICK q \in {0, 1} : q = Owed(job[d].at)
  BY DEF Owed
<1>12. Cardinality(Recorded(d))' >= Cardinality(Recorded(d)) + q
  <2>1. IsFiniteSet(Recorded(d)')
    <3>1. IsFiniteSet(RunNumbers)
      BY FS_Interval DEF RunNumbers, ConstantsAssumption
    <3> QED BY <3>1, FS_Subset DEF Recorded
  <2>2. CASE q = 0
    <3>1. Cardinality(Recorded(d)) <= Cardinality(Recorded(d)')
      BY <1>9, <2>1, FS_Subset
    <3> QED BY <1>1, <1>10, <2>2, <3>1, Counts
  <2>3. CASE q = 1
    <3>1. job[d].at \in Unrecorded
      BY <1>11, <2>3 DEF Owed
    <3>2. job[d].runs \in Recorded(d)' /\ job[d].runs \notin Recorded(d)
      BY <1>2, <1>5, <3>1 DEF Recorded, Run, Settled
    <3>3. IsFiniteSet(Recorded(d)) /\ Recorded(d) \cup {job[d].runs} \subseteq Recorded(d)'
      BY <1>9, <2>1, <3>2, FS_Subset
    <3>4. Cardinality(Recorded(d) \cup {job[d].runs}) = Cardinality(Recorded(d)) + 1
      BY <3>2, <3>3, FS_AddElement
    <3>5. Cardinality(Recorded(d) \cup {job[d].runs}) <= Cardinality(Recorded(d)')
      BY <2>1, <3>3, FS_Subset
    <3> QED BY <1>1, <1>10, <2>3, <3>4, <3>5, Counts
  <2> QED BY <2>2, <2>3
<1>13. Budget(d)'
  <2>1. 0 + May(job[d].at) <= 0 + May(job'[d].at) /\ 0 + Owed(job[d].at) <= 0 + q + Owed(job'[d].at)
    BY <1>3, <1>11 DEF May, Owed, Opening, Unrecorded, Settling
  <2> QED BY <1>1, <1>4, <1>8, <1>10, <1>12, <2>1, Counts, BudgetStep
<1>14. ProvenInv(d)'
  BY <1>1, <1>8 DEF ProvenInv
<1>15. RunTypes' /\ JobTypes'
  BY <1>1, <1>3, <1>4 DEF Types, RunTypes, JobTypes
<1> QED BY <1>1, <1>3, <1>4, <1>5, <1>6, <1>7, <1>10, <1>13, <1>14, <1>15, TouchedStep
        DEF SettledKept, Settled

LEMMA ForkSteps ==
  ASSUME NEW d \in Decisions, Inv, ConstantsAssumption,
         ForkRecord(d) \/ ForkPosition(d) \/ ForkReady(d)
  PROVE  JobOutcome(d)
<1>1. Types /\ JobInv(d) /\ RunInv(d)
  BY DEF Inv, DecisionInv
<1>2. CASE ForkRecord(d)
  <2>1. /\ job[d].at = "forkRecord" /\ job[d].at \in Busy
        /\ UNCHANGED <<mode, decision, artifact, positions, forkPositions, nonceRead, pass, chain>>
    BY <1>2 DEF ForkRecord, Busy, Settling
  <2>2. CASE Fault /\ Retry(d) /\ UNCHANGED record
    BY <1>1, <2>1, <2>2, Throws DEF Types, JobTypes, database
  <2>3. ASSUME record' = [record EXCEPT ![Run(d)].status = "proposed"], Goto(d, "forkPosition"), NoFault
        PROVE  JobOutcome(d)
    <3>1. SetStatus(Run(d), "proposed")
      BY <2>3, Zenon DEF SetStatus
    <3>2. Run(d) \in Runs
      BY <1>1, <2>1, RunIsRun
    <3>3. /\ record' \in [Runs -> RunRecord] /\ record'[Run(d)].status = "proposed"
          /\ \A r \in Runs : r # Run(d) => record'[r] = record[r]
      BY <1>1, <3>1, <3>2, StatusIs
    <3>4. "forkPosition" \in Settling \ {"forkRecord", "recordProposed"} /\ job[d].at \notin Unrecorded
      BY <2>1 DEF Settling, Unrecorded
    <3>5. Goto(d, "forkPosition") /\ NoFault
      BY <2>3
    <3> QED BY <1>1, <2>1, <3>3, <3>4, <3>5, WriteStep DEF Types, JobTypes
  <2> QED BY <1>2, <2>2, <2>3 DEF ForkRecord
<1>3. CASE ForkPosition(d)
  <2>1. /\ job[d].at = "forkPosition" /\ job[d].at \in Busy
        /\ UNCHANGED <<mode, decision, artifact, record, positions, nonceRead, pass, chain>>
    BY <1>3 DEF ForkPosition, Busy, Settling
  <2>2. CASE Fault /\ Retry(d) /\ UNCHANGED forkPositions
    BY <1>1, <2>1, <2>2, Throws DEF Types, JobTypes, database
  <2>3. CASE forkPositions' = [forkPositions EXCEPT ![d] = @ + 1] /\ Goto(d, "forkReady") /\ NoFault
    <3>1. faults' = faults + 0 /\ faults' <= MaxFaults /\ blind' = blind
      BY <1>1, <2>3 DEF Types, FaultTypes, NoFault
    <3>2. May(job[d].at) <= 0 + May("forkReady") /\ Owed(job[d].at) <= 0 + Owed("forkReady")
      BY <2>1 DEF May, Owed, Opening, Unrecorded
    <3>3. "forkReady" \in Busy \cup {"completed"} /\ "forkReady" \notin Opening \cup Unrecorded
      BY DEF Busy, Settling, Opening, Unrecorded
    <3>4. forkPositions' \in [Decisions -> Nat]
      BY <1>1, <2>3 DEF Types, RowTypes
    <3> QED BY <1>1, <2>1, <2>3, <3>1, <3>2, <3>3, <3>4, GoesOn DEF Types, RowTypes, JobTypes
  <2> QED BY <1>3, <2>2, <2>3 DEF ForkPosition
<1>4. CASE ForkReady(d)
  <2>1. /\ job[d].at = "forkReady" /\ job[d].at \in Busy
        /\ UNCHANGED <<mode, artifact, record, positions, forkPositions, nonceRead, pass, chain>>
    BY <1>4 DEF ForkReady, Busy, Settling
  <2>2. CASE Fault /\ Retry(d) /\ UNCHANGED decision
    BY <1>1, <2>1, <2>2, Throws DEF Types, JobTypes, database
  <2>3. CASE decision' = [decision EXCEPT ![d] = "ready"] /\ Goto(d, "publish") /\ NoFault
    <3>1. faults' = faults + 0 /\ faults' <= MaxFaults /\ blind' = blind
      BY <1>1, <2>3 DEF Types, FaultTypes, NoFault
    <3>2. May(job[d].at) <= 0 + May("publish") /\ Owed(job[d].at) <= 0 + Owed("publish")
      BY <2>1 DEF May, Owed, Opening, Unrecorded
    <3>3. "publish" \in Busy \cup {"completed"} /\ "publish" \notin Opening \cup Unrecorded
      BY DEF Busy, Settling, Opening, Unrecorded
    <3>4. decision' \in [Decisions -> {"none", "proposed", "ready", "blocked", "executed"}]
      BY <1>1, <2>3 DEF Types, RowTypes
    <3> QED BY <1>1, <2>1, <2>3, <3>1, <3>2, <3>3, <3>4, GoesOn DEF Types, RowTypes, JobTypes
  <2> QED BY <1>4, <2>2, <2>3 DEF ForkReady
<1> QED BY <1>2, <1>3, <1>4

(* A way out of the Safe is opened: the policy module's transaction is     *)
(* sent, or the proposal posted, with or without an answer.                *)
LEMMA OpenStep ==
  ASSUME NEW d \in Decisions, Inv, ConstantsAssumption,
         NEW step \in {"receipt", "recordSubmitted", "recordProposed"}, Goto(d, step),
         job[d].at \in {"module", "post"},
         NEW f \in {0, 1}, faults' = faults + f, faults' <= MaxFaults, blind' = blind,
         UNCHANGED <<mode, database, nonceRead, pass, executed, safeNonce>>,
         moduleTx' \in [Runs -> {"none", "pending", "executed", "reverted"}],
         \A r \in Runs : r # Run(d) => moduleTx'[r] = moduleTx[r],
         moduleTx'[Run(d)] = moduleTx[Run(d)] \/ job[d].at = "module",
         NEW tx \in Txs, tx[1] = d, posted' \subseteq posted \cup {tx}, posted \subseteq posted',
         moduleTx' = moduleTx \/ posted' = posted,
         step = "receipt" => moduleTx'[Run(d)] # "none",
         step = "recordSubmitted" => nonceRead[d] # NoNonce /\ <<d, nonceRead[d]>> \in posted',
         step = "recordProposed" => f = 1
  PROVE  JobOutcome(d)
<1>1. Types /\ JobInv(d) /\ RunInv(d) /\ Budget(d) /\ ProvenInv(d)
  BY DEF Inv, DecisionInv
<1>2. Run(d) \in Runs /\ job[d].runs \in RunNumbers
  BY <1>1, RunIsRun DEF Busy, Opening
<1>3. /\ job' \in [Decisions -> JobRecord]
      /\ job'[d].at = step /\ job'[d].runs = job[d].runs /\ job'[d].failures = job[d].failures
      /\ \A e \in Decisions : e # d => job'[e] = job[e]
  BY <1>1, GotoIs DEF JobStates, Busy, Unrecorded, Settling
<1>4. /\ faults \in Nat /\ posted' \subseteq Txs
      /\ UNCHANGED <<decision, artifact, record, positions, forkPositions>>
  BY <1>1 DEF Types, FaultTypes, SafeTypes, database
<1>5. /\ record[Run(d)].status = "none" /\ artifact[Run(d)] = "passed"
      /\ job[d].at = "module" => moduleTx[Run(d)] = "none"
  BY <1>1 DEF RunInv, Opening
<1>6. JobInv(d)'
  <2>1. job[d].runs \in Nat /\ job[d].failures \in Nat
    BY <1>1 DEF Types, JobTypes, JobRecord
  <2>2. job[d].runs > 0 /\ job[d].runs <= faults + 1 /\ job[d].failures < Attempts
    BY <1>1 DEF JobInv, Busy, Opening
  <2>3. step \notin {"none", "waiting"}
    OBVIOUS
  <2> QED BY <1>3, <1>4, <2>1, <2>2, <2>3, ConstantsAssumption DEF JobInv
<1>7. RunInv(d)'
  <2>1. \A n \in RunNumbers : n > job[d].runs => <<d, n>> \in Runs /\ <<d, n>> # Run(d)
    BY <1>2 DEF Runs, Run, RunNumbers
  <2>2. \A n \in RunNumbers : n > job'[d].runs => moduleTx'[<<d, n>>] = "none"
    BY <1>1, <1>3, <2>1 DEF RunInv
  <2>3. Run(d)' = Run(d)
    BY <1>3 DEF Run
  <2> QED BY <1>1, <1>3, <1>4, <1>5, <2>2, <2>3 DEF RunInv, Opening, Unrecorded
<1>8. Recorded(d)' = Recorded(d) /\ ProvenRuns(d)' = ProvenRuns(d) /\ ProvenRuns(d) # {}
  BY <1>2, <1>4, <1>5 DEF Recorded, ProvenRuns, Run
<1>9. Cardinality(Sent(d))' + Cardinality(Posted(d))' <= Cardinality(Sent(d)) + Cardinality(Posted(d)) + 1
  <2>1. IsFiniteSet(Sent(d)) /\ IsFiniteSet(Posted(d))
    BY <1>1, FiniteParts DEF Types, SafeTypes
  <2>2. CASE moduleTx' = moduleTx
    <3>1. Posted(d)' \subseteq Posted(d) \cup {tx} /\ Sent(d)' = Sent(d)
      BY <2>2 DEF Posted, Sent
    <3>2. Cardinality(Posted(d)') <= Cardinality(Posted(d)) + 1
      BY <2>1, <3>1, OneMore
    <3> QED BY <1>1, <1>4, <3>1, <3>2, Counts
  <2>3. CASE posted' = posted
    <3>1. Sent(d)' \subseteq Sent(d) \cup {job[d].runs}
      <4>1. ASSUME NEW n \in RunNumbers, n # job[d].runs PROVE moduleTx'[<<d, n>>] = moduleTx[<<d, n>>]
        BY <4>1 DEF Runs, Run
      <4> QED BY <4>1 DEF Sent
    <3>2. Cardinality(Sent(d)') <= Cardinality(Sent(d)) + 1
      BY <2>1, <3>1, OneMore
    <3>3. Posted(d)' = Posted(d)
      BY <2>3 DEF Posted
    <3> QED BY <1>1, <1>4, <3>2, <3>3, Counts
  <2> QED BY <2>2, <2>3
<1>10. Budget(d)'
  <2>1. 1 + May(job[d].at) <= f + May(job'[d].at) /\ 1 + Owed(job[d].at) <= f + 0 + Owed(job'[d].at)
    BY <1>3 DEF May, Owed, Opening, Unrecorded
  <2>2. Cardinality(Recorded(d))' >= Cardinality(Recorded(d)) + 0
    BY <1>1, <1>4, <1>8, Counts
  <2> QED BY <1>1, <1>4, <1>9, <2>1, <2>2, Counts, BudgetStep
<1>11. ProvenInv(d)'
  BY <1>8 DEF ProvenInv
<1>12. RunTypes' /\ JobTypes'
  BY <1>1, <1>3, <1>4 DEF Types, RunTypes, JobTypes
<1>13. SettledKept(Run(d))
  BY <1>5 DEF SettledKept, Settled
<1>14. moduleTx[Run(d)] \in {"executed", "reverted"} => moduleTx'[Run(d)] = moduleTx[Run(d)]
  BY <1>5
<1>15. record'[Run(d)].status = "none"
  BY <1>4, <1>5
<1> QED BY <1>1, <1>3, <1>4, <1>6, <1>7, <1>10, <1>11, <1>12, <1>13, <1>14, <1>15, TouchedStep

LEMMA ModuleSteps ==
  ASSUME NEW d \in Decisions, Inv, ConstantsAssumption,
         SendModuleTx(d) \/ ReadReceipt(d) \/ RecordModuleTx(d)
  PROVE  JobOutcome(d)
<1>1. Types /\ JobInv(d) /\ RunInv(d)
  BY DEF Inv, DecisionInv
<1>2. CASE SendModuleTx(d)
  <2>1. /\ job[d].at = "module" /\ job[d].at \in Busy /\ job[d].at \in Opening
        /\ UNCHANGED <<mode, database, nonceRead, pass, posted, executed, safeNonce, faults, blind>>
    BY <1>2 DEF SendModuleTx, Busy, Opening
  <2>2. faults' = faults + 0 /\ faults' <= MaxFaults /\ blind' = blind
    BY <1>1, <2>1 DEF Types, FaultTypes
  <2>3. CASE moduleTx' = [moduleTx EXCEPT ![Run(d)] = "pending"] /\ Goto(d, "receipt")
    <3>1. Run(d) \in Runs
      BY <1>1, <2>1, RunIsRun
    <3>2. /\ moduleTx' \in [Runs -> {"none", "pending", "executed", "reverted"}]
          /\ \A r \in Runs : r # Run(d) => moduleTx'[r] = moduleTx[r]
          /\ moduleTx'[Run(d)] # "none"
      BY <1>1, <2>3, <3>1 DEF Types, RunTypes
    <3>3. PICK tx \in Txs : tx[1] = d
      <4>1. 0 \in Nonces
        <5>1. Cardinality(Decisions) \in Nat /\ MaxFaults + 1 \in Nat
          BY FS_CardinalityType DEF ConstantsAssumption
        <5>2. Cardinality(Decisions) * (MaxFaults + 1) \in Nat
          BY <5>1
        <5> QED BY <5>2 DEF Nonces
      <4>2. <<d, 0>> \in Txs
        BY <4>1 DEF Txs
      <4> QED BY <4>2
    <3>4. Goto(d, "receipt")
      BY <2>3
    <3>5. posted' \subseteq posted \cup {tx} /\ posted \subseteq posted' /\ posted' = posted
      BY <2>1
    <3> QED BY <2>1, <2>2, <3>2, <3>3, <3>4, <3>5, OpenStep
  <2>4. CASE UNCHANGED moduleTx /\ Goto(d, "nonce")
    <3>1. May(job[d].at) <= 0 + May("nonce") /\ Owed(job[d].at) <= 0 + Owed("nonce")
      BY <2>1 DEF May, Owed, Opening, Unrecorded
    <3>2. "nonce" \in Busy \cup {"completed"}
      BY DEF Busy, Opening
    <3> QED BY <1>1, <2>1, <2>2, <2>4, <3>1, <3>2, GoesOn
            DEF database, chain, Types, RowTypes, JobTypes
  <2> QED BY <1>2, <2>3, <2>4 DEF SendModuleTx
<1>3. CASE ReadReceipt(d)
  <2>1. /\ job[d].at = "receipt" /\ job[d].at \in Busy /\ job[d].at \in Unrecorded
        /\ UNCHANGED <<mode, database, nonceRead, pass, chain>>
    BY <1>3 DEF ReadReceipt, Busy, Unrecorded
  <2>2. CASE moduleTx[Run(d)] # "pending" /\ Goto(d, "moduleRecord") /\ NoFault
    <3>1. faults' = faults + 0 /\ faults' <= MaxFaults /\ blind' = blind
      BY <1>1, <2>2 DEF Types, FaultTypes, NoFault
    <3>2. May(job[d].at) <= 0 + May("moduleRecord") /\ Owed(job[d].at) <= 0 + Owed("moduleRecord")
      BY <2>1 DEF May, Owed, Opening, Unrecorded
    <3>3. "moduleRecord" \in Busy \cup {"completed"}
      BY DEF Busy, Unrecorded
    <3> QED BY <1>1, <2>1, <2>2, <3>1, <3>2, <3>3, GoesOn DEF database, Types, RowTypes, JobTypes
  <2>3. CASE Fault /\ Goto(d, "nonce")
    <3>1. faults' = faults + 1 /\ faults' <= MaxFaults /\ blind' = blind
      BY <1>1, <2>3, ConstantsAssumption DEF Types, FaultTypes, Fault, OneMoreFault
    <3>2. May(job[d].at) <= 1 + May("nonce") /\ Owed(job[d].at) <= 1 + Owed("nonce")
      BY <2>1 DEF May, Owed, Opening, Unrecorded
    <3>3. "nonce" \in Busy \cup {"completed"}
      BY DEF Busy, Opening
    <3> QED BY <1>1, <2>1, <2>3, <3>1, <3>2, <3>3, GoesOn DEF database, Types, RowTypes, JobTypes
  <2> QED BY <1>3, <2>2, <2>3 DEF ReadReceipt
<1>4. CASE RecordModuleTx(d)
  <2>1. /\ job[d].at = "moduleRecord" /\ job[d].at \in Busy /\ job[d].at \in Unrecorded
        /\ UNCHANGED <<mode, decision, artifact, positions, forkPositions, nonceRead, pass, chain>>
    BY <1>4 DEF RecordModuleTx, Busy, Unrecorded
  <2>2. Run(d) \in Runs
    BY <1>1, <2>1, RunIsRun
  <2>3. ASSUME record' = [record EXCEPT ![Run(d)].status = "reconciled"], Goto(d, "executed"), NoFault
        PROVE  JobOutcome(d)
    <3>1. SetStatus(Run(d), "reconciled") /\ Goto(d, "executed") /\ NoFault
      BY <2>3, Zenon DEF SetStatus
    <3>2. /\ record' \in [Runs -> RunRecord] /\ record'[Run(d)].status = "reconciled"
          /\ \A r \in Runs : r # Run(d) => record'[r] = record[r]
      BY <1>1, <2>2, <3>1, StatusIs
    <3>3. "executed" \in Settling \ {"forkRecord", "recordProposed"} /\ "reconciled" \in Settled
      BY DEF Settling, Settled
    <3>4. moduleTx[Run(d)] \in {"executed", "reverted"}
      <4>1. moduleTx[Run(d)] # "none" /\ moduleTx[Run(d)] # "pending"
        BY <1>1, <2>1 DEF RunInv
      <4> QED BY <1>1, <2>2, <4>1 DEF Types, RunTypes
    <3>5. nonceRead' \in [Decisions -> Nonces \cup {NoNonce}]
          /\ \A e \in Decisions : e # d => nonceRead'[e] = nonceRead[e]
      BY <1>1, <2>1 DEF Types, JobTypes
    <3> QED BY <2>1, <3>1, <3>2, <3>3, <3>4, <3>5, WriteStep
  <2>4. CASE Fault /\ Goto(d, "publish") /\ UNCHANGED record
    <3>1. faults' = faults + 1 /\ faults' <= MaxFaults /\ blind' = blind
      BY <1>1, <2>4, ConstantsAssumption DEF Types, FaultTypes, Fault, OneMoreFault
    <3>2. May(job[d].at) <= 1 + May("publish") /\ Owed(job[d].at) <= 1 + Owed("publish")
      BY <2>1 DEF May, Owed, Opening, Unrecorded
    <3>3. "publish" \in Busy \cup {"completed"} /\ "publish" \notin Opening \cup Unrecorded
      BY DEF Busy, Settling, Opening, Unrecorded
    <3> QED BY <1>1, <2>1, <2>4, <3>1, <3>2, <3>3, GoesOn DEF Types, RowTypes, JobTypes
  <2> QED BY <1>4, <2>3, <2>4 DEF RecordModuleTx
<1> QED BY <1>2, <1>3, <1>4

LEMMA ProposalSteps ==
  ASSUME NEW d \in Decisions, Inv, ConstantsAssumption,
         ReadSafeNonce(d) \/ PostProposal(d) \/ RecordProposal(d)
  PROVE  JobOutcome(d)
<1>1. Types /\ JobInv(d) /\ RunInv(d)
  BY DEF Inv, DecisionInv
<1>2. ASSUME NoFault PROVE faults' = faults + 0 /\ faults' <= MaxFaults /\ blind' = blind
  BY <1>1, <1>2 DEF Types, FaultTypes, NoFault
<1>3. ASSUME Fault PROVE faults' = faults + 1 /\ faults' <= MaxFaults /\ blind' = blind
  BY <1>1, <1>3, ConstantsAssumption DEF Types, FaultTypes, Fault, OneMoreFault
<1>4. CASE ReadSafeNonce(d)
  <2>1. /\ job[d].at = "nonce" /\ job[d].at \in Busy /\ job[d].at \in Opening
        /\ UNCHANGED <<mode, database, pass, chain>>
    BY <1>4 DEF ReadSafeNonce, Busy, Opening
  <2>2. CASE nonceRead' = [nonceRead EXCEPT ![d] = safeNonce] /\ Goto(d, "post") /\ NoFault
    <3>1. /\ nonceRead' \in [Decisions -> Nonces \cup {NoNonce}]
          /\ \A e \in Decisions : e # d => nonceRead'[e] = nonceRead[e]
          /\ nonceRead'[d] = safeNonce
      BY <1>1, <2>2 DEF Types, JobTypes, SafeTypes
    <3>2. nonceRead'[d] # NoNonce
      BY <1>1, <3>1 DEF Types, SafeTypes, Nonces, NoNonce
    <3>3. May(job[d].at) <= 0 + May("post") /\ Owed(job[d].at) <= 0 + Owed("post")
      BY <2>1 DEF May, Owed, Opening, Unrecorded
    <3>4. "post" \in Busy \cup {"completed"}
      BY DEF Busy, Opening
    <3> QED BY <1>1, <1>2, <2>1, <2>2, <3>1, <3>2, <3>3, <3>4, GoesOn DEF database, Types, RowTypes
  <2>3. CASE Fault /\ Goto(d, "recordProposed") /\ UNCHANGED nonceRead
    <3>1. May(job[d].at) <= 1 + May("recordProposed") /\ Owed(job[d].at) <= 1 + Owed("recordProposed")
      BY <2>1 DEF May, Owed, Opening, Unrecorded
    <3>2. "recordProposed" \in Busy \cup {"completed"} /\ "recordProposed" \notin Opening \cup Unrecorded
      BY DEF Busy, Settling, Opening, Unrecorded
    <3> QED BY <1>1, <1>3, <2>1, <2>3, <3>1, <3>2, GoesOn DEF database, Types, RowTypes, JobTypes
  <2> QED BY <1>4, <2>2, <2>3 DEF ReadSafeNonce
<1>5. CASE PostProposal(d)
  <2>1. /\ job[d].at = "post" /\ job[d].at \in Opening
        /\ UNCHANGED <<mode, database, nonceRead, pass, executed, safeNonce>> /\ moduleTx' = moduleTx
    BY <1>5 DEF PostProposal, Opening
  <2>2. nonceRead[d] \in Nonces /\ nonceRead[d] # NoNonce
    BY <1>1, <2>1 DEF RunInv, Types, JobTypes
  <2>3. PICK tx \in Txs : tx = <<d, nonceRead[d]>>
    BY <2>2 DEF Txs
  <2>4. tx[1] = d
    BY <2>3
  <2>5. /\ moduleTx' \in [Runs -> {"none", "pending", "executed", "reverted"}]
        /\ \A r \in Runs : r # Run(d) => moduleTx'[r] = moduleTx[r]
        /\ moduleTx'[Run(d)] = moduleTx[Run(d)]
    BY <1>1, <2>1 DEF Types, RunTypes
  <2>6. CASE posted' = posted \cup {<<d, nonceRead[d]>>} /\ Goto(d, "recordSubmitted") /\ NoFault
    <3>1. posted' \subseteq posted \cup {tx} /\ posted \subseteq posted' /\ <<d, nonceRead[d]>> \in posted'
      BY <2>3, <2>6
    <3>2. Goto(d, "recordSubmitted")
      BY <2>6
    <3> QED BY <1>2, <2>1, <2>2, <2>4, <2>5, <2>6, <3>1, <3>2, OpenStep
  <2>7. CASE /\ Fault /\ posted' \in {posted, posted \cup {<<d, nonceRead[d]>>}}
             /\ Goto(d, "recordProposed")
    <3>1. posted' \subseteq posted \cup {tx} /\ posted \subseteq posted'
      BY <2>3, <2>7
    <3>2. Goto(d, "recordProposed")
      BY <2>7
    <3> QED BY <1>3, <2>1, <2>4, <2>5, <2>7, <3>1, <3>2, OpenStep
  <2> QED BY <1>5, <2>6, <2>7 DEF PostProposal
<1>6. CASE RecordProposal(d)
  <2>1. /\ job[d].at \in {"recordProposed", "recordSubmitted"} /\ job[d].at \in Busy
        /\ UNCHANGED <<mode, decision, artifact, positions, forkPositions, pass, chain>>
        /\ nonceRead' = [nonceRead EXCEPT ![d] = NoNonce]
    BY <1>6 DEF RecordProposal, Busy, Settling, Unrecorded
  <2>2. /\ nonceRead' \in [Decisions -> Nonces \cup {NoNonce}]
        /\ \A e \in Decisions : e # d => nonceRead'[e] = nonceRead[e]
    BY <1>1, <2>1 DEF Types, JobTypes
  <2>3. CASE Fault /\ Retry(d) /\ UNCHANGED record
    BY <2>1, <2>2, <2>3, Throws DEF database
  <2>4. CASE /\ record' = [record EXCEPT ![Run(d)] =
                  IF job[d].at = "recordSubmitted"
                  THEN [status |-> "submitted", tx |-> <<d, nonceRead[d]>>]
                  ELSE [status |-> "proposed", tx |-> NoTx]]
             /\ Goto(d, "ready") /\ NoFault
    <3>1. Run(d) \in Runs
      BY <1>1, <2>1, RunIsRun
    <3>2. job[d].at = "recordSubmitted" =>
            /\ <<d, nonceRead[d]>> \in posted /\ <<d, nonceRead[d]>> \in Txs
      BY <1>1 DEF RunInv, Types, SafeTypes
    <3>3. PICK next \in RunRecord :
            next = IF job[d].at = "recordSubmitted"
                   THEN [status |-> "submitted", tx |-> <<d, nonceRead[d]>>]
                   ELSE [status |-> "proposed", tx |-> NoTx]
      <4>1. CASE job[d].at = "recordSubmitted"
        <5>1. [status |-> "submitted", tx |-> <<d, nonceRead[d]>>] \in RunRecord
          BY <3>2, <4>1 DEF RunRecord
        <5> QED BY <4>1, <5>1
      <4>2. CASE job[d].at # "recordSubmitted"
        <5>1. [status |-> "proposed", tx |-> NoTx] \in RunRecord
          BY DEF RunRecord
        <5> QED BY <4>2, <5>1
      <4> QED BY <4>1, <4>2
    <3>4. record' = [record EXCEPT ![Run(d)] = next]
      BY <2>4, <3>3, Zenon
    <3>5. /\ record' \in [Runs -> RunRecord] /\ record'[Run(d)] = next
          /\ \A r \in Runs : r # Run(d) => record'[r] = record[r]
      BY <1>1, <3>1, <3>4 DEF Types, RunTypes
    <3>6. /\ job[d].at = "recordSubmitted" => next.status = "submitted" /\ next.tx \in posted
          /\ job[d].at # "recordSubmitted" => next.status = "proposed"
      BY <3>2, <3>3
    <3>7. "ready" \in Settling \ {"forkRecord", "recordProposed"} /\ Goto(d, "ready") /\ NoFault
      BY <2>4 DEF Settling
    <3>8. job[d].at \in Unrecorded => job[d].at = "recordSubmitted"
      BY <2>1 DEF Unrecorded
    <3> HIDE DEF NoTx
    <3> QED BY <2>1, <2>2, <3>5, <3>6, <3>7, <3>8, WriteStep DEF Settled
  <2> QED BY <1>6, <2>3, <2>4 DEF RecordProposal
<1> QED BY <1>4, <1>5, <1>6

LEMMA EndSteps ==
  ASSUME NEW d \in Decisions, Inv, ConstantsAssumption, MarkDecision(d) \/ Publish(d)
  PROVE  JobOutcome(d)
<1>1. Types /\ JobInv(d) /\ RunInv(d)
  BY DEF Inv, DecisionInv
<1>2. CASE MarkDecision(d)
  <2>1. /\ job[d].at \in {"block", "ready", "executed"} /\ job[d].at \in Busy
        /\ job[d].at \in Settling /\ Goto(d, "publish")
        /\ UNCHANGED <<mode, artifact, record, positions, forkPositions, nonceRead, pass, chain>>
    BY <1>2 DEF MarkDecision, Busy, Settling
  <2>2. PICK f \in {0, 1} : faults' = faults + f /\ faults' <= MaxFaults /\ blind' = blind
    <3>1. CASE NoFault
      BY <1>1, <3>1 DEF NoFault, Types, FaultTypes
    <3>2. CASE Fault
      BY <1>1, <3>2, ConstantsAssumption DEF Types, FaultTypes, Fault, OneMoreFault
    <3> QED BY <1>2, <3>1, <3>2 DEF MarkDecision
  <2>3. decision' \in [Decisions -> {"none", "proposed", "ready", "blocked", "executed"}]
    BY <1>1, <1>2 DEF MarkDecision, Types, RowTypes
  <2>4. May(job[d].at) <= f + May("publish") /\ Owed(job[d].at) <= f + Owed("publish")
    BY <2>1 DEF May, Owed, Opening, Unrecorded
  <2>5. "publish" \in Busy \cup {"completed"} /\ "publish" \notin Opening \cup Unrecorded
    BY DEF Busy, Settling, Opening, Unrecorded
  <2> QED BY <1>1, <2>1, <2>2, <2>3, <2>4, <2>5, GoesOn DEF Types, RowTypes, JobTypes
<1>3. CASE Publish(d)
  <2>1. /\ job[d].at = "publish" /\ job[d].at \in Busy
        /\ UNCHANGED <<mode, database, pass, chain>> /\ UNCHANGED nonceRead
    BY <1>3 DEF Publish, Busy, Settling
  <2>2. CASE Fault /\ Retry(d)
    BY <1>1, <2>1, <2>2, Throws DEF Types, JobTypes
  <2>3. CASE Goto(d, "completed") /\ NoFault
    <3>1. faults' = faults + 0 /\ faults' <= MaxFaults /\ blind' = blind
      BY <1>1, <2>3 DEF Types, FaultTypes, NoFault
    <3>2. May(job[d].at) <= 0 + May("completed") /\ Owed(job[d].at) <= 0 + Owed("completed")
      BY <2>1 DEF May, Owed, Opening, Unrecorded
    <3>3. "completed" \in Busy \cup {"completed"} /\ "completed" \notin Opening \cup Unrecorded
      BY DEF Opening, Unrecorded
    <3> QED BY <1>1, <2>1, <2>3, <3>1, <3>2, <3>3, GoesOn DEF database, Types, RowTypes, JobTypes
  <2> QED BY <1>3, <2>2, <2>3 DEF Publish
<1> QED BY <1>2, <1>3

(* Every step of a job keeps the invariant. *)
LEMMA JobKeepsInv ==
  ASSUME NEW d \in Decisions, Inv, ConstantsAssumption,
         Enqueue(d) \/ StartJob(d) \/ JobStep(d)
  PROVE  Inv'
<1>1. JobOutcome(d)
  BY EnqueueStep, StartStep, SimulateStep, RouteStep, ForkSteps, ModuleSteps, ProposalSteps,
     EndSteps DEF JobStep
<1>2. Types' /\ NonceInv' /\ \A r \in Runs : RecordInv(r)'
  BY <1>1 DEF JobOutcome
<1>3. ASSUME NEW e \in Decisions PROVE DecisionInv(e)'
  <2>1. CASE e = d
    BY <1>1, <2>1 DEF JobOutcome
  <2>2. CASE e # d
    BY <1>1, <1>3, <2>2, QuietKeeps DEF JobOutcome, Inv
  <2> QED BY <2>1, <2>2
<1>4. StartupInv' /\ (\A p \in Callers : PassInv(p)') /\ \A t \in Txs : PositionInv(t)'
  BY <1>1, SteadyKeeps DEF JobOutcome, Inv
<1> QED BY <1>2, <1>3, <1>4 DEF Inv

-----------------------------------------------------------------------------
(* The chain, the owners and the crash *)

(* The transactions of all decisions together, one injection for each.     *)
LEMMA PostedBounded ==
  ASSUME ConstantsAssumption, Types, \A d \in Decisions : Budget(d)
  PROVE  /\ IsFiniteSet(posted) /\ Cardinality(posted) \in Nat
         /\ Cardinality(posted) <= Cardinality(Decisions) * (MaxFaults + 1)
<1> DEFINE K == MaxFaults + 1
           S == Decisions \X (1 .. K)
<1>1. K \in Nat /\ IsFiniteSet(Decisions)
  BY DEF ConstantsAssumption
<1>2. ASSUME NEW d \in Decisions
      PROVE  \E g \in [Posted(d) -> 1 .. K] : \A a, b \in Posted(d) : g[a] = g[b] => a = b
  <2>1. IsFiniteSet(Posted(d)) /\ Cardinality(Posted(d)) \in Nat /\ Cardinality(Sent(d)) \in Nat
    BY FiniteParts DEF Types, SafeTypes
  <2>2. faults \in Nat /\ faults <= MaxFaults /\ MaxFaults \in Nat
    BY ConstantsAssumption DEF Types, FaultTypes, ConstantsAssumption
  <2>3. Cardinality(Posted(d)) <= K
    BY <2>1, <2>2 DEF Budget, May
  <2>4. PICK c \in Nat : c = Cardinality(Posted(d))
    BY <2>1
  <2>5. IsFiniteSet(1 .. c) /\ Cardinality(1 .. c) = c
    BY FS_Interval
  <2>6. ExistsBijection(Posted(d), 1 .. c)
    BY <2>1, <2>4, <2>5, FS_SameCardinalityBij
  <2>7. PICK g \in [Posted(d) -> 1 .. c] : \A a, b \in Posted(d) : g[a] = g[b] => a = b
    BY <2>6 DEF ExistsBijection, Bijection, Injection, IsInjective
  <2>8. g \in [Posted(d) -> 1 .. K]
    BY <1>1, <2>3, <2>4, <2>7
  <2> QED BY <2>7, <2>8
<1> DEFINE G == [d \in Decisions |->
                   CHOOSE g \in [Posted(d) -> 1 .. K] : \A a, b \in Posted(d) : g[a] = g[b] => a = b]
           H == [tx \in posted |-> <<tx[1], G[tx[1]][tx]>>]
<1>3. ASSUME NEW d \in Decisions
      PROVE  /\ G[d] \in [Posted(d) -> 1 .. K]
             /\ \A a, b \in Posted(d) : G[d][a] = G[d][b] => a = b
  BY <1>2
<1>4. \A tx \in posted : tx[1] \in Decisions /\ tx \in Posted(tx[1])
  BY DEF Types, SafeTypes, Txs, Posted
<1> HIDE DEF G, K
<1>5. H \in [posted -> S]
  BY <1>3, <1>4
<1>6. \A a, b \in posted : H[a] = H[b] => a = b
  <2>1. ASSUME NEW a \in posted, NEW b \in posted, H[a] = H[b] PROVE a = b
    <3>1. a[1] = b[1] /\ G[a[1]][a] = G[b[1]][b]
      BY <2>1
    <3> QED BY <1>3, <1>4, <3>1
  <2> QED BY <2>1
<1>7. IsFiniteSet(1 .. K) /\ Cardinality(1 .. K) = K
  BY <1>1, FS_Interval
<1>8. IsFiniteSet(S) /\ Cardinality(S) = Cardinality(Decisions) * K
  BY <1>1, <1>7, FS_Product
<1>9. H \in Injection(posted, S)
  BY <1>5, <1>6 DEF Injection, IsInjective
<1>10. IsFiniteSet(posted) /\ Cardinality(posted) <= Cardinality(S)
  BY <1>8, <1>9, FS_Injection
<1> QED BY <1>8, <1>10, FS_CardinalityType DEF K

LEMMA MineKeepsInv ==
  ASSUME NEW r \in Runs, Inv, ConstantsAssumption, MineModuleTx(r)
  PROVE  Inv'
<1>1. Types
  BY DEF Inv
<1>2. PICK fate \in {"executed", "reverted"} : moduleTx' = [moduleTx EXCEPT ![r] = fate]
  BY DEF MineModuleTx
<1>3. /\ moduleTx[r] = "pending"
      /\ UNCHANGED <<mode, database, job, nonceRead, pass, posted, executed, safeNonce, faults, blind>>
  BY DEF MineModuleTx
<1>4. moduleTx' \in [Runs -> {"none", "pending", "executed", "reverted"}]
      /\ \A q \in Runs : SameTx(q)
  BY <1>1, <1>2, <1>3 DEF Types, RunTypes, SameTx
<1>5. Types'
  BY <1>1, <1>3, <1>4
     DEF Types, RowTypes, RunTypes, JobTypes, PassTypes, SafeTypes, FaultTypes, database
<1>6. ASSUME NEW e \in Decisions PROVE DecisionInv(e)'
  <2>1. Quiet(e)
    BY <1>1, <1>3, <1>4 DEF Quiet, SameRecord, Posted, database, Runs, Types, FaultTypes
  <2> QED BY <1>1, <1>5, <2>1, QuietKeeps DEF Inv
<1>7. Steady
  BY <1>1, <1>3, <1>4 DEF Steady, SettledKept, SameTx, database, Types, FaultTypes
<1>8. StartupInv' /\ (\A p \in Callers : PassInv(p)') /\ \A t \in Txs : PositionInv(t)'
  BY <1>1, <1>5, <1>7, SteadyKeeps DEF Inv
<1>9. NonceInv' /\ \A q \in Runs : RecordInv(q)'
  BY <1>3, <1>7, RecordKept DEF Inv, NonceInv, database
<1> QED BY <1>5, <1>6, <1>8, <1>9 DEF Inv

LEMMA ExecuteKeepsInv ==
  ASSUME NEW tx \in posted, Inv, ConstantsAssumption, ExecuteProposal(tx)
  PROVE  Inv'
<1>1. Types /\ NonceInv /\ \A d \in Decisions : Budget(d)
  BY DEF Inv, DecisionInv
<1>2. /\ tx[2] = safeNonce /\ executed' = executed \cup {tx} /\ safeNonce' = safeNonce + 1
      /\ UNCHANGED <<mode, database, job, nonceRead, pass, moduleTx, posted, faults, blind>>
  BY DEF ExecuteProposal
<1>3. IsFiniteSet(executed) /\ executed \subseteq posted /\ safeNonce \in Nat
  BY <1>1, PostedBounded, FS_Subset DEF Types, SafeTypes, Nonces
<1>4. tx \notin executed
  BY <1>1, <1>2, <1>3 DEF NonceInv
<1>5. Cardinality(executed') = safeNonce'
  BY <1>1, <1>2, <1>3, <1>4, FS_AddElement DEF NonceInv
<1>6. safeNonce' \in Nonces
  <2>1. executed' \subseteq posted
    BY <1>2, <1>3
  <2>2. Cardinality(executed') <= Cardinality(posted)
    BY <1>1, <2>1, PostedBounded, FS_Subset
  <2>3. PICK bound : bound = Cardinality(Decisions) * (MaxFaults + 1)
    OBVIOUS
  <2>4. bound \in Nat
    <3>1. Cardinality(Decisions) \in Nat /\ MaxFaults + 1 \in Nat
      BY FS_CardinalityType DEF ConstantsAssumption
    <3> QED BY <2>3, <3>1
  <2>5. Cardinality(posted) <= bound /\ Cardinality(posted) \in Nat
    BY <1>1, <2>3, PostedBounded
  <2>6. safeNonce' \in 0 .. bound
    BY <1>2, <1>3, <1>5, <2>2, <2>4, <2>5
  <2> QED BY <2>3, <2>6 DEF Nonces
<1>7. Types'
  BY <1>1, <1>2, <1>6
     DEF Types, RowTypes, RunTypes, JobTypes, PassTypes, SafeTypes, FaultTypes, database
<1>8. ASSUME NEW e \in Decisions PROVE DecisionInv(e)'
  <2>1. Quiet(e)
    BY <1>1, <1>2 DEF Quiet, SameRecord, SameTx, Posted, database, Runs, Types, FaultTypes
  <2> QED BY <1>1, <1>7, <2>1, QuietKeeps DEF Inv
<1>9. Steady
  BY <1>1, <1>2 DEF Steady, SettledKept, database, Types, FaultTypes
<1>10. StartupInv' /\ (\A p \in Callers : PassInv(p)') /\ \A t \in Txs : PositionInv(t)'
  BY <1>1, <1>7, <1>9, SteadyKeeps DEF Inv
<1>11. NonceInv' /\ \A q \in Runs : RecordInv(q)'
  <2>1. NonceInv'
    <3>1. ASSUME NEW t \in executed' PROVE t[2] < safeNonce'
      <4>1. CASE t = tx
        BY <1>2, <1>3, <4>1
      <4>2. CASE t \in executed
        <5>1. t \in Txs /\ t[2] \in Nat
          BY <1>1, <1>3, <4>2 DEF Types, SafeTypes, Txs, Nonces
        <5> QED BY <1>1, <1>2, <1>3, <4>2, <5>1 DEF NonceInv
      <4> QED BY <1>2, <4>1, <4>2
    <3> QED BY <1>5, <3>1 DEF NonceInv
  <2> QED BY <1>2, <1>9, <2>1, RecordKept DEF Inv, database
<1> QED BY <1>7, <1>8, <1>10, <1>11 DEF Inv

LEMMA RestartKeepsInv ==
  ASSUME Inv, ConstantsAssumption, ExecutorRestarts
  PROVE  Inv'
<1>1. Types
  BY DEF Inv
<1>2. /\ faults' = faults + 1 /\ blind' = blind + 1 /\ faults < MaxFaults
      /\ UNCHANGED <<mode, database, nonceRead, chain>>
      /\ job' = [d \in Decisions |-> IF d \in Active THEN [job[d] EXCEPT !.at = "waiting"] ELSE job[d]]
      /\ pass' = [p \in Callers |-> [IdlePass EXCEPT !.at = IF p = "startup" THEN "boot" ELSE "idle"]]
  BY DEF ExecutorRestarts, BlindFault, OneMoreFault
<1>3. faults \in Nat /\ blind \in Nat /\ blind <= faults /\ MaxFaults \in Nat
  BY <1>1 DEF Types, FaultTypes, ConstantsAssumption
<1>4. ASSUME NEW d \in Decisions
      PROVE  /\ job'[d] \in JobRecord /\ job'[d].runs = job[d].runs /\ job'[d].failures = job[d].failures
             /\ \/ job'[d] = job[d] /\ d \notin Active
                \/ job'[d].at = "waiting" /\ d \in Active
  <2>1. PICK seen \in JobRecord : seen = job[d]
    BY <1>1 DEF Types, JobTypes
  <2>2. job'[d] = IF d \in Active THEN [seen EXCEPT !.at = "waiting"] ELSE seen
    BY <1>2, <2>1, Zenon
  <2>3. [seen EXCEPT !.at = "waiting"] = [at |-> "waiting", runs |-> seen.runs, failures |-> seen.failures]
    BY DEF JobRecord
  <2>4. "waiting" \in JobStates
    BY DEF JobStates, Ended
  <2> QED BY <2>1, <2>2, <2>3, <2>4 DEF JobRecord
<1>5. ASSUME NEW p \in Callers
      PROVE  /\ pass'[p] \in PassRecord /\ pass'[p].at \in {"boot", "idle"}
             /\ pass'[p].todo = {}
  <2>1. PICK step \in {"boot", "idle"} : step = IF p = "startup" THEN "boot" ELSE "idle"
    OBVIOUS
  <2>2. pass'[p] = [IdlePass EXCEPT !.at = step]
    BY <1>2, <2>1, Zenon
  <2>3. [IdlePass EXCEPT !.at = step] = [at |-> step, todo |-> {}, current |-> NoTx]
    BY DEF IdlePass
  <2>4. [at |-> step, todo |-> {}, current |-> NoTx] \in PassRecord
    BY DEF PassRecord, PassStates
  <2> QED BY <2>2, <2>3, <2>4
<1>6. Types'
  <2>1. JobTypes'
    <3>1. job' \in [Decisions -> JobRecord]
      BY <1>2, <1>4
    <3> QED BY <1>1, <1>2, <3>1 DEF Types, JobTypes
  <2>2. PassTypes'
    <3>1. ASSUME NEW p \in Callers PROVE pass'[p] \in PassRecord
      BY <1>5
    <3> QED BY <1>2, <3>1 DEF PassTypes
  <2>3. FaultTypes'
    BY <1>2, <1>3 DEF FaultTypes
  <2> QED BY <1>1, <1>2, <2>1, <2>2, <2>3 DEF Types, RowTypes, RunTypes, SafeTypes, database, chain
<1>7. ASSUME NEW d \in Decisions PROVE DecisionInv(d)'
  <2>1. DecisionInv(d)
    BY DEF Inv
  <2>2. CASE job'[d] = job[d] /\ d \notin Active
    <3>1. Quiet(d)
      BY <1>2, <1>3, <2>2 DEF Quiet, SameRecord, SameTx, Posted, database, chain
    <3> QED BY <1>1, <1>6, <2>1, <3>1, QuietKeeps
  <2>3. CASE job'[d].at = "waiting" /\ d \in Active
    <3>1. job[d].at \in Busy /\ job[d].runs \in Nat /\ job[d].failures \in Nat
      BY <1>1, <2>3 DEF Active, Types, JobTypes, JobRecord, JobStates
    <3>2. JobInv(d)'
      <4>1. /\ job[d].runs > 0 /\ job[d].runs <= faults + 1 /\ job[d].failures < Attempts
        BY <2>1, <3>1 DEF DecisionInv, JobInv
      <4>2. job'[d].at \notin Busy \cup {"none"}
        BY <2>3 DEF Busy, Opening, Unrecorded, Settling
      <4>3. job'[d].runs = job[d].runs /\ job'[d].failures = job[d].failures /\ Attempts \in Nat
        BY <1>4 DEF ConstantsAssumption
      <4>4. faults' = faults + 1
        BY <1>2
      <4> QED BY <1>3, <2>3, <3>1, <4>1, <4>2, <4>3, <4>4 DEF JobInv
    <3>3. RunInv(d)'
      BY <1>2, <1>4, <2>1, <2>3 DEF DecisionInv, RunInv, Opening, Unrecorded, database, chain
    <3>4. /\ Sent(d)' = Sent(d) /\ Posted(d)' = Posted(d) /\ Recorded(d)' = Recorded(d)
          /\ ProvenRuns(d)' = ProvenRuns(d) /\ posted' \subseteq Txs
      BY <1>1, <1>2 DEF Sent, Posted, Recorded, ProvenRuns, database, chain, Types, SafeTypes
    <3>5. Budget(d)'
      <4>1. 0 + May(job[d].at) <= 1 + May(job'[d].at) /\ 0 + Owed(job[d].at) <= 1 + 0 + Owed(job'[d].at)
        BY DEF May, Owed
      <4> QED BY <1>1, <1>2, <1>3, <2>1, <3>4, <4>1, Counts, BudgetStep DEF DecisionInv
    <3>6. ProvenInv(d)'
      BY <2>1, <3>4 DEF DecisionInv, ProvenInv
    <3> QED BY <3>2, <3>3, <3>5, <3>6 DEF DecisionInv
  <2> QED BY <1>4, <2>2, <2>3
<1>8. ASSUME NEW t \in Txs PROVE PositionInv(t)'
  <2>1. ASSUME NEW p \in Callers PROVE Making(p, t)' = 0
    BY <1>5 DEF Making, Creates
  <2>2. Making("worker", t)' = 0 /\ Making("startup", t)' = 0
    BY <2>1 DEF Callers
  <2>3. Making("worker", t) \in Nat /\ Making("startup", t) \in Nat /\ positions[t] \in Nat
    BY <1>1 DEF Making, Types, RowTypes
  <2>4. PositionInv(t)
    BY DEF Inv
  <2> QED BY <1>2, <1>3, <2>2, <2>3, <2>4 DEF PositionInv, database, chain
<1>9. ASSUME NEW p \in Callers PROVE PassInv(p)'
  BY <1>5 DEF PassInv
<1>10. StartupInv'
  BY <1>2, <1>3 DEF StartupInv
<1>11. NonceInv' /\ \A r \in Runs : RecordInv(r)'
  BY <1>2 DEF Inv, NonceInv, RecordInv, database, chain
<1> QED BY <1>6, <1>7, <1>8, <1>9, <1>10, <1>11 DEF Inv

-----------------------------------------------------------------------------
(* Reconciliation *)

LEMMA PassGotoIs ==
  ASSUME NEW p \in Callers, NEW step \in PassStates, Types, PassGoto(p, step)
  PROVE  /\ pass' \in [Callers -> PassRecord]
         /\ pass'[p].at = step /\ pass'[p].todo = pass[p].todo /\ pass'[p].current = pass[p].current
         /\ \A q \in Callers : q # p => pass'[q] = pass[q]
<1>1. pass \in [Callers -> PassRecord]
  BY DEF Types, PassTypes
<1>2. PICK seen \in PassRecord : seen = pass[p]
  BY <1>1
<1>3. pass' = [pass EXCEPT ![p] = [seen EXCEPT !.at = step]]
  BY <1>2, Zenon DEF PassGoto
<1>4. [seen EXCEPT !.at = step] = [at |-> step, todo |-> seen.todo, current |-> seen.current]
  BY DEF PassRecord
<1>5. PICK next \in PassRecord : next = [at |-> step, todo |-> seen.todo, current |-> seen.current]
  BY DEF PassRecord
<1>6. pass' = [pass EXCEPT ![p] = next]
  BY <1>3, <1>4, <1>5, Zenon
<1> QED BY <1>1, <1>2, <1>5, <1>6

LEMMA NextRecordIs ==
  ASSUME NEW p \in Callers, Types, NextRecord(p)
  PROVE  /\ pass' \in [Callers -> PassRecord]
         /\ pass'[p].at \in {"idle", "next"} /\ pass'[p].todo \subseteq pass[p].todo
         /\ \A q \in Callers : q # p => pass'[q] = pass[q]
<1>1. pass \in [Callers -> PassRecord]
  BY DEF Types, PassTypes
<1>2. PICK seen \in PassRecord : seen = pass[p]
  BY <1>1
<1>3. pass' = [pass EXCEPT ![p] = IF seen.todo = {} THEN IdlePass ELSE [seen EXCEPT !.at = "next"]]
  BY <1>2, Zenon DEF NextRecord
<1>4. [seen EXCEPT !.at = "next"] = [at |-> "next", todo |-> seen.todo, current |-> seen.current]
  BY DEF PassRecord
<1>5. PICK next \in PassRecord : next = [at |-> "next", todo |-> seen.todo, current |-> seen.current]
  BY DEF PassRecord, PassStates
<1>6. IdlePass \in PassRecord /\ IdlePass.at = "idle" /\ IdlePass.todo = {}
  BY DEF IdlePass, PassRecord, PassStates
<1>7. PICK then \in PassRecord : then = IF seen.todo = {} THEN IdlePass ELSE next
  BY <1>6
<1>8. pass' = [pass EXCEPT ![p] = then]
  BY <1>3, <1>4, <1>5, <1>7, Zenon
<1> QED BY <1>1, <1>2, <1>5, <1>6, <1>7, <1>8

(* A step of one pass: the other pass and the jobs find what they left.    *)
LEMMA PassStepKeeps ==
  ASSUME NEW p \in Callers, Inv, ConstantsAssumption,
         UNCHANGED <<mode, artifact, forkPositions, job, nonceRead, chain>>,
         decision' \in [Decisions -> {"none", "proposed", "ready", "blocked", "executed"}],
         positions' \in [Txs -> Nat],
         record' \in [Runs -> RunRecord],
         \A r \in Runs : SameRecord(r),
         \A r \in Runs : record'[r].status = "submitted" => record[r].status = "submitted",
         \A r \in Runs : record'[r].status = "reconciled" =>
           record[r].status = "reconciled" \/ record[r].tx \in executed,
         pass' \in [Callers -> PassRecord],
         \A q \in Callers : q # p => pass'[q] = pass[q],
         FaultTypes', faults <= faults', blind <= blind',
         p = "worker" \/ pass[p].at # "idle",
         PassInv(p)',
         \A t \in Txs :
           /\ positions'[t] > 0 => t \in executed
           /\ \/ positions'[t] + Making(p, t)' + blind <= positions[t] + Making(p, t) + blind'
              \/ positions'[t] = 0
  PROVE  Inv'
<1>1. Types /\ StartupInv /\ NonceInv
  BY DEF Inv
<1>2. UNCHANGED <<moduleTx, posted, executed, safeNonce>>
  BY DEF chain
<1>3. Types'
  BY <1>1, <1>2 DEF Types, RowTypes, RunTypes, JobTypes, PassTypes, SafeTypes
<1>4. faults \in Nat /\ blind \in Nat /\ blind' \in Nat
  BY <1>1, <1>3 DEF Types, FaultTypes
<1>5. ASSUME NEW e \in Decisions PROVE DecisionInv(e)'
  <2>1. \A n \in RunNumbers : <<e, n>> \in Runs
    BY DEF Runs
  <2>2. Quiet(e)
    BY <1>2, <2>1 DEF Quiet, SameTx, Posted
  <2> QED BY <1>1, <1>3, <2>2, QuietKeeps DEF Inv
<1>6. NonceInv'
  BY <1>1, <1>2 DEF NonceInv
<1>7. ASSUME NEW r \in Runs PROVE RecordInv(r)'
  <2>1. RecordInv(r) /\ SameRecord(r)
    BY DEF Inv
  <2> QED BY <1>2, <2>1 DEF RecordInv, SameRecord
<1>8. ASSUME NEW q \in Callers PROVE PassInv(q)'
  <2>1. CASE q = p
    BY <2>1
  <2>2. CASE q # p
    <3>1. pass'[q] = pass[q] /\ PassInv(q) /\ pass[q].todo \subseteq Runs
      BY <1>1, <2>2 DEF Inv, Types, PassTypes, PassRecord
    <3>2. \A r \in Runs : /\ record'[r].tx = record[r].tx
                          /\ record[r].status \in Settled => record'[r].status \in Settled
      BY DEF SameRecord
    <3> QED BY <1>2, <3>1, <3>2 DEF PassInv
  <2> QED BY <2>1, <2>2
<1>9. StartupInv'
  BY <1>1, <1>4 DEF StartupInv, Callers
<1>10. ASSUME NEW t \in Txs PROVE PositionInv(t)'
  <2>1. \A q \in Callers : Making(q, t) \in {0, 1} /\ Making(q, t)' \in {0, 1}
    BY DEF Making
  <2>2. \A q \in Callers : q # p => Making(q, t)' = Making(q, t)
    <3>1. ASSUME NEW q \in Callers, q # p PROVE Creates(q, t)' <=> Creates(q, t)
      <4>1. pass'[q] = pass[q] /\ PassInv(q)
        BY <3>1 DEF Inv
      <4>2. pass[q].at = "position" =>
              pass[q].current \in Runs /\ record'[pass[q].current].tx = record[pass[q].current].tx
        BY <4>1 DEF PassInv, SameRecord
      <4> QED BY <4>1, <4>2 DEF Creates
    <3> QED BY <3>1 DEF Making
  <2>3. positions[t] \in Nat /\ positions'[t] \in Nat /\ PositionInv(t)
    BY <1>1, <1>10 DEF Inv, Types, RowTypes
  <2>4. PICK w0 \in {0, 1}, s0 \in {0, 1}, w1 \in {0, 1}, s1 \in {0, 1} :
          /\ w0 = Making("worker", t) /\ s0 = Making("startup", t)
          /\ w1 = Making("worker", t)' /\ s1 = Making("startup", t)'
    BY <2>1 DEF Callers
  <2>5. positions'[t] + w1 + s1 <= 1 + blind'
    <3>1. CASE positions'[t] + Making(p, t)' + blind <= positions[t] + Making(p, t) + blind'
      <4>1. positions[t] + w0 + s0 <= 1 + blind
        BY <2>3, <2>4 DEF PositionInv
      <4>2. CASE p = "worker"
        <5>1. positions'[t] + w1 + blind <= positions[t] + w0 + blind' /\ s1 = s0
          BY <2>2, <2>4, <3>1, <4>2 DEF Callers
        <5> QED BY <1>4, <2>3, <4>1, <5>1
      <4>3. CASE p = "startup"
        <5>1. positions'[t] + s1 + blind <= positions[t] + s0 + blind' /\ w1 = w0
          BY <2>2, <2>4, <3>1, <4>3 DEF Callers
        <5> QED BY <1>4, <2>3, <4>1, <5>1
      <4> QED BY <4>2, <4>3 DEF Callers
    <3>2. CASE positions'[t] = 0
      <4>1. s1 = 1 => blind' > 0
        <5>1. s1 = 1 => pass'["startup"].at = "position"
          BY <2>4 DEF Making, Creates
        <5> QED BY <1>4, <1>9, <5>1 DEF StartupInv
      <4> QED BY <1>4, <3>2, <4>1
    <3> QED BY <3>1, <3>2
  <2> QED BY <1>2, <2>4, <2>5 DEF PositionInv
<1> QED BY <1>3, <1>5, <1>6, <1>7, <1>8, <1>9, <1>10 DEF Inv

(* ... that writes nothing. *)
LEMMA PassReads ==
  ASSUME NEW p \in Callers, Inv, ConstantsAssumption,
         UNCHANGED <<mode, database, job, nonceRead, chain>>,
         pass' \in [Callers -> PassRecord],
         \A q \in Callers : q # p => pass'[q] = pass[q],
         FaultTypes', faults <= faults', blind <= blind',
         p = "worker" \/ pass[p].at # "idle",
         PassInv(p)',
         \A t \in Txs : \/ Making(p, t)' + blind <= Making(p, t) + blind'
                        \/ positions[t] = 0
  PROVE  Inv'
<1>1. Types
  BY DEF Inv
<1>2. UNCHANGED <<decision, artifact, record, positions, forkPositions>>
  BY DEF database
<1>3. \A t \in Txs : positions[t] \in Nat /\ (positions[t] > 0 => t \in executed)
  BY <1>1 DEF Inv, Types, RowTypes, PositionInv
<1>4. \A r \in Runs : SameRecord(r)
  BY <1>2 DEF SameRecord
<1>5. blind \in Nat /\ blind' \in Nat
  BY <1>1 DEF Types, FaultTypes
<1>6. ASSUME NEW t \in Txs
      PROVE  /\ positions'[t] > 0 => t \in executed
             /\ \/ positions'[t] + Making(p, t)' + blind <= positions[t] + Making(p, t) + blind'
                \/ positions'[t] = 0
  <2>1. PICK m0 \in {0, 1}, m1 \in {0, 1} : m0 = Making(p, t) /\ m1 = Making(p, t)'
    BY DEF Making
  <2>2. positions'[t] = positions[t]
    BY <1>2
  <2>3. m1 + blind <= m0 + blind' \/ positions[t] = 0
    BY <2>1
  <2>4. PICK n \in Nat, b0 \in Nat, b1 \in Nat : n = positions[t] /\ b0 = blind /\ b1 = blind'
    BY <1>3, <1>5
  <2>5. n + m1 + b0 <= n + m0 + b1 \/ n = 0
    <3>1. m1 + b0 <= m0 + b1 \/ n = 0
      BY <2>3, <2>4
    <3> QED BY ONLY <3>1
  <2>6. positions'[t] + m1 + blind <= positions[t] + m0 + blind' \/ positions'[t] = 0
    BY <2>2, <2>4, <2>5
  <2> QED BY <1>3, <2>1, <2>2, <2>6
<1> QED BY <1>1, <1>2, <1>4, <1>6, PassStepKeeps DEF Types, RowTypes, RunTypes

LEMMA StartPassKeeps ==
  ASSUME NEW p \in Callers, Inv, ConstantsAssumption, StartPass(p)
  PROVE  Inv'
<1>1. Types
  BY DEF Inv
<1>2. /\ pass[p].at \in IF p = "startup" THEN {"boot"} ELSE {"idle"}
      /\ UNCHANGED <<mode, database, job, nonceRead, chain, faults, blind>>
      /\ \E todo \in Pages :
           pass' = [pass EXCEPT ![p] = IF todo = {} THEN IdlePass
                                       ELSE [at |-> "next", todo |-> todo, current |-> NoTx]]
  BY DEF StartPass
<1>3. Pages \subseteq SUBSET Submitted
  BY DEF Pages
<1>4. PICK list \in SUBSET Submitted :
         pass' = [pass EXCEPT ![p] = IF list = {} THEN IdlePass
                                     ELSE [at |-> "next", todo |-> list, current |-> NoTx]]
  BY <1>2, <1>3
<1>5. /\ list \subseteq Runs
      /\ \A r \in list : record[r].status \in Settled /\ record[r].tx \in posted
  BY <1>4 DEF Inv, RecordInv, Settled, Submitted
<1>6. IdlePass \in PassRecord /\ IdlePass.at = "idle" /\ IdlePass.todo = {}
  BY DEF IdlePass, PassRecord, PassStates
<1>7. PICK listed \in PassRecord : listed = [at |-> "next", todo |-> list, current |-> NoTx]
  BY <1>5 DEF PassRecord, PassStates
<1>8. PICK next \in PassRecord :
        next = IF list = {} THEN IdlePass ELSE [at |-> "next", todo |-> list, current |-> NoTx]
  BY <1>6, <1>7
<1>9. next.at \in {"idle", "next"} /\ next.todo \subseteq list
  BY <1>6, <1>8
<1>10. pass' = [pass EXCEPT ![p] = next]
  BY <1>4, <1>8, Zenon
<1>11. /\ pass' \in [Callers -> PassRecord] /\ pass'[p] = next
       /\ \A q \in Callers : q # p => pass'[q] = pass[q]
  BY <1>1, <1>10 DEF Types, PassTypes
<1>12. PassInv(p)'
  <2>1. UNCHANGED <<record, posted>>
    BY <1>2 DEF database, chain
  <2> QED BY <1>5, <1>9, <1>11, <2>1 DEF PassInv
<1>13. \A t \in Txs : Making(p, t)' = 0 /\ Making(p, t) \in Nat
  BY <1>9, <1>11 DEF Making, Creates
<1>14. blind \in Nat /\ faults \in Nat /\ FaultTypes'
  BY <1>1, <1>2 DEF Types, FaultTypes
<1>15. ASSUME NEW t \in Txs PROVE Making(p, t)' + blind <= Making(p, t) + blind'
  BY <1>2, <1>13, <1>14
<1>16. p = "worker" \/ pass[p].at # "idle"
  BY <1>2 DEF Callers
<1>17. faults <= faults' /\ blind <= blind'
  BY <1>2, <1>14
<1> QED BY <1>2, <1>11, <1>12, <1>14, <1>15, <1>16, <1>17, PassReads

LEMMA ReadStatusKeeps ==
  ASSUME NEW p \in Callers, Inv, ConstantsAssumption, ReadStatus(p)
  PROVE  Inv'
<1>1. Types /\ PassInv(p)
  BY DEF Inv
<1>2. pass[p].at = "next" /\ UNCHANGED <<mode, database, job, nonceRead, chain>>
  BY DEF ReadStatus
<1>3. PICK seen \in PassRecord : seen = pass[p]
  BY <1>1 DEF Types, PassTypes
<1>4. PICK r \in pass[p].todo :
        LET rest == [pass[p] EXCEPT !.todo = @ \ {r}, !.current = r]
        IN  \/ /\ getSafeExecutionStatus(r) /\ NoFault
               /\ pass' = [pass EXCEPT ![p] = [rest EXCEPT !.at = "lookup"]]
            \/ /\ \/ ~getSafeExecutionStatus(r) /\ NoFault
                  \/ Fault
               /\ pass' = [pass EXCEPT ![p] = IF rest.todo = {} THEN IdlePass ELSE rest]
  BY Zenon DEF ReadStatus
<1>5. r \in Runs /\ record[r].status \in Settled
  BY <1>1, <1>3 DEF PassInv, PassRecord
<1>6. PICK left \in SUBSET Runs : left = seen.todo \ {r}
  BY DEF PassRecord
<1>7. PICK rest \in PassRecord : rest = [at |-> "next", todo |-> left, current |-> r]
  BY <1>5 DEF PassRecord, PassStates
<1>8. [pass[p] EXCEPT !.todo = @ \ {r}, !.current = r] = rest
  <2>1. [seen EXCEPT !.todo = left] = [at |-> "next", todo |-> left, current |-> seen.current]
    BY <1>2, <1>3 DEF PassRecord
  <2>2. PICK mid \in PassRecord : mid = [at |-> "next", todo |-> left, current |-> seen.current]
    BY DEF PassRecord, PassStates
  <2>3. [mid EXCEPT !.current = r] = [at |-> mid.at, todo |-> mid.todo, current |-> r]
    BY DEF PassRecord
  <2>4. [pass[p] EXCEPT !.todo = @ \ {r}, !.current = r] = [[seen EXCEPT !.todo = left] EXCEPT !.current = r]
    BY <1>3, <1>6, Zenon
  <2> QED BY <1>7, <2>1, <2>2, <2>3, <2>4
<1>9. \/ /\ getSafeExecutionStatus(r) /\ NoFault
         /\ pass' = [pass EXCEPT ![p] = [rest EXCEPT !.at = "lookup"]]
      \/ /\ NoFault \/ Fault
         /\ pass' = [pass EXCEPT ![p] = IF rest.todo = {} THEN IdlePass ELSE rest]
  BY <1>4, <1>8, Zenon
<1>10. PICK found \in PassRecord : found = [at |-> "lookup", todo |-> left, current |-> r]
  BY <1>5 DEF PassRecord, PassStates
<1>11. [rest EXCEPT !.at = "lookup"] = found
  BY <1>7, <1>10
<1>12. IdlePass \in PassRecord /\ IdlePass.at = "idle" /\ IdlePass.todo = {}
  BY DEF IdlePass, PassRecord, PassStates
<1>13. PICK next \in PassRecord :
         /\ pass' = [pass EXCEPT ![p] = next]
         /\ next.todo \subseteq left
         /\ \/ next.at = "lookup" /\ next.current = r /\ getSafeExecutionStatus(r)
            \/ next.at \in {"idle", "next"}
  <2>1. CASE /\ getSafeExecutionStatus(r)
             /\ pass' = [pass EXCEPT ![p] = [rest EXCEPT !.at = "lookup"]]
    <3>1. pass' = [pass EXCEPT ![p] = found]
      BY <1>11, <2>1, Zenon
    <3>2. found.todo \subseteq left /\ found.at = "lookup" /\ found.current = r
      BY <1>10
    <3> QED BY <2>1, <3>1, <3>2
  <2>2. CASE pass' = [pass EXCEPT ![p] = IF rest.todo = {} THEN IdlePass ELSE rest]
    <3>1. PICK then \in PassRecord : then = IF rest.todo = {} THEN IdlePass ELSE rest
      BY <1>12
    <3>2. pass' = [pass EXCEPT ![p] = then]
      BY <2>2, <3>1, Zenon
    <3>3. then.todo \subseteq left /\ then.at \in {"idle", "next"}
      BY <1>7, <1>12, <3>1
    <3> QED BY <3>2, <3>3
  <2> QED BY <1>9, <2>1, <2>2
<1>14. /\ pass' \in [Callers -> PassRecord] /\ pass'[p] = next
       /\ \A q \in Callers : q # p => pass'[q] = pass[q]
  BY <1>1, <1>13 DEF Types, PassTypes
<1>15. PassInv(p)'
  <2>1. UNCHANGED <<record, posted, executed>>
    BY <1>2 DEF database, chain
  <2>2. \A s \in left : record[s].status \in Settled /\ record[s].tx \in posted
    BY <1>1, <1>3, <1>6 DEF PassInv
  <2> QED BY <1>5, <1>13, <1>14, <2>1, <2>2 DEF PassInv, getSafeExecutionStatus
<1>16. \A t \in Txs : Making(p, t)' = 0 /\ Making(p, t) \in Nat
  BY <1>13, <1>14 DEF Making, Creates
<1>17. /\ blind \in Nat /\ faults \in Nat /\ FaultTypes' /\ blind' = blind /\ faults <= faults'
  <2>1. CASE NoFault
    BY <1>1, <2>1 DEF NoFault, Types, FaultTypes
  <2>2. CASE Fault
    BY <1>1, <2>2, ConstantsAssumption DEF Fault, OneMoreFault, Types, FaultTypes, ConstantsAssumption
  <2> QED BY <1>9, <2>1, <2>2
<1>18. ASSUME NEW t \in Txs PROVE Making(p, t)' + blind <= Making(p, t) + blind'
  BY <1>16, <1>17
<1>19. pass[p].at # "idle" /\ blind <= blind'
  BY <1>2, <1>17
<1> QED BY <1>2, <1>14, <1>15, <1>17, <1>18, <1>19, PassReads

LEMMA LookupKeeps ==
  ASSUME NEW p \in Callers, Inv, ConstantsAssumption, LookupPosition(p)
  PROVE  Inv'
<1>1. Types /\ PassInv(p)
  BY DEF Inv
<1>2. pass[p].at = "lookup" /\ UNCHANGED <<mode, database, job, nonceRead, chain>>
  BY DEF LookupPosition
<1>3. PICK mine : mine = record[pass[p].current].tx
  OBVIOUS
<1>4. PICK step \in {"duplicate", "position"} :
        /\ PassGoto(p, step)
        /\ \/ NoFault /\ (step = "position" => ~(positions[mine] > 0))
           \/ BlindFault
  <2>1. CASE /\ PassGoto(p, IF positions[record[pass[p].current].tx] > 0 THEN "duplicate" ELSE "position")
             /\ NoFault
    <3>1. PICK step \in {"duplicate", "position"} :
            step = IF positions[mine] > 0 THEN "duplicate" ELSE "position"
      OBVIOUS
    <3>2. PassGoto(p, step)
      BY <1>3, <2>1, <3>1, Zenon
    <3> QED BY <2>1, <3>1, <3>2
  <2>2. CASE BlindFault /\ PassGoto(p, "position")
    BY <2>2
  <2> QED BY <2>1, <2>2 DEF LookupPosition
<1>5. /\ pass' \in [Callers -> PassRecord]
      /\ pass'[p].at = step /\ pass'[p].todo = pass[p].todo /\ pass'[p].current = pass[p].current
      /\ \A q \in Callers : q # p => pass'[q] = pass[q]
  BY <1>1, <1>4, PassGotoIs DEF PassStates
<1>6. UNCHANGED <<record, posted, executed>>
  BY <1>2 DEF database, chain
<1>7. PassInv(p)'
  BY <1>1, <1>2, <1>5, <1>6 DEF PassInv
<1>8. \A t \in Txs : /\ Making(p, t) = 0 /\ Making(p, t)' \in {0, 1}
                     /\ Making(p, t)' = 1 => step = "position" /\ t = mine
  BY <1>2, <1>3, <1>5, <1>6 DEF Making, Creates
<1>9. /\ blind \in Nat /\ faults \in Nat /\ FaultTypes' /\ blind <= blind' /\ faults <= faults'
      /\ NoFault => blind' = blind
      /\ BlindFault => blind' = blind + 1
  <2>1. CASE NoFault
    BY <1>1, <2>1 DEF NoFault, BlindFault, OneMoreFault, Types, FaultTypes
  <2>2. CASE BlindFault
    BY <1>1, <2>2, ConstantsAssumption
       DEF NoFault, BlindFault, OneMoreFault, Types, FaultTypes, ConstantsAssumption
  <2> QED BY <1>4, <2>1, <2>2
<1>10. ASSUME NEW t \in Txs
       PROVE  \/ Making(p, t)' + blind <= Making(p, t) + blind'
              \/ positions[t] = 0
  <2>1. positions[t] \in Nat
    BY <1>1 DEF Types, RowTypes
  <2>2. CASE BlindFault
    BY <1>8, <1>9, <2>2
  <2>3. CASE NoFault /\ (step = "position" => ~(positions[mine] > 0))
    BY <1>8, <1>9, <2>1, <2>3
  <2> QED BY <1>4, <2>2, <2>3
<1>11. pass[p].at # "idle"
  BY <1>2
<1> QED BY <1>2, <1>5, <1>7, <1>9, <1>10, <1>11, PassReads

(* Turning to the next record, also when a write has failed. *)
LEMMA NextRecordLeaves ==
  ASSUME NEW p \in Callers, Types, PassInv(p), NextRecord(p), posted' = posted,
         \A r \in Runs : SameRecord(r)
  PROVE  PassInv(p)' /\ \A t \in Txs : Making(p, t)' = 0
<1>1. /\ pass'[p].at \in {"idle", "next"} /\ pass'[p].todo \subseteq pass[p].todo
  BY NextRecordIs
<1>2. pass[p].todo \subseteq Runs
  BY DEF Types, PassTypes, PassRecord
<1>3. PassInv(p)'
  BY <1>1, <1>2 DEF PassInv, SameRecord
<1> QED BY <1>1, <1>3 DEF Making, Creates

LEMMA GivesUp ==
  ASSUME NEW p \in Callers, Inv, ConstantsAssumption, pass[p].at # "idle", Fault, NextRecord(p),
         UNCHANGED <<mode, database, job, nonceRead, chain>>
  PROVE  Inv'
<1>1. Types /\ PassInv(p)
  BY DEF Inv
<1>2. /\ pass' \in [Callers -> PassRecord]
      /\ \A q \in Callers : q # p => pass'[q] = pass[q]
  BY <1>1, NextRecordIs
<1>3. PassInv(p)' /\ \A t \in Txs : Making(p, t)' = 0
  BY <1>1, NextRecordLeaves DEF SameRecord, database, chain
<1>4. blind \in Nat /\ FaultTypes' /\ blind' = blind /\ faults <= faults' /\ blind <= blind'
  BY <1>1, ConstantsAssumption DEF Fault, OneMoreFault, Types, FaultTypes, ConstantsAssumption
<1>5. ASSUME NEW t \in Txs PROVE Making(p, t)' + blind <= Making(p, t) + blind'
  <2>1. Making(p, t) \in Nat
    BY DEF Making
  <2> QED BY <1>3, <1>4, <2>1
<1> QED BY <1>2, <1>3, <1>4, <1>5, PassReads

LEMMA ActivateKeeps ==
  ASSUME NEW p \in Callers, Inv, ConstantsAssumption, ActivatePosition(p)
  PROVE  Inv'
<1>1. Types /\ PassInv(p)
  BY DEF Inv
<1>2. /\ pass[p].at = "position"
      /\ UNCHANGED <<mode, decision, artifact, record, forkPositions, job, nonceRead, chain>>
  BY DEF ActivatePosition
<1>3. CASE Fault /\ NextRecord(p) /\ UNCHANGED positions
  BY <1>2, <1>3, GivesUp DEF database
<1>4. ASSUME positions' = [positions EXCEPT ![record[pass[p].current].tx] = @ + 1],
             PassGoto(p, "reconciled"), NoFault
      PROVE  Inv'
  <2>1. /\ pass' \in [Callers -> PassRecord]
        /\ pass'[p].at = "reconciled" /\ pass'[p].todo = pass[p].todo
        /\ pass'[p].current = pass[p].current
        /\ \A q \in Callers : q # p => pass'[q] = pass[q]
    BY <1>1, <1>4, PassGotoIs DEF PassStates
  <2>2. PICK mine \in Txs : mine = record[pass[p].current].tx /\ mine \in executed
    BY <1>1, <1>2 DEF PassInv, Types, SafeTypes
  <2>3. /\ positions' \in [Txs -> Nat] /\ positions'[mine] = positions[mine] + 1
        /\ \A t \in Txs : t # mine => positions'[t] = positions[t]
    BY <1>1, <1>4, <2>2 DEF Types, RowTypes
  <2>4. UNCHANGED <<posted, executed>>
    BY <1>2 DEF chain
  <2>5. PassInv(p)'
    BY <1>1, <1>2, <2>1, <2>4 DEF PassInv
  <2>6. \A t \in Txs : Making(p, t)' = 0 /\ Making(p, t) = IF t = mine THEN 1 ELSE 0
    BY <1>2, <2>1, <2>2 DEF Making, Creates
  <2>7. blind \in Nat /\ FaultTypes' /\ blind' = blind /\ faults <= faults' /\ blind <= blind'
    BY <1>1, <1>4 DEF NoFault, Types, FaultTypes
  <2>8. ASSUME NEW t \in Txs
        PROVE  /\ positions'[t] > 0 => t \in executed
               /\ positions'[t] + Making(p, t)' + blind <= positions[t] + Making(p, t) + blind'
    <3>1. positions[t] \in Nat /\ (positions[t] > 0 => t \in executed)
      BY <1>1 DEF Types, RowTypes, Inv, PositionInv
    <3> QED BY <2>2, <2>3, <2>6, <2>7, <3>1
  <2>9. pass[p].at # "idle"
    BY <1>2
  <2>10. \A r \in Runs : SameRecord(r)
    BY <1>2 DEF SameRecord
  <2> QED BY <1>1, <1>2, <2>1, <2>3, <2>5, <2>7, <2>8, <2>9, <2>10, PassStepKeeps
          DEF Types, RowTypes, RunTypes
<1> QED BY <1>3, <1>4 DEF ActivatePosition

LEMMA ReconcileKeeps ==
  ASSUME NEW p \in Callers, Inv, ConstantsAssumption, MarkReconciled(p)
  PROVE  Inv'
<1>1. Types /\ PassInv(p)
  BY DEF Inv
<1>2. /\ pass[p].at \in {"duplicate", "reconciled"} /\ pass[p].at # "idle"
      /\ UNCHANGED <<mode, decision, artifact, positions, forkPositions, job, nonceRead, chain>>
  BY DEF MarkReconciled
<1>3. CASE Fault /\ NextRecord(p) /\ UNCHANGED record
  BY <1>2, <1>3, GivesUp DEF database
<1>4. ASSUME record' = [record EXCEPT ![pass[p].current].status = "reconciled"],
             IF pass[p].at = "duplicate" THEN NextRecord(p) ELSE PassGoto(p, "decision"),
             NoFault
      PROVE  Inv'
  <2>1. PICK r \in Runs : r = pass[p].current /\ record[r].status \in Settled /\ record[r].tx \in executed
    BY <1>1, <1>2 DEF PassInv
  <2>2. SetStatus(r, "reconciled")
    BY <1>4, <2>1, Zenon DEF SetStatus
  <2>3. /\ record' \in [Runs -> RunRecord]
        /\ record'[r].status = "reconciled" /\ record'[r].tx = record[r].tx
        /\ \A q \in Runs : q # r => record'[q] = record[q]
    BY <1>1, <2>2, StatusIs
  <2>4. \A q \in Runs : SameRecord(q)
    <3>1. SameRecord(r)
      BY <2>1, <2>3 DEF SameRecord, Settled
    <3>2. ASSUME NEW q \in Runs, q # r PROVE SameRecord(q)
      BY <2>3, <3>2 DEF SameRecord
    <3> QED BY <3>1, <3>2
  <2>5. UNCHANGED <<posted, executed>>
    BY <1>2 DEF chain
  <2>6. /\ pass' \in [Callers -> PassRecord]
        /\ \A q \in Callers : q # p => pass'[q] = pass[q]
        /\ PassInv(p)'
        /\ \A t \in Txs : Making(p, t)' = 0
    <3>1. CASE NextRecord(p)
      BY <1>1, <2>4, <2>5, <3>1, NextRecordIs, NextRecordLeaves
    <3>2. CASE PassGoto(p, "decision")
      <4>1. /\ pass' \in [Callers -> PassRecord]
            /\ pass'[p].at = "decision" /\ pass'[p].todo = pass[p].todo
            /\ pass'[p].current = pass[p].current
            /\ \A q \in Callers : q # p => pass'[q] = pass[q]
        BY <1>1, <3>2, PassGotoIs DEF PassStates
      <4>2. pass[p].todo \subseteq Runs
        BY <1>1 DEF Types, PassTypes, PassRecord
      <4>3. PassInv(p)'
        BY <1>1, <2>1, <2>3, <2>4, <2>5, <4>1, <4>2 DEF PassInv, SameRecord, Settled
      <4> QED BY <4>1, <4>3 DEF Making, Creates
    <3> QED BY <1>4, <3>1, <3>2
  <2>7. blind \in Nat /\ FaultTypes' /\ blind' = blind /\ faults <= faults' /\ blind <= blind'
    BY <1>1, <1>4 DEF NoFault, Types, FaultTypes
  <2>8. ASSUME NEW t \in Txs
        PROVE  /\ positions'[t] > 0 => t \in executed
               /\ positions'[t] + Making(p, t)' + blind <= positions[t] + Making(p, t) + blind'
    <3>1. positions[t] \in Nat /\ (positions[t] > 0 => t \in executed)
      BY <1>1 DEF Types, RowTypes, Inv, PositionInv
    <3>2. Making(p, t) \in Nat /\ Making(p, t)' = 0 /\ positions'[t] = positions[t]
      BY <1>2, <2>6 DEF Making
    <3> QED BY <2>7, <3>1, <3>2
  <2>9. \A q \in Runs : /\ record'[q].status = "submitted" => record[q].status = "submitted"
                        /\ record'[q].status = "reconciled" =>
                             record[q].status = "reconciled" \/ record[q].tx \in executed
    BY <2>1, <2>3
  <2> QED BY <1>1, <1>2, <2>3, <2>4, <2>6, <2>7, <2>8, <2>9, PassStepKeeps
          DEF Types, RowTypes, RunTypes
<1> QED BY <1>3, <1>4 DEF MarkReconciled

LEMMA MarkExecutedKeeps ==
  ASSUME NEW p \in Callers, Inv, ConstantsAssumption, MarkExecuted(p)
  PROVE  Inv'
<1>1. Types /\ PassInv(p)
  BY DEF Inv
<1>2. /\ pass[p].at = "decision" /\ pass[p].at # "idle" /\ NextRecord(p)
      /\ UNCHANGED <<mode, artifact, record, positions, forkPositions, job, nonceRead, chain>>
  BY DEF MarkExecuted
<1>3. decision' \in [Decisions -> {"none", "proposed", "ready", "blocked", "executed"}]
  BY <1>1 DEF MarkExecuted, Types, RowTypes
<1>4. /\ pass' \in [Callers -> PassRecord]
      /\ \A q \in Callers : q # p => pass'[q] = pass[q]
  BY <1>1, <1>2, NextRecordIs
<1>5. \A r \in Runs : SameRecord(r)
  BY <1>2 DEF SameRecord
<1>6. PassInv(p)' /\ \A t \in Txs : Making(p, t)' = 0
  BY <1>1, <1>2, <1>5, NextRecordLeaves DEF chain
<1>7. blind \in Nat /\ FaultTypes' /\ blind' = blind /\ faults <= faults' /\ blind <= blind'
  <2>1. CASE NoFault
    BY <1>1, <2>1 DEF NoFault, Types, FaultTypes
  <2>2. CASE Fault
    BY <1>1, <2>2, ConstantsAssumption DEF Fault, OneMoreFault, Types, FaultTypes, ConstantsAssumption
  <2> QED BY <2>1, <2>2 DEF MarkExecuted
<1>8. ASSUME NEW t \in Txs
      PROVE  /\ positions'[t] > 0 => t \in executed
             /\ positions'[t] + Making(p, t)' + blind <= positions[t] + Making(p, t) + blind'
  <2>1. positions[t] \in Nat /\ (positions[t] > 0 => t \in executed)
    BY <1>1 DEF Types, RowTypes, Inv, PositionInv
  <2>2. Making(p, t) \in Nat /\ Making(p, t)' = 0 /\ positions'[t] = positions[t]
    BY <1>2, <1>6 DEF Making
  <2> QED BY <1>7, <2>1, <2>2
<1> QED BY <1>1, <1>2, <1>3, <1>4, <1>5, <1>6, <1>7, <1>8, PassStepKeeps
        DEF Types, RowTypes, RunTypes

-----------------------------------------------------------------------------
(* The invariant *)

LEMMA InvInit ==
  ASSUME Init, ConstantsAssumption
  PROVE  Inv
<1>1. MaxFaults \in Nat
  BY DEF ConstantsAssumption
<1>2. 0 \in Nonces
  <2>1. Cardinality(Decisions) \in Nat /\ MaxFaults + 1 \in Nat
    BY FS_CardinalityType DEF ConstantsAssumption
  <2>2. Cardinality(Decisions) * (MaxFaults + 1) \in Nat
    BY <2>1
  <2> QED BY <2>2 DEF Nonces
<1>3. /\ mode \in Modes /\ posted = {} /\ executed = {} /\ safeNonce = 0 /\ faults = 0 /\ blind = 0
      /\ decision = [d \in Decisions |-> "none"] /\ artifact = [r \in Runs |-> "none"]
      /\ record = [r \in Runs |-> NoRecord] /\ positions = [t \in Txs |-> 0]
      /\ forkPositions = [d \in Decisions |-> 0]
      /\ job = [d \in Decisions |-> [at |-> "none", runs |-> 0, failures |-> 0]]
      /\ nonceRead = [d \in Decisions |-> NoNonce]
      /\ pass = [p \in Callers |-> IdlePass] /\ moduleTx = [r \in Runs |-> "none"]
  BY DEF Init
<1>4. NoRecord \in RunRecord /\ NoRecord.status = "none"
  BY DEF NoRecord, RunRecord
<1>5. IdlePass \in PassRecord /\ IdlePass.at = "idle" /\ IdlePass.todo = {}
  BY DEF IdlePass, PassRecord, PassStates
<1>6. [at |-> "none", runs |-> 0, failures |-> 0] \in JobRecord
  BY DEF JobRecord, JobStates, Ended
<1>7. Types
  <2>1. RowTypes
    BY <1>3 DEF RowTypes
  <2>2. RunTypes
    BY <1>3, <1>4 DEF RunTypes
  <2>3. JobTypes
    BY <1>3, <1>6 DEF JobTypes
  <2>4. PassTypes
    BY <1>3, <1>5 DEF PassTypes
  <2>5. SafeTypes /\ FaultTypes
    BY <1>1, <1>2, <1>3 DEF SafeTypes, FaultTypes
  <2> QED BY <2>1, <2>2, <2>3, <2>4, <2>5 DEF Types
<1>8. NonceInv
  BY <1>3, FS_EmptySet DEF NonceInv
<1>9. ASSUME NEW d \in Decisions PROVE DecisionInv(d)
  <2>1. job[d].at = "none" /\ job[d].runs = 0 /\ job[d].failures = 0
    BY <1>3
  <2>2. \A n \in RunNumbers : /\ artifact[<<d, n>>] = "none" /\ moduleTx[<<d, n>>] = "none"
                              /\ record[<<d, n>>].status = "none"
    BY <1>3, <1>4 DEF Runs
  <2>3. JobInv(d)
    BY <1>3, <2>1, ConstantsAssumption
       DEF JobInv, Busy, Opening, Unrecorded, Settling, ConstantsAssumption
  <2>4. RunInv(d)
    BY <2>1, <2>2 DEF RunInv, Opening, Unrecorded
  <2>5. Sent(d) = {} /\ Posted(d) = {} /\ Recorded(d) = {}
    BY <1>3, <2>2 DEF Sent, Posted, Recorded, Settled
  <2>6. Budget(d)
    BY <1>3, <2>1, <2>5, FS_EmptySet DEF Budget, May, Owed, Unrecorded
  <2> QED BY <2>3, <2>4, <2>5, <2>6 DEF DecisionInv, ProvenInv
<1>10. \A r \in Runs : RecordInv(r)
  BY <1>3, <1>4 DEF RecordInv
<1>11. \A p \in Callers : PassInv(p)
  BY <1>3, <1>5 DEF PassInv
<1>12. StartupInv
  BY <1>3, <1>5 DEF StartupInv, Callers
<1>13. ASSUME NEW t \in Txs PROVE PositionInv(t)
  <2>1. Making("worker", t) = 0 /\ Making("startup", t) = 0
    BY <1>3, <1>5 DEF Making, Creates, Callers
  <2> QED BY <1>3, <2>1 DEF PositionInv
<1> QED BY <1>7, <1>8, <1>9, <1>10, <1>11, <1>12, <1>13 DEF Inv

LEMMA InvNext ==
  ASSUME Inv, [Next]_vars, ConstantsAssumption
  PROVE  Inv'
<1>1. CASE UNCHANGED vars
  <2>1. UNCHANGED <<mode, decision, artifact, record, positions, forkPositions, job, nonceRead,
                    pass, moduleTx, posted, executed, safeNonce, faults, blind>>
    BY <1>1 DEF vars, database, chain
  <2>2. Types' /\ NonceInv' /\ StartupInv'
    BY <2>1 DEF Inv, Types, RowTypes, RunTypes, JobTypes, PassTypes, SafeTypes, FaultTypes,
                NonceInv, StartupInv
  <2>3. Types
    BY DEF Inv
  <2>4. faults \in Nat /\ blind \in Nat
    BY <2>3 DEF Types, FaultTypes
  <2>5. \A e \in Decisions : Quiet(e)
    BY <2>1, <2>4 DEF Quiet, SameRecord, SameTx, Posted
  <2>6. Steady
    BY <2>1, <2>4 DEF Steady, SettledKept
  <2>7. \A e \in Decisions : DecisionInv(e)'
    BY <2>2, <2>3, <2>5, QuietKeeps DEF Inv
  <2>8. \A r \in Runs : RecordInv(r)'
    BY <2>1, <2>6, RecordKept DEF Inv
  <2>9. (\A p \in Callers : PassInv(p)') /\ \A t \in Txs : PositionInv(t)'
    BY <2>2, <2>3, <2>6, SteadyKeeps DEF Inv
  <2> QED BY <2>2, <2>7, <2>8, <2>9 DEF Inv
<1>2. CASE \E d \in Decisions : Enqueue(d) \/ StartJob(d) \/ JobStep(d)
  BY <1>2, JobKeepsInv
<1>3. CASE \E p \in Callers : PassStep(p)
  BY <1>3, StartPassKeeps, ReadStatusKeeps, LookupKeeps, ActivateKeeps, ReconcileKeeps,
     MarkExecutedKeeps DEF PassStep
<1>4. CASE \E r \in Runs : MineModuleTx(r)
  BY <1>4, MineKeepsInv
<1>5. CASE \E tx \in posted : ExecuteProposal(tx)
  BY <1>5, ExecuteKeepsInv
<1>6. CASE ExecutorRestarts
  BY <1>6, RestartKeepsInv
<1> QED BY <1>1, <1>2, <1>3, <1>4, <1>5, <1>6 DEF Next

LEMMA InvAlways == Spec => []Inv
<1>1. Init => Inv
  BY InvInit, ConstantsAssumption
<1>2. Inv /\ [Next]_vars => Inv'
  BY InvNext, ConstantsAssumption
<1> QED BY <1>1, <1>2, PTL DEF Spec

(* Records and positions are what happened: however many records name a    *)
(* transaction and however passes overlap with restarts, it becomes one    *)
(* position, and one more per fault that hides what is there; nothing is   *)
(* reconciled that was not mined; no run number is above one more than the *)
(* faults (reconcilePendingRecords).                              *)
THEOREM PositionsAreSound == Spec => []PositionsSound
<1>1. Inv => PositionsSound
  <2> SUFFICES ASSUME Inv PROVE PositionsSound
    OBVIOUS
  <2>1. Types
    BY DEF Inv
  <2>2. ASSUME NEW d \in Decisions
        PROVE  /\ job[d].runs \in 0 .. faults + 1 /\ job[d].failures \in 0 .. Attempts
               /\ job[d].at = "waiting" => job[d].failures < Attempts
    <3>1. /\ job[d].runs \in Nat /\ job[d].failures \in Nat /\ faults \in Nat /\ Attempts \in Nat
      BY <2>1, ConstantsAssumption DEF Types, JobTypes, JobRecord, FaultTypes, ConstantsAssumption
    <3>2. JobInv(d)
      BY DEF Inv, DecisionInv
    <3> QED BY <3>1, <3>2 DEF JobInv
  <2>3. TypeOK
    BY <2>1, <2>2
       DEF TypeOK, Types, RowTypes, RunTypes, JobTypes, SafeTypes, FaultTypes, RunRecord
  <2>4. ASSUME NEW t \in Txs PROVE positions[t] <= IF t \in executed THEN 1 + blind ELSE 0
    <3>1. PositionInv(t) /\ positions[t] \in Nat /\ blind \in Nat
      BY <2>1 DEF Inv, Types, RowTypes, FaultTypes
    <3>2. Making("worker", t) \in Nat /\ Making("startup", t) \in Nat
      BY DEF Making
    <3> QED BY <3>1, <3>2 DEF PositionInv
  <2>5. PositionsOnce
    BY <2>4 DEF PositionsOnce, Inv, RecordInv
  <2> QED BY <2>3, <2>5 DEF PositionsSound
<1> QED BY <1>1, InvAlways, PTL

LEMMA MovesAreOpened ==
  ASSUME NEW d, ConstantsAssumption, Types
  PROVE  /\ Moves(d) \in Nat
         /\ Moves(d) <= Cardinality(Sent(d)) + Cardinality(Posted(d))
<1> DEFINE M == {n \in RunNumbers : moduleTx[<<d, n>>] = "executed"}
           E == {tx \in executed : tx[1] = d}
<1>1. /\ IsFiniteSet(Sent(d)) /\ IsFiniteSet(Posted(d))
      /\ Cardinality(Sent(d)) \in Nat /\ Cardinality(Posted(d)) \in Nat
  BY FiniteParts DEF Types, SafeTypes
<1>2. M \subseteq Sent(d) /\ E \subseteq Posted(d)
  BY DEF Sent, Posted, Types, SafeTypes
<1>3. /\ Cardinality(M) \in Nat /\ Cardinality(E) \in Nat
      /\ Cardinality(M) <= Cardinality(Sent(d)) /\ Cardinality(E) <= Cardinality(Posted(d))
  BY <1>1, <1>2, FS_Subset, FS_CardinalityType
<1>4. Moves(d) = Cardinality(M) + Cardinality(E)
  BY DEF Moves
<1> QED BY <1>1, <1>3, <1>4

(* A movement of capital the database does not know of is paid for by a    *)
(* fault: once a job has ended, what its runs sent or had executed is on   *)
(* record (the insert whose failure is swallowed, the record of a          *)
(* proposal; simulation worker).                                           *)
THEOREM MovesAreOnRecord == Spec => []MovesAreRecorded
<1>1. Inv => MovesAreRecorded
  <2> SUFFICES ASSUME Inv, NEW d \in Decisions, job[d].at \in {"completed", "failed"}
               PROVE  Moves(d) <= faults + Cardinality({n \in RunNumbers :
                        record[<<d, n>>].status \in {"submitted", "reconciled"}})
    BY DEF MovesAreRecorded
  <2>1. Types /\ Budget(d)
    BY DEF Inv, DecisionInv
  <2>2. Moves(d) \in Nat /\ Moves(d) <= Cardinality(Sent(d)) + Cardinality(Posted(d))
    BY <2>1, ConstantsAssumption, MovesAreOpened
  <2>3. Owed(job[d].at) = 0
    BY DEF Owed, Unrecorded
  <2>4. /\ Cardinality(Sent(d)) \in Nat /\ Cardinality(Posted(d)) \in Nat
        /\ Cardinality(Recorded(d)) \in Nat /\ faults \in Nat
    BY <2>1, ConstantsAssumption, FiniteParts DEF Types, SafeTypes, FaultTypes
  <2>5. Moves(d) <= faults + Cardinality(Recorded(d))
    BY <2>1, <2>2, <2>3, <2>4 DEF Budget
  <2> QED BY <2>5 DEF Recorded, Settled
<1> QED BY <1>1, InvAlways, PTL

-----------------------------------------------------------------------------
(* The refinement: every step of the workers is a fault, a proof, a move   *)
(* of capital that is paid for, or no step of CapitalAction.               *)

Proven == {r[1] : r \in {q \in Runs : artifact[q] = "passed"}}
CapitalMoves == [d \in Decisions |-> Moves(d)]

LEMMA CapitalIs ==
  /\ Capital!Init <=> Proven = {} /\ CapitalMoves = [d \in Decisions |-> 0] /\ faults = 0
  /\ [Capital!Next]_(Capital!vars) <=>
       \/ UNCHANGED <<Proven, CapitalMoves, faults>>
       \/ faults < MaxFaults /\ faults' = faults + 1 /\ UNCHANGED <<Proven, CapitalMoves>>
       \/ \E d \in Decisions :
            Proven' = Proven \cup {d} /\ UNCHANGED <<CapitalMoves, faults>>
       \/ \E d \in Decisions :
            /\ d \in Proven /\ CapitalMoves[d] <= faults
            /\ CapitalMoves' = [CapitalMoves EXCEPT ![d] = @ + 1]
            /\ UNCHANGED <<Proven, faults>>
BY DEF Capital!Init, Capital!Next, Capital!vars, Capital!Fault, Capital!Prove, Capital!Move,
       Proven, CapitalMoves

Mined(d)   == {n \in RunNumbers : moduleTx[<<d, n>>] = "executed"}
Carried(d) == {tx \in executed : tx[1] = d}

LEMMA MovesAre ==
  CapitalMoves = [d \in Decisions |-> Cardinality(Mined(d)) + Cardinality(Carried(d))]
BY DEF CapitalMoves, Moves, Mined, Carried

LEMMA NothingMoves ==
  ASSUME \A r \in Runs : moduleTx'[r] = "executed" <=> moduleTx[r] = "executed",
         executed' = executed
  PROVE  CapitalMoves' = CapitalMoves
<1>1. \A d \in Decisions : Mined(d)' = Mined(d) /\ Carried(d)' = Carried(d)
  BY DEF Mined, Carried, Runs
<1>2. CapitalMoves' = [d \in Decisions |-> Cardinality(Mined(d))' + Cardinality(Carried(d))']
  BY DEF CapitalMoves, Moves, Mined, Carried
<1> QED BY <1>1, <1>2, MovesAre

(* A way out that is open and was not used is paid for. *)
LEMMA OneMoves ==
  ASSUME NEW d \in Decisions, Inv, ConstantsAssumption, artifact' = artifact, faults' = faults,
         \/ \E n \in Sent(d) \ Mined(d) : Mined(d)' = Mined(d) \cup {n} /\ Carried(d)' = Carried(d)
         \/ \E tx \in Posted(d) \ Carried(d) :
              Carried(d)' = Carried(d) \cup {tx} /\ Mined(d)' = Mined(d),
         \A e \in Decisions : e # d => Mined(e)' = Mined(e) /\ Carried(e)' = Carried(e)
  PROVE  [Capital!Next]_(Capital!vars)
<1>1. Types /\ Budget(d) /\ ProvenInv(d) /\ faults \in Nat
  BY DEF Inv, DecisionInv, Types, FaultTypes
<1>2. d \in Proven /\ Proven' = Proven
  <2>1. Sent(d) # {} \/ Posted(d) # {}
    OBVIOUS
  <2>2. PICK n \in RunNumbers : artifact[<<d, n>>] = "passed"
    BY <1>1, <2>1 DEF ProvenInv, ProvenRuns
  <2>3. <<d, n>> \in Runs /\ <<d, n>>[1] = d
    BY DEF Runs
  <2> QED BY <2>2, <2>3 DEF Proven
<1>3. /\ IsFiniteSet(Sent(d)) /\ IsFiniteSet(Posted(d))
      /\ Cardinality(Sent(d)) \in Nat /\ Cardinality(Posted(d)) \in Nat
  BY <1>1, FiniteParts DEF Types, SafeTypes
<1>4. Mined(d) \subseteq Sent(d) /\ Carried(d) \subseteq Posted(d)
  BY <1>1 DEF Mined, Carried, Sent, Posted, Types, SafeTypes
<1>5. /\ IsFiniteSet(Mined(d)) /\ IsFiniteSet(Carried(d))
      /\ Cardinality(Mined(d)) \in Nat /\ Cardinality(Carried(d)) \in Nat
      /\ Cardinality(Mined(d)) <= Cardinality(Sent(d))
      /\ Cardinality(Carried(d)) <= Cardinality(Posted(d))
  BY <1>3, <1>4, FS_Subset, FS_CardinalityType
<1>6. Cardinality(Sent(d)) + Cardinality(Posted(d)) <= faults + 1
  BY <1>1, <1>3 DEF Budget, May
<1>7. /\ Cardinality(Mined(d))' + Cardinality(Carried(d))'
           = Cardinality(Mined(d)) + Cardinality(Carried(d)) + 1
      /\ Cardinality(Mined(d)) + Cardinality(Carried(d)) <= faults
  <2>1. ASSUME NEW n \in Sent(d) \ Mined(d), Mined(d)' = Mined(d) \cup {n}, Carried(d)' = Carried(d)
        PROVE  <1>7!1 /\ <1>7!2
    <3>1. Cardinality(Mined(d) \cup {n}) = Cardinality(Mined(d)) + 1
      BY <1>5, <2>1, FS_AddElement
    <3>2. Cardinality(Mined(d) \cup {n}) <= Cardinality(Sent(d))
      BY <1>3, <1>4, FS_Subset
    <3> QED BY <1>1, <1>3, <1>5, <1>6, <2>1, <3>1, <3>2
  <2>2. ASSUME NEW tx \in Posted(d) \ Carried(d), Carried(d)' = Carried(d) \cup {tx},
               Mined(d)' = Mined(d)
        PROVE  <1>7!1 /\ <1>7!2
    <3>1. Cardinality(Carried(d) \cup {tx}) = Cardinality(Carried(d)) + 1
      BY <1>5, <2>2, FS_AddElement
    <3>2. Cardinality(Carried(d) \cup {tx}) <= Cardinality(Posted(d))
      BY <1>3, <1>4, FS_Subset
    <3> QED BY <1>1, <1>3, <1>5, <1>6, <2>2, <3>1, <3>2
  <2> QED BY <2>1, <2>2
<1>8. /\ CapitalMoves = [e \in Decisions |-> Cardinality(Mined(e)) + Cardinality(Carried(e))]
      /\ CapitalMoves' = [e \in Decisions |-> Cardinality(Mined(e))' + Cardinality(Carried(e))']
  BY DEF CapitalMoves, Moves, Mined, Carried
<1>9. CapitalMoves[d] <= faults /\ CapitalMoves' = [CapitalMoves EXCEPT ![d] = @ + 1]
  BY <1>7, <1>8
<1> QED BY <1>2, <1>9, CapitalIs

LEMMA StepIsCapitalStep ==
  ASSUME Inv, ConstantsAssumption, [Next]_vars
  PROVE  [Capital!Next]_(Capital!vars)
<1>1. Types /\ faults \in Nat
  BY DEF Inv, Types, FaultTypes
<1>2. ASSUME UNCHANGED <<artifact, moduleTx, executed>>, faults' = faults \/ OneMoreFault
      PROVE  [Capital!Next]_(Capital!vars)
  <2>1. CapitalMoves' = CapitalMoves /\ Proven' = Proven
    BY <1>2, NothingMoves DEF Proven
  <2> QED BY <1>2, <2>1, CapitalIs DEF OneMoreFault
<1>3. ASSUME NEW d \in Decisions, Simulate(d) PROVE [Capital!Next]_(Capital!vars)
  <2>1. UNCHANGED <<moduleTx, executed>> /\ job[d].at = "simulate"
    BY <1>3 DEF Simulate, chain
  <2>2. Run(d) \in Runs /\ artifact[Run(d)] = "none"
    BY <1>1, <2>1, RunIsRun DEF Inv, DecisionInv, RunInv, Busy, Opening
  <2>3. CASE Fault /\ artifact' = artifact
    BY <1>2, <2>1, <2>3 DEF Fault
  <2>4. CASE /\ faults' = faults
             /\ \E result \in {"passed", "failed"} : artifact' = [artifact EXCEPT ![Run(d)] = result]
    <3>1. CapitalMoves' = CapitalMoves
      BY <2>1, NothingMoves
    <3>2. PICK result \in {"passed", "failed"} : artifact' = [artifact EXCEPT ![Run(d)] = result]
      BY <2>4
    <3>3. /\ artifact'[Run(d)] = result /\ \A q \in Runs : q # Run(d) => artifact'[q] = artifact[q]
      BY <1>1, <2>2, <3>2 DEF Types, RunTypes
    <3>4. Run(d)[1] = d
      BY DEF Run
    <3>5. result = "passed" => Proven' = Proven \cup {d}
      BY <2>2, <3>3, <3>4 DEF Proven
    <3>6. result # "passed" => Proven' = Proven
      BY <2>2, <3>3 DEF Proven
    <3> QED BY <2>4, <3>1, <3>5, <3>6, CapitalIs
  <2> QED BY <1>3, <2>3, <2>4 DEF Simulate, NoFault
<1>4. ASSUME NEW d \in Decisions, SendModuleTx(d) PROVE [Capital!Next]_(Capital!vars)
  <2>1. /\ UNCHANGED <<artifact, executed, faults>> /\ job[d].at = "module"
        /\ moduleTx' = moduleTx \/ moduleTx' = [moduleTx EXCEPT ![Run(d)] = "pending"]
    BY <1>4 DEF SendModuleTx, database
  <2>2. Run(d) \in Runs /\ moduleTx[Run(d)] = "none"
    BY <1>1, <2>1, RunIsRun DEF Inv, DecisionInv, RunInv, Busy, Opening
  <2>3. \A r \in Runs : moduleTx'[r] = "executed" <=> moduleTx[r] = "executed"
    BY <1>1, <2>1, <2>2 DEF Types, RunTypes
  <2>4. CapitalMoves' = CapitalMoves /\ Proven' = Proven
    BY <2>1, <2>3, NothingMoves DEF Proven
  <2> QED BY <2>1, <2>4, CapitalIs
<1>5. ASSUME NEW d \in Decisions, Enqueue(d) \/ StartJob(d) \/ JobStep(d)
      PROVE  [Capital!Next]_(Capital!vars)
  <2>1. CASE Simulate(d) \/ SendModuleTx(d)
    BY <1>3, <1>4, <2>1
  <2>2. CASE ~(Simulate(d) \/ SendModuleTx(d))
    <3>1. UNCHANGED <<artifact, moduleTx, executed>>
      BY <1>5, <2>2 DEF JobStep, Enqueue, StartJob, Route, ForkRecord, ForkPosition, ForkReady,
         ReadReceipt, RecordModuleTx, ReadSafeNonce, PostProposal, RecordProposal, MarkDecision,
         Publish, database, chain
    <3>2. faults' = faults \/ OneMoreFault
      BY <1>5, <2>2 DEF JobStep, Enqueue, StartJob, Route, ForkRecord, ForkPosition, ForkReady,
         ReadReceipt, RecordModuleTx, ReadSafeNonce, PostProposal, RecordProposal, MarkDecision,
         Publish, Fault, NoFault
    <3> QED BY <1>2, <3>1, <3>2
  <2> QED BY <2>1, <2>2
<1>6. ASSUME NEW p \in Callers, PassStep(p) PROVE [Capital!Next]_(Capital!vars)
  <2>1. UNCHANGED <<artifact, moduleTx, executed>>
    BY <1>6 DEF PassStep, StartPass, ReadStatus, LookupPosition, ActivatePosition, MarkReconciled,
       MarkExecuted, database, chain
  <2>2. faults' = faults \/ OneMoreFault
    BY <1>6 DEF PassStep, StartPass, ReadStatus, LookupPosition, ActivatePosition, MarkReconciled,
       MarkExecuted, Fault, BlindFault, NoFault
  <2> QED BY <1>2, <2>1, <2>2
<1>7. ASSUME NEW r \in Runs, MineModuleTx(r) PROVE [Capital!Next]_(Capital!vars)
  <2>1. PICK fate \in {"executed", "reverted"} : moduleTx' = [moduleTx EXCEPT ![r] = fate]
    BY <1>7 DEF MineModuleTx
  <2>2. UNCHANGED <<artifact, executed, faults>> /\ moduleTx[r] = "pending"
    BY <1>7 DEF MineModuleTx, database
  <2>3. moduleTx'[r] = fate /\ \A q \in Runs : q # r => moduleTx'[q] = moduleTx[q]
    BY <1>1, <2>1 DEF Types, RunTypes
  <2>4. CASE fate = "reverted"
    <3>1. CapitalMoves' = CapitalMoves /\ Proven' = Proven
      BY <2>2, <2>3, <2>4, NothingMoves DEF Proven
    <3> QED BY <2>2, <3>1, CapitalIs
  <2>5. CASE fate = "executed"
    <3>1. PICK d \in Decisions, n \in RunNumbers : r = <<d, n>>
      BY DEF Runs
    <3>2. n \in Sent(d) \ Mined(d)
      BY <2>2, <3>1 DEF Sent, Mined
    <3>3. Mined(d)' = Mined(d) \cup {n}
      <4>1. \A k \in RunNumbers : k # n => moduleTx'[<<d, k>>] = moduleTx[<<d, k>>]
        BY <2>3, <3>1 DEF Runs
      <4>2. moduleTx'[<<d, n>>] = "executed"
        BY <2>3, <2>5, <3>1
      <4> QED BY <4>1, <4>2 DEF Mined
    <3>4. ASSUME NEW e \in Decisions PROVE Carried(e)' = Carried(e) /\ (e # d => Mined(e)' = Mined(e))
      <4>1. \A k \in RunNumbers : e # d => moduleTx'[<<e, k>>] = moduleTx[<<e, k>>]
        BY <2>3, <3>1 DEF Runs
      <4> QED BY <2>2, <4>1 DEF Mined, Carried
    <3> QED BY <2>2, <3>2, <3>3, <3>4, OneMoves
  <2> QED BY <2>4, <2>5
<1>8. ASSUME NEW tx \in posted, ExecuteProposal(tx) PROVE [Capital!Next]_(Capital!vars)
  <2>1. /\ UNCHANGED <<artifact, moduleTx, faults>> /\ executed' = executed \cup {tx}
        /\ tx[2] = safeNonce
    BY <1>8 DEF ExecuteProposal, database
  <2>2. tx \in Txs /\ tx[1] \in Decisions /\ safeNonce \in Nat
    BY <1>1 DEF Types, SafeTypes, Txs, Nonces
  <2>3. PICK d \in Decisions : d = tx[1]
    BY <2>2
  <2>4. tx \notin executed
    BY <2>1, <2>2 DEF Inv, NonceInv
  <2>5. tx \in Posted(d) \ Carried(d) /\ Carried(d)' = Carried(d) \cup {tx}
    BY <2>1, <2>3, <2>4 DEF Posted, Carried
  <2>6. ASSUME NEW e \in Decisions PROVE Mined(e)' = Mined(e) /\ (e # d => Carried(e)' = Carried(e))
    BY <2>1, <2>3 DEF Mined, Carried
  <2> QED BY <2>1, <2>5, <2>6, OneMoves
<1>9. CASE ExecutorRestarts \/ UNCHANGED vars
  <2>1. UNCHANGED <<artifact, moduleTx, executed>> /\ (faults' = faults \/ OneMoreFault)
    BY <1>9 DEF ExecutorRestarts, BlindFault, vars, database, chain
  <2> QED BY <1>2, <2>1
<1> QED BY <1>5, <1>6, <1>7, <1>8, <1>9 DEF Next

(* Prove before execute, and once: the workers implement CapitalAction.    *)
(* However often BullMQ runs a job again and whichever channel carries it, *)
(* a decision's capital moves only after one of its simulations passed,    *)
(* and again only for a fault (services/executor).                         *)
THEOREM CapitalIsProvenAndPaid == Spec => MovesAreProvenAndPaid
<1>1. Init => Capital!Init
  <2> SUFFICES ASSUME Init PROVE Capital!Init
    OBVIOUS
  <2>1. \A r \in Runs : artifact[r] = "none" /\ moduleTx[r] = "none"
    BY DEF Init
  <2>2. Proven = {} /\ faults = 0 /\ executed = {}
    BY <2>1 DEF Init, Proven
  <2>3. \A d \in Decisions : Mined(d) = {} /\ Carried(d) = {}
    BY <2>1, <2>2 DEF Mined, Carried, Runs
  <2>4. CapitalMoves = [d \in Decisions |-> 0]
    BY <2>3, MovesAre, FS_EmptySet
  <2> QED BY <2>2, <2>4, CapitalIs
<1>2. Inv /\ [Next]_vars => [Capital!Next]_(Capital!vars)
  BY StepIsCapitalStep, ConstantsAssumption
<1> QED BY <1>1, <1>2, InvAlways, PTL DEF Spec, MovesAreProvenAndPaid, Capital!Spec
=============================================================================
