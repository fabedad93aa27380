-------------------------- MODULE AgentLoopProofs ---------------------------
(***************************************************************************)
(* What holds of the agent loop for any number of decisions, scans,        *)
(* passes, slots and faults: no capital action without proof, a ledger     *)
(* that accounts for every channel, position and record, the refinement of *)
(* CapitalAction, and the accounting of the simulation queue.              *)
(***************************************************************************)
EXTENDS AgentLoop, FiniteSetTheorems, TLAPS

(* Nothing was done for the decision yet. *)
Untouched(d) ==
  /\ artifact[d] = "none" /\ record[d] = "none" /\ positions[d] = 0
  /\ proposal[d] = NoNonce /\ moduleTx[d] = "none"

Acted(d) ==
  proposal[d] # NoNonce \/ moduleTx[d] # "none" \/ record[d] # "none" \/ positions[d] > 0

Distinct(queue) ==
  \A i, j \in 1 .. Len(queue) : queue[i] = queue[j] => i = j

(* What the proof needs of the types. *)
Types ==
  /\ decision \in [Decisions -> {"none", "simulating", "blocked", "ready", "executed"}]
  /\ artifact \in [Decisions -> {"none", "passed", "failed"}]
  /\ record \in [Decisions -> {"none", "proposed", "submitted", "reconciled"}]
  /\ positions \in [Decisions -> Nat]
  /\ job \in [Decisions -> Jobs]
  /\ proposal \in [Decisions -> Int]
  /\ nonceRead \in [Decisions -> Int]
  /\ safeNonce \in Int
  /\ moduleTx \in [Decisions -> {"none", "pending", "executed", "reverted"}]
  /\ simQueue \in Seq(Decisions)
  /\ runningSims \in Int /\ runningSims <= MAX_CONCURRENT_SIMS
  /\ pass \in [Reconcilers -> [at : {"idle", "next", "lookup", "create", "markExisting",
                                     "mark", "decision"},
                               todo : SUBSET Decisions, current : Decisions \cup {0}]]

(* A job before its simulation has left no trace, a job after it has a     *)
(* passed artifact, and a decision nobody made has no job.                 *)
Fits(step, status, proof, untouched, acted) ==
  /\ status = "none" => step = "idle" /\ untouched
  /\ step = "simulate" => untouched
  /\ step \notin {"idle", "simulate", "block"} => proof = "passed"
  /\ acted => proof = "passed"

DecisionInv(d) == Fits(job[d], decision[d], artifact[d], Untouched(d), Acted(d))

(* A waiting job waits once, is not running and has left no trace.         *)
Waiting(d) == job[d] = "idle" /\ decision[d] # "none" /\ Untouched(d)

QueueInv ==
  /\ Distinct(simQueue)
  /\ \A i \in 1 .. Len(simQueue) : Waiting(simQueue[i])

(* A reconciliation pass works on records only. *)
PassInv ==
  \A r \in Reconcilers :
    /\ \A d \in pass[r].todo : record[d] # "none"
    /\ pass[r].at \notin {"idle", "next"} =>
         pass[r].current \in Decisions /\ record[pass[r].current] # "none"

Inv ==
  /\ Types
  /\ \A d \in Decisions : DecisionInv(d)
  /\ QueueInv
  /\ PassInv

-----------------------------------------------------------------------------
(* The smaller of two integers, as Min of FiniteSetsExt gives it. *)
LEMMA MinOfTwo ==
  ASSUME NEW a \in Int, NEW b \in Int
  PROVE  /\ Min({a, b}) \in {a, b}
         /\ Min({a, b}) <= a /\ Min({a, b}) <= b
<1>1. \E x \in {a, b} : \A y \in {a, b} : x <= y
  OBVIOUS
<1>2. Min({a, b}) \in {a, b} /\ \A y \in {a, b} : Min({a, b}) <= y
  BY <1>1 DEF Min
<1> QED BY <1>2

(* Draining moves jobs from the queue to simulate, and nothing else.       *)
LEMMA DrainEffect ==
  ASSUME NEW queue \in Seq(Decisions), NEW busy \in Int,
         NEW jobs \in [Decisions -> Jobs],
         busy <= MAX_CONCURRENT_SIMS, Distinct(queue),
         Drain(queue, busy, jobs)
  PROVE  /\ simQueue' \in Seq(Decisions)
         /\ runningSims' \in Int /\ runningSims' <= MAX_CONCURRENT_SIMS
         /\ job' \in [Decisions -> Jobs]
         /\ Distinct(simQueue')
         /\ \A i \in 1 .. Len(simQueue') :
              /\ \E k \in 1 .. Len(queue) : simQueue'[i] = queue[k]
              /\ job'[simQueue'[i]] = jobs[simQueue'[i]]
         /\ \A d \in Decisions :
              \/ job'[d] = jobs[d]
              \/ job'[d] = "simulate" /\ \E k \in 1 .. Len(queue) : queue[k] = d
<1> DEFINE n == Min({Len(queue), MAX_CONCURRENT_SIMS - busy})
           started == {queue[i] : i \in 1 .. n}
<1>1. n \in Nat /\ n <= Len(queue) /\ n <= MAX_CONCURRENT_SIMS - busy
  <2> DEFINE l == Len(queue)
             free == MAX_CONCURRENT_SIMS - busy
  <2>1. l \in Nat /\ free \in Nat /\ l \in Int /\ free \in Int
    BY ConstantsAssumption
  <2> HIDE DEF l, free
  <2>2. /\ Min({l, free}) \in {l, free}
        /\ Min({l, free}) <= l /\ Min({l, free}) <= free
    BY <2>1, MinOfTwo, Zenon
  <2>3. Min({l, free}) \in Nat
    BY <2>1, <2>2
  <2> QED BY <2>2, <2>3 DEF l, free
<1>2. /\ simQueue' = SubSeq(queue, n + 1, Len(queue))
      /\ runningSims' = busy + n
      /\ job' = [d \in Decisions |-> IF d \in started THEN "simulate" ELSE jobs[d]]
  BY DEF Drain
<1> HIDE DEF n
<1>3. /\ simQueue' \in Seq(Decisions)
      /\ Len(simQueue') = Len(queue) - n
      /\ \A i \in 1 .. Len(simQueue') :
           i + n \in 1 .. Len(queue) /\ simQueue'[i] = queue[i + n]
  BY <1>1, <1>2
<1>4. Distinct(simQueue')
  <2> SUFFICES ASSUME NEW i \in 1 .. Len(simQueue'), NEW j \in 1 .. Len(simQueue'),
                      simQueue'[i] = simQueue'[j]
               PROVE  i = j
    BY DEF Distinct
  <2>1. i + n = j + n
    BY <1>3 DEF Distinct
  <2> QED BY <2>1, <1>1, <1>3
<1>5. ASSUME NEW i \in 1 .. Len(simQueue')
      PROVE  /\ \E k \in 1 .. Len(queue) : simQueue'[i] = queue[k]
             /\ job'[simQueue'[i]] = jobs[simQueue'[i]]
  <2>1. i + n \in 1 .. Len(queue) /\ simQueue'[i] = queue[i + n]
    BY <1>3
  <2>2. queue[i + n] \notin started
    <3> SUFFICES ASSUME NEW k \in 1 .. n, queue[k] = queue[i + n] PROVE FALSE
      OBVIOUS
    <3>1. k \in 1 .. Len(queue)
      BY <1>1
    <3>2. k = i + n
      BY <3>1, <2>1 DEF Distinct
    <3> QED BY <3>2, <1>1, <1>3
  <2>3. queue[i + n] \in Decisions
    BY <2>1
  <2> QED BY <2>1, <2>2, <2>3, <1>2
<1>6. ASSUME NEW d \in Decisions
      PROVE  \/ job'[d] = jobs[d]
             \/ job'[d] = "simulate" /\ \E k \in 1 .. Len(queue) : queue[k] = d
  BY <1>1, <1>2
<1>7. job' \in [Decisions -> Jobs]
  BY <1>2 DEF Jobs
<1>8. runningSims' \in Int /\ runningSims' <= MAX_CONCURRENT_SIMS
  BY <1>1, <1>2, ConstantsAssumption
<1> QED BY <1>3, <1>4, <1>5, <1>6, <1>7, <1>8

-----------------------------------------------------------------------------
(* Nothing of what the invariant says of a decision changes. *)
Same(d) ==
  /\ decision'[d] = decision[d] /\ job'[d] = job[d]
  /\ artifact'[d] = artifact[d] /\ record'[d] = record[d]
  /\ positions'[d] = positions[d]
  /\ proposal'[d] = proposal[d] /\ moduleTx'[d] = moduleTx[d]

(* A step that touches one decision, and that one is not waiting. *)
LEMMA LocalStep ==
  ASSUME Inv, NEW d \in Decisions, ~Waiting(d), simQueue' = simQueue,
         \A e \in Decisions \ {d} : Same(e), DecisionInv(d)'
  PROVE  (\A e \in Decisions : DecisionInv(e)') /\ QueueInv'
<1>1. ASSUME NEW e \in Decisions \ {d} PROVE DecisionInv(e)' /\ (Waiting(e) => Waiting(e)')
  <2>1. Same(e) /\ DecisionInv(e)
    BY DEF Inv
  <2> QED BY <2>1 DEF Same, DecisionInv, Fits, Waiting, Untouched, Acted
<1>2. \A e \in Decisions : DecisionInv(e)'
  BY <1>1
<1>3. ASSUME NEW i \in 1 .. Len(simQueue) PROVE Waiting(simQueue[i])'
  <2>1. simQueue[i] \in Decisions /\ Waiting(simQueue[i])
    BY DEF Inv, Types, QueueInv
  <2> PICK e \in Decisions : e = simQueue[i]
    BY <2>1
  <2>2. Waiting(e) /\ e # d
    BY <2>1
  <2>3. Waiting(e)'
    BY <1>1, <2>2
  <2> QED BY <2>3 DEF Waiting, Untouched
<1>4. QueueInv'
  BY <1>3 DEF QueueInv, Distinct, Inv
<1> QED BY <1>2, <1>4

(* Records are never taken back, so a pass that goes on keeps its facts. *)
LEMMA PassKept ==
  ASSUME Inv, pass' = pass,
         \A e \in Decisions : record[e] # "none" => record'[e] # "none"
  PROVE  PassInv'
BY DEF Inv, PassInv, Types

(* The end of the process leaves the database and the chain as they are.   *)
LEMMA MemoryLost ==
  ASSUME Inv, LoseMemory,
         \A e \in Decisions : decision'[e] = decision[e] /\ artifact'[e] = artifact[e]
                               /\ record'[e] = record[e] /\ positions'[e] = positions[e]
                               /\ proposal'[e] = proposal[e] /\ moduleTx'[e] = moduleTx[e]
  PROVE  (\A e \in Decisions : DecisionInv(e)') /\ QueueInv' /\ PassInv'
<1>1. ASSUME NEW e \in Decisions PROVE DecisionInv(e)'
  <2>1. DecisionInv(e) /\ job'[e] = "idle"
    BY DEF Inv, LoseMemory
  <2> QED BY <2>1 DEF DecisionInv, Fits, Untouched, Acted
<1>2. QueueInv'
  BY DEF LoseMemory, QueueInv, Distinct
<1>3. PassInv'
  BY DEF LoseMemory, PassInv, IdlePass
<1> QED BY <1>1, <1>2, <1>3

(* A step that ends with drainSimQueue: if the jobs it hands over fit      *)
(* their decisions, so do the jobs it leaves.                              *)
LEMMA DrainStep ==
  ASSUME NEW queue \in Seq(Decisions), NEW busy \in Int,
         NEW jobs \in [Decisions -> Jobs],
         busy <= MAX_CONCURRENT_SIMS, Distinct(queue),
         Drain(queue, busy, jobs),
         \A i \in 1 .. Len(queue) :
           jobs[queue[i]] = "idle" /\ \E e \in Decisions :
             e = queue[i] /\ decision'[e] # "none" /\ Untouched(e)',
         \A e \in Decisions :
           Fits(jobs[e], decision'[e], artifact'[e], Untouched(e)', Acted(e)')
  PROVE  /\ \A e \in Decisions : DecisionInv(e)'
         /\ QueueInv'
         /\ simQueue' \in Seq(Decisions) /\ job' \in [Decisions -> Jobs]
         /\ runningSims' \in Int /\ runningSims' <= MAX_CONCURRENT_SIMS
<1>1. /\ simQueue' \in Seq(Decisions)
      /\ runningSims' \in Int /\ runningSims' <= MAX_CONCURRENT_SIMS
      /\ job' \in [Decisions -> Jobs]
      /\ Distinct(simQueue')
      /\ \A i \in 1 .. Len(simQueue') :
           /\ \E k \in 1 .. Len(queue) : simQueue'[i] = queue[k]
           /\ job'[simQueue'[i]] = jobs[simQueue'[i]]
      /\ \A d \in Decisions :
           \/ job'[d] = jobs[d]
           \/ job'[d] = "simulate" /\ \E k \in 1 .. Len(queue) : queue[k] = d
  BY DrainEffect
<1>2. ASSUME NEW e \in Decisions PROVE DecisionInv(e)'
  <2>1. Fits(jobs[e], decision'[e], artifact'[e], Untouched(e)', Acted(e)')
    OBVIOUS
  <2>2. CASE job'[e] = jobs[e]
    BY <2>1, <2>2 DEF DecisionInv
  <2>3. CASE job'[e] = "simulate" /\ \E k \in 1 .. Len(queue) : queue[k] = e
    <3>1. decision'[e] # "none" /\ Untouched(e)'
      BY <2>3
    <3> QED BY <2>1, <2>3, <3>1 DEF DecisionInv, Fits
  <2> QED BY <1>1, <2>2, <2>3
<1>3. ASSUME NEW i \in 1 .. Len(simQueue') PROVE Waiting(simQueue[i])'
  <2>1. PICK k \in 1 .. Len(queue) : simQueue'[i] = queue[k]
    BY <1>1
  <2>2. PICK e \in Decisions : e = queue[k] /\ decision'[e] # "none" /\ Untouched(e)'
    OBVIOUS
  <2>3. job'[e] = "idle"
    BY <1>1, <2>1, <2>2
  <2> QED BY <2>1, <2>2, <2>3 DEF Waiting, Untouched
<1>4. QueueInv'
  BY <1>1, <1>3 DEF QueueInv, Distinct
<1> QED BY <1>1, <1>2, <1>4

(* A job that ends leaves its decision as the database and the chain have  *)
(* it, whatever becomes of the status.                                     *)
LEMMA DoneStep ==
  ASSUME Inv, NEW d \in Decisions, job[d] # "idle", Done(d),
         \A e \in Decisions : decision[e] # "none" => decision'[e] # "none",
         UNCHANGED <<artifact, record, positions, proposal, moduleTx>>
  PROVE  /\ \A e \in Decisions : DecisionInv(e)'
         /\ QueueInv'
         /\ simQueue' \in Seq(Decisions) /\ job' \in [Decisions -> Jobs]
         /\ runningSims' \in Int /\ runningSims' <= MAX_CONCURRENT_SIMS
<1> DEFINE jobs == [job EXCEPT ![d] = "idle"]
<1>1. /\ simQueue \in Seq(Decisions) /\ Distinct(simQueue)
      /\ runningSims - 1 \in Int /\ runningSims - 1 <= MAX_CONCURRENT_SIMS
      /\ job \in [Decisions -> Jobs] /\ jobs \in [Decisions -> Jobs]
      /\ Drain(simQueue, runningSims - 1, jobs)
  BY ConstantsAssumption DEF Inv, Types, QueueInv, Done, Jobs
<1>2. ASSUME NEW e \in Decisions
      PROVE  /\ Untouched(e) <=> Untouched(e)'
             /\ Fits(jobs[e], decision'[e], artifact'[e], Untouched(e)', Acted(e)')
  <2>1. DecisionInv(e)
    BY DEF Inv
  <2>2. (Untouched(e) <=> Untouched(e)') /\ (Acted(e) <=> Acted(e)')
    BY DEF Untouched, Acted
  <2>3. jobs[e] = job[e] \/ jobs[e] = "idle"
    BY <1>1
  <2>4. decision'[e] = "none" => jobs[e] = "idle"
    BY <1>1, <2>1 DEF DecisionInv, Fits
  <2> QED BY <2>1, <2>2, <2>3, <2>4 DEF DecisionInv, Fits
<1>3. ASSUME NEW i \in 1 .. Len(simQueue)
      PROVE  jobs[simQueue[i]] = "idle" /\ \E e \in Decisions :
               e = simQueue[i] /\ decision'[e] # "none" /\ Untouched(e)'
  <2>1. simQueue[i] \in Decisions /\ Waiting(simQueue[i])
    BY <1>1 DEF Inv, QueueInv
  <2> PICK e \in Decisions : e = simQueue[i]
    BY <2>1
  <2>2. Waiting(e)
    BY <2>1
  <2>3. jobs[e] = "idle"
    BY <1>1, <2>2 DEF Waiting
  <2>4. decision'[e] # "none" /\ Untouched(e)'
    BY <1>2, <2>2 DEF Waiting
  <2> QED BY <2>3, <2>4
<1> HIDE DEF jobs
<1> QED BY <1>1, <1>2, <1>3, DrainStep

LEMMA InvInit == Init => Inv
<1> SUFFICES ASSUME Init PROVE Inv
  OBVIOUS
<1>1. Types
  BY ConstantsAssumption DEF Init, Types, Jobs, NoNonce, IdlePass
<1>2. ASSUME NEW d \in Decisions PROVE DecisionInv(d)
  BY DEF Init, DecisionInv, Fits, Untouched, Acted
<1>3. QueueInv
  BY DEF Init, QueueInv, Distinct
<1>4. PassInv
  BY DEF Init, PassInv, IdlePass
<1> QED BY <1>1, <1>2, <1>3, <1>4 DEF Inv

-----------------------------------------------------------------------------
(* The steps of a job.                                                     *)

(* A job that goes on, with what it wrote for its own decision.            *)
LEMMA GotoStep ==
  ASSUME Inv, NEW d \in Decisions, NEW step \in Jobs, job[d] # "idle",
         Goto(d, step), UNCHANGED <<decision, pass>>,
         \A e \in Decisions \ {d} :
           /\ artifact'[e] = artifact[e] /\ record'[e] = record[e]
           /\ positions'[e] = positions[e]
           /\ proposal'[e] = proposal[e] /\ moduleTx'[e] = moduleTx[e],
         record[d] # "none" => record'[d] # "none",
         step # "simulate",
         step \in {"idle", "block"} \/ artifact'[d] = "passed",
         Acted(d)' => artifact'[d] = "passed",
         Types'
  PROVE  Inv'
<1>1. decision'[d] # "none" /\ job'[d] = step /\ ~Waiting(d) /\ simQueue' = simQueue
  BY DEF Inv, Types, DecisionInv, Fits, Goto, Waiting
<1>2. DecisionInv(d)'
  BY <1>1 DEF DecisionInv, Fits
<1>3. \A e \in Decisions \ {d} : Same(e)
  BY DEF Same, Goto, Inv, Types
<1>4. PassInv'
  BY PassKept, <1>3 DEF Same
<1>5. (\A e \in Decisions : DecisionInv(e)') /\ QueueInv'
  BY <1>1, <1>2, <1>3, LocalStep
<1> QED BY <1>4, <1>5 DEF Inv

LEMMA SimulateStep ==
  ASSUME Inv, NEW d \in Decisions, Simulate(d)
  PROVE  Inv'
<1>1. job[d] = "simulate" /\ Untouched(d)
  BY DEF Inv, DecisionInv, Fits, Simulate
<1>2. CASE Done(d) /\ UNCHANGED artifact
  <2>1. /\ \A e \in Decisions : DecisionInv(e)'
        /\ QueueInv'
        /\ simQueue' \in Seq(Decisions) /\ job' \in [Decisions -> Jobs]
        /\ runningSims' \in Int /\ runningSims' <= MAX_CONCURRENT_SIMS
    <3>1. UNCHANGED <<decision, artifact, record, positions, proposal, moduleTx>>
      BY <1>2 DEF Simulate, chain, safe
    <3> QED BY <1>1, <1>2, <3>1, DoneStep
  <2>2. Types'
    BY <1>2, <2>1 DEF Inv, Types, Simulate, chain, safe
  <2>3. PassInv'
    BY <1>2, PassKept DEF Simulate
  <2> QED BY <2>1, <2>2, <2>3 DEF Inv
<1>3. ASSUME NEW result \in {"passed", "failed"}, NEW step \in Jobs,
             artifact' = [artifact EXCEPT ![d] = result], Goto(d, step),
             result = "failed" => step = "block",
             result = "passed" => step \in {"forkRecord", "module", "nonce"}
      PROVE  Inv'
  <2>1. UNCHANGED <<decision, pass, record, positions, proposal, moduleTx,
                    nonceRead, safeNonce>>
    BY DEF Simulate, chain, safe
  <2>2. artifact' \in [Decisions -> {"none", "passed", "failed"}] /\ artifact'[d] = result
    BY <1>3 DEF Inv, Types
  <2>3. Types'
    BY <1>3, <2>1, <2>2 DEF Inv, Types, Goto
  <2>4. ~Acted(d)'
    BY <1>1, <2>1 DEF Acted, Untouched, Inv, Types, NoNonce
  <2> QED BY <1>1, <1>3, <2>1, <2>2, <2>3, <2>4, GotoStep DEF Inv, Types
<1>4. PICK result \in {"passed", "failed"}, step \in Jobs :
        \/ Done(d) /\ UNCHANGED artifact
        \/ /\ artifact' = [artifact EXCEPT ![d] = result] /\ Goto(d, step)
           /\ result = "failed" => step = "block"
           /\ result = "passed" => step \in {"forkRecord", "module", "nonce"}
  BY DEF Simulate, Jobs
<1> QED BY <1>2, <1>3, <1>4

LEMMA FinishStep ==
  ASSUME Inv, NEW d \in Decisions, Finish(d)
  PROVE  Inv'
<1>1. /\ job[d] \in {"block", "ready", "executed"} /\ Done(d)
      /\ UNCHANGED <<artifact, record, positions, nonceRead, pass, proposal, moduleTx, safeNonce>>
  BY DEF Finish, chain, safe
<1>2. /\ decision' \in [Decisions -> {"none", "simulating", "blocked", "ready", "executed"}]
      /\ \A e \in Decisions : decision[e] # "none" => decision'[e] # "none"
  <2> DEFINE status == IF job[d] = "block" THEN "blocked" ELSE job[d]
  <2>1. decision' = [decision EXCEPT ![d] = status] \/ decision' = decision
    BY DEF Finish
  <2>2. status \in {"blocked", "ready", "executed"}
    BY <1>1
  <2>3. decision \in [Decisions -> {"none", "simulating", "blocked", "ready", "executed"}]
    BY DEF Inv, Types
  <2> HIDE DEF status
  <2> QED BY <2>1, <2>2, <2>3
<1>3. /\ \A e \in Decisions : DecisionInv(e)'
      /\ QueueInv'
      /\ simQueue' \in Seq(Decisions) /\ job' \in [Decisions -> Jobs]
      /\ runningSims' \in Int /\ runningSims' <= MAX_CONCURRENT_SIMS
  BY <1>1, <1>2, DoneStep
<1>4. Types'
  BY <1>1, <1>2, <1>3 DEF Inv, Types
<1>5. PassInv'
  BY <1>1, PassKept
<1> QED BY <1>3, <1>4, <1>5 DEF Inv

(* The insert of an execution record: done, or the process ends.           *)
LEMMA InsertStep ==
  ASSUME Inv, NEW d \in Decisions,
         NEW status \in {"proposed", "submitted", "reconciled"},
         NEW step \in {"position", "ready"},
         job[d] \notin {"idle", "simulate", "block"},
         InsertRecord(d, status, step),
         UNCHANGED <<decision, artifact, positions, chain>>
  PROVE  Inv'
<1>1. artifact[d] = "passed" /\ artifact'[d] = "passed"
  BY DEF Inv, DecisionInv, Fits
<1>2. UNCHANGED <<proposal, moduleTx, safeNonce>>
  BY DEF chain, safe
<1>3. CASE LoseMemory /\ UNCHANGED record
  <2>1. Types'
    BY <1>2, <1>3, ConstantsAssumption DEF Inv, Types, LoseMemory, IdlePass, NoNonce, Jobs
  <2> QED BY <1>2, <1>3, <2>1, MemoryLost DEF Inv
<1>4. CASE /\ record' = [record EXCEPT ![d] = status] /\ Goto(d, step)
           /\ UNCHANGED <<nonceRead, scan, pass>>
  <2>1. /\ record' \in [Decisions -> {"none", "proposed", "submitted", "reconciled"}]
        /\ record'[d] # "none"
        /\ \A e \in Decisions \ {d} : record'[e] = record[e]
    <3>1. record \in [Decisions -> {"none", "proposed", "submitted", "reconciled"}]
      BY DEF Inv, Types
    <3> QED BY <1>4, <3>1
  <2>2. Types'
    BY <1>2, <1>4, <2>1 DEF Inv, Types, Goto, Jobs
  <2>3. step \in Jobs /\ step # "simulate"
    BY DEF Jobs
  <2> QED BY <1>1, <1>2, <1>4, <2>1, <2>2, <2>3, GotoStep
<1> QED BY <1>3, <1>4 DEF InsertRecord

LEMMA RecordSteps ==
  ASSUME Inv, NEW d \in Decisions, ForkRecord(d) \/ RecordProposal(d)
  PROVE  Inv'
<1>1. CASE ForkRecord(d)
  BY <1>1, InsertStep DEF ForkRecord
<1>2. CASE RecordProposal(d)
  BY <1>2, InsertStep DEF RecordProposal
<1> QED BY <1>1, <1>2

LEMMA ForkPositionStep ==
  ASSUME Inv, NEW d \in Decisions, ForkPosition(d)
  PROVE  Inv'
<1>1. /\ artifact[d] = "passed" /\ artifact'[d] = "passed" /\ job[d] # "idle"
      /\ UNCHANGED <<decision, artifact, record, proposal, moduleTx, safeNonce>>
  BY DEF Inv, DecisionInv, Fits, ForkPosition, chain, safe
<1>2. CASE LoseMemory /\ UNCHANGED positions
  <2>1. Types'
    BY <1>1, <1>2, ConstantsAssumption DEF Inv, Types, LoseMemory, IdlePass, NoNonce, Jobs
  <2> QED BY <1>1, <1>2, <2>1, MemoryLost DEF Inv
<1>3. CASE /\ positions' = [positions EXCEPT ![d] = @ + 1] /\ Goto(d, "ready")
           /\ UNCHANGED <<nonceRead, scan, pass>>
  <2>1. Types'
    BY <1>1, <1>3 DEF Inv, Types, Goto, Jobs
  <2> QED BY <1>1, <1>3, <2>1, GotoStep DEF Inv, Types, Jobs
<1> QED BY <1>2, <1>3 DEF ForkPosition

(* The steps between the simulation and the records of both channels.      *)
LEMMA ChannelSteps ==
  ASSUME Inv, NEW d \in Decisions,
         \/ SendModuleTx(d) \/ ReadReceipt(d) \/ RecordModuleTx(d)
         \/ ReadSafeNonce(d) \/ PostProposal(d)
  PROVE  Inv'
<1>1. /\ artifact[d] = "passed" /\ artifact'[d] = "passed" /\ job[d] # "idle"
      /\ UNCHANGED <<decision, artifact, positions, pass, safeNonce>>
  BY DEF Inv, DecisionInv, Fits, SendModuleTx, ReadReceipt, RecordModuleTx,
         ReadSafeNonce, PostProposal, database, chain, safe
<1>2. PICK step \in {"receipt", "nonce", "moduleRecord", "executed", "post",
                     "recordProposed", "recordSubmitted"} : Goto(d, step)
  BY DEF SendModuleTx, ReadReceipt, RecordModuleTx, ReadSafeNonce, PostProposal
<1>3. /\ record' = record \/ record' = [record EXCEPT ![d] = "reconciled"]
      /\ moduleTx' = moduleTx \/ moduleTx' = [moduleTx EXCEPT ![d] = "pending"]
      /\ proposal' = proposal \/ proposal' = [proposal EXCEPT ![d] = nonceRead[d]]
      /\ \/ nonceRead' = nonceRead
         \/ nonceRead' = [nonceRead EXCEPT ![d] = safeNonce]
         \/ nonceRead' = [nonceRead EXCEPT ![d] = NoNonce]
  BY DEF SendModuleTx, ReadReceipt, RecordModuleTx, ReadSafeNonce, PostProposal,
         database, chain, safe
<1>4. /\ record' \in [Decisions -> {"none", "proposed", "submitted", "reconciled"}]
      /\ record[d] # "none" => record'[d] # "none"
      /\ \A e \in Decisions \ {d} : record'[e] = record[e]
  <2>1. record \in [Decisions -> {"none", "proposed", "submitted", "reconciled"}]
    BY DEF Inv, Types
  <2> QED BY <1>3, <2>1
<1>5. /\ moduleTx' \in [Decisions -> {"none", "pending", "executed", "reverted"}]
      /\ \A e \in Decisions \ {d} : moduleTx'[e] = moduleTx[e]
  <2>1. moduleTx \in [Decisions -> {"none", "pending", "executed", "reverted"}]
    BY DEF Inv, Types
  <2> QED BY <1>3, <2>1
<1>6. /\ proposal' \in [Decisions -> Int] /\ nonceRead' \in [Decisions -> Int]
      /\ \A e \in Decisions \ {d} : proposal'[e] = proposal[e]
  <2>1. /\ proposal \in [Decisions -> Int] /\ nonceRead \in [Decisions -> Int]
        /\ safeNonce \in Int /\ NoNonce \in Int
    BY DEF Inv, Types, NoNonce
  <2> QED BY <1>3, <2>1
<1>7. step \in Jobs /\ step # "simulate"
  BY DEF Jobs
<1>8. Types'
  BY <1>1, <1>2, <1>4, <1>5, <1>6, <1>7 DEF Inv, Types, Goto
<1> QED BY <1>1, <1>2, <1>4, <1>5, <1>6, <1>7, <1>8, GotoStep

LEMMA JobKeepsInv ==
  ASSUME Inv, NEW d \in Decisions, JobStep(d)
  PROVE  Inv'
BY SimulateStep, FinishStep, RecordSteps, ForkPositionStep, ChannelSteps DEF JobStep

-----------------------------------------------------------------------------
(* The scans, the chain and the reconciliation.                            *)

LEMMA DecideStep ==
  ASSUME Inv, NEW s \in Scanners, NEW d \in Decisions, NEW p, Decide(s, d, p)
  PROVE  Inv'
<1>1. /\ d \notin Created
      /\ decision' = [decision EXCEPT ![d] = "simulating"]
      /\ Drain(Append(simQueue, d), runningSims, job)
      /\ UNCHANGED <<artifact, record, positions, nonceRead, pass,
                     proposal, moduleTx, safeNonce>>
  BY DEF Decide, chain, safe
<1>2. decision[d] = "none" /\ job[d] = "idle" /\ Untouched(d)
  BY <1>1 DEF Created, Inv, DecisionInv, Fits
<1>3. /\ decision' \in [Decisions -> {"none", "simulating", "blocked", "ready", "executed"}]
      /\ \A e \in Decisions : decision[e] # "none" => decision'[e] # "none"
      /\ decision'[d] # "none"
  BY <1>1 DEF Inv, Types
<1>4. ASSUME NEW e \in Decisions
      PROVE  /\ Untouched(e) => Untouched(e)'
             /\ Fits(job[e], decision'[e], artifact'[e], Untouched(e)', Acted(e)')
  <2>1. (Untouched(e) <=> Untouched(e)') /\ (Acted(e) <=> Acted(e)')
    BY <1>1 DEF Untouched, Acted
  <2>2. DecisionInv(e)
    BY DEF Inv
  <2> QED BY <1>1, <1>3, <2>1, <2>2 DEF DecisionInv, Fits
<1> DEFINE queue == Append(simQueue, d)
<1>5. /\ simQueue \in Seq(Decisions) /\ queue \in Seq(Decisions)
      /\ Len(queue) = Len(simQueue) + 1
      /\ \A i \in 1 .. Len(simQueue) : queue[i] = simQueue[i]
      /\ queue[Len(simQueue) + 1] = d
  BY DEF Inv, Types
<1> HIDE DEF queue
<1>6. ASSUME NEW i \in 1 .. Len(simQueue)
      PROVE  simQueue[i] \in Decisions /\ Waiting(simQueue[i]) /\ simQueue[i] # d
  BY <1>2, <1>5 DEF Inv, QueueInv, Waiting
<1>7. Distinct(queue)
  BY <1>5, <1>6 DEF Distinct, Inv, QueueInv
<1>8. ASSUME NEW i \in 1 .. Len(queue)
      PROVE  job[queue[i]] = "idle" /\ \E e \in Decisions :
               e = queue[i] /\ decision'[e] # "none" /\ Untouched(e)'
  <2>1. CASE i \in 1 .. Len(simQueue)
    <3> PICK e \in Decisions : e = simQueue[i] /\ Waiting(e)
      BY <1>6, <2>1
    <3> QED BY <1>3, <1>4, <1>5, <2>1 DEF Waiting
  <2>2. CASE i = Len(simQueue) + 1
    BY <1>2, <1>3, <1>4, <1>5, <2>2
  <2> QED BY <1>5, <2>1, <2>2
<1>9. /\ runningSims \in Int /\ runningSims <= MAX_CONCURRENT_SIMS
      /\ job \in [Decisions -> Jobs] /\ Drain(queue, runningSims, job)
  BY <1>1 DEF Inv, Types, queue
<1>10. /\ \A e \in Decisions : DecisionInv(e)'
       /\ QueueInv'
       /\ simQueue' \in Seq(Decisions) /\ job' \in [Decisions -> Jobs]
       /\ runningSims' \in Int /\ runningSims' <= MAX_CONCURRENT_SIMS
  BY <1>4, <1>5, <1>7, <1>8, <1>9, DrainStep
<1>11. Types'
  BY <1>1, <1>3, <1>10 DEF Inv, Types
<1>12. PassInv'
  BY <1>1, PassKept
<1> QED BY <1>10, <1>11, <1>12 DEF Inv

(* A step that leaves the decisions and the jobs alone.                    *)
LEMMA QuietStep ==
  ASSUME Inv, safeNonce' \in Int,
         UNCHANGED <<decision, artifact, record, positions, queueing, nonceRead,
                     proposal, moduleTx, pass>>
  PROVE  Inv'
<1>1. Types'
  BY DEF Inv, Types, queueing
<1>2. ASSUME NEW d \in Decisions PROVE DecisionInv(d)'
  BY DEF Inv, DecisionInv, Fits, Untouched, Acted, queueing
<1>3. QueueInv'
  BY DEF Inv, QueueInv, Distinct, Waiting, Untouched, queueing
<1>4. PassInv'
  BY PassKept
<1> QED BY <1>1, <1>2, <1>3, <1>4 DEF Inv

LEMMA ScanKeepsInv ==
  ASSUME Inv, NEW s \in Scanners, ScanStep(s)
  PROVE  Inv'
<1>1. CASE StartScan(s) \/ ReadAUsdc(s) \/ CheckPending(s) \/ DecideNothing(s)
  <2>1. UNCHANGED <<decision, artifact, record, positions, queueing, nonceRead,
                    proposal, moduleTx, pass, safeNonce>>
    BY <1>1 DEF StartScan, ReadAUsdc, CheckPending, DecideNothing, database, chain, safe
  <2> QED BY <2>1, QuietStep DEF Inv, Types
<1> QED BY <1>1, DecideStep DEF ScanStep

LEMMA ChainKeepsInv ==
  ASSUME Inv,
         \/ \E d \in Decisions : MineModuleTx(d) \/ ExecuteProposal(d) \/ AgeOut(d)
         \/ \E balance \in OutsideBalances : OutsideTransfer(balance)
         \/ Crash
  PROVE  Inv'
<1>1. ASSUME NEW d \in Decisions, MineModuleTx(d) PROVE Inv'
  <2>1. /\ moduleTx[d] = "pending" /\ pass' = pass
        /\ \/ moduleTx' = [moduleTx EXCEPT ![d] = "executed"]
           \/ moduleTx' = [moduleTx EXCEPT ![d] = "reverted"]
        /\ UNCHANGED <<decision, artifact, record, positions, queueing, nonceRead,
                       proposal, safeNonce>>
    BY <1>1 DEF MineModuleTx, database, memory, safe
  <2>2. /\ moduleTx' \in [Decisions -> {"none", "pending", "executed", "reverted"}]
        /\ moduleTx'[d] # "none"
        /\ \A e \in Decisions \ {d} : moduleTx'[e] = moduleTx[e]
    <3>1. moduleTx \in [Decisions -> {"none", "pending", "executed", "reverted"}]
      BY DEF Inv, Types
    <3> QED BY <2>1, <3>1
  <2>3. Types'
    BY <2>1, <2>2 DEF Inv, Types, queueing
  <2>4. \A e \in Decisions \ {d} : Same(e)
    BY <2>1, <2>2 DEF Same, queueing
  <2>5. ~Waiting(d) /\ DecisionInv(d)'
    BY <2>1, <2>2 DEF Inv, DecisionInv, Fits, Waiting, Untouched, Acted, queueing
  <2>6. (\A e \in Decisions : DecisionInv(e)') /\ QueueInv'
    BY <2>1, <2>4, <2>5, LocalStep DEF queueing
  <2>7. PassInv'
    BY <2>1, PassKept
  <2> QED BY <2>3, <2>6, <2>7 DEF Inv
<1>2. ASSUME NEW d \in Decisions, ExecuteProposal(d) PROVE Inv'
  BY <1>2, QuietStep DEF ExecuteProposal, database, memory, Inv, Types
<1>3. ASSUME NEW d \in Decisions, AgeOut(d) PROVE Inv'
  BY <1>3, QuietStep DEF AgeOut, memory, chain, safe, Inv, Types
<1>4. ASSUME NEW balance \in OutsideBalances, OutsideTransfer(balance) PROVE Inv'
  BY <1>4, QuietStep DEF OutsideTransfer, database, memory, Inv, Types
<1>5. CASE Crash
  <2>1. LoseMemory /\ UNCHANGED <<decision, artifact, record, positions, proposal,
                                  moduleTx, safeNonce>>
    BY <1>5 DEF Crash, database, chain, safe
  <2>2. Types'
    BY <2>1, ConstantsAssumption DEF Inv, Types, LoseMemory, IdlePass, NoNonce, Jobs
  <2> QED BY <2>1, <2>2, MemoryLost DEF Inv
<1> QED BY <1>1, <1>2, <1>3, <1>4, <1>5

(* A pass that moves to records that exist. *)
LEMMA PassMoves ==
  ASSUME Inv, NEW r \in Reconcilers,
         NEW at \in {"idle", "next", "lookup", "create", "markExisting", "mark", "decision"},
         NEW todo \in SUBSET Decisions, NEW current \in Decisions \cup {0},
         pass' = [pass EXCEPT ![r] = [at |-> at, todo |-> todo, current |-> current]],
         \A d \in todo : record[d] # "none",
         at \notin {"idle", "next"} => current \in Decisions /\ record[current] # "none",
         \A e \in Decisions : record[e] # "none" => record'[e] # "none"
  PROVE  /\ pass' \in [Reconcilers -> [at : {"idle", "next", "lookup", "create", "markExisting",
                                             "mark", "decision"},
                                       todo : SUBSET Decisions, current : Decisions \cup {0}]]
         /\ PassInv'
<1>1. pass \in [Reconcilers -> [at : {"idle", "next", "lookup", "create", "markExisting",
                                     "mark", "decision"},
                               todo : SUBSET Decisions, current : Decisions \cup {0}]]
  BY DEF Inv, Types
<1>2. pass' \in [Reconcilers -> [at : {"idle", "next", "lookup", "create", "markExisting",
                                      "mark", "decision"},
                                todo : SUBSET Decisions, current : Decisions \cup {0}]]
  BY <1>1
<1>3. ASSUME NEW q \in Reconcilers
      PROVE  /\ \A d \in pass'[q].todo : record'[d] # "none"
             /\ pass'[q].at \notin {"idle", "next"} =>
                  pass'[q].current \in Decisions /\ record'[pass'[q].current] # "none"
  <2>1. CASE q = r
    <3>1. pass'[r] = [at |-> at, todo |-> todo, current |-> current]
      BY <1>1
    <3> QED BY <2>1, <3>1
  <2>2. CASE q # r
    <3>1. pass'[q] = pass[q] /\ pass[q].todo \subseteq Decisions
      BY <1>1, <2>2
    <3>2. PassInv
      BY DEF Inv
    <3> QED BY <3>1, <3>2 DEF PassInv
  <2> QED BY <2>1, <2>2
<1> QED BY <1>2, <1>3 DEF PassInv

(* The steps of a pass: they write to its current record only.             *)
LEMMA ReconcileKeepsInv ==
  ASSUME Inv, NEW r \in Reconcilers, ReconcileStep(r)
  PROVE  Inv'
<1> DEFINE Move(at, todo, current) ==
      /\ pass' = [pass EXCEPT ![r] = [at |-> at, todo |-> todo, current |-> current]]
      /\ todo \in SUBSET Decisions /\ current \in Decisions \cup {0}
      /\ \A d \in todo : record[d] # "none"
      /\ at \notin {"idle", "next"} => current \in Decisions /\ record[current] # "none"
    Steps == {"idle", "next", "lookup", "create", "markExisting", "mark", "decision"}
<1>1. UNCHANGED <<artifact, queueing, nonceRead, proposal, moduleTx, safeNonce>>
  BY DEF ReconcileStep, StartReconcile, ReadStatus, LookupPosition, MarkExisting,
         ActivatePosition, MarkReconciled, MarkDecision, database, chain, safe
<1>2. /\ pass[r].todo \in SUBSET Decisions /\ pass[r].current \in Decisions \cup {0}
      /\ pass[r] = [at |-> pass[r].at, todo |-> pass[r].todo, current |-> pass[r].current]
      /\ \A d \in pass[r].todo : record[d] # "none"
      /\ pass[r].at \notin {"idle", "next"} =>
           pass[r].current \in Decisions /\ record[pass[r].current] # "none"
  BY DEF Inv, Types, PassInv
<1>3. ASSUME NEW todo \in SUBSET Decisions, \A d \in todo : record[d] # "none",
             NextRecord(r, todo)
      PROVE  \E at \in Steps, t \in SUBSET Decisions, current \in Decisions \cup {0} :
               Move(at, t, current)
  <2>1. CASE todo = {}
    <3>1. Move("idle", {}, 0)
      BY <1>3, <2>1 DEF NextRecord, IdlePass
    <3> QED BY <3>1
  <2>2. CASE todo # {}
    <3>1. Move("next", todo, 0)
      BY <1>3, <2>2 DEF NextRecord
    <3> QED BY <3>1
  <2> QED BY <2>1, <2>2
<1>4. ASSUME NEW step \in Steps, pass[r].at \notin {"idle", "next"}, PassGoto(r, step)
      PROVE  \E at \in Steps, t \in SUBSET Decisions, current \in Decisions \cup {0} :
               Move(at, t, current)
  <2>1. pass' = [pass EXCEPT ![r] = [at |-> step, todo |-> pass[r].todo,
                                      current |-> pass[r].current]]
    <3>1. [pass[r] EXCEPT !.at = step] = [at |-> step, todo |-> pass[r].todo,
                                          current |-> pass[r].current]
      BY <1>2
    <3>2. pass' = [pass EXCEPT ![r] = [pass[r] EXCEPT !.at = step]]
      BY <1>4 DEF PassGoto
    <3> QED BY <3>1, <3>2
  <2>2. Move(step, pass[r].todo, pass[r].current)
    BY <1>2, <1>4, <2>1
  <2> QED BY <1>2, <2>2
<1>5. \E at \in Steps, t \in SUBSET Decisions, current \in Decisions \cup {0} :
        Move(at, t, current)
  <2>1. CASE StartReconcile(r)
    <3> PICK rows \in SUBSET Submitted :
          pass' = [pass EXCEPT ![r] = [at |-> "next", todo |-> rows, current |-> 0]]
      BY <2>1 DEF StartReconcile
    <3>1. Move("next", rows, 0)
      BY DEF Submitted
    <3> QED BY <3>1
  <2>2. CASE ReadStatus(r)
    <3> PICK d \in pass[r].todo :
          \/ pass' = [pass EXCEPT ![r] = [at |-> "lookup", todo |-> pass[r].todo \ {d},
                                         current |-> d]]
          \/ NextRecord(r, pass[r].todo \ {d})
      BY <2>2 DEF ReadStatus
    <3>1. CASE NextRecord(r, pass[r].todo \ {d})
      BY <1>2, <1>3, <3>1
    <3>2. CASE pass' = [pass EXCEPT ![r] = [at |-> "lookup", todo |-> pass[r].todo \ {d},
                                            current |-> d]]
      <4>1. Move("lookup", pass[r].todo \ {d}, d)
        BY <1>2, <3>2
      <4> QED BY <1>2, <4>1
    <3> QED BY <3>1, <3>2
  <2>3. CASE LookupPosition(r)
    <3>1. /\ pass[r].at \notin {"idle", "next"}
          /\ PassGoto(r, "markExisting") \/ PassGoto(r, "create")
      BY <2>3 DEF LookupPosition
    <3> HIDE DEF Move
    <3> QED BY <1>4, <3>1
  <2>4. CASE MarkExisting(r) \/ ActivatePosition(r) \/ MarkReconciled(r) \/ MarkDecision(r)
    <3>1. /\ pass[r].at \notin {"idle", "next"}
          /\ PassGoto(r, "mark") \/ PassGoto(r, "decision") \/ NextRecord(r, pass[r].todo)
      BY <2>4 DEF MarkExisting, ActivatePosition, MarkReconciled, MarkDecision
    <3> HIDE DEF Move
    <3> QED BY <1>2, <1>3, <1>4, <3>1
  <2> QED BY <2>1, <2>2, <2>3, <2>4 DEF ReconcileStep
<1> PICK c \in Decisions \cup {0} : c = pass[r].current
  BY <1>2
<1>6. \/ UNCHANGED <<decision, record, positions>>
      \/ /\ c \in Decisions /\ record[c] # "none"
         /\ \/ /\ record' = [record EXCEPT ![c] = "reconciled"]
               /\ UNCHANGED <<decision, positions>>
            \/ /\ positions' = [positions EXCEPT ![c] = @ + 1]
               /\ UNCHANGED <<decision, record>>
            \/ /\ decision' = [decision EXCEPT ![c] = "executed"]
               /\ UNCHANGED <<record, positions>>
  BY <1>2 DEF ReconcileStep, StartReconcile, ReadStatus, LookupPosition, MarkExisting,
         ActivatePosition, MarkReconciled, MarkDecision, database
<1>7. /\ record' \in [Decisions -> {"none", "proposed", "submitted", "reconciled"}]
      /\ positions' \in [Decisions -> Nat]
      /\ decision' \in [Decisions -> {"none", "simulating", "blocked", "ready", "executed"}]
      /\ \A e \in Decisions : record[e] # "none" => record'[e] # "none"
      /\ \A e \in Decisions : decision[e] # "none" => decision'[e] # "none"
  <2>1. /\ record \in [Decisions -> {"none", "proposed", "submitted", "reconciled"}]
        /\ positions \in [Decisions -> Nat]
        /\ decision \in [Decisions -> {"none", "simulating", "blocked", "ready", "executed"}]
    BY DEF Inv, Types
  <2> QED BY <1>6, <2>1
<1>8. Types' /\ PassInv'
  <2>1. /\ pass' \in [Reconcilers -> [at : Steps, todo : SUBSET Decisions,
                                      current : Decisions \cup {0}]]
        /\ PassInv'
    <3> PICK at \in Steps, t \in SUBSET Decisions, current \in Decisions \cup {0} :
          Move(at, t, current)
      BY <1>5
    <3> QED BY <1>7, PassMoves
  <2> QED BY <1>1, <1>7, <2>1 DEF Inv, Types, queueing
<1>9. CASE UNCHANGED <<decision, record, positions>>
  <2>1. ASSUME NEW d \in Decisions PROVE DecisionInv(d)'
    BY <1>1, <1>9 DEF Inv, DecisionInv, Fits, Untouched, Acted, queueing
  <2>2. QueueInv'
    BY <1>1, <1>9 DEF Inv, QueueInv, Distinct, Waiting, Untouched, queueing
  <2> QED BY <1>8, <2>1, <2>2 DEF Inv
<1>10. CASE c \in Decisions /\ record[c] # "none" /\
            \A e \in Decisions \ {c} :
              decision'[e] = decision[e] /\ record'[e] = record[e] /\ positions'[e] = positions[e]
  <2>1. \A e \in Decisions \ {c} : Same(e)
    BY <1>1, <1>10 DEF Same, queueing
  <2>2. ~Waiting(c) /\ artifact[c] = "passed" /\ DecisionInv(c)
    BY <1>10 DEF Inv, DecisionInv, Fits, Waiting, Untouched, Acted
  <2>3. decision[c] # "none"
    BY <2>2, <1>10 DEF DecisionInv, Fits, Untouched
  <2>4. job'[c] = job[c] /\ artifact'[c] = "passed" /\ decision'[c] # "none"
    BY <1>1, <1>7, <1>10, <2>2, <2>3 DEF queueing
  <2>5. job[c] # "simulate"
    BY <2>2, <1>10 DEF DecisionInv, Fits, Untouched
  <2>6. DecisionInv(c)'
    BY <2>4, <2>5 DEF DecisionInv, Fits
  <2>7. (\A e \in Decisions : DecisionInv(e)') /\ QueueInv'
    BY <1>1, <1>10, <2>1, <2>2, <2>6, LocalStep DEF queueing
  <2> QED BY <1>8, <2>7 DEF Inv
<1>11. \A e \in Decisions \ {c} :
         decision'[e] = decision[e] /\ record'[e] = record[e] /\ positions'[e] = positions[e]
  <2>1. /\ record \in [Decisions -> {"none", "proposed", "submitted", "reconciled"}]
        /\ positions \in [Decisions -> Nat]
        /\ decision \in [Decisions -> {"none", "simulating", "blocked", "ready", "executed"}]
    BY DEF Inv, Types
  <2> QED BY <1>6, <2>1
<1> QED BY <1>6, <1>9, <1>10, <1>11

-----------------------------------------------------------------------------
LEMMA NextKeepsInv == Inv /\ [Next]_vars => Inv'
<1> SUFFICES ASSUME Inv, [Next]_vars PROVE Inv'
  OBVIOUS
<1>1. CASE UNCHANGED vars
  BY <1>1, QuietStep DEF vars, database, memory, chain, safe, Inv, Types
<1>2. CASE Next
  BY <1>2, ScanKeepsInv, JobKeepsInv, ChainKeepsInv, ReconcileKeepsInv DEF Next
<1> QED BY <1>1, <1>2

(* No capital action without proof: in every reachable state, whatever is  *)
(* proposed, sent, recorded or shown as a position has a passed simulation *)
(* (runSimulation, reconcilePending), for every deployment and any number  *)
(* of decisions, overlapping scans and passes, slots and faults.           *)
THEOREM ProvenFirstAlways == Spec => []ProvenFirst
<1>1. Inv => ProvenFirst
  BY DEF Inv, DecisionInv, Fits, Acted, ProvenFirst
<1> QED BY <1>1, InvInit, NextKeepsInv, PTL DEF Spec

-----------------------------------------------------------------------------
(* What has happened to the capital of a decision, by the step its job is  *)
(* at: the channels are opened one after the other, a second one only      *)
(* after a fault, and a position or a reconciled record follows a move.    *)

(* Where the job of a decision may be.                                     *)
JobLedger(d) ==
  /\ job[d] \in {"forkRecord", "position"} => mode = "fork" /\ positions[d] = 0
  /\ job[d] \in {"module", "receipt", "moduleRecord", "executed"} => mode = "module"
  /\ job[d] \in {"nonce", "post", "recordProposed", "recordSubmitted"} =>
       mode # "fork" /\ (moduleTx[d] # "none" => faults > 0)
  /\ job[d] \in {"block", "forkRecord", "module", "receipt", "moduleRecord", "nonce",
                 "post", "recordProposed", "recordSubmitted"} => record[d] = "none"
  /\ job[d] \in {"module", "receipt", "moduleRecord", "nonce", "post"} =>
       proposal[d] = NoNonce
  /\ job[d] = "module" => moduleTx[d] = "none"
  /\ job[d] = "receipt" => moduleTx[d] # "none"
  /\ job[d] = "moduleRecord" => moduleTx[d] \in {"executed", "reverted"}

(* How proposals, transactions, records and positions relate.              *)
Ledger(d) ==
  /\ proposal[d] # NoNonce /\ moduleTx[d] # "none" => faults > 0
  /\ d \in safeRuns => proposal[d] # NoNonce /\ proposal[d] < safeNonce
  /\ positions[d] > 0 /\ mode # "fork" => d \in safeRuns
  /\ record[d] = "submitted" => mode # "fork"
  /\ mode = "safe" /\ record[d] = "reconciled" => positions[d] > 0
  /\ mode = "module" /\ record[d] = "reconciled" =>
       d \in safeRuns \/ moduleTx[d] \in {"executed", "reverted"}

(* A pass works on what the Safe has executed. *)
PassLedger(r) ==
  /\ mode = "fork" => pass[r].at = "idle"
  /\ pass[r].at \notin {"idle", "next"} => pass[r].current \in safeRuns
  /\ pass[r].at \in {"markExisting", "mark", "decision"} => positions[pass[r].current] > 0

Counters ==
  /\ mode \in {"fork", "safe", "module"}
  /\ safeNonce \in Nat /\ faults \in Nat /\ safeRuns \subseteq Decisions

LedgerInv ==
  /\ Counters
  /\ \A d \in Decisions : JobLedger(d) /\ Ledger(d)
  /\ \A r \in Reconcilers : PassLedger(r)
(* The counters move forward and the deployment stays.                     *)
Advances ==
  /\ Counters /\ Counters'
  /\ mode' = mode /\ safeNonce <= safeNonce' /\ faults <= faults'

(* Nothing of what the ledger says of a decision changes but its job, which *)
(* may end or be started.                                                  *)
Quiet(d) ==
  /\ job'[d] \in {job[d], "idle", "simulate"}
  /\ record'[d] = record[d] /\ positions'[d] = positions[d]
  /\ proposal'[d] = proposal[d] /\ moduleTx'[d] = moduleTx[d]
  /\ d \in safeRuns' <=> d \in safeRuns

LEMMA QuietLedger ==
  ASSUME NEW d \in Decisions, JobLedger(d), Ledger(d), Inv, Advances, Quiet(d)
  PROVE  JobLedger(d)' /\ Ledger(d)'
<1>1. JobLedger(d)'
  BY DEF JobLedger, Quiet, Advances, Counters
<1>2. proposal[d] \in Int
  BY DEF Inv, Types
<1>3. Ledger(d)'
  BY <1>2 DEF Ledger, Quiet, Advances, Counters
<1> QED BY <1>1, <1>3

(* The passes keep their facts while executed proposals and positions stay. *)
LEMMA PassLedgerKept ==
  ASSUME Inv, LedgerInv, Advances, safeRuns \subseteq safeRuns',
         \A e \in Decisions : positions[e] > 0 => positions'[e] > 0,
         \A r \in Reconcilers : pass'[r] = pass[r] \/ pass'[r] = IdlePass
  PROVE  \A r \in Reconcilers : PassLedger(r)'
<1> SUFFICES ASSUME NEW r \in Reconcilers PROVE PassLedger(r)'
  OBVIOUS
<1>1. CASE pass'[r] = IdlePass
  BY <1>1 DEF PassLedger, IdlePass
<1>2. CASE pass'[r] = pass[r]
  <2>1. PassLedger(r) /\ mode' = mode
    BY DEF LedgerInv, Advances
  <2>2. pass[r].at \notin {"idle", "next"} => pass[r].current \in Decisions
    BY DEF Inv, PassInv
  <2> QED BY <1>2, <2>1, <2>2 DEF PassLedger
<1> QED BY <1>1, <1>2

(* Whatever drainSimQueue and the end of the process do to the other jobs. *)
LEMMA OtherJobs ==
  ASSUME Inv, NEW d \in Decisions,
         (\E step \in Jobs : Goto(d, step)) \/ Done(d) \/ LoseMemory
  PROVE  \A e \in Decisions \ {d} : job'[e] \in {job[e], "idle", "simulate"}
<1>1. job \in [Decisions -> Jobs]
  BY DEF Inv, Types
<1>2. CASE Done(d)
  BY <1>1, <1>2 DEF Done, Drain
<1>3. CASE LoseMemory
  BY <1>3 DEF LoseMemory
<1>4. CASE \E step \in Jobs : Goto(d, step)
  BY <1>1, <1>4 DEF Goto
<1> QED BY <1>2, <1>3, <1>4

(* What a job does besides writing for its own decision: nothing.          *)
LEMMA JobEffect ==
  ASSUME Inv, LedgerInv, NEW d \in Decisions, JobStep(d)
  PROVE  /\ Advances
         /\ UNCHANGED <<mode, safeNonce, safeRuns>>
         /\ faults' = faults \/ Fault
         /\ \A e \in Decisions \ {d} : Quiet(e)
<1>1. UNCHANGED <<mode, safeNonce, safeRuns>> /\ (faults' = faults \/ Fault)
  BY DEF JobStep, Simulate, Finish, ForkRecord, ForkPosition, SendModuleTx, ReadReceipt,
         RecordModuleTx, ReadSafeNonce, PostProposal, RecordProposal, InsertRecord,
         NoFault, deployed, chain, safe
<1>2. Advances
  BY <1>1, ConstantsAssumption DEF Advances, LedgerInv, Counters, Fault
<1>3. (\E step \in Jobs : Goto(d, step)) \/ Done(d) \/ LoseMemory
  BY DEF JobStep, Simulate, Finish, ForkRecord, ForkPosition, SendModuleTx, ReadReceipt,
         RecordModuleTx, ReadSafeNonce, PostProposal, RecordProposal, InsertRecord, Jobs
<1>4. \A e \in Decisions \ {d} : job'[e] \in {job[e], "idle", "simulate"}
  BY <1>3, OtherJobs
<1>5. /\ record' = record \/ \E status : record' = [record EXCEPT ![d] = status]
      /\ positions' = positions \/ \E n : positions' = [positions EXCEPT ![d] = n]
      /\ moduleTx' = moduleTx \/ \E fate : moduleTx' = [moduleTx EXCEPT ![d] = fate]
      /\ proposal' = proposal \/ \E n : proposal' = [proposal EXCEPT ![d] = n]
  BY DEF JobStep, Simulate, Finish, ForkRecord, ForkPosition, SendModuleTx, ReadReceipt,
         RecordModuleTx, ReadSafeNonce, PostProposal, RecordProposal, InsertRecord,
         database, chain, safe
<1>6. \A e \in Decisions \ {d} :
        /\ record'[e] = record[e] /\ positions'[e] = positions[e]
        /\ proposal'[e] = proposal[e] /\ moduleTx'[e] = moduleTx[e]
  <2>1. /\ \E S : record \in [Decisions -> S]
        /\ positions \in [Decisions -> Nat] /\ proposal \in [Decisions -> Int]
        /\ \E S : moduleTx \in [Decisions -> S]
    BY DEF Inv, Types
  <2> QED BY <1>5, <2>1
<1> QED BY <1>1, <1>2, <1>4, <1>6 DEF Quiet

(* The ledger of its own decision.                                         *)

(* The simulation picks the channel. *)
LEMMA SimulateLedger ==
  ASSUME Inv, LedgerInv, NEW d \in Decisions, Simulate(d)
  PROVE  JobLedger(d)' /\ Ledger(d)'
<1>1. /\ Advances /\ JobLedger(d) /\ Ledger(d)
      /\ UNCHANGED <<record, positions, proposal, moduleTx, safeRuns>>
  BY JobEffect DEF JobStep, Simulate, chain, safe, LedgerInv
<1>2. job[d] = "simulate" /\ Untouched(d)
  BY DEF Inv, DecisionInv, Fits, Simulate
<1>3. job \in [Decisions -> Jobs]
  BY DEF Inv, Types
<1>4. CASE Done(d)
  <2>1. Quiet(d)
    BY <1>1, <1>2, <1>3, <1>4 DEF Quiet, Done, Drain
  <2> QED BY <1>1, <2>1, QuietLedger
<1>5. CASE \E step \in {"block", "forkRecord", "module", "nonce"} :
             /\ Goto(d, step)
             /\ step = "forkRecord" => mode = "fork"
             /\ step = "module" => mode = "module"
             /\ step = "nonce" => mode = "safe"
  <2> PICK step \in {"block", "forkRecord", "module", "nonce"} :
             /\ Goto(d, step)
             /\ step = "forkRecord" => mode = "fork"
             /\ step = "module" => mode = "module"
             /\ step = "nonce" => mode = "safe"
    BY <1>5
  <2>1. job'[d] = step
    BY <1>3 DEF Goto
  <2>2. JobLedger(d)'
    BY <1>1, <1>2, <2>1 DEF JobLedger, Untouched, Advances, Counters
  <2>3. Ledger(d)'
    BY <1>1, <1>2 DEF Ledger, Untouched, Advances, Counters
  <2> QED BY <2>2, <2>3
<1>6. mode \in {"fork", "safe", "module"}
  BY DEF LedgerInv, Counters
<1> QED BY <1>4, <1>5, <1>6 DEF Simulate

(* The jobs that end, and the process that ends under them. *)
LEMMA EndLedger ==
  ASSUME Inv, LedgerInv, NEW d \in Decisions, JobStep(d), Done(d) \/ LoseMemory,
         UNCHANGED <<record, positions, proposal, moduleTx>>
  PROVE  JobLedger(d)' /\ Ledger(d)'
<1>1. Advances /\ JobLedger(d) /\ Ledger(d) /\ UNCHANGED safeRuns
  BY JobEffect DEF LedgerInv
<1>2. job \in [Decisions -> Jobs]
  BY DEF Inv, Types
<1>3. job'[d] \in {job[d], "idle", "simulate"}
  <2>1. CASE Done(d)
    BY <2>1, <1>2 DEF Done, Drain
  <2>2. CASE LoseMemory
    BY <2>2 DEF LoseMemory
  <2> QED BY <2>1, <2>2
<1>4. Quiet(d)
  BY <1>1, <1>3 DEF Quiet
<1> QED BY <1>1, <1>4, QuietLedger

(* The inserts: a record, in fork mode a position. *)
LEMMA InsertLedger ==
  ASSUME Inv, LedgerInv, NEW d \in Decisions,
         ForkRecord(d) \/ ForkPosition(d) \/ RecordProposal(d)
  PROVE  JobLedger(d)' /\ Ledger(d)'
<1>1. /\ Advances /\ JobLedger(d) /\ Ledger(d) /\ JobStep(d)
      /\ UNCHANGED <<proposal, moduleTx, safeRuns, safeNonce>>
  BY JobEffect DEF JobStep, ForkRecord, ForkPosition, RecordProposal, chain, safe, LedgerInv
<1>2. CASE LoseMemory /\ UNCHANGED <<record, positions>>
  BY <1>1, <1>2, EndLedger
<1>3. /\ job \in [Decisions -> Jobs] /\ positions \in [Decisions -> Nat]
      /\ \E S : record \in [Decisions -> S]
  BY DEF Inv, Types
<1>4. CASE /\ job[d] = "forkRecord" /\ Goto(d, "position") /\ positions' = positions
           /\ record' = [record EXCEPT ![d] = "proposed"]
  <2>1. job'[d] = "position" /\ record'[d] = "proposed" /\ positions'[d] = positions[d]
    BY <1>3, <1>4 DEF Goto
  <2>2. JobLedger(d)'
    BY <1>1, <1>4, <2>1 DEF JobLedger, Advances
  <2>3. Ledger(d)'
    BY <1>1, <1>4, <2>1 DEF JobLedger, Ledger, Advances, Counters
  <2> QED BY <2>2, <2>3
<1>5. CASE /\ job[d] = "position" /\ Goto(d, "ready") /\ record' = record
           /\ positions' = [positions EXCEPT ![d] = @ + 1]
  <2>1. job'[d] = "ready" /\ record'[d] = record[d]
    BY <1>3, <1>5 DEF Goto
  <2>2. JobLedger(d)'
    BY <1>1, <2>1 DEF JobLedger
  <2>3. mode' = "fork" /\ safeNonce' >= safeNonce
    BY <1>1, <1>5 DEF JobLedger, Advances, Counters
  <2>4. Ledger(d)'
    BY <1>1, <2>1, <2>3 DEF Ledger, Advances, Counters
  <2> QED BY <2>2, <2>4
<1>6. CASE \E status \in {"proposed", "submitted"} :
             /\ job[d] \in {"recordProposed", "recordSubmitted"}
             /\ Goto(d, "ready") /\ positions' = positions
             /\ record' = [record EXCEPT ![d] = status]
  <2> PICK status \in {"proposed", "submitted"} : record' = [record EXCEPT ![d] = status]
    BY <1>6
  <2>1. job'[d] = "ready" /\ record'[d] = status /\ positions'[d] = positions[d]
    BY <1>3, <1>6 DEF Goto
  <2>2. JobLedger(d)'
    BY <1>1, <2>1 DEF JobLedger
  <2>3. mode # "fork"
    BY <1>1, <1>6 DEF JobLedger
  <2>4. Ledger(d)'
    BY <1>1, <2>1, <2>3 DEF Ledger, Advances, Counters
  <2> QED BY <2>2, <2>4
<1> QED BY <1>2, <1>4, <1>5, <1>6 DEF ForkRecord, ForkPosition, RecordProposal, InsertRecord

(* The policy module: sent, waited for, recorded.                          *)
LEMMA ModuleLedger ==
  ASSUME Inv, LedgerInv, NEW d \in Decisions,
         SendModuleTx(d) \/ ReadReceipt(d) \/ RecordModuleTx(d)
  PROVE  JobLedger(d)' /\ Ledger(d)'
<1>1. /\ Advances /\ JobLedger(d) /\ Ledger(d)
      /\ UNCHANGED <<positions, proposal, safeRuns, safeNonce>>
  BY JobEffect DEF JobStep, SendModuleTx, ReadReceipt, RecordModuleTx, database, chain,
                   safe, LedgerInv
<1>2. /\ job \in [Decisions -> Jobs] /\ \E S : record \in [Decisions -> S]
      /\ moduleTx \in [Decisions -> {"none", "pending", "executed", "reverted"}]
  BY DEF Inv, Types
<1>3. CASE SendModuleTx(d)
  <2>1. /\ job[d] = "module" /\ record' = record
        /\ \/ moduleTx'[d] = "pending" /\ job'[d] = "receipt"
           \/ moduleTx' = moduleTx /\ job'[d] = "nonce"
    BY <1>2, <1>3 DEF SendModuleTx, Goto, database
  <2>2. JobLedger(d)'
    BY <1>1, <2>1 DEF JobLedger, Advances
  <2>3. Ledger(d)'
    BY <1>1, <2>1 DEF JobLedger, Ledger, Advances, Counters
  <2> QED BY <2>2, <2>3
<1>4. CASE ReadReceipt(d)
  <2>1. /\ job[d] = "receipt" /\ record' = record /\ moduleTx' = moduleTx
        /\ \/ moduleTx[d] # "pending" /\ job'[d] = "moduleRecord"
           \/ Fault /\ job'[d] = "nonce"
    BY <1>2, <1>4 DEF ReadReceipt, Goto, database, chain
  <2>2. JobLedger(d)'
    BY <1>1, <1>2, <2>1 DEF JobLedger, Advances, Counters, Fault
  <2>3. Ledger(d)'
    BY <1>1, <2>1 DEF Ledger, Advances, Counters
  <2> QED BY <2>2, <2>3
<1>5. CASE RecordModuleTx(d)
  <2>1. /\ job[d] = "moduleRecord" /\ moduleTx' = moduleTx
        /\ \/ record'[d] = "reconciled" /\ job'[d] = "executed"
           \/ Fault /\ record' = record /\ job'[d] = "nonce"
    BY <1>2, <1>5 DEF RecordModuleTx, Goto, chain
  <2>2. JobLedger(d)'
    BY <1>1, <2>1 DEF JobLedger, Advances, Counters, Fault
  <2>3. Ledger(d)'
    BY <1>1, <2>1 DEF JobLedger, Ledger, Advances, Counters
  <2> QED BY <2>2, <2>3
<1> QED BY <1>3, <1>4, <1>5

(* The Safe proposal: the nonce, then the POST.                            *)
LEMMA ProposalLedger ==
  ASSUME Inv, LedgerInv, NEW d \in Decisions, ReadSafeNonce(d) \/ PostProposal(d)
  PROVE  JobLedger(d)' /\ Ledger(d)'
<1>1. /\ Advances /\ JobLedger(d) /\ Ledger(d)
      /\ UNCHANGED <<record, positions, moduleTx, safeRuns>>
  BY JobEffect DEF JobStep, ReadSafeNonce, PostProposal, database, chain, safe, LedgerInv
<1>2. job \in [Decisions -> Jobs] /\ proposal \in [Decisions -> Int]
  BY DEF Inv, Types
<1>3. CASE ReadSafeNonce(d)
  <2>1. /\ job[d] = "nonce" /\ job'[d] \in {"post", "recordProposed"}
        /\ proposal' = proposal
    BY <1>2, <1>3 DEF ReadSafeNonce, Goto, chain, safe
  <2>2. JobLedger(d)'
    BY <1>1, <2>1 DEF JobLedger, Advances, Counters
  <2>3. Ledger(d)'
    BY <1>1, <1>2, <2>1 DEF Ledger, Advances, Counters
  <2> QED BY <2>2, <2>3
<1>4. CASE PostProposal(d)
  <2>1. job[d] = "post" /\ job'[d] \in {"recordProposed", "recordSubmitted"}
    BY <1>2, <1>4 DEF PostProposal, Goto
  <2>2. JobLedger(d)'
    BY <1>1, <2>1 DEF JobLedger, Advances, Counters
  <2>3. d \notin safeRuns /\ (moduleTx[d] # "none" => faults > 0) /\ record[d] = "none"
    BY <1>1, <2>1 DEF JobLedger, Ledger
  <2>4. Ledger(d)'
    BY <1>1, <2>3 DEF Ledger, Advances, Counters
  <2> QED BY <2>2, <2>4
<1> QED BY <1>3, <1>4

LEMMA JobKeepsLedger ==
  ASSUME Inv, LedgerInv, NEW d \in Decisions, JobStep(d)
  PROVE  LedgerInv'
<1>1. Advances /\ safeRuns' = safeRuns /\ \A e \in Decisions \ {d} : Quiet(e)
  BY JobEffect
<1>2. JobLedger(d)' /\ Ledger(d)'
  <2>1. CASE Finish(d)
    <3>1. Done(d) /\ UNCHANGED <<record, positions, proposal, moduleTx>>
      BY <2>1 DEF Finish, chain, safe
    <3> QED BY <3>1, EndLedger
  <2> QED BY <2>1, SimulateLedger, InsertLedger, ModuleLedger, ProposalLedger DEF JobStep
<1>3. ASSUME NEW e \in Decisions \ {d} PROVE JobLedger(e)' /\ Ledger(e)'
  BY <1>1, QuietLedger DEF LedgerInv
<1>4. \A r \in Reconcilers : PassLedger(r)'
  <2>1. \A e \in Decisions : positions[e] > 0 => positions'[e] > 0
    <3>1. positions \in [Decisions -> Nat]
      BY DEF Inv, Types
    <3>2. positions' = positions \/ positions' = [positions EXCEPT ![d] = positions[d] + 1]
      BY DEF JobStep, Simulate, Finish, ForkRecord, ForkPosition, SendModuleTx, ReadReceipt,
             RecordModuleTx, ReadSafeNonce, PostProposal, RecordProposal, database
    <3> QED BY <3>1, <3>2
  <2>2. \A r \in Reconcilers : pass'[r] = pass[r] \/ pass'[r] = IdlePass
    BY DEF JobStep, Simulate, Finish, ForkRecord, ForkPosition, SendModuleTx, ReadReceipt,
           RecordModuleTx, ReadSafeNonce, PostProposal, RecordProposal, InsertRecord,
           LoseMemory
  <2> QED BY <1>1, <2>1, <2>2, PassLedgerKept
<1>5. Counters'
  BY <1>1 DEF Advances
<1> QED BY <1>2, <1>3, <1>4, <1>5 DEF LedgerInv

(* A step that leaves the ledger to itself. *)
LEMMA LedgerKept ==
  ASSUME Inv, LedgerInv, Advances, \A e \in Decisions : Quiet(e),
         \A r \in Reconcilers : pass'[r] = pass[r] \/ pass'[r] = IdlePass
  PROVE  LedgerInv'
<1>1. \A e \in Decisions : JobLedger(e)' /\ Ledger(e)'
  BY QuietLedger DEF LedgerInv
<1>2. safeRuns \subseteq safeRuns' /\ \A e \in Decisions : positions'[e] = positions[e]
  BY DEF Quiet, LedgerInv, Counters
<1>3. \A r \in Reconcilers : PassLedger(r)'
  BY <1>2, PassLedgerKept
<1> QED BY <1>1, <1>3 DEF LedgerInv, Advances

LEMMA ScanKeepsLedger ==
  ASSUME Inv, LedgerInv, NEW s \in Scanners, ScanStep(s)
  PROVE  LedgerInv'
<1>1. /\ UNCHANGED <<mode, record, positions, proposal, moduleTx, safeRuns, safeNonce, pass>>
      /\ faults' = faults \/ Fault
      /\ UNCHANGED job \/ \E queue, busy : Drain(queue, busy, job)
  BY DEF ScanStep, StartScan, ReadAUsdc, CheckPending, DecideNothing, Decide,
         NoFault, deployed, database, queueing, chain, safe
<1>2. Advances
  BY <1>1, ConstantsAssumption DEF Advances, LedgerInv, Counters, Fault
<1>3. \A e \in Decisions : job'[e] \in {job[e], "simulate"}
  BY <1>1 DEF Drain
<1> QED BY <1>1, <1>2, <1>3, LedgerKept DEF Quiet

(* The end of the process, and what is done without it. *)
LEMMA OutsideKeepsLedger ==
  ASSUME Inv, LedgerInv,
         \/ Crash \/ UNCHANGED vars
         \/ \E balance \in OutsideBalances : OutsideTransfer(balance)
         \/ \E d \in Decisions : AgeOut(d)
  PROVE  LedgerInv'
<1>1. /\ UNCHANGED <<mode, record, positions, proposal, moduleTx, safeRuns>>
      /\ faults' = faults \/ Fault
      /\ safeNonce' = safeNonce \/ safeNonce' = safeNonce + 1
      /\ UNCHANGED <<job, pass>> \/ LoseMemory
  BY DEF Crash, OutsideTransfer, AgeOut, vars, deployed, database, memory, queueing,
         chain, safe
<1>2. Advances
  BY <1>1, ConstantsAssumption DEF Advances, LedgerInv, Counters, Fault
<1>3. /\ \A e \in Decisions : job'[e] \in {job[e], "idle"}
      /\ \A r \in Reconcilers : pass'[r] = pass[r] \/ pass'[r] = IdlePass
  BY <1>1 DEF LoseMemory
<1> QED BY <1>1, <1>2, <1>3, LedgerKept DEF Quiet

(* The two moves of capital.                                               *)
LEMMA MoveKeepsLedger ==
  ASSUME Inv, LedgerInv, NEW d \in Decisions, MineModuleTx(d) \/ ExecuteProposal(d)
  PROVE  LedgerInv'
<1>1. /\ UNCHANGED <<mode, record, positions, proposal, job, pass, faults>>
      /\ JobLedger(d) /\ Ledger(d)
  BY DEF MineModuleTx, ExecuteProposal, deployed, database, memory, queueing, safe, LedgerInv
<1>2. CASE MineModuleTx(d)
  <2>1. UNCHANGED <<safeNonce, safeRuns>>
    BY <1>2 DEF MineModuleTx, safe
  <2>2. Advances
    BY <1>1, <2>1 DEF Advances, LedgerInv, Counters
  <2>3. /\ moduleTx[d] = "pending" /\ moduleTx'[d] \in {"executed", "reverted"}
        /\ \A e \in Decisions \ {d} : moduleTx'[e] = moduleTx[e]
    <3>1. moduleTx \in [Decisions -> {"none", "pending", "executed", "reverted"}]
      BY DEF Inv, Types
    <3> QED BY <1>2, <3>1 DEF MineModuleTx
  <2>4. JobLedger(d)' /\ Ledger(d)'
    BY <1>1, <2>1, <2>3 DEF JobLedger, Ledger
  <2>5. ASSUME NEW e \in Decisions \ {d} PROVE JobLedger(e)' /\ Ledger(e)'
    BY <1>1, <2>1, <2>2, <2>3, QuietLedger DEF Quiet, LedgerInv
  <2>6. \A r \in Reconcilers : PassLedger(r)'
    BY <1>1, <2>1, <2>2, PassLedgerKept
  <2> QED BY <2>2, <2>4, <2>5, <2>6 DEF LedgerInv, Advances
<1>3. CASE ExecuteProposal(d)
  <2>1. /\ moduleTx' = moduleTx /\ proposal[d] = safeNonce
        /\ safeNonce' = safeNonce + 1 /\ safeRuns' = safeRuns \cup {d}
    BY <1>3 DEF ExecuteProposal
  <2>2. Advances
    BY <1>1, <2>1 DEF Advances, LedgerInv, Counters
  <2>3. proposal[d] # NoNonce /\ proposal[d] < safeNonce + 1
    BY <2>1 DEF LedgerInv, Counters, NoNonce
  <2>4. JobLedger(d)' /\ Ledger(d)'
    BY <1>1, <2>1, <2>3 DEF JobLedger, Ledger
  <2>5. ASSUME NEW e \in Decisions \ {d} PROVE JobLedger(e)' /\ Ledger(e)'
    BY <1>1, <2>1, <2>2, QuietLedger DEF Quiet, LedgerInv
  <2>6. \A r \in Reconcilers : PassLedger(r)'
    BY <1>1, <2>1, <2>2, PassLedgerKept
  <2> QED BY <2>2, <2>4, <2>5, <2>6 DEF LedgerInv, Advances
<1> QED BY <1>2, <1>3

(* The steps of a pass: the position follows the executed proposal, and    *)
(* the record follows the position.                                        *)
LEMMA ReconcileKeepsLedger ==
  ASSUME Inv, LedgerInv, NEW r \in Reconcilers, ReconcileStep(r)
  PROVE  LedgerInv'
<1>1. /\ UNCHANGED <<mode, safeNonce, safeRuns, job, proposal, moduleTx>>
      /\ faults' = faults \/ Fault
  BY DEF ReconcileStep, StartReconcile, ReadStatus, LookupPosition, MarkExisting,
         ActivatePosition, MarkReconciled, MarkDecision, NoFault, deployed, queueing, chain, safe
<1>2. Advances
  BY <1>1, ConstantsAssumption DEF Advances, LedgerInv, Counters, Fault
<1>3. PICK p, c : p = pass[r] /\ c = pass[r].current
  OBVIOUS
<1>4. /\ pass \in [Reconcilers -> [at : {"idle", "next", "lookup", "create", "markExisting",
                                        "mark", "decision"},
                                  todo : SUBSET Decisions, current : Decisions \cup {0}]]
      /\ positions \in [Decisions -> Nat]
      /\ record \in [Decisions -> {"none", "proposed", "submitted", "reconciled"}]
  BY DEF Inv, Types
<1>5. /\ p.at \notin {"idle", "next"} => c \in Decisions /\ c \in safeRuns /\ record[c] # "none"
      /\ p.at \in {"markExisting", "mark", "decision"} => positions[c] > 0
  BY <1>3 DEF Inv, PassInv, LedgerInv, PassLedger
<1>6. mode # "fork"
  <2>1. CASE StartReconcile(r)
    <3>1. PICK d \in Decisions : record[d] = "submitted"
      BY <2>1 DEF StartReconcile, Submitted
    <3> QED BY <3>1 DEF LedgerInv, Ledger
  <2>2. CASE p.at # "idle"
    BY <1>3, <2>2 DEF LedgerInv, PassLedger
  <2> QED BY <1>3, <2>1, <2>2 DEF ReconcileStep, ReadStatus, LookupPosition, MarkExisting,
                             ActivatePosition, MarkReconciled, MarkDecision
<1>7. \/ UNCHANGED <<record, positions>>
      \/ /\ p.at \in {"markExisting", "mark"} /\ positions' = positions
         /\ record' = [record EXCEPT ![c] = "reconciled"]
      \/ /\ p.at = "create" /\ record' = record
         /\ positions' = [positions EXCEPT ![c] = @ + 1]
  BY <1>3 DEF ReconcileStep, StartReconcile, ReadStatus, LookupPosition, MarkExisting,
         ActivatePosition, MarkReconciled, MarkDecision, database
<1>8. \A e \in Decisions : e # c \/ UNCHANGED <<record, positions>> =>
        record'[e] = record[e] /\ positions'[e] = positions[e]
  BY <1>4, <1>7
<1>9. \A e \in Decisions : e # c \/ UNCHANGED <<record, positions>> =>
        JobLedger(e)' /\ Ledger(e)'
  BY <1>1, <1>2, <1>8, QuietLedger DEF Quiet, LedgerInv
<1>10. ASSUME ~UNCHANGED <<record, positions>> PROVE JobLedger(c)' /\ Ledger(c)'
  <2>1. c \in Decisions /\ c \in safeRuns /\ record[c] # "none" /\ JobLedger(c) /\ Ledger(c)
    BY <1>5, <1>7, <1>10 DEF LedgerInv
  <2>2. \/ record'[c] = "reconciled" /\ positions'[c] = positions[c] /\ positions[c] > 0
        \/ record'[c] = record[c] /\ positions'[c] = positions[c] + 1
    BY <1>4, <1>5, <1>7, <1>10, <2>1
  <2>3. JobLedger(c)'
    BY <1>1, <1>6, <2>1, <2>2 DEF JobLedger, Advances, Counters, Fault
  <2>4. positions[c] \in Nat
    BY <1>4, <2>1
  <2>5. Ledger(c)'
    BY <1>1, <1>2, <1>6, <2>1, <2>2, <2>4 DEF Ledger, Advances, Counters
  <2> QED BY <2>3, <2>5
<1>11. \A e \in Decisions : positions[e] > 0 => positions'[e] > 0
  BY <1>4, <1>7
<1>12. /\ \A q \in Reconcilers \ {r} : pass'[q] = pass[q]
       /\ \/ pass'[r].at \in {"idle", "next"}
          \/ pass'[r].at = "lookup" /\ pass'[r].current \in safeRuns
          \/ /\ p.at = "lookup" /\ pass'[r].at \in {"markExisting", "create"}
             /\ pass'[r].current = c /\ positions' = positions
             /\ pass'[r].at = "markExisting" => positions[c] > 0
          \/ /\ p.at = "create" /\ pass'[r].at = "mark" /\ pass'[r].current = c
             /\ positions' = [positions EXCEPT ![c] = @ + 1]
          \/ /\ p.at = "mark" /\ pass'[r].at = "decision" /\ pass'[r].current = c
             /\ positions' = positions
  <2>1. ASSUME NEW todo, NextRecord(r, todo)
        PROVE  /\ pass'[r].at \in {"idle", "next"}
               /\ \A q \in Reconcilers \ {r} : pass'[q] = pass[q]
    BY <1>4, <2>1 DEF NextRecord, IdlePass
  <2>2. ASSUME NEW step, PassGoto(r, step)
        PROVE  /\ pass'[r].at = step /\ pass'[r].current = c
               /\ \A q \in Reconcilers \ {r} : pass'[q] = pass[q]
    BY <1>3, <1>4, <2>2 DEF PassGoto
  <2>3. CASE StartReconcile(r)
    BY <1>4, <2>3 DEF StartReconcile
  <2>4. CASE ReadStatus(r)
    BY <1>4, <2>1, <2>4 DEF ReadStatus
  <2>5. CASE LookupPosition(r)
    BY <1>3, <2>1, <2>2, <2>5 DEF LookupPosition, database
  <2>6. CASE MarkExisting(r) \/ MarkDecision(r)
    BY <2>1, <2>6 DEF MarkExisting, MarkDecision
  <2>7. CASE ActivatePosition(r)
    BY <1>3, <2>1, <2>2, <2>7 DEF ActivatePosition
  <2>8. CASE MarkReconciled(r)
    BY <1>3, <2>1, <2>2, <2>8 DEF MarkReconciled
  <2> QED BY <2>3, <2>4, <2>5, <2>6, <2>7, <2>8 DEF ReconcileStep
<1>13. PassLedger(r)'
  <2>1. pass'[r].at \notin {"idle", "next"} => pass'[r].current \in safeRuns
    BY <1>5, <1>12
  <2>2. pass'[r].at \in {"markExisting", "mark", "decision"} => positions'[pass'[r].current] > 0
    <3>1. CASE positions' = positions
      BY <1>4, <1>5, <1>12, <3>1
    <3>2. CASE p.at = "create" /\ pass'[r].current = c
                 /\ positions' = [positions EXCEPT ![c] = @ + 1]
      <4>1. positions[c] \in Nat /\ positions'[c] = positions[c] + 1
        BY <1>4, <1>5, <3>2
      <4> QED BY <3>2, <4>1
    <3> QED BY <1>12, <3>1, <3>2
  <2> QED BY <1>1, <1>6, <2>1, <2>2 DEF PassLedger
<1>14. ASSUME NEW q \in Reconcilers \ {r} PROVE PassLedger(q)'
  <2>1. PassLedger(q) /\ pass'[q] = pass[q]
    BY <1>12 DEF LedgerInv
  <2>2. pass[q].at \notin {"idle", "next"} => pass[q].current \in Decisions
    BY DEF Inv, PassInv
  <2> QED BY <1>1, <1>11, <2>1, <2>2 DEF PassLedger
<1>15. Counters' /\ \A e \in Decisions : JobLedger(e)' /\ Ledger(e)'
  BY <1>2, <1>9, <1>10 DEF Advances
<1> QED BY <1>13, <1>14, <1>15 DEF LedgerInv

LEMMA LedgerInit == Init => LedgerInv
<1> SUFFICES ASSUME Init PROVE LedgerInv
  OBVIOUS
<1>1. Counters
  BY ConstantsAssumption DEF Init, Counters
<1>2. \A d \in Decisions : JobLedger(d) /\ Ledger(d)
  BY DEF Init, JobLedger, Ledger
<1>3. \A r \in Reconcilers : PassLedger(r)
  BY DEF Init, PassLedger, IdlePass
<1> QED BY <1>1, <1>2, <1>3 DEF LedgerInv

LEMMA LedgerAlways == Spec => [](Inv /\ LedgerInv)
<1>1. ASSUME Inv, LedgerInv, [Next]_vars PROVE LedgerInv'
  <2>1. CASE UNCHANGED vars
    BY <1>1, <2>1, OutsideKeepsLedger
  <2>2. CASE Next
    BY <1>1, <2>2, ScanKeepsLedger, JobKeepsLedger, MoveKeepsLedger, OutsideKeepsLedger,
       ReconcileKeepsLedger DEF Next
  <2> QED BY <1>1, <2>1, <2>2
<1> QED BY <1>1, InvInit, LedgerInit, NextKeepsInv, PTL DEF Spec

(* Reconciliation announces no capital that did not move: a position in    *)
(* Safe proposal mode is there only for an executed proposal, a reconciled *)
(* record has its position there, and in module mode its transaction or    *)
(* its executed proposal (reconcilePending, executePolicyModule); for any  *)
(* number of decisions, overlapping passes, slots and faults.              *)
THEOREM ReconciliationIsSound == Spec => []ReconciliationSound
<1>1. Inv /\ LedgerInv => ReconciliationSound
  BY DEF LedgerInv, Ledger, ReconciliationSound
<1> QED BY <1>1, LedgerAlways, PTL

-----------------------------------------------------------------------------
(* The refinement: every step of the agent loop is a fault, a proof, a     *)
(* move of capital that is paid for, or no step of CapitalAction.          *)

Proven == {d \in Decisions : artifact[d] = "passed"}

MovesOf(d) ==
  (IF moduleTx[d] = "executed" THEN 1 ELSE 0) + (IF d \in safeRuns THEN 1 ELSE 0)

CapitalMoves == [d \in Decisions |-> MovesOf(d)]

LEMMA CapitalIs ==
  /\ Capital!Init <=> Proven = {} /\ CapitalMoves = [d \in Decisions |-> 0] /\ faults = 0
  /\ [Capital!Next]_(Capital!vars) <=>
       \/ UNCHANGED <<Proven, CapitalMoves, faults>>
       \/ faults < MaxFaults /\ faults' = faults + 1 /\ UNCHANGED <<Proven, CapitalMoves>>
       \/ \E d \in Decisions :
            Proven' = Proven \cup {d} /\ UNCHANGED <<CapitalMoves, faults>>
       \/ \E d \in Decisions :
            /\ d \in Proven /\ CapitalMoves[d] <= faults
            /\ CapitalMoves' = [CapitalMoves EXCEPT ![d] = @ + 1]
            /\ UNCHANGED <<Proven, faults>>
BY DEF Capital!Init, Capital!Next, Capital!vars, Capital!Fault, Capital!Prove, Capital!Move,
       Proven, CapitalMoves, MovesOf

(* Only the mining of a transaction and the execution of a proposal move   *)
(* capital.                                                                *)
LEMMA NothingMoves ==
  ASSUME \A d \in Decisions : moduleTx'[d] = "executed" <=> moduleTx[d] = "executed",
         safeRuns' = safeRuns
  PROVE  CapitalMoves' = CapitalMoves
BY DEF CapitalMoves, MovesOf

(* A decision's capital moves, once more than before.                      *)
LEMMA OneMoves ==
  ASSUME Inv, LedgerInv, NEW d \in Decisions, artifact' = artifact, faults' = faults,
         artifact[d] = "passed",
         (moduleTx[d] = "executed" \/ d \in safeRuns) => faults > 0,
         \/ /\ moduleTx[d] # "executed" /\ moduleTx'[d] = "executed" /\ safeRuns' = safeRuns
            /\ \A e \in Decisions \ {d} : moduleTx'[e] = moduleTx[e]
         \/ /\ d \notin safeRuns /\ safeRuns' = safeRuns \cup {d} /\ moduleTx' = moduleTx
  PROVE  [Capital!Next]_(Capital!vars)
<1>1. d \in Proven /\ Proven' = Proven
  BY DEF Proven
<1>2. faults \in Nat
  BY DEF LedgerInv, Counters
<1>3. MovesOf(d) <= faults /\ MovesOf(d)' = MovesOf(d) + 1
  BY <1>2 DEF MovesOf
<1>4. \A e \in Decisions \ {d} : MovesOf(e)' = MovesOf(e)
  BY DEF MovesOf
<1>5. /\ CapitalMoves = [e \in Decisions |-> MovesOf(e)]
      /\ CapitalMoves' = [e \in Decisions |-> MovesOf(e)']
  BY DEF CapitalMoves
<1>6. CapitalMoves[d] <= faults /\ CapitalMoves' = [CapitalMoves EXCEPT ![d] = @ + 1]
  BY <1>3, <1>4, <1>5
<1> QED BY <1>1, <1>6, CapitalIs

LEMMA StepIsCapitalStep ==
  ASSUME Inv, LedgerInv, [Next]_vars
  PROVE  [Capital!Next]_(Capital!vars)
<1>1. CASE UNCHANGED <<artifact, moduleTx, safeRuns>> /\ (faults' = faults \/ Fault)
  <2>1. CapitalMoves' = CapitalMoves /\ Proven' = Proven
    BY <1>1, NothingMoves DEF Proven
  <2> QED BY <1>1, <2>1, CapitalIs DEF Fault
<1>2. ASSUME NEW d \in Decisions, Simulate(d) PROVE [Capital!Next]_(Capital!vars)
  <2>1. UNCHANGED <<moduleTx, safeRuns>> /\ artifact[d] = "none"
    BY <1>2 DEF Simulate, chain, safe, Inv, DecisionInv, Fits, Untouched
  <2>2. CapitalMoves' = CapitalMoves
    BY <2>1, NothingMoves
  <2>3. CASE Fault /\ artifact' = artifact
    BY <1>1, <2>1, <2>3
  <2>4. CASE /\ faults' = faults
             /\ \E result \in {"passed", "failed"} : artifact' = [artifact EXCEPT ![d] = result]
    <3>1. Proven' = Proven \/ Proven' = Proven \cup {d}
      <4>1. \E S : artifact \in [Decisions -> S]
        BY DEF Inv, Types
      <4> QED BY <2>1, <2>4, <4>1 DEF Proven
    <3> QED BY <2>2, <2>4, <3>1, CapitalIs
  <2> QED BY <1>2, <2>3, <2>4 DEF Simulate, NoFault
<1>3. ASSUME NEW d \in Decisions, SendModuleTx(d) PROVE [Capital!Next]_(Capital!vars)
  <2>1. /\ UNCHANGED <<artifact, safeRuns, faults>> /\ moduleTx[d] = "none"
        /\ moduleTx' = moduleTx \/ moduleTx' = [moduleTx EXCEPT ![d] = "pending"]
    BY <1>3 DEF SendModuleTx, database, safe, LedgerInv, JobLedger
  <2>2. \A e \in Decisions : moduleTx'[e] = "executed" <=> moduleTx[e] = "executed"
    <3>1. \E S : moduleTx \in [Decisions -> S]
      BY DEF Inv, Types
    <3> QED BY <2>1, <3>1
  <2>3. CapitalMoves' = CapitalMoves /\ Proven' = Proven
    BY <2>1, <2>2, NothingMoves DEF Proven
  <2> QED BY <2>1, <2>3, CapitalIs
<1>4. ASSUME NEW d \in Decisions, MineModuleTx(d) PROVE [Capital!Next]_(Capital!vars)
  <2>1. /\ UNCHANGED <<artifact, safeRuns, faults>> /\ moduleTx[d] = "pending"
        /\ \/ moduleTx' = [moduleTx EXCEPT ![d] = "executed"]
           \/ moduleTx' = [moduleTx EXCEPT ![d] = "reverted"]
    BY <1>4 DEF MineModuleTx, database, safe
  <2>2. \E S : moduleTx \in [Decisions -> S]
    BY DEF Inv, Types
  <2>3. artifact[d] = "passed" /\ (d \in safeRuns => faults > 0)
    BY <2>1 DEF Inv, DecisionInv, Fits, Acted, LedgerInv, Ledger
  <2>4. CASE moduleTx' = [moduleTx EXCEPT ![d] = "executed"]
    <3>1. moduleTx'[d] = "executed" /\ \A e \in Decisions \ {d} : moduleTx'[e] = moduleTx[e]
      BY <2>2, <2>4
    <3> QED BY <2>1, <2>3, <3>1, OneMoves
  <2>5. CASE moduleTx' = [moduleTx EXCEPT ![d] = "reverted"]
    <3>1. \A e \in Decisions : moduleTx'[e] = "executed" <=> moduleTx[e] = "executed"
      BY <2>1, <2>2, <2>5
    <3>2. CapitalMoves' = CapitalMoves /\ Proven' = Proven
      BY <2>1, <3>1, NothingMoves DEF Proven
    <3> QED BY <2>1, <3>2, CapitalIs
  <2> QED BY <2>1, <2>4, <2>5
<1>5. ASSUME NEW d \in Decisions, ExecuteProposal(d) PROVE [Capital!Next]_(Capital!vars)
  <2>1. /\ UNCHANGED <<artifact, moduleTx, faults>> /\ safeRuns' = safeRuns \cup {d}
        /\ proposal[d] = safeNonce
    BY <1>5 DEF ExecuteProposal, database
  <2>2. safeNonce \in Nat /\ Ledger(d)
    BY DEF LedgerInv, Counters
  <2>3. proposal[d] # NoNonce /\ d \notin safeRuns
    BY <2>1, <2>2 DEF Ledger, NoNonce
  <2>4. artifact[d] = "passed" /\ (moduleTx[d] = "executed" => faults > 0)
    BY <2>2, <2>3 DEF Inv, DecisionInv, Fits, Acted, Ledger
  <2> QED BY <2>1, <2>3, <2>4, OneMoves
<1>6. ASSUME NEW d \in Decisions, JobStep(d) PROVE [Capital!Next]_(Capital!vars)
  <2>1. CASE Simulate(d) \/ SendModuleTx(d)
    BY <1>2, <1>3, <2>1
  <2>2. CASE ~(Simulate(d) \/ SendModuleTx(d))
    <3>1. UNCHANGED <<artifact, moduleTx, safeRuns>>
      BY <1>6, <2>2 DEF JobStep, Finish, ForkRecord, ForkPosition, ReadReceipt,
         RecordModuleTx, ReadSafeNonce, PostProposal, RecordProposal, database, chain, safe
    <3> QED BY <1>1, <1>6, <3>1, JobEffect
  <2> QED BY <2>1, <2>2
<1>7. ASSUME NEW s \in Scanners, ScanStep(s) PROVE [Capital!Next]_(Capital!vars)
  BY <1>1, <1>7 DEF ScanStep, StartScan, ReadAUsdc, CheckPending, DecideNothing, Decide,
         NoFault, database, chain, safe
<1>8. ASSUME NEW r \in Reconcilers, ReconcileStep(r) PROVE [Capital!Next]_(Capital!vars)
  BY <1>1, <1>8 DEF ReconcileStep, StartReconcile, ReadStatus, LookupPosition, MarkExisting,
         ActivatePosition, MarkReconciled, MarkDecision, NoFault, database, chain, safe
<1>9. CASE \/ Crash \/ UNCHANGED vars
           \/ \E balance \in OutsideBalances : OutsideTransfer(balance)
           \/ \E d \in Decisions : AgeOut(d)
  BY <1>1, <1>9 DEF Crash, OutsideTransfer, AgeOut, vars, database, chain, safe
<1> QED BY <1>4, <1>5, <1>6, <1>7, <1>8, <1>9 DEF Next

(* Prove before execute, and once: the agent loop implements               *)
(* CapitalAction.  Whichever channel carries a decision, its capital moves *)
(* only after its simulation passed, and a second time only if a fault     *)
(* pays for it (agent-loop.ts).                                            *)
THEOREM CapitalIsProvenAndPaid == Spec => MovesAreProvenAndPaid
<1>1. Init => Capital!Init
  <2> SUFFICES ASSUME Init PROVE Capital!Init
    OBVIOUS
  <2>1. Proven = {} /\ faults = 0 /\ \A d \in Decisions : MovesOf(d) = 0
    BY DEF Init, Proven, MovesOf
  <2>2. CapitalMoves = [d \in Decisions |-> 0]
    BY <2>1 DEF CapitalMoves
  <2> QED BY <2>1, <2>2, CapitalIs
<1>2. Inv /\ LedgerInv /\ [Next]_vars => [Capital!Next]_(Capital!vars)
  BY StepIsCapitalStep
<1> QED BY <1>1, <1>2, LedgerAlways, PTL DEF Spec, MovesAreProvenAndPaid, Capital!Spec

-----------------------------------------------------------------------------
(* The queue: the counter of running jobs is their number, and jobs wait   *)
(* only while every slot is taken.                                         *)

CountInv ==
  /\ runningSims = Cardinality(Running)
  /\ simQueue # <<>> => runningSims = MAX_CONCURRENT_SIMS

LEMMA DecisionsFinite ==
  IsFiniteSet(Decisions) /\ \A S \in SUBSET Decisions : IsFiniteSet(S) /\ Cardinality(S) \in Nat
<1>1. IsFiniteSet(Decisions)
  BY ConstantsAssumption, FS_Interval DEF Decisions
<1> QED BY <1>1, FS_Subset, FS_CardinalityType

(* A queue without repetitions has as many members as places.              *)
LEMMA DistinctCount ==
  ASSUME NEW queue \in Seq(Decisions), Distinct(queue), NEW n \in Nat, n <= Len(queue)
  PROVE  Cardinality({queue[i] : i \in 1 .. n}) = n
<1> DEFINE members == {queue[i] : i \in 1 .. n}
           f == [i \in 1 .. n |-> queue[i]]
<1>1. f \in [1 .. n -> members]
  OBVIOUS
<1>2. \A i, j \in 1 .. n : f[i] = f[j] => i = j
  BY DEF Distinct
<1>3. \A e \in members : \E i \in 1 .. n : f[i] = e
  OBVIOUS
<1> HIDE DEF f, members
<1>4. ExistsBijection(1 .. n, members)
  BY <1>1, <1>2, <1>3 DEF ExistsBijection, Bijection, Injection, IsInjective, Surjection
<1>5. Cardinality(members) = n
  BY <1>4, FS_CountingElements
<1> QED BY <1>5 DEF members

(* Draining starts as many jobs as there are free slots, or all of them.   *)
LEMMA DrainCount ==
  ASSUME NEW queue \in Seq(Decisions), NEW jobs \in [Decisions -> Jobs], NEW busy \in Int,
         Distinct(queue), \A i \in 1 .. Len(queue) : jobs[queue[i]] = "idle",
         busy = Cardinality({d \in Decisions : jobs[d] # "idle"}),
         busy <= MAX_CONCURRENT_SIMS,
         Drain(queue, busy, jobs)
  PROVE  CountInv'
<1> DEFINE n == Min({Len(queue), MAX_CONCURRENT_SIMS - busy})
           started == {queue[i] : i \in 1 .. n}
           held == {d \in Decisions : jobs[d] # "idle"}
<1>1. /\ n \in Nat /\ n <= Len(queue)
      /\ n \in {Len(queue), MAX_CONCURRENT_SIMS - busy}
  <2> DEFINE l == Len(queue)
             free == MAX_CONCURRENT_SIMS - busy
  <2>1. l \in Nat /\ free \in Nat /\ l \in Int /\ free \in Int
    BY ConstantsAssumption
  <2> HIDE DEF l, free
  <2>2. /\ Min({l, free}) \in {l, free}
        /\ Min({l, free}) <= l /\ Min({l, free}) <= free
    BY <2>1, MinOfTwo, Zenon
  <2>3. Min({l, free}) \in Nat
    BY <2>1, <2>2
  <2> QED BY <2>2, <2>3 DEF l, free
<1>2. /\ simQueue' = SubSeq(queue, n + 1, Len(queue))
      /\ runningSims' = busy + n
      /\ job' = [d \in Decisions |-> IF d \in started THEN "simulate" ELSE jobs[d]]
  BY DEF Drain
<1> HIDE DEF n
<1>3. Cardinality(started) = n /\ started \subseteq Decisions /\ started \cap held = {}
  BY <1>1, DistinctCount
<1>4. Running' = held \cup started
  BY <1>2, <1>3 DEF Running
<1> HIDE DEF started, held
<1>5. Cardinality(held \cup started) = Cardinality(held) + n
  <2>1. /\ held \subseteq Decisions /\ IsFiniteSet(held) /\ IsFiniteSet(started)
        /\ Cardinality(held) \in Nat
    BY <1>3, DecisionsFinite DEF held
  <2>2. Cardinality(held \cup started)
          = Cardinality(held) + Cardinality(started) - Cardinality(held \cap started)
    BY <2>1, FS_Union
  <2>3. Cardinality(held \cap started) = 0
    BY <1>3, FS_EmptySet
  <2> QED BY <1>1, <1>3, <2>1, <2>2, <2>3
<1>6. runningSims' = Cardinality(Running')
  BY <1>2, <1>4, <1>5 DEF held
<1>7. simQueue' # <<>> => n # Len(queue)
  BY <1>1, <1>2
<1> QED BY <1>1, <1>2, <1>6, <1>7, ConstantsAssumption DEF CountInv, Running

LEMMA CountDone ==
  ASSUME Inv, CountInv, NEW d \in Decisions, job[d] # "idle", Done(d)
  PROVE  CountInv'
<1> DEFINE jobs == [job EXCEPT ![d] = "idle"]
<1>1. /\ simQueue \in Seq(Decisions) /\ Distinct(simQueue)
      /\ job \in [Decisions -> Jobs] /\ jobs \in [Decisions -> Jobs]
      /\ runningSims \in Int /\ runningSims <= MAX_CONCURRENT_SIMS
      /\ Drain(simQueue, runningSims - 1, jobs)
  BY DEF Inv, Types, QueueInv, Done, Jobs
<1>2. \A i \in 1 .. Len(simQueue) : jobs[simQueue[i]] = "idle"
  <2> SUFFICES ASSUME NEW i \in 1 .. Len(simQueue) PROVE jobs[simQueue[i]] = "idle"
    OBVIOUS
  <2>1. simQueue[i] \in Decisions /\ job[simQueue[i]] = "idle"
    BY <1>1 DEF Inv, QueueInv, Waiting
  <2> QED BY <1>1, <2>1
<1>3. {e \in Decisions : jobs[e] # "idle"} = Running \ {d}
  BY <1>1 DEF Running
<1>4. Cardinality(Running \ {d}) = runningSims - 1
  <2>1. IsFiniteSet(Running) /\ d \in Running
    BY DecisionsFinite DEF Running
  <2> QED BY <2>1, FS_RemoveElement DEF CountInv
<1> HIDE DEF jobs
<1> QED BY <1>1, <1>2, <1>3, <1>4, DrainCount, ConstantsAssumption

LEMMA CountDecide ==
  ASSUME Inv, CountInv, NEW s \in Scanners, NEW d \in Decisions, NEW p, Decide(s, d, p)
  PROVE  CountInv'
<1> DEFINE queue == Append(simQueue, d)
<1>1. /\ simQueue \in Seq(Decisions) /\ queue \in Seq(Decisions)
      /\ job \in [Decisions -> Jobs]
      /\ runningSims \in Int /\ runningSims <= MAX_CONCURRENT_SIMS
      /\ Drain(queue, runningSims, job)
  BY DEF Inv, Types, Decide
<1>2. decision[d] = "none" /\ job[d] = "idle"
  BY DEF Decide, Created, Inv, DecisionInv, Fits
<1>3. \A i \in 1 .. Len(simQueue) :
        simQueue[i] \in Decisions /\ simQueue[i] # d /\ job[simQueue[i]] = "idle"
  BY <1>1, <1>2 DEF Inv, QueueInv, Waiting
<1>4. /\ Len(queue) = Len(simQueue) + 1
      /\ \A i \in 1 .. Len(simQueue) : queue[i] = simQueue[i]
      /\ queue[Len(simQueue) + 1] = d
  BY <1>1
<1> HIDE DEF queue
<1>5. Distinct(queue)
  BY <1>3, <1>4 DEF Distinct, Inv, QueueInv
<1>6. ASSUME NEW i \in 1 .. Len(queue) PROVE job[queue[i]] = "idle"
  <2>1. i \in 1 .. Len(simQueue) \/ i = Len(simQueue) + 1
    BY <1>1, <1>4
  <2> QED BY <1>2, <1>3, <1>4, <2>1
<1>7. runningSims = Cardinality({e \in Decisions : job[e] # "idle"})
  BY DEF CountInv, Running
<1> QED BY <1>1, <1>5, <1>6, <1>7, DrainCount

LEMMA NextKeepsCount ==
  ASSUME Inv, CountInv, [Next]_vars
  PROVE  CountInv'
<1>1. CASE UNCHANGED queueing
  BY <1>1 DEF queueing, CountInv, Running
<1>2. CASE LoseMemory
  <2>1. Running' = {} /\ simQueue' = <<>> /\ runningSims' = 0
    BY <1>2 DEF LoseMemory, Running
  <2> QED BY <2>1, FS_EmptySet DEF CountInv
<1>3. ASSUME NEW d \in Decisions, JobStep(d) PROVE CountInv'
  <2>1. job[d] # "idle"
    BY <1>3 DEF JobStep, Simulate, Finish, ForkRecord, ForkPosition, SendModuleTx,
       ReadReceipt, RecordModuleTx, ReadSafeNonce, PostProposal, RecordProposal
  <2>2. \/ Done(d) \/ LoseMemory
        \/ \E step \in Jobs \ {"idle"} : Goto(d, step)
    BY <1>3 DEF JobStep, Simulate, Finish, ForkRecord, ForkPosition, SendModuleTx,
       ReadReceipt, RecordModuleTx, ReadSafeNonce, PostProposal, RecordProposal,
       InsertRecord, Jobs
  <2>3. CASE \E step \in Jobs \ {"idle"} : Goto(d, step)
    <3>1. job \in [Decisions -> Jobs]
      BY DEF Inv, Types
    <3>2. Running' = Running /\ UNCHANGED <<simQueue, runningSims>>
      BY <2>1, <2>3, <3>1 DEF Goto, Running
    <3> QED BY <3>2 DEF CountInv
  <2> QED BY <1>2, <2>1, <2>2, <2>3, CountDone
<1>4. ASSUME NEW s \in Scanners, ScanStep(s) PROVE CountInv'
  <2>1. CASE StartScan(s) \/ ReadAUsdc(s) \/ CheckPending(s) \/ DecideNothing(s)
    BY <1>1, <2>1 DEF StartScan, ReadAUsdc, CheckPending, DecideNothing
  <2> QED BY <1>4, <2>1, CountDecide DEF ScanStep
<1>5. ASSUME NEW r \in Reconcilers, ReconcileStep(r) PROVE UNCHANGED queueing
  BY <1>5 DEF ReconcileStep, StartReconcile, ReadStatus, LookupPosition, MarkExisting,
     ActivatePosition, MarkReconciled, MarkDecision
<1>6. CASE \/ UNCHANGED vars
           \/ \E d \in Decisions : MineModuleTx(d) \/ ExecuteProposal(d) \/ AgeOut(d)
           \/ \E balance \in OutsideBalances : OutsideTransfer(balance)
  BY <1>1, <1>6 DEF vars, memory, MineModuleTx, ExecuteProposal, AgeOut, OutsideTransfer
<1> QED BY <1>1, <1>2, <1>3, <1>4, <1>5, <1>6 DEF Next, Crash

-----------------------------------------------------------------------------
(* The types that ProvenFirst did not need. *)

ScanTypes ==
  scan \in [Scanners -> [at : {"idle", "aUsdc", "check", "decide"}, usdc : Nat, funded : BOOLEAN]]

DeployedTypes == mode \in Modes /\ network \in Chains /\ overlapped \in BOOLEAN

PlanTypes ==
  /\ plan \in [Decisions -> [playbook : {"none", "supply", "withdraw"}, amount : Nat]]
  /\ fresh \subseteq Decisions

NonceTypes ==
  /\ nonceRead \in [Decisions -> Nat \cup {NoNonce}]
  /\ proposal \in [Decisions -> Nat \cup {NoNonce}]
  /\ safeNonce \in Nat /\ safeRuns \subseteq Decisions

FundTypes == usdc \in Nat /\ aUsdc \in Nat

MoreTypes ==
  /\ ScanTypes /\ DeployedTypes /\ PlanTypes /\ NonceTypes /\ FundTypes
  /\ faults \in 0 .. MaxFaults

(* What a scan proposes is a plan: the amount is never negative.           *)
LEMMA ProposedIsPlan ==
  ASSUME NEW seen \in [at : {"idle", "aUsdc", "check", "decide"}, usdc : Nat, funded : BOOLEAN]
  PROVE  Proposed(seen) \subseteq [playbook : {"none", "supply", "withdraw"}, amount : Nat]
<1>1. ASSUME seen.usdc - ReserveFloor > IdleThreshold
      PROVE  DeployAmount(seen.usdc - ReserveFloor) \in Nat
  <2> PICK idle \in Nat : idle = seen.usdc - ReserveFloor
    BY <1>1, ConstantsAssumption
  <2> DEFINE share == (idle * 4) \div 5
  <2>1. share \in Nat /\ share \in Int /\ MaxSingleAction \in Nat /\ MaxSingleAction \in Int
    BY ConstantsAssumption
  <2> HIDE DEF share
  <2>2. Min({share, MaxSingleAction}) \in {share, MaxSingleAction}
    BY <2>1, MinOfTwo, Zenon
  <2>3. Min({share, MaxSingleAction}) \in Nat
    BY <2>1, <2>2
  <2> QED BY <2>3 DEF DeployAmount, share
<1>2. seen.usdc < ReserveFloor => ReserveFloor - seen.usdc \in Nat
  BY ConstantsAssumption
<1> QED BY <1>1, <1>2 DEF Proposed

LEMMA ScanTypesKept ==
  ASSUME MoreTypes, NEW s \in Scanners, ScanStep(s)
  PROVE  MoreTypes'
<1>1. UNCHANGED <<deployed, nonceRead, chain>> /\ (faults' = faults \/ Fault)
  BY DEF ScanStep, StartScan, ReadAUsdc, CheckPending, DecideNothing, Decide, NoFault
<1>2. DeployedTypes' /\ NonceTypes' /\ FundTypes' /\ faults' \in 0 .. MaxFaults
  BY <1>1, ConstantsAssumption
     DEF MoreTypes, DeployedTypes, NonceTypes, FundTypes, deployed, chain, safe, Fault
<1>3. ScanTypes /\ PlanTypes /\ usdc \in Nat
  BY DEF MoreTypes, FundTypes
<1>4. scan[s] \in [at : {"idle", "aUsdc", "check", "decide"}, usdc : Nat, funded : BOOLEAN]
  BY <1>3 DEF ScanTypes
<1>5. CASE StartScan(s) \/ ReadAUsdc(s) \/ CheckPending(s) \/ DecideNothing(s)
  <2>1. PlanTypes'
    BY <1>3, <1>5 DEF PlanTypes, StartScan, ReadAUsdc, CheckPending, DecideNothing, database
  <2>2. \E x \in [at : {"idle", "aUsdc", "check", "decide"}, usdc : Nat, funded : BOOLEAN] :
          scan' = [scan EXCEPT ![s] = x]
    <3>1. CASE StartScan(s)
      BY <1>3, <3>1 DEF StartScan
    <3> PICK seen \in [at : {"idle", "aUsdc", "check", "decide"}, usdc : Nat, funded : BOOLEAN] :
          seen = scan[s]
      BY <1>4
    <3>2. CASE ReadAUsdc(s)
      <4>1. (aUsdc > 0) \in BOOLEAN
        BY DEF MoreTypes, FundTypes
      <4> PICK yes \in BOOLEAN : yes = (aUsdc > 0)
        BY <4>1, Zenon
      <4>2. \/ scan' = [scan EXCEPT ![s].at = "check", ![s].funded = yes]
            \/ scan' = [scan EXCEPT ![s] = [seen EXCEPT !.at = "check"]]
        BY <3>2, Zenon DEF ReadAUsdc
      <4>3. CASE scan' = [scan EXCEPT ![s].at = "check", ![s].funded = yes]
        <5>1. scan' = [scan EXCEPT ![s] = [[seen EXCEPT !.at = "check"] EXCEPT !.funded = yes]]
          BY <1>3, <4>3 DEF ScanTypes
        <5> QED BY <5>1
      <4> QED BY <4>2, <4>3
    <3>3. CASE CheckPending(s)
      <4>1. \/ scan' = [scan EXCEPT ![s] = IdleScan]
            \/ scan' = [scan EXCEPT ![s] = [seen EXCEPT !.at = "decide"]]
        BY <3>3, Zenon DEF CheckPending
      <4> QED BY <4>1 DEF IdleScan
    <3>4. CASE DecideNothing(s)
      BY <3>4 DEF DecideNothing, IdleScan
    <3> QED BY <1>5, <3>1, <3>2, <3>3, <3>4
  <2>3. ScanTypes'
    BY <1>3, <2>2 DEF ScanTypes
  <2> QED BY <1>2, <2>1, <2>3 DEF MoreTypes
<1>6. ASSUME NEW d \in Decisions, NEW p \in Proposed(scan[s]), Decide(s, d, p)
      PROVE  MoreTypes'
  <2>1. p \in [playbook : {"none", "supply", "withdraw"}, amount : Nat]
    BY <1>4, ProposedIsPlan
  <2>2. PlanTypes'
    BY <1>3, <1>6, <2>1 DEF PlanTypes, Decide
  <2>3. ScanTypes'
    BY <1>3, <1>6 DEF ScanTypes, Decide, IdleScan
  <2> QED BY <1>2, <2>2, <2>3 DEF MoreTypes
<1> QED BY <1>5, <1>6 DEF ScanStep

LEMMA MemoryTypesLost ==
  ASSUME ScanTypes, LoseMemory
  PROVE  ScanTypes' /\ nonceRead' \in [Decisions -> Nat \cup {NoNonce}]
BY DEF LoseMemory, ScanTypes, IdleScan

LEMMA JobTypesKept ==
  ASSUME MoreTypes, NEW d \in Decisions, JobStep(d)
  PROVE  MoreTypes'
<1>1. /\ UNCHANGED <<deployed, plan, usdc, aUsdc, safeNonce, safeRuns>>
      /\ faults' = faults \/ Fault
      /\ fresh' = fresh \/ fresh' = fresh \cup {d}
      /\ UNCHANGED scan \/ LoseMemory
      /\ \/ LoseMemory \/ UNCHANGED nonceRead
         \/ nonceRead' = [nonceRead EXCEPT ![d] = safeNonce]
         \/ nonceRead' = [nonceRead EXCEPT ![d] = NoNonce]
      /\ UNCHANGED proposal \/ proposal' = [proposal EXCEPT ![d] = nonceRead[d]]
  BY DEF JobStep, Simulate, Finish, ForkRecord, ForkPosition, SendModuleTx, ReadReceipt,
     RecordModuleTx, ReadSafeNonce, PostProposal, RecordProposal, InsertRecord, NoFault,
     database, chain, safe
<1>2. DeployedTypes' /\ PlanTypes' /\ FundTypes' /\ faults' \in 0 .. MaxFaults
  BY <1>1, ConstantsAssumption
     DEF MoreTypes, DeployedTypes, PlanTypes, FundTypes, deployed, Fault
<1>3. ScanTypes'
  BY <1>1, MemoryTypesLost DEF MoreTypes, ScanTypes
<1>4. NonceTypes'
  <2>1. NonceTypes /\ ScanTypes
    BY DEF MoreTypes
  <2>2. nonceRead' \in [Decisions -> Nat \cup {NoNonce}]
    BY <1>1, <2>1, MemoryTypesLost DEF NonceTypes
  <2>3. proposal' \in [Decisions -> Nat \cup {NoNonce}]
    BY <1>1, <2>1 DEF NonceTypes
  <2> QED BY <1>1, <2>1, <2>2, <2>3 DEF NonceTypes
<1> QED BY <1>2, <1>3, <1>4 DEF MoreTypes

(* A move takes no more than there is. *)
LEMMA MoveTypesKept ==
  ASSUME MoreTypes, NEW d \in Decisions, MineModuleTx(d) \/ ExecuteProposal(d)
  PROVE  MoreTypes'
<1>1. /\ UNCHANGED <<deployed, plan, fresh, scan, nonceRead, proposal, faults>>
      /\ safeNonce' \in {safeNonce, safeNonce + 1} /\ safeRuns' \in {safeRuns, safeRuns \cup {d}}
      /\ UNCHANGED <<usdc, aUsdc>> \/ (Runnable(d) /\ MoveFunds(d))
  BY DEF MineModuleTx, ExecuteProposal, ModuleAccepts, database, memory, safe
<1>2. /\ ScanTypes' /\ DeployedTypes' /\ PlanTypes' /\ NonceTypes'
      /\ faults' \in 0 .. MaxFaults
  BY <1>1 DEF MoreTypes, ScanTypes, DeployedTypes, PlanTypes, NonceTypes, deployed
<1>3. FundTypes'
  <2>1. plan[d].amount \in Nat /\ usdc \in Nat /\ aUsdc \in Nat
    BY DEF MoreTypes, PlanTypes, FundTypes
  <2> QED BY <1>1, <2>1 DEF FundTypes, Runnable, MoveFunds
<1> QED BY <1>2, <1>3 DEF MoreTypes

LEMMA OtherTypesKept ==
  ASSUME Inv, MoreTypes,
         \/ Crash \/ UNCHANGED vars
         \/ \E balance \in OutsideBalances : OutsideTransfer(balance)
         \/ \E d \in Decisions : AgeOut(d)
         \/ \E r \in Reconcilers : ReconcileStep(r)
  PROVE  MoreTypes'
<1>1. /\ UNCHANGED <<mode, network, plan, aUsdc, proposal, safeRuns>>
      /\ faults' = faults \/ Fault
      /\ usdc' = usdc \/ usdc' \in OutsideBalances
      /\ safeNonce' \in {safeNonce, safeNonce + 1}
      /\ UNCHANGED <<scan, nonceRead>> \/ LoseMemory
  BY DEF Crash, OutsideTransfer, AgeOut, ReconcileStep, StartReconcile, ReadStatus,
     LookupPosition, MarkExisting, ActivatePosition, MarkReconciled, MarkDecision, NoFault,
     vars, deployed, database, memory, chain, safe
<1>2. fresh' \subseteq Decisions
  <2>1. \A r \in Reconcilers :
          pass[r].at = "decision" => pass[r].current \in Decisions
    BY DEF Inv, PassInv
  <2>2. fresh \subseteq Decisions
    BY DEF MoreTypes, PlanTypes
  <2> QED BY <2>1, <2>2 DEF Crash, OutsideTransfer, AgeOut, ReconcileStep, StartReconcile,
        ReadStatus, LookupPosition, MarkExisting, ActivatePosition, MarkReconciled,
        MarkDecision, vars, database
<1>3. DeployedTypes' /\ PlanTypes' /\ FundTypes' /\ faults' \in 0 .. MaxFaults
  <2>0. overlapped' \in BOOLEAN
    <3>1. overlapped \in BOOLEAN
      BY DEF MoreTypes, DeployedTypes
    <3>2. overlapped' = overlapped \/ \E r \in Reconcilers : StartReconcile(r)
      BY DEF Crash, OutsideTransfer, AgeOut, ReconcileStep, ReadStatus, LookupPosition,
         MarkExisting, ActivatePosition, MarkReconciled, MarkDecision, vars, deployed
    <3> QED BY <3>1, <3>2 DEF StartReconcile
  <2>1. DeployedTypes' /\ PlanTypes'
    BY <1>1, <1>2, <2>0 DEF MoreTypes, DeployedTypes, PlanTypes
  <2>2. FundTypes'
    BY <1>1, ConstantsAssumption DEF MoreTypes, FundTypes
  <2>3. faults' \in 0 .. MaxFaults
    BY <1>1, ConstantsAssumption DEF MoreTypes, Fault
  <2> QED BY <2>1, <2>2, <2>3
<1>4. ScanTypes' /\ NonceTypes'
  BY <1>1, MemoryTypesLost DEF MoreTypes, ScanTypes, NonceTypes
<1> QED BY <1>3, <1>4 DEF MoreTypes

(* The queue loses no wakeup and every variable keeps its type: the        *)
(* counter of drainSimQueue is the number of running jobs and stays within *)
(* MAX_CONCURRENT_SIMS, no job is queued twice or while it runs, and jobs  *)
(* wait only while every slot is taken; for any number of slots, decisions *)
(* and overlapping scans.                                                  *)
THEOREM QueueIsSound == Spec => []QueueSound
<1>1. Init => MoreTypes /\ CountInv
  <2> SUFFICES ASSUME Init PROVE MoreTypes /\ CountInv
    OBVIOUS
  <2>1. ScanTypes /\ DeployedTypes /\ NonceTypes
    BY DEF Init, ScanTypes, IdleScan, DeployedTypes, NonceTypes
  <2>2. PlanTypes
    BY DEF Init, PlanTypes, NoPlan
  <2>3. FundTypes /\ faults \in 0 .. MaxFaults
    BY ConstantsAssumption DEF Init, FundTypes
  <2>4. Running = {} /\ simQueue = <<>> /\ runningSims = 0
    BY DEF Init, Running
  <2> QED BY <2>1, <2>2, <2>3, <2>4, FS_EmptySet DEF MoreTypes, CountInv
<1>2. Inv /\ MoreTypes /\ CountInv /\ [Next]_vars => MoreTypes' /\ CountInv'
  <2> SUFFICES ASSUME Inv, MoreTypes, CountInv, [Next]_vars PROVE MoreTypes' /\ CountInv'
    OBVIOUS
  <2>1. CASE UNCHANGED vars
    BY <2>1, OtherTypesKept, NextKeepsCount
  <2>2. CASE Next
    BY <2>2, ScanTypesKept, JobTypesKept, MoveTypesKept, OtherTypesKept, NextKeepsCount
       DEF Next
  <2> QED BY <2>1, <2>2
<1>3. Inv /\ MoreTypes /\ CountInv => QueueSound
  <2> SUFFICES ASSUME Inv, MoreTypes, CountInv PROVE QueueSound
    OBVIOUS
  <2>1. runningSims \in 0 .. MAX_CONCURRENT_SIMS
    <3>1. runningSims \in Nat /\ runningSims <= MAX_CONCURRENT_SIMS
      BY DecisionsFinite DEF CountInv, Running, Inv, Types
    <3> QED BY <3>1, ConstantsAssumption
  <2>2. TypeOK
    BY <2>1 DEF TypeOK, Inv, Types, MoreTypes, ScanTypes, DeployedTypes, PlanTypes,
                NonceTypes, FundTypes
  <2>3. QueueAccounting
    <3> DEFINE waiting == {simQueue[i] : i \in 1 .. Len(simQueue)}
    <3>1. simQueue \in Seq(Decisions) /\ Distinct(simQueue)
      BY DEF Inv, Types, QueueInv
    <3>2. Cardinality(waiting) = Len(simQueue)
      BY <3>1, DistinctCount
    <3>3. waiting \cap Running = {}
      BY DEF Inv, QueueInv, Waiting, Running
    <3> QED BY <3>2, <3>3 DEF QueueAccounting, CountInv
  <2> QED BY <2>2, <2>3 DEF QueueSound
<1> QED BY <1>1, <1>2, <1>3, InvInit, NextKeepsInv, PTL DEF Spec

-----------------------------------------------------------------------------
(* One position for a transaction, while passes do not overlap.            *)

(* A position comes after a record, and up to one fault there is one.      *)
OneEach(d) ==
  /\ positions[d] > 0 \/ job[d] = "position" => record[d] # "none"
  /\ faults <= 1 => positions[d] <= 1

(* Before any fault a record is submitted until its position is marked, and *)
(* a pass has each record once.                                            *)
Orderly ==
  /\ \A d \in Decisions :
       record[d] = "submitted" /\ positions[d] > 0 =>
         \E r \in Reconcilers : pass[r].at = "mark" /\ pass[r].current = d
  /\ \A r \in Reconcilers :
       /\ pass[r].at # "markExisting"
       /\ \A d \in pass[r].todo : record[d] = "submitted" /\ d # pass[r].current
       /\ pass[r].at \in {"lookup", "create", "mark"} => record[pass[r].current] = "submitted"

(* One pass at a time, and nothing is left in one that has ended.           *)
Solo ==
  /\ \A r \in Reconcilers : pass[r].at = "idle" => pass[r] = IdlePass
  /\ \A q, r \in Reconcilers : q # r => pass[q].at = "idle" \/ pass[r].at = "idle"

OneInv ==
  /\ Solo
  /\ \A d \in Decisions : OneEach(d)
  /\ faults = 0 => Orderly
  /\ \A r \in Reconcilers :
       faults <= 1 /\ pass[r].at = "create" => positions[pass[r].current] = 0

(* A step outside a pass: it makes no position.                            *)
LEMMA OneKept ==
  ASSUME Inv, LedgerInv, OneInv, Advances, positions' = positions,
         \A e \in Decisions :
           /\ record'[e] = record[e] \/ record[e] = "none"
           /\ record[e] # "none" \/ job'[e] = "position" => record'[e] # "none",
         pass' = pass \/ (faults' > 0 /\ \A r \in Reconcilers : pass'[r] = IdlePass)
  PROVE  OneInv'
<1>1. faults \in Nat /\ faults' \in Nat /\ faults <= faults'
  BY DEF Advances, Counters
<1>2. \A d \in Decisions : positions[d] \in Nat /\ OneEach(d)
  BY DEF Inv, Types, OneInv
<1>3. \A d \in Decisions : OneEach(d)'
  BY <1>1, <1>2 DEF OneEach
<1>4. CASE pass' = pass
  <2>1. \A r \in Reconcilers :
          /\ pass[r].todo \in SUBSET Decisions
          /\ pass[r].at \notin {"idle", "next"} => pass[r].current \in Decisions
    BY DEF Inv, Types, PassInv
  <2>2. faults' = 0 => Orderly
    BY <1>1 DEF OneInv
  <2>3. faults' = 0 => Orderly'
    BY <1>2, <1>4, <2>1, <2>2 DEF Orderly, OneEach
  <2>4. \A r \in Reconcilers :
          faults' <= 1 /\ pass'[r].at = "create" => positions'[pass'[r].current] = 0
    BY <1>1, <1>4 DEF OneInv
  <2>5. Solo'
    BY <1>4 DEF OneInv, Solo
  <2> QED BY <1>3, <2>3, <2>4, <2>5 DEF OneInv
<1>5. CASE faults' > 0 /\ \A r \in Reconcilers : pass'[r] = IdlePass
  <2>1. \A r \in Reconcilers : pass'[r].at = "idle"
    BY <1>5 DEF IdlePass
  <2>2. Solo'
    BY <1>5, <2>1 DEF Solo, IdlePass
  <2> QED BY <1>3, <1>5, <2>1, <2>2 DEF OneInv
<1> QED BY <1>4, <1>5

LEMMA JobKeepsOne ==
  ASSUME Inv, LedgerInv, OneInv, NEW d \in Decisions, JobStep(d)
  PROVE  OneInv'
<1>1. Advances /\ JobLedger(d) /\ OneEach(d) /\ \A e \in Decisions \ {d} : Quiet(e)
  BY JobEffect DEF LedgerInv, OneInv
<1>2. job \in [Decisions -> Jobs] /\ positions \in [Decisions -> Nat]
  BY DEF Inv, Types
<1>3. pass' = pass \/ (faults' > 0 /\ \A r \in Reconcilers : pass'[r] = IdlePass)
  <2>1. \/ pass' = pass
        \/ Fault /\ LoseMemory
    BY DEF JobStep, Simulate, Finish, ForkRecord, ForkPosition, SendModuleTx, ReadReceipt,
       RecordModuleTx, ReadSafeNonce, PostProposal, RecordProposal, InsertRecord
  <2> QED BY <2>1 DEF Fault, LoseMemory, LedgerInv, Counters
<1>4. ASSUME NEW e \in Decisions \ {d}
      PROVE  /\ record'[e] = record[e]
             /\ record[e] # "none" \/ job'[e] = "position" => record'[e] # "none"
  <2>1. Quiet(e) /\ OneEach(e)
    BY <1>1 DEF OneInv
  <2> QED BY <2>1 DEF Quiet, OneEach
<1>5. /\ record'[d] = record[d] \/ record[d] = "none"
      /\ record[d] # "none" \/ job'[d] = "position" => record'[d] # "none"
  <2>1. \E S : record \in [Decisions -> S]
    BY DEF Inv, Types
  <2>2. CASE record' = record /\ job'[d] # "position"
    BY <2>2
  <2>3. CASE \E status \in {"proposed", "submitted", "reconciled"} :
               record' = [record EXCEPT ![d] = status] /\ record[d] = "none"
    BY <2>1, <2>3
  <2>4. CASE Simulate(d) \/ Finish(d)
    <3>1. record' = record
      BY <2>4 DEF Simulate, Finish
    <3>2. job'[d] # "position"
      BY <1>2, <2>4 DEF Simulate, Finish, Goto, Done, Drain
    <3> QED BY <2>2, <3>1, <3>2
  <2>5. CASE SendModuleTx(d) \/ ReadReceipt(d) \/ ReadSafeNonce(d) \/ PostProposal(d)
    BY <1>2, <2>2, <2>5 DEF SendModuleTx, ReadReceipt, ReadSafeNonce, PostProposal, Goto,
       database
  <2>6. CASE ForkPosition(d)
    BY <1>2, <2>2, <2>6 DEF ForkPosition, Goto, LoseMemory
  <2>7. CASE ForkRecord(d) \/ RecordProposal(d) \/ RecordModuleTx(d)
    <3>1. record[d] = "none"
      BY <1>1, <2>7 DEF JobLedger, ForkRecord, RecordProposal, RecordModuleTx
    <3>2. CASE record' = record
      <4>1. job'[d] # "position"
        BY <1>2, <2>1, <2>7, <3>1, <3>2 DEF ForkRecord, RecordProposal, RecordModuleTx,
           InsertRecord, Goto, LoseMemory
      <4> QED BY <2>2, <3>2, <4>1
    <3>3. CASE record' # record
      BY <2>3, <2>7, <3>1, <3>3 DEF ForkRecord, RecordProposal, RecordModuleTx, InsertRecord
    <3> QED BY <3>2, <3>3
  <2> QED BY <2>4, <2>5, <2>6, <2>7 DEF JobStep
<1>6. CASE positions' = positions
  BY <1>1, <1>3, <1>4, <1>5, <1>6, OneKept
<1>7. CASE positions' # positions
  <2>1. /\ job[d] = "position" /\ positions' = [positions EXCEPT ![d] = @ + 1]
        /\ record' = record /\ pass' = pass
    BY <1>7 DEF JobStep, Simulate, Finish, ForkRecord, ForkPosition, SendModuleTx,
       ReadReceipt, RecordModuleTx, ReadSafeNonce, PostProposal, RecordProposal, database
  <2>2. mode = "fork" /\ positions[d] = 0 /\ record[d] # "none"
    BY <1>1, <2>1 DEF JobLedger, OneEach
  <2>3. \A r \in Reconcilers : pass[r].at = "idle"
    BY <2>2 DEF LedgerInv, PassLedger
  <2>4. record[d] # "submitted" /\ faults \in Nat /\ faults' \in Nat /\ faults <= faults'
    BY <2>2 , <1>1 DEF LedgerInv, Ledger, Advances, Counters
  <2>5. /\ positions'[d] = 1 /\ record'[d] # "none"
        /\ \A e \in Decisions \ {d} : positions'[e] = positions[e]
    BY <1>2, <2>1, <2>2
  <2>6. ASSUME NEW e \in Decisions PROVE OneEach(e)'
    <3>1. CASE e = d
      BY <2>5, <3>1 DEF OneEach
    <3>2. CASE e # d
      <4>1. OneEach(e) /\ Quiet(e)
        BY <1>1, <3>2 DEF OneInv
      <4> QED BY <4>1, <2>4 DEF OneEach, Quiet
    <3> QED BY <3>1, <3>2
  <2>7. faults' = 0 => Orderly'
    <3>1. faults' = 0 => Orderly
      BY <2>4 DEF OneInv
    <3> QED BY <2>1, <2>3, <2>4, <2>5, <3>1 DEF Orderly
  <2>8. Solo'
    BY <2>1 DEF OneInv, Solo
  <2> QED BY <2>1, <2>3, <2>6, <2>7, <2>8 DEF OneInv
<1> QED BY <1>6, <1>7

(* Scans, moves, deposits and crashes touch neither records nor positions. *)
LEMMA OutsideKeepsOne ==
  ASSUME Inv, LedgerInv, OneInv,
         \/ UNCHANGED vars \/ Crash
         \/ \E s \in Scanners : ScanStep(s)
         \/ \E d \in Decisions : MineModuleTx(d) \/ ExecuteProposal(d) \/ AgeOut(d)
         \/ \E balance \in OutsideBalances : OutsideTransfer(balance)
  PROVE  OneInv'
<1>1. /\ UNCHANGED <<mode, record, positions>>
      /\ faults' = faults \/ Fault
      /\ safeNonce' \in {safeNonce, safeNonce + 1}
      /\ safeRuns' = safeRuns \/ \E d \in Decisions : safeRuns' = safeRuns \cup {d}
      /\ pass' = pass \/ (Fault /\ LoseMemory)
      /\ UNCHANGED job \/ LoseMemory \/ \E queue, busy : Drain(queue, busy, job)
  BY DEF ScanStep, StartScan, ReadAUsdc, CheckPending, DecideNothing, Decide, Crash,
     MineModuleTx, ExecuteProposal, AgeOut, OutsideTransfer, NoFault, vars, deployed,
     database, memory, queueing, chain, safe
<1>2. Advances
  BY <1>1, ConstantsAssumption DEF Advances, LedgerInv, Counters, Fault
<1>3. ASSUME NEW e \in Decisions PROVE job'[e] = "position" => record[e] # "none"
  <2>1. job'[e] \in {job[e], "idle", "simulate"}
    BY <1>1 DEF LoseMemory, Drain
  <2> QED BY <2>1 DEF OneInv, OneEach
<1>4. pass' = pass \/ (faults' > 0 /\ \A r \in Reconcilers : pass'[r] = IdlePass)
  BY <1>1 DEF Fault, LoseMemory, LedgerInv, Counters
<1> QED BY <1>1, <1>2, <1>3, <1>4, OneKept

(* The steps of the only pass there is: it creates a position when there   *)
(* was none, unless a lookup failed, and that is a fault.                  *)
LEMMA ReconcileKeepsOne ==
  ASSUME ~overlapped', Inv, LedgerInv, OneInv, NEW r \in Reconcilers, ReconcileStep(r)
  PROVE  OneInv'
<1>0. \A q \in Reconcilers \ {r} : pass[q] = IdlePass /\ pass'[q] = IdlePass
  <2>1. \A q \in Reconcilers \ {r} : pass'[q] = pass[q]
    <3>1. pass \in [Reconcilers -> [at : {"idle", "next", "lookup", "create", "markExisting",
                                          "mark", "decision"},
                                    todo : SUBSET Decisions, current : Decisions \cup {0}]]
      BY DEF Inv, Types
    <3> QED BY <3>1 DEF ReconcileStep, StartReconcile, ReadStatus, LookupPosition, MarkExisting,
               ActivatePosition, MarkReconciled, MarkDecision, NextRecord, PassGoto
  <2>2. \A q \in Reconcilers \ {r} : pass[q].at = "idle"
    <3>1. CASE pass[r].at = "idle"
      <4>1. StartReconcile(r)
        BY <3>1 DEF ReconcileStep, ReadStatus, LookupPosition, MarkExisting, ActivatePosition,
           MarkReconciled, MarkDecision
      <4> QED BY <4>1 DEF StartReconcile
    <3>2. CASE pass[r].at # "idle"
      BY <3>2 DEF OneInv, Solo
    <3> QED BY <3>1, <3>2
  <2> QED BY <2>1, <2>2 DEF OneInv, Solo
<1>1. PICK at, todo, c : at = pass[r].at /\ todo = pass[r].todo /\ c = pass[r].current
  OBVIOUS
<1>2. PICK atN, todoN, cN :
        atN = pass'[r].at /\ todoN = pass'[r].todo /\ cN = pass'[r].current
  OBVIOUS
<1>3. /\ job' = job /\ (faults' = faults \/ (faults' = faults + 1))
      /\ faults \in Nat
  BY DEF ReconcileStep, StartReconcile, ReadStatus, LookupPosition, MarkExisting, LedgerInv,
         ActivatePosition, MarkReconciled, MarkDecision, NoFault, Fault, queueing, Counters
<1>4. /\ pass \in [Reconcilers -> [at : {"idle", "next", "lookup", "create", "markExisting",
                                        "mark", "decision"},
                                  todo : SUBSET Decisions, current : Decisions \cup {0}]]
      /\ positions \in [Decisions -> Nat]
      /\ record \in [Decisions -> {"none", "proposed", "submitted", "reconciled"}]
  BY DEF Inv, Types
<1>5. /\ todo \subseteq Decisions
      /\ at \notin {"idle", "next"} => c \in Decisions /\ record[c] # "none"
  BY <1>1, <1>4 DEF Inv, PassInv
<1>6. faults = 0 =>
        /\ \A d \in Decisions : record[d] = "submitted" /\ positions[d] > 0 =>
             at = "mark" /\ c = d
        /\ at # "markExisting"
        /\ \A d \in todo : record[d] = "submitted" /\ d # c
        /\ at \in {"lookup", "create", "mark"} => record[c] = "submitted"
  <2>1. \A q \in Reconcilers \ {r} : pass[q].at = "idle"
    BY <1>0 DEF IdlePass
  <2> QED BY <1>1, <2>1 DEF OneInv, Orderly
<1>7. faults <= 1 /\ at = "create" => positions[c] = 0
  BY <1>1 DEF OneInv
<1>8. /\ \A d \in Decisions : OneEach(d)'
      /\ faults' = 0 =>
           /\ \A d \in Decisions : record'[d] = "submitted" /\ positions'[d] > 0 =>
                atN = "mark" /\ cN = d
           /\ atN # "markExisting"
           /\ \A d \in todoN : record'[d] = "submitted" /\ d # cN
           /\ atN \in {"lookup", "create", "mark"} => record'[cN] = "submitted"
      /\ faults' <= 1 /\ atN = "create" => positions'[cN] = 0
  <2>1. ASSUME NEW rest, NextRecord(r, rest)
        PROVE  atN \in {"idle", "next"} /\ todoN = rest /\ cN = 0
    BY <1>2, <1>4, <2>1 DEF NextRecord, IdlePass
  <2>2. ASSUME NEW step, PassGoto(r, step)
        PROVE  atN = step /\ todoN = todo /\ cN = c
    BY <1>1, <1>2, <1>4, <2>2 DEF PassGoto
  <2>3. 0 \notin Decisions
    BY ConstantsAssumption DEF Decisions
  <2>4. ASSUME UNCHANGED <<record, positions>> PROVE \A d \in Decisions : OneEach(d)'
    BY <1>3, <2>4 DEF OneInv, OneEach
  <2>5. CASE StartReconcile(r)
    <3>1. /\ at = "idle" /\ UNCHANGED <<record, positions, faults>>
          /\ atN = "next" /\ todoN \subseteq Submitted /\ cN = 0
      BY <1>1, <1>2, <1>4, <2>5 DEF StartReconcile, database
    <3> QED BY <1>3, <1>6, <2>3, <2>4, <3>1 DEF Submitted
  <2>6. CASE ReadStatus(r)
    <3>1. /\ at = "next" /\ UNCHANGED <<record, positions>>
          /\ \E d \in todo :
               \/ atN = "lookup" /\ todoN = todo \ {d} /\ cN = d
               \/ atN \in {"idle", "next"} /\ todoN = todo \ {d} /\ cN = 0
      BY <1>1, <1>2, <1>4, <2>1, <2>6 DEF ReadStatus, database
    <3> QED BY <1>3, <1>5, <1>6, <2>3, <2>4, <3>1
  <2>7. CASE LookupPosition(r)
    <3>1. /\ at = "lookup" /\ UNCHANGED <<record, positions>> /\ todoN = todo /\ cN = c
          /\ \/ positions[c] > 0 /\ atN = "markExisting"
             \/ positions[c] = 0 /\ atN = "create"
             \/ positions[c] > 0 /\ atN = "create" /\ faults' = faults + 1
      BY <1>1, <2>2, <2>7 DEF LookupPosition, database, Fault
    <3>2. faults = 0 => ~(positions[c] > 0)
      BY <1>5, <1>6, <3>1
    <3> QED BY <1>3, <1>4, <1>5, <1>6, <2>4, <3>1, <3>2
  <2>8. CASE MarkExisting(r)
    <3>1. /\ at = "markExisting" /\ positions' = positions
          /\ atN \in {"idle", "next"} /\ todoN = todo /\ cN = 0
          /\ record' = record \/ record' = [record EXCEPT ![c] = "reconciled"]
      BY <1>1, <2>1, <2>8 DEF MarkExisting
    <3>2. faults' # 0
      BY <1>3, <1>6, <3>1
    <3>3. ASSUME NEW d \in Decisions PROVE OneEach(d)'
      <4>1. record[d] # "none" => record'[d] # "none"
        BY <1>4, <3>1
      <4> QED BY <1>3, <3>1, <4>1 DEF OneInv, OneEach
    <3> QED BY <3>1, <3>2, <3>3
  <2>9. CASE ActivatePosition(r)
    <3>1. CASE /\ positions' = positions /\ atN \in {"idle", "next"} /\ record' = record
               /\ faults' = faults + 1
      BY <1>3, <2>4, <3>1
    <3>2. CASE /\ positions' = [positions EXCEPT ![c] = @ + 1] /\ record' = record
               /\ atN = "mark" /\ todoN = todo /\ cN = c /\ faults' = faults
      <4>1. /\ at = "create" /\ c \in Decisions /\ record[c] # "none"
            /\ positions[c] \in Nat /\ positions'[c] = positions[c] + 1
            /\ \A d \in Decisions \ {c} : positions'[d] = positions[d]
        BY <1>1, <1>4, <1>5, <2>9, <3>2 DEF ActivatePosition
      <4>2. ASSUME NEW d \in Decisions PROVE OneEach(d)'
        BY <1>3, <1>7, <3>2, <4>1 DEF OneInv, OneEach
      <4> QED BY <1>3, <1>6, <3>2, <4>1, <4>2
    <3> QED BY <1>1, <2>1, <2>2, <2>9, <3>1, <3>2 DEF ActivatePosition, NoFault, Fault
  <2>10. CASE MarkReconciled(r)
    <3>1. CASE record' = record /\ positions' = positions /\ atN \in {"idle", "next"}
               /\ faults' = faults + 1
      BY <1>3, <2>4, <3>1
    <3>2. CASE /\ record' = [record EXCEPT ![c] = "reconciled"] /\ positions' = positions
               /\ atN = "decision" /\ todoN = todo /\ cN = c /\ faults' = faults
      <4>1. /\ at = "mark" /\ c \in Decisions
            /\ record'[c] = "reconciled"
            /\ \A d \in Decisions \ {c} : record'[d] = record[d]
        BY <1>1, <1>4, <1>5, <2>10, <3>2 DEF MarkReconciled
      <4>2. ASSUME NEW d \in Decisions PROVE OneEach(d)'
        BY <1>3, <3>2, <4>1 DEF OneInv, OneEach
      <4> QED BY <1>5, <1>6, <3>2, <4>1, <4>2
    <3> QED BY <1>1, <2>1, <2>2, <2>10, <3>1, <3>2 DEF MarkReconciled, NoFault, Fault
  <2>11. CASE MarkDecision(r)
    <3>1. /\ at = "decision" /\ UNCHANGED <<record, positions>>
          /\ atN \in {"idle", "next"} /\ todoN = todo /\ cN = 0
      BY <1>1, <2>1, <2>11 DEF MarkDecision
    <3> QED BY <1>3, <1>5, <1>6, <2>3, <2>4, <3>1
  <2> QED BY <2>5, <2>6, <2>7, <2>8, <2>9, <2>10, <2>11 DEF ReconcileStep
<1>9. \A q \in Reconcilers \ {r} : pass'[q].at = "idle" /\ pass'[q].todo = {}
  BY <1>0 DEF IdlePass
<1>10. faults' = 0 => Orderly'
  <2> SUFFICES ASSUME faults' = 0 PROVE Orderly'
    OBVIOUS
  <2>1. \A d \in Decisions : record'[d] = "submitted" /\ positions'[d] > 0 =>
          pass'[r].at = "mark" /\ pass'[r].current = d
    BY <1>2, <1>8
  <2>2. /\ pass'[r].at # "markExisting"
        /\ \A d \in pass'[r].todo : record'[d] = "submitted" /\ d # pass'[r].current
        /\ pass'[r].at \in {"lookup", "create", "mark"} => record'[pass'[r].current] = "submitted"
    BY <1>2, <1>8
  <2> QED BY <1>9, <2>1, <2>2 DEF Orderly
<1>11. Solo'
  <2>1. pass'[r].at = "idle" => pass'[r] = IdlePass
    BY <1>4 DEF ReconcileStep, StartReconcile, ReadStatus, LookupPosition, MarkExisting,
       ActivatePosition, MarkReconciled, MarkDecision, NextRecord, PassGoto
  <2> QED BY <1>0, <1>9, <2>1 DEF Solo
<1>12. \A q \in Reconcilers :
         faults' <= 1 /\ pass'[q].at = "create" => positions'[pass'[q].current] = 0
  <2>1. faults' <= 1 /\ pass'[r].at = "create" => positions'[pass'[r].current] = 0
    BY <1>2, <1>8
  <2> QED BY <1>9, <2>1
<1> QED BY <1>8, <1>10, <1>11, <1>12 DEF OneInv

(* Passes that have overlapped stay noted.                                  *)
LEMMA OverlapNoted == [Next]_vars /\ ~overlapped' => ~overlapped
<1> SUFFICES ASSUME [Next]_vars, ~overlapped' PROVE ~overlapped
  OBVIOUS
<1>1. ASSUME NEW s \in Scanners, ScanStep(s) PROVE overlapped' = overlapped
  BY <1>1 DEF ScanStep, StartScan, ReadAUsdc, CheckPending, DecideNothing, Decide, deployed
<1>2. ASSUME NEW d \in Decisions, JobStep(d) PROVE overlapped' = overlapped
  BY <1>2 DEF JobStep, Simulate, Finish, ForkRecord, ForkPosition, SendModuleTx, ReadReceipt,
     RecordModuleTx, ReadSafeNonce, PostProposal, RecordProposal, deployed
<1>3. ASSUME NEW d \in Decisions, MineModuleTx(d) \/ ExecuteProposal(d) \/ AgeOut(d)
      PROVE  overlapped' = overlapped
  BY <1>3 DEF MineModuleTx, ExecuteProposal, AgeOut, deployed
<1>4. ASSUME NEW r \in Reconcilers, ReconcileStep(r) PROVE overlapped => overlapped'
  BY <1>4 DEF ReconcileStep, StartReconcile, ReadStatus, LookupPosition, MarkExisting,
     ActivatePosition, MarkReconciled, MarkDecision, deployed
<1>5. ASSUME NEW balance \in OutsideBalances, OutsideTransfer(balance)
      PROVE  overlapped' = overlapped
  BY <1>5 DEF OutsideTransfer, deployed
<1>6. CASE Crash \/ UNCHANGED vars
  BY <1>6 DEF Crash, vars, deployed
<1> QED BY <1>1, <1>2, <1>3, <1>4, <1>5, <1>6 DEF Next

(* One position row per executed transaction through any single failure or *)
(* crash, for any number of decisions and any page, until two passes       *)
(* overlap (reconcilePending): that can make two rows without any fault,   *)
(* and so can a second fault.                                              *)
THEOREM OnePositionEach == Spec => []OnePositionUnderOneFault
<1> DEFINE Kept == ~overlapped => OneInv
<1>1. Init => Kept
  <2> SUFFICES ASSUME Init PROVE OneInv
    OBVIOUS
  <2>1. \A d \in Decisions : OneEach(d)
    BY DEF Init, OneEach
  <2>2. Orderly
    BY DEF Init, Orderly, IdlePass
  <2>3. \A r \in Reconcilers : pass[r].at # "create"
    BY DEF Init, IdlePass
  <2>4. Solo
    BY DEF Init, IdlePass, Solo
  <2> QED BY <2>1, <2>2, <2>3, <2>4 DEF OneInv
<1>2. Inv /\ LedgerInv /\ Kept /\ [Next]_vars => Kept'
  <2> SUFFICES ASSUME Inv, LedgerInv, Kept, [Next]_vars, ~overlapped' PROVE OneInv'
    OBVIOUS
  <2>1. OneInv
    BY OverlapNoted
  <2> QED BY <2>1, JobKeepsOne, OutsideKeepsOne, ReconcileKeepsOne DEF Next
<1>3. Kept => OnePositionUnderOneFault
  BY DEF OneInv, OneEach, OnePositionUnderOneFault, OnePositionPerTx
<1> HIDE DEF Kept
<1> QED BY <1>1, <1>2, <1>3, LedgerAlways, PTL DEF Spec
=============================================================================
