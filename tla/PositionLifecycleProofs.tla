----------------------- MODULE PositionLifecycleProofs -----------------------
(***************************************************************************)
(* A watched position was signed, opened or claimed, a rebalance was       *)
(* alerted, so was a failure, and a closed position stays closed: for any  *)
(* positions, length of plan, overlapping cycles, workers, queue and       *)
(* number of faults.                                                       *)
(***************************************************************************)
EXTENDS PositionLifecycle, TLAPS

Somebody == Positions \cup {Nobody}
Readings == Health \cup {"null"}
Checks   == [at : {"next", "alert", "trigger"}, todo : SUBSET Positions, pos : Somebody,
             type : Health \cup {"none", "drift"}]

Types ==
  /\ TypeOK
  /\ dialog \in [at : {"review", "prepare", "sign", "confirm"}, pos : Somebody]
  /\ execution \in [at : {"none", "nonce", "propose", "mark", "done"}, pos : Somebody]
  /\ cycle \in [Cycles -> [at : {"idle", "check"}, hf : [Positions -> Readings],
                           health : Checks, apy : Checks]]
  /\ worker \in [Workers -> [at : {"idle", "fail"}, job : Jobs \cup {<<Nobody, "drift">>}]]

(* What a row says is true of the position: who made it active, what was   *)
(* alerted, how its health was read.                                       *)
Row(p) ==
  /\ position[p] = "none" => signed[p] = 0
  /\ position[p] \in Listed => signed[p] = Plan \/ p \in opened \cup claimed
  /\ position[p] = "failed" => Alerted(p, "critical") \/ Alerted(p, "drift")
  /\ position[p] = "deploying" => SafeTransaction(p) \in proposed
  /\ live[p] = "critical" \/ stored[p] = "critical" => p \in wasCritical

(* An alert of a near liquidation is true.                                 *)
AlertsOK == \A p \in Positions : Alerted(p, "critical") => p \in wasCritical

(* A job in the queue: its alert was stored, or lost.                      *)
QueuedJob(p) ==
  /\ jobs[<<p, "emergency">>] > 0 => Alerted(p, "critical")
  /\ jobs[<<p, "drift">>] > 0 => Alerted(p, "drift")

(* The dialog has a row, and signs on until the plan is complete.          *)
DialogOK ==
  /\ dialog.at # "review" => dialog.pos \in Positions /\ position[dialog.pos] # "none"
  /\ dialog.at \in {"prepare", "sign"} => signed[dialog.pos] < Plan
  /\ dialog.at = "confirm" => signed[dialog.pos] = Plan

ExecutionOK ==
  /\ execution.at \in {"nonce", "propose", "mark"} => execution.pos \in Positions
  /\ execution.at = "mark" => SafeTransaction(execution.pos) \in proposed

(* What a check has found, and alerted before it asks for a rebalance.     *)
Found(check, types) ==
  /\ check.at # "next" =>
       /\ check.pos \in Positions /\ check.type \in types
       /\ check.type = "critical" => check.pos \in wasCritical
  /\ check.at = "trigger" =>
       check.type # "warning" /\ <<check.pos, check.type>> \in alerts \cup lost

CycleOK(c) ==
  /\ Found(cycle[c].health, {"warning", "critical"})
  /\ Found(cycle[c].apy, {"drift"})
  /\ \A p \in cycle[c].health.todo :
       /\ cycle[c].hf[p] # "null"
       /\ cycle[c].hf[p] = "critical" => p \in wasCritical

(* The job of a worker was alerted.                                        *)
WorkerOK(w) ==
  worker[w].at # "idle" =>
    /\ worker[w].job \in Jobs
    /\ <<worker[w].job[1], "critical">> \in alerts \cup lost
       \/ <<worker[w].job[1], "drift">> \in alerts \cup lost

IInv ==
  /\ Types
  /\ \A p \in Positions : Row(p) /\ QueuedJob(p)
  /\ AlertsOK
  /\ DialogOK
  /\ ExecutionOK
  /\ \A c \in Cycles : CycleOK(c)
  /\ \A w \in Workers : WorkerOK(w)

-----------------------------------------------------------------------------
(* The invariant holds at first: no row, no job, nobody at work.           *)
LEMMA InvInit == Init => IInv
<1> SUFFICES ASSUME Init PROVE IInv
  OBVIOUS
<1> USE DEF Init, NoDialog, NoCheck
<1>1. Types
  <2>1. TypeOK
    BY ConstantsAssumption DEF TypeOK, Statuses, Health, Jobs, Kinds
  <2>2. cycle \in [Cycles -> [at : {"idle", "check"}, hf : [Positions -> Readings],
                              health : Checks, apy : Checks]]
    BY DEF Readings, Checks, Somebody
  <2>3. worker \in [Workers -> [at : {"idle", "fail"}, job : Jobs \cup {<<Nobody, "drift">>}]]
    OBVIOUS
  <2> QED
    BY <2>1, <2>2, <2>3 DEF Types, Somebody
<1>2. \A p \in Positions : Row(p)
  BY DEF Row, Listed
<1>3. \A p \in Positions : QueuedJob(p)
  <2>1. \A j \in Jobs : ~(jobs[j] > 0)
    OBVIOUS
  <2> QED
    BY <2>1 DEF QueuedJob, Jobs, Kinds
<1>4. DialogOK /\ ExecutionOK /\ AlertsOK
  BY DEF DialogOK, ExecutionOK, AlertsOK, Alerted
<1>5. \A c \in Cycles : CycleOK(c)
  BY DEF CycleOK, Found
<1>6. \A w \in Workers : WorkerOK(w)
  BY DEF WorkerOK
<1> QED
  BY <1>1, <1>2, <1>3, <1>4, <1>5, <1>6 DEF IInv

(* What is signed, alerted, proposed and remembered stays so, and a row is *)
(* never deleted.                                                          *)
Grows ==
  /\ \A p \in Positions : signed[p] = Plan => signed'[p] = Plan
  /\ \A p \in Positions : position[p] # "none" => position'[p] # "none"
  /\ alerts \subseteq alerts' /\ lost \subseteq lost'
  /\ proposed \subseteq proposed' /\ wasCritical \subseteq wasCritical'
  /\ opened \subseteq opened' /\ claimed \subseteq claimed'

(* A cycle, a worker, the dialog and the execution worker keep their part  *)
(* through the steps of everybody else.                                    *)
LEMMA CycleKept ==
  ASSUME Types, Grows, NEW c \in Cycles, CycleOK(c), cycle'[c] = cycle[c]
  PROVE  CycleOK(c)'
<1> DEFINE h == cycle[c].health  a == cycle[c].apy
<1>1. h.todo \subseteq Positions /\ a.todo \subseteq Positions
  BY DEF Types, Checks
<1>2. Found(h, {"warning", "critical"}) /\ Found(a, {"drift"})
      /\ \A p \in h.todo : /\ cycle[c].hf[p] # "null"
                           /\ cycle[c].hf[p] = "critical" => p \in wasCritical
  BY DEF CycleOK
<1>3. cycle'[c].health = h /\ cycle'[c].apy = a /\ cycle'[c].hf = cycle[c].hf
  OBVIOUS
<1> HIDE DEF h, a
<1>4. Found(cycle[c].health, {"warning", "critical"})'
  BY <1>2, <1>3 DEF Found, Grows
<1>5. Found(cycle[c].apy, {"drift"})'
  BY <1>2, <1>3 DEF Found, Grows
<1>6. wasCritical \subseteq wasCritical'
  BY DEF Grows
<1> QED
  BY <1>2, <1>3, <1>4, <1>5, <1>6 DEF CycleOK

LEMMA WorkerKept ==
  ASSUME Types, Grows, NEW w \in Workers, WorkerOK(w), worker'[w] = worker[w]
  PROVE  WorkerOK(w)'
BY DEF WorkerOK, Grows, Jobs

LEMMA DialogKept ==
  ASSUME Types, Grows, DialogOK, UNCHANGED <<dialog, signed>>
  PROVE  DialogOK'
BY DEF DialogOK, Grows

LEMMA ExecutionKept ==
  ASSUME Types, Grows, ExecutionOK, UNCHANGED execution
  PROVE  ExecutionOK'
BY DEF ExecutionOK, Grows

LEMMA JobKept ==
  ASSUME Types, Grows, NEW p \in Positions, QueuedJob(p),
         \A kind \in Kinds : jobs'[<<p, kind>>] <= jobs[<<p, kind>>],
         jobs' \in [Jobs -> Nat]
  PROVE  QueuedJob(p)'
<1>1. \A kind \in Kinds : jobs[<<p, kind>>] \in Nat /\ jobs'[<<p, kind>>] \in Nat
  BY DEF Types, TypeOK, Jobs
<1>2. \A kind \in Kinds : jobs'[<<p, kind>>] > 0 => jobs[<<p, kind>>] > 0
  BY <1>1
<1> QED
  BY <1>2 DEF QueuedJob, Grows, Kinds, Alerted

LEMMA AlertsKept ==
  ASSUME AlertsOK, Grows, UNCHANGED <<alerts, lost>>
  PROVE  AlertsOK'
BY DEF AlertsOK, Alerted, Grows

(* A failure is counted, and within its bound.                             *)
LEMMA FaultsCounted ==
  ASSUME faults \in 0 .. MaxFaults, Fault \/ NoFault
  PROVE  faults' \in 0 .. MaxFaults
BY ConstantsAssumption DEF Fault, NoFault

-----------------------------------------------------------------------------
(* A row that a step does not write, of a position whose signatures and    *)
(* health it does not touch, stays true.                                   *)
LEMMA RowKept ==
  ASSUME Grows, NEW p \in Positions, Row(p),
         position'[p] = position[p], signed'[p] = signed[p], live'[p] = live[p],
         stored'[p] = stored[p]
  PROVE  Row(p)'
BY DEF Row, Grows, Alerted

(* The dialog creates a row, has its plan signed and makes it active.      *)
LEMMA DialogStep ==
  ASSUME IInv, Deploy \/ Prepare \/ Sign \/ Confirm
  PROVE  IInv' /\ Grows
<1>1. Types /\ DialogOK /\ ExecutionOK
  BY DEF IInv
<1>2. UNCHANGED <<stored, alerts, live, proposed, wasCritical, jobs, execution, cycle, worker,
                  opened, claimed, lost>>
  BY DEF Deploy, Prepare, Sign, Confirm, Dialog, history
<1>3. Fault \/ NoFault
  BY DEF Deploy, Prepare, Sign, Confirm
<1>4. faults' \in 0 .. MaxFaults
  BY <1>1, <1>3, FaultsCounted DEF Types, TypeOK
<1>5. position \in [Positions -> Statuses] /\ signed \in [Positions -> 0 .. Plan]
      /\ dialog \in [at : {"review", "prepare", "sign", "confirm"}, pos : Somebody]
      /\ Plan \in Nat \ {0}
  BY <1>1, ConstantsAssumption DEF Types, TypeOK
<1> DEFINE Kept(p) == Row(p)'
           Goal == /\ position' \in [Positions -> Statuses] /\ signed' \in [Positions -> 0 .. Plan]
                   /\ dialog' \in [at : {"review", "prepare", "sign", "confirm"}, pos : Somebody]
                   /\ \A p \in Positions : Kept(p)
                   /\ DialogOK' /\ Grows
<1>6. ASSUME Deploy PROVE Goal
  <2>1. PICK p \in Unused : /\ CreatePending(p)
                            /\ dialog' = [at |-> "prepare", pos |-> p] \/ UNCHANGED dialog
                            /\ UNCHANGED signed
    BY <1>6 DEF Deploy
  <2>2. p \in Positions /\ position[p] = "none" /\ signed[p] = 0
    BY <2>1 DEF Unused, IInv, Row
  <2>3. position' = [position EXCEPT ![p] = "pending"]
    BY <2>1 DEF CreatePending
  <2>4. Grows
    BY <1>2, <1>4, <1>5, <2>1, <2>2, <2>3 DEF Grows
  <2>5. \A q \in Positions : Kept(q)
    <3>1. Kept(p)
      BY <1>2, <1>5, <2>2, <2>3, <2>1 DEF Row, Listed, IInv
    <3>2. ASSUME NEW q \in Positions, q # p PROVE Kept(q)
      BY <1>2, <1>5, <2>1, <2>3, <2>4, <3>2, RowKept DEF IInv
    <3> QED
      BY <3>1, <3>2
  <2>6. DialogOK'
    BY <1>1, <1>5, <2>1, <2>2, <2>3 DEF DialogOK
  <2> QED
    BY <1>5, <2>1, <2>2, <2>3, <2>4, <2>5, <2>6 DEF Statuses, Somebody
<1>7. ASSUME Prepare PROVE Goal
  <2>1. /\ UNCHANGED <<position, signed>>
        /\ dialog.at = "prepare"
        /\ dialog' = [dialog EXCEPT !.at = "sign"] \/ dialog' = NoDialog
    BY <1>7 DEF Prepare, Step
  <2>2. Grows
    BY <1>2, <1>4, <2>1 DEF Grows
  <2>3. DialogOK'
    BY <1>1, <1>5, <2>1 DEF DialogOK, NoDialog
  <2>4. \A q \in Positions : Kept(q)
    BY <1>2, <2>1, <2>2, RowKept DEF IInv
  <2> QED
    BY <1>5, <2>1, <2>2, <2>3, <2>4 DEF NoDialog, Somebody
<1>8. ASSUME Sign PROVE Goal
  <2>1. dialog.at = "sign" /\ UNCHANGED position
    BY <1>8 DEF Sign
  <2>2. CASE dialog' = NoDialog /\ UNCHANGED signed
    <3>1. Grows
      BY <1>2, <1>4, <2>1, <2>2 DEF Grows
    <3>2. \A q \in Positions : Kept(q)
      BY <1>2, <2>1, <2>2, <3>1, RowKept DEF IInv
    <3> QED
      BY <1>5, <2>1, <2>2, <3>1, <3>2 DEF NoDialog, Somebody, DialogOK
  <2>3. CASE /\ signed' = [signed EXCEPT ![dialog.pos] = @ + 1]
             /\ Step(IF signed'[dialog.pos] = Plan THEN "confirm" ELSE "sign")
    <3>0. PICK p \in Positions : p = dialog.pos
      BY <1>1, <2>1 DEF DialogOK
    <3>1. signed[p] \in 0 .. Plan /\ signed[p] < Plan /\ position[p] # "none"
      BY <1>1, <1>5, <2>1, <3>0 DEF DialogOK
    <3>2. signed'[p] = signed[p] + 1 /\ \A q \in Positions : q # p => signed'[q] = signed[q]
      BY <1>5, <2>3, <3>0, <3>1
    <3>3. dialog' = [dialog EXCEPT !.at = IF signed'[p] = Plan THEN "confirm" ELSE "sign"]
      BY <2>3, <3>0 DEF Step
    <3>4. Grows
      BY <1>2, <1>4, <2>1, <3>1, <3>2 DEF Grows
    <3>5. Kept(p)
      BY <1>2, <1>5, <2>1, <3>1, <3>2 DEF Row, IInv, Alerted
    <3>6. ASSUME NEW q \in Positions, q # p PROVE Kept(q)
      BY <1>2, <2>1, <3>2, <3>4, <3>6, RowKept DEF IInv
    <3>7. signed' \in [Positions -> 0 .. Plan]
      BY <1>5, <2>3, <3>0, <3>1
    <3>8. dialog'.at = (IF signed'[p] = Plan THEN "confirm" ELSE "sign") /\ dialog'.pos = p
          /\ dialog' \in [at : {"review", "prepare", "sign", "confirm"}, pos : Somebody]
      BY <1>5, <3>0, <3>3
    <3>9. DialogOK'
      BY <1>5, <2>1, <3>1, <3>2, <3>8 DEF DialogOK
    <3> QED
      BY <1>5, <2>1, <3>4, <3>5, <3>6, <3>7, <3>8, <3>9
  <2> QED
    BY <1>8, <2>2, <2>3 DEF Sign
<1>9. ASSUME Confirm PROVE Goal
  <2>1. dialog.at = "confirm" /\ dialog' = NoDialog /\ UNCHANGED signed
        /\ (ConfirmActive(dialog.pos) \/ UNCHANGED position)
    BY <1>9 DEF Confirm
  <2>2. PICK p \in Positions : p = dialog.pos /\ signed[p] = Plan
    BY <1>1, <2>1 DEF DialogOK
  <2>3. Grows
    BY <1>2, <1>4, <1>5, <2>1, <2>2 DEF Grows, ConfirmActive
  <2>4. Kept(p)
    BY <1>2, <1>5, <2>1, <2>2, <2>3 DEF Row, IInv, ConfirmActive, Alerted
  <2>5. ASSUME NEW q \in Positions, q # p PROVE Kept(q)
    BY <1>2, <1>5, <2>1, <2>2, <2>3, <2>5, RowKept DEF IInv, ConfirmActive
  <2> QED
    BY <1>5, <2>1, <2>2, <2>3, <2>4, <2>5
       DEF NoDialog, Somebody, DialogOK, ConfirmActive, Statuses
<1>10. Goal
  BY <1>6, <1>7, <1>8, <1>9
<1>11. \A p \in Positions : QueuedJob(p)'
  BY <1>1, <1>2, <1>10, JobKept DEF IInv, Types, TypeOK, Jobs
<1>12. ExecutionOK' /\ AlertsOK'
  BY <1>1, <1>2, <1>10, ExecutionKept, AlertsKept DEF IInv
<1>13. \A c \in Cycles : CycleOK(c)'
  BY <1>1, <1>2, <1>10, CycleKept DEF IInv
<1>14. \A w \in Workers : WorkerOK(w)'
  BY <1>1, <1>2, <1>10, WorkerKept DEF IInv
<1>15. Types'
  BY <1>1, <1>2, <1>4, <1>10 DEF Types, TypeOK, SafeTransaction, Batch
<1> QED
  BY <1>10, <1>11, <1>12, <1>13, <1>14, <1>15 DEF IInv

(* The execution worker creates a row, proposes its plan and says so.      *)
LEMMA ExecutionStep ==
  ASSUME IInv, Record \/ ReadNonce \/ Propose \/ MarkDeploying
  PROVE  IInv' /\ Grows
<1>1. Types /\ DialogOK /\ ExecutionOK
  BY DEF IInv
<1>2. UNCHANGED <<stored, alerts, live, signed, wasCritical, jobs, dialog, cycle, worker,
                  opened, claimed, lost>>
  BY DEF Record, ReadNonce, Propose, MarkDeploying, Execution, history
<1>3. Fault \/ NoFault
  BY DEF Record, ReadNonce, Propose, MarkDeploying
<1>4. faults' \in 0 .. MaxFaults
  BY <1>1, <1>3, FaultsCounted DEF Types, TypeOK
<1>5. position \in [Positions -> Statuses] /\ proposed \subseteq {SafeTransaction(p) : p \in Positions}
      /\ execution \in [at : {"none", "nonce", "propose", "mark", "done"}, pos : Somebody]
  BY <1>1 DEF Types, TypeOK
<1> DEFINE Kept(p) == Row(p)'
           Goal == /\ position' \in [Positions -> Statuses]
                   /\ proposed' \subseteq {SafeTransaction(p) : p \in Positions}
                   /\ execution' \in [at : {"none", "nonce", "propose", "mark", "done"}, pos : Somebody]
                   /\ \A p \in Positions : Kept(p)
                   /\ ExecutionOK' /\ Grows
<1>6. ASSUME Record PROVE Goal
  <2>1. PICK p \in Unused : /\ position' = [position EXCEPT ![p] = "awaiting_approval"]
                            /\ execution' = [at |-> "nonce", pos |-> p]
                            /\ UNCHANGED proposed
    BY <1>6 DEF Record, Executing
  <2>2. p \in Positions /\ position[p] = "none"
    BY <2>1 DEF Unused
  <2>3. Grows
    BY <1>2, <1>4, <1>5, <2>1, <2>2 DEF Grows
  <2>4. Kept(p)
    BY <1>2, <1>5, <2>1, <2>2 DEF Row, Listed, IInv
  <2>5. ASSUME NEW q \in Positions, q # p PROVE Kept(q)
    BY <1>2, <1>5, <2>1, <2>3, <2>5, RowKept DEF IInv
  <2> QED
    BY <1>5, <2>1, <2>2, <2>3, <2>4, <2>5 DEF ExecutionOK, Statuses, Somebody
<1>7. ASSUME ReadNonce PROVE Goal
  <2>1. /\ execution.at = "nonce" /\ UNCHANGED <<position, proposed>>
        /\ \/ execution' = [at |-> "propose", pos |-> execution.pos]
           \/ execution' = [at |-> "done", pos |-> Nobody]
    BY <1>7 DEF ReadNonce, Executing, NotProposed
  <2>2. Grows
    BY <1>2, <1>4, <2>1 DEF Grows
  <2>3. \A q \in Positions : Kept(q)
    BY <1>2, <2>1, <2>2, RowKept DEF IInv
  <2> QED
    BY <1>1, <1>5, <2>1, <2>2, <2>3 DEF ExecutionOK, Somebody
<1>8. ASSUME Propose PROVE Goal
  <2>1. PICK p \in Positions : p = execution.pos
    BY <1>1, <1>8 DEF Propose, ExecutionOK
  <2>2. /\ UNCHANGED position
        /\ \/ /\ proposed' = proposed \cup {SafeTransaction(p)}
              /\ \/ execution' = [at |-> "mark", pos |-> p]
                 \/ execution' = [at |-> "none", pos |-> Nobody]
           \/ UNCHANGED proposed /\ execution' = [at |-> "done", pos |-> Nobody]
    BY <1>8, <2>1 DEF Propose, Executing, NotProposed
  <2>3. Grows
    BY <1>2, <1>4, <2>2 DEF Grows
  <2>4. \A q \in Positions : Kept(q)
    BY <1>2, <2>2, <2>3, RowKept DEF IInv
  <2>5. SafeTransaction(p)' = SafeTransaction(p)
    BY DEF SafeTransaction, Batch
  <2> QED
    BY <1>5, <2>1, <2>2, <2>3, <2>4, <2>5 DEF ExecutionOK, Somebody
<1>9. ASSUME MarkDeploying PROVE Goal
  <2>1. PICK p \in Positions : p = execution.pos /\ SafeTransaction(p) \in proposed
    BY <1>1, <1>9 DEF MarkDeploying, ExecutionOK
  <2>2. /\ position' = [position EXCEPT ![p] = "deploying"] \/ UNCHANGED position
        /\ execution' = [at |-> "done", pos |-> Nobody] /\ UNCHANGED proposed
    BY <1>9, <2>1 DEF MarkDeploying, Executing
  <2>3. Grows
    BY <1>2, <1>4, <1>5, <2>2 DEF Grows
  <2>4. Kept(p)
    BY <1>2, <1>5, <2>1, <2>2 DEF Row, Listed, IInv, Alerted
  <2>5. ASSUME NEW q \in Positions, q # p PROVE Kept(q)
    BY <1>2, <1>5, <2>2, <2>3, <2>5, RowKept DEF IInv
  <2> QED
    BY <1>5, <2>2, <2>3, <2>4, <2>5 DEF ExecutionOK, Statuses, Somebody
<1>10. Goal
  BY <1>6, <1>7, <1>8, <1>9
<1>11. \A p \in Positions : QueuedJob(p)'
  BY <1>1, <1>2, <1>10, JobKept DEF IInv, Types, TypeOK, Jobs
<1>12. DialogOK' /\ AlertsOK'
  BY <1>1, <1>2, <1>10, DialogKept, AlertsKept DEF IInv
<1>13. \A c \in Cycles : CycleOK(c)'
  BY <1>1, <1>2, <1>10, CycleKept DEF IInv
<1>14. \A w \in Workers : WorkerOK(w)'
  BY <1>1, <1>2, <1>10, WorkerKept DEF IInv
<1>15. Types'
  BY <1>1, <1>2, <1>4, <1>10 DEF Types, TypeOK, SafeTransaction, Batch
<1> QED
  BY <1>10, <1>11, <1>12, <1>13, <1>14, <1>15 DEF IInv

(* The chain moves, a user closes a position or has its health read, the   *)
(* agent opens one, a client confirms one.                                 *)
Routes(p) == MarketMoves(p) \/ Close(p) \/ ReadHealth(p) \/ AgentOpens(p) \/ OtherConfirms(p)

LEMMA RouteStep ==
  ASSUME IInv, NEW p \in Positions, Routes(p)
  PROVE  IInv' /\ Grows
<1> USE DEF Routes
<1>1. Types /\ DialogOK /\ ExecutionOK
  BY DEF IInv
<1>2. UNCHANGED <<alerts, signed, proposed, dialog, execution, cycle, worker, faults, jobs, lost>>
  BY DEF MarketMoves, Close, ReadHealth, AgentOpens, OtherConfirms, database, chain, processes, history
<1>3. position \in [Positions -> Statuses] /\ stored \in [Positions -> Readings]
      /\ live \in [Positions -> Health] /\ wasCritical \subseteq Positions
      /\ jobs \in [Jobs -> Nat] /\ opened \subseteq Positions /\ claimed \subseteq Positions
  BY <1>1 DEF Types, TypeOK, Readings
<1> DEFINE Kept(q) == Row(q)' /\ QueuedJob(q)'
           Goal == /\ position' \in [Positions -> Statuses] /\ stored' \in [Positions -> Readings]
                   /\ live' \in [Positions -> Health] /\ wasCritical' \subseteq Positions
                   /\ opened' \subseteq Positions /\ claimed' \subseteq Positions
                   /\ \A q \in Positions : Kept(q)
                   /\ Grows
<1>4. \A q \in Positions : Row(q) /\ QueuedJob(q)
  BY DEF IInv
<1>5. ASSUME Grows, NEW q \in Positions PROVE QueuedJob(q)'
  BY <1>1, <1>2, <1>3, <1>4, <1>5, JobKept DEF Jobs
<1>6. ASSUME MarketMoves(p) PROVE Goal
  <2>1. UNCHANGED <<position, stored, opened, claimed>>
        /\ (\E h \in Health : live' = [live EXCEPT ![p] = h])
        /\ wasCritical' = IF live'[p] = "critical" THEN wasCritical \cup {p} ELSE wasCritical
    BY <1>6 DEF MarketMoves, database, history
  <2>2. Grows
    BY <1>2, <2>1 DEF Grows
  <2>3. Row(p)'
    BY <1>2, <1>3, <1>4, <2>1, <2>2 DEF Row, Grows, Alerted
  <2>4. ASSUME NEW q \in Positions, q # p PROVE Row(q)'
    BY <1>2, <1>3, <1>4, <2>1, <2>2, <2>4, RowKept
  <2> QED
    BY <1>3, <1>5, <2>1, <2>2, <2>3, <2>4
<1>7. ASSUME Close(p) PROVE Goal
  <2>1. position' = [position EXCEPT ![p] = "closed"]
        /\ UNCHANGED <<stored, live, wasCritical, opened, claimed>>
    BY <1>7 DEF Close, chain, history
  <2>2. Grows
    BY <1>2, <1>3, <2>1 DEF Grows
  <2>3. Row(p)'
    BY <1>2, <1>3, <1>4, <2>1 DEF Row, Listed
  <2>4. ASSUME NEW q \in Positions, q # p PROVE Row(q)'
    BY <1>2, <1>3, <1>4, <2>1, <2>2, <2>4, RowKept
  <2> QED
    BY <1>3, <1>5, <2>1, <2>2, <2>3, <2>4 DEF Statuses
<1>8. ASSUME ReadHealth(p) PROVE Goal
  <2>1. stored' = [stored EXCEPT ![p] = live[p]]
        /\ UNCHANGED <<position, live, wasCritical, opened, claimed>>
    BY <1>8 DEF ReadHealth, chain, history
  <2>2. Grows
    BY <1>2, <2>1 DEF Grows
  <2>3. Row(p)'
    BY <1>2, <1>3, <1>4, <2>1 DEF Row, Alerted
  <2>4. ASSUME NEW q \in Positions, q # p PROVE Row(q)'
    BY <1>2, <1>3, <1>4, <2>1, <2>2, <2>4, RowKept
  <2> QED
    BY <1>3, <1>5, <2>1, <2>2, <2>3, <2>4 DEF Readings
<1>9. ASSUME AgentOpens(p) \/ OtherConfirms(p) PROVE Goal
  <2>1. /\ position' = [position EXCEPT ![p] = "active"]
        /\ opened \subseteq opened' /\ claimed \subseteq claimed' /\ p \in opened' \cup claimed'
        /\ opened' \subseteq opened \cup {p} /\ claimed' \subseteq claimed \cup {p}
        /\ UNCHANGED <<stored, live, wasCritical>>
    BY <1>9 DEF AgentOpens, OtherConfirms, ConfirmActive, chain
  <2>2. Grows
    BY <1>2, <1>3, <2>1 DEF Grows
  <2>3. Row(p)'
    BY <1>2, <1>3, <1>4, <2>1 DEF Row, Listed
  <2>4. ASSUME NEW q \in Positions, q # p PROVE Row(q)'
    BY <1>2, <1>3, <1>4, <2>1, <2>2, <2>4, RowKept
  <2> QED
    BY <1>3, <1>5, <2>1, <2>2, <2>3, <2>4 DEF Statuses
<1>10. Goal
  BY <1>6, <1>7, <1>8, <1>9
<1>11. DialogOK' /\ ExecutionOK' /\ AlertsOK'
  BY <1>1, <1>2, <1>10, DialogKept, ExecutionKept, AlertsKept DEF IInv
<1>12. \A c \in Cycles : CycleOK(c)'
  BY <1>1, <1>2, <1>10, CycleKept DEF IInv
<1>13. \A w \in Workers : WorkerOK(w)'
  BY <1>1, <1>2, <1>10, WorkerKept DEF IInv
<1>14. Types'
  BY <1>1, <1>2, <1>10 DEF Types, TypeOK, SafeTransaction, Batch, Readings
<1> QED
  BY <1>10, <1>11, <1>12, <1>13, <1>14 DEF IInv

(* A monitor cycle lists, checks, alerts and asks for rebalances.          *)
CycleRecords == [at : {"idle", "check"}, hf : [Positions -> Readings],
                 health : Checks, apy : Checks]

LEMMA StartCycleStep ==
  ASSUME IInv, NEW c \in Cycles, StartCycle(c)
  PROVE  cycle'[c] \in CycleRecords /\ CycleOK(c)'
<1>1. stored \in [Positions -> Readings] /\ cycle \in [Cycles -> CycleRecords]
  BY DEF IInv, Types, TypeOK, Readings, CycleRecords
<1>2. listActivePositions \subseteq Positions
      /\ \A p \in Positions : stored[p] = "critical" => p \in wasCritical
  BY DEF IInv, Row, listActivePositions
<1>3. cycle'[c] =
        [at     |-> "check",
         hf     |-> stored,
         health |-> [at |-> "next", todo |-> {p \in listActivePositions : stored[p] # "null"},
                     pos |-> Nobody, type |-> "none"],
         apy    |-> [at |-> "next", todo |-> listActivePositions, pos |-> Nobody, type |-> "none"]]
  BY <1>1 DEF StartCycle, NoCheck
<1>4. UNCHANGED wasCritical
  BY DEF StartCycle, chain
<1>5. cycle'[c] \in CycleRecords
  BY <1>1, <1>2, <1>3 DEF CycleRecords, Checks, Somebody
<1> QED
  BY <1>2, <1>3, <1>4, <1>5 DEF CycleOK, Found

LEMMA CheckHealthStep ==
  ASSUME IInv, NEW c \in Cycles, CheckHealth(c)
  PROVE  cycle'[c] \in CycleRecords /\ CycleOK(c)'
<1>1. cycle \in [Cycles -> CycleRecords] /\ live \in [Positions -> Health] /\ CycleOK(c)
      /\ \A p \in Positions : live[p] = "critical" => p \in wasCritical
  BY DEF IInv, Types, TypeOK, CycleRecords, Row
<1>2. UNCHANGED <<alerts, lost, wasCritical>>
  BY DEF CheckHealth, chain, history
<1>3. PICK p \in cycle[c].health.todo, hf \in Health :
        /\ hf = "critical" => p \in wasCritical
        /\ cycle' = [cycle EXCEPT
                       ![c].hf[p]  = "null",
                       ![c].health = [todo |-> @.todo \ {p}, pos |-> p, type |-> hf,
                                      at   |-> IF hf = "ok" THEN "next" ELSE "alert"]]
  <2>1. PICK p \in cycle[c].health.todo : \E hf \in {live[p], cycle[c].hf[p]} :
          cycle' = [cycle EXCEPT
                    ![c].hf[p]  = "null",
                    ![c].health = [todo |-> @.todo \ {p}, pos |-> p, type |-> hf,
                                   at   |-> IF hf = "ok" THEN "next" ELSE "alert"]]
    BY DEF CheckHealth
  <2>2. p \in Positions /\ live[p] \in Health
    BY <1>1 DEF CycleRecords, Checks
  <2>3. cycle[c].hf[p] \in Health /\ (cycle[c].hf[p] = "critical" => p \in wasCritical)
    BY <1>1, <2>2 DEF CycleRecords, CycleOK, Readings
  <2>4. PICK hf \in {live[p], cycle[c].hf[p]} :
          cycle' = [cycle EXCEPT
                    ![c].hf[p]  = "null",
                    ![c].health = [todo |-> @.todo \ {p}, pos |-> p, type |-> hf,
                                   at   |-> IF hf = "ok" THEN "next" ELSE "alert"]]
    BY <2>1
  <2>5. hf \in Health /\ (hf = "critical" => p \in wasCritical)
    BY <1>1, <2>2, <2>3
  <2> QED
    BY <2>4, <2>5
<1>4. p \in Positions
  BY <1>1 DEF CycleRecords, Checks
<1>5. cycle'[c] =
        [at     |-> cycle[c].at,
         hf     |-> [cycle[c].hf EXCEPT ![p] = "null"],
         health |-> [todo |-> cycle[c].health.todo \ {p}, pos |-> p, type |-> hf,
                     at |-> IF hf = "ok" THEN "next" ELSE "alert"],
         apy    |-> cycle[c].apy]
  BY <1>1, <1>3, <1>4 DEF CycleRecords
<1>6. cycle'[c] \in CycleRecords
  BY <1>1, <1>4, <1>5 DEF CycleRecords, Checks, Somebody, Readings
<1>7. Found(cycle[c].health, {"warning", "critical"}) /\ Found(cycle[c].apy, {"drift"})
  BY <1>1 DEF CycleOK, Found
<1>8. Found(cycle[c].health, {"warning", "critical"})'
  BY <1>2, <1>3, <1>4, <1>5, <1>7 DEF Found, Health
<1>9. Found(cycle[c].apy, {"drift"})'
  <2>1. cycle'[c].apy = cycle[c].apy
    BY <1>5
  <2> QED
    BY <1>2, <1>7, <2>1 DEF Found
<1>10. \A q \in cycle'[c].health.todo : /\ cycle'[c].hf[q] # "null"
                                        /\ cycle'[c].hf[q] = "critical" => q \in wasCritical'
  <2>1. ASSUME NEW q \in cycle'[c].health.todo PROVE cycle'[c].hf[q] = cycle[c].hf[q]
    BY <1>1, <1>5, <2>1 DEF CycleRecords, Checks
  <2> QED
    BY <1>1, <1>2, <1>5, <2>1 DEF CycleOK
<1> QED
  BY <1>6, <1>8, <1>9, <1>10 DEF CycleOK

LEMMA CheckApyStep ==
  ASSUME IInv, NEW c \in Cycles, CheckApyDrift(c)
  PROVE  cycle'[c] \in CycleRecords /\ CycleOK(c)'
<1>1. cycle \in [Cycles -> CycleRecords] /\ CycleOK(c)
  BY DEF IInv, Types, CycleRecords
<1>2. UNCHANGED <<wasCritical, alerts, lost>>
  BY DEF CheckApyDrift, chain, database, history
<1>3. PICK p \in cycle[c].apy.todo, at \in {"alert", "next"} :
        cycle' = [cycle EXCEPT ![c].apy = [todo |-> @.todo \ {p}, pos |-> p, type |-> "drift", at |-> at]]
  BY DEF CheckApyDrift
<1>4. p \in Positions
  BY <1>1 DEF CycleRecords, Checks
<1>5. cycle'[c] = [at |-> cycle[c].at, hf |-> cycle[c].hf, health |-> cycle[c].health,
                   apy |-> [todo |-> cycle[c].apy.todo \ {p}, pos |-> p, type |-> "drift", at |-> at]]
  BY <1>1, <1>3 DEF CycleRecords
<1>6. cycle'[c] \in CycleRecords
  BY <1>1, <1>4, <1>5 DEF CycleRecords, Checks, Somebody
<1>7. Found(cycle[c].health, {"warning", "critical"}) /\ Found(cycle[c].apy, {"drift"})
  BY <1>1 DEF CycleOK
<1>8. Found(cycle[c].apy, {"drift"})'
  BY <1>2, <1>4, <1>5, <1>7 DEF Found
<1>9. Found(cycle[c].health, {"warning", "critical"})'
  <2>1. cycle'[c].health = cycle[c].health
    BY <1>5
  <2> QED
    BY <1>2, <1>7, <2>1 DEF Found
<1>10. \A q \in cycle'[c].health.todo : /\ cycle'[c].hf[q] # "null"
                                        /\ cycle'[c].hf[q] = "critical" => q \in wasCritical'
  BY <1>1, <1>2, <1>5 DEF CycleOK
<1> QED
  BY <1>6, <1>8, <1>9, <1>10 DEF CycleOK

LEMMA EndCycleStep ==
  ASSUME IInv, NEW c \in Cycles, EndCycle(c)
  PROVE  cycle'[c] \in CycleRecords /\ CycleOK(c)'
<1>1. cycle \in [Cycles -> CycleRecords]
  BY DEF IInv, Types, CycleRecords
<1>2. cycle'[c] = [at |-> "idle", hf |-> [p \in Positions |-> "null"], health |-> NoCheck, apy |-> NoCheck]
  BY <1>1 DEF EndCycle
<1>3. cycle'[c] \in CycleRecords
  BY <1>2 DEF CycleRecords, Checks, Somebody, Readings, NoCheck
<1> QED
  BY <1>2, <1>3 DEF CycleOK, Found, NoCheck

(* An alert is stored, or lost, before a rebalance is asked for.           *)
AlertStored(check) ==
  <<check.pos, check.type>> \in alerts' \cup lost' \/ check.type = "warning"

(* What an alert leaves of the alerts.                                     *)
Alerting == /\ alerts \subseteq alerts' /\ alerts' \subseteq Positions \X {"critical", "drift"}
            /\ lost \subseteq lost' /\ lost' \subseteq Positions \X {"critical", "drift"}
            /\ AlertsOK'

LEMMA FireAlertStep ==
  ASSUME IInv, NEW c \in Cycles, FireAlert(c, "health") \/ FireAlert(c, "apy")
  PROVE  /\ cycle'[c] \in CycleRecords /\ CycleOK(c)'
         /\ Alerting
<1>1. cycle \in [Cycles -> CycleRecords] /\ CycleOK(c) /\ AlertsOK
      /\ alerts \subseteq Positions \X {"critical", "drift"}
      /\ lost \subseteq Positions \X {"critical", "drift"}
  BY DEF IInv, Types, TypeOK, CycleRecords
<1>2. UNCHANGED wasCritical
  BY DEF FireAlert, chain
<1> DEFINE h == cycle[c].health  a == cycle[c].apy
<1>3. ASSUME NEW p \in Positions, NEW type \in {"warning", "critical", "drift"},
             type = "critical" => p \in wasCritical,
             \/ alerts' = alerts \cup ({<<p, type>>} \ Warnings) /\ UNCHANGED lost
             \/ lost' = lost \cup ({<<p, type>>} \ Warnings) /\ UNCHANGED alerts
      PROVE  Alerting /\ (<<p, type>> \in alerts' \cup lost' \/ type = "warning")
  <2>1. {<<p, type>>} \ Warnings = IF type = "warning" THEN {} ELSE {<<p, type>>}
    BY DEF Warnings
  <2>2. AlertsOK'
    BY <1>1, <1>2, <1>3, <2>1 DEF AlertsOK, Alerted
  <2> QED
    BY <1>1, <1>3, <2>1, <2>2 DEF Alerting
<1>4. h \in Checks /\ a \in Checks /\ Found(h, {"warning", "critical"}) /\ Found(a, {"drift"})
      /\ \A q \in h.todo : /\ cycle[c].hf[q] # "null"
                           /\ cycle[c].hf[q] = "critical" => q \in wasCritical
  BY <1>1 DEF CycleRecords, CycleOK
<1>5. ASSUME FireAlert(c, "health")
      PROVE  cycle'[c] \in CycleRecords /\ CycleOK(c)' /\ Alerting
  <2>1. cycle'[c] = [at |-> cycle[c].at, hf |-> cycle[c].hf, apy |-> a,
                     health |-> [at |-> IF h.type = "warning" THEN "next" ELSE "trigger",
                             todo |-> h.todo, pos |-> h.pos, type |-> h.type]]
    <3>1. cycle' = [cycle EXCEPT ![c]["health"].at = IF h.type = "warning" THEN "next" ELSE "trigger"]
      BY <1>5 DEF FireAlert, Check
    <3>2. cycle[c] \in CycleRecords
      BY <1>1
    <3> QED
      BY <1>1, <3>1, <3>2 DEF CycleRecords, Checks
  <2>2. /\ h.at = "alert"
        /\ \/ alerts' = alerts \cup ({<<h.pos, h.type>>} \ Warnings) /\ UNCHANGED lost
           \/ lost' = lost \cup ({<<h.pos, h.type>>} \ Warnings) /\ UNCHANGED alerts
    BY <1>5 DEF FireAlert, Check
  <2>3. h.pos \in Positions /\ h.type \in {"warning", "critical"}
        /\ (h.type = "critical" => h.pos \in wasCritical)
    BY <1>4, <2>2 DEF Found
  <2>4. Alerting /\ AlertStored(h)
    <3>1. PICK p \in Positions, type \in {"warning", "critical", "drift"} : p = h.pos /\ type = h.type
      BY <2>3
    <3>2. Alerting /\ (<<p, type>> \in alerts' \cup lost' \/ type = "warning")
      BY <1>3, <2>2, <2>3, <3>1
    <3> QED
      BY <3>1, <3>2 DEF AlertStored
  <2>5. cycle'[c] \in CycleRecords
    BY <1>1, <1>4, <2>1 DEF CycleRecords, Checks
  <2> HIDE DEF h, a
  <2>6. cycle'[c].apy = a /\ cycle'[c].hf = cycle[c].hf
        /\ cycle'[c].health = [at |-> IF h.type = "warning" THEN "next" ELSE "trigger",
                               todo |-> h.todo, pos |-> h.pos, type |-> h.type]
    BY <2>1
  <2>7. Found(cycle[c].health, {"warning", "critical"})' /\ Found(cycle[c].apy, {"drift"})'
    BY <1>2, <1>4, <2>3, <2>4, <2>6 DEF Found, AlertStored, Alerting
  <2>8. \A q \in cycle'[c].health.todo : /\ cycle'[c].hf[q] # "null"
                                         /\ cycle'[c].hf[q] = "critical" => q \in wasCritical'
    <3>1. cycle'[c].health.todo = h.todo /\ cycle'[c].hf = cycle[c].hf
      BY <2>6
    <3>2. ASSUME NEW q \in h.todo
          PROVE  cycle[c].hf[q] # "null" /\ (cycle[c].hf[q] = "critical" => q \in wasCritical')
      BY <1>2, <1>4
    <3> QED
      BY <3>1, <3>2
  <2> QED
    BY <2>4, <2>5, <2>7, <2>8 DEF CycleOK
<1>6. ASSUME FireAlert(c, "apy")
      PROVE  cycle'[c] \in CycleRecords /\ CycleOK(c)' /\ Alerting
  <2>1. cycle'[c] = [at |-> cycle[c].at, hf |-> cycle[c].hf, health |-> h,
                     apy |-> [at |-> IF a.type = "warning" THEN "next" ELSE "trigger",
                             todo |-> a.todo, pos |-> a.pos, type |-> a.type]]
    <3>1. cycle' = [cycle EXCEPT ![c]["apy"].at = IF a.type = "warning" THEN "next" ELSE "trigger"]
      BY <1>6 DEF FireAlert, Check
    <3>2. cycle[c] \in CycleRecords
      BY <1>1
    <3> QED
      BY <1>1, <3>1, <3>2 DEF CycleRecords, Checks
  <2>2. /\ a.at = "alert"
        /\ \/ alerts' = alerts \cup ({<<a.pos, a.type>>} \ Warnings) /\ UNCHANGED lost
           \/ lost' = lost \cup ({<<a.pos, a.type>>} \ Warnings) /\ UNCHANGED alerts
    BY <1>6 DEF FireAlert, Check
  <2>3. a.pos \in Positions /\ a.type \in {"drift"}
        /\ (a.type = "critical" => a.pos \in wasCritical)
    BY <1>4, <2>2 DEF Found
  <2>4. Alerting /\ AlertStored(a)
    <3>1. PICK p \in Positions, type \in {"warning", "critical", "drift"} : p = a.pos /\ type = a.type
      BY <2>3
    <3>2. Alerting /\ (<<p, type>> \in alerts' \cup lost' \/ type = "warning")
      BY <1>3, <2>2, <2>3, <3>1
    <3> QED
      BY <3>1, <3>2 DEF AlertStored
  <2>5. cycle'[c] \in CycleRecords
    BY <1>1, <1>4, <2>1 DEF CycleRecords, Checks
  <2> HIDE DEF h, a
  <2>6. cycle'[c].health = h /\ cycle'[c].hf = cycle[c].hf
        /\ cycle'[c].apy = [at |-> IF a.type = "warning" THEN "next" ELSE "trigger",
                               todo |-> a.todo, pos |-> a.pos, type |-> a.type]
    BY <2>1
  <2>7. Found(cycle[c].health, {"warning", "critical"})' /\ Found(cycle[c].apy, {"drift"})'
    BY <1>2, <1>4, <2>3, <2>4, <2>6 DEF Found, AlertStored, Alerting
  <2>8. \A q \in cycle'[c].health.todo : /\ cycle'[c].hf[q] # "null"
                                         /\ cycle'[c].hf[q] = "critical" => q \in wasCritical'
    <3>1. cycle'[c].health.todo = h.todo /\ cycle'[c].hf = cycle[c].hf
      BY <2>6
    <3>2. ASSUME NEW q \in h.todo
          PROVE  cycle[c].hf[q] # "null" /\ (cycle[c].hf[q] = "critical" => q \in wasCritical')
      BY <1>2, <1>4
    <3> QED
      BY <3>1, <3>2
  <2> QED
    BY <2>4, <2>5, <2>7, <2>8 DEF CycleOK
<1> QED
  BY <1>5, <1>6

(* The rebalance that a check asks for is of the position that it alerted. *)
LEMMA TriggerStep ==
  ASSUME IInv, NEW c \in Cycles, TriggerRebalance(c, "health") \/ TriggerRebalance(c, "apy")
  PROVE  /\ cycle'[c] \in CycleRecords /\ CycleOK(c)'
         /\ jobs' \in [Jobs -> Nat]
         /\ \A p \in Positions : QueuedJob(p)'
<1>1. cycle \in [Cycles -> CycleRecords] /\ CycleOK(c)
      /\ jobs \in [Jobs -> Nat] /\ \A p \in Positions : QueuedJob(p)
  BY DEF IInv, Types, TypeOK, CycleRecords
<1>2. UNCHANGED <<wasCritical, alerts, lost>>
  BY DEF TriggerRebalance, chain, database, history
<1> DEFINE h == cycle[c].health  a == cycle[c].apy
<1>4. h \in Checks /\ a \in Checks /\ Found(h, {"warning", "critical"}) /\ Found(a, {"drift"})
      /\ \A q \in h.todo : /\ cycle[c].hf[q] # "null"
                           /\ cycle[c].hf[q] = "critical" => q \in wasCritical
  BY <1>1 DEF CycleRecords, CycleOK
<1>5. ASSUME NEW p \in Positions, NEW kind \in {"emergency", "drift"},
             Alerted(p, IF kind = "emergency" THEN "critical" ELSE "drift"),
             jobs' = [jobs EXCEPT ![<<p, kind>>] = @ + 1] \/ UNCHANGED jobs
      PROVE  jobs' \in [Jobs -> Nat] /\ \A q \in Positions : QueuedJob(q)'
  <2>1. <<p, kind>> \in Jobs
    BY DEF Jobs, Kinds
  <2>2. jobs' \in [Jobs -> Nat]
    BY <1>1, <1>5, <2>1
  <2>3. ASSUME NEW q \in Positions, NEW k \in Kinds, <<q, k>> # <<p, kind>>
        PROVE  jobs'[<<q, k>>] = jobs[<<q, k>>]
    BY <1>1, <1>5, <2>1, <2>3 DEF Jobs
  <2>4. ASSUME NEW q \in Positions PROVE QueuedJob(q)'
    BY <1>1, <1>2, <1>5, <2>3 DEF QueuedJob, Kinds, Alerted
  <2> QED
    BY <2>2, <2>4
<1>6. ASSUME TriggerRebalance(c, "health")
      PROVE  /\ cycle'[c] \in CycleRecords /\ CycleOK(c)'
             /\ jobs' \in [Jobs -> Nat]
             /\ \A p \in Positions : QueuedJob(p)'
  <2>1. cycle'[c] = [at |-> cycle[c].at, hf |-> cycle[c].hf, apy |-> a,
                     health |-> [at |-> "next", todo |-> h.todo, pos |-> h.pos, type |-> h.type]]
    <3>1. cycle' = [cycle EXCEPT ![c]["health"].at = "next"]
      BY <1>6 DEF TriggerRebalance, Check
    <3>2. cycle[c] \in CycleRecords
      BY <1>1
    <3> QED
      BY <1>1, <3>1, <3>2 DEF CycleRecords, Checks
  <2>2. h.at = "trigger" /\ (jobs' = [jobs EXCEPT ![<<h.pos, "emergency">>] = @ + 1] \/ UNCHANGED jobs)
    BY <1>6 DEF TriggerRebalance, Check, Queue
  <2>3. PICK p \in Positions : p = h.pos
    BY <1>4, <2>2 DEF Found
  <2>4. Alerted(p, "critical")
    BY <1>4, <2>2, <2>3 DEF Found, Alerted
  <2>5. cycle'[c] \in CycleRecords
    BY <1>1, <1>4, <2>1 DEF CycleRecords, Checks
  <2>6. CycleOK(c)'
    <3> HIDE DEF h, a
    <3>1. cycle'[c].apy = a /\ cycle'[c].hf = cycle[c].hf
          /\ cycle'[c].health = [at |-> "next", todo |-> h.todo, pos |-> h.pos, type |-> h.type]
      BY <2>1
    <3>2. Found(cycle[c].health, {"warning", "critical"})' /\ Found(cycle[c].apy, {"drift"})'
      BY <1>2, <1>4, <3>1 DEF Found
    <3>3. \A q \in cycle'[c].health.todo : /\ cycle'[c].hf[q] # "null"
                                           /\ cycle'[c].hf[q] = "critical" => q \in wasCritical'
      <4>1. cycle'[c].health.todo = h.todo /\ cycle'[c].hf = cycle[c].hf
        BY <3>1
      <4>2. ASSUME NEW q \in h.todo
            PROVE  cycle[c].hf[q] # "null" /\ (cycle[c].hf[q] = "critical" => q \in wasCritical')
        BY <1>2, <1>4
      <4> QED
        BY <4>1, <4>2
    <3> QED
      BY <3>2, <3>3 DEF CycleOK
  <2> QED
    BY <1>5, <2>2, <2>3, <2>4, <2>5, <2>6
<1>7. ASSUME TriggerRebalance(c, "apy")
      PROVE  /\ cycle'[c] \in CycleRecords /\ CycleOK(c)'
             /\ jobs' \in [Jobs -> Nat]
             /\ \A p \in Positions : QueuedJob(p)'
  <2>1. cycle'[c] = [at |-> cycle[c].at, hf |-> cycle[c].hf, health |-> h,
                     apy |-> [at |-> "next", todo |-> a.todo, pos |-> a.pos, type |-> a.type]]
    <3>1. cycle' = [cycle EXCEPT ![c]["apy"].at = "next"]
      BY <1>7 DEF TriggerRebalance, Check
    <3>2. cycle[c] \in CycleRecords
      BY <1>1
    <3> QED
      BY <1>1, <3>1, <3>2 DEF CycleRecords, Checks
  <2>2. a.at = "trigger" /\ (jobs' = [jobs EXCEPT ![<<a.pos, "drift">>] = @ + 1] \/ UNCHANGED jobs)
    BY <1>7 DEF TriggerRebalance, Check, Queue
  <2>3. PICK p \in Positions : p = a.pos
    BY <1>4, <2>2 DEF Found
  <2>4. Alerted(p, "drift")
    BY <1>4, <2>2, <2>3 DEF Found, Alerted
  <2>5. cycle'[c] \in CycleRecords
    BY <1>1, <1>4, <2>1 DEF CycleRecords, Checks
  <2>6. CycleOK(c)'
    <3> HIDE DEF h, a
    <3>1. cycle'[c].health = h /\ cycle'[c].hf = cycle[c].hf
          /\ cycle'[c].apy = [at |-> "next", todo |-> a.todo, pos |-> a.pos, type |-> a.type]
      BY <2>1
    <3>2. Found(cycle[c].health, {"warning", "critical"})' /\ Found(cycle[c].apy, {"drift"})'
      BY <1>2, <1>4, <3>1 DEF Found
    <3>3. \A q \in cycle'[c].health.todo : /\ cycle'[c].hf[q] # "null"
                                           /\ cycle'[c].hf[q] = "critical" => q \in wasCritical'
      <4>1. cycle'[c].health.todo = h.todo /\ cycle'[c].hf = cycle[c].hf
        BY <3>1
      <4>2. ASSUME NEW q \in h.todo
            PROVE  cycle[c].hf[q] # "null" /\ (cycle[c].hf[q] = "critical" => q \in wasCritical')
        BY <1>2, <1>4
      <4> QED
        BY <4>1, <4>2
    <3> QED
      BY <3>2, <3>3 DEF CycleOK
  <2> QED
    BY <1>5, <2>2, <2>3, <2>4, <2>5, <2>6
<1> QED
  BY <1>6, <1>7

LEMMA MonitorStep ==
  ASSUME IInv, NEW c \in Cycles, CycleStep(c)
  PROVE  IInv' /\ Grows
<1>1. Types /\ DialogOK /\ ExecutionOK
  BY DEF IInv
<1>2. UNCHANGED <<position, live, signed, proposed, wasCritical, dialog, execution, worker, opened, claimed>>
      /\ (Fault \/ NoFault)
  BY DEF CycleStep, StartCycle, CheckHealth, CheckApyDrift, EndCycle, FireAlert, TriggerRebalance,
         database, chain, history, NoFault
<1>3. faults' \in 0 .. MaxFaults
  BY <1>1, <1>2, FaultsCounted DEF Types, TypeOK
<1>4. cycle \in [Cycles -> CycleRecords] /\ stored \in [Positions -> Readings]
      /\ live \in [Positions -> Health] /\ jobs \in [Jobs -> Nat]
      /\ alerts \subseteq Positions \X {"critical", "drift"}
      /\ lost \subseteq Positions \X {"critical", "drift"} /\ AlertsOK
  BY <1>1 DEF Types, TypeOK, CycleRecords, Readings, IInv
<1>5. \A p \in Positions : Row(p) /\ QueuedJob(p)
  BY DEF IInv
<1>6. DOMAIN cycle' = Cycles /\ cycle' = [d \in Cycles |-> cycle'[d]]
      /\ \A d \in Cycles : d # c => cycle'[d] = cycle[d]
  BY <1>4 DEF CycleStep, StartCycle, CheckHealth, CheckApyDrift, EndCycle, FireAlert, TriggerRebalance
<1>7. cycle'[c] \in CycleRecords /\ CycleOK(c)'
  BY StartCycleStep, CheckHealthStep, CheckApyStep, EndCycleStep, FireAlertStep, TriggerStep
     DEF CycleStep
<1>8. Alerting
  <2>1. CASE FireAlert(c, "health") \/ FireAlert(c, "apy")
    BY <2>1, FireAlertStep
  <2>2. CASE UNCHANGED <<alerts, lost, wasCritical>>
    BY <1>4, <2>2 DEF Alerting, AlertsOK, Alerted
  <2> QED
    BY <1>2, <2>1, <2>2 DEF CycleStep, StartCycle, CheckHealth, CheckApyDrift, EndCycle, TriggerRebalance,
                            database, history
<1>9. Grows
  BY <1>2, <1>3, <1>8 DEF Grows, Alerting
<1>10. stored' \in [Positions -> Readings]
       /\ \A p \in Positions : stored'[p] \in {stored[p], live[p]}
  <2>1. UNCHANGED stored \/ \E p \in Positions : stored' = [stored EXCEPT ![p] = live[p]]
    <3>1. cycle[c].health.todo \subseteq Positions
      BY <1>4 DEF CycleRecords, Checks
    <3>2. CASE CheckHealth(c)
      BY <3>1, <3>2 DEF CheckHealth
    <3>3. CASE UNCHANGED stored
      BY <3>3
    <3> QED
      BY <3>2, <3>3 DEF CycleStep, StartCycle, CheckApyDrift, EndCycle, FireAlert, TriggerRebalance,
                        database
  <2> QED
    BY <1>4, <2>1 DEF Readings
<1>11. \A p \in Positions : Row(p)'
  <2>1. ASSUME NEW p \in Positions PROVE Row(p)'
    BY <1>2, <1>5, <1>9, <1>10 DEF Row, Grows, Alerted
  <2> QED
    BY <2>1
<1>12. jobs' \in [Jobs -> Nat] /\ \A p \in Positions : QueuedJob(p)'
  <2>1. CASE TriggerRebalance(c, "health") \/ TriggerRebalance(c, "apy")
    BY <2>1, TriggerStep
  <2>2. CASE UNCHANGED jobs
    <3>1. ASSUME NEW p \in Positions PROVE QueuedJob(p)'
      BY <1>1, <1>4, <1>5, <1>9, <2>2, JobKept DEF Jobs
    <3> QED
      BY <1>4, <2>2, <3>1
  <2> QED
    BY <2>1, <2>2 DEF CycleStep, StartCycle, CheckHealth, CheckApyDrift, EndCycle, FireAlert
<1>13. \A d \in Cycles : CycleOK(d)'
  <2>1. ASSUME NEW d \in Cycles, d # c PROVE CycleOK(d)'
    BY <1>1, <1>6, <1>9, <2>1, CycleKept DEF IInv
  <2> QED
    BY <1>7, <2>1
<1>14. \A w \in Workers : WorkerOK(w)'
  BY <1>1, <1>2, <1>9, WorkerKept DEF IInv
<1>15. DialogOK' /\ ExecutionOK'
  BY <1>1, <1>2, <1>9, DialogKept, ExecutionKept
<1>16. cycle' \in [Cycles -> CycleRecords]
  <2>1. \A d \in Cycles : cycle'[d] \in CycleRecords
    BY <1>4, <1>6, <1>7
  <2> QED
    BY <1>6, <2>1
<1>17. Types'
  BY <1>1, <1>2, <1>3, <1>8, <1>10, <1>12, <1>16
     DEF Types, TypeOK, SafeTransaction, Batch, CycleRecords, Readings, Alerting
<1> QED
  BY <1>8, <1>9, <1>11, <1>12, <1>13, <1>14, <1>15, <1>17 DEF IInv, Alerting

(* The rebalance worker takes a job and fails.                             *)
JobRecords == [at : {"idle", "fail"}, job : Jobs \cup {<<Nobody, "drift">>}]

LEMMA TakeJobStep ==
  ASSUME IInv, NEW w \in Workers, TakeJob(w), Grows
  PROVE  /\ worker'[w] \in JobRecords /\ WorkerOK(w)'
         /\ jobs' \in [Jobs -> Nat] /\ \A p \in Positions : QueuedJob(p)'
<1>1. jobs \in [Jobs -> Nat] /\ worker \in [Workers -> JobRecords]
      /\ \A p \in Positions : QueuedJob(p)
  BY DEF IInv, Types, TypeOK, JobRecords
<1>2. UNCHANGED <<alerts, lost>>
  BY DEF TakeJob, database, history
<1>3. PICK j \in Waiting :
        /\ jobs' = [jobs EXCEPT ![j] = @ - 1]
        /\ worker' = [worker EXCEPT ![w] = [at |-> "fail", job |-> j]]
  BY DEF TakeJob
<1>4. PICK p \in Positions, kind \in Kinds : j = <<p, kind>>
  BY DEF Waiting, Jobs
<1>5. j \in Jobs /\ jobs[j] > 0 /\ j[1] = p
  BY <1>4 DEF Waiting
<1>6. Alerted(p, "critical") \/ Alerted(p, "drift")
  BY <1>1, <1>4, <1>5 DEF QueuedJob, Kinds
<1>7. worker'[w] = [at |-> "fail", job |-> j]
  BY <1>1, <1>3
<1>8. worker'[w] \in JobRecords
  BY <1>5, <1>7 DEF JobRecords
<1>9. WorkerOK(w)'
  BY <1>2, <1>5, <1>6, <1>7 DEF WorkerOK, Alerted
<1>10. jobs' \in [Jobs -> Nat]
  BY <1>1, <1>3, <1>5
<1>11. \A k \in Jobs : jobs'[k] <= jobs[k]
  BY <1>1, <1>3, <1>5
<1>12. ASSUME NEW q \in Positions PROVE QueuedJob(q)'
  BY <1>1, <1>10, <1>11, JobKept DEF Jobs, IInv
<1> QED
  BY <1>8, <1>9, <1>10, <1>12

LEMMA RebalanceStep ==
  ASSUME IInv, NEW w \in Workers, WorkerStep(w)
  PROVE  IInv' /\ Grows
<1>1. Types /\ DialogOK /\ ExecutionOK
  BY DEF IInv
<1>2. UNCHANGED <<stored, alerts, live, signed, proposed, wasCritical, dialog, execution, cycle,
                  opened, claimed, lost>>
      /\ (Fault \/ NoFault)
  BY DEF WorkerStep, TakeJob, FailJob, database, chain, history, NoFault
<1>3. faults' \in 0 .. MaxFaults
  BY <1>1, <1>2, FaultsCounted DEF Types, TypeOK
<1>4. worker \in [Workers -> JobRecords] /\ jobs \in [Jobs -> Nat] /\ WorkerOK(w)
      /\ position \in [Positions -> Statuses]
  BY <1>1 DEF IInv, Types, TypeOK, JobRecords
<1>5. worker[w] \in JobRecords /\ worker' = [v \in Workers |-> worker'[v]]
      /\ \A v \in Workers : v # w => worker'[v] = worker[v]
  BY <1>4 DEF WorkerStep, TakeJob, FailJob
<1> DEFINE Goal == /\ Grows
                   /\ worker'[w] \in JobRecords /\ WorkerOK(w)'
                   /\ position' \in [Positions -> Statuses] /\ \A q \in Positions : Row(q)'
                   /\ jobs' \in [Jobs -> Nat] /\ \A p \in Positions : QueuedJob(p)'
<1>6. ASSUME TakeJob(w) PROVE Goal
  <2>1. UNCHANGED position
    BY <1>6 DEF TakeJob, database
  <2>2. Grows
    BY <1>2, <2>1 DEF Grows
  <2>3. \A q \in Positions : Row(q)'
    BY <1>2, <2>1, <2>2, RowKept DEF IInv
  <2> QED
    BY <1>4, <1>6, <2>1, <2>2, <2>3, TakeJobStep
<1>7. ASSUME FailJob(w) PROVE Goal
  <2>1. worker[w].at = "fail" /\ UNCHANGED jobs /\ worker' = [worker EXCEPT ![w] = IdleWorker]
    BY <1>7 DEF FailJob
  <2>2. PICK p \in Positions : p = worker[w].job[1] /\ (Alerted(p, "critical") \/ Alerted(p, "drift"))
    BY <1>4, <2>1 DEF WorkerOK, Jobs, Alerted
  <2>3. position' = [position EXCEPT ![p] = "failed"] \/ UNCHANGED position
    BY <1>7, <2>2 DEF FailJob
  <2>4. Grows
    BY <1>2, <1>4, <2>3 DEF Grows
  <2>5. worker'[w] = IdleWorker
    BY <1>4, <2>1
  <2>6. worker'[w] \in JobRecords /\ WorkerOK(w)'
    BY <2>5 DEF IdleWorker, JobRecords, WorkerOK
  <2>7. Row(p)
    BY DEF IInv
  <2>8. Row(p)'
    BY <1>2, <1>4, <2>2, <2>3, <2>7 DEF Row, Listed, Alerted
  <2>9. ASSUME NEW q \in Positions, q # p PROVE Row(q)'
    BY <1>2, <1>4, <2>3, <2>4, <2>9, RowKept DEF IInv
  <2>10. position' \in [Positions -> Statuses]
    BY <1>4, <2>3 DEF Statuses
  <2>11. ASSUME NEW q \in Positions PROVE QueuedJob(q)'
    BY <1>1, <1>4, <2>1, <2>4, JobKept DEF Jobs, IInv
  <2> QED
    BY <1>4, <2>1, <2>4, <2>6, <2>8, <2>9, <2>10, <2>11
<1>8. Goal
  BY <1>6, <1>7 DEF WorkerStep
<1>9. \A v \in Workers : WorkerOK(v)'
  <2>1. ASSUME NEW v \in Workers, v # w PROVE WorkerOK(v)'
    BY <1>1, <1>5, <1>8, <2>1, WorkerKept DEF IInv
  <2> QED
    BY <1>8, <2>1
<1>10. worker' \in [Workers -> JobRecords]
  <2>1. \A v \in Workers : worker'[v] \in JobRecords
    BY <1>4, <1>5, <1>8
  <2> QED
    BY <1>5, <2>1
<1>11. \A c \in Cycles : CycleOK(c)'
  BY <1>1, <1>2, <1>8, CycleKept DEF IInv
<1>12. DialogOK' /\ ExecutionOK' /\ AlertsOK'
  BY <1>1, <1>2, <1>8, DialogKept, ExecutionKept, AlertsKept DEF IInv
<1>13. Types'
  BY <1>1, <1>2, <1>3, <1>8, <1>10 DEF Types, TypeOK, SafeTransaction, Batch, JobRecords
<1> QED
  BY <1>8, <1>9, <1>10, <1>11, <1>12, <1>13 DEF IInv

-----------------------------------------------------------------------------
LEMMA InvNext == IInv /\ [Next]_vars => IInv'
<1> SUFFICES ASSUME IInv, [Next]_vars PROVE IInv'
  OBVIOUS
<1>1. CASE UNCHANGED vars
  <2>1. UNCHANGED <<position, stored, alerts, live, signed, proposed, wasCritical, jobs, dialog,
                    execution, cycle, worker, faults, opened, claimed, lost>>
    BY <1>1 DEF vars, database, chain, processes, history
  <2>2. Grows
    BY <2>1 DEF Grows
  <2>3. \A p \in Positions : Row(p)' /\ QueuedJob(p)'
    BY <2>1 DEF IInv, Row, QueuedJob, SafeTransaction, Batch, Alerted
  <2>4. DialogOK' /\ ExecutionOK' /\ AlertsOK' /\ (\A c \in Cycles : CycleOK(c)') /\ \A w \in Workers : WorkerOK(w)'
    BY <2>1, <2>2, DialogKept, ExecutionKept, AlertsKept, CycleKept, WorkerKept DEF IInv
  <2>5. Types'
    BY <2>1 DEF IInv, Types, TypeOK, SafeTransaction, Batch
  <2> QED
    BY <2>3, <2>4, <2>5 DEF IInv
<1>2. CASE Next
  BY <1>2, DialogStep, ExecutionStep, RouteStep, MonitorStep, RebalanceStep DEF Next, Routes
<1> QED
  BY <1>1, <1>2

LEMMA InvHolds == Spec => []IInv
BY InvInit, InvNext, PTL DEF Spec

(* No position is watched whose owner has not signed the whole plan, but   *)
(* for those that the agent opened or another client confirmed, however    *)
(* dialogs stop, jobs are repeated and cycles overlap (DeployModal).       *)
THEOREM WatchedIsSigned == Spec => []WatchedWasSigned
<1>1. IInv => WatchedWasSigned
  BY DEF IInv, Row, WatchedWasSigned
<1> QED
  BY <1>1, InvHolds, PTL

(* The rows and the queue say what has happened: rebalances and failures   *)
(* were alerted, a near liquidation was one, a deployment was proposed     *)
(* (monitor, rebalance worker, execution worker).                          *)
THEOREM JobsAreWarranted == Spec => []JobsWarranted
<1>1. IInv => JobsWarranted
  BY DEF IInv, Types, Row, QueuedJob, AlertsOK, JobsWarranted, RebalancesAreAlerted, FailedWasAlerted,
         DeployingIsProposed
<1> QED
  BY <1>1, InvHolds, PTL

-----------------------------------------------------------------------------
(* Nobody is at work on position p.                                        *)
Unattended(p) ==
  /\ dialog.at \in {"prepare", "sign", "confirm"} => dialog.pos # p
  /\ execution.at \in {"nonce", "propose", "mark"} => execution.pos # p
  /\ \A kind \in Kinds : jobs[<<p, kind>>] = 0
  /\ \A w \in Workers : worker[w].at # "idle" => worker[w].job[1] # p
  /\ \A c \in Cycles :
       /\ p \notin cycle[c].health.todo /\ p \notin cycle[c].apy.todo
       /\ cycle[c].health.at # "next" => cycle[c].health.pos # p
       /\ cycle[c].apy.at # "next" => cycle[c].apy.pos # p

LEMMA UnattendedMeans == Types => \A p \in Positions : ~Pending(p) <=> Unattended(p)
<1> SUFFICES ASSUME Types, NEW p \in Positions PROVE ~Pending(p) <=> Unattended(p)
  OBVIOUS
<1>1. (\E j \in Waiting : j[1] = p) <=> \E kind \in Kinds : jobs[<<p, kind>>] # 0
  <2>1. jobs \in [Jobs -> Nat]
    BY DEF Types, TypeOK
  <2>2. ASSUME NEW j \in Waiting, j[1] = p PROVE \E kind \in Kinds : jobs[<<p, kind>>] # 0
    <3>1. PICK q \in Positions, kind \in Kinds : j = <<q, kind>>
      BY <2>2 DEF Waiting, Jobs
    <3>2. q = p /\ jobs[<<p, kind>>] > 0
      BY <2>2, <3>1 DEF Waiting
    <3> QED
      BY <3>2
  <2>3. ASSUME NEW kind \in Kinds, jobs[<<p, kind>>] # 0 PROVE \E j \in Waiting : j[1] = p
    <3>1. <<p, kind>> \in Jobs /\ jobs[<<p, kind>>] \in Nat
      BY <2>1 DEF Jobs
    <3>2. <<p, kind>> \in Waiting /\ <<p, kind>>[1] = p
      BY <2>3, <3>1 DEF Waiting
    <3> QED
      BY <3>2
  <2> QED
    BY <2>2, <2>3
<1>2. (\E c \in Cycles, kind \in {"health", "apy"} :
          LET check == cycle[c][kind]
          IN  p \in check.todo \/ (check.at # "next" /\ check.pos = p))
      <=> \E c \in Cycles :
            \/ p \in cycle[c].health.todo \/ p \in cycle[c].apy.todo
            \/ cycle[c].health.at # "next" /\ cycle[c].health.pos = p
            \/ cycle[c].apy.at # "next" /\ cycle[c].apy.pos = p
  OBVIOUS
<1> QED
  BY <1>1, <1>2 DEF Pending, Unattended

(* Whoever is not at work on a closed position does not begin to be: every *)
(* list and every request looks for other statuses.                        *)
LEMMA ClosedStays ==
  ASSUME IInv, Next, NEW p \in Positions, position[p] = "closed", Unattended(p), p \notin claimed'
  PROVE  position'[p] = "closed" /\ Unattended(p)'
<1> USE DEF Unattended
<1>1. /\ position \in [Positions -> Statuses] /\ jobs \in [Jobs -> Nat]
      /\ dialog \in [at : {"review", "prepare", "sign", "confirm"}, pos : Somebody]
      /\ execution \in [at : {"none", "nonce", "propose", "mark", "done"}, pos : Somebody]
      /\ cycle \in [Cycles -> CycleRecords] /\ worker \in [Workers -> JobRecords]
  BY DEF IInv, Types, TypeOK, CycleRecords, JobRecords
<1>2. p \notin Unused /\ p \notin listActivePositions
  BY DEF Unused, listActivePositions, Listed
<1>3. CASE Deploy \/ Prepare \/ Sign \/ Confirm
  <2>1. UNCHANGED <<jobs, execution, cycle, worker>>
    BY <1>3 DEF Deploy, Prepare, Sign, Confirm, Dialog
  <2>2. CASE Deploy
    BY <1>1, <1>2, <2>1, <2>2 DEF Deploy, CreatePending
  <2>3. CASE Prepare \/ Sign
    <3>1. UNCHANGED position
      BY <2>3 DEF Prepare, Sign
    <3>2. dialog.at # "review" /\ dialog.pos # p
      BY <2>3 DEF Prepare, Sign
    <3>3. dialog'.pos = dialog.pos \/ dialog'.at = "review"
      BY <1>1, <2>3 DEF Prepare, Sign, Step, NoDialog
    <3> QED
      BY <2>1, <3>1, <3>2, <3>3
  <2>4. CASE Confirm
    <3>1. dialog.pos # p /\ dialog'.at = "review" /\ (UNCHANGED position \/ ConfirmActive(dialog.pos))
      BY <2>4 DEF Confirm, NoDialog
    <3> QED
      BY <1>1, <2>1, <3>1 DEF ConfirmActive
  <2> QED
    BY <1>3, <2>2, <2>3, <2>4
<1>4. CASE Record \/ ReadNonce \/ Propose \/ MarkDeploying
  <2>1. UNCHANGED <<jobs, dialog, cycle, worker>>
    BY <1>4 DEF Record, ReadNonce, Propose, MarkDeploying, Execution
  <2>2. CASE Record
    BY <1>1, <1>2, <2>1, <2>2 DEF Record, Executing
  <2>3. CASE ReadNonce \/ Propose
    <3>1. UNCHANGED position /\ execution.pos # p
          /\ (execution'.pos = execution.pos \/ execution'.at \in {"none", "done"})
      BY <1>1, <2>3 DEF ReadNonce, Propose, Executing, NotProposed
    <3> QED
      BY <2>1, <3>1
  <2>4. CASE MarkDeploying
    <3>1. execution.pos # p /\ execution'.at = "done"
      BY <2>4 DEF MarkDeploying, Executing
    <3> QED
      BY <1>1, <2>1, <2>4, <3>1 DEF MarkDeploying
  <2> QED
    BY <1>4, <2>2, <2>3, <2>4
<1>5. ASSUME NEW q \in Positions, Routes(q)
      PROVE  position'[p] = "closed" /\ Unattended(p)'
  <2>1. UNCHANGED <<dialog, execution, cycle, worker, jobs>>
    BY <1>5 DEF Routes, MarketMoves, Close, ReadHealth, AgentOpens, OtherConfirms, processes
  <2>2. position'[p] = "closed"
    BY <1>1, <1>2, <1>5 DEF Routes, MarketMoves, Close, ReadHealth, AgentOpens, OtherConfirms,
                              ConfirmActive, database
  <2> QED
    BY <2>1, <2>2
<1>6. ASSUME NEW c \in Cycles, CycleStep(c)
      PROVE  position'[p] = "closed" /\ Unattended(p)'
  <2>1. UNCHANGED <<position, dialog, execution, worker>>
    BY <1>6 DEF CycleStep, StartCycle, CheckHealth, CheckApyDrift, EndCycle, FireAlert,
                TriggerRebalance, database
  <2>2. \A d \in Cycles : d # c => cycle'[d] = cycle[d]
    BY <1>1, <1>6 DEF CycleStep, StartCycle, CheckHealth, CheckApyDrift, EndCycle, FireAlert,
                      TriggerRebalance
  <2> DEFINE Free(r) == /\ p \notin r.health.todo /\ p \notin r.apy.todo
                        /\ r.health.at # "next" => r.health.pos # p
                        /\ r.apy.at # "next" => r.apy.pos # p
  <2>3. Free(cycle[c]) /\ cycle[c] \in CycleRecords
    BY <1>1
  <2>4. ASSUME UNCHANGED jobs, Free(cycle'[c])
        PROVE  position'[p] = "closed" /\ Unattended(p)'
    BY <2>1, <2>2, <2>4
  <2>5. CASE StartCycle(c)
    <3>1. cycle'[c].health = [NoCheck EXCEPT !.todo = {q \in listActivePositions : stored[q] # "null"}]
          /\ cycle'[c].apy = [NoCheck EXCEPT !.todo = listActivePositions]
      BY <1>1, <2>5 DEF StartCycle
    <3> QED
      BY <1>2, <2>4, <2>5, <3>1 DEF StartCycle, NoCheck
  <2>6. CASE CheckHealth(c)
    <3>1. PICK q \in cycle[c].health.todo :
            /\ cycle'[c].health.todo = cycle[c].health.todo \ {q}
            /\ cycle'[c].health.pos = q /\ cycle'[c].apy = cycle[c].apy
      <4>1. PICK q \in cycle[c].health.todo : \E hf \in {live[q], cycle[c].hf[q]} :
              cycle' = [cycle EXCEPT
                        ![c].hf[q]  = "null",
                        ![c].health = [todo |-> @.todo \ {q}, pos |-> q, type |-> hf,
                                       at   |-> IF hf = "ok" THEN "next" ELSE "alert"]]
        BY <2>6 DEF CheckHealth
      <4> QED
        BY <1>1, <2>3, <4>1 DEF CycleRecords, Checks
    <3> QED
      BY <2>3, <2>4, <2>6, <3>1 DEF CheckHealth
  <2>7. CASE CheckApyDrift(c)
    <3>1. PICK q \in cycle[c].apy.todo :
            /\ cycle'[c].apy.todo = cycle[c].apy.todo \ {q}
            /\ cycle'[c].apy.pos = q /\ cycle'[c].health = cycle[c].health
      BY <1>1, <2>3, <2>7 DEF CheckApyDrift, CycleRecords, Checks
    <3> QED
      BY <2>3, <2>4, <2>7, <3>1 DEF CheckApyDrift
  <2>8. CASE EndCycle(c)
    BY <1>1, <2>4, <2>8 DEF EndCycle, NoCheck
  <2>9. ASSUME FireAlert(c, "health") \/ TriggerRebalance(c, "health")
        PROVE  position'[p] = "closed" /\ Unattended(p)'
    <3>1. PICK at : cycle' = [cycle EXCEPT ![c]["health"].at = at]
      BY <2>9 DEF FireAlert, TriggerRebalance
    <3>2. cycle[c].health.at # "next"
      BY <2>9 DEF FireAlert, TriggerRebalance, Check
    <3>3. cycle'[c].health.todo = cycle[c].health.todo /\ cycle'[c].health.pos = cycle[c].health.pos
          /\ cycle'[c].apy = cycle[c].apy
      BY <1>1, <2>3, <3>1 DEF CycleRecords, Checks
    <3>4. Free(cycle'[c])
      BY <2>3, <3>2, <3>3
    <3>5. CASE UNCHANGED jobs
      BY <2>4, <3>4, <3>5
    <3>6. CASE Queue(<<cycle[c].health.pos, "emergency">>)
      <4>1. cycle[c].health.pos # p
        BY <2>3, <3>2
      <4>2. \A kind \in Kinds : jobs'[<<p, kind>>] = jobs[<<p, kind>>]
        BY <1>1, <3>6, <4>1 DEF Jobs, Queue
      <4> QED
        BY <2>1, <2>2, <3>4, <4>2
    <3> QED
      BY <2>9, <3>5, <3>6 DEF FireAlert, TriggerRebalance, Check
  <2>10. ASSUME FireAlert(c, "apy") \/ TriggerRebalance(c, "apy")
         PROVE  position'[p] = "closed" /\ Unattended(p)'
    <3>1. PICK at : cycle' = [cycle EXCEPT ![c]["apy"].at = at]
      BY <2>10 DEF FireAlert, TriggerRebalance
    <3>2. cycle[c].apy.at # "next"
      BY <2>10 DEF FireAlert, TriggerRebalance, Check
    <3>3. cycle'[c].apy.todo = cycle[c].apy.todo /\ cycle'[c].apy.pos = cycle[c].apy.pos
          /\ cycle'[c].health = cycle[c].health
      BY <1>1, <2>3, <3>1 DEF CycleRecords, Checks
    <3>4. Free(cycle'[c])
      BY <2>3, <3>2, <3>3
    <3>5. CASE UNCHANGED jobs
      BY <2>4, <3>4, <3>5
    <3>6. CASE Queue(<<cycle[c].apy.pos, "drift">>)
      <4>1. cycle[c].apy.pos # p
        BY <2>3, <3>2
      <4>2. \A kind \in Kinds : jobs'[<<p, kind>>] = jobs[<<p, kind>>]
        BY <1>1, <3>6, <4>1 DEF Jobs, Queue
      <4> QED
        BY <2>1, <2>2, <3>4, <4>2
    <3> QED
      BY <2>10, <3>5, <3>6 DEF FireAlert, TriggerRebalance, Check
  <2> QED
    BY <1>6, <2>5, <2>6, <2>7, <2>8, <2>9, <2>10 DEF CycleStep
<1>7. ASSUME NEW w \in Workers, WorkerStep(w)
      PROVE  position'[p] = "closed" /\ Unattended(p)'
  <2>1. UNCHANGED <<dialog, execution, cycle>>
    BY <1>7 DEF WorkerStep, TakeJob, FailJob
  <2>2. \A v \in Workers : v # w => worker'[v] = worker[v]
    BY <1>1, <1>7 DEF WorkerStep, TakeJob, FailJob
  <2>3. CASE TakeJob(w)
    <3>0. PICK j \in Waiting :
            /\ jobs' = [jobs EXCEPT ![j] = @ - 1]
            /\ worker' = [worker EXCEPT ![w] = [at |-> "fail", job |-> j]]
      BY <2>3 DEF TakeJob
    <3>1. jobs' = [jobs EXCEPT ![j] = @ - 1] /\ worker'[w].job = j
      BY <1>1, <3>0
    <3>2. j \in Jobs /\ j[1] # p
      BY UnattendedMeans DEF Waiting, Pending, IInv
    <3>3. \A kind \in Kinds : jobs'[<<p, kind>>] = jobs[<<p, kind>>]
      BY <1>1, <3>1, <3>2 DEF Jobs
    <3> QED
      BY <2>1, <2>2, <2>3, <3>1, <3>2, <3>3 DEF TakeJob, database
  <2>4. CASE ~TakeJob(w)
    <3>1. worker[w].at = "fail" /\ worker[w].job[1] # p /\ UNCHANGED jobs
      BY <1>7, <2>4 DEF WorkerStep, FailJob
    <3>2. worker'[w].at = "idle"
      BY <1>1, <1>7, <2>4 DEF WorkerStep, FailJob, IdleWorker
    <3>3. position'[p] = "closed"
      BY <1>1, <1>7, <2>4, <3>1 DEF WorkerStep, FailJob
    <3> QED
      BY <2>1, <2>2, <3>1, <3>2, <3>3
  <2> QED
    BY <2>3, <2>4
<1> QED
  BY <1>3, <1>4, <1>5, <1>6, <1>7 DEF Next, Routes

(* A closed position that nobody is at work on stays closed for good, but  *)
(* for a client that confirms it (routes/positions.ts, listActivePositions).*)
THEOREM ClosedStaysClosed == Spec => ClosedIsFinal
<1>1. Types' => (\A p \in Positions : ~Pending(p) <=> Unattended(p))'
  BY UnattendedMeans, PTL
<1>2. IInv /\ IInv' /\ [Next]_vars =>
        [\A p \in Positions :
           position[p] = "closed" /\ ~Pending(p) =>
             p \in claimed' \/ (position'[p] = "closed" /\ ~Pending(p)')]_vars
  <2> SUFFICES ASSUME IInv, IInv', Next, NEW p \in Positions, position[p] = "closed", ~Pending(p),
                      p \notin claimed'
               PROVE  position'[p] = "closed" /\ ~Pending(p)'
    OBVIOUS
  <2>1. Unattended(p)
    BY UnattendedMeans DEF IInv
  <2>2. position'[p] = "closed" /\ Unattended(p)'
    BY <2>1, ClosedStays
  <2>3. Types'
    BY DEF IInv
  <2> QED
    BY <1>1, <2>2, <2>3
<1> QED
  BY <1>2, InvHolds, PTL DEF Spec, ClosedIsFinal
=============================================================================
