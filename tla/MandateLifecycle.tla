-------------------------- MODULE MandateLifecycle --------------------------
(***************************************************************************)
(* From the owner's dialog to the agent's decision: MandateSetupModal      *)
(* stores a draft, has it signed and activates it; routes/mandates.ts      *)
(* checks the signature and makes mandate and version active with two      *)
(* independent updates; the mandate monitor of services/monitor scans the  *)
(* organisation under the active mandate that was updated last and queues  *)
(* decisions, which the executor (MandateWorkers) carries out.             *)
(*                                                                         *)
(* One organisation.  Every mandate has one version, because the routes    *)
(* make no other.  A step is the code between two awaits.  The terms of a  *)
(* mandate and what balances call for under them are in MandateTerms; here *)
(* whether the balances call for anything is an input.                     *)
(***************************************************************************)
EXTENDS MandateTerms

CONSTANTS
  MaxMandates,    \* bound: mandates ever made
  Requests,       \* activation requests the backend may serve at once
  MaxDecisions,   \* bound: decisions ever made
  MaxFaults       \* bound: failed writes, lost answers and restarts

ASSUME ConstantsAssumption ==
  MaxMandates \in Nat /\ MaxDecisions \in Nat /\ MaxFaults \in Nat

Mandates  == 1 .. MaxMandates
Decisions == 1 .. MaxDecisions
Callers   == {"worker", "startup"}   \* who scans: the queue's worker, the start

VARIABLES
  \* the database
  status,      \* mandates.status; activeVersionId is written with it
  version,     \* mandateVersions.status of the mandate's version
  newest,      \* the active mandate with the latest updatedAt, or 0
  decision,    \* agentDecisions: mandate and status
  fresh,       \* decisions updated within the window of their status
  \* the memory of browser, backend and monitor
  modal,       \* the dialog's step and mandate
  request,     \* activation requests being served
  scan,        \* where each scan is, its mandate and its decision
  queued,      \* decisions whose job is in the queue
  booting,     \* whether the monitor is watched from its start
  signed,      \* mandates whose activation message the owner signed
  torn,        \* mandates of which an update of an activation failed (history)
  raced,       \* mandates both scans were deciding about at once (history)
  faults

database == <<status, version, newest, decision, fresh>>
monitor  == <<scan, queued, booting>>
vars     == <<database, modal, request, monitor, signed, torn, raced, faults>>

IdleRequest == [mandate |-> 0, todo |-> {}, modal |-> FALSE, failed |-> FALSE]
IdleScan    == [at |-> "idle", mandate |-> 0, decision |-> 0]
BootScans   == [s \in Callers |-> [IdleScan EXCEPT !.at = IF s = "startup" THEN "boot" ELSE @]]

Active  == {m \in Mandates : status[m] = "active"}
Fault   == faults < MaxFaults /\ faults' = faults + 1
NoFault == UNCHANGED faults

Init ==
  /\ status = [m \in Mandates |-> "none"] /\ version = [m \in Mandates |-> "none"]
  /\ newest = 0
  /\ decision = [d \in Decisions |-> [mandate |-> 0, status |-> "none"]]
  /\ fresh = {} /\ queued = {}
  /\ modal = [step |-> "review", mandate |-> 0]
  /\ request = [q \in Requests |-> IdleRequest]
  /\ booting \in BOOLEAN
  /\ scan = IF booting THEN BootScans ELSE [s \in Callers |-> IdleScan]
  /\ signed = {} /\ torn = {} /\ raced = {}
  /\ faults = 0

-----------------------------------------------------------------------------
(* MandateSetupModal: handleActivate *)

(* The organisation as POST /mandates may find it.                         *)
Organisations == {"missing", "single", "multisig", "multisigNoSafe"}

(* The route refuses one that is missing, or that requires a multisig and  *)
(* has no Safe.                                                            *)
Storable(org) == org \notin {"missing", "multisigNoSafe"}

(* POST /mandates stores mandate and version in one transaction.           *)
StoreDraft(m) ==
  /\ status[m] = "none" /\ \A n \in 1 .. m - 1 : status[n] # "none"
  /\ status' = [status EXCEPT ![m] = "draft"]
  /\ version' = [version EXCEPT ![m] = "draft"]

(* A refusal leaves the dialog at its review step; so does an answer that  *)
(* is lost, and the next click stores another draft.                       *)
CreateDraft(m) ==
  /\ modal.step = "review"
  /\ \E org \in Organisations :
       IF Storable(org)
       THEN /\ StoreDraft(m)
            /\ \/ modal' = [step |-> "sign", mandate |-> m] /\ NoFault
               \/ Fault /\ UNCHANGED modal
       ELSE UNCHANGED <<status, version, modal, faults>>
  /\ UNCHANGED <<newest, decision, fresh, request, monitor, signed, torn, raced>>

(* The wallet: a refusal is an error like any other.                       *)
Sign ==
  /\ modal.step = "sign"
  /\ \/ modal' = [modal EXCEPT !.step = "activate"] /\ signed' = signed \cup {modal.mandate}
     \/ modal' = [modal EXCEPT !.step = "review"] /\ UNCHANGED signed
  /\ UNCHANGED <<database, request, monitor, torn, raced, faults>>

-----------------------------------------------------------------------------
(* POST /mandates/:id/activate *)

CheckUnsigned(m) == status[m] = "draft" /\ version[m] = "draft"    \* mutant

(* The mandate is a draft and has a draft version; signer and owner agree; *)
(* the signature is one of the owner's for this mandate and version.       *)
Activatable(m) ==
  /\ status[m] = "draft" /\ version[m] = "draft"
  /\ m \in signed

(* A request passes the checks, *)
StartActivation(q) ==
  LET m == modal.mandate
  IN  /\ modal.step = "activate" /\ request[q] = IdleRequest
      /\ Activatable(m)
      /\ request' = [request EXCEPT ![q] = [mandate |-> m, todo |-> {"mandate", "version"},
                                            modal |-> TRUE, failed |-> FALSE]]
      /\ modal' = [modal EXCEPT !.step = "activating"]
      /\ UNCHANGED <<database, monitor, signed, torn, raced, faults>>

(* also when it comes from elsewhere: one of the dialog's delivered twice, *)
(* or one that carries no signature of the owner for this mandate.         *)
OtherActivation(q, m) ==
  /\ m \in signed => \E r \in Requests : request[r].modal /\ request[r].mandate = m
  /\ request[q] = IdleRequest
  /\ Activatable(m)
  /\ Fault
  /\ request' = [request EXCEPT ![q] = [mandate |-> m, todo |-> {"mandate", "version"},
                                        modal |-> FALSE, failed |-> FALSE]]
  /\ UNCHANGED <<database, modal, monitor, signed, torn, raced>>

(* or is refused, or does not arrive: the dialog shows the error.          *)
RefuseActivation ==
  /\ modal.step = "activate"
  /\ IF Activatable(modal.mandate) THEN Fault ELSE NoFault
  /\ modal' = [modal EXCEPT !.step = "review"]
  /\ UNCHANGED <<database, request, monitor, signed, torn, raced>>

UpdateVersionOnly(q, part) ==                                    \* mutant
  LET m == request[q].mandate
  IN  /\ part \in request[q].todo
      /\ version' = [version EXCEPT ![m] = "active"]
      /\ request' = [request EXCEPT ![q].todo = @ \ {part}]
      /\ NoFault
      /\ UNCHANGED <<status, newest, decision, fresh, modal, monitor, signed, torn, raced>>

(* updateMandateStatus and updateMandateVersionActivated run side by side, *)
(* in no transaction; each may fail alone.                                 *)
UpdateActive(q, part) ==
  LET m == request[q].mandate
  IN  /\ part \in request[q].todo
      /\ \/ /\ IF part = "mandate"
               THEN status' = [status EXCEPT ![m] = "active"] /\ newest' = m /\ UNCHANGED version
               ELSE version' = [version EXCEPT ![m] = "active"] /\ UNCHANGED <<status, newest>>
            /\ request' = [request EXCEPT ![q].todo = @ \ {part}]
            /\ NoFault /\ UNCHANGED torn
         \/ /\ Fault
            /\ request' = [request EXCEPT ![q].todo = @ \ {part}, ![q].failed = TRUE]
            /\ torn' = torn \cup {m}
            /\ UNCHANGED <<status, version, newest>>
      /\ UNCHANGED <<decision, fresh, modal, monitor, signed, raced>>

(* The answer, which may be lost.                                          *)
AnswerActivation(q) ==
  LET r == request[q]
  IN  /\ r # IdleRequest /\ r.todo = {}
      /\ \/ /\ modal' = [modal EXCEPT !.step = IF ~r.modal THEN @
                                               ELSE IF r.failed THEN "review" ELSE "done"]
            /\ NoFault
         \/ Fault /\ r.modal /\ modal' = [modal EXCEPT !.step = "review"]
      /\ request' = [request EXCEPT ![q] = IdleRequest]
      /\ UNCHANGED <<database, monitor, signed, torn, raced>>

-----------------------------------------------------------------------------
(* services/monitor: scanOrgMandates *)

PendingIgnoringProposed(m) ==                                    \* mutant
  \E d \in fresh : decision[d] = [mandate |-> m, status |-> "ready"]

PendingForEver(m) ==                                             \* mutant
  \E d \in Decisions : decision[d].mandate = m /\ decision[d].status \in {"proposed", "ready"}

(* mandateHasPendingWork: proposed for less than 15 minutes, or ready for  *)
(* less than 6 hours.  It asks about one mandate, not the treasury.        *)
HasPendingWork(m) ==
  \E d \in fresh : decision[d].mandate = m /\ decision[d].status \in {"proposed", "ready"}

(* The active mandate updated last, and the balances; a failed read ends   *)
(* the scan.  The queue's worker makes one scan at a time, the scan at the *)
(* start of the process is not one of its jobs.                            *)
StartScan(s) ==
  /\ scan[s].at = IF s = "startup" THEN "boot" ELSE "idle"
  /\ scan' = [scan EXCEPT ![s] = IF newest = 0 THEN IdleScan
                                 ELSE [at |-> "check", mandate |-> newest, decision |-> 0]]
  /\ UNCHANGED <<database, modal, request, queued, booting, signed, torn, raced, faults>>

Deciding(m) == {s \in Callers : scan[s].at = "decide" /\ scan[s].mandate = m}

CheckPending(s) ==
  LET m == scan[s].mandate
  IN  /\ scan[s].at = "check"
      /\ IF HasPendingWork(m)
         THEN scan' = [scan EXCEPT ![s] = IdleScan] /\ UNCHANGED raced
         ELSE /\ scan' = [scan EXCEPT ![s].at = "decide"]
              /\ raced' = IF Deciding(m) = {} THEN raced ELSE raced \cup {m}
      /\ UNCHANGED <<database, modal, request, queued, booting, signed, torn, faults>>

(* The balances call for nothing, or the insert fails.                     *)
DecideNothing(s) ==
  /\ scan[s].at = "decide"
  /\ scan' = [scan EXCEPT ![s] = IdleScan]
  /\ UNCHANGED <<database, modal, request, queued, booting, signed, torn, raced, faults>>

(* createAndEnqueueDecision stores the decision, *)
Decide(s, d) ==
  /\ scan[s].at = "decide"
  /\ decision[d].status = "none" /\ \A e \in 1 .. d - 1 : decision[e].status # "none"
  /\ decision' = [decision EXCEPT ![d] = [mandate |-> scan[s].mandate, status |-> "proposed"]]
  /\ fresh' = fresh \cup {d}
  /\ scan' = [scan EXCEPT ![s].at = "enqueue", ![s].decision = d]
  /\ UNCHANGED <<status, version, newest, modal, request, queued, booting, signed, torn, raced, faults>>

(* then queues its job; when that fails the decision stays without one.    *)
Enqueue(s) ==
  /\ scan[s].at = "enqueue"
  /\ \/ queued' = queued \cup {scan[s].decision} /\ NoFault
     \/ Fault /\ UNCHANGED queued
  /\ scan' = [scan EXCEPT ![s] = IdleScan]
  /\ UNCHANGED <<database, modal, request, booting, signed, torn, raced>>

MonitorRestarts ==
  /\ Fault
  /\ scan' = BootScans
  /\ UNCHANGED <<database, modal, request, queued, booting, signed, torn, raced>>

(* 15 minutes, or 6 hours, pass since the last update of a decision.       *)
AgeOut(d) ==
  /\ d \in fresh /\ decision[d].status \in {"proposed", "ready"}
  /\ fresh' = fresh \ {d}
  /\ UNCHANGED <<status, version, newest, decision, modal, request, monitor, signed, torn, raced, faults>>

(* The executor has run the job of a decision, or reconciled it; it looks  *)
(* up the mandate and refuses one that is not active.                      *)
ExecutorDecides(d) ==
  LET m == decision[d].mandate
  IN  /\ d \in queued /\ status[m] = "active"
      /\ \E to \in CASE decision[d].status = "proposed" -> {"ready", "blocked", "executed"}
                     [] decision[d].status = "ready"    -> {"executed"}
                     [] OTHER -> {} :
           decision' = [decision EXCEPT ![d].status = to]
      /\ fresh' = fresh \cup {d}
      /\ UNCHANGED <<status, version, newest, modal, request, monitor, signed, torn, raced, faults>>

-----------------------------------------------------------------------------
Activating == \E q \in Requests : AnswerActivation(q) \/ \E part \in request[q].todo : UpdateActive(q, part)

Request == RefuseActivation \/ \E q \in Requests : StartActivation(q)

ScanStep(s) == StartScan(s) \/ CheckPending(s) \/ DecideNothing(s) \/ Enqueue(s)
               \/ \E d \in Decisions : Decide(s, d)

Next ==
  \/ \E m \in Mandates : CreateDraft(m)
  \/ Sign \/ RefuseActivation
  \/ \E q \in Requests : StartActivation(q)
  \/ \E q \in Requests, m \in Mandates : OtherActivation(q, m)
  \/ \E q \in Requests : \E part \in request[q].todo : UpdateActive(q, part)
  \/ \E q \in Requests : AnswerActivation(q)
  \/ \E s \in Callers : ScanStep(s)
  \/ \E d \in Decisions : AgeOut(d) \/ ExecutorDecides(d)
  \/ MonitorRestarts

Spec == Init /\ [][Next]_vars

(* Promises settle and time passes.  Nothing is assumed of the owner, of   *)
(* other clients or of the scans.                                          *)
FairSpec ==
  /\ Spec
  /\ WF_vars(Activating)
  /\ WF_vars(Request)
  /\ \A d \in Decisions : WF_vars(AgeOut(d))

-----------------------------------------------------------------------------
(* Properties *)

(* Types.                                                                  *)
TypeOK ==
  /\ status \in [Mandates -> {"none", "draft", "active"}]
  /\ version \in [Mandates -> {"none", "draft", "active"}]
  /\ newest \in Active \cup {0} /\ (newest = 0 <=> Active = {})
  /\ \A d \in Decisions :
       decision[d].status \in {"none", "proposed", "ready", "blocked", "executed"}
  /\ fresh \cup queued \subseteq {d \in Decisions : decision[d].status # "none"}
  /\ modal \in [step : {"review", "sign", "activate", "activating", "done"},
                mandate : Mandates \cup {0}]
  /\ torn \cup raced \subseteq Mandates
  /\ faults \in 0 .. MaxFaults

(* Whatever the agent decides, it decides under a mandate the owner has    *)
(* signed and that is active, and stays so: activations that overlap,      *)
(* answers that are lost and clicks that are repeated included.            *)
ActsUnderSignedMandate ==
  /\ Active \subseteq signed
  /\ \A d \in Decisions : decision[d].status # "none" => decision[d].mandate \in Active

(* One setup leaves one mandate in force, however often the owner refuses  *)
(* to sign and starts over; every further one is the price of a fault, an  *)
(* activation that took effect and was reported as failed.                 *)
OneMandatePerSetup == Cardinality(Active) <= 1 + faults

(* Once its requests are answered, a mandate and its version agree, unless *)
(* one of the two updates failed: neither requests that overlap, nor one   *)
(* delivered twice, nor a lost answer make them differ.                    *)
ActivationWhole ==
  \A m \in Mandates :
    m \notin torn /\ (\A q \in Requests : request[q].mandate # m) => status[m] = version[m]

(* A mandate has one decision at a time that waits for its job, and two    *)
(* only after the scan at a start and the worker's both found none; never  *)
(* more, however often the monitor restarts or a job is not queued.        *)
OneQueuedPerMandate ==
  \A m \in Mandates :
    Cardinality({d \in fresh : decision[d] = [mandate |-> m, status |-> "proposed"]})
      <= IF m \in raced THEN 2 ELSE 1

(* The dialog says "done" of a mandate only when it is in force.           *)
DoneIsActive == modal.step = "done" => modal.mandate \in Active

(* The dialog does not hang: what it asked the backend is answered.        *)
ActivationAnswered == modal.step \in {"activate", "activating"} ~> modal.step \in {"review", "done"}

(* Whatever becomes of its decisions, a mandate is scanned again: one that *)
(* was never queued, or never carried out, stops counting.                 *)
MandateUnblocks == \A m \in Mandates : HasPendingWork(m) ~> ~HasPendingWork(m)

(* An activation is of what the owner saw, and takes effect as a whole,    *)
(* once, and before it is shown.                                           *)
ActivationsSound ==
  /\ TypeOK
  /\ DialogAccepted
  /\ OneMandatePerSetup
  /\ ActivationWhole
  /\ DoneIsActive

(* What is decided is permitted, and queued once.                          *)
DecisionsSound == DecisionsPermitted /\ OneQueuedPerMandate

(* Neither the dialog nor the scans of a mandate hang for good.            *)
NothingHangs == ActivationAnswered /\ MandateUnblocks
=============================================================================
