--------------------------- MODULE SafeSubmission ---------------------------
(***************************************************************************)
(* The simulation routes over MandateSimulator: a simulation on request,   *)
(* its stored artifact, and the submit route that proposes a passed one to *)
(* a Safe through the Safe Transaction Service.                            *)
(*                                                                         *)
(* A proposal [sim, nonce] is the Safe transaction built from the calldata *)
(* of a simulation with a nonce: the EIP-712 hash tells two proposals      *)
(* apart exactly by these.  The safe-proposal route hands the same payload *)
(* to a caller who signs and posts it with no help of the backend.         *)
(***************************************************************************)
EXTENDS ForkSimulation

CONSTANTS
  Submits,  \* calls of the submit route
  MaxNonce  \* bound: transactions the Safe runs

ASSUME SubmissionAssumption == IsFiniteSet(Submits) /\ MaxNonce \in Nat

Nobody == "nobody"

VARIABLES
  stored,     \* simulation_artifacts rows
  submit,     \* calls of the submit route: [at, sim, nonce, began]
  proposals,  \* what the Safe Transaction Service has
  records,    \* execution_records rows: [by, sim, safeTx]
  safeNonce,  \* the Safe's nonce, which the service reports
  executed,   \* proposals the owners have run
  unread,     \* calls that could not read the block number (history)
  manual      \* proposals posted by callers themselves (history)

routes == <<stored, submit, proposals, records, safeNonce, executed, unread, manual>>
vars   == <<simulator, routes, faults>>

Idle == [at |-> "idle", sim |-> Nobody, nonce |-> 0, began |-> 0]
Done == [Idle EXCEPT !.at = "done"]

Init ==
  /\ SimInit
  /\ stored = {} /\ proposals = {} /\ records = {} /\ executed = {} /\ unread = {} /\ manual = {}
  /\ submit = [c \in Submits |-> Idle]
  /\ safeNonce = 0

(* The route refuses what is not in VALID_PLAYBOOKS and mandates that are  *)
(* not active before it calls the simulator; Requests are what is left.    *)
Simulate(s) == SimStep(s) /\ UNCHANGED routes

(* createSimulationArtifact; when it fails the caller gets an error and    *)
(* the artifact is gone.                                                   *)
Persist(s) ==
  /\ sim[s].at = "over" /\ artifact[s].status # "none"
  /\ \/ NoFault /\ stored' = stored \cup {s}
     \/ Fault /\ UNCHANGED stored
  /\ sim' = [sim EXCEPT ![s].at = "answered"]
  /\ UNCHANGED <<external, chain, head, node, artifact, healthy, alone, moved>>
  /\ UNCHANGED <<submit, proposals, records, safeNonce, executed, unread, manual>>

BlockMined ==
  /\ head < MaxBlock /\ head' = head + 1 /\ NoFault
  /\ UNCHANGED <<external, chain, node, sim, artifact, healthy, alone, moved, routes>>

-----------------------------------------------------------------------------
(* POST /:simulationId/submit *)

To(c, at) == submit' = [submit EXCEPT ![c].at = at]
End(c)    == submit' = [submit EXCEPT ![c] = Done]
Route     == UNCHANGED <<simulator, stored, safeNonce, executed, manual>>

(* Only a stored artifact that passed. *)
Submittable(s) == s \in stored /\ artifact[s].status = "passed"

StartSubmit(c) ==
  /\ submit[c].at = "idle"
  /\ \E s \in Sims :
       /\ Submittable(s)
       /\ submit' = [submit EXCEPT ![c] = [at |-> "block", sim |-> s, nonce |-> 0, began |-> head]]
  /\ NoFault /\ UNCHANGED <<proposals, records, unread>> /\ Route

NeverStale(s) == FALSE                                           \* mutant

Stale(s) == head > artifact[s].until

(* A block number that cannot be read counts as the last valid one. *)
CheckBlock(c) ==
  /\ submit[c].at = "block"
  /\ \/ ~Stale(submit[c].sim) /\ To(c, "safe") /\ NoFault /\ UNCHANGED unread
     \/ Stale(submit[c].sim) /\ End(c) /\ NoFault /\ UNCHANGED unread
     \/ Fault /\ To(c, "safe") /\ unread' = unread \cup {c}
  /\ UNCHANGED <<proposals, records>> /\ Route

(* getSafeInfo answers null on any failure, and the call is refused. *)
ReadSafe(c) ==
  /\ submit[c].at = "safe"
  /\ \/ To(c, "nonce") /\ NoFault
     \/ End(c) /\ Fault
  /\ UNCHANGED <<proposals, records, unread>> /\ Route

(* getSafeNonce: the next transaction the Safe can run, whatever is        *)
(* already proposed.                                                       *)
ReadNonce(c) ==
  /\ submit[c].at = "nonce"
  /\ \/ submit' = [submit EXCEPT ![c].at = "post", ![c].nonce = safeNonce] /\ NoFault
     \/ End(c) /\ Fault
  /\ UNCHANGED <<proposals, records, unread>> /\ Route

Proposal(c) == [sim |-> submit[c].sim, nonce |-> submit[c].nonce]

RecordFirst(c) ==                                                \* mutant
  /\ submit[c].at = "post"
  /\ records' = records \cup {[by |-> c, safeTx |-> Proposal(c)]}
  /\ \/ NoFault /\ proposals' = proposals \cup {Proposal(c)} /\ To(c, "record")
     \/ Fault /\ End(c) /\ UNCHANGED proposals
  /\ UNCHANGED unread /\ Route

(* The service refuses a nonce the Safe has used.  A failed POST may have  *)
(* stored the proposal.                                                    *)
Post(c) ==
  /\ submit[c].at = "post"
  /\ \/ /\ submit[c].nonce >= safeNonce /\ NoFault
        /\ proposals' = proposals \cup {Proposal(c)}
        /\ To(c, "record")
     \/ submit[c].nonce < safeNonce /\ NoFault /\ End(c) /\ UNCHANGED proposals
     \/ /\ Fault /\ End(c)
        /\ proposals' \in {proposals, proposals \cup {Proposal(c)}}
  /\ UNCHANGED <<records, unread>> /\ Route

Record(c) ==
  /\ submit[c].at = "record" /\ End(c)
  /\ \/ NoFault /\ records' = records \cup {[by |-> c, safeTx |-> Proposal(c)]}
     \/ Fault /\ UNCHANGED records
  /\ UNCHANGED <<proposals, unread>> /\ Route

-----------------------------------------------------------------------------
(* GET /:simulationId/safe-proposal *)

Fetch(c) ==
  /\ submit[c].at = "idle"
  /\ \E s \in Sims :
       /\ Submittable(s)
       /\ submit' = [submit EXCEPT ![c] = [at |-> "fetch", sim |-> s, nonce |-> 0, began |-> head]]
  /\ NoFault /\ UNCHANGED <<proposals, records, unread>> /\ Route

(* The payload is handed out in any case and isStale is advice, which the  *)
(* callers here follow; an unread block number advises to go on.           *)
HandOut(c) ==
  /\ submit[c].at = "fetch"
  /\ \/ ~Stale(submit[c].sim) /\ To(c, "held") /\ NoFault /\ UNCHANGED unread
     \/ Stale(submit[c].sim) /\ End(c) /\ NoFault /\ UNCHANGED unread
     \/ Fault /\ To(c, "held") /\ unread' = unread \cup {c}
  /\ UNCHANGED <<proposals, records>> /\ Route

(* The caller puts in the Safe's nonce, signs and posts; nobody records it. *)
CallerPosts(c) ==
  /\ submit[c].at = "held" /\ End(c)
  /\ LET p == [sim |-> submit[c].sim, nonce |-> safeNonce]
     IN  proposals' = proposals \cup {p} /\ manual' = manual \cup {p}
  /\ NoFault /\ UNCHANGED <<simulator, stored, safeNonce, executed, records, unread>>

-----------------------------------------------------------------------------
(* The owners run a proposal that carries the Safe's nonce. *)
SafeRuns ==
  /\ safeNonce < MaxNonce
  /\ \E p \in proposals \ executed : p.nonce = safeNonce /\ executed' = executed \cup {p}
  /\ safeNonce' = safeNonce + 1
  /\ NoFault /\ UNCHANGED <<simulator, stored, submit, proposals, records, unread, manual>>

Next ==
  \/ \E s \in Sims : Simulate(s) \/ Persist(s)
  \/ BlockMined \/ SafeRuns
  \/ \E c \in Submits :
       \/ StartSubmit(c) \/ CheckBlock(c) \/ ReadSafe(c) \/ ReadNonce(c) \/ Post(c) \/ Record(c)
       \/ Fetch(c) \/ HandOut(c) \/ CallerPosts(c)

Spec == Init /\ [][Next]_vars

-----------------------------------------------------------------------------
TypeOK ==
  /\ head \in 0 .. MaxBlock /\ faults \in 0 .. MaxFaults /\ safeNonce \in 0 .. MaxNonce
  /\ \A n \in DOMAIN node : node[n].up =>
       /\ \A a \in Accounts, t \in Tokens : node[n].bal[a][t] \in Nat
       /\ \A a \in Accounts, w \in Spenders : node[n].allow[a][w] \in Nat
  /\ \A s \in Sims : sim[s].leg = "setup" => FirstLeg(Req(s).playbook) = "setup"
  /\ stored \subseteq {s \in Sims : artifact[s].status # "none"}

(* A passed artifact is evidence: the call it shows took effect on its     *)
(* fork.  On a shared node this is promised only when no other simulation  *)
(* ran meanwhile, since receipts are not read and aTokens and shares are   *)
(* compared with zero, not with what was there before.                     *)
PassedMoved ==
  \A s \in Sims : artifact[s].status = "passed" /\ s \in alone => s \in moved

(* The other half: when nothing fails, the protocol takes the call and no  *)
(* other simulation interferes, a playbook within policy passes, but for   *)
(* a swap or a deposit of another account, which must hold the tokens      *)
(* itself, and a withdrawal whose set-up comes out above the funding.      *)
HealthyProves ==
  \A s \in Sims :
    LET r == artifact[s].req
    IN artifact[s].status = "failed" /\ artifact[s].why = "fork" /\ s \in healthy \cap alone
         => (r.to # "wallet" /\ r.playbook \in {"swap", "deposit"}) \/ Short(r)

(* No Anvil outlives its simulation, however it ends, but one whose        *)
(* start-up failed after the process was spawned: then startFork has no    *)
(* handle to give back.                                                    *)
ForksOwned ==
  \A s \in Sims : node[s].up => s \in Running \/ sim[s].at = "unstarted"

(* What leaves liquidity through a stored, passed supply or swap leaves    *)
(* the reserve and stays within the single-action limit, although the      *)
(* first policy check knows no amount.  The code's floor excepts deposits. *)
ReserveKept ==
  \A s \in stored :
    LET r == artifact[s].req
        spent == IF r.playbook = "swap" THEN Loss ELSE Amount
    IN artifact[s].status = "passed" =>
         /\ Action(r.playbook) \in {"supply", "swap"} /\ r.liquid # Unknown
              => r.liquid - spent >= r.policy.floor
         /\ r.policy.maxSingle \notin {Unknown, 0} => Amount <= r.policy.maxSingle

(* The Safe is only ever asked for calldata that moved funds on a fork.    *)
ProposedWasProven ==
  \A p \in proposals : p.sim \in stored /\ (p.sim \in alone => p.sim \in moved)

(* Records and the service agree: a record names a proposal the service    *)
(* has, and without a failure every proposal of the backend has its record *)
(* or its submit call is about to write it.                                *)
RecordsMatch ==
  /\ \A r \in records : r.safeTx \in proposals
  /\ faults = 0 => \A p \in proposals \ manual :
       \/ \E r \in records : r.safeTx = p
       \/ \E c \in Submits : submit[c].at = "record" /\ Proposal(c) = p

(* A proposal, or a payload called fresh, rests on a simulation that was   *)
(* valid when its call began, or whose block number could not be read.     *)
FreshUnlessUnread ==
  \A c \in Submits : submit[c].at \in {"safe", "nonce", "post", "record", "held"} =>
    c \in unread \/ submit[c].began <= artifact[submit[c].sim].until

(* A call proposed twice is proposed with the nonce of then: while the     *)
(* Safe runs nothing, repeated submits of a simulation are one proposal.   *)
ResubmitIsIdempotent ==
  \A p, q \in proposals : p.sim = q.sim /\ p.nonce < q.nonce => safeNonce > p.nonce

(* A passed artifact is evidence, and where nothing interferes evidence is *)
(* found.                                                                  *)
ArtifactsSound == PassedMoved /\ HealthyProves

(* What the Safe is asked for was proven, not long ago, and once.          *)
ProposalsSound ==
  /\ ProposedWasProven
  /\ FreshUnlessUnread
  /\ ResubmitIsIdempotent

(* No fork, and no proposal without its record, is left behind.            *)
NothingLeftBehind ==
  /\ TypeOK
  /\ ForksOwned
  /\ RecordsMatch
=============================================================================
