----------------------- MODULE MandateLifecycleProofs -----------------------
(***************************************************************************)
(* What the owner saw is what is signed and activated, as a whole and      *)
(* once; what the agent decides it decides under such a mandate, and what  *)
(* the mandate permits: for any amounts, numbers of mandates, requests,    *)
(* decisions and faults.                                                   *)
(***************************************************************************)
EXTENDS MandateLifecycle, FiniteSetTheorems, TLAPS

-----------------------------------------------------------------------------
(* The terms *)

(* The dialog's body passes the route's validation and what is stored of   *)
(* it is the message the owner signs.                                      *)
LEMMA DialogIsAccepted == DialogAccepted
<1> SUFFICES ASSUME NEW p \in DialogParams
             PROVE  LET b == DialogBody(p)
                    IN  /\ Valid(b) <=> p.protocols \ {"uniswap-v3"} # {}
                        /\ Valid(b) => Signable(Version(b)) /\ Message(Version(b)) = DialogMessage(p)
  BY DEF DialogAccepted
<1> DEFINE b == DialogBody(p)
<1>1. /\ p.floor \in Nat \ {0} /\ p.maxSingle \in Nat \ {0} /\ p.risk \in {10, 250}
      /\ p.allocation \in {100, 800} /\ p.protocols \subseteq Protocols
  <2>1. /\ p.floor \in Usd \ {0} /\ p.maxSingle \in Usd \ {0} /\ p.risk \in {10, 250}
        /\ p.allocation \in {100, 800} /\ p.protocols \in SUBSET Protocols
    BY DEF DialogParams
  <2>2. p.floor \in Nat \ {0} /\ p.maxSingle \in Nat \ {0}
    <3>1. \A x \in Usd \ {0} : x \in Nat \ {0}
      BY TermsAssumption
    <3> QED
      BY <2>1, <3>1
  <2> QED
    BY <2>1, <2>2
<1>2. /\ b.floor = p.floor /\ b.spendable = Unknown /\ b.risk = p.risk /\ b.allocation = p.allocation
      /\ b.maxSingle = p.maxSingle /\ b.slippage = 300 /\ b.assets = {"USDC"}
      /\ b.protocols = p.protocols /\ b.actions = {"supply", "withdraw"}
  BY DEF DialogBody
<1>3. Valid(b) <=> p.protocols \ {"uniswap-v3"} # {}
  BY <1>1, <1>2 DEF Valid, Or, Unknown, Protocols, Actions, Assets
<1>4. Signable(Version(b)) /\ Message(Version(b)) = DialogMessage(p)
  BY <1>1, <1>2 DEF Version, Or, Unknown, Signable, Message, DialogMessage, DialogBody
<1> QED
  BY <1>3, <1>4

(* What is supplied is not more than what is idle, or than a single action *)
(* may be.                                                                 *)
LEMMA SupplyIsCapped ==
  ASSUME NEW v, NEW liquid \in Nat, NEW supplied \in {0, 1}, v.floor \in Nat,
         v.maxSingle \in Nat \cup {Unknown}
  PROVE  \A d \in Decided(v, liquid, supplied) :
           \/ /\ d.playbook = "supplyUSDC" /\ d.amount \in Int
              /\ d.amount <= liquid - v.floor
              /\ v.maxSingle # Unknown => d.amount <= v.maxSingle
              /\ liquid - v.floor > Threshold
           \/ /\ d.playbook = "withdrawUSDC" /\ d.amount = v.floor - liquid
              /\ liquid < v.floor
<1> DEFINE idle   == liquid - v.floor
           share  == (4 * idle) \div 5
           amount == IF v.maxSingle # Unknown /\ v.maxSingle < share THEN v.maxSingle ELSE share
           supply == [playbook |-> "supplyUSDC", amount |-> amount]
           draw   == [playbook |-> "withdrawUSDC", amount |-> v.floor - liquid]
<1>1. Decided(v, liquid, supplied)
        = {d \in {supply} : idle > Threshold} \cup {d \in {draw} : liquid < v.floor /\ supplied > 0}
  BY DEF Decided
<1>2. ASSUME idle > Threshold
      PROVE  amount \in Int /\ amount <= idle /\ (v.maxSingle # Unknown => amount <= v.maxSingle)
  <2>1. idle \in Nat /\ share \in Nat /\ share <= idle
    BY <1>2, TermsAssumption
  <2> QED
    BY <2>1 DEF Unknown
<1>3. supply.playbook = "supplyUSDC" /\ supply.amount = amount
      /\ draw.playbook = "withdrawUSDC" /\ draw.amount = v.floor - liquid
  OBVIOUS
<1> HIDE DEF supply, draw, amount
<1> QED
  BY <1>1, <1>2, <1>3

(* A scan decides one thing at most, and something the mandate permits if  *)
(* it permits Aave and the asset at all.                                   *)
LEMMA DecisionsArePermitted == DecisionsPermitted
<1> SUFFICES ASSUME NEW b \in Bodies, Valid(b), NEW liquid \in Usd, NEW supplied \in {0, 1}
             PROVE  LET v == Version(b)  decided == Decided(v, liquid, supplied)
                    IN  /\ Cardinality(decided) <= 1
                        /\ \A d \in decided :
                             Refuses(PolicyOf(v), d.playbook, d.amount, 0, liquid) =>
                               \/ "aave-v3" \notin v.protocols \/ "USDC" \notin v.assets
                               \/ Action(d.playbook) \notin v.actions
                               \/ d.playbook = "withdrawUSDC" /\ v.maxSingle # Unknown
                                  /\ d.amount > v.maxSingle
  BY DEF DecisionsPermitted
<1> DEFINE v       == Version(b)
           decided == Decided(v, liquid, supplied)
           m       == PolicyOf(v)
<1>1. b.floor \in Nat /\ b.maxSingle \in Nat \cup {Unknown} /\ liquid \in Nat
  <2>1. b.floor \in Usd /\ b.maxSingle \in Usd \cup {Unknown}
    BY DEF Bodies
  <2>2. \A x \in Usd : x \in Nat
    BY TermsAssumption
  <2> QED
    BY <2>1, <2>2
<1>2. v.floor = b.floor /\ v.maxSingle = b.maxSingle
  BY DEF Version, Bodies
<1>3. /\ m.protocols = v.protocols /\ m.actions = v.actions /\ m.blocked = BLOCKED_ACTIONS
      /\ m.assets = v.assets /\ m.maxSingle = v.maxSingle /\ m.floor = v.floor
  BY DEF PolicyOf
<1>4. v.floor \in Nat /\ v.maxSingle \in Nat \cup {Unknown}
  BY <1>1, <1>2
<1>5. \A d \in decided :
        \/ /\ d.playbook = "supplyUSDC" /\ d.amount \in Int /\ d.amount <= liquid - v.floor
           /\ v.maxSingle # Unknown => d.amount <= v.maxSingle
           /\ liquid - v.floor > Threshold
        \/ /\ d.playbook = "withdrawUSDC" /\ d.amount = v.floor - liquid /\ liquid < v.floor
  <2> HIDE DEF v
  <2> QED
    BY <1>1, <1>4, SupplyIsCapped
<1>6. Cardinality(decided) <= 1
  <2>1. PICK x : decided \subseteq {x}
    <3> DEFINE draw == [playbook |-> "withdrawUSDC", amount |-> v.floor - liquid]
    <3>1. PICK supply : decided = {d \in {supply} : liquid - v.floor > Threshold}
                                  \cup {d \in {draw} : liquid < v.floor /\ supplied > 0}
      BY DEF Decided
    <3>2. ~(liquid - v.floor > Threshold /\ liquid < v.floor)
      BY <1>1, <1>4, TermsAssumption
    <3> HIDE DEF draw, v, decided
    <3> QED
      BY <3>1, <3>2
  <2>2. Cardinality({x}) = 1 /\ IsFiniteSet({x})
    BY FS_Singleton
  <2>3. Cardinality(decided) <= Cardinality({x})
    BY <2>1, <2>2, FS_Subset
  <2> QED
    BY <2>2, <2>3
<1>7. ASSUME NEW d \in decided, Refuses(m, d.playbook, d.amount, 0, liquid),
             "aave-v3" \in v.protocols, "USDC" \in v.assets, Action(d.playbook) \in v.actions
      PROVE  d.playbook = "withdrawUSDC" /\ v.maxSingle # Unknown /\ d.amount > v.maxSingle
  <2> HIDE DEF v, m, decided
  <2>1. CASE d.playbook = "supplyUSDC"
    <3>1. /\ Protocol(d.playbook) = "aave-v3" /\ Action(d.playbook) = "supply"
          /\ Asset(d.playbook) = "USDC" /\ "supply" \notin BLOCKED_ACTIONS
      BY <2>1 DEF Protocol, Action, Asset, BLOCKED_ACTIONS
    <3>2. d.amount \in Int /\ d.amount <= liquid - v.floor
          /\ (v.maxSingle # Unknown => d.amount <= v.maxSingle)
      BY <1>5, <2>1
    <3>3. liquid # Unknown
      BY <1>1 DEF Unknown
    <3> QED
      BY <1>1, <1>3, <1>4, <1>7, <3>1, <3>2, <3>3 DEF Refuses
  <2>2. CASE d.playbook = "withdrawUSDC"
    <3>1. /\ Protocol(d.playbook) = "aave-v3" /\ Action(d.playbook) = "withdraw"
          /\ Asset(d.playbook) = "USDC" /\ "withdraw" \notin BLOCKED_ACTIONS
      BY <2>2 DEF Protocol, Action, Asset, BLOCKED_ACTIONS
    <3>2. liquid # Unknown
      BY <1>1 DEF Unknown
    <3> QED
      BY <1>1, <1>3, <1>4, <1>7, <2>2, <3>1, <3>2 DEF Refuses
  <2> QED
    BY <1>5, <2>1, <2>2
<1> QED
  BY <1>6, <1>7

-----------------------------------------------------------------------------
(* The setup: dialog, requests, mandates *)

States   == {"none", "draft", "active"}
Parts    == {"mandate", "version"}
Serving  == [mandate : Mandates \cup {0}, todo : SUBSET Parts, modal : BOOLEAN, failed : BOOLEAN]
Steps    == [step : {"review", "sign", "activate", "activating", "done"},
             mandate : Mandates \cup {0}]
Statuses == {"none", "proposed", "ready", "blocked", "executed"}

SetupTypes ==
  /\ status \in [Mandates -> States] /\ version \in [Mandates -> States]
  /\ newest \in Active \cup {0} /\ (newest = 0 <=> Active = {})
  /\ modal \in Steps /\ request \in [Requests -> Serving]
  /\ signed \subseteq Mandates /\ torn \subseteq Mandates /\ faults \in 0 .. MaxFaults

(* A request in service is for a signed mandate; unless a write failed,    *)
(* what it no longer has to do is done.                                    *)
Served(r) ==
  /\ r.mandate \in signed
  /\ status[r.mandate] \in {"draft", "active"} /\ version[r.mandate] \in {"draft", "active"}
  /\ r.modal => modal.step = "activating" /\ modal.mandate = r.mandate
  /\ "mandate" \notin r.todo => r.failed \/ status[r.mandate] = "active"
  /\ "version" \notin r.todo => r.failed \/ version[r.mandate] = "active"
  /\ r.failed => r.mandate \in torn

RequestOK(q) == IF request[q].mandate = 0 THEN request[q] = IdleRequest ELSE Served(request[q])

OneModal == \A q, r \in Requests : request[q].modal /\ request[r].modal => q = r

(* The dialog signs and activates a draft that no request is for.          *)
DialogOK ==
  /\ modal.step # "review" => modal.mandate \in Mandates
  /\ modal.step \in {"sign", "activate"} =>
       /\ status[modal.mandate] = "draft" /\ version[modal.mandate] = "draft"
       /\ \A q \in Requests : request[q].mandate # modal.mandate
  /\ modal.step \in {"activate", "activating"} => modal.mandate \in signed
  /\ modal.step = "done" => modal.mandate \in Active

(* Every mandate that is active or being activated was paid for with a     *)
(* fault, except the one in the dialog.                                    *)
Begun == {m \in Mandates : status[m] = "active" \/ \E q \in Requests : request[q].mandate = m}

DialogFailed == \E q \in Requests : request[q].modal /\ request[q].failed

Allowance == IF modal.step \in {"activating", "done"} /\ ~DialogFailed THEN 1 ELSE 0

Budget == Cardinality(Begun) <= faults + Allowance

SetupInv ==
  /\ SetupTypes
  /\ Active \subseteq signed
  /\ \A q \in Requests : RequestOK(q)
  /\ OneModal
  /\ DialogOK
  /\ Budget
  /\ ActivationWhole

-----------------------------------------------------------------------------
(* The scans *)

ScanTypes ==
  /\ decision \in [Decisions -> [mandate : Mandates \cup {0}, status : Statuses]]
  /\ fresh \cup queued \subseteq {d \in Decisions : decision[d].status # "none"}
  /\ scan \in [Callers -> [at : {"idle", "boot", "check", "decide", "enqueue"},
                           mandate : Mandates \cup {0}, decision : Decisions \cup {0}]]
  /\ raced \subseteq Mandates

(* A scan that got beyond its start has an active mandate.                 *)
ScanOK(s) ==
  /\ scan[s].at \in {"check", "decide", "enqueue"} => scan[s].mandate \in Active
  /\ scan[s].at = "enqueue" =>
       scan[s].decision \in Decisions /\ decision[scan[s].decision].status # "none"

DecisionOK(d) == decision[d].status # "none" => decision[d].mandate \in Active

Proposed(m) == {d \in fresh : decision[d] = [mandate |-> m, status |-> "proposed"]}

Allowed(m) == IF m \in raced THEN 2 ELSE 1

(* What is queued and what is about to be, together.                       *)
QueueOK(m) == Cardinality(Proposed(m)) + Cardinality(Deciding(m)) <= Allowed(m)

ScanInv ==
  /\ ScanTypes
  /\ \A s \in Callers : ScanOK(s)
  /\ \A d \in Decisions : DecisionOK(d)
  /\ \A m \in Mandates : QueueOK(m)

-----------------------------------------------------------------------------
(* Counting *)

LEMMA Fewer ==
  ASSUME NEW S, IsFiniteSet(S), NEW T, T \subseteq S
  PROVE  /\ IsFiniteSet(T) /\ Cardinality(T) \in Nat /\ Cardinality(S) \in Nat
         /\ Cardinality(T) <= Cardinality(S)
BY FS_Subset, FS_CardinalityType

LEMMA OneMore ==
  ASSUME NEW S, IsFiniteSet(S), NEW x, NEW T, T \subseteq S \cup {x}
  PROVE  Cardinality(T) <= Cardinality(S) + 1
<1>1. /\ IsFiniteSet(S \cup {x}) /\ Cardinality(S) \in Nat
      /\ Cardinality(S \cup {x}) = IF x \in S THEN Cardinality(S) ELSE Cardinality(S) + 1
  BY FS_AddElement, FS_CardinalityType
<1>2. Cardinality(T) <= Cardinality(S \cup {x}) /\ Cardinality(T) \in Nat
  BY <1>1, Fewer
<1> QED
  BY <1>1, <1>2

LEMMA Bounded ==
  /\ IsFiniteSet(Mandates) /\ IsFiniteSet(Decisions) /\ IsFiniteSet(Callers)
  /\ Cardinality(Callers) = 2
<1>1. IsFiniteSet(Mandates) /\ IsFiniteSet(Decisions)
  BY ConstantsAssumption, FS_Interval DEF Mandates, Decisions
<1>2. IsFiniteSet({"worker"}) /\ Cardinality({"worker"}) = 1
  BY FS_Singleton
<1>3. Callers = {"worker"} \cup {"startup"} /\ "startup" \notin {"worker"}
  BY DEF Callers
<1>4. IsFiniteSet({"worker"} \cup {"startup"}) /\ Cardinality({"worker"} \cup {"startup"}) = 2
  BY <1>2, <1>3, FS_AddElement
<1> QED
  BY <1>1, <1>3, <1>4

LEMMA FaultsCounted ==
  ASSUME faults \in 0 .. MaxFaults, Fault \/ NoFault
  PROVE  /\ faults' \in 0 .. MaxFaults /\ faults' >= faults
         /\ Fault => faults' = faults + 1
         /\ NoFault => faults' = faults
BY ConstantsAssumption DEF Fault, NoFault

-----------------------------------------------------------------------------
LEMMA SetupInit == Init => SetupInv
<1> SUFFICES ASSUME Init PROVE SetupInv
  OBVIOUS
<1> USE DEF Init
<1>1. Active = {} /\ \A m \in Mandates : m # 0
  BY DEF Active, Mandates
<1>2. SetupTypes
  <2>1. request \in [Requests -> Serving]
    BY DEF IdleRequest, Serving
  <2> QED
    BY <1>1, <2>1, ConstantsAssumption DEF SetupTypes, States, Steps
<1>3. \A q \in Requests : RequestOK(q) /\ request[q].modal = FALSE /\ request[q].mandate = 0
  BY DEF RequestOK, IdleRequest
<1>4. OneModal /\ DialogOK /\ ActivationWhole
  BY <1>1, <1>3 DEF OneModal, DialogOK, ActivationWhole
<1>5. Budget
  <2>1. Begun = {}
    BY <1>1, <1>3 DEF Begun
  <2>2. Allowance = 0
    BY DEF Allowance
  <2> QED
    BY <2>1, <2>2, FS_EmptySet DEF Budget
<1> QED
  BY <1>1, <1>2, <1>3, <1>4, <1>5 DEF SetupInv

(* A step elsewhere leaves the setup alone, but for the faults it may cost. *)
LEMMA SetupFrame ==
  ASSUME SetupInv, UNCHANGED <<status, version, newest, modal, request, signed, torn>>,
         faults' \in 0 .. MaxFaults, faults' >= faults
  PROVE  SetupInv'
<1>1. SetupTypes /\ Budget /\ (\A q \in Requests : RequestOK(q)) /\ OneModal /\ DialogOK
      /\ Active \subseteq signed /\ ActivationWhole
  BY DEF SetupInv
<1>2. faults \in Nat
  BY <1>1, ConstantsAssumption DEF SetupTypes
<1>3. Active' = Active /\ Begun' = Begun /\ Allowance' = Allowance
  BY DEF Active, Begun, Allowance, DialogFailed
<1>4. SetupTypes'
  BY <1>1, <1>3 DEF SetupTypes
<1>5. \A q \in Requests : RequestOK(q)'
  BY <1>1, <1>2 DEF RequestOK, Served
<1>6. OneModal' /\ DialogOK' /\ ActivationWhole'
  BY <1>1, <1>2, <1>3 DEF OneModal, DialogOK, ActivationWhole
<1>7. Budget'
  <2>1. Cardinality(Begun) \in Nat
    BY Bounded, Fewer DEF Begun
  <2> QED
    BY <1>1, <1>2, <1>3, <2>1, ConstantsAssumption DEF Budget, Allowance
<1> QED
  BY <1>1, <1>3, <1>4, <1>5, <1>6, <1>7 DEF SetupInv

LEMMA RequestKept ==
  ASSUME NEW q \in Requests, RequestOK(q), request'[q] = request[q], signed \subseteq signed',
         NEW m, m = request[q].mandate,
         m # 0 => status'[m] = status[m] /\ version'[m] = version[m],
         request[q].modal /\ m # 0 => modal' = modal, torn \subseteq torn'
  PROVE  RequestOK(q)'
BY DEF RequestOK, Served

LEMMA CreateKeepsSetup ==
  ASSUME SetupInv, NEW m \in Mandates, CreateDraft(m)
  PROVE  SetupInv'
<1>1. SetupTypes /\ Budget /\ (\A q \in Requests : RequestOK(q)) /\ OneModal /\ DialogOK
      /\ Active \subseteq signed /\ ActivationWhole
  BY DEF SetupInv
<1>0. /\ UNCHANGED <<newest, request, signed, torn>> /\ modal.step = "review"
      /\ \/ StoreDraft(m) /\ ( \/ modal' = [step |-> "sign", mandate |-> m] /\ NoFault
                               \/ Fault /\ UNCHANGED modal )
         \/ UNCHANGED <<status, version, modal, faults>>
  BY DEF CreateDraft
<1> SUFFICES ASSUME StoreDraft(m), \/ modal' = [step |-> "sign", mandate |-> m] /\ NoFault
                                   \/ Fault /\ UNCHANGED modal
             PROVE  SetupInv'
  <2>1. CASE UNCHANGED <<status, version, modal, faults>>
    <3>1. faults' \in 0 .. MaxFaults /\ faults' >= faults
      BY <1>1, <2>1, ConstantsAssumption DEF SetupTypes
    <3> QED
      BY <1>0, <2>1, <3>1, SetupFrame
  <2> QED
    BY <1>0, <2>1
<1>2. /\ UNCHANGED <<newest, request, signed, torn>> /\ (Fault \/ NoFault)
      /\ status[m] = "none" /\ status' = [status EXCEPT ![m] = "draft"]
      /\ version' = [version EXCEPT ![m] = "draft"]
      /\ modal.step = "review" /\ (modal' = [step |-> "sign", mandate |-> m] \/ modal' = modal)
  BY <1>0 DEF StoreDraft
<1>3. /\ status' \in [Mandates -> States] /\ version' \in [Mandates -> States]
      /\ status'[m] = "draft" /\ version'[m] = "draft"
      /\ \A n \in Mandates : n # m => status'[n] = status[n] /\ version'[n] = version[n]
  BY <1>1, <1>2 DEF SetupTypes, States
<1>4. faults' \in 0 .. MaxFaults /\ faults' >= faults /\ faults \in Nat /\ faults' \in Nat
  BY <1>1, <1>2, ConstantsAssumption, FaultsCounted DEF SetupTypes
<1>5. Active' = Active
  BY <1>2, <1>3 DEF Active
<1>6. modal' \in Steps /\ modal'.step \in {"sign", "review"}
      /\ (modal'.step = "sign" => modal'.mandate = m)
  BY <1>1, <1>2 DEF SetupTypes, Steps
<1>7. \A q \in Requests : request[q].mandate # m /\ (request[q].mandate # 0 => ~request[q].modal)
  <2>1. m # 0
    BY DEF Mandates
  <2> QED
    BY <1>1, <1>2, <2>1 DEF RequestOK, Served
<1>8. SetupTypes'
  BY <1>1, <1>2, <1>3, <1>4, <1>5, <1>6 DEF SetupTypes
<1>9. ASSUME NEW q \in Requests PROVE RequestOK(q)'
  <2>1. request[q].mandate \in Mandates \cup {0} /\ RequestOK(q)
    BY <1>1 DEF SetupTypes, Serving
  <2>2. torn \subseteq torn' /\ request'[q] = request[q] /\ signed \subseteq signed'
    BY <1>2
  <2>3. PICK n : n = request[q].mandate
    OBVIOUS
  <2>4. n # 0 => status'[n] = status[n] /\ version'[n] = version[n]
    BY <1>3, <1>7, <2>1, <2>3
  <2>5. request[q].modal /\ n # 0 => modal' = modal
    BY <1>7, <2>3
  <2> QED
    BY <2>1, <2>2, <2>3, <2>4, <2>5, RequestKept
<1>10. OneModal' /\ DialogOK' /\ ActivationWhole'
  BY <1>1, <1>2, <1>3, <1>4, <1>6, <1>7 DEF OneModal, DialogOK, ActivationWhole
<1>11. Budget'
  <2>1. Begun' = Begun
    BY <1>2, <1>3, <1>7 DEF Begun
  <2>2. Allowance = 0 /\ Allowance' = 0
    BY <1>2, <1>6 DEF Allowance
  <2>3. Cardinality(Begun) \in Nat
    BY Bounded, Fewer DEF Begun
  <2> QED
    BY <1>1, <1>4, <2>1, <2>2, <2>3 DEF Budget
<1> QED
  BY <1>1, <1>2, <1>5, <1>8, <1>9, <1>10, <1>11 DEF SetupInv

(* The dialog alone moves: a signature, or a refusal.                      *)
LEMMA DialogKeepsSetup ==
  ASSUME SetupInv, Sign \/ RefuseActivation
  PROVE  SetupInv'
<1>1. SetupTypes /\ Budget /\ (\A q \in Requests : RequestOK(q)) /\ OneModal /\ DialogOK
      /\ Active \subseteq signed /\ ActivationWhole
  BY DEF SetupInv
<1>2. /\ UNCHANGED <<status, version, newest, request, torn>> /\ (Fault \/ NoFault)
      /\ modal.step \in {"sign", "activate"}
      /\ \/ modal' = [modal EXCEPT !.step = "activate"] /\ signed' = signed \cup {modal.mandate}
         \/ modal' = [modal EXCEPT !.step = "review"] /\ UNCHANGED signed
  BY DEF Sign, RefuseActivation, database, NoFault
<1>3. faults' \in 0 .. MaxFaults /\ faults' >= faults /\ faults \in Nat /\ faults' \in Nat
  BY <1>1, <1>2, ConstantsAssumption, FaultsCounted DEF SetupTypes
<1>4. Active' = Active /\ Begun' = Begun
  BY <1>2 DEF Active, Begun
<1>5. modal \in Steps /\ modal.mandate \in Mandates
  BY <1>1, <1>2 DEF SetupTypes, DialogOK
<1>6. modal' \in Steps /\ modal'.mandate = modal.mandate /\ modal'.step \in {"activate", "review"}
      /\ (modal'.step = "activate" => modal.mandate \in signed')
      /\ signed \subseteq signed' /\ signed' \subseteq Mandates
  BY <1>1, <1>2, <1>5 DEF SetupTypes, Steps
<1>7. SetupTypes'
  BY <1>1, <1>2, <1>3, <1>4, <1>6 DEF SetupTypes
<1>8. \A q \in Requests : RequestOK(q)'
  BY <1>1, <1>2, <1>3, <1>6 DEF RequestOK, Served
<1>9. OneModal' /\ DialogOK' /\ ActivationWhole'
  BY <1>1, <1>2, <1>3, <1>5, <1>6 DEF OneModal, DialogOK, ActivationWhole
<1>10. Budget'
  <2>1. Allowance = 0 /\ Allowance' = 0
    BY <1>2, <1>6 DEF Allowance
  <2>2. Cardinality(Begun) \in Nat
    BY Bounded, Fewer DEF Begun
  <2> QED
    BY <1>1, <1>3, <1>4, <2>1, <2>2 DEF Budget
<1> QED
  BY <1>1, <1>4, <1>6, <1>7, <1>8, <1>9, <1>10 DEF SetupInv

LEMMA StartKeepsSetup ==
  ASSUME SetupInv, NEW q \in Requests, StartActivation(q)
  PROVE  SetupInv'
<1>1. SetupTypes /\ Budget /\ (\A r \in Requests : RequestOK(r)) /\ OneModal /\ DialogOK
      /\ Active \subseteq signed /\ ActivationWhole
  BY DEF SetupInv
<1>2. PICK m : m = modal.mandate
  OBVIOUS
<1>3. /\ UNCHANGED <<status, version, newest, signed, torn, faults>>
      /\ modal.step = "activate" /\ request[q] = IdleRequest
      /\ request' = [request EXCEPT ![q] = [mandate |-> m, todo |-> {"mandate", "version"},
                                            modal |-> TRUE, failed |-> FALSE]]
      /\ modal' = [modal EXCEPT !.step = "activating"]
  BY <1>2 DEF StartActivation, database
<1>4. Active' = Active /\ faults \in Nat /\ m \in Mandates /\ m \in signed /\ m # 0
      /\ status[m] = "draft" /\ version[m] = "draft"
  BY <1>1, <1>2, <1>3, ConstantsAssumption DEF SetupTypes, DialogOK, Active, Mandates
<1>5. modal' \in Steps /\ modal'.mandate = m /\ modal'.step = "activating"
  BY <1>1, <1>2, <1>3 DEF SetupTypes, Steps
<1>6. /\ request' \in [Requests -> Serving]
      /\ request'[q].mandate = m /\ request'[q].todo = {"mandate", "version"}
      /\ request'[q].modal = TRUE /\ request'[q].failed = FALSE
      /\ \A r \in Requests : r # q => request'[r] = request[r]
  BY <1>1, <1>3, <1>4 DEF SetupTypes, Serving, Parts
<1>7. \A r \in Requests : request[r].modal = FALSE
  BY <1>1, <1>3 DEF RequestOK, Served, IdleRequest, SetupTypes, Serving
<1>8. SetupTypes'
  BY <1>1, <1>3, <1>4, <1>5, <1>6 DEF SetupTypes
<1>9. RequestOK(q)'
  BY <1>3, <1>4, <1>5, <1>6 DEF RequestOK, Served
<1>10. \A r \in Requests : r # q => RequestOK(r)'
  BY <1>1, <1>3, <1>6, <1>7 DEF RequestOK, Served
<1>11. OneModal' /\ DialogOK'
  BY <1>3, <1>4, <1>5, <1>6, <1>7 DEF OneModal, DialogOK
<1>12. ActivationWhole'
  <2>1. request[q].mandate = 0 /\ \A n \in Mandates : n # 0
    BY <1>3 DEF IdleRequest, Mandates
  <2> QED
    BY <1>1, <1>3, <1>6, <2>1 DEF ActivationWhole
<1>13. Budget'
  <2>1. Begun' \subseteq Begun \cup {m}
    BY <1>3, <1>6 DEF Begun
  <2>2. Allowance = 0 /\ Allowance' = 1
    BY <1>3, <1>5, <1>6, <1>7 DEF Allowance, DialogFailed
  <2>3. IsFiniteSet(Begun) /\ Cardinality(Begun) \in Nat
    BY Bounded, Fewer DEF Begun
  <2>4. IsFiniteSet(Begun') /\ Cardinality(Begun') \in Nat
    BY Bounded, Fewer DEF Begun
  <2>5. Cardinality(Begun') <= Cardinality(Begun) + 1
    BY <2>1, <2>3, OneMore
  <2> QED
    BY <1>1, <1>3, <1>4, <2>2, <2>3, <2>4, <2>5 DEF Budget
<1> QED
  BY <1>1, <1>3, <1>4, <1>8, <1>9, <1>10, <1>11, <1>12, <1>13 DEF SetupInv

LEMMA OtherKeepsSetup ==
  ASSUME SetupInv, NEW q \in Requests, NEW m \in Mandates, OtherActivation(q, m)
  PROVE  SetupInv'
<1>1. SetupTypes /\ Budget /\ (\A r \in Requests : RequestOK(r)) /\ OneModal /\ DialogOK
      /\ Active \subseteq signed /\ ActivationWhole
  BY DEF SetupInv
<1>2. /\ UNCHANGED <<status, version, newest, modal, signed, torn>> /\ Fault
      /\ request[q] = IdleRequest /\ Activatable(m)
      /\ request' = [request EXCEPT ![q] = [mandate |-> m, todo |-> {"mandate", "version"},
                                            modal |-> FALSE, failed |-> FALSE]]
  BY DEF OtherActivation, database
<1>3. faults' \in 0 .. MaxFaults /\ faults' = faults + 1 /\ faults \in Nat /\ faults' # 0
  BY <1>1, <1>2, ConstantsAssumption, FaultsCounted DEF SetupTypes
<1>4. m # 0 /\ status[m] = "draft" /\ version[m] = "draft" /\ m \in signed
  BY <1>2 DEF Mandates, Activatable
<1>5. PICK r \in Requests : request[r].modal /\ request[r].mandate = m
  BY <1>4 DEF OtherActivation
<1>6. modal.step = "activating" /\ modal.mandate = m /\ r # q
  BY <1>1, <1>2, <1>4, <1>5 DEF RequestOK, Served, IdleRequest
<1>7. /\ request' \in [Requests -> Serving]
      /\ request'[q].mandate = m /\ request'[q].todo = {"mandate", "version"}
      /\ request'[q].modal = FALSE /\ request'[q].failed = FALSE
      /\ \A k \in Requests : k # q => request'[k] = request[k]
  BY <1>1, <1>2 DEF SetupTypes, Serving, Parts
<1>8. request[q].modal = FALSE /\ request[q].mandate = 0
  BY <1>2 DEF IdleRequest
<1>9. Active' = Active
  BY <1>2 DEF Active
<1>10. SetupTypes'
  BY <1>1, <1>2, <1>3, <1>7, <1>9 DEF SetupTypes
<1>11. RequestOK(q)'
  BY <1>2, <1>3, <1>4, <1>7 DEF RequestOK, Served
<1>12. \A k \in Requests : k # q => RequestOK(k)'
  BY <1>1, <1>2, <1>3, <1>7 DEF RequestOK, Served
<1>13. OneModal' /\ ActivationWhole'
  <2>1. \A n \in Mandates : n # 0
    BY DEF Mandates
  <2> QED
    BY <1>1, <1>2, <1>7, <1>8, <2>1 DEF OneModal, ActivationWhole
<1>14. DialogOK'
  BY <1>1, <1>2, <1>6, <1>9 DEF DialogOK
<1>15. Budget'
  <2>1. Begun' = Begun
    <3>1. \A n \in Mandates : n # 0
      BY DEF Mandates
    <3>2. ASSUME NEW n \in Mandates
          PROVE  (\E k \in Requests : request'[k].mandate = n)
                   <=> \E k \in Requests : request[k].mandate = n
      BY <1>5, <1>6, <1>7, <1>8, <3>1
    <3> QED
      BY <1>2, <3>2 DEF Begun
  <2>2. Allowance' = Allowance
    BY <1>2, <1>7, <1>8 DEF Allowance, DialogFailed
  <2>3. Cardinality(Begun) \in Nat
    BY Bounded, Fewer DEF Begun
  <2> QED
    BY <1>1, <1>3, <2>1, <2>2, <2>3 DEF Budget, Allowance
<1> QED
  BY <1>1, <1>2, <1>9, <1>10, <1>11, <1>12, <1>13, <1>14, <1>15 DEF SetupInv

(* Each of the two updates of an activation.                               *)
LEMMA UpdateKeepsSetup ==
  ASSUME SetupInv, NEW q \in Requests, NEW part \in request[q].todo, UpdateActive(q, part)
  PROVE  SetupInv'
<1>1. SetupTypes /\ Budget /\ (\A r \in Requests : RequestOK(r)) /\ OneModal /\ DialogOK
      /\ Active \subseteq signed /\ ActivationWhole
  BY DEF SetupInv
<1>2. PICK m : m = request[q].mandate
  OBVIOUS
<1>3. /\ UNCHANGED <<modal, signed>>
      /\ part \in request[q].todo
      /\ \/ /\ \/ /\ part = "mandate" /\ status' = [status EXCEPT ![m] = "active"] /\ newest' = m
                  /\ UNCHANGED version
               \/ /\ part # "mandate" /\ version' = [version EXCEPT ![m] = "active"]
                  /\ UNCHANGED <<status, newest>>
            /\ request' = [request EXCEPT ![q].todo = @ \ {part}]
            /\ NoFault /\ UNCHANGED torn
         \/ /\ Fault
            /\ request' = [request EXCEPT ![q].todo = @ \ {part}, ![q].failed = TRUE]
            /\ torn' = torn \cup {m}
            /\ UNCHANGED <<status, version, newest>>
  BY <1>2 DEF UpdateActive
<1>4. request[q] \in Serving /\ request[q].todo # {} /\ m # 0 /\ m \in Mandates
      /\ part \in {"mandate", "version"}
  <2>1. request[q] \in Serving
    BY <1>1 DEF SetupTypes
  <2>2. m # 0
    BY <1>1, <1>2, <1>3 DEF RequestOK, IdleRequest
  <2> QED
    BY <1>2, <1>3, <2>1, <2>2 DEF Serving, Parts
<1>5. /\ m \in signed /\ status[m] \in {"draft", "active"} /\ version[m] \in {"draft", "active"}
      /\ request[q].modal => modal.step = "activating" /\ modal.mandate = m
      /\ "mandate" \notin request[q].todo => request[q].failed \/ status[m] = "active"
      /\ "version" \notin request[q].todo => request[q].failed \/ version[m] = "active"
      /\ request[q].failed => m \in torn
      /\ torn \subseteq torn' /\ torn' \subseteq torn \cup {m}
  BY <1>1, <1>2, <1>3, <1>4 DEF RequestOK, Served
<1>6. faults' \in 0 .. MaxFaults /\ faults \in Nat /\ (Fault => faults' = faults + 1)
      /\ (NoFault => faults' = faults) /\ faults' >= faults
  BY <1>1, <1>3, ConstantsAssumption, FaultsCounted DEF SetupTypes
<1>7. /\ request' \in [Requests -> Serving]
      /\ request'[q].mandate = m /\ request'[q].modal = request[q].modal
      /\ request'[q].todo = request[q].todo \ {part}
      /\ NoFault => request'[q].failed = request[q].failed
      /\ Fault => request'[q].failed = TRUE
      /\ \A k \in Requests : k # q => request'[k] = request[k]
  <2>0. request \in [Requests -> Serving] /\ request[q].todo \ {part} \subseteq Parts
    BY <1>1, <1>4 DEF SetupTypes, Serving
  <2>1. CASE NoFault /\ request' = [request EXCEPT ![q].todo = @ \ {part}]
    <3>4. ~Fault
      BY <1>6, <2>1
    <3>1. request'[q] = [request[q] EXCEPT !.todo = request[q].todo \ {part}]
          /\ \A k \in Requests : k # q => request'[k] = request[k]
      BY <2>0, <2>1
    <3>2. request'[q] \in Serving /\ request'[q].mandate = m /\ request'[q].modal = request[q].modal
          /\ request'[q].todo = request[q].todo \ {part} /\ request'[q].failed = request[q].failed
      BY <1>2, <1>4, <2>0, <3>1 DEF Serving
    <3>3. request' \in [Requests -> Serving]
      BY <2>0, <2>1, <3>1, <3>2
    <3> QED
      BY <3>1, <3>2, <3>3, <3>4
  <2>2. CASE Fault /\ request' = [request EXCEPT ![q].todo = @ \ {part}, ![q].failed = TRUE]
    <3>1. request'[q] = [request[q] EXCEPT !.todo = request[q].todo \ {part}, !.failed = TRUE]
          /\ \A k \in Requests : k # q => request'[k] = request[k]
      BY <2>0, <2>2
    <3>2. request'[q] \in Serving /\ request'[q].mandate = m /\ request'[q].modal = request[q].modal
          /\ request'[q].todo = request[q].todo \ {part} /\ request'[q].failed = TRUE
      BY <1>2, <1>4, <2>0, <3>1 DEF Serving
    <3>3. request' \in [Requests -> Serving]
      BY <2>0, <2>2, <3>1, <3>2
    <3>4. ~NoFault
      BY <1>6, <2>2
    <3> QED
      BY <2>2, <3>1, <3>2, <3>3, <3>4
  <2> QED
    BY <1>3, <2>1, <2>2
<1>8. /\ status' \in [Mandates -> States] /\ version' \in [Mandates -> States]
      /\ \A n \in Mandates : n # m => status'[n] = status[n] /\ version'[n] = version[n]
      /\ status'[m] \in {status[m], "active"} /\ version'[m] \in {version[m], "active"}
      /\ NoFault /\ part = "mandate" => status'[m] = "active"
      /\ NoFault /\ part = "version" => version'[m] = "active"
      /\ part = "mandate" => version'[m] = version[m]
      /\ part = "version" => status'[m] = status[m]
  <2>1. status \in [Mandates -> States] /\ version \in [Mandates -> States] /\ "active" \in States
    BY <1>1 DEF SetupTypes, States
  <2>2. ~(Fault /\ NoFault)
    BY <1>6
  <2> QED
    BY <1>3, <1>4, <2>1, <2>2
<1>9. /\ Active \subseteq Active' /\ Active' \subseteq Active \cup {m}
      /\ newest' \in Active' \cup {0} /\ (newest' = 0 <=> Active' = {})
  <2>1. Active \subseteq Active' /\ Active' \subseteq Active \cup {m}
    BY <1>8 DEF Active
  <2>2. CASE status' = [status EXCEPT ![m] = "active"] /\ newest' = m
    <3>1. m \in Active'
      BY <1>1, <1>4, <2>2 DEF Active, SetupTypes
    <3> QED
      BY <1>4, <2>1, <2>2, <3>1
  <2>3. CASE UNCHANGED <<status, newest>>
    BY <1>1, <2>3 DEF Active, SetupTypes
  <2> QED
    BY <1>3, <2>1, <2>2, <2>3
<1>10. SetupTypes'
  BY <1>1, <1>3, <1>4, <1>5, <1>6, <1>7, <1>8, <1>9 DEF SetupTypes
<1>11. RequestOK(q)'
  <2>1. /\ m \in signed' /\ status'[m] \in {"draft", "active"} /\ version'[m] \in {"draft", "active"}
        /\ request'[q].modal => modal'.step = "activating" /\ modal'.mandate = m
    BY <1>3, <1>5, <1>7, <1>8
  <2>2. Fault \/ NoFault
    BY <1>3
  <2>3. /\ "mandate" \notin request'[q].todo => request'[q].failed \/ status'[m] = "active"
        /\ "version" \notin request'[q].todo => request'[q].failed \/ version'[m] = "active"
    BY <1>3, <1>4, <1>5, <1>7, <1>8
  <2>4. request'[q].failed => m \in torn'
    BY <1>3, <1>5, <1>7
  <2> QED
    BY <1>4, <1>7, <2>1, <2>3, <2>4 DEF RequestOK, Served
<1>12. ASSUME NEW k \in Requests, k # q PROVE RequestOK(k)'
  <2>1. RequestOK(k) /\ request'[k] = request[k] /\ request[k] \in Serving
    BY <1>1, <1>7, <1>12 DEF SetupTypes
  <2>2. CASE request[k].mandate # m
    <3>1. request[k].mandate # 0 => status'[request[k].mandate] = status[request[k].mandate]
                                    /\ version'[request[k].mandate] = version[request[k].mandate]
      BY <1>8, <2>1, <2>2 DEF Serving
    <3> QED
      BY <1>3, <1>5, <2>1, <3>1 DEF RequestOK, Served
  <2>3. CASE request[k].mandate = m
    BY <1>3, <1>4, <1>5, <1>8, <2>1, <2>3 DEF RequestOK, Served
  <2> QED
    BY <2>2, <2>3
<1>13. OneModal'
  BY <1>1, <1>7 DEF OneModal
<1>14. DialogOK'
  <2>1. modal.step \in {"sign", "activate"} => modal.mandate # m
    BY <1>1, <1>2 DEF DialogOK
  <2>2. \A k \in Requests : request'[k].mandate = request[k].mandate
    BY <1>2, <1>7
  <2> QED
    BY <1>1, <1>3, <1>8, <1>9, <2>1, <2>2 DEF DialogOK
<1>15. ActivationWhole'
  <2>1. \A k \in Requests : request'[k].mandate = request[k].mandate
    BY <1>2, <1>7
  <2> QED
    BY <1>1, <1>2, <1>5, <1>8, <2>1 DEF ActivationWhole
<1>16. Budget'
  <2>1. Begun' = Begun
    <3>1. \A k \in Requests : request'[k].mandate = request[k].mandate
      BY <1>2, <1>7
    <3> QED
      BY <1>2, <1>4, <1>8, <3>1 DEF Begun
  <2>2. Allowance \in {0, 1} /\ Allowance' \in {0, 1}
    BY DEF Allowance
  <2>3. NoFault => Allowance' = Allowance
    <3>1. NoFault => \A k \in Requests : request'[k].failed = request[k].failed
                                         /\ request'[k].modal = request[k].modal
      BY <1>7
    <3> QED
      BY <1>3, <3>1 DEF Allowance, DialogFailed
  <2>4. Cardinality(Begun) \in Nat
    BY Bounded, Fewer DEF Begun
  <2>5. Allowance <= Allowance' + faults' - faults
    BY <1>3, <1>6, <2>2, <2>3
  <2> QED
    BY <1>1, <1>6, <2>1, <2>2, <2>4, <2>5 DEF Budget
<1> QED
  BY <1>1, <1>3, <1>5, <1>9, <1>10, <1>11, <1>12, <1>13, <1>14, <1>15, <1>16 DEF SetupInv

(* The answer ends a request; what it tells the dialog is true.            *)
LEMMA AnswerKeepsSetup ==
  ASSUME SetupInv, NEW q \in Requests, AnswerActivation(q)
  PROVE  SetupInv'
<1>1. SetupTypes /\ Budget /\ (\A r \in Requests : RequestOK(r)) /\ OneModal /\ DialogOK
      /\ Active \subseteq signed /\ ActivationWhole
  BY DEF SetupInv
<1>2. PICK m : m = request[q].mandate
  OBVIOUS
<1>3. /\ UNCHANGED <<status, version, newest, signed, torn>>
      /\ request[q] # IdleRequest /\ request[q].todo = {}
      /\ request' = [request EXCEPT ![q] = IdleRequest]
      /\ (Fault \/ NoFault)
      /\ \/ /\ NoFault
            /\ modal' = [modal EXCEPT !.step = IF ~request[q].modal THEN @
                                               ELSE IF request[q].failed THEN "review" ELSE "done"]
         \/ Fault /\ request[q].modal /\ modal' = [modal EXCEPT !.step = "review"]
  BY DEF AnswerActivation, database
<1>4. request[q] \in Serving /\ m # 0 /\ m \in Mandates /\ modal \in Steps
  <2>1. request[q] \in Serving /\ modal \in Steps
    BY <1>1 DEF SetupTypes
  <2>2. m # 0
    BY <1>1, <1>2, <1>3 DEF RequestOK
  <2> QED
    BY <1>2, <2>1, <2>2 DEF Serving
<1>5. /\ request[q].modal => modal.step = "activating" /\ modal.mandate = m
      /\ request[q].failed \/ (status[m] = "active" /\ version[m] = "active")
      /\ request[q].failed => m \in torn
  BY <1>1, <1>2, <1>3, <1>4 DEF RequestOK, Served
<1>6. faults' \in 0 .. MaxFaults /\ faults \in Nat /\ (Fault => faults' = faults + 1)
      /\ (NoFault => faults' = faults) /\ faults' >= faults
  BY <1>1, <1>3, ConstantsAssumption, FaultsCounted DEF SetupTypes
<1>7. /\ request' \in [Requests -> Serving]
      /\ request'[q] = IdleRequest /\ request'[q].mandate = 0
      /\ request'[q].modal = FALSE /\ request'[q].failed = FALSE
      /\ \A k \in Requests : k # q => request'[k] = request[k]
  <2>1. IdleRequest \in Serving /\ IdleRequest.mandate = 0 /\ IdleRequest.modal = FALSE
        /\ IdleRequest.failed = FALSE
    BY DEF IdleRequest, Serving
  <2> QED
    BY <1>1, <1>3, <2>1 DEF SetupTypes
<1>8. modal' \in Steps /\ modal'.mandate = modal.mandate
  BY <1>3, <1>4 DEF Steps
<1>9. /\ ~request[q].modal => modal' = modal /\ NoFault
      /\ request[q].modal => \/ modal'.step = "done" /\ ~request[q].failed /\ NoFault
                             \/ modal'.step = "review" /\ request[q].failed /\ NoFault
                             \/ modal'.step = "review" /\ Fault
  BY <1>3, <1>4 DEF Steps
<1>10. Active' = Active
  BY <1>3 DEF Active
<1>11. SetupTypes'
  BY <1>1, <1>3, <1>6, <1>7, <1>8, <1>10 DEF SetupTypes
<1>12. ASSUME NEW k \in Requests PROVE RequestOK(k)'
  <2>1. CASE k = q
    BY <1>7, <2>1 DEF RequestOK
  <2>2. CASE k # q
    <3>1. RequestOK(k) /\ request'[k] = request[k]
      BY <1>1, <1>7, <2>2
    <3>2. request[k].modal => modal' = modal
      BY <1>1, <1>9, <2>2 DEF OneModal
    <3> QED
      BY <1>3, <1>6, <3>1, <3>2 DEF RequestOK, Served
  <2> QED
    BY <2>1, <2>2
<1>13. OneModal'
  BY <1>1, <1>7 DEF OneModal
<1>14. DialogOK'
  <2>1. CASE ~request[q].modal
    <3>1. \A n \in Mandates : n # 0
      BY DEF Mandates
    <3> QED
      BY <1>1, <1>3, <1>7, <1>9, <1>10, <2>1, <3>1 DEF DialogOK
  <2>2. CASE request[q].modal
    <3>1. modal'.mandate = m /\ modal'.step \in {"done", "review"}
      BY <1>5, <1>8, <1>9, <2>2
    <3>2. modal'.step = "done" => m \in Active
      BY <1>4, <1>5, <1>9, <2>2 DEF Active
    <3> QED
      BY <1>4, <1>10, <3>1, <3>2 DEF DialogOK
  <2> QED
    BY <2>1, <2>2
<1>15. ActivationWhole'
  <2> SUFFICES ASSUME NEW n \in Mandates, n \notin torn', \A k \in Requests : request'[k].mandate # n
               PROVE  status'[n] = version'[n]
    BY DEF ActivationWhole
  <2>1. CASE n = m
    BY <1>3, <1>5, <1>6, <2>1
  <2>2. CASE n # m
    <3>1. \A k \in Requests : request[k].mandate # n
      BY <1>2, <1>7, <2>2
    <3> QED
      BY <1>1, <1>3, <1>6, <3>1 DEF ActivationWhole
  <2> QED
    BY <2>1, <2>2
<1>16. Budget'
  <2>1. Begun' \subseteq Begun
    <3>1. \A n \in Mandates : n # 0
      BY DEF Mandates
    <3> QED
      BY <1>3, <1>7, <3>1 DEF Begun
  <2>2. Cardinality(Begun) \in Nat /\ Cardinality(Begun') \in Nat
        /\ Cardinality(Begun') <= Cardinality(Begun)
    <3>1. IsFiniteSet(Begun)
      BY Bounded, Fewer DEF Begun
    <3> QED
      BY <2>1, <3>1, Fewer
  <2>3. Allowance \in {0, 1} /\ Allowance' \in {0, 1}
    BY DEF Allowance
  <2>4. PICK before, after, a, b, n, o :
          /\ before = faults /\ after = faults' /\ a = Allowance /\ b = Allowance'
          /\ n = Cardinality(Begun) /\ o = Cardinality(Begun')
    OBVIOUS
  <2>5. /\ before \in Nat /\ after \in Nat /\ a \in {0, 1} /\ b \in {0, 1}
        /\ n \in Nat /\ o \in Nat /\ o <= n /\ n <= before + a
    BY <1>1, <1>6, <2>2, <2>3, <2>4, ConstantsAssumption DEF Budget
  <2>6. (NoFault => after = before) /\ (Fault => after = before + 1)
    BY <1>6, <2>4
  <2>7. before + a <= after + b
    <3>1. CASE ~request[q].modal
      <4>1. DialogFailed' <=> DialogFailed
        BY <1>7, <3>1 DEF DialogFailed
      <4>2. a = b
        BY <1>9, <2>4, <3>1, <4>1 DEF Allowance
      <4> QED
        BY <1>9, <2>5, <2>6, <3>1, <4>2
    <3>2. CASE request[q].modal /\ request[q].failed /\ NoFault
      <4>1. DialogFailed
        BY <3>2 DEF DialogFailed
      <4>2. a = 0
        BY <2>4, <4>1 DEF Allowance
      <4> QED
        BY <2>5, <2>6, <3>2, <4>2
    <3>3. CASE request[q].modal /\ modal'.step = "done" /\ ~request[q].failed /\ NoFault
      <4>1. ~DialogFailed'
        BY <1>1, <1>7, <3>3 DEF DialogFailed, OneModal
      <4>2. b = 1
        BY <2>4, <3>3, <4>1 DEF Allowance
      <4> QED
        BY <2>5, <2>6, <3>3, <4>2
    <3>4. CASE Fault
      BY <2>5, <2>6, <3>4
    <3> QED
      BY <1>9, <3>1, <3>2, <3>3, <3>4
  <2>8. o <= after + b
    BY <2>5, <2>7
  <2> QED
    BY <2>4, <2>8 DEF Budget
<1> QED
  BY <1>1, <1>3, <1>10, <1>11, <1>12, <1>13, <1>14, <1>15, <1>16 DEF SetupInv

LEMMA SetupNext == SetupInv /\ [Next]_vars => SetupInv'
<1> SUFFICES ASSUME SetupInv, [Next]_vars PROVE SetupInv'
  OBVIOUS
<1>1. faults \in 0 .. MaxFaults /\ faults >= faults
  BY ConstantsAssumption DEF SetupInv, SetupTypes
<1>2. ASSUME NEW m \in Mandates, CreateDraft(m) PROVE SetupInv'
  BY <1>2, CreateKeepsSetup
<1>3. CASE Sign \/ RefuseActivation
  BY <1>3, DialogKeepsSetup
<1>4. ASSUME NEW q \in Requests,
             \/ StartActivation(q) \/ AnswerActivation(q)
             \/ \E m \in Mandates : OtherActivation(q, m)
             \/ \E part \in request[q].todo : UpdateActive(q, part)
      PROVE  SetupInv'
  BY <1>4, StartKeepsSetup, AnswerKeepsSetup, OtherKeepsSetup, UpdateKeepsSetup
<1>5. ASSUME NEW s \in Callers, ScanStep(s) PROVE SetupInv'
  <2>1. UNCHANGED <<status, version, newest, modal, request, signed, torn>> /\ (Fault \/ UNCHANGED faults)
    BY <1>5 DEF ScanStep, StartScan, CheckPending, DecideNothing, Decide, Enqueue, database, NoFault
  <2> QED
    BY <1>1, <2>1, SetupFrame, FaultsCounted
<1>6. CASE MonitorRestarts \/ (\E d \in Decisions : AgeOut(d) \/ ExecutorDecides(d)) \/ UNCHANGED vars
  <2>1. UNCHANGED <<status, version, newest, modal, request, signed, torn>> /\ (Fault \/ UNCHANGED faults)
    BY <1>6 DEF MonitorRestarts, AgeOut, ExecutorDecides, vars, database
  <2> QED
    BY <1>1, <2>1, SetupFrame, FaultsCounted
<1> QED
  BY <1>2, <1>3, <1>4, <1>5, <1>6 DEF Next

-----------------------------------------------------------------------------
(* The scans *)

LEMMA ScanInit == Init => ScanInv
<1> SUFFICES ASSUME Init PROVE ScanInv
  OBVIOUS
<1> USE DEF Init
<1>1. /\ \A s \in Callers : scan[s] = IF booting /\ s = "startup" THEN [IdleScan EXCEPT !.at = "boot"]
                                      ELSE IdleScan
      /\ scan \in [Callers -> {[IdleScan EXCEPT !.at = "boot"], IdleScan}]
  <2>1. CASE booting
    <3>1. PICK boot : boot = [IdleScan EXCEPT !.at = "boot"]
      OBVIOUS
    <3>2. [IdleScan EXCEPT !.at = IdleScan.at] = IdleScan
      BY DEF IdleScan
    <3>3. ASSUME NEW s \in Callers
          PROVE  [IdleScan EXCEPT !.at = IF s = "startup" THEN "boot" ELSE @]
                   = IF s = "startup" THEN boot ELSE IdleScan
      BY <3>1, <3>2
    <3>4. scan = [s \in Callers |-> IF s = "startup" THEN boot ELSE IdleScan]
      BY <2>1, <3>3 DEF BootScans
    <3> QED
      BY <2>1, <3>1, <3>4
  <2>2. CASE ~booting
    BY <2>2
  <2> QED
    BY <2>1, <2>2
<1>2. ASSUME NEW s \in Callers
      PROVE  /\ scan[s] \in [at : {"idle", "boot", "check", "decide", "enqueue"},
                             mandate : Mandates \cup {0}, decision : Decisions \cup {0}]
             /\ scan[s].at \in {"idle", "boot"} /\ (scan[s].at = "boot" => booting)
  BY <1>1 DEF IdleScan
<1>3. ScanTypes
  BY <1>1, <1>2 DEF ScanTypes, Statuses
<1>4. (\A s \in Callers : ScanOK(s)) /\ (\A d \in Decisions : DecisionOK(d))
  BY <1>2 DEF ScanOK, DecisionOK
<1>6. ASSUME NEW m \in Mandates PROVE QueueOK(m)
  <2>1. Proposed(m) = {} /\ Deciding(m) = {}
    BY <1>2 DEF Proposed, Deciding
  <2>2. Allowed(m) \in {1, 2}
    BY DEF Allowed
  <2> QED
    BY <2>1, <2>2, FS_EmptySet DEF QueueOK
<1> QED
  BY <1>3, <1>4, <1>6 DEF ScanInv

LEMMA Queued ==
  ASSUME ScanTypes, NEW m
  PROVE  /\ IsFiniteSet(Proposed(m)) /\ IsFiniteSet(Deciding(m))
         /\ Cardinality(Proposed(m)) \in Nat /\ Cardinality(Deciding(m)) \in Nat
<1>1. Proposed(m) \subseteq Decisions /\ Deciding(m) \subseteq Callers
  BY DEF Proposed, Deciding, ScanTypes
<1> QED
  BY <1>1, Bounded, Fewer

(* Less queued and less about to be queued keep the bound.                 *)
LEMMA QueueKept ==
  ASSUME ScanTypes, NEW m, QueueOK(m), raced \subseteq raced',
         Proposed(m)' \subseteq Proposed(m), Deciding(m)' \subseteq Deciding(m)
  PROVE  QueueOK(m)'
<1>1. PICK p, q, r, s, b, c :
        /\ p = Cardinality(Proposed(m)) /\ q = Cardinality(Proposed(m)')
        /\ r = Cardinality(Deciding(m)) /\ s = Cardinality(Deciding(m)')
        /\ b = Allowed(m) /\ c = Allowed(m)'
  OBVIOUS
<1>2. /\ p \in Nat /\ q \in Nat /\ q <= p /\ r \in Nat /\ s \in Nat /\ s <= r
  BY <1>1, Queued, Fewer
<1>3. b \in {1, 2} /\ c \in {1, 2} /\ b <= c /\ p + r <= b
  BY <1>1 DEF Allowed, QueueOK
<1>4. q + s <= c
  BY <1>2, <1>3
<1> QED
  BY <1>1, <1>4 DEF QueueOK

(* A step elsewhere leaves the scans alone; it may make a mandate active.  *)
LEMMA ScanFrame ==
  ASSUME ScanInv, UNCHANGED <<decision, fresh, scan, queued, raced>>, Active \subseteq Active'
  PROVE  ScanInv'
<1>1. ScanTypes /\ (\A s \in Callers : ScanOK(s))
      /\ (\A d \in Decisions : DecisionOK(d)) /\ \A m \in Mandates : QueueOK(m)
  BY DEF ScanInv
<1>2. ScanTypes' /\ (\A s \in Callers : ScanOK(s)') /\ \A d \in Decisions : DecisionOK(d)'
  BY <1>1 DEF ScanTypes, ScanOK, DecisionOK
<1>4. ASSUME NEW m \in Mandates PROVE QueueOK(m)'
  <2>1. Proposed(m)' = Proposed(m) /\ Deciding(m)' = Deciding(m)
    BY DEF Proposed, Deciding
  <2> QED
    BY <1>1, <2>1, QueueKept
<1> QED
  BY <1>2, <1>4 DEF ScanInv

(* A step of one scan that decides nothing.                                *)
LEMMA OneScan ==
  ASSUME ScanInv, NEW s \in Callers, NEW next, scan' = [scan EXCEPT ![s] = next],
         next \in [at : {"idle", "check", "enqueue"}, mandate : Mandates \cup {0},
                   decision : Decisions \cup {0}],
         next.at # "idle" => next.mandate \in Active,
         next.at = "enqueue" => next.decision \in Decisions /\ decision[next.decision].status # "none",
         UNCHANGED <<status, decision, fresh, raced>>,
         queued' \subseteq {d \in Decisions : decision[d].status # "none"}
  PROVE  ScanInv'
<1>1. ScanTypes /\ (\A r \in Callers : ScanOK(r))
      /\ (\A d \in Decisions : DecisionOK(d)) /\ \A m \in Mandates : QueueOK(m)
  BY DEF ScanInv
<1>2. Active' = Active
  BY DEF Active
<1>3. scan'[s] = next /\ \A r \in Callers : r # s => scan'[r] = scan[r]
  BY <1>1 DEF ScanTypes
<1>4. next \in [at : {"idle", "boot", "check", "decide", "enqueue"}, mandate : Mandates \cup {0},
                decision : Decisions \cup {0}]
  OBVIOUS
<1>5. ScanTypes'
  BY <1>1, <1>4 DEF ScanTypes
<1>6. ASSUME NEW r \in Callers PROVE ScanOK(r)'
  <2>1. CASE r = s
    BY <1>2, <1>3, <2>1 DEF ScanOK
  <2>2. CASE r # s
    BY <1>1, <1>2, <1>3, <2>2 DEF ScanOK
  <2> QED
    BY <2>1, <2>2
<1>8. \A d \in Decisions : DecisionOK(d)'
  BY <1>1, <1>2 DEF DecisionOK
<1>9. ASSUME NEW m \in Mandates PROVE QueueOK(m)'
  <2>1. Proposed(m)' = Proposed(m)
    BY DEF Proposed
  <2>2. next.at # "decide"
    OBVIOUS
  <2>3. Deciding(m)' \subseteq Deciding(m)
    BY <1>3, <2>2 DEF Deciding
  <2> QED
    BY <1>1, <2>1, <2>3, QueueKept
<1> QED
  BY <1>5, <1>6, <1>8, <1>9 DEF ScanInv

(* A scan that ends without a decision, or starts with a mandate in force. *)
LEMMA PlainScanKeeps ==
  ASSUME ScanInv, SetupInv, NEW s \in Callers,
         \/ StartScan(s) \/ DecideNothing(s) \/ Enqueue(s)
         \/ CheckPending(s) /\ HasPendingWork(scan[s].mandate)
  PROVE  ScanInv'
<1>1. ScanTypes /\ (\A r \in Callers : ScanOK(r)) /\ newest \in Active \cup {0}
      /\ faults \in 0 .. MaxFaults
  BY DEF ScanInv, SetupInv, SetupTypes
<1>3. UNCHANGED <<status, decision, fresh, raced>>
  BY DEF StartScan, DecideNothing, Enqueue, CheckPending, database
<1>5. queued' \subseteq {d \in Decisions : decision[d].status # "none"}
  BY <1>1 DEF StartScan, DecideNothing, Enqueue, CheckPending, ScanTypes, ScanOK
<1>6. PICK next : /\ scan' = [scan EXCEPT ![s] = next]
                  /\ \/ next = IdleScan
                     \/ newest # 0 /\ next = [at |-> "check", mandate |-> newest, decision |-> 0]
  <2>1. CASE newest = 0
    BY <2>1 DEF StartScan, DecideNothing, Enqueue, CheckPending
  <2>2. CASE newest # 0
    BY <2>2 DEF StartScan, DecideNothing, Enqueue, CheckPending
  <2> QED
    BY <2>1, <2>2
<1>7. /\ next \in [at : {"idle", "check", "enqueue"}, mandate : Mandates \cup {0},
                   decision : Decisions \cup {0}]
      /\ next.at # "idle" => next.mandate \in Active
      /\ next.at # "enqueue"
  <2>1. Active \subseteq Mandates
    BY DEF Active
  <2>2. CASE next = IdleScan
    BY <2>2 DEF IdleScan
  <2>3. CASE newest # 0 /\ next = [at |-> "check", mandate |-> newest, decision |-> 0]
    <3>1. newest \in Active
      BY <1>1, <2>3
    <3>2. next.at = "check" /\ next.mandate = newest
      BY <2>3
    <3>3. next \in [at : {"idle", "check", "enqueue"}, mandate : Mandates \cup {0},
                    decision : Decisions \cup {0}]
      BY <2>1, <2>3, <3>1
    <3> QED
      BY <3>1, <3>2, <3>3
  <2> QED
    BY <1>6, <2>2, <2>3
<1> QED
  BY <1>3, <1>5, <1>6, <1>7, OneScan

(* The check that lets a scan decide: nothing is queued for the mandate,   *)
(* and if the other scan is about to queue, the two have raced.            *)
LEMMA CheckKeeps ==
  ASSUME ScanInv, SetupInv, NEW s \in Callers, CheckPending(s), ~HasPendingWork(scan[s].mandate)
  PROVE  ScanInv'
<1>1. ScanTypes /\ (\A r \in Callers : ScanOK(r))
      /\ (\A d \in Decisions : DecisionOK(d)) /\ \A m \in Mandates : QueueOK(m)
  BY DEF ScanInv
<1>2. /\ UNCHANGED <<status, decision, fresh, queued>>
      /\ scan[s].at = "check" /\ scan' = [scan EXCEPT ![s].at = "decide"]
      /\ raced' = IF Deciding(scan[s].mandate) = {} THEN raced ELSE raced \cup {scan[s].mandate}
  BY DEF CheckPending, database
<1>3. Active' = Active
  BY <1>2 DEF Active
<1>4. scan[s] \in [at : {"idle", "boot", "check", "decide", "enqueue"},
                   mandate : Mandates \cup {0}, decision : Decisions \cup {0}]
  BY <1>1 DEF ScanTypes
<1>5. /\ scan'[s].at = "decide" /\ scan'[s].mandate = scan[s].mandate
      /\ scan' \in [Callers -> [at : {"idle", "boot", "check", "decide", "enqueue"},
                                mandate : Mandates \cup {0}, decision : Decisions \cup {0}]]
      /\ \A r \in Callers : r # s => scan'[r] = scan[r]
  <2>1. scan'[s] = [scan[s] EXCEPT !.at = "decide"]
        /\ \A r \in Callers : r # s => scan'[r] = scan[r]
    BY <1>1, <1>2 DEF ScanTypes
  <2>2. scan'[s] \in [at : {"idle", "boot", "check", "decide", "enqueue"},
                      mandate : Mandates \cup {0}, decision : Decisions \cup {0}]
        /\ scan'[s].at = "decide" /\ scan'[s].mandate = scan[s].mandate
    BY <1>4, <2>1
  <2> QED
    BY <1>1, <1>2, <2>1, <2>2 DEF ScanTypes
<1>6. ScanTypes' /\ raced \subseteq raced'
  <2>1. scan[s].mandate \in Mandates
    BY <1>1, <1>2 DEF ScanOK, Active
  <2> QED
    BY <1>1, <1>2, <1>5, <2>1 DEF ScanTypes
<1>7. ASSUME NEW r \in Callers PROVE ScanOK(r)'
  <2>1. CASE r = s
    BY <1>1, <1>2, <1>3, <1>5, <2>1 DEF ScanOK
  <2>2. CASE r # s
    BY <1>1, <1>2, <1>3, <1>5, <2>2 DEF ScanOK
  <2> QED
    BY <2>1, <2>2
<1>9. \A d \in Decisions : DecisionOK(d)'
  BY <1>1, <1>2, <1>3 DEF DecisionOK
<1>10. ASSUME NEW m \in Mandates PROVE QueueOK(m)'
  <2>1. Proposed(m)' = Proposed(m)
    BY <1>2 DEF Proposed
  <2>2. CASE m # scan[s].mandate
    <3>1. Deciding(m)' \subseteq Deciding(m)
      BY <1>5, <2>2 DEF Deciding
    <3> QED
      BY <1>1, <1>6, <2>1, <3>1, QueueKept
  <2>3. CASE m = scan[s].mandate
    <3>1. Proposed(m)' = {}
      <4>1. ASSUME NEW d \in fresh, decision[d] = [mandate |-> m, status |-> "proposed"]
            PROVE  FALSE
        <5>1. decision[d].mandate = m /\ decision[d].status = "proposed"
          BY <4>1
        <5> QED
          BY <2>3, <4>1, <5>1 DEF HasPendingWork
      <4> QED
        BY <2>1, <4>1 DEF Proposed
    <3>2. Cardinality(Proposed(m)') = 0
      BY <3>1, FS_EmptySet
    <3>3. /\ Deciding(m)' \subseteq Callers /\ Cardinality(Deciding(m)') \in Nat
          /\ Cardinality(Deciding(m)') <= 2
      <4>1. Deciding(m)' \subseteq Callers
        BY DEF Deciding
      <4> QED
        BY <4>1, Bounded, Fewer
    <3>4. PICK n : n = Cardinality(Deciding(m)')
      OBVIOUS
    <3>5. CASE Deciding(m) = {}
      <4>1. Deciding(m)' \subseteq {s}
        BY <1>5, <3>5 DEF Deciding
      <4>2. IsFiniteSet({s}) /\ Cardinality({s}) = 1
        BY FS_Singleton
      <4>3. n \in Nat /\ n <= 1
        BY <3>4, <4>1, <4>2, Fewer
      <4>4. Allowed(m)' \in {1, 2}
        BY DEF Allowed
      <4>5. PICK c \in {1, 2} : c = Allowed(m)'
        BY <4>4
      <4>6. 0 + n <= c
        BY <4>3
      <4> QED
        BY <3>2, <3>4, <4>5, <4>6 DEF QueueOK
    <3>6. CASE Deciding(m) # {}
      <4>1. Allowed(m)' = 2
        BY <1>2, <2>3, <3>6 DEF Allowed
      <4>2. n \in Nat /\ n <= 2
        BY <3>3, <3>4
      <4>3. 0 + n <= 2
        BY <4>2
      <4> QED
        BY <3>2, <3>4, <4>1, <4>3 DEF QueueOK
    <3> QED
      BY <3>5, <3>6
  <2> QED
    BY <2>2, <2>3
<1> QED
  BY <1>6, <1>7, <1>9, <1>10 DEF ScanInv

LEMMA DecideKeeps ==
  ASSUME ScanInv, SetupInv, NEW s \in Callers, NEW d \in Decisions, Decide(s, d)
  PROVE  ScanInv'
<1>1. ScanTypes /\ (\A r \in Callers : ScanOK(r))
      /\ (\A e \in Decisions : DecisionOK(e)) /\ \A m \in Mandates : QueueOK(m)
  BY DEF ScanInv
<1>2. PICK n : n = scan[s].mandate
  OBVIOUS
<1>3. /\ UNCHANGED <<status, queued, raced>>
      /\ scan[s].at = "decide" /\ decision[d].status = "none"
      /\ decision' = [decision EXCEPT ![d] = [mandate |-> n, status |-> "proposed"]]
      /\ fresh' = fresh \cup {d}
      /\ scan' = [scan EXCEPT ![s].at = "enqueue", ![s].decision = d]
  BY <1>2 DEF Decide
<1>4. Active' = Active /\ n \in Active /\ Active \subseteq Mandates
  BY <1>1, <1>2, <1>3 DEF Active, ScanOK
<1>5. scan[s] \in [at : {"idle", "boot", "check", "decide", "enqueue"},
                   mandate : Mandates \cup {0}, decision : Decisions \cup {0}]
  BY <1>1 DEF ScanTypes
<1>6. /\ scan'[s].at = "enqueue" /\ scan'[s].mandate = n /\ scan'[s].decision = d
      /\ scan' \in [Callers -> [at : {"idle", "boot", "check", "decide", "enqueue"},
                                mandate : Mandates \cup {0}, decision : Decisions \cup {0}]]
      /\ \A r \in Callers : r # s => scan'[r] = scan[r]
  <2>1. scan'[s] = [scan[s] EXCEPT !.at = "enqueue", !.decision = d]
        /\ \A r \in Callers : r # s => scan'[r] = scan[r]
    BY <1>1, <1>3 DEF ScanTypes
  <2>2. scan'[s] \in [at : {"idle", "boot", "check", "decide", "enqueue"},
                      mandate : Mandates \cup {0}, decision : Decisions \cup {0}]
        /\ scan'[s].at = "enqueue" /\ scan'[s].mandate = n /\ scan'[s].decision = d
    BY <1>2, <1>5, <2>1
  <2> QED
    BY <1>1, <1>3, <2>1, <2>2 DEF ScanTypes
<1>7. /\ decision' \in [Decisions -> [mandate : Mandates \cup {0}, status : Statuses]]
      /\ decision'[d] = [mandate |-> n, status |-> "proposed"]
      /\ \A e \in Decisions : e # d => decision'[e] = decision[e]
  BY <1>1, <1>3, <1>4 DEF ScanTypes, Statuses
<1>8. decision'[d].mandate = n /\ decision'[d].status = "proposed"
  BY <1>7
<1>9. ScanTypes'
  BY <1>1, <1>3, <1>6, <1>7, <1>8 DEF ScanTypes
<1>10. ASSUME NEW r \in Callers PROVE ScanOK(r)'
  <2>1. CASE r = s
    BY <1>4, <1>6, <1>8, <2>1 DEF ScanOK
  <2>2. CASE r # s
    <3>1. scan[r].at = "enqueue" => scan[r].decision # d
      BY <1>1, <1>3 DEF ScanOK
    <3> QED
      BY <1>1, <1>4, <1>6, <1>7, <2>2, <3>1 DEF ScanOK
  <2> QED
    BY <2>1, <2>2
<1>12. \A e \in Decisions : DecisionOK(e)'
  BY <1>1, <1>4, <1>7, <1>8 DEF DecisionOK
<1>13. ASSUME NEW m \in Mandates PROVE QueueOK(m)'
  <2>1. CASE m # n
    <3>1. Proposed(m)' \subseteq Proposed(m)
      BY <1>1, <1>3, <1>7, <1>8, <2>1 DEF Proposed, ScanTypes
    <3>2. Deciding(m)' \subseteq Deciding(m)
      BY <1>6, <2>1 DEF Deciding
    <3> QED
      BY <1>1, <1>3, <3>1, <3>2, QueueKept
  <2>2. CASE m = n
    <3>1. Proposed(m)' \subseteq Proposed(m) \cup {d}
      BY <1>1, <1>3, <1>7 DEF Proposed, ScanTypes
    <3>2. Deciding(m)' = Deciding(m) \ {s} /\ s \in Deciding(m)
      BY <1>2, <1>3, <1>6, <2>2 DEF Deciding
    <3>3. PICK p, q, r, t, b :
            /\ p = Cardinality(Proposed(m)) /\ q = Cardinality(Proposed(m)')
            /\ r = Cardinality(Deciding(m)) /\ t = Cardinality(Deciding(m)')
            /\ b = Allowed(m) /\ b = Allowed(m)'
      BY <1>3 DEF Allowed
    <3>4. p \in Nat /\ r \in Nat /\ q <= p + 1
      BY <1>1, <3>1, <3>3, Queued, OneMore
    <3>5. t = r - 1
      BY <1>1, <3>2, <3>3, Queued, FS_RemoveElement
    <3>6. q \in Nat /\ b \in {1, 2} /\ p + r <= b
      <4>1. IsFiniteSet(Proposed(m) \cup {d})
        BY <1>1, Queued, FS_AddElement
      <4> QED
        BY <1>1, <1>3, <3>1, <3>3, <4>1, Fewer DEF Allowed, QueueOK
    <3>7. q + t <= b
      BY <3>4, <3>5, <3>6
    <3> QED
      BY <3>3, <3>7 DEF QueueOK
  <2> QED
    BY <2>1, <2>2
<1> QED
  BY <1>9, <1>10, <1>12, <1>13 DEF ScanInv

(* What time and the executor do to a decision never adds to what is       *)
(* queued.                                                                 *)
LEMMA DecisionMoves ==
  ASSUME ScanInv, SetupInv, NEW d \in Decisions, AgeOut(d) \/ ExecutorDecides(d)
  PROVE  ScanInv'
<1>1. ScanTypes /\ (\A r \in Callers : ScanOK(r))
      /\ (\A e \in Decisions : DecisionOK(e)) /\ \A m \in Mandates : QueueOK(m)
  BY DEF ScanInv
<1>2. /\ UNCHANGED <<status, queued, scan, raced>>
      /\ decision[d].status \in {"proposed", "ready"}
  BY DEF AgeOut, ExecutorDecides, monitor
<1>3. Active' = Active
  BY <1>2 DEF Active
<1>4. /\ decision' \in [Decisions -> [mandate : Mandates \cup {0}, status : Statuses]]
      /\ decision'[d].mandate = decision[d].mandate /\ decision'[d].status # "none"
      /\ \A e \in Decisions : e # d => decision'[e] = decision[e]
      /\ fresh' \subseteq fresh \cup {d}
      /\ decision'[d].status = "proposed" => decision'[d] = decision[d] /\ fresh' \subseteq fresh
  <2>1. decision[d] \in [mandate : Mandates \cup {0}, status : Statuses]
    BY <1>1 DEF ScanTypes
  <2>2. CASE AgeOut(d)
    BY <1>1, <1>2, <2>2 DEF AgeOut, ScanTypes
  <2>3. CASE ExecutorDecides(d)
    <3>1. PICK to \in {"ready", "blocked", "executed"} : decision' = [decision EXCEPT ![d].status = to]
      <4>1. CASE decision[d].status = "proposed"
        BY <2>3, <4>1 DEF ExecutorDecides
      <4>2. CASE decision[d].status = "ready"
        BY <2>3, <4>2 DEF ExecutorDecides
      <4> QED
        BY <1>2, <4>1, <4>2
    <3>2. decision'[d] = [decision[d] EXCEPT !.status = to]
          /\ \A e \in Decisions : e # d => decision'[e] = decision[e]
      BY <1>1, <3>1 DEF ScanTypes
    <3>3. decision'[d] \in [mandate : Mandates \cup {0}, status : Statuses]
          /\ decision'[d].mandate = decision[d].mandate /\ decision'[d].status = to
      BY <2>1, <3>2 DEF Statuses
    <3>4. decision' \in [Decisions -> [mandate : Mandates \cup {0}, status : Statuses]]
      BY <1>1, <3>1, <3>2, <3>3 DEF ScanTypes
    <3>5. fresh' = fresh \cup {d}
      BY <2>3 DEF ExecutorDecides
    <3> QED
      BY <3>2, <3>3, <3>4, <3>5
  <2> QED
    BY <2>2, <2>3
<1>5. ScanTypes'
  BY <1>1, <1>2, <1>4 DEF ScanTypes
<1>6. \A r \in Callers : ScanOK(r)'
  BY <1>1, <1>2, <1>3, <1>4 DEF ScanOK
<1>8. \A e \in Decisions : DecisionOK(e)'
  <2>1. DecisionOK(d)'
    BY <1>1, <1>2, <1>3, <1>4 DEF DecisionOK
  <2>2. \A e \in Decisions : e # d => DecisionOK(e)'
    BY <1>1, <1>3, <1>4 DEF DecisionOK
  <2> QED
    BY <2>1, <2>2
<1>9. ASSUME NEW m \in Mandates PROVE QueueOK(m)'
  <2>1. Proposed(m)' \subseteq Proposed(m)
    <3>1. ASSUME NEW e \in fresh', decision'[e] = [mandate |-> m, status |-> "proposed"]
          PROVE  e \in fresh /\ decision[e] = [mandate |-> m, status |-> "proposed"]
      <4>1. decision'[e].status = "proposed" /\ e \in Decisions
        BY <1>1, <1>4, <3>1 DEF ScanTypes
      <4> QED
        BY <1>4, <3>1, <4>1
    <3> QED
      BY <3>1 DEF Proposed
  <2>2. Deciding(m)' = Deciding(m)
    BY <1>2 DEF Deciding
  <2> QED
    BY <1>1, <1>2, <2>1, <2>2, QueueKept
<1> QED
  BY <1>5, <1>6, <1>8, <1>9 DEF ScanInv

LEMMA MonitorRestartKeeps ==
  ASSUME ScanInv, SetupInv, MonitorRestarts
  PROVE  ScanInv'
<1>1. ScanTypes /\ (\A e \in Decisions : DecisionOK(e)) /\ \A m \in Mandates : QueueOK(m)
  BY DEF ScanInv
<1>2. UNCHANGED <<status, queued, decision, fresh, raced>> /\ scan' = BootScans
  BY DEF MonitorRestarts, database
<1>4. Active' = Active
  BY <1>2 DEF Active
<1>5. /\ scan' \in [Callers -> [at : {"idle", "boot", "check", "decide", "enqueue"},
                                mandate : Mandates \cup {0}, decision : Decisions \cup {0}]]
      /\ \A r \in Callers : scan'[r].at \in {"idle", "boot"}
  <2>1. scan' = [s \in Callers |-> [IdleScan EXCEPT !.at = IF s = "startup" THEN "boot" ELSE @]]
    BY <1>2 DEF BootScans
  <2>2. ASSUME NEW s \in Callers
        PROVE  /\ scan'[s] \in [at : {"idle", "boot", "check", "decide", "enqueue"},
                                mandate : Mandates \cup {0}, decision : Decisions \cup {0}]
               /\ scan'[s].at \in {"idle", "boot"}
    BY <2>1 DEF IdleScan
  <2> QED
    BY <2>1, <2>2
<1>6. ScanTypes'
  BY <1>1, <1>2, <1>5 DEF ScanTypes
<1>7. \A r \in Callers : ScanOK(r)'
  BY <1>5 DEF ScanOK
<1>8. \A e \in Decisions : DecisionOK(e)'
  BY <1>1, <1>2, <1>4 DEF DecisionOK
<1>9. ASSUME NEW m \in Mandates PROVE QueueOK(m)'
  <2>1. Proposed(m)' = Proposed(m)
    BY <1>2 DEF Proposed
  <2>2. Deciding(m)' \subseteq Deciding(m)
    BY <1>5 DEF Deciding
  <2> QED
    BY <1>1, <1>2, <2>1, <2>2, QueueKept
<1> QED
  BY <1>6, <1>7, <1>8, <1>9 DEF ScanInv

(* No step of the setup withdraws a mandate.                               *)
LEMMA StaysActive ==
  ASSUME SetupInv,
         \/ \E m \in Mandates : CreateDraft(m)
         \/ Sign \/ RefuseActivation
         \/ \E q \in Requests :
              \/ StartActivation(q) \/ AnswerActivation(q)
              \/ \E m \in Mandates : OtherActivation(q, m)
              \/ \E part \in request[q].todo : UpdateActive(q, part)
  PROVE  /\ Active \subseteq Active' /\ UNCHANGED <<decision, fresh, scan, queued, raced>>
<1>1. CASE \E m \in Mandates : CreateDraft(m)
  BY <1>1 DEF CreateDraft, StoreDraft, Active, monitor, SetupInv, SetupTypes, NoFault
<1>2. CASE Sign \/ RefuseActivation
  BY <1>2 DEF Sign, RefuseActivation, database, monitor, Active, NoFault
<1>3. ASSUME NEW q \in Requests,
             StartActivation(q) \/ AnswerActivation(q) \/ \E m \in Mandates : OtherActivation(q, m)
      PROVE  /\ Active \subseteq Active' /\ UNCHANGED <<decision, fresh, scan, queued, raced>>
  BY <1>3 DEF StartActivation, AnswerActivation, OtherActivation, database, monitor, Active, NoFault
<1>4. ASSUME NEW q \in Requests, NEW part \in request[q].todo, UpdateActive(q, part)
      PROVE  /\ Active \subseteq Active' /\ UNCHANGED <<decision, fresh, scan, queued, raced>>
  <2>1. status \in [Mandates -> States]
    BY DEF SetupInv, SetupTypes
  <2>2. (\E m : status' = [status EXCEPT ![m] = "active"]) \/ UNCHANGED status
    BY <1>4 DEF UpdateActive
  <2>3. Active \subseteq Active'
    BY <2>1, <2>2 DEF Active
  <2> QED
    BY <1>4, <2>3 DEF UpdateActive, monitor, NoFault
<1> QED
  BY <1>1, <1>2, <1>3, <1>4

LEMMA ScanNext == SetupInv /\ ScanInv /\ [Next]_vars => ScanInv'
<1> SUFFICES ASSUME SetupInv, ScanInv, [Next]_vars PROVE ScanInv'
  OBVIOUS
<1>2. CASE \/ \E m \in Mandates : CreateDraft(m)
           \/ Sign \/ RefuseActivation
           \/ \E q \in Requests :
                \/ StartActivation(q) \/ AnswerActivation(q)
                \/ \E m \in Mandates : OtherActivation(q, m)
                \/ \E part \in request[q].todo : UpdateActive(q, part)
  <2>1. /\ Active \subseteq Active' /\ UNCHANGED <<decision, fresh, scan, queued, raced>>
    BY <1>2, StaysActive
  <2> QED
    BY <2>1, ScanFrame
<1>3. ASSUME NEW s \in Callers, ScanStep(s) PROVE ScanInv'
  BY <1>3, PlainScanKeeps, CheckKeeps, DecideKeeps DEF ScanStep
<1>4. CASE MonitorRestarts \/ \E d \in Decisions : AgeOut(d) \/ ExecutorDecides(d)
  BY <1>4, MonitorRestartKeeps, DecisionMoves
<1>5. CASE UNCHANGED vars
  <2>1. Active' = Active /\ UNCHANGED <<decision, fresh, scan, queued, raced>>
    BY <1>5 DEF vars, database, monitor, Active
  <2> QED
    BY <2>1, ScanFrame
<1> QED
  BY <1>2, <1>3, <1>4, <1>5 DEF Next

LEMMA InvHolds == Spec => [](SetupInv /\ ScanInv)
BY SetupInit, SetupNext, ScanInit, ScanNext, PTL DEF Spec

-----------------------------------------------------------------------------
(* Every mandate in force was signed by the owner, and every decision is   *)
(* under a mandate in force, through activations that overlap, answers     *)
(* that are lost and clicks that are repeated.                             *)
THEOREM DecisionsAreSigned == Spec => []ActsUnderSignedMandate
<1>1. SetupInv /\ ScanInv => ActsUnderSignedMandate
  BY DEF SetupInv, ScanInv, DecisionOK, ActsUnderSignedMandate
<1> QED
  BY InvHolds, <1>1, PTL

(* An activation is of what the owner saw, and takes effect as a whole,    *)
(* once per setup or fault, and before the dialog says so; every variable  *)
(* is of its type.                                                         *)
THEOREM ActivationsAreSound == Spec => []ActivationsSound
<1>1. SetupInv /\ ScanInv => ActivationsSound
  <2> SUFFICES ASSUME SetupInv, ScanInv PROVE ActivationsSound
    OBVIOUS
  <2>1. SetupTypes /\ ScanTypes /\ DialogOK /\ Budget /\ ActivationWhole
    BY DEF SetupInv, ScanInv
  <2>2. TypeOK
    BY <2>1 DEF TypeOK, SetupTypes, ScanTypes, States, Steps, Statuses
  <2>3. OneMandatePerSetup
    <3>1. /\ Cardinality(Active) <= Cardinality(Begun) /\ Cardinality(Begun) \in Nat
          /\ Cardinality(Active) \in Nat
      <4>1. Active \subseteq Begun /\ IsFiniteSet(Begun)
        BY Bounded, Fewer DEF Active, Begun
      <4> QED
        BY <4>1, Fewer
    <3>2. Allowance \in {0, 1} /\ faults \in Nat
      BY <2>1, ConstantsAssumption DEF Allowance, SetupTypes
    <3> QED
      BY <2>1, <3>1, <3>2 DEF Budget, OneMandatePerSetup
  <2>4. DoneIsActive
    BY <2>1 DEF DialogOK, DoneIsActive
  <2> QED
    BY <2>1, <2>2, <2>3, <2>4, DialogIsAccepted DEF ActivationsSound
<1> QED
  BY InvHolds, <1>1, PTL

(* What a scan decides is permitted, one thing at most, and a mandate has  *)
(* one queued decision, or two once both scans decided about it at the     *)
(* same time.                                                              *)
THEOREM DecisionsAreSound == Spec => []DecisionsSound
<1>1. SetupInv /\ ScanInv => DecisionsSound
  <2> SUFFICES ASSUME SetupInv, ScanInv PROVE DecisionsSound
    OBVIOUS
  <2>1. ASSUME NEW m \in Mandates
        PROVE  Cardinality(Proposed(m)) <= IF m \in raced THEN 2 ELSE 1
    <3>1. ScanTypes /\ QueueOK(m)
      BY DEF ScanInv
    <3>2. Cardinality(Proposed(m)) \in Nat /\ Cardinality(Deciding(m)) \in Nat
      BY <3>1, Queued
    <3> QED
      BY <3>1, <3>2 DEF QueueOK, Allowed
  <2>2. OneQueuedPerMandate
    BY <2>1 DEF OneQueuedPerMandate, Proposed
  <2> QED
    BY <2>2, DecisionsArePermitted DEF DecisionsSound
<1> QED
  BY InvHolds, <1>1, PTL
=============================================================================
