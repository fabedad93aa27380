------------------------ MODULE SafeSubmissionProofs ------------------------
(***************************************************************************)
(* What the simulation routes promise, for any simulations, requests,      *)
(* amounts, submit calls and number of faults: artifacts are evidence, the *)
(* reserve is kept, what is proposed was proven, nothing is left behind.   *)
(*                                                                         *)
(* The evidence is not inductive by itself: that a transaction will take   *)
(* effect rests on what the wallet holds and has approved on its node at   *)
(* each step of a playbook (Funds, Evidence, Health), which in turn needs  *)
(* that nobody else writes to that node (SimInv).  These three are         *)
(* predicates of a simulation's record and its node, so that the lemmas    *)
(* on the steps of a playbook are about values, not about states.          *)
(***************************************************************************)
EXTENDS SafeSubmission, FiniteSetTheorems, TLAPS

Priced    == {"check", "approve", "estimate", "send", "verify"}
OnFork    == Priced \cup {"fund", "price"}
SimStates == OnFork \cup {"idle", "start", "unstarted", "over", "answered"}

SimRecord == [at : SimStates, req : Requests \cup {NoRequest}, leg : {"setup", "main"},
              until : Nat, before : Nat, shares : Nat]
Artifacts == [status : {"none", "passed", "failed"}, why : {"none", "policy", "oracle", "fork"},
              req : Requests \cup {NoRequest}, until : Nat]
Fork      == [up : {TRUE}, bal : [Accounts -> [Tokens -> Nat]],
              allow : [Accounts -> [Spenders -> Nat]]]
Nodes     == Sims \cup {"shared"}

Fresh    == {"idle", "done"}
Holding  == {"safe", "nonce", "post", "record", "held"}
Calls    == [at : Fresh \cup Holding \cup {"block", "fetch"}, sim : Sims \cup {Nobody},
             nonce : Nat, began : Nat]
SafeTxs  == [sim : Sims, nonce : Nat]

SimTypes ==
  /\ external \in BOOLEAN /\ chain \in [rich : BOOLEAN, standing : BOOLEAN, open : BOOLEAN]
  /\ sim \in [Sims -> SimRecord] /\ artifact \in [Sims -> Artifacts]
  /\ node \in [Nodes -> Fork \cup {Down}]
  /\ healthy \subseteq Sims /\ alone \subseteq Sims /\ moved \subseteq Sims
CountTypes ==
  head \in 0 .. MaxBlock /\ faults \in 0 .. MaxFaults /\ safeNonce \in 0 .. MaxNonce
RouteTypes ==
  stored \subseteq Sims /\ submit \in [Submits -> Calls] /\ proposals \subseteq SafeTxs

(* What the wallet of simulation r can do on node n.                       *)
Wallet(n, token) == n.bal["wallet"][token]
Received(n, r)   == n.bal[CallOf(r).to][CallOf(r).give]
Works(n, r, open) ==
  /\ open /\ CallOf(r).n > 0
  /\ Wallet(n, CallOf(r).take) >= CallOf(r).n
  /\ CallOf(r).spender # "none" => n.allow["wallet"][CallOf(r).spender] >= CallOf(r).n

OnFirstLeg(r) == r.leg = FirstLeg(r.req.playbook)

(* The wallet was given what the first leg takes, and approves it.         *)
Funds(r, n) ==
  /\ \/ r.at = "price"
     \/ (OnFirstLeg(r) /\ r.at \in Priced \ {"verify"})
     => Wallet(n, Asset(r.req.playbook)) >= Funding(r.req, Asset(r.req.playbook))
  /\ OnFirstLeg(r) /\ r.at \in {"estimate", "send"} =>
       n.allow["wallet"][CallOf(r).spender] >= CallOf(r).n

(* What is sent last takes effect; a swap alone may fail, and then the     *)
(* recipient receives nothing.                                             *)
Evidence(r, n, open, hasMoved) ==
  r.leg = "main" =>
    /\ r.at = "send" /\ r.req.playbook # "swap" => Works(n, r, open)
    /\ r.at \in {"approve", "estimate", "send"} => r.before = Received(n, r)
    /\ r.at = "verify" =>
         hasMoved \/ (r.req.playbook = "swap" /\ Received(n, r) = r.before)

(* Where nothing interferes, the legs do what they are there for.          *)
Health(r, n) ==
  /\ ~OnFirstLeg(r) /\ r.at \in Priced \ {"verify"} =>
       CallOf(r).n > 0 /\ Wallet(n, CallOf(r).take) >= CallOf(r).n
  /\ r.at = "verify" =>
       /\ CallOf(r).out > 0
       /\ Received(n, r) >= CallOf(r).out
       /\ r.leg = "main" => Received(n, r) = r.before + CallOf(r).out

Sound(r, n, open, isAlone, isHealthy, hasMoved) ==
  /\ n \in Fork
  /\ isHealthy => open
  /\ isAlone =>
       /\ Funds(r, n) /\ Evidence(r, n, open, hasMoved)
       /\ isHealthy /\ ~Short(r.req) => Health(r, n)

(* The record of a simulation by itself. *)
Orderly(r) ==
  /\ r.at \in OnFork \cup {"start"} => r.req \in Requests
  /\ r.at \in Priced => ~Blocked(r.req, TRUE)
  /\ r.leg = "setup" => r.at \in Priced /\ FirstLeg(r.req.playbook) = "setup"

ArtifactInv(s) ==
  LET a == artifact[s]
  IN /\ a.status = "passed" =>
          a.req \in Requests /\ ~Blocked(a.req, TRUE) /\ (s \in alone => s \in moved)
     /\ a.status = "failed" /\ a.why = "fork" /\ s \in healthy \cap alone /\ ~Short(a.req) =>
          a.req.to # "wallet" /\ a.req.playbook \in {"swap", "deposit"}

SimInv(s) ==
  /\ Orderly(sim[s])
  /\ sim[s].at \in OnFork =>
       Sound(sim[s], node[Node(s)], chain.open, s \in alone, s \in healthy, s \in moved)
  /\ ArtifactInv(s)
  /\ node[s] # Down => ~external /\ (s \in Running \/ sim[s].at = "unstarted")
  /\ external /\ s \in alone \cap Running => \A t \in Running : t = s
  /\ s \in stored => sim[s].at = "answered" /\ artifact[s].status # "none"

Passed(s) == s \in stored /\ artifact[s].status = "passed"

SubmitInv(c) ==
  /\ submit[c].at \notin Fresh => Passed(submit[c].sim) /\ submit[c].began <= head
  /\ submit[c].at \in Holding => c \in unread \/ submit[c].began <= artifact[submit[c].sim].until
  /\ submit[c].nonce <= safeNonce
  /\ submit[c].at = "record" => Proposal(c) \in proposals

ProposalInv == \A p \in proposals : Passed(p.sim) /\ p.nonce <= safeNonce

Inv ==
  /\ SimTypes /\ CountTypes /\ RouteTypes
  /\ external => node["shared"] \in Fork
  /\ \A s \in Sims : SimInv(s)
  /\ \A c \in Submits : SubmitInv(c)
  /\ ProposalInv
  /\ RecordsMatch

-----------------------------------------------------------------------------
(* The calls of the playbooks *)

(* A call is determined by the request, the leg and the shares. *)
LEMMA SameCall ==
  ASSUME NEW r \in SimRecord, NEW q \in SimRecord,
         q.req = r.req, q.leg = r.leg, q.shares = r.shares
  PROVE  CallOf(q) = CallOf(r) /\ OnFirstLeg(q) = OnFirstLeg(r)
  BY DEF CallOf, OnFirstLeg

(* The wallet is given at least twice the amount, and the set-up supplies  *)
(* at least the amount; only its excess can be above what was given.       *)
LEMMA FundingIs ==
  ASSUME NEW r \in Requests, ConstantsAssumption
  PROVE  /\ Asset(r.playbook) \in Tokens /\ Funding(r, Asset(r.playbook)) \in Nat
         /\ Funding(r, Asset(r.playbook)) >= 2 * Amount /\ Amount \in Nat \ {0}
         /\ SetupAmount(r) \in Nat /\ SetupAmount(r) >= Amount
<1>1. /\ Amount \in Nat \ {0} /\ r.excess \in -Amount .. Amount
      /\ r.liquid \in Nat \cup {Unknown} /\ Unknown = -1
  BY ConstantsAssumption DEF ConstantsAssumption, Unknown
<1>2. Asset(r.playbook) \in Tokens
  BY DEF Asset, Tokens
<1> QED BY <1>1, <1>2 DEF Funding, SetupAmount

(* The call of a leg: the first takes what the wallet was funded with, the *)
(* second what the first has given.                                        *)
LEMMA CallShape ==
  ASSUME NEW r \in SimRecord, r.req \in Requests, ConstantsAssumption,
         r.leg = "setup" => FirstLeg(r.req.playbook) = "setup"
  PROVE  LET c == CallOf(r)
         IN /\ c.take \in Tokens /\ c.give \in Tokens /\ c.take # c.give
            /\ c.n \in Nat /\ c.out \in Nat /\ c.to \in Accounts
            /\ c.spender \in Spenders \cup {"none"}
            /\ c.n > 0 => c.out > 0
            /\ OnFirstLeg(r) =>
                 /\ c.take = Asset(r.req.playbook) /\ c.n > 0
                 /\ ~Short(r.req) => c.n <= Funding(r.req, c.take)
                 /\ c.spender \in Spenders
            /\ ~OnFirstLeg(r) => c.spender = "none" /\ r.leg = "main"
            /\ r.leg = "setup" => c.to = "wallet" /\ c.out >= Amount
            /\ r.leg = "main" /\ r.req.playbook # "redeem" => c.to = r.req.to
<1>1. /\ Amount \in Nat \ {0} /\ Loss \in Nat /\ Loss < Amount /\ r.req.to \in Accounts
      /\ r.req.playbook \in Playbooks /\ r.shares \in Nat /\ r.leg \in {"setup", "main"}
  BY ConstantsAssumption DEF ConstantsAssumption, SimRecord
<1>0. PICK given \in Nat, twice \in Nat :
        /\ given = Funding(r.req, Asset(r.req.playbook)) /\ given >= 2 * Amount
        /\ twice = SetupAmount(r.req) /\ twice >= Amount
  BY FundingIs
<1>2. CASE r.leg = "setup"
  <2>1. CASE r.req.playbook \in {"withdrawUSDC", "withdrawWETH"}
    <3>1. ~Short(r.req) => twice <= given
      BY <1>0, <2>1 DEF Short
    <3> QED BY <1>0, <1>1, <1>2, <2>1, <3>1
            DEF CallOf, OnFirstLeg, FirstLeg, Asset, Tokens, Accounts, Spenders
  <2>2. CASE r.req.playbook = "redeem"
    BY <1>0, <1>1, <1>2, <2>2
       DEF CallOf, OnFirstLeg, FirstLeg, Asset, Tokens, Accounts, Spenders
  <2> QED BY <1>2, <2>1, <2>2 DEF FirstLeg
<1>3. CASE r.leg = "main"
  <2>1. CASE r.req.playbook \in {"supplyUSDC", "supplyWETH"}
    BY <1>0, <1>1, <1>3, <2>1
       DEF CallOf, OnFirstLeg, FirstLeg, Action, Asset, Tokens, Accounts, Spenders
  <2>2. CASE r.req.playbook \in {"withdrawUSDC", "withdrawWETH"}
    BY <1>0, <1>1, <1>3, <2>2
       DEF CallOf, OnFirstLeg, FirstLeg, Action, Asset, Tokens, Accounts, Spenders
  <2>3. CASE r.req.playbook = "swap"
    BY <1>0, <1>1, <1>3, <2>3
       DEF CallOf, OnFirstLeg, FirstLeg, Action, Asset, Tokens, Accounts, Spenders
  <2>4. CASE r.req.playbook = "deposit"
    BY <1>0, <1>1, <1>3, <2>4
       DEF CallOf, OnFirstLeg, FirstLeg, Action, Asset, Tokens, Accounts, Spenders
  <2>5. CASE r.req.playbook = "redeem"
    BY <1>0, <1>1, <1>3, <2>5
       DEF CallOf, OnFirstLeg, FirstLeg, Action, Asset, Tokens, Accounts, Spenders
  <2> QED BY <1>1, <2>1, <2>2, <2>3, <2>4, <2>5 DEF Playbooks
<1> QED BY <1>1, <1>2, <1>3

(* After the set-up the wallet takes what it was given. *)
LEMMA NextLeg ==
  ASSUME NEW r \in SimRecord, NEW q \in SimRecord, ConstantsAssumption,
         r.req \in Requests, r.leg = "setup", FirstLeg(r.req.playbook) = "setup",
         q.req = r.req, q.leg = "main"
  PROVE  /\ CallOf(q).take = CallOf(r).give
         /\ r.req.playbook = "redeem" => CallOf(q).n = q.shares /\ CallOf(r).give = "shares"
         /\ r.req.playbook # "redeem" => CallOf(q).n = Amount
<1>1. r.req.playbook \in {"withdrawUSDC", "withdrawWETH", "redeem"}
  BY DEF FirstLeg
<1>2. CASE r.req.playbook \in {"withdrawUSDC", "withdrawWETH"}
  BY <1>2 DEF CallOf, Action, Asset
<1>3. CASE r.req.playbook = "redeem"
  BY <1>3 DEF CallOf, Action, Asset
<1> QED BY <1>1, <1>2, <1>3

LEMMA NodeIs ==
  ASSUME NEW s \in Sims, ConstantsAssumption
  PROVE  Node(s) \in Nodes /\ (external => Node(s) = "shared") /\ (~external => Node(s) = s)
         /\ "shared" \notin Sims
  BY ConstantsAssumption DEF ConstantsAssumption, Node, Nodes

LEMMA SucceedsIs ==
  ASSUME NEW s \in Sims
  PROVE  Succeeds(s, "wallet") <=> Works(node[Node(s)], sim[s], chain.open)
  BY DEF Succeeds, Works, Call, Bal, Wallet

(* A transaction that takes effect: the recipient holds that much more. *)
LEMMA ExecutedIs ==
  ASSUME NEW s \in Sims, NEW r \in SimRecord, NEW n \in Fork, ConstantsAssumption,
         sim[s] = r, node[Node(s)] = n, Orderly(r), r.req \in Requests,
         NEW open, Works(n, r, open)
  PROVE  /\ Executed(s) \in Fork
         /\ Received(Executed(s), r) = Received(n, r) + CallOf(r).out
<1>1. PICK take \in Tokens, give \in Tokens, k \in Nat, out \in Nat, to \in Accounts,
           spender \in Spenders \cup {"none"} :
        /\ CallOf(r).take = take /\ CallOf(r).give = give /\ CallOf(r).n = k
        /\ CallOf(r).out = out /\ CallOf(r).to = to /\ CallOf(r).spender = spender
        /\ take # give
  BY CallShape DEF Orderly
<1>2. PICK bal \in [Accounts -> [Tokens -> Nat]], allow \in [Accounts -> [Spenders -> Nat]] :
        bal = n.bal /\ allow = n.allow
  BY DEF Fork
<1>3. bal["wallet"][take] >= k /\ (spender # "none" => allow["wallet"][spender] >= k)
  BY <1>1, <1>2 DEF Works, Wallet
<1>4. PICK paid \in [Accounts -> [Tokens -> Nat]] : paid = [bal EXCEPT !["wallet"][take] = @ - k]
  <2>1. [bal EXCEPT !["wallet"][take] = @ - k] \in [Accounts -> [Tokens -> Nat]]
    BY <1>3 DEF Accounts
  <2> QED BY <2>1
<1>5. PICK got \in [Accounts -> [Tokens -> Nat]] : got = [paid EXCEPT ![to][give] = @ + out]
  <2>1. [paid EXCEPT ![to][give] = @ + out] \in [Accounts -> [Tokens -> Nat]]
    OBVIOUS
  <2> QED BY <2>1
<1>6. PICK left \in [Accounts -> [Spenders -> Nat]] :
        left = IF spender = "none" THEN allow
               ELSE [allow EXCEPT !["wallet"][spender] = @ - k]
  <2>1. CASE spender = "none"
    BY <2>1
  <2>2. CASE spender # "none"
    <3>1. [allow EXCEPT !["wallet"][spender] = @ - k] \in [Accounts -> [Spenders -> Nat]]
      BY <1>3, <2>2 DEF Accounts
    <3> QED BY <2>2, <3>1
  <2> QED BY <2>1, <2>2
<1>7. Executed(s) = [up |-> TRUE, bal |-> got, allow |-> left]
  BY <1>1, <1>2, <1>4, <1>5, <1>6 DEF Executed, Call
<1>8. got[to][give] = bal[to][give] + out
  BY <1>1, <1>4, <1>5
<1> QED BY <1>1, <1>2, <1>7, <1>8 DEF Fork, Received

-----------------------------------------------------------------------------
(* What a step of one simulation leaves *)

Started == OnFork \cup {"start"}

(* The rest of the invariant survives whatever one running simulation does *)
(* to its record, its artifact and its node, if these are sound again.     *)
LEMMA StepKeeps ==
  ASSUME NEW s \in Sims, Inv, ConstantsAssumption, sim[s].at \in Started,
         UNCHANGED <<external, chain, head, alone, routes>>,
         NEW r \in SimRecord, sim' = [sim EXCEPT ![s] = r], r.at \in OnFork \cup {"unstarted", "over"},
         NEW a \in Artifacts, artifact' = [artifact EXCEPT ![s] = a],
         NEW n \in Fork \cup {Down}, node' = [node EXCEPT ![Node(s)] = n],
         external => n \in Fork, n # Down /\ ~external => r.at \in OnFork \cup {"unstarted"},
         healthy' \subseteq healthy, \A t \in Sims : t # s /\ t \in healthy => t \in healthy',
         moved \subseteq moved', moved' \subseteq moved \cup {s},
         faults' \in 0 .. MaxFaults, faults <= faults',
         Orderly(r),
         r.at \in OnFork =>
           Sound(r, n, chain.open, s \in alone, s \in healthy', s \in moved'),
         a.status = "passed" =>
           a.req \in Requests /\ ~Blocked(a.req, TRUE) /\ (s \in alone => s \in moved'),
         a.status = "failed" /\ a.why = "fork" /\ s \in healthy' \cap alone /\ ~Short(a.req) =>
           a.req.to # "wallet" /\ a.req.playbook \in {"swap", "deposit"}
  PROVE  Inv'
<1>1. /\ SimTypes /\ CountTypes /\ RouteTypes /\ \A t \in Sims : SimInv(t)
      /\ \A c \in Submits : SubmitInv(c)
  BY DEF Inv
<1>2. /\ \A t \in Sims : t # s => sim'[t] = sim[t] /\ artifact'[t] = artifact[t]
      /\ sim'[s] = r /\ artifact'[s] = a
      /\ \A k \in Nodes : k # Node(s) => node'[k] = node[k]
      /\ node'[Node(s)] = n
  BY <1>1, NodeIs DEF SimTypes
<1>3. SimTypes' /\ CountTypes' /\ RouteTypes'
  BY <1>1, <1>2, NodeIs DEF SimTypes, CountTypes, RouteTypes, routes
<1>4. faults \in Nat /\ faults' \in Nat
  BY <1>1, ConstantsAssumption DEF CountTypes, ConstantsAssumption
<1>5. s \in Running /\ Running' \subseteq Running /\ Running \subseteq Running' \cup {s}
      /\ (r.at \in OnFork => s \in Running')
  BY <1>2 DEF Running, Started, OnFork, Priced
<1>6. s \notin stored
  BY <1>1 DEF SimInv, Started, OnFork, Priced
<1>7. external' => node'["shared"] \in Fork
  BY NodeIs, <1>2
<1>8. SimInv(s)'
  <2>1. Orderly(sim[s])'
    BY <1>2
  <2>2. Node(s)' = Node(s)
    BY DEF Node
  <2>3. ArtifactInv(s)'
    BY <1>2 DEF ArtifactInv
  <2>4. (external /\ s \in alone \cap Running => \A t \in Running : t = s)'
    BY <1>1, <1>5 DEF SimInv
  <2>5. (node[s] # Down => ~external /\ (s \in Running \/ sim[s].at = "unstarted"))'
    <3>1. CASE external
      <4>1. s # Node(s) /\ s \in Nodes
        BY <3>1, NodeIs DEF Nodes
      <4>2. node'[s] = node[s] /\ node[s] = Down
        BY <3>1, <4>1, <1>1, <1>2 DEF SimInv
      <4> QED BY <4>2
    <3>2. CASE ~external
      BY <3>2, <1>2, <1>5, NodeIs
    <3> QED BY <3>1, <3>2
  <2> QED BY <1>2, <1>6, <2>1, <2>2, <2>3, <2>4, <2>5 DEF SimInv, routes
<1>9. ASSUME NEW t \in Sims, t # s PROVE SimInv(t)'
  <2>1. SimInv(t) /\ sim'[t] = sim[t] /\ artifact'[t] = artifact[t] /\ t \in Nodes
    BY <1>1, <1>2, <1>9 DEF Nodes
  <2>2. Node(t)' = Node(t) /\ Node(t) \in Nodes
    BY NodeIs DEF Node
  <2>3. t \in Running' <=> t \in Running
    BY <2>1 DEF Running
  <2>4. (t \in healthy' <=> t \in healthy) /\ (t \in moved' <=> t \in moved)
    BY <1>9
  <2>5. sim[t].at \in OnFork => t \in Running
    BY DEF Running, OnFork, Priced
  <2>6. (external /\ t \in alone \cap Running => \A u \in Running : u = t)'
    BY <2>1, <2>3, <1>5 DEF SimInv
  <2>7. (node[t] # Down => ~external /\ (t \in Running \/ sim[t].at = "unstarted"))'
    <3>1. node'[t] = node[t]
      <4>1. t # Node(s)
        BY <1>9, NodeIs
      <4> QED BY <4>1, <2>1, <1>2
    <3> QED BY <3>1, <2>1, <2>3, <1>4 DEF SimInv
  <2>8. ASSUME sim[t].at \in OnFork
        PROVE  Sound(sim[t], node[Node(t)], chain.open, t \in alone, t \in healthy, t \in moved)'
    <3>1. Sound(sim[t], node[Node(t)], chain.open, t \in alone, t \in healthy, t \in moved)
      BY <2>1, <2>8 DEF SimInv
    <3>2. CASE Node(t) # Node(s)
      <4>1. node'[Node(t)] = node[Node(t)]
        BY <3>2, <2>2, <1>2
      <4> QED BY <3>1, <4>1, <2>1, <2>2, <2>4 DEF Sound, Funds, Evidence
    <3>3. CASE Node(t) = Node(s)
      <4>1. external
        BY <3>3, <1>9, NodeIs
      <4>2. t \notin alone
        BY <4>1, <2>1, <2>5, <2>8, <1>5, <1>9 DEF SimInv
      <4>3. node'[Node(t)] \in Fork
        BY <4>1, <3>3, <1>2
      <4> QED BY <3>1, <4>2, <4>3, <2>2, <2>4 DEF Sound
    <3> QED BY <3>2, <3>3
  <2>9. ArtifactInv(t)'
    BY <2>1, <2>4 DEF SimInv, ArtifactInv
  <2> QED BY <2>1, <2>2, <2>6, <2>7, <2>8, <2>9 DEF SimInv, routes
<1>10. ASSUME NEW x, Passed(x) PROVE Passed(x)' /\ artifact'[x] = artifact[x]
  BY <1>10, <1>1, <1>2, <1>6 DEF Passed, RouteTypes, routes
<1>11. ASSUME NEW c \in Submits PROVE SubmitInv(c)'
  <2>1. SubmitInv(c)
    BY <1>1
  <2>2. UNCHANGED <<submit, unread, proposals, safeNonce, head>>
    BY DEF routes
  <2>3. submit[c].at \in Holding => submit[c].at \notin Fresh
    BY DEF Holding, Fresh
  <2> QED BY <2>1, <2>2, <2>3, <1>10 DEF SubmitInv, Proposal
<1>12. ProposalInv'
  BY <1>10 DEF Inv, ProposalInv, routes
<1>13. RecordsMatch'
  BY <1>4 DEF Inv, RecordsMatch, Proposal, routes
<1> QED BY <1>3, <1>7, <1>8, <1>9, <1>11, <1>12, <1>13 DEF Inv

(* What every step of a started simulation s has in common. *)
StepOf(s) ==
  /\ sim[s].at \in Started
  /\ UNCHANGED <<external, chain, head, alone, routes>>
  /\ NoFault \/ Fault
  /\ healthy' = healthy \/ Unhealthy(s)
  /\ moved' = moved \/ moved' = moved \cup {s}

LEMMA StepParts ==
  ASSUME NEW s \in Sims, Inv, ConstantsAssumption, StepOf(s)
  PROVE  /\ sim[s].at \in Started /\ UNCHANGED <<external, chain, head, alone, routes>>
         /\ healthy' \subseteq healthy /\ \A t \in Sims : t # s /\ t \in healthy => t \in healthy'
         /\ moved \subseteq moved' /\ moved' \subseteq moved \cup {s}
         /\ faults' \in 0 .. MaxFaults /\ faults <= faults'
         /\ sim[s] \in SimRecord /\ artifact[s] \in Artifacts
         /\ sim[s].req \in Requests /\ Orderly(sim[s]) /\ ArtifactInv(s)
<1>1. SimTypes /\ CountTypes /\ SimInv(s)
  BY DEF Inv
<1>2. faults' \in 0 .. MaxFaults /\ faults <= faults'
  BY <1>1, ConstantsAssumption DEF CountTypes, ConstantsAssumption, StepOf, NoFault, Fault
<1>3. /\ healthy' \subseteq healthy /\ \A t \in Sims : t # s /\ t \in healthy => t \in healthy'
      /\ moved \subseteq moved' /\ moved' \subseteq moved \cup {s}
  BY DEF StepOf, Unhealthy
<1>4. sim[s] \in SimRecord /\ artifact[s] \in Artifacts
  BY <1>1 DEF SimTypes
<1> QED BY <1>1, <1>2, <1>3, <1>4 DEF StepOf, SimInv, Orderly, Started

(* A simulation that goes on has no artifact yet. *)
LEMMA GoesOn ==
  ASSUME NEW s \in Sims, Inv, ConstantsAssumption, StepOf(s),
         NEW r \in SimRecord, sim' = [sim EXCEPT ![s] = r], r.at \in OnFork, Orderly(r),
         NEW n \in Fork, node' = [node EXCEPT ![Node(s)] = n], UNCHANGED artifact,
         Sound(r, n, chain.open, s \in alone, s \in healthy', s \in moved')
  PROVE  Inv'
<1>1. PICK a \in Artifacts : a = artifact[s]
  BY StepParts
<1>2. SimTypes /\ ArtifactInv(s)
  BY StepParts DEF Inv
<1>3. artifact' = [artifact EXCEPT ![s] = a]
  BY <1>1, <1>2 DEF SimTypes
<1>4. /\ a.status = "passed" =>
           a.req \in Requests /\ ~Blocked(a.req, TRUE) /\ (s \in alone => s \in moved')
      /\ a.status = "failed" /\ a.why = "fork" /\ s \in healthy' \cap alone /\ ~Short(a.req) =>
           a.req.to # "wallet" /\ a.req.playbook \in {"swap", "deposit"}
  BY <1>1, <1>2, StepParts DEF ArtifactInv
<1>5. r.at \in OnFork \cup {"unstarted", "over"}
  OBVIOUS
<1> QED BY <1>1, <1>3, <1>4, <1>5, StepParts, StepKeeps

LEMMA OverIs ==
  ASSUME NEW s \in Sims, Over(s)
  PROVE  \E r \in SimRecord : sim' = [sim EXCEPT ![s] = r] /\ r.at = "over" /\ Orderly(r)
<1>1. PICK r \in SimRecord :
        r = [at |-> "over", req |-> NoRequest, leg |-> "main", until |-> 0, before |-> 0,
             shares |-> 0]
  BY DEF SimRecord, SimStates
<1>2. [NoSim EXCEPT !.at = "over"] = r
  BY <1>1 DEF NoSim
<1>3. sim' = [sim EXCEPT ![s] = r]
  BY <1>2, Zenon DEF Over
<1>4. Orderly(r)
  BY <1>1 DEF Orderly, OnFork, Priced
<1> QED BY <1>1, <1>3, <1>4

LEMMA StopIs ==
  ASSUME NEW s \in Sims, Inv, ConstantsAssumption, Stop(s)
  PROVE  \E n \in Fork \cup {Down} :
           /\ node' = [node EXCEPT ![Node(s)] = n]
           /\ external => n \in Fork
           /\ ~external => n = Down
<1>1. node \in [Nodes -> Fork \cup {Down}] /\ (external => node["shared"] \in Fork)
  BY DEF Inv, SimTypes
<1>2. CASE external
  <2>1. node' = [node EXCEPT ![Node(s)] = node["shared"]] /\ node["shared"] \in Fork
    BY <1>1, <1>2, NodeIs DEF Stop
  <2> QED BY <1>2, <2>1
<1>3. CASE ~external
  BY <1>3, NodeIs DEF Stop
<1> QED BY <1>2, <1>3

LEMMA ReturnKeeps ==
  ASSUME NEW s \in Sims, Inv, ConstantsAssumption, StepOf(s),
         NEW status \in {"passed", "failed"}, NEW why \in {"none", "policy", "oracle", "fork"},
         Return(s, status, why),
         status = "passed" => ~Blocked(Req(s), TRUE) /\ (s \in alone => s \in moved'),
         status = "failed" /\ why = "fork" /\ s \in healthy' \cap alone /\ ~Short(Req(s)) =>
           Req(s).to # "wallet" /\ Req(s).playbook \in {"swap", "deposit"}
  PROVE  Inv'
<1>1. PICK r \in SimRecord : sim' = [sim EXCEPT ![s] = r] /\ r.at = "over" /\ Orderly(r)
  BY OverIs DEF Return
<1>2. PICK n \in Fork \cup {Down} :
        node' = [node EXCEPT ![Node(s)] = n] /\ (external => n \in Fork) /\ (~external => n = Down)
  BY StopIs DEF Return
<1>3. PICK a \in Artifacts :
        artifact' = [artifact EXCEPT ![s] = a] /\ a.status = status /\ a.why = why /\ a.req = Req(s)
  <2>1. [status |-> status, why |-> why, req |-> Req(s),
         until |-> IF why \in {"policy", "oracle"} THEN 0 ELSE sim[s].until] \in Artifacts
    BY StepParts DEF Artifacts, SimRecord, Req
  <2> QED BY <2>1 DEF Return
<1>4. /\ a.status = "passed" =>
           a.req \in Requests /\ ~Blocked(a.req, TRUE) /\ (s \in alone => s \in moved')
      /\ a.status = "failed" /\ a.why = "fork" /\ s \in healthy' \cap alone /\ ~Short(a.req) =>
           a.req.to # "wallet" /\ a.req.playbook \in {"swap", "deposit"}
  BY <1>3, StepParts DEF Req
<1>5. r.at \in OnFork \cup {"unstarted", "over"} /\ r.at \notin OnFork
  BY <1>1 DEF OnFork, Priced
<1>6. r.at \in OnFork => Sound(r, n, chain.open, s \in alone, s \in healthy', s \in moved')
  BY <1>5
<1>7. n # Down /\ ~external => r.at \in OnFork \cup {"unstarted"}
  BY <1>2
<1> QED BY <1>1, <1>2, <1>3, <1>4, <1>5, <1>6, <1>7, StepParts, StepKeeps

LEMMA ThrowKeeps ==
  ASSUME NEW s \in Sims, Inv, ConstantsAssumption, StepOf(s), Throw(s)
  PROVE  Inv'
<1>1. PICK r \in SimRecord : sim' = [sim EXCEPT ![s] = r] /\ r.at = "over" /\ Orderly(r)
  BY OverIs DEF Throw
<1>2. PICK n \in Fork \cup {Down} :
        node' = [node EXCEPT ![Node(s)] = n] /\ (external => n \in Fork) /\ (~external => n = Down)
  BY StopIs DEF Throw
<1>3. PICK a \in Artifacts : a = artifact[s]
  BY StepParts
<1>4. SimTypes /\ ArtifactInv(s) /\ UNCHANGED artifact
  BY StepParts DEF Inv, Throw
<1>5. artifact' = [artifact EXCEPT ![s] = a]
  BY <1>3, <1>4 DEF SimTypes
<1>6. /\ a.status = "passed" =>
           a.req \in Requests /\ ~Blocked(a.req, TRUE) /\ (s \in alone => s \in moved')
      /\ a.status = "failed" /\ a.why = "fork" /\ s \in healthy' \cap alone /\ ~Short(a.req) =>
           a.req.to # "wallet" /\ a.req.playbook \in {"swap", "deposit"}
  BY <1>3, <1>4, StepParts DEF ArtifactInv
<1>7. r.at \in OnFork \cup {"unstarted", "over"} /\ r.at \notin OnFork
  BY <1>1 DEF OnFork, Priced
<1>8. r.at \in OnFork => Sound(r, n, chain.open, s \in alone, s \in healthy', s \in moved')
  BY <1>7
<1>9. n # Down /\ ~external => r.at \in OnFork \cup {"unstarted"}
  BY <1>2
<1> QED BY <1>1, <1>2, <1>3, <1>5, <1>6, <1>7, <1>8, <1>9, StepParts, StepKeeps

-----------------------------------------------------------------------------
(* Where a simulation goes on *)

LEMMA GotoIs ==
  ASSUME NEW s \in Sims, sim \in [Sims -> SimRecord], NEW at \in SimStates, Goto(s, at)
  PROVE  \E r \in SimRecord :
           /\ sim' = [sim EXCEPT ![s] = r]
           /\ r = [at |-> at, req |-> sim[s].req, leg |-> sim[s].leg, until |-> sim[s].until,
                   before |-> sim[s].before, shares |-> sim[s].shares]
<1>1. PICK q \in SimRecord : q = sim[s]
  OBVIOUS
<1>2. PICK r \in SimRecord :
        r = [at |-> at, req |-> q.req, leg |-> q.leg, until |-> q.until,
             before |-> q.before, shares |-> q.shares]
  BY DEF SimRecord
<1>3. [q EXCEPT !.at = at] = r
  BY <1>2 DEF SimRecord
<1>4. sim' = [sim EXCEPT ![s] = [q EXCEPT !.at = at]]
  BY <1>1, Zenon DEF Goto
<1>5. sim' = [sim EXCEPT ![s] = r]
  BY <1>3, <1>4, Zenon
<1> QED BY <1>1, <1>2, <1>5

Enters(s, at, leg) == sim' = [sim EXCEPT ![s].at = at, ![s].leg = leg]

LEMMA LegIs ==
  ASSUME NEW s \in Sims, sim \in [Sims -> SimRecord], NEW at \in SimStates,
         NEW leg \in {"setup", "main"}, Enters(s, at, leg)
  PROVE  \E r \in SimRecord :
           /\ sim' = [sim EXCEPT ![s] = r]
           /\ r = [at |-> at, req |-> sim[s].req, leg |-> leg, until |-> sim[s].until,
                   before |-> sim[s].before, shares |-> sim[s].shares]
<1>1. PICK q \in SimRecord : q = sim[s]
  OBVIOUS
<1>2. PICK m \in SimRecord :
        m = [at |-> at, req |-> q.req, leg |-> q.leg, until |-> q.until,
             before |-> q.before, shares |-> q.shares]
  BY DEF SimRecord
<1>3. PICK r \in SimRecord :
        r = [at |-> at, req |-> q.req, leg |-> leg, until |-> q.until,
             before |-> q.before, shares |-> q.shares]
  BY DEF SimRecord
<1>4. [q EXCEPT !.at = at] = m /\ [m EXCEPT !.leg = leg] = r
  BY <1>2, <1>3 DEF SimRecord
<1>5. sim' = [sim EXCEPT ![s] = [[q EXCEPT !.at = at] EXCEPT !.leg = leg]]
  BY <1>1, Zenon DEF Enters
<1>6. sim' = [sim EXCEPT ![s] = r]
  BY <1>4, <1>5, Zenon
<1> QED BY <1>1, <1>3, <1>6

LEMMA SharesAre ==
  ASSUME NEW s \in Sims, sim \in [Sims -> SimRecord], NEW k \in Nat,
         sim' = [sim EXCEPT ![s].at = "check", ![s].leg = "main", ![s].shares = k]
  PROVE  \E r \in SimRecord :
           /\ sim' = [sim EXCEPT ![s] = r]
           /\ r = [at |-> "check", req |-> sim[s].req, leg |-> "main", until |-> sim[s].until,
                   before |-> sim[s].before, shares |-> k]
<1>1. PICK q \in SimRecord : q = sim[s]
  OBVIOUS
<1>2. PICK m \in SimRecord :
        m = [at |-> "check", req |-> q.req, leg |-> q.leg, until |-> q.until,
             before |-> q.before, shares |-> q.shares]
  BY DEF SimRecord, SimStates, OnFork, Priced
<1>3. PICK l \in SimRecord :
        l = [at |-> "check", req |-> q.req, leg |-> "main", until |-> q.until,
             before |-> q.before, shares |-> q.shares]
  BY DEF SimRecord, SimStates, OnFork, Priced
<1>4. PICK r \in SimRecord :
        r = [at |-> "check", req |-> q.req, leg |-> "main", until |-> q.until,
             before |-> q.before, shares |-> k]
  BY DEF SimRecord, SimStates, OnFork, Priced
<1>5. /\ [q EXCEPT !.at = "check"] = m /\ [m EXCEPT !.leg = "main"] = l
      /\ [l EXCEPT !.shares = k] = r
  BY <1>2, <1>3, <1>4 DEF SimRecord
<1>6. sim' = [sim EXCEPT ![s] = [[[q EXCEPT !.at = "check"] EXCEPT !.leg = "main"]
                                  EXCEPT !.shares = k]]
  BY <1>1, Zenon
<1>7. sim' = [sim EXCEPT ![s] = r]
  BY <1>5, <1>6, Zenon
<1> QED BY <1>1, <1>4, <1>7

Notes(s, at, k) == sim' = [sim EXCEPT ![s].at = at, ![s].before = k]

LEMMA BeforeIs ==
  ASSUME NEW s \in Sims, sim \in [Sims -> SimRecord], NEW at \in SimStates, NEW k \in Nat,
         Notes(s, at, k)
  PROVE  \E r \in SimRecord :
           /\ sim' = [sim EXCEPT ![s] = r]
           /\ r = [at |-> at, req |-> sim[s].req, leg |-> sim[s].leg, until |-> sim[s].until,
                   before |-> k, shares |-> sim[s].shares]
<1>1. PICK q \in SimRecord : q = sim[s]
  OBVIOUS
<1>2. PICK m \in SimRecord :
        m = [at |-> at, req |-> q.req, leg |-> q.leg, until |-> q.until,
             before |-> q.before, shares |-> q.shares]
  BY DEF SimRecord
<1>3. PICK r \in SimRecord :
        r = [at |-> at, req |-> q.req, leg |-> q.leg, until |-> q.until,
             before |-> k, shares |-> q.shares]
  BY DEF SimRecord
<1>4. [q EXCEPT !.at = at] = m /\ [m EXCEPT !.before = k] = r
  BY <1>2, <1>3 DEF SimRecord
<1>5. sim' = [sim EXCEPT ![s] = [[q EXCEPT !.at = at] EXCEPT !.before = k]]
  BY <1>1, Zenon DEF Notes
<1>6. sim' = [sim EXCEPT ![s] = r]
  BY <1>4, <1>5, Zenon
<1> QED BY <1>1, <1>3, <1>6

LEMMA ForksIs ==
  ASSUME NEW s \in Sims, sim \in [Sims -> SimRecord], NEW block \in Nat, Forks(s, block),
         ConstantsAssumption
  PROVE  \E r \in SimRecord :
           /\ sim' = [sim EXCEPT ![s] = r]
           /\ r = [at |-> "fund", req |-> sim[s].req, leg |-> sim[s].leg,
                   until |-> block + ValidFor, before |-> sim[s].before, shares |-> sim[s].shares]
<1>1. PICK q \in SimRecord : q = sim[s]
  OBVIOUS
<1>2. PICK m \in SimRecord :
        m = [at |-> "fund", req |-> q.req, leg |-> q.leg, until |-> q.until,
             before |-> q.before, shares |-> q.shares]
  BY DEF SimRecord, SimStates, OnFork
<1>3. PICK k \in Nat : k = block + ValidFor
  BY ConstantsAssumption DEF ConstantsAssumption
<1>4. PICK r \in SimRecord :
        r = [at |-> "fund", req |-> q.req, leg |-> q.leg, until |-> k,
             before |-> q.before, shares |-> q.shares]
  BY DEF SimRecord, SimStates, OnFork
<1>5. [q EXCEPT !.at = "fund"] = m /\ [m EXCEPT !.until = k] = r
  BY <1>2, <1>4 DEF SimRecord
<1>6. sim' = [sim EXCEPT ![s] = [[q EXCEPT !.at = "fund"] EXCEPT !.until = k]]
  BY <1>1, <1>3, Zenon DEF Forks
<1>7. sim' = [sim EXCEPT ![s] = r]
  BY <1>5, <1>6, Zenon
<1> QED BY <1>1, <1>3, <1>4, <1>7

-----------------------------------------------------------------------------
(* The steps of the playbooks *)

LEMMA HereIs ==
  ASSUME NEW s \in Sims, Inv, ConstantsAssumption, sim[s].at \in OnFork
  PROVE  /\ sim \in [Sims -> SimRecord] /\ sim[s] \in SimRecord /\ sim[s].req \in Requests
         /\ Orderly(sim[s]) /\ node[Node(s)] \in Fork
         /\ Sound(sim[s], node[Node(s)], chain.open, s \in alone, s \in healthy, s \in moved)
         /\ UNCHANGED node => node' = [node EXCEPT ![Node(s)] = node[Node(s)]]
<1>1. SimTypes /\ SimInv(s)
  BY DEF Inv
<1>2. Sound(sim[s], node[Node(s)], chain.open, s \in alone, s \in healthy, s \in moved)
  BY <1>1 DEF SimInv
<1>3. UNCHANGED node => node' = [node EXCEPT ![Node(s)] = node[Node(s)]]
  BY <1>1, NodeIs DEF SimTypes
<1> QED BY <1>1, <1>2, <1>3 DEF SimTypes, SimInv, Orderly, Sound

LEMMA ReceivedIs ==
  ASSUME NEW r \in SimRecord, NEW n \in Fork, ConstantsAssumption, Orderly(r), r.req \in Requests
  PROVE  /\ Received(n, r) \in Nat
         /\ \A token \in Tokens : Wallet(n, token) \in Nat
         /\ \A w \in Spenders : n.allow["wallet"][w] \in Nat
<1>1. CallOf(r).give \in Tokens /\ CallOf(r).to \in Accounts
  BY CallShape DEF Orderly
<1> QED BY <1>1 DEF Received, Wallet, Fork, Accounts

(* ... on the node as it is. *)
LEMMA StaysOn ==
  ASSUME NEW s \in Sims, Inv, ConstantsAssumption, StepOf(s), sim[s].at \in OnFork,
         NEW r \in SimRecord, sim' = [sim EXCEPT ![s] = r], r.at \in OnFork, Orderly(r),
         UNCHANGED <<node, artifact>>,
         Sound(r, node[Node(s)], chain.open, s \in alone, s \in healthy', s \in moved')
  PROVE  Inv'
<1>1. PICK n \in Fork : n = node[Node(s)] /\ node' = [node EXCEPT ![Node(s)] = n]
  BY HereIs
<1> QED BY <1>1, GoesOn

LEMMA FailLegKeeps ==
  ASSUME NEW s \in Sims, Inv, ConstantsAssumption, StepOf(s), sim[s].at \in Priced, FailLeg(s),
         s \in healthy' \cap alone /\ ~Short(Req(s)) =>
           /\ sim[s].leg = "main"
           /\ Req(s).to # "wallet" /\ Req(s).playbook \in {"swap", "deposit"}
  PROVE  Inv'
<1>1. /\ sim[s].at \in OnFork /\ sim \in [Sims -> SimRecord] /\ Orderly(sim[s])
      /\ Sound(sim[s], node[Node(s)], chain.open, s \in alone, s \in healthy, s \in moved)
      /\ sim[s] \in SimRecord /\ sim[s].req \in Requests
  BY HereIs DEF OnFork
<1>2. healthy' \subseteq healthy
  BY StepParts
<1>3. CASE sim[s].leg = "setup" /\ Req(s).playbook # "redeem"
  <2>1. Enters(s, "check", "main") /\ UNCHANGED <<node, artifact>>
    BY <1>3 DEF FailLeg, Enters
  <2>2. PICK r \in SimRecord :
          /\ sim' = [sim EXCEPT ![s] = r]
          /\ r = [at |-> "check", req |-> sim[s].req, leg |-> "main", until |-> sim[s].until,
                  before |-> sim[s].before, shares |-> sim[s].shares]
    BY <1>1, <2>1, LegIs DEF SimStates, OnFork, Priced
  <2>3. r.at \in OnFork /\ Orderly(r)
    BY <1>1, <2>2 DEF Orderly, OnFork, Priced
  <2>4. ~OnFirstLeg(r)
    BY <1>1, <1>3, <2>2 DEF OnFirstLeg, Orderly
  <2>5. Sound(r, node[Node(s)], chain.open, s \in alone, s \in healthy', s \in moved')
    BY <1>1, <1>2, <1>3, <2>2, <2>4 DEF Sound, Funds, Evidence, Req
  <2> QED BY <1>1, <2>1, <2>2, <2>3, <2>5, StaysOn
<1>4. CASE ~(sim[s].leg = "setup" /\ Req(s).playbook # "redeem")
  <2>1. Return(s, "failed", "fork")
    BY <1>4 DEF FailLeg
  <2> QED BY <2>1, ReturnKeeps
<1> QED BY <1>3, <1>4

LEMMA PassLegKeeps ==
  ASSUME NEW s \in Sims, Inv, ConstantsAssumption, StepOf(s), sim[s].at = "verify", PassLeg(s),
         UNCHANGED <<healthy, moved>>,
         Req(s).playbook = "swap" => Received(node[Node(s)], sim[s]) > sim[s].before
  PROVE  Inv'
<1>0. sim[s].at \in OnFork
  BY DEF OnFork, Priced
<1>1. PICK q \in SimRecord, n \in Fork : q = sim[s] /\ n = node[Node(s)]
  BY <1>0, HereIs
<1>2. /\ sim \in [Sims -> SimRecord] /\ Orderly(q) /\ q.req \in Requests
      /\ Sound(q, n, chain.open, s \in alone, s \in healthy, s \in moved)
  BY <1>0, <1>1, HereIs
<1>3. Received(n, q) \in Nat /\ \A token \in Tokens : Wallet(n, token) \in Nat
  BY <1>2, ReceivedIs
<1>4. CASE q.leg = "setup"
  <2>0. FirstLeg(q.req.playbook) = "setup"
    BY <1>2, <1>4 DEF Orderly
  <2>1. PICK k \in Nat : k = IF Req(s).playbook = "redeem" THEN Bal(s, "wallet", "shares") ELSE 0
    BY <1>1, <1>3 DEF Bal, Wallet, Tokens
  <2>2. /\ sim' = [sim EXCEPT ![s].at = "check", ![s].leg = "main", ![s].shares = k]
        /\ UNCHANGED <<node, artifact>>
    BY <1>1, <1>4, <2>1 DEF PassLeg
  <2>3. PICK r \in SimRecord :
          /\ sim' = [sim EXCEPT ![s] = r]
          /\ r = [at |-> "check", req |-> q.req, leg |-> "main", until |-> q.until,
                  before |-> q.before, shares |-> k]
    BY <1>1, <1>2, <2>2, SharesAre
  <2>4. r.at \in OnFork /\ Orderly(r) /\ ~OnFirstLeg(r)
    BY <1>1, <1>2, <1>4, <2>0, <2>3 DEF Orderly, OnFork, Priced, OnFirstLeg
  <2>5. /\ CallOf(r).take = CallOf(q).give
        /\ q.req.playbook = "redeem" => CallOf(r).n = k /\ CallOf(q).give = "shares"
        /\ q.req.playbook # "redeem" => CallOf(r).n = Amount
    BY <1>2, <1>4, <2>0, <2>3, NextLeg
  <2>6. CallOf(q).to = "wallet" /\ CallOf(q).out >= Amount /\ CallOf(q).out \in Nat
    BY <1>2, <1>4, <2>0, CallShape
  <2>7. Received(n, q) = Wallet(n, CallOf(r).take)
    BY <2>5, <2>6 DEF Received, Wallet
  <2>8. q.req.playbook = "redeem" => k = Received(n, q)
    BY <1>1, <2>1, <2>5, <2>6 DEF Received, Bal, Req
  <2>9. ASSUME s \in alone, s \in healthy, ~Short(q.req) PROVE Health(r, n)
    <3>1. Received(n, q) >= CallOf(q).out
      BY <1>1, <1>2, <2>9 DEF Sound, Health
    <3>2. Amount \in Nat \ {0}
      BY ConstantsAssumption DEF ConstantsAssumption
    <3>3. Received(n, q) >= Amount
      BY <1>3, <2>6, <3>1, <3>2
    <3>4. r.at # "verify"
      BY <2>3
    <3>5. CallOf(r).n > 0 /\ Wallet(n, CallOf(r).take) >= CallOf(r).n
      BY <1>3, <2>5, <2>7, <2>8, <3>2, <3>3
    <3> QED BY <3>4, <3>5 DEF Health
  <2>10. Funds(r, n) /\ Evidence(r, n, chain.open, s \in moved')
    BY <2>3, <2>4 DEF Funds, Evidence
  <2>11. Sound(r, n, chain.open, s \in alone, s \in healthy', s \in moved')
    BY <1>2, <2>3, <2>9, <2>10 DEF Sound
  <2> QED BY <1>0, <1>1, <2>2, <2>3, <2>4, <2>11, StaysOn
<1>5. CASE q.leg = "main"
  <2>1. Return(s, "passed", "none")
    BY <1>1, <1>5 DEF PassLeg
  <2>2. ~Blocked(Req(s), TRUE)
    BY <1>1, <1>2 DEF Orderly, Priced, Req
  <2>3. s \in alone => s \in moved'
    <3>1. SUFFICES ASSUME s \in alone PROVE s \in moved
      OBVIOUS
    <3>2. s \in moved \/ (q.req.playbook = "swap" /\ Received(n, q) = q.before)
      BY <1>1, <1>2, <1>5, <3>1 DEF Sound, Evidence
    <3> QED BY <1>1, <1>3, <3>2 DEF Req, SimRecord
  <2> QED BY <2>1, <2>2, <2>3, ReturnKeeps
<1> QED BY <1>4, <1>5 DEF SimRecord

LEMMA CheckKeeps ==
  ASSUME NEW s \in Sims, Inv, ConstantsAssumption, UNCHANGED routes,
         NEW enough \in BOOLEAN, NEW next \in {"approve", "estimate"}, Check(s, enough, next),
         next = "estimate" => ~OnFirstLeg(sim[s]),
         ~enough /\ s \in healthy \cap alone /\ ~Short(Req(s)) =>
           /\ sim[s].leg = "main"
           /\ Req(s).to # "wallet" /\ Req(s).playbook \in {"swap", "deposit"}
  PROVE  Inv'
<1>1. sim[s].at = "check" /\ sim[s].at \in OnFork /\ sim[s].at \in Priced
  BY DEF Check, OnFork, Priced
<1>2. PICK q \in SimRecord, n \in Fork : q = sim[s] /\ n = node[Node(s)]
  BY <1>1, HereIs
<1>3. /\ sim \in [Sims -> SimRecord] /\ Orderly(q) /\ q.req \in Requests
      /\ Sound(q, n, chain.open, s \in alone, s \in healthy, s \in moved)
  BY <1>1, <1>2, HereIs
<1>4. CASE /\ enough /\ NoFault /\ UNCHANGED <<node, artifact, healthy>>
           /\ sim' = [sim EXCEPT ![s].at = next, ![s].before = Bal(s, Call(s).to, Call(s).give)]
           /\ Same
  <2>1. StepOf(s) /\ UNCHANGED <<healthy, moved>>
    BY <1>1, <1>4 DEF StepOf, Same, Started
  <2>2. PICK k \in Nat : k = Received(n, q) /\ k = Bal(s, Call(s).to, Call(s).give)
    BY <1>2, <1>3, ReceivedIs DEF Bal, Received, Call
  <2>3. PICK r \in SimRecord :
          /\ sim' = [sim EXCEPT ![s] = r]
          /\ r = [at |-> next, req |-> q.req, leg |-> q.leg, until |-> q.until,
                  before |-> k, shares |-> q.shares]
    <3>1. Notes(s, next, k)
      BY <1>4, <2>2, Zenon DEF Notes
    <3>2. next \in SimStates
      BY DEF SimStates, OnFork, Priced
    <3> QED BY <1>2, <1>3, <3>1, <3>2, BeforeIs
  <2>4. r.at \in OnFork /\ Orderly(r)
    BY <1>1, <1>2, <1>3, <2>3 DEF Orderly, OnFork, Priced
  <2>5. CallOf(r) = CallOf(q) /\ OnFirstLeg(r) = OnFirstLeg(q)
    BY <2>3, SameCall
  <2>6. Received(n, r) = k
    BY <2>2, <2>5 DEF Received
  <2>7. ASSUME s \in alone PROVE Funds(r, n)
    BY <1>1, <1>2, <1>3, <2>3, <2>5, <2>7 DEF Sound, Funds, Priced
  <2>8. Evidence(r, n, chain.open, s \in moved')
    BY <2>3, <2>6 DEF Evidence
  <2>9. ASSUME s \in alone, s \in healthy, ~Short(q.req) PROVE Health(r, n)
    BY <1>1, <1>2, <1>3, <2>3, <2>5, <2>9 DEF Sound, Health, Priced
  <2>10. Sound(r, n, chain.open, s \in alone, s \in healthy', s \in moved')
    BY <1>3, <2>1, <2>3, <2>7, <2>8, <2>9 DEF Sound
  <2> QED BY <1>1, <1>2, <1>4, <2>1, <2>3, <2>4, <2>10, StaysOn
<1>5. CASE ~enough /\ NoFault /\ FailLeg(s) /\ UNCHANGED healthy /\ Same
  <2>1. StepOf(s)
    BY <1>1, <1>5 DEF StepOf, Same, Started
  <2> QED BY <1>1, <1>5, <2>1, FailLegKeeps
<1>6. CASE Fault /\ Throw(s) /\ Unhealthy(s) /\ Same
  <2>1. StepOf(s)
    BY <1>1, <1>6 DEF StepOf, Same, Started
  <2> QED BY <1>6, <2>1, ThrowKeeps
<1> QED BY <1>4, <1>5, <1>6 DEF Check

LEMMA ApproveKeeps ==
  ASSUME NEW s \in Sims, Inv, ConstantsAssumption, UNCHANGED routes,
         NEW next \in {"estimate", "send"}, Approve(s, next), OnFirstLeg(sim[s]),
         next = "send" => sim[s].leg = "setup"
  PROVE  Inv'
<1>1. sim[s].at = "approve" /\ sim[s].at \in OnFork
  BY DEF Approve, OnFork, Priced
<1>2. PICK q \in SimRecord, n \in Fork : q = sim[s] /\ n = node[Node(s)]
  BY <1>1, HereIs
<1>3. /\ sim \in [Sims -> SimRecord] /\ Orderly(q) /\ q.req \in Requests
      /\ Sound(q, n, chain.open, s \in alone, s \in healthy, s \in moved)
  BY <1>1, <1>2, HereIs
<1>4. StepOf(s) /\ UNCHANGED <<healthy, moved>>
  BY <1>1 DEF Approve, StepOf, Same, Started
<1>5. PICK w \in Spenders, k \in Nat : w = CallOf(q).spender /\ k = CallOf(q).n
  BY <1>2, <1>3, CallShape DEF Orderly
<1>6. PICK bal \in [Accounts -> [Tokens -> Nat]], allow \in [Accounts -> [Spenders -> Nat]] :
        n = [up |-> TRUE, bal |-> bal, allow |-> allow]
  BY DEF Fork
<1>7. PICK given \in [Accounts -> [Spenders -> Nat]] :
        given = [allow EXCEPT !["wallet"] = [allow["wallet"] EXCEPT ![w] = k]]
  <2>1. [allow EXCEPT !["wallet"] = [allow["wallet"] EXCEPT ![w] = k]]
          \in [Accounts -> [Spenders -> Nat]]
    BY DEF Accounts
  <2> QED BY <2>1
<1>8. PICK m \in Fork : m = [up |-> TRUE, bal |-> bal, allow |-> given]
  BY DEF Fork
<1>9. node' = [node EXCEPT ![Node(s)] = m]
  <2>1. node' = [node EXCEPT ![Node(s)] = [node[Node(s)] EXCEPT !.allow =
                   [node[Node(s)].allow EXCEPT !["wallet"] =
                      [node[Node(s)].allow["wallet"] EXCEPT ![Call(s).spender] = Call(s).n]]]]
    BY Zenon DEF Approve
  <2>2. Call(s).spender = w /\ Call(s).n = k
    BY <1>2, <1>5 DEF Call
  <2>3. node' = [node EXCEPT ![Node(s)] = [n EXCEPT !.allow =
                   [n.allow EXCEPT !["wallet"] = [n.allow["wallet"] EXCEPT ![w] = k]]]]
    BY <1>2, <2>1, <2>2, Zenon
  <2>4. n.allow = allow
    BY <1>6
  <2>5. node' = [node EXCEPT ![Node(s)] = [n EXCEPT !.allow = given]]
    BY <1>7, <2>3, <2>4, Zenon
  <2>6. [n EXCEPT !.allow = given] = m
    <3>1. [n EXCEPT !.allow = given] = [up |-> n.up, bal |-> n.bal, allow |-> given]
      BY DEF Fork
    <3> QED BY <1>6, <1>8, <3>1
  <2> QED BY <2>5, <2>6, Zenon
<1>10. PICK r \in SimRecord :
         /\ sim' = [sim EXCEPT ![s] = r]
         /\ r = [at |-> next, req |-> q.req, leg |-> q.leg, until |-> q.until,
                 before |-> q.before, shares |-> q.shares]
  BY <1>2, <1>3, GotoIs DEF Approve, SimStates, OnFork, Priced
<1>11. r.at \in OnFork /\ Orderly(r)
  BY <1>1, <1>2, <1>3, <1>10 DEF Orderly, OnFork, Priced
<1>12. CallOf(r) = CallOf(q) /\ OnFirstLeg(r) = OnFirstLeg(q)
  BY <1>10, SameCall
<1>13. m.bal = n.bal /\ m.allow["wallet"][w] = k
  BY <1>6, <1>7, <1>8 DEF Accounts
<1>14. ASSUME s \in alone PROVE Funds(r, m) /\ Evidence(r, m, chain.open, s \in moved')
  <2>1. Funds(q, n) /\ Evidence(q, n, chain.open, s \in moved)
    BY <1>3, <1>14 DEF Sound
  <2>2. Wallet(n, Asset(q.req.playbook)) >= Funding(q.req, Asset(q.req.playbook))
    BY <1>1, <1>2, <2>1 DEF Funds, Priced
  <2>3. Wallet(m, Asset(r.req.playbook)) >= Funding(r.req, Asset(r.req.playbook))
    BY <1>10, <1>13, <2>2 DEF Wallet
  <2>4. m.allow["wallet"][CallOf(r).spender] >= CallOf(r).n
    BY <1>5, <1>12, <1>13
  <2>5. Received(m, r) = Received(n, q)
    BY <1>12, <1>13 DEF Received
  <2>6. Evidence(r, m, chain.open, s \in moved')
    BY <1>1, <1>2, <1>10, <2>1, <2>5 DEF Evidence
  <2> QED BY <2>3, <2>4, <2>6 DEF Funds
<1>15. Health(r, m)
  BY <1>2, <1>10, <1>12 DEF Health
<1>16. Sound(r, m, chain.open, s \in alone, s \in healthy', s \in moved')
  BY <1>3, <1>4, <1>14, <1>15 DEF Sound
<1> QED BY <1>1, <1>4, <1>9, <1>10, <1>11, <1>16, GoesOn DEF Approve

(* Where nothing interferes, the wallet's transaction would succeed. *)
LEMMA WorksHere ==
  ASSUME NEW s \in Sims, Inv, ConstantsAssumption, sim[s].at \in {"estimate", "send"},
         s \in alone, s \in healthy, ~Short(Req(s))
  PROVE  Works(node[Node(s)], sim[s], chain.open)
<1>1. sim[s].at \in OnFork /\ sim[s].at \in Priced \ {"verify"}
  BY DEF OnFork, Priced
<1>2. PICK q \in SimRecord, n \in Fork : q = sim[s] /\ n = node[Node(s)]
  BY <1>1, HereIs
<1>3. /\ Orderly(q) /\ q.req \in Requests /\ chain.open
      /\ Funds(q, n) /\ Health(q, n) /\ ~Short(q.req)
  BY <1>1, <1>2, HereIs DEF Sound, Req
<1>4. CASE OnFirstLeg(q)
  <2>1. /\ CallOf(q).take = Asset(q.req.playbook) /\ CallOf(q).take \in Tokens
        /\ CallOf(q).n \in Nat /\ CallOf(q).n > 0
        /\ CallOf(q).n <= Funding(q.req, CallOf(q).take)
    BY <1>3, <1>4, CallShape DEF Orderly
  <2>2. Wallet(n, CallOf(q).take) \in Nat /\ Funding(q.req, CallOf(q).take) \in Nat
    BY <1>3, <2>1, ReceivedIs, FundingIs
  <2>3. Wallet(n, CallOf(q).take) >= Funding(q.req, CallOf(q).take)
    BY <1>1, <1>2, <1>3, <1>4, <2>1 DEF Funds
  <2>4. n.allow["wallet"][CallOf(q).spender] >= CallOf(q).n
    BY <1>2, <1>3, <1>4 DEF Funds
  <2> QED BY <1>2, <1>3, <2>1, <2>2, <2>3, <2>4 DEF Works
<1>5. CASE ~OnFirstLeg(q)
  <2>1. CallOf(q).spender = "none"
    BY <1>3, <1>5, CallShape DEF Orderly
  <2> QED BY <1>1, <1>2, <1>3, <1>5, <2>1 DEF Works, Health
<1> QED BY <1>4, <1>5

(* Who estimates: the wallet, or for a swap and a deposit the recipient.   *)
LEMMA EstimateKeeps ==
  ASSUME NEW s \in Sims, Inv, ConstantsAssumption, UNCHANGED routes,
         NEW by \in Accounts, Estimate(s, by),
         \/ by = "wallet"
         \/ /\ by = Req(s).to /\ sim[s].leg = "main"
            /\ Req(s).playbook \in {"swap", "deposit"}
  PROVE  Inv'
<1>1. sim[s].at = "estimate" /\ sim[s].at \in OnFork /\ sim[s].at \in Priced
  BY DEF Estimate, OnFork, Priced
<1>2. PICK q \in SimRecord, n \in Fork : q = sim[s] /\ n = node[Node(s)]
  BY <1>1, HereIs
<1>3. /\ sim \in [Sims -> SimRecord] /\ Orderly(q) /\ q.req \in Requests
      /\ Sound(q, n, chain.open, s \in alone, s \in healthy, s \in moved)
  BY <1>1, <1>2, HereIs
<1>4. StepOf(s)
  BY <1>1 DEF Estimate, StepOf, Same, Started
<1>5. CASE /\ Succeeds(s, by) /\ NoFault /\ Goto(s, "send")
           /\ UNCHANGED <<node, artifact, healthy>> /\ Same
  <2>1. PICK r \in SimRecord :
          /\ sim' = [sim EXCEPT ![s] = r]
          /\ r = [at |-> "send", req |-> q.req, leg |-> q.leg, until |-> q.until,
                  before |-> q.before, shares |-> q.shares]
    BY <1>2, <1>3, <1>5, GotoIs DEF SimStates, OnFork, Priced
  <2>2. r.at \in OnFork /\ Orderly(r)
    BY <1>1, <1>2, <1>3, <2>1 DEF Orderly, OnFork, Priced
  <2>3. CallOf(r) = CallOf(q) /\ OnFirstLeg(r) = OnFirstLeg(q)
    BY <2>1, SameCall
  <2>4. ASSUME s \in alone PROVE Funds(r, n)
    BY <1>1, <1>2, <1>3, <2>1, <2>3, <2>4 DEF Sound, Funds, Priced
  <2>5. ASSUME s \in alone, q.leg = "main", q.req.playbook # "swap"
        PROVE  Works(n, q, chain.open)
    <3>1. CASE by = "wallet"
      BY <1>2, <1>5, <3>1, SucceedsIs
    <3>2. CASE q.req.playbook = "deposit"
      <4>1. OnFirstLeg(q)
        BY <2>5, <3>2 DEF OnFirstLeg, FirstLeg
      <4>2. /\ CallOf(q).take = Asset(q.req.playbook) /\ CallOf(q).take \in Tokens
            /\ CallOf(q).n \in Nat /\ CallOf(q).n > 0
            /\ CallOf(q).n <= Funding(q.req, CallOf(q).take)
        BY <1>3, <3>2, <4>1, CallShape DEF Orderly, Short
      <4>3. Wallet(n, CallOf(q).take) \in Nat /\ Funding(q.req, CallOf(q).take) \in Nat
        BY <1>3, <4>2, ReceivedIs, FundingIs
      <4>4. Funds(q, n)
        BY <1>3, <2>5 DEF Sound
      <4>5. Wallet(n, CallOf(q).take) >= Funding(q.req, CallOf(q).take)
        BY <1>1, <1>2, <4>1, <4>2, <4>4 DEF Funds, Priced
      <4>6. n.allow["wallet"][CallOf(q).spender] >= CallOf(q).n
        BY <1>1, <1>2, <4>1, <4>4 DEF Funds
      <4>7. chain.open
        BY <1>5 DEF Succeeds
      <4> QED BY <4>2, <4>3, <4>5, <4>6, <4>7 DEF Works
    <3> QED BY <1>2, <2>5, <3>1, <3>2 DEF Req
  <2>6. ASSUME s \in alone PROVE Evidence(r, n, chain.open, s \in moved')
    <3>1. q.leg = "main" => q.before = Received(n, q)
      BY <1>1, <1>2, <1>3, <2>6 DEF Sound, Evidence
    <3>2. Works(n, q, chain.open) => Works(n, r, chain.open)
      BY <2>3 DEF Works
    <3>3. Received(n, r) = Received(n, q)
      BY <2>3 DEF Received
    <3>4. /\ r.at = "send" /\ r.leg = q.leg /\ r.before = q.before
          /\ r.req.playbook = q.req.playbook
      BY <2>1
    <3> QED BY <2>5, <2>6, <3>1, <3>2, <3>3, <3>4 DEF Evidence
  <2>7. ASSUME s \in alone, s \in healthy, ~Short(q.req) PROVE Health(r, n)
    BY <1>1, <1>2, <1>3, <2>1, <2>3, <2>7 DEF Sound, Health, Priced
  <2>8. Sound(r, n, chain.open, s \in alone, s \in healthy', s \in moved')
    BY <1>3, <1>5, <2>1, <2>4, <2>6, <2>7 DEF Sound
  <2> QED BY <1>1, <1>2, <1>4, <1>5, <2>1, <2>2, <2>8, StaysOn
<1>6. CASE ~Succeeds(s, by) /\ NoFault /\ FailLeg(s) /\ UNCHANGED healthy /\ Same
  <2>1. ASSUME s \in healthy \cap alone, ~Short(Req(s)) PROVE by # "wallet"
    BY <1>1, <1>6, <2>1, WorksHere, SucceedsIs
  <2> QED BY <1>1, <1>4, <1>6, <2>1, FailLegKeeps
<1> QED BY <1>5, <1>6 DEF Estimate

LEMMA SendKeeps ==
  ASSUME NEW s \in Sims, Inv, ConstantsAssumption, UNCHANGED routes, Send(s)
  PROVE  Inv'
<1>1. sim[s].at = "send" /\ sim[s].at \in OnFork /\ sim[s].at \in Priced
  BY DEF Send, OnFork, Priced
<1>2. PICK q \in SimRecord, n \in Fork : q = sim[s] /\ n = node[Node(s)]
  BY <1>1, HereIs
<1>3. /\ sim \in [Sims -> SimRecord] /\ Orderly(q) /\ q.req \in Requests
      /\ Sound(q, n, chain.open, s \in alone, s \in healthy, s \in moved)
  BY <1>1, <1>2, HereIs
<1>4. StepOf(s) /\ UNCHANGED healthy
  BY <1>1 DEF Send, StepOf, Started
<1>5. Received(n, q) \in Nat
  BY <1>3, ReceivedIs
<1>6. s \in alone /\ q.leg = "main" => q.before = Received(n, q)
  BY <1>1, <1>2, <1>3 DEF Sound, Evidence
<1>7. ASSUME Goto(s, "verify")
      PROVE  \E r \in SimRecord :
               /\ sim' = [sim EXCEPT ![s] = r] /\ r.at = "verify" /\ r.at \in OnFork /\ Orderly(r)
               /\ r.leg = q.leg /\ r.before = q.before /\ r.req = q.req
               /\ CallOf(r) = CallOf(q)
  <2>1. PICK r \in SimRecord :
          /\ sim' = [sim EXCEPT ![s] = r]
          /\ r = [at |-> "verify", req |-> q.req, leg |-> q.leg, until |-> q.until,
                  before |-> q.before, shares |-> q.shares]
    BY <1>2, <1>3, <1>7, GotoIs DEF SimStates, OnFork, Priced
  <2>2. CallOf(r) = CallOf(q)
    BY <2>1, SameCall
  <2> QED BY <1>1, <1>2, <1>3, <2>1, <2>2 DEF Orderly, OnFork, Priced
<1>8. CASE /\ Succeeds(s, "wallet") /\ NoFault /\ Goto(s, "verify")
           /\ node' = [node EXCEPT ![Node(s)] = Executed(s)]
           /\ moved' = IF sim[s].leg = "main" THEN moved \cup {s} ELSE moved
           /\ UNCHANGED <<artifact, healthy>>
  <2>1. PICK r \in SimRecord :
          /\ sim' = [sim EXCEPT ![s] = r] /\ r.at = "verify" /\ r.at \in OnFork /\ Orderly(r)
          /\ r.leg = q.leg /\ r.before = q.before /\ r.req = q.req
          /\ CallOf(r) = CallOf(q)
    BY <1>7, <1>8
  <2>2. Works(n, q, chain.open)
    BY <1>2, <1>8, SucceedsIs
  <2>3. PICK m \in Fork : m = Executed(s) /\ Received(m, q) = Received(n, q) + CallOf(q).out
    BY <1>2, <1>3, <2>2, ExecutedIs
  <2>4. Received(m, r) = Received(m, q)
    BY <2>1 DEF Received
  <2>5. CallOf(q).out \in Nat /\ CallOf(q).out > 0
    BY <1>3, <2>2, CallShape DEF Works, Orderly
  <2>6. Funds(r, m)
    BY <2>1 DEF Funds
  <2>7. Evidence(r, m, chain.open, s \in moved')
    BY <1>2, <1>8, <2>1 DEF Evidence
  <2>8. ASSUME s \in alone PROVE Health(r, m)
    BY <1>5, <1>6, <2>1, <2>3, <2>4, <2>5, <2>8 DEF Health
  <2>9. Sound(r, m, chain.open, s \in alone, s \in healthy', s \in moved')
    BY <1>3, <1>8, <2>6, <2>7, <2>8 DEF Sound
  <2>10. node' = [node EXCEPT ![Node(s)] = m]
    BY <1>8, <2>3
  <2> QED BY <1>4, <1>8, <2>1, <2>9, <2>10, GoesOn
<1>9. CASE /\ ~Succeeds(s, "wallet") /\ NoFault
           /\ \/ FailLeg(s)
              \/ Goto(s, "verify") /\ UNCHANGED <<node, artifact>>
           /\ UNCHANGED <<moved, healthy>>
  <2>1. ~Works(n, q, chain.open)
    BY <1>2, <1>9, SucceedsIs
  <2>2. ~(s \in alone /\ s \in healthy /\ ~Short(q.req))
    BY <1>1, <1>2, <2>1, WorksHere DEF Req
  <2>3. CASE FailLeg(s)
    <3>1. ~(s \in healthy' \cap alone /\ ~Short(Req(s)))
      BY <1>2, <1>9, <2>2 DEF Req
    <3> QED BY <1>1, <1>4, <1>9, <2>3, <3>1, FailLegKeeps
  <2>4. CASE Goto(s, "verify") /\ UNCHANGED <<node, artifact>>
    <3>1. PICK r \in SimRecord :
            /\ sim' = [sim EXCEPT ![s] = r] /\ r.at = "verify" /\ r.at \in OnFork /\ Orderly(r)
            /\ r.leg = q.leg /\ r.before = q.before /\ r.req = q.req
            /\ CallOf(r) = CallOf(q)
      BY <1>7, <2>4
    <3>2. Received(n, r) = Received(n, q)
      BY <3>1 DEF Received
    <3>3. s \in alone /\ q.leg = "main" => q.req.playbook = "swap"
      BY <1>1, <1>2, <1>3, <2>1 DEF Sound, Evidence
    <3>4. s \in alone => Funds(r, n) /\ Evidence(r, n, chain.open, s \in moved')
      BY <1>6, <3>1, <3>2, <3>3 DEF Funds, Evidence
    <3>5. Sound(r, n, chain.open, s \in alone, s \in healthy', s \in moved')
      BY <1>3, <1>9, <2>2, <3>1, <3>4 DEF Sound
    <3> QED BY <1>1, <1>2, <1>4, <2>4, <3>1, <3>5, StaysOn
  <2> QED BY <1>9, <2>3, <2>4
<1> QED BY <1>8, <1>9 DEF Send

LEMMA VerifyKeeps ==
  ASSUME NEW s \in Sims, Inv, ConstantsAssumption, UNCHANGED routes,
         NEW received \in BOOLEAN, Verify(s, received),
         received /\ Req(s).playbook = "swap" => Given(s) > sim[s].before,
         s \in healthy \cap alone /\ ~Short(Req(s)) => received
  PROVE  Inv'
<1>1. sim[s].at = "verify" /\ sim[s].at \in OnFork /\ sim[s].at \in Priced
  BY DEF Verify, OnFork, Priced
<1>2. StepOf(s) /\ UNCHANGED moved
  BY <1>1 DEF Verify, StepOf, Same, Started
<1>3. Given(s) = Received(node[Node(s)], sim[s])
  BY DEF Given, Received, Bal, Call
<1>4. CASE received /\ PassLeg(s) /\ UNCHANGED healthy
  BY <1>1, <1>2, <1>3, <1>4, PassLegKeeps
<1>5. CASE ~received /\ FailLeg(s) /\ UNCHANGED healthy
  BY <1>1, <1>2, <1>5, FailLegKeeps
<1> QED BY <1>4, <1>5 DEF Verify

LEMMA CatchKeeps ==
  ASSUME NEW s \in Sims, Inv, ConstantsAssumption, UNCHANGED routes,
         NEW steps \in SUBSET Priced, Catch(s, steps)
  PROVE  Inv'
<1>1. sim[s].at \in Priced
  BY DEF Catch
<1>2. StepOf(s) /\ s \notin healthy'
  BY <1>1 DEF Catch, StepOf, Same, Started, OnFork, Unhealthy
<1>3. CASE FailLeg(s)
  BY <1>1, <1>2, <1>3, FailLegKeeps
<1>4. CASE Throw(s)
  BY <1>2, <1>4, ThrowKeeps
<1> QED BY <1>3, <1>4 DEF Catch

-----------------------------------------------------------------------------
(* The playbooks *)

(* What a healthy simulation finds when it verifies. *)
LEMMA VerifiedHere ==
  ASSUME NEW s \in Sims, Inv, ConstantsAssumption, sim[s].at = "verify",
         s \in healthy, s \in alone, ~Short(Req(s))
  PROVE  /\ Given(s) \in Nat /\ Given(s) > 0
         /\ CallOf(sim[s]).out \in Nat \ {0} /\ sim[s].before \in Nat
         /\ sim[s].leg = "main" => Given(s) = sim[s].before + CallOf(sim[s]).out
<1>1. sim[s].at \in OnFork
  BY DEF OnFork, Priced
<1>2. PICK q \in SimRecord, n \in Fork : q = sim[s] /\ n = node[Node(s)]
  BY <1>1, HereIs
<1>3. Orderly(q) /\ q.req \in Requests /\ Health(q, n)
  BY <1>1, <1>2, HereIs DEF Sound, Req
<1>4. Given(s) = Received(n, q)
  BY <1>2 DEF Given, Received, Bal, Call
<1>5. Received(n, q) \in Nat /\ CallOf(q).out \in Nat /\ q.before \in Nat
  BY <1>3, ReceivedIs, CallShape DEF Orderly, SimRecord
<1> QED BY <1>2, <1>3, <1>4, <1>5 DEF Health

(* ... and before its first leg sends. *)
LEMMA FundedHere ==
  ASSUME NEW s \in Sims, Inv, ConstantsAssumption, sim[s].at = "check",
         OnFirstLeg(sim[s]), s \in alone
  PROVE  /\ ~Short(Req(s)) =>
              Bal(s, "wallet", Asset(Req(s).playbook)) >= CallOf(sim[s]).n
         /\ Bal(s, "wallet", Asset(Req(s).playbook)) >= Amount
         /\ CallOf(sim[s]).take = Asset(Req(s).playbook)
<1>1. sim[s].at \in OnFork
  BY DEF OnFork, Priced
<1>2. PICK q \in SimRecord, n \in Fork : q = sim[s] /\ n = node[Node(s)]
  BY <1>1, HereIs
<1>3. Orderly(q) /\ q.req \in Requests /\ Funds(q, n)
  BY <1>1, <1>2, HereIs DEF Sound
<1>4. Wallet(n, Asset(q.req.playbook)) >= Funding(q.req, Asset(q.req.playbook))
  BY <1>2, <1>3 DEF Funds, Priced
<1>5. /\ CallOf(q).take = Asset(q.req.playbook) /\ CallOf(q).take \in Tokens
      /\ CallOf(q).n \in Nat /\ (~Short(q.req) => CallOf(q).n <= Funding(q.req, CallOf(q).take))
  BY <1>2, <1>3, CallShape DEF Orderly
<1>6. /\ Wallet(n, CallOf(q).take) \in Nat /\ Amount \in Nat
      /\ Funding(q.req, CallOf(q).take) \in Nat /\ Funding(q.req, CallOf(q).take) >= 2 * Amount
  BY <1>3, <1>5, ReceivedIs, FundingIs
<1> QED BY <1>2, <1>4, <1>5, <1>6 DEF Bal, Wallet, Req

LEMMA AaveSupplyKeeps ==
  ASSUME NEW s \in Sims, Inv, ConstantsAssumption, UNCHANGED routes, AaveSupply(s)
  PROVE  Inv'
<1>1. Orderly(sim[s]) /\ sim[s].leg \in {"setup", "main"}
  BY DEF Inv, SimInv, SimTypes, SimRecord
<1>2. OnFirstLeg(sim[s])
  BY <1>1 DEF AaveSupply, OnFirstLeg, FirstLeg, Orderly, Req
<1>3. Req(s).playbook # "swap"
  <2>1. CASE Req(s).playbook \in {"supplyUSDC", "supplyWETH"}
    BY <2>1
  <2>2. CASE sim[s].leg = "setup" /\ Req(s).playbook # "redeem"
    BY <2>2 DEF Inv, SimInv, Orderly, FirstLeg, Req
  <2> QED BY <2>1, <2>2 DEF AaveSupply
<1>4. ASSUME Check(s, Bal(s, "wallet", Call(s).take) >= Call(s).n, "approve") PROVE Inv'
  <2>1. sim[s].at = "check" /\ sim[s].at \in Priced
    BY <1>4 DEF Check, Priced
  <2>2. s \in alone /\ ~Short(Req(s)) => Bal(s, "wallet", Call(s).take) >= Call(s).n
    BY <1>2, <2>1, FundedHere DEF Call
  <2>3. (Bal(s, "wallet", Call(s).take) >= Call(s).n) \in BOOLEAN
    OBVIOUS
  <2> QED BY <1>4, <2>2, <2>3, CheckKeeps
<1>5. ASSUME Approve(s, "estimate") PROVE Inv'
  <2>1. sim[s].at \in Priced
    BY <1>5 DEF Approve, Priced
  <2> QED BY <1>2, <1>5, <2>1, ApproveKeeps
<1>6. ASSUME Estimate(s, "wallet") PROVE Inv'
  BY <1>6, EstimateKeeps DEF Accounts
<1>7. ASSUME Send(s) PROVE Inv'
  BY <1>7, SendKeeps
<1>8. ASSUME Verify(s, Given(s) > 0) PROVE Inv'
  <2>1. sim[s].at = "verify"
    BY <1>8 DEF Verify
  <2>2. s \in healthy \cap alone /\ ~Short(Req(s)) => Given(s) > 0
    BY <2>1, VerifiedHere
  <2>3. (Given(s) > 0) \in BOOLEAN
    OBVIOUS
  <2> QED BY <1>3, <1>8, <2>2, <2>3, VerifyKeeps
<1>9. ASSUME Catch(s, {"approve", "estimate", "send", "verify"}) PROVE Inv'
  BY <1>9, CatchKeeps DEF Priced
<1> QED BY <1>4, <1>5, <1>6, <1>7, <1>8, <1>9 DEF AaveSupply

LEMMA AaveWithdrawKeeps ==
  ASSUME NEW s \in Sims, Inv, ConstantsAssumption, UNCHANGED routes, AaveWithdraw(s)
  PROVE  Inv'
<1>1. ~OnFirstLeg(sim[s]) /\ Req(s).playbook # "swap" /\ sim[s].leg = "main"
  BY DEF AaveWithdraw, OnFirstLeg, FirstLeg, Req
<1>2. ASSUME Check(s, Bal(s, "wallet", Call(s).take) > 0, "estimate") PROVE Inv'
  <2>1. sim[s].at = "check" /\ sim[s].at \in OnFork
    BY <1>2 DEF Check, Priced, OnFork
  <2>2. ASSUME s \in healthy \cap alone, ~Short(Req(s)) PROVE Bal(s, "wallet", Call(s).take) > 0
    <3>1. PICK q \in SimRecord, n \in Fork : q = sim[s] /\ n = node[Node(s)]
      BY <2>1, HereIs
    <3>2. Orderly(q) /\ q.req \in Requests /\ Health(q, n)
      BY <2>1, <2>2, <3>1, HereIs DEF Sound, Req
    <3>3. CallOf(q).n > 0 /\ Wallet(n, CallOf(q).take) >= CallOf(q).n
      BY <1>1, <2>1, <3>1, <3>2 DEF Health, Priced
    <3>4. CallOf(q).n \in Nat /\ CallOf(q).take \in Tokens
      BY <3>2, CallShape DEF Orderly
    <3>5. Wallet(n, CallOf(q).take) \in Nat
      BY <3>2, <3>4, ReceivedIs
    <3> QED BY <3>1, <3>3, <3>4, <3>5 DEF Bal, Wallet, Call
  <2>3. (Bal(s, "wallet", Call(s).take) > 0) \in BOOLEAN
    OBVIOUS
  <2> QED BY <1>1, <1>2, <2>2, <2>3, CheckKeeps
<1>3. ASSUME Estimate(s, "wallet") PROVE Inv'
  BY <1>3, EstimateKeeps DEF Accounts
<1>4. ASSUME Send(s) PROVE Inv'
  BY <1>4, SendKeeps
<1>5. ASSUME Verify(s, Given(s) > sim[s].before) PROVE Inv'
  <2>1. sim[s].at = "verify"
    BY <1>5 DEF Verify
  <2>2. s \in healthy \cap alone /\ ~Short(Req(s)) => Given(s) > sim[s].before
    BY <1>1, <2>1, VerifiedHere
  <2>3. (Given(s) > sim[s].before) \in BOOLEAN
    OBVIOUS
  <2> QED BY <1>1, <1>5, <2>2, <2>3, VerifyKeeps
<1>6. ASSUME sim[s].at = "estimate", Fault, FailLeg(s), Unhealthy(s), Same PROVE Inv'
  <2>1. StepOf(s) /\ s \notin healthy' /\ sim[s].at \in Priced
    BY <1>6 DEF StepOf, Same, Started, OnFork, Priced, Unhealthy
  <2> QED BY <1>6, <2>1, FailLegKeeps
<1>7. ASSUME Catch(s, {"send", "verify"}) PROVE Inv'
  BY <1>7, CatchKeeps DEF Priced
<1> QED BY <1>2, <1>3, <1>4, <1>5, <1>6, <1>7 DEF AaveWithdraw

LEMMA UniswapSwapKeeps ==
  ASSUME NEW s \in Sims, Inv, ConstantsAssumption, UNCHANGED routes, UniswapSwap(s)
  PROVE  Inv'
<1>1. Req(s).playbook = "swap" /\ sim[s].leg = "main" /\ OnFirstLeg(sim[s])
  <2>1. SimInv(s) /\ sim[s] \in SimRecord
    BY DEF Inv, SimTypes
  <2>2. Req(s).playbook = "swap"
    BY DEF UniswapSwap
  <2>3. sim[s].leg = "main"
    BY <2>1, <2>2 DEF SimInv, Orderly, FirstLeg, Req, SimRecord
  <2> QED BY <2>2, <2>3 DEF OnFirstLeg, FirstLeg, Req
<1>2. ASSUME Check(s, Bal(s, Req(s).to, "WETH") >= Amount, "approve") PROVE Inv'
  <2>1. sim[s].at = "check"
    BY <1>2 DEF Check
  <2>2. s \in alone /\ Req(s).to = "wallet" => Bal(s, Req(s).to, "WETH") >= Amount
    BY <1>1, <2>1, FundedHere DEF Asset
  <2>3. (Bal(s, Req(s).to, "WETH") >= Amount) \in BOOLEAN
    OBVIOUS
  <2> QED BY <1>1, <1>2, <2>2, <2>3, CheckKeeps
<1>3. ASSUME sim[s].at = "check", NoFault, FailLeg(s), Unhealthy(s), Same PROVE Inv'
  <2>1. StepOf(s) /\ s \notin healthy' /\ sim[s].at \in Priced
    BY <1>3 DEF StepOf, Same, Started, OnFork, Priced, Unhealthy
  <2> QED BY <1>3, <2>1, FailLegKeeps
<1>4. ASSUME Approve(s, "estimate") PROVE Inv'
  BY <1>1, <1>4, ApproveKeeps
<1>5. ASSUME Estimate(s, Req(s).to) PROVE Inv'
  <2>1. sim[s].at \in OnFork
    BY <1>5 DEF Estimate, OnFork, Priced
  <2>2. Req(s).to \in Accounts
    BY <2>1, HereIs, ConstantsAssumption DEF ConstantsAssumption, Req
  <2> QED BY <1>1, <1>5, <2>2, EstimateKeeps
<1>6. ASSUME Send(s) PROVE Inv'
  BY <1>6, SendKeeps
<1>7. ASSUME Verify(s, Given(s) > sim[s].before /\ Given(s) - sim[s].before >= Amount - Loss)
      PROVE  Inv'
  <2>1. sim[s].at = "verify"
    BY <1>7 DEF Verify
  <2>2. CallOf(sim[s]).out = Amount - Loss
    BY <1>1 DEF CallOf, Action, Req
  <2>3. ASSUME s \in healthy \cap alone, ~Short(Req(s))
        PROVE  Given(s) > sim[s].before /\ Given(s) - sim[s].before >= Amount - Loss
    BY <1>1, <2>1, <2>2, <2>3, VerifiedHere
  <2>4. (Given(s) > sim[s].before /\ Given(s) - sim[s].before >= Amount - Loss) \in BOOLEAN
    OBVIOUS
  <2> QED BY <1>7, <2>3, <2>4, VerifyKeeps
<1>8. ASSUME Catch(s, {"approve", "estimate", "send", "verify"}) PROVE Inv'
  BY <1>8, CatchKeeps DEF Priced
<1> QED BY <1>2, <1>3, <1>4, <1>5, <1>6, <1>7, <1>8 DEF UniswapSwap

LEMMA MorphoDepositKeeps ==
  ASSUME NEW s \in Sims, Inv, ConstantsAssumption, UNCHANGED routes, MorphoDeposit(s)
  PROVE  Inv'
<1>1. Req(s).playbook = "deposit" /\ sim[s].leg = "main" /\ OnFirstLeg(sim[s])
  <2>1. SimInv(s) /\ sim[s] \in SimRecord
    BY DEF Inv, SimTypes
  <2>2. Req(s).playbook = "deposit"
    BY DEF MorphoDeposit
  <2>3. sim[s].leg = "main"
    BY <2>1, <2>2 DEF SimInv, Orderly, FirstLeg, Req, SimRecord
  <2> QED BY <2>2, <2>3 DEF OnFirstLeg, FirstLeg, Req
<1>2. ASSUME Check(s, Bal(s, Req(s).to, "USDC") >= Amount, "approve") PROVE Inv'
  <2>1. sim[s].at = "check"
    BY <1>2 DEF Check
  <2>2. s \in alone /\ Req(s).to = "wallet" => Bal(s, Req(s).to, "USDC") >= Amount
    BY <1>1, <2>1, FundedHere DEF Asset
  <2>3. (Bal(s, Req(s).to, "USDC") >= Amount) \in BOOLEAN
    OBVIOUS
  <2> QED BY <1>1, <1>2, <2>2, <2>3, CheckKeeps
<1>3. ASSUME Approve(s, "estimate") PROVE Inv'
  BY <1>1, <1>3, ApproveKeeps
<1>4. ASSUME Estimate(s, Req(s).to) PROVE Inv'
  <2>1. sim[s].at \in OnFork
    BY <1>4 DEF Estimate, OnFork, Priced
  <2>2. Req(s).to \in Accounts
    BY <2>1, HereIs, ConstantsAssumption DEF ConstantsAssumption, Req
  <2> QED BY <1>1, <1>4, <2>2, EstimateKeeps
<1>5. ASSUME Send(s) PROVE Inv'
  BY <1>5, SendKeeps
<1>6. ASSUME Verify(s, Given(s) > 0) PROVE Inv'
  <2>1. sim[s].at = "verify"
    BY <1>6 DEF Verify
  <2>2. s \in healthy \cap alone /\ ~Short(Req(s)) => Given(s) > 0
    BY <2>1, VerifiedHere
  <2>3. (Given(s) > 0) \in BOOLEAN
    OBVIOUS
  <2> QED BY <1>1, <1>6, <2>2, <2>3, VerifyKeeps
<1>7. ASSUME Catch(s, {"approve", "estimate", "send", "verify"}) PROVE Inv'
  BY <1>7, CatchKeeps DEF Priced
<1> QED BY <1>2, <1>3, <1>4, <1>5, <1>6, <1>7 DEF MorphoDeposit

LEMMA MorphoWithdrawKeeps ==
  ASSUME NEW s \in Sims, Inv, ConstantsAssumption, UNCHANGED routes, MorphoWithdraw(s)
  PROVE  Inv'
<1>1. Req(s).playbook = "redeem"
  BY DEF MorphoWithdraw
<1>2. sim[s].leg = "setup" => OnFirstLeg(sim[s])
  BY <1>1 DEF OnFirstLeg, FirstLeg, Req
<1>3. sim[s].leg = "main" => ~OnFirstLeg(sim[s])
  BY <1>1 DEF OnFirstLeg, FirstLeg, Req
<1>4. ASSUME sim[s].leg = "setup", Check(s, Bal(s, "wallet", "USDC") >= Amount, "approve")
      PROVE  Inv'
  <2>1. sim[s].at = "check"
    BY <1>4 DEF Check
  <2>2. s \in alone => Bal(s, "wallet", "USDC") >= Amount
    BY <1>1, <1>2, <1>4, <2>1, FundedHere DEF Asset
  <2>3. (Bal(s, "wallet", "USDC") >= Amount) \in BOOLEAN
    OBVIOUS
  <2> QED BY <1>4, <2>2, <2>3, CheckKeeps
<1>5. ASSUME sim[s].leg = "setup", Approve(s, "send") PROVE Inv'
  BY <1>2, <1>5, ApproveKeeps
<1>6. ASSUME Send(s) PROVE Inv'
  BY <1>6, SendKeeps
<1>7. ASSUME Verify(s, Given(s) > 0) PROVE Inv'
  <2>1. sim[s].at = "verify"
    BY <1>7 DEF Verify
  <2>2. s \in healthy \cap alone /\ ~Short(Req(s)) => Given(s) > 0
    BY <2>1, VerifiedHere
  <2>3. (Given(s) > 0) \in BOOLEAN
    OBVIOUS
  <2> QED BY <1>1, <1>7, <2>2, <2>3, VerifyKeeps
<1>8. ASSUME sim[s].leg = "main", sim[s].at = "check", NoFault,
             UNCHANGED <<node, artifact, healthy>>,
             Notes(s, "estimate", Given(s)), Same
      PROVE  Inv'
  <2>1. sim[s].at \in OnFork
    BY <1>8 DEF OnFork, Priced
  <2>2. PICK q \in SimRecord, n \in Fork : q = sim[s] /\ n = node[Node(s)]
    BY <2>1, HereIs
  <2>3. /\ sim \in [Sims -> SimRecord] /\ Orderly(q) /\ q.req \in Requests
        /\ Sound(q, n, chain.open, s \in alone, s \in healthy, s \in moved)
    BY <2>1, <2>2, HereIs
  <2>4. PICK k \in Nat : k = Received(n, q) /\ k = Given(s)
    BY <2>2, <2>3, ReceivedIs DEF Given, Bal, Received, Call
  <2>5. PICK r \in SimRecord :
          /\ sim' = [sim EXCEPT ![s] = r]
          /\ r = [at |-> "estimate", req |-> q.req, leg |-> q.leg, until |-> q.until,
                  before |-> k, shares |-> q.shares]
    <3>1. Notes(s, "estimate", k)
      BY <1>8, <2>4
    <3>2. "estimate" \in SimStates
      BY DEF SimStates, OnFork, Priced
    <3> QED BY <2>2, <2>3, <3>1, <3>2, BeforeIs
  <2>6. r.at \in OnFork /\ Orderly(r)
    BY <1>8, <2>2, <2>3, <2>5 DEF Orderly, OnFork, Priced
  <2>7. CallOf(r) = CallOf(q) /\ OnFirstLeg(r) = OnFirstLeg(q) /\ ~OnFirstLeg(r)
    BY <1>3, <1>8, <2>2, <2>5, SameCall
  <2>8. Funds(r, n)
    BY <2>5, <2>7 DEF Funds
  <2>9. Evidence(r, n, chain.open, s \in moved')
    BY <2>4, <2>5, <2>7 DEF Evidence, Received
  <2>10. ASSUME s \in alone, s \in healthy, ~Short(q.req) PROVE Health(r, n)
    BY <1>8, <2>2, <2>3, <2>5, <2>7, <2>10 DEF Sound, Health, Priced
  <2>11. Sound(r, n, chain.open, s \in alone, s \in healthy', s \in moved')
    BY <1>8, <2>3, <2>5, <2>8, <2>9, <2>10 DEF Sound
  <2>12. StepOf(s)
    BY <1>8, <2>1 DEF StepOf, Same, Started
  <2> QED BY <1>8, <2>1, <2>2, <2>5, <2>6, <2>11, <2>12, StaysOn
<1>9. ASSUME Estimate(s, "wallet") PROVE Inv'
  BY <1>9, EstimateKeeps DEF Accounts
<1>10. ASSUME sim[s].leg = "main", Verify(s, Given(s) > sim[s].before) PROVE Inv'
  <2>1. sim[s].at = "verify"
    BY <1>10 DEF Verify
  <2>2. s \in healthy \cap alone /\ ~Short(Req(s)) => Given(s) > sim[s].before
    BY <1>10, <2>1, VerifiedHere
  <2>3. (Given(s) > sim[s].before) \in BOOLEAN
    OBVIOUS
  <2> QED BY <1>1, <1>10, <2>2, <2>3, VerifyKeeps
<1>11. ASSUME Catch(s, {"check", "estimate"}) \/ Catch(s, {"approve", "send", "verify"}) PROVE Inv'
  BY <1>11, CatchKeeps DEF Priced
<1> QED BY <1>4, <1>5, <1>6, <1>7, <1>8, <1>9, <1>10, <1>11 DEF MorphoWithdraw, Notes

-----------------------------------------------------------------------------
(* Before the playbooks *)

LEMMA ForkedIsFork ==
  ASSUME Inv, ConstantsAssumption PROVE Forked \in Fork
<1>1. Amount \in Nat
  BY ConstantsAssumption DEF ConstantsAssumption
<1> QED BY <1>1 DEF Forked, Fork

LEMMA StartIsOrderly ==
  ASSUME NEW s \in Sims, Inv, sim[s].at = "start"
  PROVE  /\ sim \in [Sims -> SimRecord] /\ sim[s] \in SimRecord
         /\ sim[s].req \in Requests /\ sim[s].leg = "main" /\ sim[s].at \in Started
<1>1. SimTypes /\ SimInv(s)
  BY DEF Inv
<1> QED BY <1>1 DEF SimTypes, SimInv, Orderly, SimRecord, Started, OnFork, Priced

LEMMA SpawnKeeps ==
  ASSUME NEW s \in Sims, Inv, ConstantsAssumption, UNCHANGED routes,
         SpawnAnvil(s) \/ ConnectToExternalFork(s)
  PROVE  Inv'
<1>1. sim[s].at = "start"
  BY DEF SpawnAnvil, ConnectToExternalFork
<1>2. StepOf(s)
  BY <1>1, StartIsOrderly DEF SpawnAnvil, ConnectToExternalFork, StepOf, Same, Unhealthy
<1>3. CASE Throw(s)
  BY <1>2, <1>3, ThrowKeeps
<1>4. CASE \E block \in 0 .. MaxBlock, n \in Fork :
             /\ Forks(s, block) /\ node' = [node EXCEPT ![Node(s)] = n]
             /\ healthy' = IF chain.open THEN healthy ELSE healthy \ {s}
             /\ UNCHANGED artifact
  <2>1. PICK block \in 0 .. MaxBlock, n \in Fork :
          /\ Forks(s, block) /\ node' = [node EXCEPT ![Node(s)] = n]
          /\ healthy' = IF chain.open THEN healthy ELSE healthy \ {s}
          /\ UNCHANGED artifact
    BY <1>4
  <2>2. block \in Nat
    BY ConstantsAssumption DEF ConstantsAssumption
  <2>3. PICK q \in SimRecord : q = sim[s]
    BY <1>1, StartIsOrderly
  <2>4. PICK r \in SimRecord :
          /\ sim' = [sim EXCEPT ![s] = r]
          /\ r = [at |-> "fund", req |-> q.req, leg |-> q.leg,
                  until |-> block + ValidFor, before |-> q.before, shares |-> q.shares]
    BY <1>1, <2>1, <2>2, <2>3, StartIsOrderly, ForksIs
  <2>5. r.at \in OnFork /\ Orderly(r)
    BY <1>1, <2>3, <2>4, StartIsOrderly DEF OnFork, Priced, Orderly
  <2>6. Funds(r, n) /\ Evidence(r, n, chain.open, s \in moved') /\ Health(r, n)
    BY <2>4 DEF Funds, Evidence, Health, Priced
  <2>7. Sound(r, n, chain.open, s \in alone, s \in healthy', s \in moved')
    BY <2>1, <2>6 DEF Sound
  <2> QED BY <1>2, <2>1, <2>4, <2>5, <2>7, GoesOn
<1>5. CASE SpawnAnvil(s)
  <2>1. Node(s) = s
    BY <1>5, NodeIs DEF SpawnAnvil
  <2>2. CASE Throw(s)
    BY <1>3, <2>2
  <2>3. CASE /\ NoFault /\ Forks(s, head)
             /\ node' = [node EXCEPT ![s] = Forked]
             /\ healthy' = IF chain.open THEN healthy ELSE healthy \ {s}
             /\ UNCHANGED artifact
    <3>1. head \in 0 .. MaxBlock
      BY DEF Inv, CountTypes
    <3> QED BY <1>4, <2>1, <2>3, <3>1, ForkedIsFork
  <2> QED BY <1>5, <2>2, <2>3 DEF SpawnAnvil
<1>6. CASE ConnectToExternalFork(s)
  <2>1. CASE Throw(s)
    BY <1>3, <2>1
  <2>2. CASE /\ NoFault /\ \E block \in 0 .. MaxBlock : Forks(s, block)
             /\ healthy' = IF chain.open THEN healthy ELSE healthy \ {s}
             /\ UNCHANGED <<node, artifact>>
    <3>1. PICK n \in Fork : n = node["shared"]
      BY <1>6 DEF Inv, ConnectToExternalFork
    <3>2. node' = [node EXCEPT ![Node(s)] = n]
      BY <1>6, <2>2, <3>1, NodeIs DEF Inv, SimTypes, ConnectToExternalFork
    <3> QED BY <1>4, <2>2, <3>2
  <2> QED BY <1>6, <2>1, <2>2 DEF ConnectToExternalFork
<1> QED BY <1>5, <1>6

LEMMA BalanceIs ==
  ASSUME NEW n \in Fork, NEW b \in [Accounts -> [Tokens -> Nat]]
  PROVE  [n EXCEPT !.bal = b] = [up |-> n.up, bal |-> b, allow |-> n.allow]
  BY DEF Fork

LEMMA FundKeeps ==
  ASSUME NEW s \in Sims, Inv, ConstantsAssumption, UNCHANGED routes, Fund(s)
  PROVE  Inv'
<1>1. sim[s].at = "fund" /\ sim[s].at \in OnFork
  BY DEF Fund, OnFork
<1>2. PICK q \in SimRecord, n \in Fork : q = sim[s] /\ n = node[Node(s)]
  BY <1>1, HereIs
<1>3. /\ sim \in [Sims -> SimRecord] /\ Orderly(q) /\ q.req \in Requests
      /\ Sound(q, n, chain.open, s \in alone, s \in healthy, s \in moved)
      /\ UNCHANGED node => node' = [node EXCEPT ![Node(s)] = n]
  BY <1>1, <1>2, HereIs
<1>4. StepOf(s) /\ UNCHANGED moved
  BY <1>1 DEF Fund, StepOf, Same, Started
<1>5. CASE /\ NoFault /\ Goto(s, "price")
           /\ node' = [node EXCEPT ![Node(s)] = Topped(node[Node(s)], Req(s))]
           /\ UNCHANGED <<artifact, healthy>>
  <2>1. PICK bal \in [Accounts -> [Tokens -> Nat]], allow \in [Accounts -> [Spenders -> Nat]] :
          n = [up |-> TRUE, bal |-> bal, allow |-> allow]
    BY DEF Fork
  <2>2. /\ Amount \in Nat /\ Unknown = -1 /\ q.req.liquid \in Nat \cup {Unknown}
        /\ Asset(q.req.playbook) \in Tokens
    BY <1>3, ConstantsAssumption DEF ConstantsAssumption, Unknown, Asset, Tokens
  <2>3. \A t \in Tokens : Funding(q.req, t) \in Nat \cup {Unknown}
    BY <2>2 DEF Funding
  <2>4. PICK f \in [Tokens -> Nat] :
          f = [t \in Tokens |-> IF Funding(q.req, t) = Unknown THEN bal["wallet"][t]
                                ELSE Funding(q.req, t)]
    <3>1. \A t \in Tokens : bal["wallet"][t] \in Nat
      BY DEF Accounts
    <3> QED BY <2>3, <3>1
  <2>5. f[Asset(q.req.playbook)] >= Funding(q.req, Asset(q.req.playbook))
    BY <1>3, <2>2, <2>4, FundingIs
  <2>6. PICK all \in [Accounts -> [Tokens -> Nat]] : all = [bal EXCEPT !["wallet"] = f]
    <3>1. [bal EXCEPT !["wallet"] = f] \in [Accounts -> [Tokens -> Nat]]
      OBVIOUS
    <3> QED BY <3>1
  <2>7. PICK m \in Fork : m = [up |-> TRUE, bal |-> all, allow |-> allow]
    BY DEF Fork
  <2>8. Topped(n, q.req) = m
    <3>1. Topped(n, q.req) = [n EXCEPT !.bal = [n.bal EXCEPT !["wallet"] = [t \in Tokens |->
            IF Funding(q.req, t) = Unknown THEN n.bal["wallet"][t] ELSE Funding(q.req, t)]]]
      BY Zenon DEF Topped
    <3>2. n.bal = bal
      BY <2>1
    <3>3. Topped(n, q.req) = [n EXCEPT !.bal = all]
      BY <2>4, <2>6, <3>1, <3>2, Zenon
    <3>4. [n EXCEPT !.bal = all] = [up |-> n.up, bal |-> all, allow |-> n.allow]
      BY BalanceIs
    <3> QED BY <2>1, <2>7, <3>3, <3>4
  <2>9. node' = [node EXCEPT ![Node(s)] = m]
    BY <1>2, <1>5, <2>8 DEF Req
  <2>10. PICK r \in SimRecord :
           /\ sim' = [sim EXCEPT ![s] = r]
           /\ r = [at |-> "price", req |-> q.req, leg |-> q.leg, until |-> q.until,
                   before |-> q.before, shares |-> q.shares]
    BY <1>2, <1>3, <1>5, GotoIs DEF SimStates, OnFork
  <2>11. r.at \in OnFork /\ Orderly(r)
    BY <1>1, <1>2, <1>3, <2>10 DEF Orderly, OnFork, Priced
  <2>12. Wallet(m, Asset(r.req.playbook)) >= Funding(r.req, Asset(r.req.playbook))
    BY <2>5, <2>6, <2>7, <2>10 DEF Wallet, Accounts
  <2>13. Funds(r, m) /\ Evidence(r, m, chain.open, s \in moved') /\ Health(r, m)
    BY <2>10, <2>12 DEF Funds, Evidence, Health, Priced
  <2>14. Sound(r, m, chain.open, s \in alone, s \in healthy', s \in moved')
    BY <1>3, <1>5, <2>13 DEF Sound
  <2> QED BY <1>4, <1>5, <2>9, <2>10, <2>11, <2>14, GoesOn
<1>6. CASE /\ Fault /\ Unhealthy(s)
           /\ sim' = [sim EXCEPT ![s] = [NoSim EXCEPT !.at = "unstarted"]]
           /\ UNCHANGED <<node, artifact>>
  <2>1. PICK r \in SimRecord :
          sim' = [sim EXCEPT ![s] = r] /\ r.at = "unstarted" /\ Orderly(r)
    <3>1. PICK r \in SimRecord :
            r = [at |-> "unstarted", req |-> NoRequest, leg |-> "main", until |-> 0,
                 before |-> 0, shares |-> 0]
      BY DEF SimRecord, SimStates
    <3>2. [NoSim EXCEPT !.at = "unstarted"] = r
      BY <3>1 DEF NoSim
    <3>3. sim' = [sim EXCEPT ![s] = r]
      BY <1>6, <3>2, Zenon
    <3> QED BY <3>1, <3>3 DEF Orderly, OnFork, Priced
  <2>2. PICK a \in Artifacts : a = artifact[s]
    BY <1>4, StepParts
  <2>3. SimTypes /\ ArtifactInv(s)
    BY <1>4, StepParts DEF Inv
  <2>4. artifact' = [artifact EXCEPT ![s] = a]
    BY <1>6, <2>2, <2>3 DEF SimTypes
  <2>5. /\ a.status = "passed" =>
             a.req \in Requests /\ ~Blocked(a.req, TRUE) /\ (s \in alone => s \in moved')
        /\ a.status = "failed" /\ a.why = "fork" /\ s \in healthy' \cap alone /\ ~Short(a.req) =>
             a.req.to # "wallet" /\ a.req.playbook \in {"swap", "deposit"}
    BY <1>4, <1>6, <2>2, <2>3 DEF ArtifactInv, Unhealthy
  <2>6. r.at \in OnFork \cup {"unstarted", "over"} /\ r.at \notin OnFork
    BY <2>1 DEF OnFork, Priced
  <2>7. r.at \in OnFork => Sound(r, n, chain.open, s \in alone, s \in healthy', s \in moved')
    BY <2>6
  <2>8. n # Down /\ ~external => r.at \in OnFork \cup {"unstarted"}
    BY <2>1
  <2>9. node' = [node EXCEPT ![Node(s)] = n]
    BY <1>3, <1>6
  <2> QED BY <1>4, <2>1, <2>4, <2>5, <2>6, <2>7, <2>8, <2>9, StepParts, StepKeeps
<1> QED BY <1>5, <1>6 DEF Fund

LEMMA PriceBlockedKeeps ==
  ASSUME NEW s \in Sims, Inv, ConstantsAssumption, UNCHANGED routes, PriceBlocked(s)
  PROVE  Inv'
<1>1. StepOf(s) /\ Return(s, "failed", "oracle")
  BY DEF PriceBlocked, StepOf, Same, Started, OnFork
<1> QED BY <1>1, ReturnKeeps

LEMMA EnforcePolicyKeeps ==
  ASSUME NEW s \in Sims, Inv, ConstantsAssumption, UNCHANGED routes, EnforcePolicy(s)
  PROVE  Inv'
<1>1. sim[s].at = "price" /\ sim[s].at \in OnFork
  BY DEF EnforcePolicy, OnFork
<1>2. StepOf(s) /\ UNCHANGED <<healthy, moved>>
  BY <1>1 DEF EnforcePolicy, StepOf, Same, Started
<1>3. CASE Blocked(Req(s), TRUE)
  <2>1. Return(s, "failed", "policy")
    BY <1>3 DEF EnforcePolicy
  <2> QED BY <1>2, <2>1, ReturnKeeps
<1>4. CASE ~Blocked(Req(s), TRUE)
  <2>1. PICK q \in SimRecord, n \in Fork : q = sim[s] /\ n = node[Node(s)]
    BY <1>1, HereIs
  <2>2. /\ sim \in [Sims -> SimRecord] /\ Orderly(q) /\ q.req \in Requests
        /\ Sound(q, n, chain.open, s \in alone, s \in healthy, s \in moved)
    BY <1>1, <2>1, HereIs
  <2>3. PICK leg \in {"setup", "main"} : leg = FirstLeg(q.req.playbook)
    BY DEF FirstLeg
  <2>4. Enters(s, "check", leg) /\ UNCHANGED <<node, artifact>>
    <3>1. leg = FirstLeg(Req(s).playbook)
      BY <2>1, <2>3 DEF Req
    <3> QED BY <1>4, <3>1, Zenon DEF EnforcePolicy, Enters
  <2>5. PICK r \in SimRecord :
          /\ sim' = [sim EXCEPT ![s] = r]
          /\ r = [at |-> "check", req |-> q.req, leg |-> leg, until |-> q.until,
                  before |-> q.before, shares |-> q.shares]
    <3>1. "check" \in SimStates
      BY DEF SimStates, OnFork, Priced
    <3> QED BY <2>1, <2>2, <2>4, <3>1, LegIs
  <2>6. r.at \in OnFork /\ Orderly(r) /\ OnFirstLeg(r)
    BY <1>1, <1>4, <2>1, <2>2, <2>3, <2>5 DEF Orderly, OnFork, Priced, OnFirstLeg, Req
  <2>7. ASSUME s \in alone PROVE Funds(r, n)
    BY <1>1, <2>1, <2>2, <2>5, <2>7 DEF Sound, Funds
  <2>8. Evidence(r, n, chain.open, s \in moved') /\ Health(r, n)
    BY <2>5, <2>6 DEF Evidence, Health
  <2>9. Sound(r, n, chain.open, s \in alone, s \in healthy', s \in moved')
    BY <1>2, <2>2, <2>7, <2>8 DEF Sound
  <2> QED BY <1>1, <1>2, <2>1, <2>4, <2>5, <2>6, <2>9, StaysOn
<1> QED BY <1>3, <1>4

LEMMA AskKeeps ==
  ASSUME NEW s \in Sims, Inv, ConstantsAssumption, UNCHANGED routes, Ask(s)
  PROVE  Inv'
<1>1. /\ SimTypes /\ CountTypes /\ RouteTypes /\ \A t \in Sims : SimInv(t)
      /\ \A c \in Submits : SubmitInv(c)
      /\ sim[s].at = "idle" /\ UNCHANGED <<external, chain, head, node, healthy, moved, faults>>
  BY DEF Inv, Ask, NoFault
<1>2. PICK req \in Requests :
        IF Blocked(req, FALSE)
        THEN /\ artifact' = [artifact EXCEPT ![s] = [NoArtifact EXCEPT !.status = "failed",
                                                        !.why = "policy", !.req = req]]
             /\ Goto(s, "over")
        ELSE /\ sim' = [sim EXCEPT ![s] = [NoSim EXCEPT !.at = "start", !.req = req]]
             /\ UNCHANGED artifact
  BY Zenon DEF Ask, Goto
<1>3. \E r \in SimRecord, a \in Artifacts :
        /\ sim' = [sim EXCEPT ![s] = r] /\ Orderly(r) /\ r.at \in {"start", "over"}
        /\ artifact' = [artifact EXCEPT ![s] = a]
        /\ a = artifact[s] \/ (a.status = "failed" /\ a.why = "policy")
  <2>1. CASE Blocked(req, FALSE)
    <3>1. PICK r \in SimRecord :
            /\ sim' = [sim EXCEPT ![s] = r]
            /\ r = [at |-> "over", req |-> sim[s].req, leg |-> sim[s].leg, until |-> sim[s].until,
                    before |-> sim[s].before, shares |-> sim[s].shares]
      BY <1>1, <1>2, <2>1, GotoIs DEF SimTypes, SimStates
    <3>2. Orderly(r)
      BY <1>1, <3>1 DEF SimInv, Orderly, Priced, OnFork
    <3>3. PICK a \in Artifacts :
            a = [status |-> "failed", why |-> "policy", req |-> req, until |-> 0]
      BY DEF Artifacts
    <3>4. [NoArtifact EXCEPT !.status = "failed", !.why = "policy", !.req = req] = a
      <4>1. PICK b \in Artifacts :
              b = [status |-> "failed", why |-> "none", req |-> NoRequest, until |-> 0]
        BY DEF Artifacts
      <4>2. PICK c \in Artifacts :
              c = [status |-> "failed", why |-> "policy", req |-> NoRequest, until |-> 0]
        BY DEF Artifacts
      <4>3. [NoArtifact EXCEPT !.status = "failed"] = b
        BY <4>1 DEF NoArtifact
      <4>4. [b EXCEPT !.why = "policy"] = c
        BY <4>1, <4>2
      <4>5. [c EXCEPT !.req = req] = a
        BY <3>3, <4>2
      <4>6. [NoArtifact EXCEPT !.status = "failed", !.why = "policy", !.req = req]
              = [[[NoArtifact EXCEPT !.status = "failed"] EXCEPT !.why = "policy"] EXCEPT !.req = req]
        BY Zenon
      <4> QED BY <4>3, <4>4, <4>5, <4>6, Zenon
    <3>5. artifact' = [artifact EXCEPT ![s] = a]
      BY <1>2, <2>1, <3>4, Zenon
    <3> QED BY <3>1, <3>2, <3>3, <3>5
  <2>2. CASE ~Blocked(req, FALSE)
    <3>1. PICK r \in SimRecord :
            r = [at |-> "start", req |-> req, leg |-> "main", until |-> 0, before |-> 0,
                 shares |-> 0]
      BY DEF SimRecord, SimStates
    <3>2. [NoSim EXCEPT !.at = "start", !.req = req] = r
      <4>1. PICK q \in SimRecord :
              q = [at |-> "start", req |-> NoRequest, leg |-> "main", until |-> 0, before |-> 0,
                   shares |-> 0]
        BY DEF SimRecord, SimStates
      <4>2. [NoSim EXCEPT !.at = "start"] = q
        BY <4>1 DEF NoSim
      <4>3. [q EXCEPT !.req = req] = r
        BY <3>1, <4>1
      <4>4. [NoSim EXCEPT !.at = "start", !.req = req]
              = [[NoSim EXCEPT !.at = "start"] EXCEPT !.req = req]
        BY Zenon
      <4> QED BY <4>2, <4>3, <4>4, Zenon
    <3>3. sim' = [sim EXCEPT ![s] = r]
      BY <1>2, <2>2, <3>2, Zenon
    <3>4. Orderly(r)
      BY <3>1 DEF Orderly, OnFork, Priced
    <3>5. PICK a \in Artifacts : a = artifact[s]
      BY <1>1 DEF SimTypes
    <3>6. artifact' = [artifact EXCEPT ![s] = a]
      BY <1>1, <1>2, <2>2, <3>5 DEF SimTypes
    <3> QED BY <3>1, <3>3, <3>4, <3>5, <3>6
  <2> QED BY <2>1, <2>2
<1>4. PICK r \in SimRecord, a \in Artifacts :
        /\ sim' = [sim EXCEPT ![s] = r] /\ Orderly(r) /\ r.at \in {"start", "over"}
        /\ artifact' = [artifact EXCEPT ![s] = a]
        /\ a = artifact[s] \/ (a.status = "failed" /\ a.why = "policy")
  BY <1>3
<1>5. /\ \A t \in Sims : t # s => sim'[t] = sim[t] /\ artifact'[t] = artifact[t]
      /\ sim'[s] = r /\ artifact'[s] = a
  BY <1>1, <1>4 DEF SimTypes
<1>6. alone' = IF external /\ r.at = "start" /\ Running # {} THEN alone \ (Running \cup {s}) ELSE alone
  BY <1>5 DEF Ask
<1>7. s \notin Running /\ Running' = IF r.at = "start" THEN Running \cup {s} ELSE Running
  BY <1>1, <1>4, <1>5 DEF Running
<1>8. s \notin stored /\ alone' \subseteq alone
  BY <1>1, <1>6 DEF SimInv
<1>9. SimTypes' /\ CountTypes' /\ RouteTypes'
  BY <1>1, <1>4, <1>8 DEF SimTypes, CountTypes, RouteTypes, routes
<1>10. ASSUME NEW t \in Sims, t \in alone', t \in Running', external PROVE \A u \in Running' : u = t
  <2>1. CASE r.at = "start" /\ Running # {}
    BY <2>1, <1>6, <1>7, <1>10
  <2>2. CASE r.at = "start" /\ Running = {}
    BY <2>2, <1>7, <1>10
  <2>3. CASE r.at # "start"
    BY <2>3, <1>1, <1>7, <1>8, <1>10 DEF SimInv
  <2> QED BY <2>1, <2>2, <2>3
<1>11. ASSUME NEW t \in Sims PROVE SimInv(t)'
  <2>1. SimInv(t) /\ Node(t)' = Node(t)
    BY <1>1 DEF Node
  <2>2. (external /\ t \in alone \cap Running => \A u \in Running : u = t)'
    BY <1>1, <1>10
  <2>3. (node[t] # Down => ~external /\ (t \in Running \/ sim[t].at = "unstarted"))'
    BY <1>1, <1>5, <1>7, <2>1 DEF SimInv
  <2>4. ArtifactInv(t)'
    <3>1. ArtifactInv(t)
      BY <2>1 DEF SimInv
    <3>2. artifact'[t] = artifact[t] \/ (artifact'[t].status = "failed" /\ artifact'[t].why = "policy")
      BY <1>4, <1>5
    <3> QED BY <1>1, <1>8, <3>1, <3>2 DEF ArtifactInv
  <2>5. CASE t = s
    <3>1. sim'[s].at \notin OnFork /\ Orderly(sim'[s])
      BY <1>4, <1>5 DEF OnFork, Priced
    <3> QED BY <1>8, <2>2, <2>3, <2>4, <2>5, <3>1 DEF SimInv, routes
  <2>6. CASE t # s
    <3>1. sim'[t] = sim[t] /\ artifact'[t] = artifact[t] /\ node' = node
      BY <1>1, <1>5, <2>6
    <3>2. ASSUME sim[t].at \in OnFork
          PROVE  Sound(sim[t], node[Node(t)], chain.open, t \in alone', t \in healthy, t \in moved)
      BY <1>8, <2>1, <3>2 DEF SimInv, Sound
    <3>3. ASSUME sim[t].at \in OnFork
          PROVE  Sound(sim[t], node[Node(t)], chain.open, t \in alone, t \in healthy, t \in moved)'
      BY <1>1, <2>1, <3>1, <3>2, <3>3 DEF Sound, Funds, Evidence
    <3> QED BY <2>1, <2>2, <2>3, <2>4, <3>1, <3>3 DEF SimInv, routes
  <2> QED BY <2>5, <2>6
<1>12. ASSUME NEW x, Passed(x) PROVE Passed(x)' /\ artifact'[x] = artifact[x]
  BY <1>12, <1>1, <1>5, <1>8 DEF Passed, RouteTypes, routes
<1>13. ASSUME NEW c \in Submits PROVE SubmitInv(c)'
  <2>1. SubmitInv(c)
    BY <1>1
  <2>2. UNCHANGED <<submit, unread, proposals, safeNonce, head>>
    BY <1>1 DEF routes
  <2>3. submit[c].at \in Holding => submit[c].at \notin Fresh
    BY DEF Holding, Fresh
  <2> QED BY <2>1, <2>2, <2>3, <1>12 DEF SubmitInv, Proposal
<1>14. ProposalInv' /\ RecordsMatch'
  BY <1>1, <1>12 DEF Inv, ProposalInv, RecordsMatch, Proposal, routes
<1>15. external' => node'["shared"] \in Fork
  BY <1>1 DEF Inv
<1> QED BY <1>9, <1>11, <1>13, <1>14, <1>15 DEF Inv

LEMMA SimulateKeeps ==
  ASSUME NEW s \in Sims, Inv, ConstantsAssumption, Simulate(s)
  PROVE  Inv'
<1>1. UNCHANGED routes
  BY DEF Simulate
<1>2. CASE Ask(s)
  BY <1>1, <1>2, AskKeeps
<1>3. CASE SpawnAnvil(s) \/ ConnectToExternalFork(s)
  BY <1>1, <1>3, SpawnKeeps
<1>4. CASE Fund(s)
  BY <1>1, <1>4, FundKeeps
<1>5. CASE PriceBlocked(s)
  BY <1>1, <1>5, PriceBlockedKeeps
<1>6. CASE EnforcePolicy(s)
  BY <1>1, <1>6, EnforcePolicyKeeps
<1>7. CASE AaveSupply(s)
  BY <1>1, <1>7, AaveSupplyKeeps
<1>8. CASE AaveWithdraw(s)
  BY <1>1, <1>8, AaveWithdrawKeeps
<1>9. CASE UniswapSwap(s)
  BY <1>1, <1>9, UniswapSwapKeeps
<1>10. CASE MorphoDeposit(s)
  BY <1>1, <1>10, MorphoDepositKeeps
<1>11. CASE MorphoWithdraw(s)
  BY <1>1, <1>11, MorphoWithdrawKeeps
<1> QED BY <1>2, <1>3, <1>4, <1>5, <1>6, <1>7, <1>8, <1>9, <1>10, <1>11 DEF Simulate, SimStep

-----------------------------------------------------------------------------
(* The routes *)

(* A step of a route leaves the simulations and what is stored alone. *)
LEMMA RouteKeeps ==
  ASSUME Inv, ConstantsAssumption, UNCHANGED <<simulator, stored>>, NoFault \/ Fault,
         safeNonce' \in 0 .. MaxNonce, submit' \in [Submits -> Calls],
         proposals' \subseteq SafeTxs,
         \A p \in proposals' : Passed(p.sim) /\ p.nonce <= safeNonce',
         \A c \in Submits : SubmitInv(c)', RecordsMatch'
  PROVE  Inv'
<1>1. SimTypes /\ CountTypes /\ RouteTypes /\ \A s \in Sims : SimInv(s)
  BY DEF Inv
<1>2. /\ UNCHANGED <<external, chain, head, node, sim, artifact, healthy, alone, moved, stored>>
      /\ faults \in Nat /\ faults' \in 0 .. MaxFaults /\ faults <= faults'
  BY <1>1, ConstantsAssumption DEF simulator, CountTypes, ConstantsAssumption, NoFault, Fault
<1>3. SimTypes' /\ CountTypes' /\ RouteTypes'
  BY <1>1, <1>2 DEF SimTypes, CountTypes, RouteTypes
<1>4. ASSUME NEW s \in Sims PROVE SimInv(s)'
  <2>1. SimInv(s)
    BY <1>1
  <2>2. ArtifactInv(s)'
    BY <1>2, <2>1 DEF SimInv, ArtifactInv
  <2>3. (node[s] # Down => ~external /\ (s \in Running \/ sim[s].at = "unstarted"))'
    BY <1>2, <2>1 DEF SimInv, Running
  <2>4. (external /\ s \in alone \cap Running => \A t \in Running : t = s)'
    BY <1>2, <2>1 DEF SimInv, Running
  <2>5. ASSUME sim[s].at \in OnFork
        PROVE  Sound(sim[s], node[Node(s)], chain.open, s \in alone, s \in healthy, s \in moved)'
    BY <1>2, <2>1, <2>5 DEF SimInv, Node, Sound, Funds, Evidence
  <2> QED BY <1>2, <2>1, <2>2, <2>3, <2>4, <2>5 DEF SimInv
<1>5. ProposalInv'
  BY <1>2 DEF ProposalInv, Passed
<1>6. external' => node'["shared"] \in Fork
  BY <1>2 DEF Inv
<1> QED BY <1>3, <1>4, <1>5, <1>6 DEF Inv

(* What holds of a call that a step leaves alone. *)
LEMMA CallKept ==
  ASSUME NEW c \in Submits, Inv, UNCHANGED <<simulator, stored>>, submit'[c] = submit[c],
         unread \subseteq unread', proposals \subseteq proposals',
         safeNonce \in Nat, safeNonce' \in Nat, safeNonce <= safeNonce'
  PROVE  SubmitInv(c)'
<1>1. SubmitInv(c) /\ submit[c].nonce \in Nat
  BY DEF Inv, RouteTypes, Calls
<1>2. UNCHANGED <<artifact, head>>
  BY DEF simulator
<1> QED BY <1>1, <1>2 DEF SubmitInv, Passed, Proposal

(* A step of a call that is not about to record, and will not be. *)
LEMMA CallStep ==
  ASSUME NEW c \in Submits, Inv, ConstantsAssumption, NoFault \/ Fault,
         UNCHANGED <<simulator, stored, safeNonce, manual, records, proposals>>,
         submit[c].at # "record", NEW k \in Calls, submit' = [submit EXCEPT ![c] = k],
         unread \subseteq unread', SubmitInv(c)'
  PROVE  Inv'
<1>1. SimTypes /\ CountTypes /\ RouteTypes /\ ProposalInv /\ RecordsMatch
  BY DEF Inv
<1>2. /\ submit'[c] = k /\ submit' \in [Submits -> Calls]
      /\ \A d \in Submits : d # c => submit'[d] = submit[d]
  BY <1>1 DEF RouteTypes
<1>3. safeNonce \in Nat /\ safeNonce' \in 0 .. MaxNonce /\ safeNonce <= safeNonce'
  BY <1>1 DEF CountTypes
<1>4. ASSUME NEW d \in Submits PROVE SubmitInv(d)'
  <2>1. CASE d = c
    BY <2>1
  <2>2. CASE d # c
    BY <1>2, <1>3, <2>2, CallKept
  <2> QED BY <2>1, <2>2
<1>5. RecordsMatch'
  <2>1. faults' = 0 => faults = 0
    BY <1>1, ConstantsAssumption DEF CountTypes, ConstantsAssumption, NoFault, Fault
  <2>2. ASSUME NEW p, NEW d \in Submits, submit[d].at = "record", Proposal(d) = p
        PROVE  submit'[d].at = "record" /\ Proposal(d)' = p
    BY <1>2, <2>2 DEF Proposal
  <2> QED BY <1>1, <2>1, <2>2 DEF RecordsMatch
<1> QED BY <1>1, <1>2, <1>3, <1>4, <1>5, RouteKeeps DEF RouteTypes, ProposalInv

LEMMA ToIs ==
  ASSUME NEW c \in Submits, submit \in [Submits -> Calls],
         NEW at \in Fresh \cup Holding \cup {"block", "fetch"}, To(c, at)
  PROVE  \E k \in Calls :
           /\ submit' = [submit EXCEPT ![c] = k]
           /\ k = [at |-> at, sim |-> submit[c].sim, nonce |-> submit[c].nonce,
                   began |-> submit[c].began]
<1>1. PICK q \in Calls : q = submit[c]
  OBVIOUS
<1>2. PICK k \in Calls : k = [at |-> at, sim |-> q.sim, nonce |-> q.nonce, began |-> q.began]
  BY DEF Calls
<1>3. [q EXCEPT !.at = at] = k
  BY <1>2 DEF Calls
<1>4. submit' = [submit EXCEPT ![c] = [q EXCEPT !.at = at]]
  BY <1>1, Zenon DEF To
<1>5. submit' = [submit EXCEPT ![c] = k]
  BY <1>3, <1>4, Zenon
<1> QED BY <1>1, <1>2, <1>5

LEMMA EndIs ==
  ASSUME NEW c \in Submits, End(c)
  PROVE  \E k \in Calls :
           /\ submit' = [submit EXCEPT ![c] = k]
           /\ k = [at |-> "done", sim |-> Nobody, nonce |-> 0, began |-> 0]
<1>1. PICK k \in Calls : k = [at |-> "done", sim |-> Nobody, nonce |-> 0, began |-> 0]
  BY DEF Calls, Fresh
<1>2. Done = k
  BY <1>1 DEF Done, Idle
<1>3. submit' = [submit EXCEPT ![c] = k]
  BY <1>2, Zenon DEF End
<1> QED BY <1>1, <1>3

(* A call that is over promises nothing any more. *)
LEMMA EndKeeps ==
  ASSUME NEW c \in Submits, Inv, ConstantsAssumption, NoFault \/ Fault, End(c),
         UNCHANGED <<simulator, stored, safeNonce, manual, records, proposals, unread>>,
         submit[c].at # "record"
  PROVE  Inv'
<1>1. PICK k \in Calls :
        /\ submit' = [submit EXCEPT ![c] = k]
        /\ k = [at |-> "done", sim |-> Nobody, nonce |-> 0, began |-> 0]
  BY EndIs
<1>2. submit \in [Submits -> Calls] /\ safeNonce \in Nat
  BY DEF Inv, RouteTypes, CountTypes
<1>3. SubmitInv(c)'
  BY <1>1, <1>2 DEF SubmitInv, Fresh, Holding
<1> QED BY <1>1, <1>3, CallStep

LEMMA SubmitReads ==
  ASSUME NEW c \in Submits, Inv, ConstantsAssumption,
         StartSubmit(c) \/ Fetch(c) \/ CheckBlock(c) \/ HandOut(c) \/ ReadSafe(c) \/ ReadNonce(c)
  PROVE  Inv'
<1>1. /\ submit \in [Submits -> Calls] /\ SubmitInv(c) /\ submit[c] \in Calls
      /\ safeNonce \in Nat /\ head \in Nat /\ artifact \in [Sims -> Artifacts] /\ stored \subseteq Sims
  BY DEF Inv, RouteTypes, CountTypes, SimTypes
<1>2. CASE StartSubmit(c) \/ Fetch(c)
  <2>1. PICK s \in Sims, at \in {"block", "fetch"} :
          /\ Submittable(s) /\ submit[c].at = "idle"
          /\ submit' = [submit EXCEPT ![c] = [at |-> at, sim |-> s, nonce |-> 0, began |-> head]]
    BY <1>2 DEF StartSubmit, Fetch
  <2>2. /\ NoFault /\ UNCHANGED <<proposals, records, unread>> /\ Route
    BY <1>2 DEF StartSubmit, Fetch
  <2>3. PICK k \in Calls : k = [at |-> at, sim |-> s, nonce |-> 0, began |-> head]
    BY <1>1 DEF Calls
  <2>4. submit' = [submit EXCEPT ![c] = k]
    BY <2>1, <2>3, Zenon
  <2>5. SubmitInv(c)'
    <3>1. submit'[c] = k
      BY <1>1, <2>4
    <3>2. Passed(s)'
      BY <2>1, <2>2 DEF Submittable, Passed, Route, simulator
    <3> QED BY <1>1, <2>2, <2>3, <3>1, <3>2 DEF SubmitInv, Fresh, Holding, Route, simulator
  <2> QED BY <2>1, <2>2, <2>4, <2>5, CallStep DEF Route
<1>3. ASSUME NEW at \in {"safe", "nonce", "held"}, To(c, at), NoFault \/ Fault,
             UNCHANGED <<proposals, records>>, Route, submit[c].at \in {"block", "safe", "fetch"},
             unread' \in {unread, unread \cup {c}},
             c \in unread' \/ submit[c].began <= artifact[submit[c].sim].until
      PROVE  Inv'
  <2>1. PICK k \in Calls :
          /\ submit' = [submit EXCEPT ![c] = k]
          /\ k = [at |-> at, sim |-> submit[c].sim, nonce |-> submit[c].nonce,
                  began |-> submit[c].began]
    BY <1>1, <1>3, ToIs DEF Holding
  <2>2. submit'[c] = k
    BY <1>1, <2>1
  <2>3. Passed(k.sim)' /\ k.began <= head' /\ k.nonce <= safeNonce'
    BY <1>1, <1>3, <2>1 DEF SubmitInv, Fresh, Passed, Route, simulator
  <2>4. c \in unread' \/ k.began <= artifact'[k.sim].until
    BY <1>3, <2>1 DEF Route, simulator
  <2>5. SubmitInv(c)'
    BY <1>3, <2>1, <2>2, <2>3, <2>4 DEF SubmitInv
  <2> QED BY <1>3, <2>1, <2>5, CallStep DEF Route
<1>4. submit[c].at \in {"block", "fetch"} /\ ~Stale(submit[c].sim) =>
        submit[c].began <= artifact[submit[c].sim].until
  <2>1. SUFFICES ASSUME submit[c].at \in {"block", "fetch"}, ~Stale(submit[c].sim)
                 PROVE  submit[c].began <= artifact[submit[c].sim].until
    OBVIOUS
  <2>2. submit[c].sim \in Sims /\ submit[c].began <= head /\ submit[c].began \in Nat
    BY <1>1, <2>1 DEF SubmitInv, Fresh, Passed, Calls
  <2>3. artifact[submit[c].sim].until \in Nat
    BY <1>1, <2>2 DEF Artifacts
  <2> QED BY <1>1, <2>1, <2>2, <2>3 DEF Stale
<1>5. ASSUME submit[c].at # "record", End(c), NoFault \/ Fault, UNCHANGED <<proposals, records, unread>>, Route
      PROVE  Inv'
  BY <1>5, EndKeeps DEF Route
<1>6. CASE CheckBlock(c) \/ HandOut(c)
  <2>1. PICK at \in {"safe", "held"} :
          /\ submit[c].at \in {"block", "fetch"}
          /\ \/ ~Stale(submit[c].sim) /\ To(c, at) /\ NoFault /\ UNCHANGED unread
             \/ Stale(submit[c].sim) /\ End(c) /\ NoFault /\ UNCHANGED unread
             \/ Fault /\ To(c, at) /\ unread' = unread \cup {c}
          /\ UNCHANGED <<proposals, records>> /\ Route
    BY <1>6 DEF CheckBlock, HandOut
  <2>2. CASE ~Stale(submit[c].sim) /\ To(c, at) /\ NoFault /\ UNCHANGED unread
    BY <1>3, <1>4, <2>1, <2>2
  <2>3. CASE Stale(submit[c].sim) /\ End(c) /\ NoFault /\ UNCHANGED unread
    BY <1>5, <2>1, <2>3
  <2>4. CASE Fault /\ To(c, at) /\ unread' = unread \cup {c}
    BY <1>3, <2>1, <2>4
  <2> QED BY <2>1, <2>2, <2>3, <2>4
<1>7. CASE ReadSafe(c)
  <2>1. CASE To(c, "nonce") /\ NoFault
    <3>1. c \in unread \/ submit[c].began <= artifact[submit[c].sim].until
      BY <1>1, <1>7 DEF ReadSafe, SubmitInv, Holding
    <3> QED BY <1>3, <1>7, <2>1, <3>1 DEF ReadSafe
  <2>2. CASE End(c) /\ Fault
    BY <1>5, <1>7, <2>2 DEF ReadSafe
  <2> QED BY <1>7, <2>1, <2>2 DEF ReadSafe
<1>8. CASE ReadNonce(c)
  <2>1. CASE submit' = [submit EXCEPT ![c].at = "post", ![c].nonce = safeNonce] /\ NoFault
    <3>1. PICK q \in Calls : q = submit[c]
      BY <1>1
    <3>2. PICK m \in Calls : m = [at |-> "post", sim |-> q.sim, nonce |-> q.nonce, began |-> q.began]
      BY DEF Calls, Holding
    <3>3. PICK k \in Calls : k = [at |-> "post", sim |-> q.sim, nonce |-> safeNonce, began |-> q.began]
      BY <1>1 DEF Calls, Holding
    <3>4. [q EXCEPT !.at = "post"] = m /\ [m EXCEPT !.nonce = safeNonce] = k
      BY <3>2, <3>3 DEF Calls
    <3>5. submit' = [submit EXCEPT ![c] = [[q EXCEPT !.at = "post"] EXCEPT !.nonce = safeNonce]]
      BY <2>1, <3>1, Zenon
    <3>6. submit' = [submit EXCEPT ![c] = k]
      BY <3>4, <3>5, Zenon
    <3>7. submit'[c] = k /\ submit[c].at = "nonce" /\ UNCHANGED <<artifact, head, stored, safeNonce, unread>>
      BY <1>1, <1>8, <3>6 DEF ReadNonce, Route, simulator
    <3>8. SubmitInv(c)'
      BY <1>1, <3>1, <3>3, <3>7 DEF SubmitInv, Fresh, Holding, Passed
    <3> QED BY <1>8, <2>1, <3>6, <3>7, <3>8, CallStep DEF ReadNonce, Route
  <2>2. CASE End(c) /\ Fault
    BY <1>5, <1>8, <2>2 DEF ReadNonce
  <2> QED BY <1>8, <2>1, <2>2 DEF ReadNonce
<1> QED BY <1>2, <1>6, <1>7, <1>8

LEMMA PostKeeps ==
  ASSUME NEW c \in Submits, Inv, ConstantsAssumption, Post(c)
  PROVE  Inv'
<1>1. /\ SimTypes /\ CountTypes /\ RouteTypes /\ ProposalInv /\ RecordsMatch
      /\ submit \in [Submits -> Calls] /\ SubmitInv(c) /\ submit[c] \in Calls
      /\ safeNonce \in Nat /\ safeNonce \in 0 .. MaxNonce /\ stored \subseteq Sims
  BY DEF Inv, RouteTypes, CountTypes
<1>2. /\ submit[c].at = "post" /\ UNCHANGED <<records, unread>> /\ Route
  BY DEF Post
<1>3. /\ Passed(submit[c].sim) /\ submit[c].nonce <= safeNonce
      /\ Proposal(c) \in SafeTxs /\ Proposal(c).sim = submit[c].sim
      /\ Proposal(c).nonce = submit[c].nonce
  BY <1>1, <1>2 DEF SubmitInv, Fresh, Proposal, SafeTxs, Passed, Calls
<1>4. ASSUME NoFault \/ Fault, proposals' \in {proposals, proposals \cup {Proposal(c)}},
             NEW k \in Calls, submit' = [submit EXCEPT ![c] = k],
             SubmitInv(c)', RecordsMatch'
      PROVE  Inv'
  <2>1. proposals \subseteq proposals' /\ proposals' \subseteq SafeTxs
    BY <1>1, <1>3, <1>4 DEF RouteTypes
  <2>2. UNCHANGED <<simulator, stored>> /\ UNCHANGED safeNonce
    BY <1>2 DEF Route
  <2>3. \A p \in proposals' : Passed(p.sim) /\ p.nonce <= safeNonce'
    BY <1>1, <1>3, <1>4, <2>2 DEF ProposalInv
  <2>4. submit' \in [Submits -> Calls] /\ \A d \in Submits : d # c => submit'[d] = submit[d]
    BY <1>1, <1>4
  <2>5. ASSUME NEW d \in Submits PROVE SubmitInv(d)'
    <3>1. CASE d = c
      BY <1>4, <3>1
    <3>2. CASE d # c
      BY <1>1, <1>2, <2>1, <2>2, <2>4, <3>2, CallKept
    <3> QED BY <3>1, <3>2
  <2> QED BY <1>1, <1>4, <2>1, <2>2, <2>3, <2>4, <2>5, RouteKeeps
<1>5. CASE /\ submit[c].nonce >= safeNonce /\ NoFault
           /\ proposals' = proposals \cup {Proposal(c)}
           /\ To(c, "record")
  <2>1. PICK k \in Calls :
          /\ submit' = [submit EXCEPT ![c] = k]
          /\ k = [at |-> "record", sim |-> submit[c].sim, nonce |-> submit[c].nonce,
                  began |-> submit[c].began]
    BY <1>1, <1>5, ToIs DEF Holding
  <2>2. submit'[c] = k /\ \A d \in Submits : d # c => submit'[d] = submit[d]
    BY <1>1, <2>1
  <2>3. Proposal(c)' = Proposal(c)
    BY <2>1, <2>2 DEF Proposal
  <2>4. UNCHANGED <<stored, artifact, head, unread, safeNonce, manual, records, faults>>
    BY <1>2, <1>5 DEF Route, simulator, NoFault
  <2>5. SubmitInv(c)'
    BY <1>1, <1>2, <1>5, <2>1, <2>2, <2>3, <2>4 DEF SubmitInv, Fresh, Holding, Passed
  <2>6. RecordsMatch'
    <3>1. ASSUME NEW p, NEW d \in Submits, submit[d].at = "record", Proposal(d) = p
          PROVE  submit'[d].at = "record" /\ Proposal(d)' = p
      BY <1>2, <2>2, <3>1 DEF Proposal
    <3>2. submit'[c].at = "record"
      BY <2>1, <2>2
    <3> QED BY <1>1, <1>5, <2>3, <2>4, <3>1, <3>2 DEF RecordsMatch
  <2> QED BY <1>4, <1>5, <2>1, <2>5, <2>6
<1>6. CASE /\ End(c)
           /\ \/ submit[c].nonce < safeNonce /\ NoFault /\ UNCHANGED proposals
              \/ Fault /\ proposals' \in {proposals, proposals \cup {Proposal(c)}}
  <2>1. PICK k \in Calls :
          /\ submit' = [submit EXCEPT ![c] = k]
          /\ k = [at |-> "done", sim |-> Nobody, nonce |-> 0, began |-> 0]
    BY <1>6, EndIs
  <2>2. submit'[c] = k /\ \A d \in Submits : d # c => submit'[d] = submit[d]
    BY <1>1, <2>1
  <2>3. UNCHANGED <<safeNonce, manual, records>>
    BY <1>2 DEF Route
  <2>4. SubmitInv(c)'
    BY <1>1, <2>1, <2>2, <2>3 DEF SubmitInv, Fresh, Holding
  <2>5. RecordsMatch'
    <3>1. ASSUME NEW p, NEW d \in Submits, submit[d].at = "record", Proposal(d) = p
          PROVE  submit'[d].at = "record" /\ Proposal(d)' = p
      BY <1>2, <2>2, <3>1 DEF Proposal
    <3>2. faults' = 0 => faults = 0 /\ UNCHANGED proposals
      BY <1>1, <1>6, ConstantsAssumption DEF CountTypes, ConstantsAssumption, NoFault, Fault
    <3>3. proposals \subseteq proposals'
      BY <1>6
    <3> QED BY <1>1, <2>3, <3>1, <3>2, <3>3 DEF RecordsMatch
  <2>6. NoFault \/ Fault
    BY <1>6
  <2>7. proposals' \in {proposals, proposals \cup {Proposal(c)}}
    BY <1>6
  <2> QED BY <1>4, <2>1, <2>4, <2>5, <2>6, <2>7
<1> QED BY <1>5, <1>6 DEF Post

LEMMA RecordKeeps ==
  ASSUME NEW c \in Submits, Inv, ConstantsAssumption, Record(c)
  PROVE  Inv'
<1>1. /\ CountTypes /\ RouteTypes /\ ProposalInv /\ RecordsMatch
      /\ submit \in [Submits -> Calls] /\ SubmitInv(c)
      /\ safeNonce \in Nat /\ safeNonce \in 0 .. MaxNonce
  BY DEF Inv, RouteTypes, CountTypes
<1>2. /\ submit[c].at = "record" /\ End(c) /\ UNCHANGED <<proposals, unread>> /\ Route
      /\ NoFault \/ Fault
  BY DEF Record
<1>3. PICK k \in Calls :
        /\ submit' = [submit EXCEPT ![c] = k]
        /\ k = [at |-> "done", sim |-> Nobody, nonce |-> 0, began |-> 0]
  BY <1>2, EndIs
<1>4. /\ submit'[c] = k /\ submit' \in [Submits -> Calls]
      /\ \A d \in Submits : d # c => submit'[d] = submit[d]
  BY <1>1, <1>3
<1>5. UNCHANGED <<safeNonce, manual>> /\ UNCHANGED <<simulator, stored>>
  BY <1>2 DEF Route
<1>6. Proposal(c) \in proposals
  BY <1>1, <1>2 DEF SubmitInv
<1>7. ASSUME NEW d \in Submits PROVE SubmitInv(d)'
  <2>1. CASE d = c
    BY <1>1, <1>3, <1>4, <1>5, <2>1 DEF SubmitInv, Fresh, Holding
  <2>2. CASE d # c
    BY <1>1, <1>2, <1>4, <1>5, <2>2, CallKept
  <2> QED BY <2>1, <2>2
<1>8. RecordsMatch'
  <2>1. CASE NoFault /\ records' = records \cup {[by |-> c, safeTx |-> Proposal(c)]}
    <3>1. \A r \in records' : r.safeTx \in proposals'
      BY <1>1, <1>2, <1>6, <2>1 DEF RecordsMatch
    <3>2. ASSUME faults' = 0, NEW p \in proposals' \ manual'
          PROVE  \/ \E r \in records' : r.safeTx = p
                 \/ \E d \in Submits : submit'[d].at = "record" /\ Proposal(d)' = p
      <4>1. faults = 0 /\ p \in proposals \ manual
        BY <1>2, <1>5, <2>1, <3>2 DEF NoFault
      <4>2. CASE \E r \in records : r.safeTx = p
        BY <2>1, <4>2
      <4>3. CASE \E d \in Submits : submit[d].at = "record" /\ Proposal(d) = p
        <5>1. PICK d \in Submits : submit[d].at = "record" /\ Proposal(d) = p
          BY <4>3
        <5>2. CASE d = c
          <6>1. PICK r \in records' : r = [by |-> c, safeTx |-> Proposal(c)]
            BY <2>1
          <6>2. r.safeTx = p
            BY <5>1, <5>2, <6>1
          <6> QED BY <6>2
        <5>3. CASE d # c
          BY <1>4, <5>1, <5>3 DEF Proposal
        <5> QED BY <5>2, <5>3
      <4> QED BY <1>1, <4>1, <4>2, <4>3 DEF RecordsMatch
    <3> QED BY <3>1, <3>2 DEF RecordsMatch
  <2>2. CASE Fault /\ UNCHANGED records
    <3>1. faults' # 0
      BY <1>1, <2>2, ConstantsAssumption DEF CountTypes, ConstantsAssumption, Fault
    <3> QED BY <1>1, <1>2, <2>2, <3>1 DEF RecordsMatch
  <2> QED BY <2>1, <2>2 DEF Record
<1> QED BY <1>1, <1>2, <1>4, <1>5, <1>7, <1>8, RouteKeeps DEF RouteTypes, ProposalInv

LEMMA CallerPostsKeeps ==
  ASSUME NEW c \in Submits, Inv, ConstantsAssumption, CallerPosts(c)
  PROVE  Inv'
<1>1. /\ CountTypes /\ RouteTypes /\ ProposalInv /\ RecordsMatch
      /\ submit \in [Submits -> Calls] /\ SubmitInv(c)
      /\ safeNonce \in Nat /\ safeNonce \in 0 .. MaxNonce /\ stored \subseteq Sims
  BY DEF Inv, RouteTypes, CountTypes
<1>2. /\ submit[c].at = "held" /\ End(c) /\ NoFault
      /\ UNCHANGED <<simulator, stored>> /\ UNCHANGED <<safeNonce, executed, records, unread>>
  BY DEF CallerPosts
<1>3. PICK p \in SafeTxs :
        /\ p = [sim |-> submit[c].sim, nonce |-> safeNonce]
        /\ proposals' = proposals \cup {p} /\ manual' = manual \cup {p}
        /\ Passed(p.sim) /\ p.nonce = safeNonce
  <2>1. Passed(submit[c].sim)
    BY <1>1, <1>2 DEF SubmitInv, Fresh
  <2>2. PICK p \in SafeTxs : p = [sim |-> submit[c].sim, nonce |-> safeNonce]
    BY <1>1, <2>1 DEF Passed, SafeTxs
  <2>3. proposals' = proposals \cup {p} /\ manual' = manual \cup {p}
    BY <2>2 DEF CallerPosts
  <2>4. p.sim = submit[c].sim /\ p.nonce = safeNonce
    BY <2>2
  <2> QED BY <2>1, <2>2, <2>3, <2>4
<1>4. PICK k \in Calls :
        /\ submit' = [submit EXCEPT ![c] = k]
        /\ k = [at |-> "done", sim |-> Nobody, nonce |-> 0, began |-> 0]
  BY <1>2, EndIs
<1>5. /\ submit'[c] = k /\ submit' \in [Submits -> Calls]
      /\ \A d \in Submits : d # c => submit'[d] = submit[d]
  BY <1>1, <1>4
<1>6. ASSUME NEW d \in Submits PROVE SubmitInv(d)'
  <2>1. CASE d = c
    BY <1>1, <1>2, <1>4, <1>5, <2>1 DEF SubmitInv, Fresh, Holding
  <2>2. CASE d # c
    BY <1>1, <1>2, <1>3, <1>5, <2>2, CallKept
  <2> QED BY <2>1, <2>2
<1>7. RecordsMatch'
  <2>1. ASSUME NEW q, NEW d \in Submits, submit[d].at = "record", Proposal(d) = q
        PROVE  submit'[d].at = "record" /\ Proposal(d)' = q
    BY <1>2, <1>5, <2>1 DEF Proposal
  <2>2. UNCHANGED faults
    BY <1>2 DEF NoFault
  <2> QED BY <1>1, <1>2, <1>3, <2>1, <2>2 DEF RecordsMatch
<1>8. \A q \in proposals' : Passed(q.sim) /\ q.nonce <= safeNonce'
  BY <1>1, <1>2, <1>3 DEF ProposalInv
<1>9. proposals' \subseteq SafeTxs
  BY <1>1, <1>3 DEF RouteTypes
<1> QED BY <1>1, <1>2, <1>5, <1>6, <1>7, <1>8, <1>9, RouteKeeps

LEMMA SafeRunsKeeps ==
  ASSUME Inv, ConstantsAssumption, SubmissionAssumption, SafeRuns
  PROVE  Inv'
<1>1. /\ CountTypes /\ RouteTypes /\ ProposalInv /\ RecordsMatch
      /\ safeNonce \in Nat /\ safeNonce \in 0 .. MaxNonce
  BY DEF Inv, CountTypes
<1>2. /\ safeNonce < MaxNonce /\ safeNonce' = safeNonce + 1 /\ NoFault
      /\ UNCHANGED <<simulator, stored>> /\ UNCHANGED <<submit, proposals, records, unread, manual>>
  BY DEF SafeRuns
<1>3. safeNonce' \in 0 .. MaxNonce /\ safeNonce' \in Nat /\ safeNonce <= safeNonce'
  BY <1>1, <1>2, SubmissionAssumption DEF SubmissionAssumption
<1>4. ASSUME NEW d \in Submits PROVE SubmitInv(d)'
  BY <1>1, <1>2, <1>3, CallKept
<1>5. RecordsMatch'
  BY <1>1, <1>2 DEF RecordsMatch, Proposal, NoFault
<1>6. \A p \in proposals' : Passed(p.sim) /\ p.nonce <= safeNonce'
  BY <1>1, <1>2, <1>3 DEF ProposalInv, RouteTypes, SafeTxs
<1> QED BY <1>1, <1>2, <1>3, <1>4, <1>5, <1>6, RouteKeeps DEF RouteTypes

LEMMA PersistKeeps ==
  ASSUME NEW s \in Sims, Inv, ConstantsAssumption, Persist(s)
  PROVE  Inv'
<1>1. /\ SimTypes /\ CountTypes /\ RouteTypes /\ \A t \in Sims : SimInv(t)
      /\ \A c \in Submits : SubmitInv(c)
      /\ ProposalInv /\ RecordsMatch
  BY DEF Inv
<1>2. /\ sim[s].at = "over" /\ artifact[s].status # "none"
      /\ stored' \in {stored, stored \cup {s}} /\ Goto(s, "answered")
      /\ UNCHANGED <<external, chain, head, node, artifact, healthy, alone, moved>>
      /\ UNCHANGED <<submit, proposals, records, safeNonce, executed, unread, manual>>
      /\ faults \in Nat /\ faults' \in 0 .. MaxFaults /\ faults <= faults'
  BY <1>1, ConstantsAssumption DEF Persist, Goto, CountTypes, ConstantsAssumption, NoFault, Fault
<1>3. PICK r \in SimRecord :
        /\ sim' = [sim EXCEPT ![s] = r]
        /\ r = [at |-> "answered", req |-> sim[s].req, leg |-> sim[s].leg, until |-> sim[s].until,
                before |-> sim[s].before, shares |-> sim[s].shares]
  BY <1>1, <1>2, GotoIs DEF SimTypes, SimStates
<1>4. sim'[s] = r /\ \A t \in Sims : t # s => sim'[t] = sim[t]
  BY <1>1, <1>3 DEF SimTypes
<1>5. SimTypes' /\ CountTypes' /\ RouteTypes'
  BY <1>1, <1>2, <1>3 DEF SimTypes, CountTypes, RouteTypes
<1>6. Running' = Running
  BY <1>2, <1>3, <1>4 DEF Running
<1>7. ASSUME NEW t \in Sims PROVE SimInv(t)'
  <2>1. SimInv(t)
    BY <1>1
  <2>2. ArtifactInv(t)'
    BY <1>2, <2>1 DEF SimInv, ArtifactInv
  <2>3. (node[t] # Down => ~external /\ (t \in Running \/ sim[t].at = "unstarted"))'
    BY <1>2, <1>4, <1>6, <2>1 DEF SimInv
  <2>4. (external /\ t \in alone \cap Running => \A u \in Running : u = t)'
    BY <1>2, <1>6, <2>1 DEF SimInv
  <2>5. CASE t = s
    <3>1. sim'[s].at \notin OnFork /\ Orderly(sim'[s])
      <4>1. sim[s].leg # "setup"
        BY <1>2, <2>1, <2>5 DEF SimInv, Orderly, Priced
      <4>2. r.leg # "setup" /\ r.at = "answered"
        BY <1>3, <4>1
      <4> QED BY <1>4, <4>2 DEF Orderly, OnFork, Priced
    <3> QED BY <1>2, <1>3, <1>4, <2>2, <2>3, <2>4, <2>5, <3>1 DEF SimInv
  <2>6. CASE t # s
    <3>1. sim'[t] = sim[t] /\ (t \in stored' => t \in stored)
      BY <1>2, <1>4, <2>6
    <3>2. ASSUME sim[t].at \in OnFork
          PROVE  Sound(sim[t], node[Node(t)], chain.open, t \in alone, t \in healthy, t \in moved)'
      BY <1>2, <2>1, <3>1, <3>2 DEF SimInv, Node, Sound, Funds, Evidence
    <3> QED BY <1>2, <2>1, <2>2, <2>3, <2>4, <3>1, <3>2 DEF SimInv
  <2> QED BY <2>5, <2>6
<1>8. ASSUME NEW x, Passed(x) PROVE Passed(x)'
  BY <1>2, <1>8 DEF Passed
<1>9. ASSUME NEW c \in Submits PROVE SubmitInv(c)'
  <2>1. SubmitInv(c)
    BY <1>1
  <2> QED BY <1>2, <1>8, <2>1 DEF SubmitInv, Proposal
<1>10. ProposalInv'
  BY <1>1, <1>2, <1>8 DEF ProposalInv
<1>11. RecordsMatch'
  BY <1>1, <1>2 DEF RecordsMatch, Proposal
<1>12. external' => node'["shared"] \in Fork
  BY <1>2 DEF Inv
<1> QED BY <1>5, <1>7, <1>9, <1>10, <1>11, <1>12 DEF Inv

LEMMA BlockMinedKeeps ==
  ASSUME Inv, ConstantsAssumption, BlockMined
  PROVE  Inv'
<1>1. /\ SimTypes /\ CountTypes /\ RouteTypes /\ \A t \in Sims : SimInv(t)
      /\ \A c \in Submits : SubmitInv(c)
      /\ ProposalInv /\ RecordsMatch
  BY DEF Inv
<1>2. /\ head < MaxBlock /\ head' = head + 1
      /\ UNCHANGED <<external, chain, node, sim, artifact, healthy, alone, moved, routes>>
      /\ UNCHANGED faults
  BY DEF BlockMined, NoFault
<1>3. head \in Nat /\ head' \in 0 .. MaxBlock /\ submit \in [Submits -> Calls]
  BY <1>1, <1>2, ConstantsAssumption DEF CountTypes, ConstantsAssumption, RouteTypes
<1>4. SimTypes' /\ CountTypes' /\ RouteTypes'
  BY <1>1, <1>2, <1>3 DEF SimTypes, CountTypes, RouteTypes, routes
<1>5. ASSUME NEW t \in Sims PROVE SimInv(t)'
  <2>1. SimInv(t)
    BY <1>1
  <2>2. ArtifactInv(t)'
    BY <1>2, <2>1 DEF SimInv, ArtifactInv
  <2>3. (node[t] # Down => ~external /\ (t \in Running \/ sim[t].at = "unstarted"))'
    BY <1>2, <2>1 DEF SimInv, Running
  <2>4. (external /\ t \in alone \cap Running => \A u \in Running : u = t)'
    BY <1>2, <2>1 DEF SimInv, Running
  <2>5. ASSUME sim[t].at \in OnFork
        PROVE  Sound(sim[t], node[Node(t)], chain.open, t \in alone, t \in healthy, t \in moved)'
    BY <1>2, <2>1, <2>5 DEF SimInv, Node, Sound, Funds, Evidence
  <2> QED BY <1>2, <2>1, <2>2, <2>3, <2>4, <2>5 DEF SimInv, routes
<1>6. ASSUME NEW c \in Submits PROVE SubmitInv(c)'
  <2>1. SubmitInv(c) /\ submit[c].began \in Nat
    BY <1>1, <1>3 DEF Calls
  <2>2. submit[c].began <= head => submit[c].began <= head'
    BY <1>2, <1>3, <2>1
  <2> QED BY <1>2, <2>1, <2>2 DEF SubmitInv, Proposal, Passed, routes
<1>7. ProposalInv' /\ RecordsMatch'
  BY <1>1, <1>2 DEF ProposalInv, RecordsMatch, Proposal, Passed, routes
<1>8. external' => node'["shared"] \in Fork
  BY <1>2 DEF Inv
<1> QED BY <1>4, <1>5, <1>6, <1>7, <1>8 DEF Inv

-----------------------------------------------------------------------------
(* The invariant, and what it says *)

LEMMA InvInit ==
  ASSUME Init, ConstantsAssumption, SubmissionAssumption
  PROVE  Inv
<1>1. /\ external \in BOOLEAN /\ chain \in [rich : BOOLEAN, standing : BOOLEAN, open : BOOLEAN]
      /\ node = [k \in Nodes |-> IF k = "shared" /\ external THEN Forked ELSE Down]
      /\ sim = [s \in Sims |-> NoSim] /\ artifact = [s \in Sims |-> NoArtifact]
      /\ healthy = Sims /\ alone = Sims /\ moved = {} /\ head = 0 /\ faults = 0
      /\ stored = {} /\ proposals = {} /\ records = {} /\ unread = {} /\ manual = {}
      /\ submit = [c \in Submits |-> Idle] /\ safeNonce = 0
  BY DEF Init, SimInit, Nodes
<1>2. Forked \in Fork
  BY ConstantsAssumption DEF ConstantsAssumption, Forked, Fork
<1>3. NoSim \in SimRecord /\ NoArtifact \in Artifacts /\ Idle \in Calls
  BY DEF NoSim, NoArtifact, Idle, SimRecord, SimStates, Artifacts, Calls, Fresh
<1>4. SimTypes /\ (external => node["shared"] \in Fork)
  BY <1>1, <1>2, <1>3 DEF SimTypes, Nodes
<1>5. CountTypes /\ RouteTypes
  BY <1>1, <1>3, ConstantsAssumption, SubmissionAssumption
     DEF CountTypes, RouteTypes, ConstantsAssumption, SubmissionAssumption
<1>6. ASSUME NEW s \in Sims PROVE SimInv(s)
  <2>1. sim[s].at = "idle" /\ sim[s].leg = "main" /\ artifact[s].status = "none"
    BY <1>1 DEF NoSim, NoArtifact
  <2>2. Orderly(sim[s]) /\ ArtifactInv(s) /\ sim[s].at \notin OnFork
    BY <2>1 DEF Orderly, ArtifactInv, OnFork, Priced
  <2>3. s \notin Running
    BY <2>1 DEF Running
  <2>4. node[s] = Down
    BY <1>1, ConstantsAssumption DEF Nodes, ConstantsAssumption
  <2> QED BY <1>1, <2>2, <2>3, <2>4 DEF SimInv
<1>7. ASSUME NEW c \in Submits PROVE SubmitInv(c)
  <2>1. submit[c].at = "idle" /\ submit[c].nonce = 0
    BY <1>1 DEF Idle
  <2> QED BY <1>1, <2>1 DEF SubmitInv, Fresh, Holding
<1> QED BY <1>1, <1>4, <1>5, <1>6, <1>7 DEF Inv, ProposalInv, RecordsMatch

LEMMA InvNext ==
  ASSUME Inv, [Next]_vars, ConstantsAssumption, SubmissionAssumption
  PROVE  Inv'
<1>1. ASSUME NEW s \in Sims, Simulate(s) \/ Persist(s) PROVE Inv'
  BY <1>1, SimulateKeeps, PersistKeeps
<1>2. CASE BlockMined
  BY <1>2, BlockMinedKeeps
<1>3. CASE SafeRuns
  BY <1>3, SafeRunsKeeps
<1>4. ASSUME NEW c \in Submits,
             \/ StartSubmit(c) \/ CheckBlock(c) \/ ReadSafe(c) \/ ReadNonce(c) \/ Post(c) \/ Record(c)
             \/ Fetch(c) \/ HandOut(c) \/ CallerPosts(c)
      PROVE  Inv'
  BY <1>4, SubmitReads, PostKeeps, RecordKeeps, CallerPostsKeeps
<1>5. CASE UNCHANGED vars
  <2>1. /\ UNCHANGED <<simulator, stored>> /\ UNCHANGED faults
        /\ UNCHANGED <<submit, proposals, records, safeNonce, unread, manual>>
    BY <1>5 DEF vars, routes
  <2>2. CountTypes /\ RouteTypes /\ ProposalInv /\ RecordsMatch
    BY DEF Inv
  <2>3. ASSUME NEW c \in Submits PROVE SubmitInv(c)'
    BY <2>1, <2>2, CallKept DEF CountTypes
  <2>4. RecordsMatch'
    BY <2>1, <2>2 DEF RecordsMatch, Proposal
  <2> QED BY <2>1, <2>2, <2>3, <2>4, RouteKeeps DEF CountTypes, RouteTypes, ProposalInv, NoFault
<1> QED BY <1>1, <1>2, <1>3, <1>4, <1>5 DEF Next

LEMMA InvAlways == Spec => []Inv
<1>1. Init => Inv
  BY InvInit, ConstantsAssumption, SubmissionAssumption
<1>2. Inv /\ [Next]_vars => Inv'
  BY InvNext, ConstantsAssumption, SubmissionAssumption
<1> QED BY <1>1, <1>2, PTL DEF Spec

(* A passed artifact is evidence that its call took effect on the fork     *)
(* (receipts are not read: what makes it so are the estimate before and    *)
(* the balances after), and where nothing fails and nobody interferes the  *)
(* simulator finds that evidence, but for a swap or deposit of another     *)
(* account and a withdrawal whose set-up is more than was funded.          *)
THEOREM ArtifactsAreSound == Spec => []ArtifactsSound
<1>1. Inv => ArtifactsSound
  <2>1. SUFFICES ASSUME Inv PROVE PassedMoved /\ HealthyProves
    BY DEF ArtifactsSound
  <2>2. \A s \in Sims : ArtifactInv(s)
    BY <2>1 DEF Inv, SimInv
  <2> QED BY <2>2 DEF ArtifactInv, PassedMoved, HealthyProves
<1> QED BY <1>1, InvAlways, PTL

(* What leaves liquidity through a stored artifact leaves the mandate's    *)
(* reserve and keeps to its single-action limit: enforceMandatePolicy is   *)
(* asked again once the amount is known, on every way to "passed".         *)
THEOREM ReserveIsKept == Spec => []ReserveKept
<1>1. Inv => ReserveKept
  <2>1. SUFFICES ASSUME Inv, NEW s \in stored, artifact[s].status = "passed"
                 PROVE  LET r == artifact[s].req
                            spent == IF r.playbook = "swap" THEN Loss ELSE Amount
                        IN /\ Action(r.playbook) \in {"supply", "swap"} /\ r.liquid # Unknown
                                => r.liquid - spent >= r.policy.floor
                           /\ r.policy.maxSingle \notin {Unknown, 0} => Amount <= r.policy.maxSingle
    BY DEF ReserveKept
  <2>2. s \in Sims
    BY <2>1 DEF Inv, RouteTypes
  <2>3. PICK r \in Requests : r = artifact[s].req /\ ~Blocked(r, TRUE)
    BY <2>1, <2>2 DEF Inv, SimInv, ArtifactInv
  <2>4. /\ Amount \in Nat \ {0} /\ Loss \in Nat /\ Unknown = -1
        /\ r.playbook \in Playbooks /\ r.liquid \in Nat \cup {Unknown}
        /\ r.policy.floor \in Nat /\ r.policy.maxSingle \in Nat \cup {Unknown}
    BY ConstantsAssumption DEF ConstantsAssumption, Unknown
  <2>5. ~Refuses(r.policy, r.playbook, Amount, Loss, r.liquid)
    BY <2>3 DEF Blocked
  <2>6. Action(r.playbook) = "swap" <=> r.playbook = "swap"
    BY <2>4 DEF Action, Playbooks
  <2> QED BY <2>3, <2>4, <2>5, <2>6 DEF Refuses
<1> QED BY <1>1, InvAlways, PTL

(* The submit route and the callers of the safe-proposal route propose     *)
(* only what a stored simulation has proven, on a block number that was    *)
(* valid when the call began or could not be read, and the same call twice *)
(* only after the Safe has used the first nonce.                           *)
THEOREM ProposalsAreSound == Spec => []ProposalsSound
<1>1. Inv => ProposalsSound
  <2>1. SUFFICES ASSUME Inv PROVE ProposalsSound
    OBVIOUS
  <2>2. /\ RouteTypes /\ CountTypes /\ ProposalInv
        /\ \A s \in Sims : ArtifactInv(s)
        /\ \A c \in Submits : SubmitInv(c)
    BY <2>1 DEF Inv, SimInv
  <2>3. ProposedWasProven
    BY <2>2 DEF ProposedWasProven, ProposalInv, Passed, ArtifactInv, RouteTypes
  <2>4. FreshUnlessUnread
    BY <2>2 DEF FreshUnlessUnread, SubmitInv, Holding
  <2>5. ResubmitIsIdempotent
    <3>1. ASSUME NEW p \in proposals, NEW q \in proposals, p.nonce < q.nonce
          PROVE  safeNonce > p.nonce
      <4>1. p.nonce \in Nat /\ q.nonce \in Nat /\ safeNonce \in Nat /\ q.nonce <= safeNonce
        BY <2>2 DEF RouteTypes, SafeTxs, CountTypes, ProposalInv
      <4> QED BY <3>1, <4>1
    <3> QED BY <3>1 DEF ResubmitIsIdempotent
  <2> QED BY <2>3, <2>4, <2>5 DEF ProposalsSound
<1> QED BY <1>1, InvAlways, PTL

(* Whatever fails and in whatever order: no Anvil process outlives its     *)
(* simulation but for a failed start-up, records name proposals, and       *)
(* without a failure every proposal of the backend gets its record.        *)
THEOREM NothingIsLeftBehind == Spec => []NothingLeftBehind
<1>1. Inv => NothingLeftBehind
  <2>1. SUFFICES ASSUME Inv PROVE NothingLeftBehind
    OBVIOUS
  <2>2. SimTypes /\ CountTypes /\ RouteTypes /\ RecordsMatch /\ \A s \in Sims : SimInv(s)
    BY <2>1 DEF Inv
  <2>3. ForksOwned
    <3>1. ~Down.up
      BY DEF Down
    <3> QED BY <2>2, <3>1 DEF ForksOwned, SimInv
  <2>4. TypeOK
    <3>1. ASSUME NEW k \in DOMAIN node, node[k].up
          PROVE  /\ \A a \in Accounts, t \in Tokens : node[k].bal[a][t] \in Nat
                 /\ \A a \in Accounts, w \in Spenders : node[k].allow[a][w] \in Nat
      <4>1. node[k] \in Fork
        BY <2>2, <3>1 DEF SimTypes, Down
      <4> QED BY <4>1 DEF Fork
    <3>2. \A s \in Sims : sim[s].leg = "setup" => FirstLeg(Req(s).playbook) = "setup"
      BY <2>2 DEF SimInv, Orderly, Req
    <3>3. stored \subseteq {s \in Sims : artifact[s].status # "none"}
      BY <2>2 DEF RouteTypes, SimInv
    <3> QED BY <2>2, <3>1, <3>2, <3>3 DEF TypeOK, CountTypes
  <2> QED BY <2>2, <2>3, <2>4 DEF NothingLeftBehind
<1> QED BY <1>1, InvAlways, PTL
=============================================================================
