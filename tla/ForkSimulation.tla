--------------------------- MODULE ForkSimulation ---------------------------
(***************************************************************************)
(* MandateSimulator.run: the mandate's policy, the fork a simulation runs  *)
(* on, the playbooks, and the artifact they produce.                       *)
(*                                                                         *)
(* Every simulation asks for the same Amount, in whole dollars; the oracle *)
(* prices a WETH unit at a dollar and Loss is what maxSlippageBps lets a   *)
(* swap of Amount lose.  A step is the code between two awaits that        *)
(* matter: on a fork of its own nobody sees the steps of a simulation, on  *)
(* the node at FORK_RPC_URL all simulations share one state and one        *)
(* signer, the wallet of the fixed test key.                               *)
(***************************************************************************)
EXTENDS MandatePolicy, FiniteSets

CONSTANTS
  Sims,      \* calls of MandateSimulator.run
  Requests,  \* what a call may ask for: [playbook, to, policy, liquid, excess]
  Amount,    \* dollars, or units of WETH
  Loss,      \* worst-case slippage of Amount
  ValidFor,  \* blocks an artifact is valid for: 300 in the code
  MaxBlock,  \* bound: blocks of the chain
  MaxFaults  \* bound: failed calls, also of the routes

Accounts  == {"wallet", "treasury"}
Tokens    == {"USDC", "WETH", "aUSDC", "aWETH", "shares"}
Spenders  == {"poolUSDC", "poolWETH", "router", "vault"}

ASSUME ConstantsAssumption ==
  /\ IsFiniteSet(Sims) /\ "shared" \notin Sims
  /\ MaxFaults \in Nat /\ ValidFor \in Nat /\ MaxBlock \in Nat
  /\ Amount \in Nat \ {0} /\ Loss \in 1 .. Amount - 1
  /\ \A r \in Requests :
       /\ r.playbook \in Playbooks /\ r.to \in Accounts /\ r.liquid \in Nat \cup {Unknown}
       /\ r.policy.floor \in Nat /\ r.policy.maxSingle \in Nat \cup {Unknown}
       /\ r.excess \in -Amount .. Amount

VARIABLES
  external,  \* FORK_RPC_URL is set: all simulations share its node
  chain,     \* the forked chain: what the treasury holds, whether it has
             \* standing allowances, whether the protocols take its calls
  node,      \* the forks: [up, bal, allow]
  head,      \* latest block of the chain
  sim,       \* the simulations: [at, req, leg, until, before, shares]
  artifact,  \* what the calls returned
  healthy,   \* simulations that met no failure and no closed protocol (history)
  alone,     \* simulations no other one overlapped on their node (history)
  moved,     \* simulations whose last transaction took effect (history)
  faults

simulator == <<external, chain, head, node, sim, artifact, healthy, alone, moved>>

Fault   == faults < MaxFaults /\ faults' = faults + 1
NoFault == UNCHANGED faults

-----------------------------------------------------------------------------
(* Policy *)

(* The policy is asked before the price is known and again after.          *)
Blocked(r, priced) ==
  Refuses(r.policy, r.playbook, IF priced THEN Amount ELSE Unknown, Loss, r.liquid)

(* What the wallet's balance is set to: twice the amount, as a withdrawal  *)
(* supplies first, or for USDC what was observed, if that is more.         *)
Funding(r, token) ==
  IF token # Asset(r.playbook) THEN Unknown
  ELSE IF token = "USDC" /\ r.liquid > 2 * Amount THEN r.liquid ELSE 2 * Amount

(* Funding is doubled in token units and exact.  What a withdrawal from    *)
(* Aave supplies first is doubled as a floating-point number and printed   *)
(* with the token's decimals: r.excess is by how much it misses.           *)
SetupAmount(r) == 2 * Amount + r.excess

(* The wallet is given less than the set-up is about to supply. *)
Short(r) ==
  /\ r.playbook \in {"withdrawUSDC", "withdrawWETH"}
  /\ SetupAmount(r) > Funding(r, Asset(r.playbook))

-----------------------------------------------------------------------------
(* Forks *)

Down   == [up |-> FALSE, bal |-> {}, allow |-> {}]
Node(s) == IF external THEN "shared" ELSE s

(* The chain as a fork sees it: the wallet of the test key holds nothing. *)
Forked ==
  [up |-> TRUE,
   bal |-> [a \in Accounts |-> [t \in Tokens |->
              IF a = "treasury" /\ chain.rich THEN Amount ELSE 0]],
   allow |-> [a \in Accounts |-> [w \in Spenders |->
              IF a = "treasury" /\ chain.standing THEN Amount ELSE 0]]]

Bal(s, a, t) == node[Node(s)].bal[a][t]

NoRequest == [playbook |-> "none", to |-> "none", policy |-> "none", liquid |-> Unknown,
              excess |-> 0]
NoSim      == [at |-> "idle", req |-> NoRequest, leg |-> "main", until |-> 0,
               before |-> 0, shares |-> 0]
NoArtifact == [status |-> "none", why |-> "none", req |-> NoRequest, until |-> 0]

Goto(s, at) == sim' = [sim EXCEPT ![s].at = at]
Req(s)      == sim[s].req
Running     == {s \in Sims : sim[s].at \notin {"idle", "unstarted", "over", "answered"}}

(* fork.stop(): kills the Anvil process; an external node stays as it is. *)
Stop(s) == IF external THEN UNCHANGED node ELSE node' = [node EXCEPT ![s] = Down]

Over(s) == sim' = [sim EXCEPT ![s] = [NoSim EXCEPT !.at = "over"]]

(* The call returns an artifact; the finally block stops the fork. *)
Return(s, status, why) ==
  /\ artifact' = [artifact EXCEPT ![s] = [status |-> status, why |-> why, req |-> Req(s),
                     until |-> IF why \in {"policy", "oracle"} THEN 0 ELSE sim[s].until]]
  /\ Over(s) /\ Stop(s)

KeepFork(s) == Over(s) /\ UNCHANGED <<node, artifact>>            \* mutant

(* The call throws: no artifact, but the same finally block. *)
Throw(s) == Over(s) /\ Stop(s) /\ UNCHANGED artifact

Unhealthy(s) == healthy' = healthy \ {s}
Same == UNCHANGED <<external, chain, head, alone, moved>>

(* The static policy check needs no fork. *)
Ask(s) ==
  /\ sim[s].at = "idle"
  /\ \E r \in Requests :
       IF Blocked(r, FALSE)
       THEN /\ artifact' = [artifact EXCEPT ![s] = [NoArtifact EXCEPT !.status = "failed",
                                                                 !.why = "policy", !.req = r]]
            /\ sim' = [sim EXCEPT ![s].at = "over"]
       ELSE /\ sim' = [sim EXCEPT ![s] = [NoSim EXCEPT !.at = "start", !.req = r]]
            /\ UNCHANGED artifact
  /\ alone' = IF external /\ sim'[s].at = "start" /\ Running # {}
              THEN alone \ (Running \cup {s}) ELSE alone
  /\ NoFault /\ UNCHANGED <<external, chain, head, node, healthy, moved>>

Forks(s, block) ==
  sim' = [sim EXCEPT ![s].at = "fund", ![s].until = block + ValidFor]

(* spawnAnvil resolves once Anvil listens; when it exits, cannot be        *)
(* spawned, or stays silent for 30 s and is killed, the call throws.       *)
SpawnAnvil(s) ==
  /\ ~external /\ sim[s].at = "start"
  /\ \/ /\ NoFault /\ Forks(s, head)
        /\ node' = [node EXCEPT ![s] = Forked]
        /\ healthy' = IF chain.open THEN healthy ELSE healthy \ {s}
        /\ UNCHANGED artifact
     \/ Fault /\ Throw(s) /\ Unhealthy(s)
  /\ Same

(* An external fork has blocks of its own: it stands still while the chain *)
(* moves on, and every transaction mines one.                              *)
ConnectToExternalFork(s) ==
  /\ external /\ sim[s].at = "start"
  /\ \/ /\ NoFault /\ \E block \in 0 .. MaxBlock : Forks(s, block)
        /\ healthy' = IF chain.open THEN healthy ELSE healthy \ {s}
        /\ UNCHANGED <<node, artifact>>
     \/ Fault /\ Throw(s) /\ Unhealthy(s)
  /\ Same

FundOnce(n, r) ==                                                \* mutant
  [n EXCEPT !.bal["wallet"][Asset(r.playbook)] = Amount]

Topped(n, r) ==
  [n EXCEPT !.bal["wallet"] = [t \in Tokens |->
     IF Funding(r, t) = Unknown THEN n.bal["wallet"][t] ELSE Funding(r, t)]]

(* anvil_setBalance and anvil_setStorageAt, which overwrites the balance.  *)
(* When a call fails startFork throws before runOnFork has a fork to stop, *)
(* and an Anvil process is left: the simulation is over, unstarted.        *)
Fund(s) ==
  /\ sim[s].at = "fund"
  /\ \/ /\ NoFault /\ Goto(s, "price")
        /\ node' = [node EXCEPT ![Node(s)] = Topped(node[Node(s)], Req(s))]
        /\ UNCHANGED <<artifact, healthy>>
     \/ /\ Fault /\ Unhealthy(s)
        /\ sim' = [sim EXCEPT ![s] = [NoSim EXCEPT !.at = "unstarted"]]
        /\ UNCHANGED <<node, artifact>>
  /\ Same

(* readFreshChainlinkPrice throws on a price that is not positive, of an   *)
(* incomplete or older round, or older than 3900 s.                        *)
PriceBlocked(s) ==
  /\ sim[s].at = "price" /\ Asset(Req(s).playbook) = "WETH"
  /\ Return(s, "failed", "oracle") /\ Unhealthy(s)
  /\ NoFault /\ Same

FirstLeg(p) == IF p \in {"withdrawUSDC", "withdrawWETH", "redeem"} THEN "setup" ELSE "main"

EnforceOnce(s) ==                                                \* mutant
  /\ sim[s].at = "price"
  /\ sim' = [sim EXCEPT ![s].at = "check", ![s].leg = FirstLeg(Req(s).playbook)]
  /\ NoFault /\ UNCHANGED <<node, artifact, healthy>> /\ Same

(* Dollars are known (a USDC amount needs no feed): the policy again. *)
EnforcePolicy(s) ==
  /\ sim[s].at = "price"
  /\ IF Blocked(Req(s), TRUE)
     THEN Return(s, "failed", "policy")
     ELSE /\ sim' = [sim EXCEPT ![s].at = "check", ![s].leg = FirstLeg(Req(s).playbook)]
          /\ UNCHANGED <<node, artifact>>
  /\ NoFault /\ UNCHANGED healthy /\ Same

-----------------------------------------------------------------------------
(* Playbooks *)

(* The call of the current leg: what it takes from its sender, what it     *)
(* gives to whom, and the contract that must be allowed to take it.        *)
CallOf(r) ==
  LET p == r.req.playbook
      asset == Asset(p)
      a == IF asset = "USDC" THEN "aUSDC" ELSE "aWETH"
      pool == IF asset = "USDC" THEN "poolUSDC" ELSE "poolWETH"
      Supply(n, to) == [take |-> asset, give |-> a, n |-> n, out |-> n, to |-> to, spender |-> pool]
      Vault(to) == [take |-> "USDC", give |-> "shares", n |-> Amount, out |-> Amount, to |-> to,
                    spender |-> "vault"]
  IN IF r.leg = "setup"
     THEN IF p = "redeem" THEN Vault("wallet") ELSE Supply(SetupAmount(r.req), "wallet")
     ELSE CASE Action(p) = "supply" -> Supply(Amount, r.req.to)
            [] p = "deposit" -> Vault(r.req.to)
            [] p = "redeem"  -> [take |-> "shares", give |-> "USDC", n |-> r.shares,
                                 out |-> r.shares, to |-> "wallet", spender |-> "none"]
            [] p = "swap"    -> [take |-> "WETH", give |-> "USDC", n |-> Amount, out |-> Amount - Loss,
                                 to |-> r.req.to, spender |-> "router"]
            [] OTHER         -> [take |-> a, give |-> asset, n |-> Amount, out |-> Amount,
                                 to |-> r.req.to, spender |-> "none"]

Call(s) == CallOf(sim[s])

(* Whether the call would succeed, sent by an account. *)
Succeeds(s, by) ==
  LET c == Call(s)
  IN /\ chain.open /\ c.n > 0
     /\ Bal(s, by, c.take) >= c.n
     /\ c.spender # "none" => node[Node(s)].allow[by][c.spender] >= c.n

Executed(s) ==
  LET c == Call(s)  n == node[Node(s)]
      paid == [n.bal EXCEPT !["wallet"][c.take] = @ - c.n]
  IN [up |-> TRUE, bal |-> [paid EXCEPT ![c.to][c.give] = @ + c.out],
      allow |-> IF c.spender = "none" THEN n.allow
                ELSE [n.allow EXCEPT !["wallet"][c.spender] = @ - c.n]]

(* A playbook that does not pass: the setup of an Aave withdrawal is       *)
(* awaited and its result ignored, any other result becomes the artifact.  *)
FailLeg(s) ==
  IF sim[s].leg = "setup" /\ Req(s).playbook # "redeem"
  THEN /\ sim' = [sim EXCEPT ![s].at = "check", ![s].leg = "main"]
       /\ UNCHANGED <<node, artifact>>
  ELSE Return(s, "failed", "fork")

(* A setup deposit is followed by the redemption of the shares it left. *)
PassLeg(s) ==
  IF sim[s].leg = "setup"
  THEN /\ sim' = [sim EXCEPT ![s].at = "check", ![s].leg = "main",
                     ![s].shares = IF Req(s).playbook = "redeem" THEN Bal(s, "wallet", "shares") ELSE 0]
       /\ UNCHANGED <<node, artifact>>
  ELSE Return(s, "passed", "none")

(* Balances are read outside the try block: a failed read throws. *)
Check(s, enough, next) ==
  /\ sim[s].at = "check"
  /\ \/ /\ enough /\ NoFault /\ UNCHANGED <<node, artifact, healthy>>
        /\ sim' = [sim EXCEPT ![s].at = next, ![s].before = Bal(s, Call(s).to, Call(s).give)]
     \/ ~enough /\ NoFault /\ FailLeg(s) /\ UNCHANGED healthy
     \/ Fault /\ Throw(s) /\ Unhealthy(s)
  /\ Same

Approve(s, next) ==
  /\ sim[s].at = "approve" /\ Goto(s, next)
  /\ node' = [node EXCEPT ![Node(s)].allow["wallet"][Call(s).spender] = Call(s).n]
  /\ NoFault /\ UNCHANGED <<artifact, healthy>> /\ Same

(* estimateGas for an account: a call that would revert ends the playbook. *)
Estimate(s, by) ==
  /\ sim[s].at = "estimate"
  /\ \/ Succeeds(s, by) /\ NoFault /\ Goto(s, "send") /\ UNCHANGED <<node, artifact, healthy>>
     \/ ~Succeeds(s, by) /\ NoFault /\ FailLeg(s) /\ UNCHANGED healthy
  /\ Same

(* The wallet sends.  A call that reverts is refused by the node or mined  *)
(* without effect; the receipt's status is not read.                       *)
Send(s) ==
  /\ sim[s].at = "send"
  /\ \/ /\ Succeeds(s, "wallet") /\ NoFault /\ Goto(s, "verify")
        /\ node' = [node EXCEPT ![Node(s)] = Executed(s)]
        /\ moved' = IF sim[s].leg = "main" THEN moved \cup {s} ELSE moved
        /\ UNCHANGED <<artifact, healthy>>
     \/ /\ ~Succeeds(s, "wallet") /\ NoFault
        /\ \/ FailLeg(s)
           \/ Goto(s, "verify") /\ UNCHANGED <<node, artifact>>
        /\ UNCHANGED <<moved, healthy>>
  /\ UNCHANGED <<external, chain, head, alone>>

Verify(s, received) ==
  /\ sim[s].at = "verify"
  /\ \/ received /\ NoFault /\ PassLeg(s) /\ UNCHANGED healthy
     \/ ~received /\ NoFault /\ FailLeg(s) /\ UNCHANGED healthy
  /\ Same

(* A call fails in the try block: the playbook fails, unless the catch     *)
(* block cannot read the balances either.                                  *)
Catch(s, steps) ==
  /\ sim[s].at \in steps /\ Fault /\ Unhealthy(s)
  /\ FailLeg(s) \/ Throw(s)
  /\ Same

Given(s) == Bal(s, Call(s).to, Call(s).give)

(* simulateAaveSupply: the wallet pays; the beneficiary's aTokens must be  *)
(* above zero afterwards, whatever they were before.                       *)
AaveSupply(s) ==
  /\ \/ Req(s).playbook \in {"supplyUSDC", "supplyWETH"}
     \/ sim[s].leg = "setup" /\ Req(s).playbook # "redeem"
  /\ \/ Check(s, Bal(s, "wallet", Call(s).take) >= Call(s).n, "approve")
     \/ Approve(s, "estimate")
     \/ Estimate(s, "wallet")
     \/ Send(s)
     \/ Verify(s, Given(s) > 0)
     \/ Catch(s, {"approve", "estimate", "send", "verify"})

(* simulateAaveWithdraw: the wallet's aTokens, the recipient's balance;    *)
(* a failed estimate is caught by itself.                                  *)
AaveWithdraw(s) ==
  /\ Req(s).playbook \in {"withdrawUSDC", "withdrawWETH"} /\ sim[s].leg = "main"
  /\ \/ Check(s, Bal(s, "wallet", Call(s).take) > 0, "estimate")
     \/ Estimate(s, "wallet")
     \/ Send(s)
     \/ Verify(s, Given(s) > sim[s].before)
     \/ sim[s].at = "estimate" /\ Fault /\ FailLeg(s) /\ Unhealthy(s) /\ Same
     \/ Catch(s, {"send", "verify"})

(* simulateUniswapWethToUsdc: the recipient must hold the WETH and its     *)
(* estimate must succeed, while the wallet approves and sends.  The price  *)
(* is read a second time.                                                  *)
UniswapSwap(s) ==
  /\ Req(s).playbook = "swap"
  /\ \/ Check(s, Bal(s, Req(s).to, "WETH") >= Amount, "approve")
     \/ /\ sim[s].at = "check" /\ NoFault /\ FailLeg(s)
        /\ Unhealthy(s) /\ Same
     \/ Approve(s, "estimate")
     \/ Estimate(s, Req(s).to)
     \/ Send(s)
     \/ Verify(s, Given(s) > sim[s].before /\ Given(s) - sim[s].before >= Amount - Loss)
     \/ Catch(s, {"approve", "estimate", "send", "verify"})

(* simulateMorphoDeposit: the same, with the vault's shares. *)
MorphoDeposit(s) ==
  /\ Req(s).playbook = "deposit"
  /\ \/ Check(s, Bal(s, Req(s).to, "USDC") >= Amount, "approve")
     \/ Approve(s, "estimate")
     \/ Estimate(s, Req(s).to)
     \/ Send(s)
     \/ Verify(s, Given(s) > 0)
     \/ Catch(s, {"approve", "estimate", "send", "verify"})

(* simulateMorphoWithdraw: deposits without an estimate, then redeems all  *)
(* shares of the wallet.                                                   *)
MorphoWithdraw(s) ==
  /\ Req(s).playbook = "redeem"
  /\ \/ /\ sim[s].leg = "setup"
        /\ \/ Check(s, Bal(s, "wallet", "USDC") >= Amount, "approve")
           \/ Approve(s, "send")
           \/ Send(s)
           \/ Verify(s, Given(s) > 0)
     \/ /\ sim[s].leg = "main"
        /\ \/ /\ sim[s].at = "check" /\ NoFault /\ UNCHANGED <<node, artifact, healthy>>
              /\ sim' = [sim EXCEPT ![s].at = "estimate", ![s].before = Given(s)]
              /\ Same
           \/ Estimate(s, "wallet")
           \/ Send(s)
           \/ Verify(s, Given(s) > sim[s].before)
           \/ Catch(s, {"check", "estimate"})
     \/ Catch(s, {"approve", "send", "verify"})

SimStep(s) ==
  \/ Ask(s) \/ SpawnAnvil(s) \/ ConnectToExternalFork(s) \/ Fund(s)
  \/ PriceBlocked(s) \/ EnforcePolicy(s)
  \/ AaveSupply(s) \/ AaveWithdraw(s) \/ UniswapSwap(s)
  \/ MorphoDeposit(s) \/ MorphoWithdraw(s)

SimInit ==
  /\ external \in BOOLEAN
  /\ chain \in [rich : BOOLEAN, standing : BOOLEAN, open : BOOLEAN]
  /\ node = [n \in Sims \cup {"shared"} |->
               IF n = "shared" /\ external THEN Forked ELSE Down]
  /\ sim = [s \in Sims |-> NoSim]
  /\ artifact = [s \in Sims |-> NoArtifact]
  /\ healthy = Sims /\ alone = Sims /\ moved = {}
  /\ head = 0 /\ faults = 0
=============================================================================
