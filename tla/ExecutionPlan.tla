---------------------------- MODULE ExecutionPlan ----------------------------
(***************************************************************************)
(* From a built graph to transactions: ExecutionEngine.buildExecutionPlan  *)
(* reads, node by node, the allowance that the action needs and puts an    *)
(* approval before it; the plan then runs, one transaction after the other *)
(* from a wallet or as one batch of the Safe.                              *)
(*                                                                         *)
(* Every action spends Capital.  An allowance is of a token to a spender;  *)
(* the reads, the plan's steps and the transactions are separate steps, so *)
(* a plan is built from allowances that its own steps change.  What is     *)
(* read and approved is the token that the node names; what a vault takes  *)
(* is the token of the vault.                                              *)
(***************************************************************************)
EXTENDS StrategyAssessment

CONSTANTS Capital,   \* capitalAmount
          Standing   \* allowances the account may have granted before

ASSUME PlanAssumption == Capital \in Nat /\ Standing \subseteq Nat

VARIABLES
  plan,       \* [at, node, steps]: the call of buildExecutionPlan, or its run
  ledger,     \* allowances on chain, by <<token, spender>>
  standing,   \* the ledger when the plan was begun (history)
  sent,       \* transactions sent, and those of them that reverted
  unread      \* nodes whose allowance could not be read (history)

planVars == <<plan, ledger, standing, sent, unread>>
NoPlan == [at |-> "none", node |-> 1, steps |-> <<>>, batch |-> FALSE]

PlanInit ==
  /\ plan = NoPlan
  /\ ledger = [p \in {} |-> 0] /\ standing = ledger
  /\ sent = [count |-> 0, reverted |-> {}] /\ unread = {}

-----------------------------------------------------------------------------
(* buildNodeAction: the adapter's calldata, by its target, or none         *)

Registered == {"aave-v3", "morpho-blue"}

TargetOf(n) ==
  CASE n.protocol = "aave-v3" /\ n.action \in {"supply", "borrow", "withdraw"} -> "pool"
    [] n.protocol = "morpho-blue" /\ n.action \in {"supply", "withdraw"}
         -> IF n.in = "USDC" THEN "steakhouse" ELSE "moonwell"
    [] OTHER -> "none"

(* The allowance that is read and approved, and the one that the call      *)
(* needs: both MetaMorpho vaults are vaults of USDC.                       *)
Pair(n)   == <<n.in, TargetOf(n)>>
Spends(n) == <<IF n.protocol = "morpho-blue" THEN "USDC" ELSE n.in, TargetOf(n)>>
Pairs == UNION {{Pair(kind[m]), Spends(kind[m])} :
                  m \in {k \in Members(order) : TargetOf(kind[k]) # "none"}}

Tokens == {"USDC", "WETH", "cbETH", "wstETH", "AERO"}

AnyAllowance(n, allowance) ==                                    \* mutant
  n.in \in Tokens /\ allowance = 0

(* checkApprovalNeeded: none for ETH and for tokens it has no address of.  *)
NeedsApproval(n, allowance) == n.in \in Tokens /\ allowance < Capital

(* pair is the allowance looked at for the step, spends the one it needs.  *)
Approve(n) == [tx |-> "approve", pair |-> Pair(n), spends |-> Pair(n),
               amount |-> Capital, action |-> "approve"]
Action(n)  == [tx |-> "action", pair |-> Pair(n), spends |-> Spends(n),
               amount |-> Capital, action |-> n.action]

StartPlan ==
  /\ phase = "built" /\ plan = NoPlan
  /\ ledger' \in [Pairs -> Standing] /\ standing' = ledger'
  /\ \E batch \in BOOLEAN : plan' = [NoPlan EXCEPT !.at = "building", !.batch = batch]
  /\ UNCHANGED <<graphVars, sent, unread>>

(* One node: an unknown protocol throws, a node without calldata is left   *)
(* out, and an allowance that cannot be read is approved anew.             *)
PlanNode ==
  /\ plan.at = "building" /\ plan.node <= Len(order)
  /\ LET n == kind[order[plan.node]]
         Add(steps) == plan' = [plan EXCEPT !.node = @ + 1, !.steps = @ \o steps]
     IN  \/ n.protocol \notin Registered /\ plan' = [plan EXCEPT !.at = "thrown"] /\ UNCHANGED unread
         \/ n.protocol \in Registered /\ TargetOf(n) = "none" /\ Add(<<>>) /\ UNCHANGED unread
         \/ /\ TargetOf(n) # "none" /\ UNCHANGED unread
            /\ Add(IF NeedsApproval(n, ledger[Pair(n)]) THEN <<Approve(n), Action(n)>> ELSE <<Action(n)>>)
         \/ /\ TargetOf(n) # "none" /\ n.in \in Tokens
            /\ Add(<<Approve(n), Action(n)>>) /\ unread' = unread \cup {plan.node}
  /\ UNCHANGED <<graphVars, ledger, standing, sent>>

PlanReady ==
  /\ plan.at = "building" /\ plan.node > Len(order)
  /\ plan' = [plan EXCEPT !.at = "running"]
  /\ UNCHANGED <<graphVars, ledger, standing, sent, unread>>

-----------------------------------------------------------------------------
(* The steps, in their order (DeployModal waits two seconds after each,    *)
(* and sends the next whatever became of it).                              *)

Reverts(step, allowances) ==
  step.action = "supply" /\ allowances[step.spends] < step.amount

Applied(step, allowances) ==
  CASE step.tx = "approve" -> [allowances EXCEPT ![step.pair] = step.amount]
    [] step.action = "supply" -> [allowances EXCEPT ![step.spends] = @ - step.amount]
    [] OTHER -> allowances

Send ==
  /\ plan.at = "running" /\ ~plan.batch /\ sent.count < Len(plan.steps)
  /\ LET k == sent.count + 1  step == plan.steps[k]
     IN  IF Reverts(step, ledger)
         THEN sent' = [count |-> k, reverted |-> sent.reverted \cup {k}] /\ UNCHANGED ledger
         ELSE sent' = [sent EXCEPT !.count = k] /\ ledger' = Applied(step, ledger)
  /\ UNCHANGED <<graphVars, plan, standing, unread>>

(* after[k]: the allowances after the first k steps of a batch, and the    *)
(* first step that reverted, with which the batch is undone, or 0.         *)
Executed(steps, allowances) ==
  LET after[k \in 0 .. Len(steps)] ==
        IF k = 0 THEN [step |-> 0, allowances |-> allowances]
        ELSE LET before == after[k - 1]
             IN  IF before.step # 0 THEN before
                 ELSE IF Reverts(steps[k], before.allowances)
                      THEN [step |-> k, allowances |-> allowances]
                      ELSE [step |-> 0, allowances |-> Applied(steps[k], before.allowances)]
  IN  after[Len(steps)]

ExecuteBatch ==
  /\ plan.at = "running" /\ plan.batch /\ sent.count < Len(plan.steps)
  /\ LET end == Executed(plan.steps, ledger)
     IN  /\ ledger' = end.allowances
         /\ sent' = [count |-> Len(plan.steps), reverted |-> {end.step} \ {0}]
  /\ UNCHANGED <<graphVars, plan, standing, unread>>

PlanNext == StartPlan \/ PlanNode \/ PlanReady \/ Send \/ ExecuteBatch

-----------------------------------------------------------------------------
(* Properties *)

Ran == plan.at = "running" /\ sent.count = Len(plan.steps)

(* A step of a plan lacks its allowance only because the plan knows no     *)
(* address of its token, of which it approves none; because the vault      *)
(* takes another token than the node names, the one that was approved, and *)
(* had no allowance of its own; or because an allowance that stood before  *)
(* was counted for two of the plan's actions: allowances are read while no *)
(* step has run, and one that another step approved is never counted on by *)
(* a third.                                                                *)
PlannedStepsRun ==
  \A k \in sent.reverted :
    LET step == plan.steps[k]
    IN  \/ step.pair[1] \notin Tokens
        \/ step.spends # step.pair /\ standing[step.spends] < Capital
        \/ /\ standing[step.spends] >= Capital
           /\ \E j \in 1 .. k - 1 : plan.steps[j].tx = "action" /\ plan.steps[j].spends = step.spends

(* What a plan approves, its own actions spend: a plan that ran through    *)
(* leaves more allowance than it found only for a borrow or a withdrawal,  *)
(* which are approved like a deposit and spend nothing, or for a vault     *)
(* that took another token.                                                *)
ApprovalsSpent ==
  (Ran /\ sent.reverted = {}) =>
    \A p \in DOMAIN ledger :
      ledger[p] > standing[p] =>
        \E k \in DOMAIN plan.steps :
          /\ plan.steps[k].pair = p
          /\ plan.steps[k].action \in {"borrow", "withdraw"} \/ plan.steps[k].spends # p

Supplying == {n \in Kinds : n.action = "supply"}

(* A plan deposits for every supply of the graph in the graph's order, or  *)
(* none is built: what buildNodeAction cannot encode is left out without   *)
(* an error, and what nobody registered throws.                            *)
SuppliesPlanned ==
  plan.at = "running" =>
    LET planned == Only(plan.steps, {Action(n) : n \in Supplying})
        wanted  == Only(Plan(order), Supplying)
    IN  /\ Len(planned) = Len(wanted)
        /\ \A k \in DOMAIN wanted : planned[k].pair = Pair(wanted[k])

(* The plan of a strategy deposits where its graph says, and can be run    *)
(* but for those causes.                                                   *)
PlanSound ==
  /\ PlannedStepsRun
  /\ ApprovalsSpent
  /\ SuppliesPlanned
=============================================================================
