--------------------------- MODULE MCStrategyEngine ---------------------------
(***************************************************************************)
(* The strategy engine on small graphs: every graph is built, assessed,    *)
(* planned and run, and the graphs of one node are simulated by two jobs   *)
(* at once before they are planned.                                        *)
(***************************************************************************)
EXTENDS LegacySimulation, TLC

Node(protocol, action, in, out, ltv, stable, risks) ==
  [protocol |-> protocol, action |-> action, in |-> in, out |-> out,
   ltv |-> ltv, stable |-> stable, risks |-> risks]
Risk(type, severity) == [type |-> type, severity |-> severity]

SupplyAave   == Node("aave-v3", "supply", "USDC", "USDC", 0, FALSE, {Risk("smart_contract", "low")})
SupplyMorpho == Node("morpho-blue", "supply", "USDC", "USDC", 0, FALSE, {Risk("smart_contract", "medium")})
SupplyWeth   == Node("morpho-blue", "supply", "WETH", "WETH", 0, FALSE, {Risk("smart_contract", "medium")})
SupplyDai    == Node("aave-v3", "supply", "DAI", "DAI", 0, FALSE, {Risk("smart_contract", "low")})
BorrowAave   == Node("aave-v3", "borrow", "WETH", "WETH", 40, FALSE,
                     {Risk("liquidation", "high"), Risk("oracle", "medium")})
PoolUniswap  == Node("uniswap-v3", "add_liquidity", "WETH", "AERO", 0, FALSE,
                     {Risk("impermanent_loss", "medium")})
StakeMorpho  == Node("morpho-blue", "stake", "USDC", "USDC", 0, TRUE, {Risk("liquidity", "low")})

MCKinds == {SupplyAave, SupplyMorpho, SupplyWeth, SupplyDai, BorrowAave, PoolUniswap, StakeMorpho}

MCIntents ==
  {[tolerance |-> t, allowLiquidation |-> l, allowGovernance |-> FALSE, capital |-> 200] :
     t \in {"conservative", "balanced"}, l \in BOOLEAN}

MCYields == -1 .. 2
Symmetry == Permutations(Nodes) \cup Permutations(Callers)

(* The shape of a graph and what its nodes say are varied one at a time:   *)
(* with edges between three nodes all are of one kind, a deposit or a      *)
(* borrow of Aave.                                                         *)
ShapesOrKinds ==
  \/ edges = <<>> \/ (Len(edges) = 1 /\ Len(nodes) = 2)
  \/ \E k \in {SupplyAave, BorrowAave} : \A n \in Members(nodes) : kind[n] = k

(* Graphs of one node are simulated, before they are planned.              *)
SimulatedFirst ==
  (call' # call => Len(order) = 1 /\ plan = NoPlan) /\ (plan' # plan => Busy = {})

(* Whether the calls succeeded is not looked at by the plan. *)
View == <<graphVars, planVars, IF plan = NoPlan THEN simVars ELSE <<>>>>
=============================================================================
