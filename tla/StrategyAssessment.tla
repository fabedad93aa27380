-------------------------- MODULE StrategyAssessment --------------------------
(***************************************************************************)
(* What is computed from a built graph: the scores, warnings and blockers  *)
(* of the risk engine, the blockers of the planner, and the fees that the  *)
(* fee engine takes from a period's yield.                                 *)
(*                                                                         *)
(* Scores count tenths and weights hundredths, so a weighted score counts  *)
(* thousandths; an LTV is a percentage.  Fees are exact: an amount counts  *)
(* fractions of a dollar so small that no division leaves a rest.          *)
(***************************************************************************)
EXTENDS StrategyGraph, FiniteSetsExt

CONSTANTS
  IntentTerms,     \* [tolerance, allowLiquidation, allowGovernance, capital]
  NodeGas,     \* dollars of gas of a node
  Whole, Year, Hundred,  \* basis points in one, days in a year, percents in one
  Yields, Days,          \* small sets: a period's yield in dollars, its days
  Rates, Shares          \* small sets: basis points and percents of a FeeConfig

ASSUME FeeAssumption ==
  /\ {Whole, Year, Hundred} \subseteq Nat \ {0} /\ Days \subseteq Nat /\ Yields \subseteq Int
  /\ Rates \subseteq Nat /\ Shares \subseteq 0 .. Hundred

(* A borrow's target LTV counts whole percents, the dollars are whole.     *)
ASSUME ScoreAssumption ==
  /\ \A k \in Kinds : k.ltv \in Nat
  /\ NodeGas \in Nat /\ \A intent \in IntentTerms : intent.capital \in Nat

Plan(ns) == [k \in DOMAIN ns |-> kind[ns[k]]]    \* the nodes of a graph, in order
HasOne(s, P(_)) == \E k \in DOMAIN s : P(s[k])
Borrows(n) == n.action = "borrow"

-----------------------------------------------------------------------------
(* RiskEngine.assess *)

MarketOf(n) ==
  Max({IF n.in \in {"WETH", "cbETH", "wstETH"} THEN 40 ELSE 0,
       IF n.in \in {"USDC", "DAI"} THEN 10 ELSE 0,
       IF n.action = "add_liquidity" THEN (IF n.stable THEN 30 ELSE 60) ELSE 0,
       IF n.out = "AERO" THEN 50 ELSE 0})
MarketRisk(s) == Max({0} \cup {MarketOf(n) : n \in Members(s)})

(* Of the first borrow in the order, "lower LTV = less liquidation risk".  *)
LtvRisk(ltv) == IF ltv = 0 THEN 40 ELSE Min({(ltv * 12) \div 10, 90})
Borrowings == {n \in Kinds : Borrows(n)}
LiquidationRisk(s) ==
  IF HasOne(s, Borrows) THEN LtvRisk(Only(s, Borrowings)[1].ltv) ELSE 0

ProtocolScore == [p \in {"aave-v3", "morpho-blue", "uniswap-v3"} |-> IF p = "morpho-blue" THEN 20 ELSE 15]
OfProtocol(n) == IF n.protocol \in DOMAIN ProtocolScore THEN ProtocolScore[n.protocol] ELSE 30

ProtocolRisk(s) ==
  Min({100, Max({0} \cup {OfProtocol(n) : n \in Members(s)})
              + 5 * (Cardinality({n.protocol : n \in Members(s)}) - 1)})

(* A position above 100,000 dollars adds one for every node.               *)
LiquidityOf(n) ==
  CASE n.action = "borrow" -> 30 [] n.action = "add_liquidity" -> 20 [] OTHER -> 0

LiquidityScore(s, large) ==
  LET score[k \in 0 .. Len(s)] ==
        IF k = 0 THEN 0
        ELSE Max({score[k - 1], LiquidityOf(s[k])}) + (IF large THEN 10 ELSE 0)
  IN  score[Len(s)]

LiquidityRisk(s, large) == Min({100, LiquidityScore(s, large)})

OracleRisk(s) == IF HasOne(s, Borrows) THEN 30 ELSE 10

Overall(s, large) ==
  20 * MarketRisk(s) + 30 * LiquidationRisk(s) + 20 * ProtocolRisk(s)
    + 15 * LiquidityRisk(s, large) + 15 * OracleRisk(s)

Level(score) ==
  CASE score < 2000 -> "very_low"
    [] score < 4000 -> "low"
    [] score < 6000 -> "medium"
    [] score < 8000 -> "high"
    [] OTHER -> "very_high"

Says(n, type) == \E r \in n.risks : r.type = type

Warnings(s, intent) ==
     (IF LiquidationRisk(s) > 40 THEN {"liquidation"} ELSE {})
  \cup (IF ~intent.allowGovernance /\ \E n \in Members(s) : n.out = "AERO" THEN {"governance"} ELSE {})
  \cup (IF NodeGas * Len(s) * 100 > intent.capital THEN {"gas"} ELSE {})
  \cup (IF /\ \E n \in Members(s) : Says(n, "impermanent_loss")
           /\ \A n \in Members(s) : ~n.stable
        THEN {"impermanent_loss"} ELSE {})
  \cup (IF ProtocolRisk(s) > 50 THEN {"protocols"} ELSE {})

Blockers(s, intent) ==
     (IF ~intent.allowLiquidation /\ \E n \in Members(s) : Says(n, "liquidation")
      THEN {"liquidation"} ELSE {})
  \cup (IF intent.tolerance = "conservative" /\ HasOne(s, Borrows) THEN {"borrow"} ELSE {})

(* StrategyPlanner.computeRiskScore, whose score assess replaces.          *)
PlannerBlockers(intent) ==
     (IF ~intent.allowLiquidation /\ \E r \in PropagateRisk : r.type = "liquidation"
      THEN {"liquidation"} ELSE {})
  \cup (IF \E n \in Members(order) : kind[n].protocol \notin {"aave-v3", "morpho-blue"}
        THEN {"protocol"} ELSE {})

-----------------------------------------------------------------------------
(* FeeEngine: an amount of one dollar is Dollar units *)

Dollar == Whole * Year * Hundred * Hundred

ManagementFee(aum, bps, days) == aum * bps * days * Hundred * Hundred

(* A share of what exceeds the benchmark; nothing if it was not reached.   *)
PerformanceFee(gross, aum, rate, pct, days) ==
  (Max({0, gross - aum * rate * days * Hundred * Hundred}) * pct) \div Hundred

PeriodFees(org, gross, aum, days, curatorPct) ==
  LET management  == ManagementFee(aum, org.bps, days)
      performance == PerformanceFee(gross, aum, org.rate, org.pct, days)
      curator     == (performance * curatorPct) \div Hundred
  IN  [performance |-> performance, curator |-> curator,
       platform |-> management + performance - curator,
       total |-> management + performance, net |-> gross - management - performance]

(* compareToBenchmark *)
BeatsBenchmark(gross, aum, rate, days) == gross > aum * rate * days * Hundred * Hundred

(* projectAnnualRevenue, for a yield of alpha above the benchmark *)
ProjectAnnualRevenue(org, aum, alpha) ==
  LET year == aum * Year * Hundred * Hundred
  IN  [management |-> org.bps * year, performance |-> (alpha * year * org.pct) \div Hundred,
       yield |-> (org.rate + alpha) * year]

(* managementFeeBps, the benchmark's rate and performanceFeePct of an      *)
(* organisation.                                                           *)
FeeConfigs == [bps : Rates, rate : Rates, pct : Shares]

-----------------------------------------------------------------------------
(* runStressTests of the simulation engine, for the first borrow's target  *)
(* LTV in percents, of which Aave liquidates at 82.5; Unknown if the node  *)
(* names none.                                                             *)

Unknown == -1
Ltv(ltv, default) == IF ltv = Unknown THEN default ELSE ltv

(* The health factor after a drop by as many percents is above one.  A     *)
(* missing LTV counts as none.                                             *)
Survives(drop, ltv) == 825 * (100 - drop) > 1000 * Ltv(ltv, 0)

(* maxDrawdownPct is at least so many percents: it takes the threshold off *)
(* the health factor a second time.                                        *)
DrawdownAtLeast(pct, ltv) == pct = 0 \/ 680625 * (100 - pct) >= 1000000 * Ltv(ltv, 0)

(* estimateLiquidationBuffer is above 1 / (1 - drop): here a missing LTV   *)
(* counts as 40.                                                           *)
BufferCovers(drop, ltv) == 825 * (100 - drop) > 1000 * Ltv(ltv, 40)

-----------------------------------------------------------------------------
(* Properties.  Scores are looked at when the order is complete, and fees, *)
(* which depend on no graph, before the first node.                        *)

Start == nodes = <<>> /\ phase = "adding"

(* A graph that goes on where another stops is no less risky: scores never *)
(* fall as nodes follow, none leaves its scale, and no warning is lost,    *)
(* save that of impermanent loss, which one stable pool anywhere takes     *)
(* back.  (Weights, penalties and the per-node increment of RiskEngine.)   *)
RiskGrows ==
  Sorted =>
    \A i \in 1 .. Len(order), large \in BOOLEAN :
      LET before == SubSeq(Plan(order), 1, i - 1)
          after  == SubSeq(Plan(order), 1, i)
      IN  /\ Overall(after, large) <= 10000
          /\ i > 1 => Overall(before, large) <= Overall(after, large)
          /\ \A intent \in IntentTerms : \A w \in Warnings(before, intent) :
               w \in Warnings(after, intent) \/ (w = "impermanent_loss" /\ kind[order[i]].stable)

(* The planner, which sees risks propagated along the edges, and the risk  *)
(* engine, which sees the nodes, block the same strategies for liquidation *)
(* risk: replacing the one's score by the other's loses no such blocker.   *)
BlockersAgree ==
  Sorted =>
    \A intent \in IntentTerms :
      ("liquidation" \in PlannerBlockers(intent)) <=> ("liquidation" \in Blockers(Plan(order), intent))

(* "Only taken on positive alpha": after the performance fee an            *)
(* organisation keeps what the benchmark would have paid, or everything    *)
(* when it earned less, and curators share that fee and nothing else.      *)
NetKeepsBenchmark ==
  Start => \A org \in FeeConfigs, g \in Yields, days \in Days, cut \in Shares :
    LET fees  == PeriodFees(org, g * Dollar, 1, days, cut)
        bench == org.rate * days * Hundred * Hundred
    IN  /\ g * Dollar - fees.performance >= Min({g * Dollar, bench})
        /\ fees.performance > 0 => BeatsBenchmark(g * Dollar, 1, org.rate, days)
        /\ fees.curator \in 0 .. fees.performance
        /\ fees.platform + fees.curator + fees.net = g * Dollar

(* Billing two periods instead of one never costs less: a good period is   *)
(* charged though the other was a loss (there is no high-water mark).      *)
SplitPeriodsCostNoLess ==
  Start => \A org \in FeeConfigs, g, h \in Yields, d, e \in Days :
    LET one  == PeriodFees(org, (g + h) * Dollar, 1, d + e, 0)
        two  == PeriodFees(org, g * Dollar, 1, d, 0).total + PeriodFees(org, h * Dollar, 1, e, 0).total
    IN  one.total <= two

(* What the dashboard projects for a year is what a year with that yield   *)
(* is then billed (projectAnnualRevenue, calculatePeriodFees).             *)
ProjectionIsBilled ==
  Start => \A org \in FeeConfigs, alpha \in Rates :
    LET projected == ProjectAnnualRevenue(org, 1, alpha)
        billed    == PeriodFees(org, projected.yield, 1, Year, 0)
    IN  billed.total = projected.management + projected.performance

(* The three answers of a stress test do not contradict each other: a drop *)
(* within the drawdown it promises is survived, as is a smaller one, and   *)
(* the buffer says the same, except of a borrow without a target LTV,      *)
(* which survives everything and still has the buffer of 40 percent.       *)
StressAnswersAgree ==
  Start => \A ltv \in (1 .. 100) \cup {Unknown} :
    /\ Survives(50, ltv) => Survives(30, ltv)
    /\ \A drop \in 1 .. 99 :
         /\ DrawdownAtLeast(drop, ltv) => Survives(drop, ltv)
         /\ BufferCovers(drop, ltv) => Survives(drop, ltv)
         /\ (Survives(drop, ltv) /\ ltv # Unknown) => BufferCovers(drop, ltv)

(* The figures shown with a strategy: its risks, its fees and its stress   *)
(* test.                                                                   *)
AssessmentSound ==
  /\ RiskGrows
  /\ BlockersAgree
  /\ NetKeepsBenchmark
  /\ SplitPeriodsCostNoLess
  /\ ProjectionIsBilled
  /\ StressAnswersAgree
=============================================================================
