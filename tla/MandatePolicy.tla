--------------------------- MODULE MandatePolicy ---------------------------
(***************************************************************************)
(* What a mandate lets a playbook do: enforceMandatePolicy of              *)
(* mandate-simulator.ts.  A policy m has the fields protocols, actions,    *)
(* blocked, assets, maxSingle and floor; amounts are whole dollars.        *)
(***************************************************************************)
EXTENDS Integers

Unknown   == -1                        \* no value observed, priced or limited
Playbooks == {"supplyUSDC", "supplyWETH", "withdrawUSDC", "withdrawWETH",
              "swap", "deposit", "redeem"}

Protocol(p) == CASE p = "swap" -> "uniswap-v3"
                 [] p \in {"deposit", "redeem"} -> "morpho"
                 [] OTHER -> "aave-v3"

Action(p) == CASE p \in {"supplyUSDC", "supplyWETH"} -> "supply"
               [] p \in {"swap", "deposit"} -> p
               [] OTHER -> "withdraw"

Asset(p) == IF p \in {"supplyWETH", "withdrawWETH", "swap"} THEN "WETH" ELSE "USDC"

(* The policy refuses playbook p for an amount of which a swap may lose    *)
(* loss.  While the amount is Unknown the checks on it are skipped; a      *)
(* "deposit" never meets the reserve floor.                                *)
Refuses(m, p, amount, loss, liquid) ==
  LET action == Action(p)  priced == amount # Unknown  seen == liquid # Unknown
  IN \/ Protocol(p) \notin m.protocols
     \/ action \notin m.actions
     \/ action \in m.blocked
     \/ m.maxSingle \notin {Unknown, 0} /\ priced /\ amount > m.maxSingle
     \/ Asset(p) \notin m.assets
     \/ m.floor > 0 /\ ~seen
     \/ priced /\ seen /\ action = "supply" /\ liquid - amount < m.floor
     \/ priced /\ seen /\ action = "swap" /\ liquid - loss < m.floor
     \/ seen /\ action = "swap" /\ liquid < m.floor
=============================================================================
