-------------------------- MODULE MCSafeSubmission --------------------------
EXTENDS SafeSubmission, TLC

Symmetry == Permutations(Sims) \cup Permutations(Submits)

(* The submit route reads stored artifacts and the block number, and the   *)
(* simulator reads nothing of the route: simulations first loses no        *)
(* combination of the two.                                                 *)
SimulateFirst ==
  /\ submit' # submit => Running = {}
  /\ sim' # sim => \A c \in Submits : submit[c].at = "idle"

(* From then on only the passed, stored simulations matter. *)
View ==
  IF \A c \in Submits : submit[c].at = "idle" THEN <<vars>>
  ELSE <<head, faults, routes,
         {<<s, artifact[s].until, s \in alone, s \in moved>> : s \in {x \in stored : Submittable(x)}}>>

Policy == [protocols |-> {"aave-v3", "uniswap-v3"}, actions |-> {"supply", "withdraw", "swap"},
           assets |-> {"USDC", "WETH"}, blocked |-> {"borrow"}, maxSingle |-> 2, floor |-> 1]
(* The policy of scripts/verify-fork.mjs, the only one that names "morpho". *)
Harness == [Policy EXCEPT !.protocols = @ \cup {"morpho"}, !.actions = @ \cup {"deposit"}]

Ask1(p, to, policy, liquid) ==
  [playbook |-> p, to |-> to, policy |-> policy, liquid |-> liquid, excess |-> 0]
(* As an amount of "0.1" has it in WETH, in the last of 18 decimals. *)
Uneven(r) == [r EXCEPT !.excess = 1]

MCRequests ==
  {Ask1(p, "treasury", Policy, 3) : p \in {"supplyUSDC", "withdrawUSDC", "swap"}}
  \cup {Ask1(p, "wallet", Harness, 5) : p \in {"swap", "deposit", "redeem"}}
  \cup {Ask1("supplyUSDC", "treasury", Policy, 2), Ask1("swap", "wallet", Policy, 1),
        Ask1("withdrawWETH", "wallet", [Policy EXCEPT !.maxSingle = 1], 3),
        Uneven(Ask1("withdrawWETH", "treasury", Policy, 3)),
        Uneven(Ask1("withdrawUSDC", "wallet", Policy, 5))}
=============================================================================
