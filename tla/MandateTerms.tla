---------------------------- MODULE MandateTerms ----------------------------
(***************************************************************************)
(* The terms of a mandate on their way: the dialog's sliders, the body the *)
(* mandate route accepts, the stored version, the message that is signed   *)
(* and verified, the policy the simulator enforces, and the actions the    *)
(* monitor decides under them.                                             *)
(*                                                                         *)
(* Usd stands for the sliders' range; percentages and basis points are in  *)
(* tenths, so that what is not whole exists.                               *)
(***************************************************************************)
EXTENDS MandatePolicy, FiniteSets

CONSTANTS
  Usd,       \* amounts of dollars
  Threshold  \* idle dollars worth deploying: IDLE_THRESHOLD_USD

ASSUME TermsAssumption == Usd \subseteq Nat /\ Threshold \in Nat

Protocols == {"aave-v3", "morpho-blue", "uniswap-v3"}
Actions   == {"supply", "withdraw", "deposit", "redeem", "swap"}
Assets    == {"USDC", "WETH"}
BLOCKED_ACTIONS == {"borrow", "repay", "add_liquidity", "remove_liquidity",
                    "stake", "unstake", "leverage", "bridge"}

(* A field that is left out of the body.                                   *)
Or(value, default) == IF value = Unknown THEN default ELSE value

(* validateMandateInput *)
Valid(b) ==
  /\ b.floor >= 0 /\ Or(b.spendable, 0) >= 0
  /\ b.risk \in 0 .. 250 /\ b.allocation \in 10 .. 800
  /\ Or(b.maxSingle, 1) >= 1 /\ Or(b.slippage, 300) \in 10 .. 1000
  /\ \A l \in {<<b.assets, Assets>>, <<b.protocols, Protocols>>, <<b.actions, Actions>>} :
       l[1] # {} /\ l[1] \subseteq l[2]
  /\ b.protocols = {"uniswap-v3"} => b.actions \subseteq {"swap"}
  /\ "swap" \in b.actions => "uniswap-v3" \in b.protocols
  /\ b.floor >= Or(b.spendable, 0)

(* createMandateWithVersion: what is stored, with its defaults.            *)
Version(b) == [b EXCEPT !.spendable = Or(@, 0), !.slippage = Or(@, 300)]

(* The dialog's request for what its sliders and boxes can show.           *)
DialogBody(p) ==
  [floor |-> p.floor, spendable |-> Unknown, risk |-> p.risk, allocation |-> p.allocation,
   maxSingle |-> p.maxSingle, slippage |-> 300, assets |-> {"USDC"},
   protocols |-> p.protocols, actions |-> {"supply", "withdraw"}]

Rounded(x) == (x + 5) \div 10

DialogMessage(p) == <<p.floor, Rounded(p.risk), 30, p.protocols, 1>>

(* activation-payload and activate build the same message; BigInt throws   *)
(* for basis points that are not whole.                                    *)
Signable(v) == v.slippage % 10 = 0
Message(v)  == <<v.floor, Rounded(v.risk), v.slippage \div 10, v.protocols, 1>>

(* The executor's policy for the simulator.                                *)
PolicyOf(v) ==
  [protocols |-> v.protocols, actions |-> v.actions, blocked |-> BLOCKED_ACTIONS,
   assets |-> v.assets, maxSingle |-> v.maxSingle, floor |-> v.floor]

(* scanOrgMandates: four fifths of what is idle, within the single-action  *)
(* limit, or what the reserve lacks while there is a position to draw on.  *)
Decided(v, liquid, supplied) ==
  LET idle   == liquid - v.floor
      share  == (4 * idle) \div 5
      supply == [playbook |-> "supplyUSDC",
                 amount |-> IF v.maxSingle # Unknown /\ v.maxSingle < share
                            THEN v.maxSingle ELSE share]
      draw   == [playbook |-> "withdrawUSDC", amount |-> v.floor - liquid]
  IN  {d \in {supply} : idle > Threshold} \cup {d \in {draw} : liquid < v.floor /\ supplied > 0}

-----------------------------------------------------------------------------
(* Bounded inputs *)

DialogParams ==
  [floor : Usd \ {0}, maxSingle : Usd \ {0}, risk : {10, 250}, allocation : {100, 800},
   protocols : SUBSET Protocols]

Bodies ==
  [floor : Usd, spendable : {Unknown, 0, 1}, risk : {0, 5, 250, 251}, allocation : {100},
   maxSingle : Usd \cup {Unknown}, slippage : {Unknown, 5, 15, 300},
   assets : {{"USDC"}, {"WETH"}}, protocols : SUBSET Protocols,
   actions : {{"supply", "withdraw"}, {"supply"}, {"swap"}, {"borrow"}}]

-----------------------------------------------------------------------------
(* Properties *)

(* validateMandateInput accepts what the dialog can send, except a choice  *)
(* of no protocol, which the dialog does not let through, or of Uniswap    *)
(* alone; and what the owner then signs is what the route verifies.        *)
DialogAccepted ==
  \A p \in DialogParams :
    LET b == DialogBody(p)
    IN  /\ Valid(b) <=> p.protocols \ {"uniswap-v3"} # {}
        /\ Valid(b) => Signable(Version(b)) /\ Message(Version(b)) = DialogMessage(p)

(* A scan decides one thing at most, and something that the simulator will *)
(* not refuse if the mandate permits Aave at all: the two readings of the  *)
(* terms, scanOrgMandates and enforceMandatePolicy, differ only for a      *)
(* withdrawal that restores the reserve and is larger than a single action *)
(* may be.                                                                 *)
DecisionsPermitted ==
  \A b \in Bodies : Valid(b) =>
    \A liquid \in Usd, supplied \in {0, 1} :
      LET v == Version(b)  decided == Decided(v, liquid, supplied)
      IN  /\ Cardinality(decided) <= 1
          /\ \A d \in decided :
               Refuses(PolicyOf(v), d.playbook, d.amount, 0, liquid) =>
                 \/ "aave-v3" \notin v.protocols \/ "USDC" \notin v.assets
                 \/ Action(d.playbook) \notin v.actions
                 \/ d.playbook = "withdrawUSDC" /\ v.maxSingle # Unknown /\ d.amount > v.maxSingle
=============================================================================
