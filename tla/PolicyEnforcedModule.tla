------------------------ MODULE PolicyEnforcedModule ------------------------
(***************************************************************************)
(* The V2 Safe module (contracts/src/PolicyEnforcedModule.sol): a trusted  *)
(* executor account moves USDC of a Gnosis Safe inside limits that only    *)
(* the Safe multisig can change.                                           *)
(*                                                                         *)
(* A transaction that reverts changes nothing, so every revert of the      *)
(* contract is a guard here.  Amounts are units of USDC, time is in units  *)
(* of which PERIOD_DURATION make a day, and a step of Tick starts the next *)
(* unit: any number of transactions may share a block timestamp.           *)
(***************************************************************************)
EXTENDS Integers, FiniteSets

CONSTANTS
  Targets,          \* protocol contracts (Aave pool, MultiSend, ...)
  Selectors,        \* four-byte function selectors
  NoSelector,       \* calldata shorter than four bytes
  Accounts,         \* the accounts that may be made executor
  ZeroAddress,      \* address(0)
  Usdc,             \* the USDC token contract
  MaxUsdc,          \* bound: largest amount passed to the contract
  MaxHeld,          \* bound: largest USDC balance of the Safe
  MaxBatch,         \* bound: inner calls of one MultiSend batch
  PERIOD_DURATION,  \* length of the spending window
  MaxTime           \* bound: last block timestamp

ASSUME ConstantsAssumption ==
  /\ MaxUsdc \in Nat /\ MaxHeld \in Nat /\ MaxBatch \in Nat /\ MaxTime \in Nat
  /\ PERIOD_DURATION \in Nat \ {0}
  /\ ZeroAddress \notin Targets \cup Accounts \cup {Usdc}
  /\ NoSelector \notin Selectors

VARIABLES
  executor,               \* the account allowed to call execute
  usdcToken,              \* token of the floor check, ZeroAddress: no check
  policy,                 \* struct Policy
  approvedTargets,        \* set of targets
  approvedSelectors,      \* set of <<target, selector>>
  selectorGuardEnabled,   \* set of targets whose guard is on
  periodStart,            \* timestamp at which the current window began
  periodSpend,            \* declared USDC spent in the current window
  now,                    \* block.timestamp
  safeUsdc                \* USDC.balanceOf(SAFE)

(* History, read by properties only. *)
VARIABLES
  total,                  \* declared USDC spent since deployment
  ledger,                 \* ledger[t]: what total was when time reached t
  peakLimit,              \* largest daily limit the Safe ever set
  everGuarded,            \* targets that ever had a selector approved
  last                    \* the latest step, if it was an execute

contractVars == <<executor, usdcToken, policy, approvedTargets,
                  approvedSelectors, selectorGuardEnabled>>
windowVars   == <<periodStart, periodSpend>>
historyVars  == <<total, ledger, peakLimit, everGuarded>>
vars == <<contractVars, windowVars, now, safeUsdc, historyVars, last>>

Amount == 0 .. MaxUsdc
Held   == 0 .. MaxHeld
Time   == 0 .. MaxTime
Policy == [active : BOOLEAN, maxSingleActionUsdc : Amount,
           dailyLimitUsdc : Amount, reserveFloorUsdc : Amount]
Call   == [to : Targets, sel : Selectors \cup {NoSelector}]
Idle   == [executed |-> FALSE]

(***************************************************************************)
(* A transaction names the contract the Safe calls and two sets of calls:  *)
(* those the module reads out of the data (scanned) and those that follow  *)
(* from it when the Safe runs it (calls).  For a direct call (operation 0) *)
(* they are the same.  Of a delegatecall (operation 1) the module reads a  *)
(* packed list at a fixed place, whatever the target is and however the    *)
(* target would decode the data: the two sets are the same for a batch as  *)
(* encodeMultiSend builds it, sent to a MultiSend contract, and unrelated  *)
(* for anything else.  Data too short to read reverts and is left out.     *)
(***************************************************************************)
CallSets      == {D \in SUBSET Call : Cardinality(D) <= MaxBatch}
DirectCall(c) == [operation |-> 0, to |-> c.to, scanned |-> {c}, calls |-> {c}]
Delegate(t, S, C) == [operation |-> 1, to |-> t, scanned |-> S, calls |-> C]
Encoded       ==
  {DirectCall(c) : c \in Call} \cup {Delegate(t, C, C) : t \in Targets, C \in CallSets}
Transactions  ==
  Encoded \cup {Delegate(t, S, C) : t \in Targets, S \in CallSets, C \in CallSets}

-----------------------------------------------------------------------------
(* The spending window. *)

WindowExpired == now >= periodStart + PERIOD_DURATION

WindowStartKept == periodStart                                   \* mutant
WindowStart == IF WindowExpired THEN now ELSE periodStart
WindowSpend == IF WindowExpired THEN 0 ELSE periodSpend

(* remainingDailyLimit() *)
RemainingDailyLimit ==
  CASE WindowExpired -> policy.dailyLimitUsdc
    [] ~WindowExpired /\ policy.dailyLimitUsdc > periodSpend ->
         policy.dailyLimitUsdc - periodSpend
    [] OTHER -> 0

CanExecuteIgnoringWindow(to, usdcAmount) ==                      \* mutant
  /\ policy.active
  /\ to \in approvedTargets
  /\ usdcAmount <= policy.maxSingleActionUsdc
  /\ periodSpend + usdcAmount <= policy.dailyLimitUsdc

(* canExecute(to, usdcAmount), the view the backend asks before sending. *)
CanExecute(to, usdcAmount) ==
  /\ policy.active
  /\ to \in approvedTargets
  /\ usdcAmount <= policy.maxSingleActionUsdc
  /\ WindowSpend + usdcAmount <= policy.dailyLimitUsdc

-----------------------------------------------------------------------------
(* The checks of execute, in the order of the code. *)

FloorIgnoringDeclared(declared) ==                               \* mutant
  (usdcToken # ZeroAddress /\ policy.reserveFloorUsdc > 0)
    => safeUsdc >= policy.reserveFloorUsdc

FloorCovered(declared) ==
  (usdcToken # ZeroAddress /\ policy.reserveFloorUsdc > 0)
    => safeUsdc >= policy.reserveFloorUsdc + declared

WithinDailyLimit(declared) == WindowSpend + declared <= policy.dailyLimitUsdc

SelectorAllowed(c) ==
  (c.to \in selectorGuardEnabled /\ c.sel # NoSelector)
    => <<c.to, c.sel>> \in approvedSelectors

(* The direct selector guard, or _validateMultiSendCalls: nothing is asked *)
(* of the calls that were not read, and an empty list passes.              *)
CalldataAllowed(tx) ==
  \A c \in tx.scanned : c.to \in approvedTargets /\ SelectorAllowed(c)

Executable(tx, declared) ==
  /\ policy.active
  /\ tx.to \in approvedTargets
  /\ declared <= policy.maxSingleActionUsdc
  /\ FloorCovered(declared)
  /\ WithinDailyLimit(declared)
  /\ CalldataAllowed(tx)

(***************************************************************************)
(* execute, sent by caller: the module records the spend and the Safe runs *)
(* the calls.  What the protocols then do to the Safe's balance is not     *)
(* the module's doing, hence any new balance; a failing call reverts all.  *)
(***************************************************************************)
Execute(caller, tx, declared) ==
  /\ caller = executor
  /\ Executable(tx, declared)
  /\ periodStart' = WindowStart
  /\ periodSpend' = WindowSpend + declared
  /\ safeUsdc' \in Held
  /\ total' = total + declared
  /\ last' = [executed |-> TRUE, declared |-> declared, held |-> safeUsdc,
              to |-> tx.to, calls |-> tx.calls, encoded |-> tx \in Encoded]
  /\ UNCHANGED <<contractVars, now, ledger, peakLimit, everGuarded>>

-----------------------------------------------------------------------------
(* Safe-governed operations: each is a multisig transaction of the Safe.   *)

SetPolicy(single, daily, floor) ==
  /\ single > 0
  /\ daily >= single
  /\ policy' = [active |-> TRUE, maxSingleActionUsdc |-> single,
                dailyLimitUsdc |-> daily, reserveFloorUsdc |-> floor]
  /\ peakLimit' = IF daily > peakLimit THEN daily ELSE peakLimit
  /\ last' = Idle
  /\ UNCHANGED <<executor, usdcToken, approvedTargets, approvedSelectors,
                 selectorGuardEnabled, windowVars, now, safeUsdc, total,
                 ledger, everGuarded>>

SetUsdcToken(token) ==
  /\ usdcToken' = token
  /\ last' = Idle
  /\ UNCHANGED <<executor, policy, approvedTargets, approvedSelectors,
                 selectorGuardEnabled, windowVars, now, safeUsdc, historyVars>>

SetActive(b) ==
  /\ policy' = [policy EXCEPT !.active = b]
  /\ last' = Idle
  /\ UNCHANGED <<executor, usdcToken, approvedTargets, approvedSelectors,
                 selectorGuardEnabled, windowVars, now, safeUsdc, historyVars>>

PausePolicy  == SetActive(FALSE)
ResumePolicy == SetActive(TRUE)

AddApprovedTarget(target) ==
  /\ target # ZeroAddress
  /\ approvedTargets' = approvedTargets \cup {target}
  /\ last' = Idle
  /\ UNCHANGED <<executor, usdcToken, policy, approvedSelectors,
                 selectorGuardEnabled, windowVars, now, safeUsdc, historyVars>>

RemoveApprovedTarget(target) ==
  /\ approvedTargets' = approvedTargets \ {target}
  /\ last' = Idle
  /\ UNCHANGED <<executor, usdcToken, policy, approvedSelectors,
                 selectorGuardEnabled, windowVars, now, safeUsdc, total,
                 ledger, peakLimit, everGuarded>>

ApproveSelector(target, sel) ==
  /\ approvedSelectors' = approvedSelectors \cup {<<target, sel>>}
  /\ selectorGuardEnabled' = selectorGuardEnabled \cup {target}
  /\ everGuarded' = everGuarded \cup {target}
  /\ last' = Idle
  /\ UNCHANGED <<executor, usdcToken, policy, approvedTargets, windowVars,
                 now, safeUsdc, total, ledger, peakLimit>>

RevokeSelectorDropsGuard(target, sel) ==                         \* mutant
  /\ approvedSelectors' = approvedSelectors \ {<<target, sel>>}
  /\ selectorGuardEnabled' =
       selectorGuardEnabled \ {t \in {target} :
         \A s \in Selectors : <<t, s>> \notin approvedSelectors'}
  /\ last' = Idle
  /\ UNCHANGED <<executor, usdcToken, policy, approvedTargets, windowVars,
                 now, safeUsdc, historyVars>>

RevokeSelector(target, sel) ==
  /\ approvedSelectors' = approvedSelectors \ {<<target, sel>>}
  /\ last' = Idle
  /\ UNCHANGED <<executor, usdcToken, policy, approvedTargets,
                 selectorGuardEnabled, windowVars, now, safeUsdc, historyVars>>

SetExecutor(newExecutor) ==
  /\ newExecutor # ZeroAddress
  /\ executor' = newExecutor
  /\ last' = Idle
  /\ UNCHANGED <<usdcToken, policy, approvedTargets, approvedSelectors,
                 selectorGuardEnabled, windowVars, now, safeUsdc, historyVars>>

-----------------------------------------------------------------------------
(* The environment: the chain's clock, and every other way in which the    *)
(* Safe gains or pays out USDC.                                            *)

Tick ==
  /\ now < MaxTime
  /\ now' = now + 1
  /\ ledger' = [ledger EXCEPT ![now + 1] = total]
  /\ last' = Idle
  /\ UNCHANGED <<contractVars, windowVars, safeUsdc, total, peakLimit,
                 everGuarded>>

BalanceChange ==
  /\ safeUsdc' \in Held
  /\ last' = Idle
  /\ UNCHANGED <<contractVars, windowVars, now, historyVars>>

(* constructor(_safe, _executor) *)
Init ==
  /\ executor \in Accounts
  /\ usdcToken = ZeroAddress
  /\ policy = [active |-> FALSE, maxSingleActionUsdc |-> 0,
               dailyLimitUsdc |-> 0, reserveFloorUsdc |-> 0]
  /\ approvedTargets = {}
  /\ approvedSelectors = {}
  /\ selectorGuardEnabled = {}
  /\ now = 0 /\ periodStart = 0 /\ periodSpend = 0
  /\ safeUsdc \in Held
  /\ total = 0 /\ peakLimit = 0
  /\ ledger = [t \in Time |-> 0]
  /\ everGuarded = {}
  /\ last = Idle

Next ==
  \/ \E caller \in Accounts, tx \in Transactions, declared \in Amount :
       Execute(caller, tx, declared)
  \/ \E single, daily, floor \in Amount : SetPolicy(single, daily, floor)
  \/ \E token \in {Usdc, ZeroAddress} : SetUsdcToken(token)
  \/ PausePolicy
  \/ ResumePolicy
  \/ \E target \in Targets \cup {ZeroAddress} : AddApprovedTarget(target)
  \/ \E target \in Targets : RemoveApprovedTarget(target)
  \/ \E target \in Targets, sel \in Selectors : ApproveSelector(target, sel)
  \/ \E target \in Targets, sel \in Selectors : RevokeSelector(target, sel)
  \/ \E account \in Accounts \cup {ZeroAddress} : SetExecutor(account)
  \/ Tick
  \/ BalanceChange

Spec == Init /\ [][Next]_vars

-----------------------------------------------------------------------------
(* Properties *)

(* The contract's storage keeps its types and limits: the executor is a    *)
(* real account, and one action never may spend more than a day.           *)
TypeOK ==
  /\ executor \in Accounts
  /\ usdcToken \in {Usdc, ZeroAddress}
  /\ policy \in Policy
  /\ policy.maxSingleActionUsdc <= policy.dailyLimitUsdc
  /\ approvedTargets \subseteq Targets
  /\ approvedSelectors \subseteq Targets \X Selectors
  /\ selectorGuardEnabled \subseteq Targets
  /\ now \in Time /\ periodStart \in 0 .. now /\ periodSpend \in Nat
  /\ safeUsdc \in Held
  /\ total \in Nat /\ ledger \in [Time -> Nat] /\ peakLimit \in Amount
  /\ everGuarded \subseteq Targets
  /\ last \in {Idle} \cup [executed : {TRUE}, declared : Amount, held : Held,
                           to : Targets, calls : SUBSET Call, encoded : BOOLEAN]

(* What was spent at times t up to and excluding t + PERIOD_DURATION.      *)
SpentFrom(t) ==
  (IF t + PERIOD_DURATION <= now THEN ledger[t + PERIOD_DURATION] ELSE total)
    - ledger[t]

(* periodSpend is exactly what was spent since the current window began:   *)
(* neither a policy change nor a pause, a rotation of the executor or the  *)
(* lazy reset of execute loses or double counts a spend.                   *)
WindowAccounting == periodSpend = total - ledger[periodStart]

(* However executions, policy changes and window resets interleave, no     *)
(* stretch of PERIOD_DURATION sees more than twice the largest daily limit *)
(* ever in force: what the lazily reset window of execute does guarantee.  *)
AnyDayWithinTwoLimits ==
  \A t \in 0 .. now : SpentFrom(t) <= 2 * peakLimit

(* The inductive form of the bounds above.  The ledger never decreases; no *)
(* spend is dated after the end of the current window, because the first   *)
(* execute after the end opens the next one; and the day that ends where   *)
(* the window begins saw at most one limit, because a window lasts at      *)
(* least a day: what the previous window spent is all that day can hold.   *)
SpendingInv ==
  /\ WindowAccounting
  /\ periodSpend <= peakLimit
  /\ policy.dailyLimitUsdc <= peakLimit
  /\ \A t \in 0 .. now : ledger[t] <= total
  /\ \A s, t \in 0 .. now : s <= t => ledger[s] <= ledger[t]
  /\ \A t \in 0 .. now : periodStart + PERIOD_DURATION <= t => ledger[t] = total
  /\ \A t \in 0 .. periodStart : periodStart - PERIOD_DURATION <= t =>
       ledger[periodStart] - ledger[t] <= peakLimit
  /\ AnyDayWithinTwoLimits

(* canExecute and execute agree: what the view refuses always reverts, and *)
(* what it allows fails only on the floor or on the calldata, the checks   *)
(* it documents as left out.                                               *)
PreflightAgrees ==
  \A tx \in Transactions, declared \in Amount :
    Executable(tx, declared) <=>
      /\ CanExecute(tx.to, declared)
      /\ FloorCovered(declared)
      /\ CalldataAllowed(tx)

(* remainingDailyLimit is the largest positive amount the daily check of   *)
(* execute would still accept, across the lazy reset and after the Safe    *)
(* lowered the limit below what is already spent.                          *)
RemainingLimitAgrees ==
  \A declared \in Amount \ {0} :
    declared <= RemainingDailyLimit <=> WithinDailyLimit(declared)

(* Both views agree with execute, at every time between two resets. *)
ViewsAgree == PreflightAgrees /\ RemainingLimitAgrees

(* Every call the Safe ran, alone or inside a batch encodeMultiSend built, *)
(* went to a target and a selector on the allowlist at that moment; for a  *)
(* target that ever had a selector approved this holds for good, whatever  *)
(* was revoked, removed or added again since.  Of any other delegatecall   *)
(* only the target is checked, and nothing is said of the calls it makes.  *)
OnlyAllowlistedCalls ==
  last.executed =>
    /\ last.to \in approvedTargets
    /\ last.encoded => \A c \in last.calls :
         /\ c.to \in approvedTargets
         /\ (c.to \in everGuarded /\ c.sel # NoSelector)
              => <<c.to, c.sel>> \in approvedSelectors

(* An execution whose calls take no more out of the Safe than it declared  *)
(* leaves the reserve floor of the policy in the Safe.                     *)
ReserveFloorKept ==
  (/\ last.executed /\ usdcToken # ZeroAddress
   /\ last.held - safeUsdc <= last.declared)
    => safeUsdc >= policy.reserveFloorUsdc
=============================================================================
