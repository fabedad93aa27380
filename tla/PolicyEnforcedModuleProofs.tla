--------------------- MODULE PolicyEnforcedModuleProofs ---------------------
(***************************************************************************)
(* What the policy module guarantees for every value of the constants, and *)
(* what the proposals of the set-up scripts leave behind once the owners   *)
(* have run them, whatever else the owners propose and in whatever order.  *)
(***************************************************************************)
EXTENDS PolicySetup, WellFoundedInduction, TLAPS

USE ConstantsAssumption

(* Every constructed or updated contract state is well typed, its executor *)
(* is a real account and a single action is limited by the daily limit.    *)
LEMMA TypeCorrect == Spec => []TypeOK
<1>1. Init => TypeOK
  BY DEF Init, TypeOK, Policy, Amount, Time, Held, Idle
<1>2. TypeOK /\ [Next]_vars => TypeOK'
  <2> SUFFICES ASSUME TypeOK, [Next]_vars PROVE TypeOK'
    OBVIOUS
  <2> USE DEF TypeOK, Policy, Amount, Time, Held
  <2>1. ASSUME NEW caller \in Accounts, NEW tx \in Transactions,
               NEW declared \in Amount, Execute(caller, tx, declared)
        PROVE  TypeOK'
    <3>1. tx.to \in Targets /\ tx.calls \in SUBSET Call
      BY DEF Transactions, Encoded, DirectCall, Delegate, CallSets, Call
    <3>2. WindowStart \in 0 .. now /\ WindowSpend \in Nat
      BY DEF WindowStart, WindowSpend
    <3>3. last' \in [executed : {TRUE}, declared : Amount, held : Held,
                     to : Targets, calls : SUBSET Call, encoded : BOOLEAN]
      BY <2>1, <3>1 DEF Execute
    <3>4. /\ UNCHANGED <<executor, usdcToken, policy, approvedTargets,
                         approvedSelectors, selectorGuardEnabled>>
          /\ UNCHANGED <<now, ledger, peakLimit, everGuarded>>
          /\ safeUsdc' \in Held
      BY <2>1 DEF Execute, contractVars
    <3>5. periodStart' \in 0 .. now' /\ periodSpend' \in Nat /\ total' \in Nat
      BY <2>1, <3>2, <3>4 DEF Execute
    <3> HIDE DEF Policy
    <3> QED
      BY <3>3, <3>4, <3>5
  <2>2. ASSUME NEW single \in Amount, NEW daily \in Amount,
               NEW floor \in Amount, SetPolicy(single, daily, floor)
        PROVE  TypeOK'
    BY <2>2 DEF SetPolicy, windowVars
  <2>3. ASSUME NEW token \in {Usdc, ZeroAddress}, SetUsdcToken(token)
        PROVE  TypeOK'
    BY <2>3 DEF SetUsdcToken, windowVars, historyVars
  <2>4. ASSUME NEW b \in BOOLEAN, SetActive(b)
        PROVE  TypeOK'
    BY <2>4 DEF SetActive, windowVars, historyVars
  <2>5. ASSUME NEW target \in Targets \cup {ZeroAddress},
               AddApprovedTarget(target)
        PROVE  TypeOK'
    BY <2>5 DEF AddApprovedTarget, windowVars, historyVars
  <2>6. ASSUME NEW target \in Targets, RemoveApprovedTarget(target)
        PROVE  TypeOK'
    BY <2>6 DEF RemoveApprovedTarget, windowVars
  <2>7. ASSUME NEW target \in Targets, NEW sel \in Selectors,
               ApproveSelector(target, sel)
        PROVE  TypeOK'
    BY <2>7 DEF ApproveSelector, windowVars
  <2>8. ASSUME NEW target \in Targets, NEW sel \in Selectors,
               RevokeSelector(target, sel)
        PROVE  TypeOK'
    BY <2>8 DEF RevokeSelector, windowVars, historyVars
  <2>9. ASSUME NEW account \in Accounts \cup {ZeroAddress},
               SetExecutor(account)
        PROVE  TypeOK'
    BY <2>9 DEF SetExecutor, windowVars, historyVars
  <2>10. CASE Tick
    BY <2>10 DEF Tick, contractVars, windowVars
  <2>11. CASE BalanceChange
    BY <2>11 DEF BalanceChange, contractVars, windowVars, historyVars
  <2>12. CASE UNCHANGED vars
    BY <2>12 DEF vars, contractVars, windowVars, historyVars
  <2> QED
    BY <2>1, <2>2, <2>3, <2>4, <2>5, <2>6, <2>7, <2>8, <2>9, <2>10, <2>11,
       <2>12 DEF Next, PausePolicy, ResumePolicy
<1> QED
  BY <1>1, <1>2, PTL DEF Spec

-----------------------------------------------------------------------------
(* The spending invariant, operation by operation.                         *)

(* A step that neither spends nor moves the clock or the window keeps the  *)
(* invariant, provided it raises the peak limit with the daily limit.      *)
LEMMA QuietStep ==
  ASSUME TypeOK, SpendingInv, TypeOK',
         UNCHANGED <<now, periodStart, periodSpend, total, ledger>>,
         peakLimit <= peakLimit', policy'.dailyLimitUsdc <= peakLimit'
  PROVE  SpendingInv'
<1> USE DEF TypeOK, Time, Amount
<1>1. WindowAccounting'
  BY DEF SpendingInv, WindowAccounting
<1>2. AnyDayWithinTwoLimits'
  <2> SUFFICES ASSUME NEW t \in 0 .. now PROVE SpentFrom(t)' <= 2 * peakLimit'
    BY DEF AnyDayWithinTwoLimits
  <2>1. SpentFrom(t)' = SpentFrom(t)
    BY DEF SpentFrom
  <2>2. SpentFrom(t) <= 2 * peakLimit
    BY DEF SpendingInv, AnyDayWithinTwoLimits
  <2>3. SpentFrom(t) \in Int
    BY DEF SpentFrom
  <2> QED
    BY <2>1, <2>2, <2>3
<1> QED
  BY <1>1, <1>2 DEF SpendingInv

(* The arithmetic part of the type invariant, all that the bounds need.    *)
LEMMA SpendingTypes ==
  ASSUME TypeOK
  PROVE  /\ now \in Nat /\ periodStart \in Nat /\ periodStart <= now
         /\ periodSpend \in Nat /\ total \in Nat /\ peakLimit \in Nat
         /\ policy.dailyLimitUsdc \in Nat
         /\ PERIOD_DURATION \in Nat /\ PERIOD_DURATION > 0
         /\ \A t \in 0 .. now : ledger[t] \in Nat
<1>1. now <= MaxTime /\ now \in Nat /\ ledger \in [0 .. MaxTime -> Nat]
  BY DEF TypeOK, Time
<1>2. \A t \in 0 .. now : ledger[t] \in Nat
  BY <1>1
<1>3. policy.dailyLimitUsdc \in Nat /\ peakLimit \in Nat
  BY DEF TypeOK, Policy, Amount
<1> QED
  BY <1>1, <1>2, <1>3 DEF TypeOK

(* An execute keeps it: an open window absorbs the spend within the daily  *)
(* limit, an expired one is closed with nothing dated after its end.       *)
LEMMA ExecuteStep ==
  ASSUME TypeOK, SpendingInv, TypeOK',
         NEW caller \in Accounts, NEW tx \in Transactions,
         NEW declared \in Amount, Execute(caller, tx, declared)
  PROVE  SpendingInv'
<1> declared \in Nat
  BY DEF Amount
<1> HIDE ConstantsAssumption
<1>0. /\ now \in Nat /\ periodStart \in Nat /\ periodStart <= now
      /\ periodSpend \in Nat /\ total \in Nat /\ peakLimit \in Nat
      /\ policy.dailyLimitUsdc \in Nat
      /\ PERIOD_DURATION \in Nat /\ PERIOD_DURATION > 0
      /\ \A t \in 0 .. now : ledger[t] \in Nat
  BY SpendingTypes
<1>1. /\ UNCHANGED <<now, ledger, peakLimit, policy>>
      /\ periodStart' = WindowStart
      /\ periodSpend' = WindowSpend + declared
      /\ total' = total + declared
      /\ WindowSpend + declared <= policy.dailyLimitUsdc
  BY DEF Execute, contractVars, Executable, WithinDailyLimit
<1>2. /\ \A t \in 0 .. now : ledger[t] <= total
      /\ \A s, t \in 0 .. now : s <= t => ledger[s] <= ledger[t]
      /\ periodSpend = total - ledger[periodStart]
      /\ periodSpend <= peakLimit
      /\ policy.dailyLimitUsdc <= peakLimit
  BY DEF SpendingInv, WindowAccounting
<1>3. CASE WindowExpired
  <2>1. periodStart' = now /\ periodSpend' = declared
        /\ periodStart + PERIOD_DURATION <= now
    BY <1>1, <1>3 DEF WindowStart, WindowSpend, WindowExpired
  <2>2. ledger[now] = total
    BY <1>0, <2>1 DEF SpendingInv
  <2>3. WindowAccounting'
    BY <1>0, <1>1, <1>2, <2>1, <2>2 DEF WindowAccounting
  <2>4. \A t \in 0 .. now : now - PERIOD_DURATION <= t =>
          ledger[now] - ledger[t] <= peakLimit
    BY <1>0, <1>2, <2>1, <2>2
  <2>5. declared <= peakLimit
    BY <1>0, <1>1, <1>2, <1>3 DEF WindowSpend
  <2>6. AnyDayWithinTwoLimits'
    <3> SUFFICES ASSUME NEW t \in 0 .. now
                 PROVE  SpentFrom(t)' <= 2 * peakLimit
      BY <1>1 DEF AnyDayWithinTwoLimits
    <3>1. CASE t + PERIOD_DURATION <= now
      <4>1. SpentFrom(t)' = SpentFrom(t)
        BY <1>1, <3>1 DEF SpentFrom
      <4> QED
        BY <4>1 DEF SpendingInv, AnyDayWithinTwoLimits
    <3>2. CASE ~(t + PERIOD_DURATION <= now)
      <4>1. SpentFrom(t)' = total + declared - ledger[t]
        BY <1>0, <1>1, <3>2 DEF SpentFrom
      <4> QED
        BY <4>1, <3>2, <2>2, <2>4, <2>5, <1>0, <1>2
    <3> QED
      BY <3>1, <3>2
  <2> QED
    BY <1>0, <1>1, <1>2, <2>1, <2>2, <2>3, <2>4, <2>5, <2>6 DEF SpendingInv
<1>4. CASE ~WindowExpired
  <2>1. periodStart' = periodStart /\ periodSpend' = periodSpend + declared
        /\ now < periodStart + PERIOD_DURATION
    BY <1>0, <1>1, <1>4 DEF WindowStart, WindowSpend, WindowExpired
  <2>2. periodSpend + declared <= peakLimit
    BY <1>0, <1>1, <1>2, <1>4 DEF WindowSpend
  <2>3. WindowAccounting'
    BY <1>0, <1>1, <1>2, <2>1 DEF WindowAccounting
  <2>4. \A t \in 0 .. periodStart : periodStart - PERIOD_DURATION <= t =>
          ledger[periodStart] - ledger[t] <= peakLimit
    BY DEF SpendingInv
  <2>5. AnyDayWithinTwoLimits'
    <3> SUFFICES ASSUME NEW t \in 0 .. now
                 PROVE  SpentFrom(t)' <= 2 * peakLimit
      BY <1>1 DEF AnyDayWithinTwoLimits
    <3>1. CASE t + PERIOD_DURATION <= now
      <4>1. SpentFrom(t)' = SpentFrom(t)
        BY <1>1, <3>1 DEF SpentFrom
      <4> QED
        BY <4>1 DEF SpendingInv, AnyDayWithinTwoLimits
    <3>2. CASE ~(t + PERIOD_DURATION <= now)
      <4>1. SpentFrom(t)' = total + declared - ledger[t]
        BY <1>0, <1>1, <3>2 DEF SpentFrom
      <4>2. CASE periodStart <= t
        BY <4>1, <4>2, <1>0, <1>2, <2>2
      <4>3. CASE t < periodStart
        <5>1. ledger[periodStart] - ledger[t] <= peakLimit
          BY <4>3, <3>2, <1>0, <2>1, <2>4
        <5> QED
          BY <4>1, <5>1, <1>0, <1>2, <2>2
      <4> QED
        BY <1>0, <4>2, <4>3
    <3> QED
      BY <3>1, <3>2
  <2> QED
    BY <1>0, <1>1, <1>2, <2>1, <2>2, <2>3, <2>4, <2>5 DEF SpendingInv
<1> QED
  BY <1>3, <1>4

(* The clock keeps it: the new instant starts with everything spent before. *)
LEMMA TickStep ==
  ASSUME TypeOK, SpendingInv, TypeOK', Tick
  PROVE  SpendingInv'
<1> USE DEF TypeOK, Time, Amount, Policy
<1>1. /\ UNCHANGED <<policy, periodStart, periodSpend, total, peakLimit>>
      /\ now' = now + 1 /\ now + 1 \in Time
      /\ ledger' = [ledger EXCEPT ![now + 1] = total]
  BY DEF Tick, contractVars, windowVars
<1>2. /\ ledger'[now + 1] = total
      /\ \A t \in 0 .. now : ledger'[t] = ledger[t] /\ ledger[t] \in Nat
  BY <1>1
<1>3. WindowAccounting'
  BY <1>1, <1>2 DEF SpendingInv, WindowAccounting
<1>4. AnyDayWithinTwoLimits'
  <2> SUFFICES ASSUME NEW t \in 0 .. now + 1
               PROVE  SpentFrom(t)' <= 2 * peakLimit
    BY <1>1 DEF AnyDayWithinTwoLimits
  <2>1. CASE t = now + 1
    BY <1>1, <1>2, <2>1 DEF SpentFrom
  <2>2. CASE t \in 0 .. now
    <3>1. SpentFrom(t)' = SpentFrom(t)
      BY <1>1, <1>2, <2>2 DEF SpentFrom
    <3> QED
      BY <3>1, <2>2 DEF SpendingInv, AnyDayWithinTwoLimits
  <2> QED
    BY <2>1, <2>2
<1>5. /\ \A t \in 0 .. now' : ledger'[t] <= total'
      /\ \A s, t \in 0 .. now' : s <= t => ledger'[s] <= ledger'[t]
      /\ \A t \in 0 .. now' : periodStart' + PERIOD_DURATION <= t
           => ledger'[t] = total'
  BY <1>1, <1>2 DEF SpendingInv
<1> QED
  BY <1>1, <1>2, <1>3, <1>4, <1>5 DEF SpendingInv

(* Every step of the module keeps the spending invariant. *)
LEMMA SpendingStep ==
  TypeOK /\ TypeOK' /\ SpendingInv /\ [Next]_vars => SpendingInv'
<1> SUFFICES ASSUME TypeOK, TypeOK', SpendingInv, [Next]_vars
             PROVE  SpendingInv'
  OBVIOUS
<1>1. policy.dailyLimitUsdc <= peakLimit /\ peakLimit \in Int
  BY DEF SpendingInv, TypeOK, Amount
<1>2. ASSUME NEW caller \in Accounts, NEW tx \in Transactions,
             NEW declared \in Amount, Execute(caller, tx, declared)
      PROVE  SpendingInv'
  BY <1>2, ExecuteStep
<1>3. CASE Tick
  BY <1>3, TickStep
<1>4. ASSUME NEW single \in Amount, NEW daily \in Amount, NEW floor \in Amount,
             SetPolicy(single, daily, floor)
      PROVE  SpendingInv'
  <2>1. policy'.dailyLimitUsdc = daily
    BY <1>4 DEF SetPolicy
  <2> QED
    BY <1>1, <1>4, <2>1, QuietStep DEF SetPolicy, windowVars, Amount
<1>5. ASSUME NEW b \in BOOLEAN, SetActive(b)
      PROVE  SpendingInv'
  <2>1. policy'.dailyLimitUsdc = policy.dailyLimitUsdc
    BY <1>5 DEF SetActive, TypeOK, Policy
  <2> QED
    BY <1>1, <1>5, <2>1, QuietStep DEF SetActive, windowVars, historyVars
<1>6. ASSUME \/ \E token \in {Usdc, ZeroAddress} : SetUsdcToken(token)
             \/ \E target \in Targets \cup {ZeroAddress} :
                  AddApprovedTarget(target)
             \/ \E target \in Targets : RemoveApprovedTarget(target)
             \/ \E target \in Targets, sel \in Selectors :
                  ApproveSelector(target, sel)
             \/ \E target \in Targets, sel \in Selectors :
                  RevokeSelector(target, sel)
             \/ \E account \in Accounts \cup {ZeroAddress} :
                  SetExecutor(account)
             \/ BalanceChange
             \/ UNCHANGED vars
      PROVE  SpendingInv'
  <2>1. /\ UNCHANGED <<now, periodStart, periodSpend, total, ledger>>
        /\ UNCHANGED <<policy, peakLimit>>
    BY <1>6 DEF SetUsdcToken, AddApprovedTarget, RemoveApprovedTarget,
       ApproveSelector, RevokeSelector, SetExecutor, BalanceChange, vars,
       contractVars, windowVars, historyVars
  <2> QED
    BY <1>1, <2>1, QuietStep
<1> QED
  BY <1>2, <1>3, <1>4, <1>5, <1>6 DEF Next, PausePolicy, ResumePolicy

(* The spending invariant, and with it the exact accounting of the window, *)
(* hold in every reachable state.                                          *)
THEOREM SpendingInvariant == Spec => []SpendingInv
<1>1. Init => SpendingInv
  BY DEF Init, SpendingInv, WindowAccounting, AnyDayWithinTwoLimits, SpentFrom,
         Time
<1> QED
  BY <1>1, SpendingStep, TypeCorrect, PTL DEF Spec

(* No day sees more than twice the largest daily limit ever in force: the  *)
(* damage bound the on-chain window gives for any limits and any schedule. *)
THEOREM AnyDayBound == Spec => []AnyDayWithinTwoLimits
BY SpendingInvariant, PTL DEF SpendingInv

-----------------------------------------------------------------------------
(* Allowlist and reserve floor.                                            *)

(* A direct call, or a batch as encodeMultiSend builds it, is read whole.  *)
LEMMA EncodedIsRead ==
  ASSUME NEW tx \in Encoded PROVE tx.scanned = tx.calls
BY DEF Encoded, DirectCall, Delegate

(* A target that ever had a selector approved still has its guard on, and  *)
(* the last execution was as OnlyAllowlistedCalls says.                    *)
GuardInv ==
  /\ everGuarded = selectorGuardEnabled
  /\ OnlyAllowlistedCalls

(* Whatever the Safe revokes, removes or adds again, the direct calls it   *)
(* runs for the executor and those of a batch encodeMultiSend built are on *)
(* the allowlist of the moment, guarded targets by selector, for any       *)
(* number of targets, selectors and calls in a batch.                      *)
THEOREM AllowlistEnforced == Spec => []OnlyAllowlistedCalls
<1>1. Init => GuardInv
  BY DEF Init, GuardInv, OnlyAllowlistedCalls, Idle
<1>2. TypeOK /\ GuardInv /\ [Next]_vars => GuardInv'
  <2> SUFFICES ASSUME TypeOK, GuardInv, [Next]_vars PROVE GuardInv'
    OBVIOUS
  <2>1. ASSUME NEW caller \in Accounts, NEW tx \in Transactions,
               NEW declared \in Amount, Execute(caller, tx, declared)
        PROVE  GuardInv'
    <3>1. /\ UNCHANGED <<approvedTargets, approvedSelectors,
                         selectorGuardEnabled, everGuarded>>
          /\ last'.to = tx.to /\ last'.calls = tx.calls
          /\ last'.encoded = (tx \in Encoded)
      BY <2>1 DEF Execute, contractVars
    <3>2. /\ tx.to \in approvedTargets
          /\ \A c \in tx.scanned : c.to \in approvedTargets /\ SelectorAllowed(c)
      BY <2>1 DEF Execute, Executable, CalldataAllowed
    <3>3. tx \in Encoded => tx.scanned = tx.calls
      BY EncodedIsRead
    <3> QED
      BY <3>1, <3>2, <3>3 DEF GuardInv, OnlyAllowlistedCalls, SelectorAllowed
  <2>2. ASSUME NEW target \in Targets, NEW sel \in Selectors,
               ApproveSelector(target, sel)
        PROVE  GuardInv'
    BY <2>2 DEF ApproveSelector, GuardInv, OnlyAllowlistedCalls, Idle
  <2>3. ASSUME last' = Idle,
               everGuarded' = everGuarded,
               selectorGuardEnabled' = selectorGuardEnabled
        PROVE  GuardInv'
    BY <2>3 DEF GuardInv, OnlyAllowlistedCalls, Idle
  <2>4. CASE UNCHANGED vars
    BY <2>4 DEF GuardInv, OnlyAllowlistedCalls, vars, contractVars, historyVars
  <2> QED
    BY <2>1, <2>2, <2>3, <2>4 DEF Next, SetPolicy, SetUsdcToken, SetActive,
       PausePolicy, ResumePolicy, AddApprovedTarget, RemoveApprovedTarget,
       RevokeSelector, SetExecutor, Tick, BalanceChange, contractVars,
       historyVars
<1>3. GuardInv => OnlyAllowlistedCalls
  BY DEF GuardInv
<1> QED
  BY <1>1, <1>2, <1>3, TypeCorrect, PTL DEF Spec

LEMMA FloorArithmetic ==
  ASSUME NEW before \in Nat, NEW after \in Nat, NEW floor \in Nat,
         NEW declared \in Nat, before >= floor + declared,
         before - after <= declared
  PROVE  after >= floor
OBVIOUS

(* An execution that takes no more than it declared never leaves the Safe  *)
(* below the reserve floor of its policy, for any balances and amounts.    *)
THEOREM FloorEnforced == Spec => []ReserveFloorKept
<1>1. Init => ReserveFloorKept
  BY DEF Init, ReserveFloorKept, Idle
<1>2. TypeOK /\ TypeOK' /\ ReserveFloorKept /\ [Next]_vars => ReserveFloorKept'
  <2> SUFFICES ASSUME TypeOK, TypeOK', ReserveFloorKept, [Next]_vars
               PROVE  ReserveFloorKept'
    OBVIOUS
  <2>1. ASSUME NEW caller \in Accounts, NEW tx \in Transactions,
               NEW declared \in Amount, Execute(caller, tx, declared)
        PROVE  ReserveFloorKept'
    <3>1. /\ UNCHANGED <<usdcToken, policy>>
          /\ last'.held = safeUsdc /\ last'.declared = declared
          /\ FloorCovered(declared)
      BY <2>1 DEF Execute, contractVars, Executable
    <3>2. /\ safeUsdc \in Nat /\ safeUsdc' \in Nat /\ declared \in Nat
          /\ policy.reserveFloorUsdc \in Nat
      BY DEF TypeOK, Held, Amount, Policy
    <3>3. CASE usdcToken # ZeroAddress /\ policy.reserveFloorUsdc > 0
      <4>1. safeUsdc >= policy.reserveFloorUsdc + declared
        BY <3>1, <3>3 DEF FloorCovered
      <4>2. safeUsdc - safeUsdc' <= declared
              => safeUsdc' >= policy.reserveFloorUsdc
        BY <3>2, <4>1, FloorArithmetic
      <4> QED
        BY <3>1, <4>2 DEF ReserveFloorKept
    <3>4. CASE ~(usdcToken # ZeroAddress /\ policy.reserveFloorUsdc > 0)
      <4>1. usdcToken = ZeroAddress \/ safeUsdc' >= policy.reserveFloorUsdc
        BY <3>2, <3>4
      <4> QED
        BY <3>1, <4>1 DEF ReserveFloorKept
    <3> QED
      BY <3>3, <3>4
  <2>2. ASSUME last' = Idle
        PROVE  ReserveFloorKept'
    BY <2>2 DEF ReserveFloorKept, Idle
  <2>3. CASE UNCHANGED vars
    BY <2>3 DEF ReserveFloorKept, vars, contractVars
  <2> QED
    BY <2>1, <2>2, <2>3 DEF Next, SetPolicy, SetUsdcToken, SetActive,
       PausePolicy, ResumePolicy, AddApprovedTarget, RemoveApprovedTarget,
       ApproveSelector, RevokeSelector, SetExecutor, Tick, BalanceChange
<1> QED
  BY <1>1, <1>2, TypeCorrect, PTL DEF Spec

(* remainingDailyLimit names exactly the amounts the daily check accepts,  *)
(* in every reachable state.                                               *)
LEMMA RemainingLimitExact == Spec => []RemainingLimitAgrees
<1>1. TypeOK => RemainingLimitAgrees
  <2> SUFFICES ASSUME TypeOK, NEW declared \in Amount \ {0}
               PROVE  declared <= RemainingDailyLimit
                        <=> WithinDailyLimit(declared)
    BY DEF RemainingLimitAgrees
  <2>1. /\ declared \in Nat /\ declared > 0 /\ periodSpend \in Nat
        /\ policy.dailyLimitUsdc \in Nat
    BY SpendingTypes DEF Amount
  <2>2. CASE WindowExpired
    BY <2>1, <2>2 DEF RemainingDailyLimit, WithinDailyLimit, WindowSpend
  <2>3. CASE ~WindowExpired /\ policy.dailyLimitUsdc > periodSpend
    BY <2>1, <2>3 DEF RemainingDailyLimit, WithinDailyLimit, WindowSpend
  <2>4. CASE ~WindowExpired /\ ~(policy.dailyLimitUsdc > periodSpend)
    BY <2>1, <2>4 DEF RemainingDailyLimit, WithinDailyLimit, WindowSpend
  <2> QED
    BY <2>2, <2>3, <2>4
<1> QED
  BY <1>1, TypeCorrect, PTL

(* canExecute and remainingDailyLimit agree with execute in every          *)
(* reachable state: what the backend is told before it sends is what the   *)
(* contract decides, but for the floor and the calldata.                   *)
THEOREM ViewsAgreeAlways == Spec => []ViewsAgree
<1>1. PreflightAgrees
  BY DEF PreflightAgrees, Executable, CanExecute, WithinDailyLimit
<1> QED
  BY <1>1, RemainingLimitExact, PTL DEF ViewsAgree
-----------------------------------------------------------------------------
HIDE ConstantsAssumption

(* The set-up scripts.  What is in the list of modules, in the queue and   *)
(* in the batch that runs:                                                 *)

Modules   == {V1, V2, Other}
Args      == Modules \cup Targets \cup Selectors \cup {Usdc, 0, "sentinel"}
Names     == {"enable", "disable", "setUsdcToken", "setPolicy", "add", "remove", "select", "revoke"}
Ops       == Names \X Args \X Args
Who       == Scripts \cup {"owners"}
Proposals == [nonce : Nat, by : Who, calls : Seq(Ops), careless : BOOLEAN]
Progress  == [at : {"idle", "read", "post"}, seen : Seq(Modules), from : Nat, nonce : Nat,
              careless : BOOLEAN]
Batches   == [calls : Seq(Ops), by : Who \cup {"none"}, undo : Seq(Modules)]

SetupTypes ==
  /\ modules \in Seq(Modules) /\ safeNonce \in Nat
  /\ queue \subseteq Proposals
  /\ script \in [Scripts -> Progress]
  /\ batch \in Batches /\ (Running => batch.by \in Who)
  /\ done \in Seq(Who) /\ unseen \in BOOLEAN

Manages(call) == call[1] \in {"enable", "disable"}
Permitted == ({UsdcOld, UsdcNew} \X {approve}) \cup ({PoolOld, PoolNew} \X {supply, withdraw})
Wrong     == {UsdcOld, PoolOld}

Enables(calls, m) == \E i \in DOMAIN calls : calls[i][1] = "enable" /\ calls[i][2] = m
Selects(calls, t) == \E i \in DOMAIN calls : calls[i][1] = "select" /\ calls[i][2] = t
Removes(calls, t) == \E i \in DOMAIN calls : calls[i][1] = "remove" /\ calls[i][2] = t

(* The calls of a batch, or what is left of them: a target is added after  *)
(* the modules were changed and before its selectors are approved; the     *)
(* selectors are those of the pools and of USDC; who does what.            *)
SelectsAfterAdding(calls) ==
  \A i \in DOMAIN calls :
    calls[i][1] = "add" /\ calls[i][2] # MultiSend =>
      \E j \in DOMAIN calls : i < j /\ calls[j][1] = "select" /\ calls[j][2] = calls[i][2]
AddsAfterEnabling(calls) ==
  \A i, j \in DOMAIN calls : calls[i][1] = "add" /\ Manages(calls[j]) => j < i
Sane(by, calls) ==
  /\ SelectsAfterAdding(calls)
  /\ AddsAfterEnabling(calls)
  /\ \A i \in DOMAIN calls :
       /\ calls[i][1] = "select" => <<calls[i][2], calls[i][3]>> \in Permitted
       /\ calls[i][1] = "enable" /\ calls[i][2] = V1 => by = "setup"
       /\ calls[i][1] = "enable" /\ calls[i][2] = V2 => by = "setupV2"
       /\ calls[i][1] = "enable" => calls[i][2] \in Modules
       /\ calls[i][1] = "disable" => by = "setupV2" /\ calls[i][3] = V1
       /\ calls[i][1] = "add" /\ calls[i][2] \in Wrong => by = "setupV2"

(* The first module is disabled before the second is enabled.              *)
Replaces(calls) ==
  \E k \in DOMAIN calls :
    /\ calls[k][1] = "disable"
    /\ \A j \in DOMAIN calls : calls[j][1] = "enable" => k < j

(* A batch as a whole. *)
Whole(by, calls, ignored) ==
  /\ Sane(by, calls)
  /\ by = "setupV2" => Enables(calls, V2) /\ (ignored \/ Replaces(calls))
  /\ by = "patch" => \A t \in Wrong : Removes(calls, t)

(* The nonces: the queue is ahead of the Safe, and a script that read it   *)
(* undisturbed is ahead of the queue.                                      *)
NonceInv ==
  /\ \A p \in queue : p.nonce >= safeNonce
  /\ \A s \in Scripts :
       /\ script[s].at = "read" => script[s].from <= safeNonce
       /\ script[s].at = "post" /\ ~script[s].careless =>
            \A p \in queue : p.careless \/ p.nonce < script[s].nonce
  /\ \E b \in Nat : /\ \A p \in queue : p.nonce <= b
                    /\ \A s \in Scripts : script[s].nonce <= b
  /\ NoncesDiffer

HasRun(s) == \E j \in DOMAIN done : done[j] = s
InOrder(s, t) == \E j, k \in DOMAIN done : j < k /\ done[j] = s /\ done[k] = t
Explained == unseen \/ InOrder("setupV2", "setup")

Unrepeated(ms) == \A i, j \in DOMAIN ms : ms[i] = ms[j] => i = j

(* A list of modules between two batches. *)
Settled(ms) ==
  /\ Unrepeated(ms)
  /\ IsIn(ms, V2) <=> HasRun("setupV2")
  /\ IsIn(ms, V1) /\ IsIn(ms, V2) => Explained

(* The list while a batch runs, against what it was and what is to come.   *)
Partway ==
  /\ IsIn(batch.undo, V2) => IsIn(modules, V2)
  /\ IsIn(modules, V2) => IsIn(batch.undo, V2) \/ batch.by = "setupV2"
  /\ IsIn(modules, V1) => IsIn(batch.undo, V1) \/ batch.by = "setup"
  /\ batch.by = "setupV2" =>
       /\ Enables(batch.calls, V2) \/ (IsIn(modules, V2) /\ ~IsIn(batch.undo, V2))
       /\ Explained \/ ~IsIn(modules, V1) \/ Replaces(batch.calls)

ModuleInv ==
  /\ Unrepeated(modules)
  /\ ~Running => Settled(modules)
  /\ Running => Settled(batch.undo) /\ Partway

(* The allowlist: a target is guarded, or will be by this batch, which no  *)
(* longer can fail; and the patch leaves no wrong target behind.           *)
Guarded(t) == t \in selectorGuardEnabled \cup {MultiSend}

AllowInv ==
  /\ approvedSelectors \subseteq Permitted
  /\ \A t \in approvedTargets : Guarded(t) \/ Selects(batch.calls, t)
  /\ (\E i \in DOMAIN batch.calls : Manages(batch.calls[i])) =>
       \A t \in approvedTargets : Guarded(t)
  /\ batch.by = "patch" => \A t \in Wrong : Removes(batch.calls, t) \/ t \notin approvedTargets
  /\ InOrder("setupV2", "patch") => Wrong \cap approvedTargets = {}

SetupInv ==
  /\ SetupTypes
  /\ \A p \in queue : Whole(p.by, p.calls, unseen)
  /\ Sane(batch.by, batch.calls)
  /\ NonceInv /\ ModuleInv /\ AllowInv

-----------------------------------------------------------------------------
(* Sequences and numbers *)

LEMMA LeastNatural ==
  ASSUME NEW T, T \subseteq Nat, T # {}
  PROVE  \E x \in T : \A y \in T : x <= y
<1> DEFINE R == {ss \in Nat \X Nat : ss[1] < ss[2]}
<1>1. IsWellFoundedOn(R, Nat)
  BY NatLessThanWellFounded DEF OpToRel
<1>2. \A x, y \in Nat : y < x => <<y, x>> \in R
  OBVIOUS
<1> HIDE DEF R
<1>3. \E x \in T : \A y \in T : ~(<<y, x>> \in R)
  BY <1>1, WFMin
<1>4. PICK x \in T : \A y \in T : ~(<<y, x>> \in R)
  BY <1>3
<1>5. ASSUME NEW y \in T PROVE x <= y
  <2>1. ~(y < x)
    BY <1>2, <1>4
  <2> QED BY <2>1
<1> QED BY <1>5

(* A bounded set of numbers has a largest one, which is Max of it.         *)
LEMMA LargestNatural ==
  ASSUME NEW S, S \subseteq Nat, S # {}, NEW b \in Nat, \A x \in S : x <= b
  PROVE  Max(S) \in S /\ \A x \in S : x <= Max(S)
<1> DEFINE T == {n \in Nat : \E x \in S : n = b - x}
<1>1. T # {} /\ T \subseteq Nat
  <2>1. PICK x \in S : TRUE
    OBVIOUS
  <2>2. b - x \in T
    BY DEF T
  <2> QED BY <2>2
<1>2. PICK least \in T : \A n \in T : least <= n
  BY <1>1, LeastNatural
<1>3. PICK x \in S : least = b - x
  BY <1>2
<1>4. ASSUME NEW y \in S PROVE x >= y
  <2>1. b - y \in T
    BY DEF T
  <2> QED BY <1>2, <1>3, <2>1
<1>5. \E z \in S : \A y \in S : z >= y
  BY <1>4
<1>6. Max(S) \in S /\ \A y \in S : Max(S) >= y
  BY <1>5 DEF Max
<1> QED BY <1>6

(* What is proposed comes after everything that is pending.                *)
LEMMA NonceIsNext ==
  ASSUME NEW pending, pending \subseteq Proposals, NEW from \in Nat,
         NEW b \in Nat, \A p \in pending : p.nonce <= b
  PROVE  /\ NextNonce(from, pending) \in Nat
         /\ NextNonce(from, pending) <= from + b + 1
         /\ \A p \in pending : p.nonce < NextNonce(from, pending)
<1>1. CASE pending = {}
  BY <1>1 DEF NextNonce
<1>2. CASE pending # {}
  <2> DEFINE S == {p.nonce : p \in pending}
  <2>1. S \subseteq Nat /\ S # {} /\ \A x \in S : x <= b
    BY <1>2 DEF Proposals
  <2>2. Max(S) \in S /\ \A x \in S : x <= Max(S)
    BY <2>1, LargestNatural
  <2>3. NextNonce(from, pending) = Max(S) + 1
    BY <1>2 DEF NextNonce
  <2>4. Max(S) \in Nat /\ Max(S) <= b /\ \A p \in pending : p.nonce <= Max(S) /\ p.nonce \in Nat
    BY <2>1, <2>2 DEF Proposals
  <2> HIDE DEF S
  <2> QED BY <2>3, <2>4
<1> QED BY <1>1, <1>2

LEMMA TailOf ==
  ASSUME NEW calls \in Seq(Ops), calls # <<>>
  PROVE  /\ Tail(calls) \in Seq(Ops) /\ Head(calls) = calls[1]
         /\ 1 \in DOMAIN calls
         /\ \A i \in DOMAIN calls : i \in Nat \ {0} /\ (i # 1 => i - 1 \in DOMAIN Tail(calls))
         /\ \A i \in DOMAIN Tail(calls) :
              i \in Nat \ {0} /\ i + 1 \in DOMAIN calls /\ Tail(calls)[i] = calls[i + 1]
OBVIOUS

(* Something in a sequence is its head or in its tail. *)
LEMMA SaneTail ==
  ASSUME NEW by, NEW calls \in Seq(Ops), calls # <<>>, Sane(by, calls)
  PROVE  Sane(by, Tail(calls))
<1> DEFINE rest == Tail(calls)
<1>1. \A i \in DOMAIN rest : i \in Nat \ {0} /\ i + 1 \in DOMAIN calls /\ rest[i] = calls[i + 1]
  BY TailOf
<1>2. \A i \in DOMAIN calls : i \in Nat \ {0} /\ (i # 1 => i - 1 \in DOMAIN rest)
  BY TailOf
<1> HIDE DEF rest
<1>3. SelectsAfterAdding(rest)
  <2> SUFFICES ASSUME NEW i \in DOMAIN rest, rest[i][1] = "add", rest[i][2] # MultiSend
               PROVE  \E j \in DOMAIN rest :
                        i < j /\ rest[j][1] = "select" /\ rest[j][2] = rest[i][2]
    BY DEF SelectsAfterAdding
  <2>1. PICK j \in DOMAIN calls :
          i + 1 < j /\ calls[j][1] = "select" /\ calls[j][2] = calls[i + 1][2]
    BY <1>1 DEF Sane, SelectsAfterAdding
  <2>2. j - 1 \in DOMAIN rest /\ i < j - 1 /\ (j - 1) + 1 = j
    BY <1>1, <1>2, <2>1
  <2> QED BY <1>1, <2>1, <2>2
<1>4. AddsAfterEnabling(rest)
  <2> SUFFICES ASSUME NEW i \in DOMAIN rest, NEW j \in DOMAIN rest,
                      rest[i][1] = "add", Manages(rest[j])
               PROVE  j < i
    BY DEF AddsAfterEnabling
  <2>1. j + 1 < i + 1
    BY <1>1 DEF Sane, AddsAfterEnabling
  <2> QED BY <1>1, <2>1
<1> QED BY <1>1, <1>3, <1>4 DEF Sane, rest

LEMMA StillThere ==
  ASSUME NEW calls \in Seq(Ops), calls # <<>>
  PROVE  /\ \A m : Enables(calls, m) => Enables(Tail(calls), m) \/ (calls[1][1] = "enable" /\ calls[1][2] = m)
         /\ \A t : Selects(calls, t) => Selects(Tail(calls), t) \/ (calls[1][1] = "select" /\ calls[1][2] = t)
         /\ \A t : Removes(calls, t) => Removes(Tail(calls), t) \/ (calls[1][1] = "remove" /\ calls[1][2] = t)
         /\ Replaces(calls) => calls[1][1] # "enable" /\ (Replaces(Tail(calls)) \/ calls[1][1] = "disable")
<1> DEFINE rest == Tail(calls)
<1>1. \A i \in DOMAIN rest : i \in Nat \ {0} /\ i + 1 \in DOMAIN calls /\ rest[i] = calls[i + 1]
  BY TailOf
<1>2. \A i \in DOMAIN calls : i \in Nat \ {0} /\ (i # 1 => i - 1 \in DOMAIN rest)
  BY TailOf
<1>3. 1 \in DOMAIN calls
  BY TailOf
<1> HIDE DEF rest
<1>4. ASSUME NEW i \in DOMAIN calls, i # 1
      PROVE  \E k \in DOMAIN rest : k = i - 1 /\ rest[k] = calls[i]
  BY <1>1, <1>2, <1>4
<1>5. \A m : Enables(calls, m) => Enables(rest, m) \/ (calls[1][1] = "enable" /\ calls[1][2] = m)
  BY <1>4 DEF Enables
<1>6. \A t : Selects(calls, t) => Selects(rest, t) \/ (calls[1][1] = "select" /\ calls[1][2] = t)
  BY <1>4 DEF Selects
<1>7. \A t : Removes(calls, t) => Removes(rest, t) \/ (calls[1][1] = "remove" /\ calls[1][2] = t)
  BY <1>4 DEF Removes
<1>8. ASSUME Replaces(calls)
      PROVE  calls[1][1] # "enable" /\ (Replaces(rest) \/ calls[1][1] = "disable")
  <2>1. PICK k \in DOMAIN calls :
          calls[k][1] = "disable" /\ \A j \in DOMAIN calls : calls[j][1] = "enable" => k < j
    BY <1>8 DEF Replaces
  <2>2. calls[1][1] # "enable"
    BY <1>2, <1>3, <2>1
  <2>3. CASE k = 1
    BY <2>1, <2>2, <2>3
  <2>4. CASE k # 1
    <3>1. k - 1 \in DOMAIN rest /\ rest[k - 1] = calls[k]
      BY <1>4, <2>4
    <3>2. ASSUME NEW j \in DOMAIN rest, rest[j][1] = "enable" PROVE k - 1 < j
      BY <1>1, <1>2, <2>1, <3>2
    <3> QED BY <2>1, <2>2, <3>1, <3>2 DEF Replaces
  <2> QED BY <2>3, <2>4
<1> QED BY <1>5, <1>6, <1>7, <1>8 DEF rest
-----------------------------------------------------------------------------
(* What the scripts and the owners propose *)

LEMMA PredecessorIs ==
  ASSUME NEW seen \in Seq(Modules), IsIn(seen, V1)
  PROVE  Prev(seen, V1) \in Modules \cup {"sentinel"}
<1> DEFINE i == CHOOSE k \in DOMAIN seen : seen[k] = V1
<1>1. i \in DOMAIN seen /\ seen[i] = V1
  BY DEF IsIn
<1>2. i \in 1 .. Len(seen) /\ (i # 1 => i - 1 \in 1 .. Len(seen))
  BY <1>1
<1>3. i # 1 => seen[i - 1] \in Modules
  BY <1>2
<1>4. Prev(seen, V1) = IF i = 1 THEN "sentinel" ELSE seen[i - 1]
  BY DEF Prev
<1> HIDE DEF i
<1> QED BY <1>3, <1>4

LEMMA ArgsAre ==
  /\ {UsdcOld, PoolOld, UsdcNew, PoolNew, MultiSend} \subseteq Args
  /\ {approve, supply, withdraw} \subseteq Args
  /\ {V1, V2, Other} \subseteq Args /\ {Usdc, 0, "sentinel"} \subseteq Args
BY SetupAssumption DEF Args, Modules, SetupAssumption

LEMMA OpIs ==
  ASSUME NEW name \in Names, NEW a \in Args, NEW b \in Args
  PROVE  <<name, a, b>> \in Ops
BY DEF Ops

LEMMA OpsAre ==
  /\ <<"enable", V1, 0>> \in Ops /\ <<"enable", V2, 0>> \in Ops /\ <<"enable", Other, 0>> \in Ops
  /\ <<"setUsdcToken", Usdc, 0>> \in Ops /\ <<"setPolicy", 0, 0>> \in Ops
  /\ \A t \in {UsdcOld, PoolOld, UsdcNew, PoolNew, MultiSend} :
       /\ <<"add", t, 0>> \in Ops /\ <<"remove", t, 0>> \in Ops
       /\ \A sel \in {approve, supply, withdraw} :
            <<"select", t, sel>> \in Ops /\ <<"revoke", t, sel>> \in Ops
<1>1. ASSUME NEW a \in Args, NEW b \in Args, NEW name \in Names PROVE <<name, a, b>> \in Ops
  BY OpIs
<1> QED BY <1>1, ArgsAre DEF Names

LEMMA SetupIsWhole ==
  SetupCalls \in Seq(Ops) /\ \A ignored \in BOOLEAN : Whole("setup", SetupCalls, ignored)
<1> DEFINE c == SetupCalls
<1>1. c \in Seq(Ops) /\ DOMAIN c = {1} /\ c[1] = <<"enable", V1, 0>>
  BY OpsAre DEF SetupCalls
<1> HIDE DEF c
<1>2. Sane("setup", c)
  BY <1>1, SetupAssumption DEF Sane, SelectsAfterAdding, AddsAfterEnabling, Modules, SetupAssumption
<1> QED BY <1>1, <1>2 DEF Whole, c

LEMMA PatchIsWhole ==
  PatchCalls \in Seq(Ops) /\ \A ignored \in BOOLEAN : Whole("patch", PatchCalls, ignored)
<1> DEFINE c == PatchCalls
<1>1. /\ c \in Seq(Ops) /\ DOMAIN c = 1 .. 8
      /\ c[1] = <<"remove", UsdcOld, 0>> /\ c[2] = <<"remove", PoolOld, 0>>
      /\ c[3] = <<"setUsdcToken", Usdc, 0>>
      /\ c[4] = <<"add", UsdcNew, 0>> /\ c[5] = <<"add", PoolNew, 0>>
      /\ c[6] = <<"select", UsdcNew, approve>> /\ c[7] = <<"select", PoolNew, supply>>
      /\ c[8] = <<"select", PoolNew, withdraw>>
  BY OpsAre DEF PatchCalls
<1> HIDE DEF c
<1>2. \A i \in DOMAIN c : i \in {1, 2, 3, 4, 5, 6, 7, 8}
  BY <1>1
<1>3. \A i \in DOMAIN c : ~Manages(c[i])
  BY <1>1, <1>2 DEF Manages
<1>4. SelectsAfterAdding(c)
  <2>1. \A i \in DOMAIN c : c[i][1] = "add" => i \in {4, 5}
    BY <1>1, <1>2
  <2>2. 4 < 6 /\ c[6][1] = "select" /\ c[6][2] = c[4][2] /\ 6 \in DOMAIN c
    BY <1>1
  <2>3. 5 < 7 /\ c[7][1] = "select" /\ c[7][2] = c[5][2] /\ 7 \in DOMAIN c
    BY <1>1
  <2> QED BY <2>1, <2>2, <2>3 DEF SelectsAfterAdding
<1>5. \A i \in DOMAIN c :
        /\ c[i][1] = "select" => <<c[i][2], c[i][3]>> \in Permitted
        /\ c[i][1] = "add" => c[i][2] \notin Wrong
  <2>1. \A i \in DOMAIN c : c[i][1] = "select" => i \in {6, 7, 8}
    BY <1>1, <1>2
  <2>2. \A i \in DOMAIN c : c[i][1] = "add" => i \in {4, 5}
    BY <1>1, <1>2
  <2>3. \A i \in {6, 7, 8} : <<c[i][2], c[i][3]>> \in Permitted
    BY <1>1 DEF Permitted
  <2>4. \A i \in {4, 5} : c[i][2] \notin Wrong
    <3>1. UsdcNew \notin Wrong /\ PoolNew \notin Wrong
      BY SetupAssumption DEF Wrong, SetupAssumption
    <3> QED BY <1>1, <3>1
  <2> QED BY <2>1, <2>2, <2>3, <2>4
<1>6. Sane("patch", c)
  BY <1>3, <1>4, <1>5 DEF Sane, AddsAfterEnabling, Manages
<1>7. \A t \in Wrong : Removes(c, t)
  BY <1>1 DEF Wrong, Removes
<1> QED BY <1>1, <1>6, <1>7 DEF Whole, c

LEMMA SetupV2IsWhole ==
  ASSUME NEW seen \in Seq(Modules)
  PROVE  /\ SetupV2Calls(seen) \in Seq(Ops)
         /\ Whole("setupV2", SetupV2Calls(seen), ~IsIn(seen, V1))
<1> DEFINE c == SetupV2Calls(seen)
           n == IF IsIn(seen, V1) THEN 1 ELSE 0
<1>0. PICK rest \in Seq(Ops) :
        rest = <<<<"enable", V2, 0>>, <<"setUsdcToken", Usdc, 0>>,
                 <<"setPolicy", 0, 0>>, <<"add", UsdcOld, 0>>, <<"add", PoolOld, 0>>,
                 <<"add", MultiSend, 0>>, <<"select", UsdcOld, approve>>,
                 <<"select", PoolOld, supply>>, <<"select", PoolOld, withdraw>>>>
  <2> DEFINE literal ==
        <<<<"enable", V2, 0>>, <<"setUsdcToken", Usdc, 0>>,
          <<"setPolicy", 0, 0>>, <<"add", UsdcOld, 0>>, <<"add", PoolOld, 0>>,
          <<"add", MultiSend, 0>>, <<"select", UsdcOld, approve>>,
          <<"select", PoolOld, supply>>, <<"select", PoolOld, withdraw>>>>
  <2>1. literal \in Seq(Ops)
    BY OpsAre
  <2> HIDE DEF literal
  <2>2. \E rest \in Seq(Ops) : rest = literal
    BY <2>1
  <2> QED BY <2>2 DEF literal
<1>1. /\ c \in Seq(Ops) /\ DOMAIN c = 1 .. n + 9
      /\ n = 1 => c[1][1] = "disable" /\ c[1][3] = V1
      /\ c[n + 1] = <<"enable", V2, 0>> /\ c[n + 2] = <<"setUsdcToken", Usdc, 0>>
      /\ c[n + 3] = <<"setPolicy", 0, 0>>
      /\ c[n + 4] = <<"add", UsdcOld, 0>> /\ c[n + 5] = <<"add", PoolOld, 0>>
      /\ c[n + 6] = <<"add", MultiSend, 0>>
      /\ c[n + 7] = <<"select", UsdcOld, approve>> /\ c[n + 8] = <<"select", PoolOld, supply>>
      /\ c[n + 9] = <<"select", PoolOld, withdraw>>
  <2>1. CASE IsIn(seen, V1)
    <3>1. PICK m : m = Prev(seen, V1)
      OBVIOUS
    <3>2. m \in Args
      BY <3>1, <2>1, PredecessorIs, ArgsAre DEF Modules
    <3>3. c = <<<<"disable", m, V1>>>> \o rest
      BY <1>0, <2>1, <3>1 DEF SetupV2Calls, Disable
    <3>4. <<"disable", m, V1>> \in Ops
      BY <3>2, ArgsAre, OpIs DEF Names
    <3>5. c \in Seq(Ops) /\ Len(c) = 10 /\ c[1] = <<"disable", m, V1>> /\ \A i \in 1 .. 9 : c[i + 1] = rest[i]
      <4>1. PICK d \in Ops : d = <<"disable", m, V1>>
        BY <3>4
      <4>2. c = <<d>> \o rest /\ Len(rest) = 9
        BY <1>0, <3>3, <4>1
      <4> HIDE DEF c
      <4>3. <<d>> \in Seq(Ops) /\ Len(<<d>>) = 1
        OBVIOUS
      <4>4. c \in Seq(Ops) /\ Len(c) = 10 /\ c[1] = d /\ \A i \in 1 .. 9 : c[i + 1] = rest[i]
        BY <1>0, <4>2, <4>3
      <4> QED BY <4>1, <4>4
    <3> HIDE DEF c
    <3> QED BY <1>0, <2>1, <3>5
  <2>2. CASE ~IsIn(seen, V1)
    <3>1. c = rest
      BY <1>0, <2>2 DEF SetupV2Calls, Disable
    <3> HIDE DEF c
    <3> QED BY <1>0, <2>2, <3>1
  <2> QED BY <2>1, <2>2
<1>2. n \in {0, 1} /\ (n = 0 <=> ~IsIn(seen, V1))
  OBVIOUS
<1> HIDE DEF c, n
<1>3. \A i \in DOMAIN c :
        \/ n = 1 /\ i = 1
        \/ i \in {n + 1, n + 2, n + 3, n + 4, n + 5, n + 6, n + 7, n + 8, n + 9}
  BY <1>1, <1>2
<1>4. \A i \in DOMAIN c :
        \/ n = 1 /\ i = 1 /\ c[i][1] = "disable"
        \/ i = n + 1 /\ c[i][1] = "enable"
        \/ i = n + 2 /\ c[i][1] = "setUsdcToken"
        \/ i = n + 3 /\ c[i][1] = "setPolicy"
        \/ i \in {n + 4, n + 5, n + 6} /\ c[i][1] = "add"
        \/ i \in {n + 7, n + 8, n + 9} /\ c[i][1] = "select"
  <2>1. /\ n = 1 => c[1][1] = "disable"
        /\ c[n + 1][1] = "enable" /\ c[n + 2][1] = "setUsdcToken" /\ c[n + 3][1] = "setPolicy"
        /\ c[n + 4][1] = "add" /\ c[n + 5][1] = "add" /\ c[n + 6][1] = "add"
        /\ c[n + 7][1] = "select" /\ c[n + 8][1] = "select" /\ c[n + 9][1] = "select"
    BY <1>1
  <2> QED BY <1>3, <2>1, Zenon
<1>5. \A i \in DOMAIN c :
        /\ c[i][1] = "add" => i \in {n + 4, n + 5, n + 6}
        /\ c[i][1] = "select" => i \in {n + 7, n + 8, n + 9}
        /\ Manages(c[i]) => i = n + 1 \/ (n = 1 /\ i = 1)
  BY <1>4, Zenon DEF Manages
<1>6. SelectsAfterAdding(c)
  <2>1. n + 4 < n + 7 /\ c[n + 7][1] = "select" /\ c[n + 7][2] = c[n + 4][2] /\ n + 7 \in DOMAIN c
    BY <1>1, <1>2
  <2>2. n + 5 < n + 8 /\ c[n + 8][1] = "select" /\ c[n + 8][2] = c[n + 5][2] /\ n + 8 \in DOMAIN c
    BY <1>1, <1>2
  <2>3. c[n + 6][2] = MultiSend
    BY <1>1
  <2> QED BY <1>5, <2>1, <2>2, <2>3 DEF SelectsAfterAdding
<1>7. AddsAfterEnabling(c)
  BY <1>2, <1>5 DEF AddsAfterEnabling
<1>8. \A i \in DOMAIN c :
        /\ c[i][1] = "select" => <<c[i][2], c[i][3]>> \in Permitted
        /\ c[i][1] = "enable" => c[i][2] = V2
        /\ c[i][1] = "disable" => c[i][3] = V1
  <2>1. \A i \in DOMAIN c : c[i][1] = "select" => i \in {n + 7, n + 8, n + 9}
    BY <1>5
  <2>2. \A i \in DOMAIN c : Manages(c[i]) => i = n + 1 \/ (n = 1 /\ i = 1)
    BY <1>5
  <2>3. c[n + 1][1] = "enable" /\ c[n + 1][2] = V2
    BY <1>1
  <2>4. /\ <<c[n + 7][2], c[n + 7][3]>> \in Permitted
        /\ <<c[n + 8][2], c[n + 8][3]>> \in Permitted
        /\ <<c[n + 9][2], c[n + 9][3]>> \in Permitted
    <3>1. /\ <<UsdcOld, approve>> \in Permitted /\ <<PoolOld, supply>> \in Permitted
          /\ <<PoolOld, withdraw>> \in Permitted
      BY DEF Permitted
    <3> QED BY <1>1, <3>1
  <2>5. \A i \in DOMAIN c : c[i][1] = "select" => <<c[i][2], c[i][3]>> \in Permitted
    BY <2>1, <2>4
  <2>6. ASSUME NEW i \in DOMAIN c PROVE c[i][1] = "enable" => c[i][2] = V2
    BY <1>1, <2>2, <2>3 DEF Manages
  <2>7. ASSUME NEW i \in DOMAIN c PROVE c[i][1] = "disable" => c[i][3] = V1
    BY <1>1, <2>2, <2>3 DEF Manages
  <2> QED BY <2>5, <2>6, <2>7
<1>9. Sane("setupV2", c)
  BY <1>6, <1>7, <1>8, SetupAssumption DEF Sane, Modules, SetupAssumption
<1>10. Enables(c, V2)
  <2>1. n + 1 \in DOMAIN c
    BY <1>1, <1>2
  <2> QED BY <1>1, <2>1 DEF Enables
<1>11. n = 1 => Replaces(c)
  <2> SUFFICES ASSUME n = 1 PROVE Replaces(c)
    OBVIOUS
  <2>1. 1 \in DOMAIN c /\ c[1][1] = "disable"
    BY <1>1
  <2>2. \A j \in DOMAIN c : c[j][1] = "enable" => 1 < j
    BY <1>3, <2>1
  <2> QED BY <2>1, <2>2 DEF Replaces
<1> QED BY <1>1, <1>2, <1>9, <1>10, <1>11 DEF Whole, c

(* Whatever a script has seen of the Safe.                                 *)
LEMMA ScriptsPropose ==
  ASSUME NEW s \in Scripts, NEW seen \in Seq(Modules)
  PROVE  /\ CallsOf(s, seen) \in Seq(Ops)
         /\ Whole(s, CallsOf(s, seen), s = "setupV2" /\ ~IsIn(seen, V1))
<1>1. CASE s = "setup"
  BY <1>1, SetupIsWhole DEF CallsOf
<1>2. CASE s = "setupV2"
  BY <1>2, SetupV2IsWhole DEF CallsOf
<1>3. CASE s = "patch"
  BY <1>3, PatchIsWhole DEF CallsOf
<1> QED BY <1>1, <1>2, <1>3 DEF Scripts

OwnersCalls == {<<"enable", Other, 0>>, <<"revoke", PoolNew, supply>>}

LEMMA OwnersAreSane ==
  ASSUME NEW call \in OwnersCalls, NEW ignored
  PROVE  <<call>> \in Seq(Ops) /\ Whole("owners", <<call>>, ignored)
<1> DEFINE c == <<call>>
<1>1. call \in Ops
  BY OpsAre DEF OwnersCalls
<1>2. c \in Seq(Ops) /\ DOMAIN c = {1} /\ c[1] = call
  BY <1>1
<1>3. \/ call[1] = "enable" /\ call[2] = Other
      \/ call[1] = "revoke"
  BY DEF OwnersCalls
<1> HIDE DEF c
<1>4. Sane("owners", c)
  BY <1>2, <1>3, SetupAssumption DEF Sane, SelectsAfterAdding, AddsAfterEnabling, Modules, SetupAssumption
<1> QED BY <1>2, <1>4 DEF Whole, c
-----------------------------------------------------------------------------
(* The scripts and the owners *)

LEMMA SetupInitially == SetupInit => SetupInv
<1> SUFFICES ASSUME SetupInit PROVE SetupInv
  OBVIOUS
<1>1. /\ modules = <<>> /\ safeNonce = 0 /\ queue = {} /\ done = <<>> /\ unseen = FALSE
      /\ batch.calls = <<>> /\ batch.by = "none" /\ batch.undo = <<>> /\ ~Running
      /\ approvedTargets = {} /\ approvedSelectors = {}
  BY DEF SetupInit, Init, NoBatch, Running
<1>2. \A s \in Scripts : script[s] = Idling
  BY DEF SetupInit
<1>3. SetupTypes
  <2>1. script \in [Scripts -> Progress]
    BY DEF SetupInit, Progress, Idling
  <2>2. batch \in Batches
    BY DEF SetupInit, Batches, NoBatch
  <2>3. modules \in Seq(Modules) /\ done \in Seq(Who)
    BY <1>1
  <2> QED BY <1>1, <2>1, <2>2, <2>3 DEF SetupTypes
<1>4. Sane(batch.by, batch.calls)
  BY <1>1 DEF Sane, SelectsAfterAdding, AddsAfterEnabling
<1>5. NonceInv
  <2>1. \A s \in Scripts : script[s].at = "idle" /\ script[s].nonce <= 0
    BY <1>2 DEF Idling
  <2> QED BY <1>1, <2>1 DEF NonceInv, NoncesDiffer
<1>6. ModuleInv
  BY <1>1 DEF ModuleInv, Settled, Unrepeated, IsIn, HasRun
<1>7. AllowInv
  BY <1>1 DEF AllowInv, InOrder
<1> QED BY <1>1, <1>3, <1>4, <1>5, <1>6, <1>7 DEF SetupInv

LEMMA StaysWhole ==
  ASSUME NEW by, NEW calls, NEW u \in BOOLEAN, NEW v \in BOOLEAN, Whole(by, calls, u), u => v
  PROVE  Whole(by, calls, v)
BY DEF Whole

(* Neither the Safe nor the module changes. *)
Unmoved ==
  /\ UNCHANGED <<approvedTargets, approvedSelectors, selectorGuardEnabled>>
  /\ UNCHANGED <<modules, batch, done, safeNonce>>
  /\ unseen' \in BOOLEAN /\ (unseen => unseen')

LEMMA UnmovedKeeps ==
  ASSUME SetupInv, Unmoved
  PROVE  Sane(batch'.by, batch'.calls) /\ ModuleInv' /\ AllowInv'
<1>1. Explained => Explained'
  BY DEF Unmoved, Explained, InOrder
<1>2. \A ms : Settled(ms) => Settled(ms)'
  BY <1>1 DEF Unmoved, Settled, HasRun
<1>3. ModuleInv'
  BY <1>1, <1>2 DEF SetupInv, ModuleInv, Unmoved, Running, Partway
<1>4. AllowInv'
  BY DEF SetupInv, AllowInv, Unmoved, Guarded, InOrder
<1> QED BY <1>3, <1>4 DEF SetupInv, Unmoved

(* A step that leaves the queue as it is, and moves one script.            *)
LEMMA ScriptMoves ==
  ASSUME SetupInv, Unmoved, queue' = queue, NEW s \in Scripts, NEW next \in Progress,
         script' = [script EXCEPT ![s] = next],
         next.at = "read" => next.from <= safeNonce,
         next.at = "post" /\ ~next.careless => \A p \in queue : p.careless \/ p.nonce < next.nonce
  PROVE  SetupInv'
<1>1. SetupTypes /\ NonceInv
  BY DEF SetupInv
<1>2. SetupTypes'
  BY <1>1 DEF SetupTypes, Unmoved, Running
<1>3. \A t \in Scripts : script'[t] = IF t = s THEN next ELSE script[t]
  BY <1>1 DEF SetupTypes
<1>4. \E b \in Nat : /\ \A p \in queue' : p.nonce <= b
                     /\ \A t \in Scripts : script'[t].nonce <= b
  <2>1. PICK b \in Nat : /\ \A p \in queue : p.nonce <= b
                         /\ \A t \in Scripts : script[t].nonce <= b
    BY <1>1 DEF NonceInv
  <2>2. next.nonce \in Nat /\ \A t \in Scripts : script[t].nonce \in Nat
    BY <1>1 DEF Progress, SetupTypes
  <2>3. \A p \in queue : p.nonce \in Nat
    BY <1>1 DEF Proposals, SetupTypes
  <2>4. b + next.nonce \in Nat /\ \A p \in queue : p.nonce <= b + next.nonce
    BY <2>1, <2>2, <2>3
  <2>5. \A t \in Scripts : script'[t].nonce <= b + next.nonce
    BY <1>3, <2>1, <2>2
  <2> QED BY <2>4, <2>5
<1>5. NonceInv'
  BY <1>1, <1>3, <1>4 DEF NonceInv, Unmoved, NoncesDiffer
<1>6. \A p \in queue' : Whole(p.by, p.calls, unseen')
  BY StaysWhole DEF SetupInv, Unmoved, SetupTypes
<1> QED BY <1>2, <1>5, <1>6, UnmovedKeeps DEF SetupInv

LEMMA ScriptRecords ==
  ASSUME NEW at \in {"idle", "read", "post"}, NEW seen \in Seq(Modules), NEW from \in Nat,
         NEW nonce \in Nat, NEW careless \in BOOLEAN
  PROVE  [at |-> at, seen |-> seen, from |-> from, nonce |-> nonce, careless |-> careless]
           \in Progress
BY DEF Progress

LEMMA ScriptIsUnmoved ==
  ASSUME SetupInv, Script, unseen' = unseen
  PROVE  Unmoved /\ queue' = queue
BY DEF SetupInv, SetupTypes, Script, Unmoved, vars, contractVars, safeVars

LEMMA RecordSafeRead ==
  ASSUME NEW i \in Progress, NEW seen \in Seq(Modules), NEW from \in Nat
  PROVE  [i EXCEPT !.at = "read", !.seen = seen, !.from = from]
           = [at |-> "read", seen |-> seen, from |-> from, nonce |-> i.nonce,
              careless |-> i.careless]
<1>1. i = [at |-> i.at, seen |-> i.seen, from |-> i.from, nonce |-> i.nonce, careless |-> i.careless]
  BY DEF Progress
<1>2. PICK m \in Progress : m = [at |-> "read", seen |-> i.seen, from |-> i.from,
                                 nonce |-> i.nonce, careless |-> i.careless]
  BY DEF Progress
<1>3. PICK n \in Progress : n = [at |-> "read", seen |-> seen, from |-> i.from,
                                 nonce |-> i.nonce, careless |-> i.careless]
  BY DEF Progress
<1>4. PICK r \in Progress : r = [at |-> "read", seen |-> seen, from |-> from,
                                 nonce |-> i.nonce, careless |-> i.careless]
  BY DEF Progress
<1>5. [i EXCEPT !.at = "read"] = m
  BY <1>1, <1>2
<1>6. [m EXCEPT !.seen = seen] = n
  BY <1>2, <1>3
<1>7. [n EXCEPT !.from = from] = r
  BY <1>3, <1>4
<1>8. [i EXCEPT !.at = "read", !.seen = seen, !.from = from]
        = [[[i EXCEPT !.at = "read"] EXCEPT !.seen = seen] EXCEPT !.from = from]
  BY Zenon
<1>9. [i EXCEPT !.at = "read", !.seen = seen, !.from = from] = r
  BY <1>5, <1>6, <1>7, <1>8, Zenon
<1> QED BY <1>4, <1>9, Zenon

LEMMA RecordQueueRead ==
  ASSUME NEW r \in Progress, NEW nonce \in Nat, NEW flag \in BOOLEAN
  PROVE  /\ [r EXCEPT !.at = "post", !.nonce = nonce]
              = [at |-> "post", seen |-> r.seen, from |-> r.from, nonce |-> nonce,
                 careless |-> r.careless]
         /\ [r EXCEPT !.at = "post", !.nonce = nonce, !.careless = flag]
              = [at |-> "post", seen |-> r.seen, from |-> r.from, nonce |-> nonce,
                 careless |-> flag]
<1>1. r = [at |-> r.at, seen |-> r.seen, from |-> r.from, nonce |-> r.nonce, careless |-> r.careless]
  BY DEF Progress
<1>2. PICK m \in Progress : m = [at |-> "post", seen |-> r.seen, from |-> r.from,
                                 nonce |-> r.nonce, careless |-> r.careless]
  BY DEF Progress
<1>3. PICK n \in Progress : n = [at |-> "post", seen |-> r.seen, from |-> r.from,
                                 nonce |-> nonce, careless |-> r.careless]
  BY DEF Progress
<1>4. PICK c \in Progress : c = [at |-> "post", seen |-> r.seen, from |-> r.from,
                                 nonce |-> nonce, careless |-> flag]
  BY DEF Progress
<1>5. [r EXCEPT !.at = "post"] = m
  BY <1>1, <1>2
<1>6. [m EXCEPT !.nonce = nonce] = n
  BY <1>2, <1>3
<1>7. [n EXCEPT !.careless = flag] = c
  BY <1>3, <1>4
<1>8. [r EXCEPT !.at = "post", !.nonce = nonce] = [[r EXCEPT !.at = "post"] EXCEPT !.nonce = nonce]
  BY Zenon
<1>9. [r EXCEPT !.at = "post", !.nonce = nonce, !.careless = flag]
        = [[[r EXCEPT !.at = "post"] EXCEPT !.nonce = nonce] EXCEPT !.careless = flag]
  BY Zenon
<1>10. [r EXCEPT !.at = "post", !.nonce = nonce] = n
       /\ [r EXCEPT !.at = "post", !.nonce = nonce, !.careless = flag] = c
  BY <1>5, <1>6, <1>7, <1>8, <1>9, Zenon
<1> QED BY <1>3, <1>4, <1>10, Zenon

LEMMA ReadSafeKeeps ==
  ASSUME SetupInv, NEW s \in Scripts, ReadSafe(s)
  PROVE  SetupInv'
<1> DEFINE next == [at |-> "read", seen |-> modules, from |-> safeNonce, nonce |-> 0,
                    careless |-> FALSE]
<1>1. Script /\ unseen' = unseen
      /\ script' = [script EXCEPT ![s] =
           [Idling EXCEPT !.at = "read", !.seen = modules, !.from = safeNonce]]
  BY DEF ReadSafe
<1>2. [Idling EXCEPT !.at = "read", !.seen = modules, !.from = safeNonce] = next
  <2>1. PICK i \in Progress : i = Idling /\ i.nonce = 0 /\ i.careless = FALSE
    <3>1. <<>> \in Seq(Modules) /\ 0 \in Nat
      OBVIOUS
    <3> QED BY <3>1, ScriptRecords DEF Idling
  <2>2. modules \in Seq(Modules) /\ safeNonce \in Nat
    BY DEF SetupInv, SetupTypes
  <2>3. [i EXCEPT !.at = "read", !.seen = modules, !.from = safeNonce]
          = [at |-> "read", seen |-> modules, from |-> safeNonce, nonce |-> i.nonce,
             careless |-> i.careless]
    BY <2>2, RecordSafeRead
  <2> QED BY <2>1, <2>3, Zenon
<1>3. next \in Progress
  BY DEF SetupInv, SetupTypes, Progress
<1>4. script' = [script EXCEPT ![s] = next]
  BY <1>1, <1>2
<1>5. next.at = "read" /\ next.from = safeNonce /\ safeNonce <= safeNonce
  BY DEF SetupInv, SetupTypes
<1> HIDE DEF next
<1> QED BY <1>1, <1>3, <1>4, <1>5, ScriptIsUnmoved, ScriptMoves

LEMMA ReadQueueKeeps ==
  ASSUME SetupInv, NEW s \in Scripts, ReadQueue(s)
  PROVE  SetupInv'
<1>1. PICK r \in Progress : r = script[s]
  BY DEF SetupInv, SetupTypes
<1>2. Script /\ unseen' = unseen /\ r.at = "read"
  BY <1>1 DEF ReadQueue
<1>3. /\ r.from \in Nat /\ r.from <= safeNonce /\ queue \subseteq Proposals
      /\ \A p \in queue : p.nonce >= safeNonce /\ p.nonce \in Nat
  BY <1>1, <1>2 DEF SetupInv, SetupTypes, NonceInv, Progress, Proposals
<1>4. safeNonce \in Nat
  BY DEF SetupInv, SetupTypes
<1> DEFINE next(nonce, careless) ==
      [at |-> "post", seen |-> r.seen, from |-> r.from, nonce |-> nonce, careless |-> careless]
<1>5. ASSUME NEW nonce \in Nat, NEW careless \in BOOLEAN
      PROVE  next(nonce, careless) \in Progress
  BY DEF Progress
<1>7. CASE script' = [script EXCEPT ![s].at = "post",
                                    ![s].nonce = NextNonce(script[s].from, Pending(s))]
  <2>1. PICK nonce : nonce = NextNonce(r.from, Pending(s))
    OBVIOUS
  <2>2. \A p \in queue : p \in Pending(s)
    BY <1>1, <1>3, <1>4 DEF Pending
  <2>3. PICK b \in Nat : \A p \in queue : p.nonce <= b
    BY DEF SetupInv, NonceInv
  <2>4. Pending(s) \subseteq queue
    BY DEF Pending
  <2>5. nonce \in Nat /\ \A p \in queue : p.nonce < nonce
    BY <1>3, <2>1, <2>2, <2>3, <2>4, NonceIsNext
  <2>6. [r EXCEPT !.at = "post", !.nonce = nonce] = next(nonce, r.careless)
    BY <2>5, RecordQueueRead
  <2>7. script' = [script EXCEPT ![s] = [r EXCEPT !.at = "post", !.nonce = nonce]]
    <3>1. script \in [Scripts -> Progress]
      BY DEF SetupInv, SetupTypes
    <3> QED BY <1>1, <1>7, <2>1, <3>1
  <2>8. script' = [script EXCEPT ![s] = next(nonce, r.careless)]
    BY <2>6, <2>7
  <2>9. next(nonce, r.careless) \in Progress
    BY <1>5, <2>5 DEF Progress
  <2>10. next(nonce, r.careless).at = "post" /\ next(nonce, r.careless).nonce = nonce
    OBVIOUS
  <2> HIDE DEF next
  <2> QED BY <1>2, <2>5, <2>8, <2>9, <2>10, ScriptIsUnmoved, ScriptMoves
<1>8. CASE script' = [script EXCEPT ![s].at = "post", ![s].nonce = script[s].from,
                                    ![s].careless = TRUE]
  <2>6. [r EXCEPT !.at = "post", !.nonce = r.from, !.careless = TRUE] = next(r.from, TRUE)
    BY <1>3, RecordQueueRead
  <2>7. script' = [script EXCEPT ![s] = [r EXCEPT !.at = "post", !.nonce = r.from, !.careless = TRUE]]
    <3>1. script \in [Scripts -> Progress]
      BY DEF SetupInv, SetupTypes
    <3> QED BY <1>1, <1>8, <3>1
  <2>8. script' = [script EXCEPT ![s] = next(r.from, TRUE)]
    BY <2>6, <2>7
  <2>9. next(r.from, TRUE) \in Progress
    BY <1>3, <1>5
  <2>10. next(r.from, TRUE).at = "post" /\ next(r.from, TRUE).careless
    OBVIOUS
  <2> HIDE DEF next
  <2> QED BY <1>2, <2>8, <2>9, <2>10, ScriptIsUnmoved, ScriptMoves
<1> QED BY <1>7, <1>8 DEF ReadQueue

LEMMA DryRunKeeps ==
  ASSUME SetupInv, NEW s \in Scripts, DryRun(s)
  PROVE  SetupInv'
<1>1. Script /\ unseen' = unseen /\ script' = [script EXCEPT ![s] = Idling]
  BY DEF DryRun
<1>2. Idling \in Progress /\ Idling.at = "idle"
  BY DEF Idling, Progress
<1> QED BY <1>1, <1>2, ScriptIsUnmoved, ScriptMoves
(* A proposal that joins the queue, its nonce not used up: where somebody  *)
(* may have missed it, this is known of one of the two.                    *)
LEMMA QueueGrows ==
  ASSUME SetupInv, Unmoved, NEW p \in Proposals, queue' = queue \cup {p},
         Whole(p.by, p.calls, unseen'), p.nonce >= safeNonce,
         p.careless \/ \A q \in queue : q.careless \/ q.nonce < p.nonce,
         script' \in [Scripts -> Progress],
         \A t \in Scripts :
           /\ script'[t].nonce \in {0, script[t].nonce}
           /\ script'[t].at = "read" => script[t].at = "read" /\ script'[t].from = script[t].from
           /\ script'[t].at = "post" /\ ~script'[t].careless =>
                /\ script[t].at = "post" /\ ~script[t].careless
                /\ script'[t].nonce = script[t].nonce /\ p.careless
  PROVE  SetupInv'
<1>1. SetupTypes /\ NonceInv
  BY DEF SetupInv
<1>2. SetupTypes'
  BY <1>1 DEF SetupTypes, Unmoved, Running
<1>3. \A q \in queue' : q.nonce >= safeNonce'
  BY <1>1 DEF NonceInv, Unmoved
<1>4. ASSUME NEW t \in Scripts
      PROVE  /\ script'[t].at = "read" => script'[t].from <= safeNonce'
             /\ script'[t].at = "post" /\ ~script'[t].careless =>
                  \A q \in queue' : q.careless \/ q.nonce < script'[t].nonce
  BY <1>1 DEF NonceInv, Unmoved
<1>5. \E b \in Nat : /\ \A q \in queue' : q.nonce <= b
                     /\ \A t \in Scripts : script'[t].nonce <= b
  <2>1. PICK b \in Nat : /\ \A q \in queue : q.nonce <= b
                         /\ \A t \in Scripts : script[t].nonce <= b
    BY <1>1 DEF NonceInv
  <2>2. p.nonce \in Nat /\ \A q \in queue : q.nonce \in Nat
    BY <1>1 DEF Proposals, SetupTypes
  <2>3. \A t \in Scripts : script[t].nonce \in Nat
    BY <1>1 DEF Progress, SetupTypes
  <2>4. b + p.nonce \in Nat /\ \A q \in queue' : q.nonce <= b + p.nonce
    BY <2>1, <2>2
  <2>5. \A t \in Scripts : script'[t].nonce <= b + p.nonce
    BY <2>1, <2>2, <2>3
  <2> QED BY <2>4, <2>5
<1>6. NoncesDiffer'
  <2> SUFFICES ASSUME NEW q \in queue', NEW r \in queue', q # r, q.nonce = r.nonce
               PROVE  q.careless \/ r.careless
    BY DEF NoncesDiffer
  <2>1. p.nonce \in Nat /\ \A o \in queue : o.nonce \in Nat
    BY <1>1 DEF Proposals, SetupTypes
  <2>2. CASE q \in queue /\ r \in queue
    BY <1>1, <2>2 DEF NonceInv, NoncesDiffer
  <2>3. CASE q = p /\ r \in queue
    BY <2>1, <2>3
  <2>4. CASE q \in queue /\ r = p
    BY <2>1, <2>4
  <2> QED BY <2>2, <2>3, <2>4
<1>7. NonceInv'
  BY <1>3, <1>4, <1>5, <1>6 DEF NonceInv
<1>8. \A q \in queue' : Whole(q.by, q.calls, unseen')
  BY StaysWhole DEF SetupInv, Unmoved, SetupTypes
<1> QED BY <1>2, <1>7, <1>8, UnmovedKeeps DEF SetupInv

LEMMA PostKeeps ==
  ASSUME SetupInv, NEW s \in Scripts, Post(s)
  PROVE  SetupInv'
<1>1. /\ script[s].at = "post"
      /\ IF Refused(s)
         THEN UNCHANGED <<queue, unseen>>
         ELSE /\ queue' = queue \cup {Proposal(s)}
              /\ unseen' = (unseen \/ (s = "setupV2" /\ ~IsIn(script[s].seen, V1)))
      /\ UNCHANGED <<vars, modules, safeNonce, batch, done>>
  BY DEF Post
<1>2. script \in [Scripts -> Progress] /\ unseen \in BOOLEAN /\ SetupTypes /\ NonceInv
  BY DEF SetupInv, SetupTypes
<1>3. Idling \in Progress /\ Idling.at = "idle" /\ Idling.nonce = 0
  BY DEF Idling, Progress
<1>4. ASSUME NEW t \in Scripts
      PROVE  /\ script'[t] \in Progress
             /\ t = s => script'[t] = Idling
             /\ t # s => /\ script'[t].at = script[t].at /\ script'[t].from = script[t].from
                         /\ script'[t].nonce = script[t].nonce
                         /\ script[t].at = "post" => script'[t].careless
  <2>1. script'[t] = IF t = s THEN Idling
                     ELSE [script[t] EXCEPT !.careless = script[t].careless \/ script[t].at = "post"]
    BY DEF Post
  <2>2. PICK r \in Progress : r = script[t]
    BY <1>2
  <2>3. PICK c \in BOOLEAN : c = (r.careless \/ r.at = "post")
    BY <2>2 DEF Progress
  <2>4. t # s => script'[t] = [r EXCEPT !.careless = c]
    BY <2>1, <2>2, <2>3, Zenon
  <2>5. PICK m \in Progress : m = [r EXCEPT !.careless = c]
    BY DEF Progress
  <2>6. m.at = r.at /\ m.from = r.from /\ m.nonce = r.nonce /\ (r.at = "post" => m.careless)
    BY <2>3, <2>5 DEF Progress
  <2> QED BY <1>3, <2>1, <2>2, <2>4, <2>5, <2>6
<1>5. script' \in [Scripts -> Progress]
  <2>1. script' = [t \in Scripts |-> script'[t]]
    BY DEF Post
  <2> QED BY <1>4, <2>1
<1>6. CASE Refused(s)
  <2>1. Unmoved /\ queue' = queue
    BY <1>1, <1>2, <1>6 DEF Unmoved, vars, contractVars
  <2>2. SetupTypes'
    BY <1>2, <1>5, <2>1 DEF SetupTypes, Unmoved, Running
  <2>3. \E b \in Nat : /\ \A q \in queue' : q.nonce <= b
                       /\ \A t \in Scripts : script'[t].nonce <= b
    <3>1. PICK b \in Nat : /\ \A q \in queue : q.nonce <= b
                           /\ \A t \in Scripts : script[t].nonce <= b
      BY <1>2 DEF NonceInv
    <3>2. \A t \in Scripts : script'[t].nonce <= b
      BY <1>3, <1>4, <3>1
    <3> QED BY <2>1, <3>1, <3>2
  <2>4. NonceInv'
    BY <1>2, <1>3, <1>4, <2>1, <2>3 DEF NonceInv, Unmoved, NoncesDiffer
  <2>5. \A q \in queue' : Whole(q.by, q.calls, unseen')
    BY <2>1, StaysWhole DEF SetupInv, Unmoved, SetupTypes
  <2> QED BY <2>1, <2>2, <2>4, <2>5, UnmovedKeeps DEF SetupInv
<1>7. CASE ~Refused(s)
  <2>1. PICK r \in Progress : r = script[s]
    BY <1>2
  <2>2. PICK v \in BOOLEAN : v = (s = "setupV2" /\ ~IsIn(r.seen, V1))
    OBVIOUS
  <2>3. Unmoved /\ (v => unseen') /\ unseen' \in BOOLEAN
    BY <1>1, <1>2, <1>7, <2>1, <2>2 DEF Unmoved, vars, contractVars
  <2>4. CallsOf(s, r.seen) \in Seq(Ops) /\ Whole(s, CallsOf(s, r.seen), v)
    BY <2>2, ScriptsPropose DEF Progress
  <2>5. PICK p \in Proposals : p = Proposal(s) /\ p.by = s /\ p.calls = CallsOf(s, r.seen)
                               /\ p.nonce = r.nonce /\ p.careless = r.careless
    <3>1. PICK c \in Seq(Ops) : c = CallsOf(s, r.seen)
      BY <2>4
    <3>2. r.nonce \in Nat /\ r.careless \in BOOLEAN /\ s \in Who
      BY DEF Progress, Who
    <3>3. PICK p \in Proposals : p = [nonce |-> r.nonce, by |-> s, calls |-> c, careless |-> r.careless]
      BY <3>2 DEF Proposals
    <3>4. Proposal(s) = p
      BY <2>1, <3>1, <3>3 DEF Proposal
    <3>5. p.nonce = r.nonce /\ p.by = s /\ p.calls = c /\ p.careless = r.careless
      BY <3>3
    <3> QED BY <3>1, <3>4, <3>5
  <2>6. Whole(p.by, p.calls, unseen')
    BY <2>3, <2>4, <2>5, StaysWhole
  <2>7. p.nonce >= safeNonce
    BY <1>2, <1>7, <2>5 DEF Refused, SetupTypes, Proposals
  <2>8. p.careless \/ \A q \in queue : q.careless \/ q.nonce < p.nonce
    BY <1>1, <1>2, <2>1, <2>5 DEF NonceInv
  <2>9. queue' = queue \cup {p}
    BY <1>1, <1>7, <2>5
  <2> QED BY <1>3, <1>4, <1>5, <2>3, <2>6, <2>7, <2>8, <2>9, QueueGrows
<1> QED BY <1>6, <1>7

LEMMA OwnersProposeKeeps ==
  ASSUME SetupInv, NEW nonce \in 0 .. MaxNonce - 1, NEW call \in OwnersCalls,
         OwnersPropose(nonce, call)
  PROVE  SetupInv'
<1>1. script \in [Scripts -> Progress] /\ unseen \in BOOLEAN
  BY DEF SetupInv, SetupTypes
<1>2. Unmoved /\ script' = script /\ unseen' = unseen
  BY <1>1 DEF OwnersPropose, Unmoved, vars, contractVars
<1>3. <<call>> \in Seq(Ops) /\ Whole("owners", <<call>>, unseen)
  BY OwnersAreSane
<1>4. PICK c \in Seq(Ops) : c = <<call>>
  BY <1>3
<1>5. nonce \in Nat
  BY SetupAssumption DEF SetupAssumption
<1>6. PICK p \in Proposals : p = [nonce |-> nonce, by |-> "owners", calls |-> c, careless |-> TRUE]
  BY <1>5 DEF Proposals, Who
<1>7. p.by = "owners" /\ p.calls = c /\ p.careless /\ p.nonce = nonce
  BY <1>6
<1>8. queue' = queue \cup {p} /\ nonce >= safeNonce
  BY <1>4, <1>6 DEF OwnersPropose
<1>9. Whole(p.by, p.calls, unseen')
  BY <1>2, <1>3, <1>4, <1>7
<1> QED BY <1>1, <1>2, <1>7, <1>8, <1>9, QueueGrows
-----------------------------------------------------------------------------
(* The list of modules *)

LEMMA LinkedEffect ==
  ASSUME NEW ms \in Seq(Modules), Unrepeated(ms), NEW m \in Modules, ~IsIn(ms, m)
  PROVE  /\ <<m>> \o ms \in Seq(Modules) /\ Unrepeated(<<m>> \o ms)
         /\ \A x : IsIn(<<m>> \o ms, x) <=> x = m \/ IsIn(ms, x)
<1> DEFINE new == <<m>> \o ms
<1>1. /\ new \in Seq(Modules) /\ Len(new) = Len(ms) + 1 /\ new[1] = m
      /\ \A i \in 1 .. Len(ms) : new[i + 1] = ms[i]
  OBVIOUS
<1>2. DOMAIN new = 1 .. Len(ms) + 1 /\ DOMAIN ms = 1 .. Len(ms) /\ Len(ms) \in Nat
  BY <1>1
<1> HIDE DEF new
<1>3. \A i \in DOMAIN new : i = 1 \/ (i - 1 \in DOMAIN ms /\ new[i] = ms[i - 1])
  <2> SUFFICES ASSUME NEW i \in DOMAIN new, i # 1 PROVE i - 1 \in DOMAIN ms /\ new[i] = ms[i - 1]
    OBVIOUS
  <2>1. i - 1 \in 1 .. Len(ms) /\ (i - 1) + 1 = i
    BY <1>2
  <2> QED BY <1>1, <1>2, <2>1
<1>4. \A i \in DOMAIN ms : i + 1 \in DOMAIN new /\ new[i + 1] = ms[i]
  BY <1>1, <1>2
<1>5. Unrepeated(new)
  <2> SUFFICES ASSUME NEW i \in DOMAIN new, NEW j \in DOMAIN new, new[i] = new[j] PROVE i = j
    BY DEF Unrepeated
  <2>1. i \in Int /\ j \in Int
    BY <1>2
  <2>2. CASE i # 1 /\ j # 1
    <3>1. i - 1 = j - 1
      BY <1>3, <2>2 DEF Unrepeated
    <3> QED BY <2>1, <3>1
  <2>3. CASE i = 1 /\ j # 1
    BY <1>1, <1>3, <2>3 DEF IsIn
  <2>4. CASE i # 1 /\ j = 1
    BY <1>1, <1>3, <2>4 DEF IsIn
  <2> QED BY <2>2, <2>3, <2>4
<1>6. \A x : IsIn(new, x) <=> x = m \/ IsIn(ms, x)
  <2>1. ASSUME NEW x, IsIn(new, x) PROVE x = m \/ IsIn(ms, x)
    BY <1>1, <1>3, <2>1 DEF IsIn
  <2>2. 1 \in DOMAIN new
    BY <1>2
  <2>3. ASSUME NEW x, x = m \/ IsIn(ms, x) PROVE IsIn(new, x)
    BY <1>1, <1>4, <2>2, <2>3 DEF IsIn
  <2> QED BY <2>1, <2>3
<1> QED BY <1>1, <1>5, <1>6 DEF new

LEMMA UnlinkedEffect ==
  ASSUME NEW ms \in Seq(Modules), Unrepeated(ms), NEW m, IsIn(ms, m)
  PROVE  /\ Unlinked(ms, m) \in Seq(Modules) /\ Unrepeated(Unlinked(ms, m))
         /\ \A x : IsIn(Unlinked(ms, m), x) <=> x # m /\ IsIn(ms, x)
<1> DEFINE new == Unlinked(ms, m)
<1>1. PICK i \in DOMAIN ms :
        ms[i] = m /\ new = [k \in 1 .. Len(ms) - 1 |-> IF k < i THEN ms[k] ELSE ms[k + 1]]
  <2> DEFINE c == CHOOSE k \in DOMAIN ms : ms[k] = m
  <2>1. c \in DOMAIN ms /\ ms[c] = m
    BY DEF IsIn
  <2>2. new = [k \in 1 .. Len(ms) - 1 |-> IF k < c THEN ms[k] ELSE ms[k + 1]]
    BY DEF Unlinked
  <2> HIDE DEF c
  <2> QED BY <2>1, <2>2
<1>2. DOMAIN ms = 1 .. Len(ms) /\ Len(ms) \in Nat /\ i \in 1 .. Len(ms) /\ i \in Nat
  OBVIOUS
<1> HIDE DEF new
<1>3. DOMAIN new = 1 .. Len(ms) - 1
  BY <1>1
<1>4. ASSUME NEW k \in DOMAIN new
      PROVE  /\ k \in Nat
             /\ k < i => k \in DOMAIN ms /\ new[k] = ms[k]
             /\ ~(k < i) => k + 1 \in DOMAIN ms /\ new[k] = ms[k + 1]
  BY <1>1, <1>2, <1>3
<1>5. new \in Seq(Modules)
  <2>1. \A k \in 1 .. Len(ms) - 1 : new[k] \in Modules
    BY <1>2, <1>3, <1>4
  <2>2. new \in [1 .. Len(ms) - 1 -> Modules]
    BY <1>1, <2>1
  <2>3. Len(ms) - 1 \in Nat
    BY <1>2
  <2> QED BY <2>2, <2>3
<1>6. Unrepeated(new)
  <2> SUFFICES ASSUME NEW k \in DOMAIN new, NEW l \in DOMAIN new, new[k] = new[l] PROVE k = l
    BY DEF Unrepeated
  <2>1. CASE k < i /\ l < i
    BY <1>4, <2>1 DEF Unrepeated
  <2>2. CASE k < i /\ ~(l < i)
    <3>1. k = l + 1
      BY <1>4, <2>2 DEF Unrepeated
    <3> QED BY <1>2, <1>4, <2>2, <3>1
  <2>3. CASE ~(k < i) /\ l < i
    <3>1. k + 1 = l
      BY <1>4, <2>3 DEF Unrepeated
    <3> QED BY <1>2, <1>4, <2>3, <3>1
  <2>4. CASE ~(k < i) /\ ~(l < i)
    <3>1. k + 1 = l + 1
      BY <1>4, <2>4 DEF Unrepeated
    <3> QED BY <1>4, <3>1
  <2> QED BY <2>1, <2>2, <2>3, <2>4
<1>7. ASSUME NEW x, IsIn(new, x) PROVE x # m /\ IsIn(ms, x)
  <2>1. PICK k \in DOMAIN new : new[k] = x
    BY <1>7 DEF IsIn
  <2>2. PICK l \in DOMAIN ms : ms[l] = x /\ l # i
    <3>1. CASE k < i
      BY <1>2, <1>4, <2>1, <3>1
    <3>2. CASE ~(k < i)
      BY <1>2, <1>4, <2>1, <3>2
    <3> QED BY <3>1, <3>2
  <2> QED BY <1>1, <2>2 DEF Unrepeated, IsIn
<1>8. ASSUME NEW x, x # m, IsIn(ms, x) PROVE IsIn(new, x)
  <2>1. PICK l \in DOMAIN ms : ms[l] = x
    BY <1>8 DEF IsIn
  <2>2. l # i /\ l \in Nat
    BY <1>1, <1>2, <1>8, <2>1
  <2>3. CASE l < i
    <3>1. l \in DOMAIN new
      BY <1>2, <1>3, <2>1, <2>3
    <3> QED BY <1>4, <2>1, <2>3, <3>1 DEF IsIn
  <2>4. CASE l > i
    <3>1. l - 1 \in DOMAIN new /\ ~(l - 1 < i) /\ (l - 1) + 1 = l
      BY <1>2, <1>3, <2>1, <2>4
    <3> QED BY <1>4, <2>1, <3>1 DEF IsIn
  <2> QED BY <1>2, <2>2, <2>3, <2>4
<1> QED BY <1>5, <1>6, <1>7, <1>8 DEF new
-----------------------------------------------------------------------------
(* The Safe *)

(* A step of the Safe within a batch leaves scripts and queue alone.       *)
LEMMA WithinBatch ==
  ASSUME SetupInv, UNCHANGED <<safeNonce, queue, script, done, unseen>>,
         modules' \in Seq(Modules), batch' \in Batches, Running' => batch'.by \in Who
  PROVE  /\ SetupTypes' /\ NonceInv' /\ \A p \in queue' : Whole(p.by, p.calls, unseen')
         /\ Explained' = Explained /\ (\A s : HasRun(s)' = HasRun(s))
         /\ (\A s, t : InOrder(s, t)' = InOrder(s, t))
         /\ (\A ms : Settled(ms)' = Settled(ms))
<1>1. Explained' = Explained /\ (\A s : HasRun(s)' = HasRun(s))
      /\ (\A s, t : InOrder(s, t)' = InOrder(s, t))
  BY DEF Explained, HasRun, InOrder
<1>2. \A ms : Settled(ms)' = Settled(ms)
  BY <1>1 DEF Settled
<1> QED BY <1>1, <1>2 DEF SetupInv, SetupTypes, NonceInv, NoncesDiffer

LEMMA Named == ASSUME SetupTypes, batch.by \in Who PROVE Running
BY DEF Running, NoBatch, Who, Scripts

LEMMA BeginKeeps ==
  ASSUME SetupInv, NEW p \in queue, BeginBatch(p)
  PROVE  SetupInv'
<1>1. /\ ~Running /\ batch' = [calls |-> p.calls, by |-> p.by, undo |-> modules]
      /\ UNCHANGED <<modules, safeNonce, queue, script, done, unseen>>
      /\ UNCHANGED <<approvedTargets, approvedSelectors, selectorGuardEnabled>>
  BY DEF BeginBatch, safeVars, vars, contractVars
<1>2. p \in Proposals /\ modules \in Seq(Modules) /\ Whole(p.by, p.calls, unseen)
  BY DEF SetupInv, SetupTypes
<1>3. batch' \in Batches /\ batch'.by = p.by /\ batch'.calls = p.calls /\ batch'.undo = modules
      /\ p.by \in Who
  BY <1>1, <1>2 DEF Batches, Proposals
<1>4. /\ SetupTypes' /\ NonceInv' /\ \A q \in queue' : Whole(q.by, q.calls, unseen')
      /\ Explained' = Explained
      /\ (\A s, t : InOrder(s, t)' = InOrder(s, t))
      /\ (\A ms : Settled(ms)' = Settled(ms))
  BY <1>1, <1>2, <1>3, WithinBatch
<1>5. Running'
  BY <1>3, <1>4, Named DEF Running, NoBatch, Who, Scripts
<1>6. batch.calls = <<>>
  BY <1>1 DEF Running, NoBatch
<1>7. ModuleInv'
  <2>1. Settled(modules)
    BY <1>1 DEF SetupInv, ModuleInv
  <2>2. batch'.by = "setupV2" => Enables(batch'.calls, V2) /\ (unseen \/ Replaces(batch'.calls))
    BY <1>2, <1>3 DEF Whole
  <2>3. Partway'
    BY <1>1, <1>3, <1>4, <2>2 DEF Partway, Explained
  <2>4. Unrepeated(modules')
    BY <1>1, <2>1 DEF Settled
  <2>5. Settled(batch.undo)'
    BY <1>3, <1>4, <2>1 DEF Settled
  <2> QED BY <1>5, <2>3, <2>4, <2>5 DEF ModuleInv
<1>8. AllowInv'
  <2>1. \A t \in approvedTargets : Guarded(t)
    BY <1>6 DEF SetupInv, AllowInv, Selects
  <2>2. \A t \in approvedTargets' : Guarded(t)'
    BY <1>1, <2>1 DEF Guarded
  <2>3. p.by = "patch" => \A t \in Wrong : Removes(p.calls, t)
    BY <1>2 DEF Whole
  <2> QED BY <1>1, <1>3, <1>4, <2>2, <2>3 DEF SetupInv, AllowInv
<1> QED BY <1>2, <1>3, <1>4, <1>7, <1>8 DEF SetupInv, Whole

LEMMA FailKeeps ==
  ASSUME SetupInv, FailCall
  PROVE  SetupInv'
<1>1. /\ Running /\ batch.calls # <<>> /\ Fails(Head(batch.calls))
      /\ batch' = NoBatch /\ modules' = batch.undo
      /\ UNCHANGED <<safeNonce, queue, script, done, unseen>>
      /\ UNCHANGED <<approvedTargets, approvedSelectors, selectorGuardEnabled>>
  BY DEF FailCall, Undo, vars, contractVars
<1>2. batch'.by = "none" /\ batch'.calls = <<>> /\ ~Running'
  BY <1>1 DEF NoBatch, Running
<1>3. batch \in Batches /\ Settled(batch.undo)
  BY <1>1 DEF SetupInv, SetupTypes, ModuleInv
<1>4. batch.calls \in Seq(Ops) /\ batch.undo \in Seq(Modules)
  BY <1>3 DEF Batches
<1>5. batch' \in Batches
  <2>1. <<>> \in Seq(Ops) /\ <<>> \in Seq(Modules)
    OBVIOUS
  <2> QED BY <1>1, <2>1 DEF NoBatch, Batches
<1>6. /\ SetupTypes' /\ NonceInv' /\ \A q \in queue' : Whole(q.by, q.calls, unseen')
      /\ (\A s, t : InOrder(s, t)' = InOrder(s, t))
      /\ (\A ms : Settled(ms)' = Settled(ms))
  BY <1>1, <1>2, <1>4, <1>5, WithinBatch
<1>7. ModuleInv'
  BY <1>1, <1>2, <1>3, <1>6 DEF ModuleInv, Settled
<1>8. AllowInv'
  <2>1. 1 \in DOMAIN batch.calls /\ Manages(batch.calls[1])
    BY <1>1, <1>4, TailOf DEF Fails, Manages
  <2>2. \A t \in approvedTargets : Guarded(t)
    BY <2>1 DEF SetupInv, AllowInv
  <2>3. \A t \in approvedTargets' : Guarded(t)'
    BY <1>1, <2>2 DEF Guarded
  <2> QED BY <1>1, <1>2, <1>6, <2>3 DEF SetupInv, AllowInv
<1>9. Sane(batch'.by, batch'.calls)
  BY <1>2 DEF Sane, SelectsAfterAdding, AddsAfterEnabling
<1> QED BY <1>6, <1>7, <1>8, <1>9 DEF SetupInv

LEMMA CommitKeeps ==
  ASSUME SetupInv, CommitBatch
  PROVE  SetupInv'
<1>1. /\ Running /\ batch.calls = <<>>
      /\ batch' = NoBatch /\ safeNonce' = safeNonce + 1
      /\ queue' = {p \in queue : p.nonce > safeNonce}
      /\ done' = Append(done, batch.by)
      /\ UNCHANGED <<modules, script, unseen>>
      /\ UNCHANGED <<approvedTargets, approvedSelectors, selectorGuardEnabled>>
  BY DEF CommitBatch, vars, contractVars
<1>2. batch'.by = "none" /\ batch'.calls = <<>> /\ ~Running'
  BY <1>1 DEF NoBatch, Running
<1>3. /\ SetupTypes /\ NonceInv /\ done \in Seq(Who) /\ safeNonce \in Nat /\ batch.by \in Who
      /\ Settled(batch.undo) /\ Partway /\ Unrepeated(modules)
  BY <1>1 DEF SetupInv, SetupTypes, ModuleInv
<1> DEFINE n == Len(done) + 1
<1>4. /\ n \in Nat /\ DOMAIN done' = 1 .. n /\ done'[n] = batch.by /\ done' \in Seq(Who)
      /\ \A i \in DOMAIN done : i \in DOMAIN done' /\ done'[i] = done[i] /\ i < n /\ i \in Nat
      /\ \A i \in DOMAIN done' : i \in Nat /\ (i < n => i \in DOMAIN done) /\ (i < n \/ i = n)
      /\ n \in DOMAIN done'
  BY <1>1, <1>3
<1> HIDE DEF n
<1>5. SetupTypes'
  <2>1. batch' \in Batches
    <3>1. <<>> \in Seq(Ops) /\ <<>> \in Seq(Modules)
      OBVIOUS
    <3> QED BY <1>1, <3>1 DEF NoBatch, Batches
  <2> QED BY <1>1, <1>2, <1>3, <1>4, <2>1 DEF SetupTypes
<1>6. NonceInv'
  <2>1. queue' \subseteq queue /\ \A p \in queue : p.nonce \in Nat
    BY <1>1, <1>3 DEF SetupTypes, Proposals
  <2>2. \A p \in queue' : p.nonce >= safeNonce'
    BY <1>1, <1>3, <2>1
  <2>3. \A s \in Scripts : script[s].from \in Nat
    BY <1>3 DEF SetupTypes, Progress
  <2>4. \A s \in Scripts : script'[s].at = "read" => script'[s].from <= safeNonce'
    BY <1>1, <1>3, <2>3 DEF NonceInv
  <2> QED BY <1>1, <1>3, <2>1, <2>2, <2>4 DEF NonceInv, NoncesDiffer
<1>7. \A s : HasRun(s)' <=> HasRun(s) \/ s = batch.by
  <2>1. ASSUME NEW s, HasRun(s)' PROVE HasRun(s) \/ s = batch.by
    BY <1>4, <2>1 DEF HasRun
  <2>2. ASSUME NEW s, HasRun(s) \/ s = batch.by PROVE HasRun(s)'
    BY <1>4, <2>2 DEF HasRun
  <2> QED BY <2>1, <2>2
<1>8. \A s, t : InOrder(s, t)' <=> InOrder(s, t) \/ (HasRun(s) /\ t = batch.by)
  <2>1. ASSUME NEW s, NEW t, InOrder(s, t)' PROVE InOrder(s, t) \/ (HasRun(s) /\ t = batch.by)
    <3>1. PICK j \in DOMAIN done', k \in DOMAIN done' : j < k /\ done'[j] = s /\ done'[k] = t
      BY <2>1 DEF InOrder
    <3>2. j \in DOMAIN done /\ done[j] = s
      BY <1>4, <3>1
    <3> QED BY <1>4, <3>1, <3>2 DEF InOrder, HasRun
  <2>2. ASSUME NEW s, NEW t, InOrder(s, t) \/ (HasRun(s) /\ t = batch.by) PROVE InOrder(s, t)'
    <3>1. CASE InOrder(s, t)
      BY <1>4, <3>1 DEF InOrder
    <3>2. CASE HasRun(s) /\ t = batch.by
      BY <1>4, <3>2 DEF InOrder, HasRun
    <3> QED BY <2>2, <3>1, <3>2
  <2> QED BY <2>1, <2>2
<1>9. ModuleInv'
  <2>1. ~Enables(batch.calls, V2) /\ ~Replaces(batch.calls)
    BY <1>1 DEF Enables, Replaces
  <2>2. IsIn(modules, V2) <=> HasRun("setupV2") \/ batch.by = "setupV2"
    BY <1>3, <2>1 DEF Partway, Settled
  <2>3. ASSUME IsIn(modules, V1), IsIn(modules, V2) PROVE Explained'
    <3>1. Explained => Explained'
      BY <1>1, <1>8 DEF Explained
    <3>2. CASE batch.by = "setupV2"
      BY <1>3, <2>1, <2>3, <3>1, <3>2 DEF Partway
    <3>3. CASE batch.by = "setup"
      <4>1. HasRun("setupV2")
        BY <2>2, <2>3, <3>3
      <4> QED BY <1>8, <3>3, <4>1 DEF Explained
    <3>4. CASE batch.by \notin {"setup", "setupV2"}
      BY <1>3, <2>3, <3>1, <3>4 DEF Partway, Settled
    <3> QED BY <3>2, <3>3, <3>4
  <2>4. Settled(modules)'
    BY <1>1, <1>3, <1>7, <2>2, <2>3 DEF Settled
  <2> QED BY <1>1, <1>2, <1>3, <2>4 DEF ModuleInv
<1>10. AllowInv'
  <2>1. \A t : ~Selects(batch.calls, t) /\ ~Removes(batch.calls, t)
    BY <1>1 DEF Selects, Removes
  <2>2. \A t \in approvedTargets : Guarded(t)
    BY <2>1 DEF SetupInv, AllowInv
  <2>3. InOrder("setupV2", "patch")' => Wrong \cap approvedTargets = {}
    BY <1>8, <2>1 DEF SetupInv, AllowInv
  <2>4. \A t \in approvedTargets' : Guarded(t)'
    BY <1>1, <2>2 DEF Guarded
  <2> QED BY <1>1, <1>2, <2>3, <2>4 DEF SetupInv, AllowInv
<1>11. Sane(batch'.by, batch'.calls)
  BY <1>2 DEF Sane, SelectsAfterAdding, AddsAfterEnabling
<1>12. \A p \in queue' : Whole(p.by, p.calls, unseen')
  BY <1>1 DEF SetupInv
<1> QED BY <1>5, <1>6, <1>9, <1>10, <1>11, <1>12 DEF SetupInv
(* A call that does not fail takes effect, in the Safe or in the module.   *)
LEMMA RunKeeps ==
  ASSUME SetupInv, RunCall
  PROVE  SetupInv'
<1> DEFINE calls == batch.calls  call == Head(batch.calls)  rest == Tail(batch.calls)
<1>1. /\ Running /\ calls # <<>> /\ ~Fails(call)
      /\ \/ ModuleManager(call) /\ UNCHANGED vars
         \/ OnModule(call) /\ UNCHANGED modules
      /\ batch' = [batch EXCEPT !.calls = Tail(batch.calls)]
      /\ UNCHANGED <<safeNonce, queue, script, done, unseen>>
  BY DEF RunCall
<1>2. /\ SetupTypes /\ batch \in Batches /\ batch.by \in Who /\ calls \in Seq(Ops)
      /\ Sane(batch.by, calls) /\ modules \in Seq(Modules) /\ Unrepeated(modules)
      /\ Settled(batch.undo) /\ Partway /\ AllowInv
  BY <1>1 DEF SetupInv, SetupTypes, ModuleInv, Batches
<1>3. /\ rest \in Seq(Ops) /\ call = calls[1] /\ 1 \in DOMAIN calls
      /\ \A i \in DOMAIN rest : i \in Nat \ {0} /\ i + 1 \in DOMAIN calls /\ rest[i] = calls[i + 1]
      /\ \A i \in DOMAIN calls : i \in Nat \ {0} /\ (i # 1 => i - 1 \in DOMAIN rest)
  BY <1>1, <1>2, TailOf
<1>4. batch' \in Batches /\ batch'.calls = rest /\ batch'.by = batch.by /\ batch'.undo = batch.undo
  BY <1>1, <1>2, <1>3 DEF Batches
<1>5. Running'
  BY <1>2, <1>4 DEF Running, NoBatch, Who, Scripts
<1>6. Sane(batch'.by, batch'.calls)
  BY <1>1, <1>2, <1>4, SaneTail
<1>7. /\ \A m : Enables(calls, m) => Enables(rest, m) \/ (call[1] = "enable" /\ call[2] = m)
      /\ \A t : Selects(calls, t) => Selects(rest, t) \/ (call[1] = "select" /\ call[2] = t)
      /\ \A t : Removes(calls, t) => Removes(rest, t) \/ (call[1] = "remove" /\ call[2] = t)
      /\ Replaces(calls) => call[1] # "enable" /\ (Replaces(rest) \/ call[1] = "disable")
  BY <1>1, <1>2, <1>3, StillThere
<1>8. /\ call[1] = "select" => <<call[2], call[3]>> \in Permitted
      /\ call[1] = "enable" /\ call[2] = V1 => batch.by = "setup"
      /\ call[1] = "enable" /\ call[2] = V2 => batch.by = "setupV2"
      /\ call[1] = "enable" => call[2] \in Modules
      /\ call[1] = "disable" => batch.by = "setupV2" /\ call[3] = V1
      /\ call[1] = "add" /\ call[2] \in Wrong => batch.by = "setupV2"
      /\ call[1] = "add" /\ call[2] # MultiSend => Selects(rest, call[2])
      /\ call[1] = "add" => \A j \in DOMAIN calls : ~Manages(calls[j])
  <2>1. call[1] = "add" /\ call[2] # MultiSend => Selects(rest, call[2])
    <3> SUFFICES ASSUME call[1] = "add", call[2] # MultiSend PROVE Selects(rest, call[2])
      OBVIOUS
    <3>1. PICK j \in DOMAIN calls : 1 < j /\ calls[j][1] = "select" /\ calls[j][2] = call[2]
      BY <1>2, <1>3 DEF Sane, SelectsAfterAdding
    <3>2. j - 1 \in DOMAIN rest /\ (j - 1) + 1 = j
      BY <1>3, <3>1
    <3> QED BY <1>3, <3>1, <3>2 DEF Selects
  <2>2. call[1] = "add" => \A j \in DOMAIN calls : ~Manages(calls[j])
    BY <1>2, <1>3 DEF Sane, AddsAfterEnabling
  <2> QED BY <1>2, <1>3, <2>1, <2>2 DEF Sane
<1> HIDE DEF calls, call, rest
<1>9. CASE ModuleManager(call) /\ UNCHANGED vars
  <2>1. UNCHANGED <<approvedTargets, approvedSelectors, selectorGuardEnabled>>
    BY <1>9 DEF vars, contractVars
  <2>2. /\ modules' \in Seq(Modules) /\ Unrepeated(modules')
        /\ Manages(call)
        /\ \A x : IsIn(modules', x) =>
             \/ IsIn(modules, x)
             \/ call[1] = "enable" /\ call[2] = x
        /\ IsIn(modules, V2) => IsIn(modules', V2)
        /\ call[1] = "enable" /\ call[2] = V2 => IsIn(modules', V2) /\ ~IsIn(modules, V2)
        /\ call[1] = "disable" => ~IsIn(modules', V1)
    <3>1. CASE call[1] = "enable" /\ ~IsIn(modules, call[2]) /\ modules' = <<call[2]>> \o modules
      <4>1. PICK m \in Modules : m = call[2]
        BY <1>8, <3>1
      <4>2. /\ modules' \in Seq(Modules) /\ Unrepeated(modules')
            /\ \A x : IsIn(modules', x) <=> x = m \/ IsIn(modules, x)
        BY <1>2, <3>1, <4>1, LinkedEffect
      <4> QED BY <3>1, <4>1, <4>2 DEF Manages
    <3>2. CASE call[1] = "disable" /\ IsIn(modules, call[3]) /\ modules' = Unlinked(modules, call[3])
      <4>1. call[3] = V1 /\ IsIn(modules, V1)
        BY <1>8, <3>2
      <4>2. /\ modules' \in Seq(Modules) /\ Unrepeated(modules')
            /\ \A x : IsIn(modules', x) <=> x # V1 /\ IsIn(modules, x)
        BY <1>2, <3>2, <4>1, UnlinkedEffect
      <4>3. V1 # V2
        BY SetupAssumption DEF SetupAssumption
      <4> QED BY <3>2, <4>2, <4>3 DEF Manages
    <3> QED BY <1>9, <3>1, <3>2 DEF ModuleManager
  <2>3. /\ SetupTypes' /\ NonceInv' /\ \A q \in queue' : Whole(q.by, q.calls, unseen')
        /\ Explained' = Explained /\ (\A s : HasRun(s)' = HasRun(s))
        /\ (\A s, t : InOrder(s, t)' = InOrder(s, t))
    BY <1>1, <1>2, <1>4, <2>2, WithinBatch
  <2>4. Settled(batch.undo)'
    BY <1>2, <1>4, <2>3 DEF Settled
  <2>5. Partway'
    <3>1. IsIn(batch'.undo, V2) => IsIn(modules', V2)
      BY <1>2, <1>4, <2>2 DEF Partway
    <3>2. IsIn(modules', V2) => IsIn(batch'.undo, V2) \/ batch'.by = "setupV2"
      BY <1>2, <1>4, <1>8, <2>2 DEF Partway
    <3>3. IsIn(modules', V1) => IsIn(batch'.undo, V1) \/ batch'.by = "setup"
      BY <1>2, <1>4, <1>8, <2>2 DEF Partway
    <3>4. ASSUME batch.by = "setupV2"
          PROVE  /\ Enables(rest, V2) \/ (IsIn(modules', V2) /\ ~IsIn(batch.undo, V2))
                 /\ Explained \/ ~IsIn(modules', V1) \/ Replaces(rest)
      <4>1. Enables(rest, V2) \/ (IsIn(modules', V2) /\ ~IsIn(batch.undo, V2))
        <5>1. Enables(calls, V2) \/ (IsIn(modules, V2) /\ ~IsIn(batch.undo, V2))
          BY <1>2, <3>4 DEF Partway, calls
        <5>2. IsIn(batch.undo, V2) => IsIn(modules, V2)
          BY <1>2 DEF Partway
        <5> QED BY <1>7, <2>2, <5>1, <5>2
      <4>2. Explained \/ ~IsIn(modules', V1) \/ Replaces(rest)
        <5>1. Explained \/ ~IsIn(modules, V1) \/ Replaces(calls)
          BY <1>2, <3>4 DEF Partway, calls
        <5>2. IsIn(modules', V1) => IsIn(modules, V1)
          BY <1>8, <2>2, <3>4
        <5> QED BY <1>7, <2>2, <5>1, <5>2
      <4> QED BY <4>1, <4>2
    <3> QED BY <1>4, <2>3, <3>1, <3>2, <3>3, <3>4 DEF Partway
  <2>6. ModuleInv'
    BY <1>5, <2>2, <2>4, <2>5 DEF ModuleInv
  <2>7. \A t \in approvedTargets' : Guarded(t)'
    <3>1. \E i \in DOMAIN calls : Manages(calls[i])
      BY <1>3, <2>2
    <3>2. \A t \in approvedTargets : Guarded(t)
      BY <1>2, <3>1 DEF AllowInv, calls
    <3> QED BY <2>1, <3>2 DEF Guarded
  <2>8. batch'.by = "patch" => \A t \in Wrong : Removes(batch'.calls, t) \/ t \notin approvedTargets'
    BY <1>2, <1>4, <1>7, <2>1, <2>2 DEF AllowInv, Manages, calls
  <2>9. AllowInv'
    BY <1>2, <2>1, <2>3, <2>7, <2>8 DEF AllowInv
  <2> QED BY <1>6, <2>3, <2>6, <2>9 DEF SetupInv
<1>10. CASE OnModule(call) /\ UNCHANGED modules
  <2>1. ~Manages(call)
    BY <1>10 DEF OnModule, Manages
  <2>2. /\ SetupTypes' /\ NonceInv' /\ \A q \in queue' : Whole(q.by, q.calls, unseen')
        /\ Explained' = Explained /\ (\A s : HasRun(s)' = HasRun(s))
        /\ (\A s, t : InOrder(s, t)' = InOrder(s, t))
    BY <1>1, <1>2, <1>4, <1>10, WithinBatch
  <2>3. Settled(batch.undo)'
    BY <1>2, <1>4, <2>2 DEF Settled
  <2>4. call[1] # "enable" /\ call[1] # "disable"
    BY <2>1 DEF Manages
  <2>5. Partway'
    BY <1>2, <1>4, <1>7, <1>10, <2>2, <2>4 DEF Partway, calls
  <2>6. ModuleInv'
    BY <1>2, <1>5, <1>10, <2>3, <2>5 DEF ModuleInv
  <2>7. (\E i \in DOMAIN rest : Manages(rest[i])) => \E i \in DOMAIN calls : Manages(calls[i])
    BY <1>3
  <2>8. /\ approvedSelectors \subseteq Permitted
        /\ \A t \in approvedTargets : Guarded(t) \/ Selects(calls, t)
        /\ (\E i \in DOMAIN rest : Manages(rest[i])) => \A t \in approvedTargets : Guarded(t)
        /\ batch.by = "patch" => \A t \in Wrong : Removes(calls, t) \/ t \notin approvedTargets
        /\ InOrder("setupV2", "patch") => Wrong \cap approvedTargets = {}
    BY <1>2, <2>7 DEF AllowInv, calls
  <2>9. AllowInv'
    <3>1. ASSUME UNCHANGED <<approvedTargets, approvedSelectors, selectorGuardEnabled>>,
                 call[1] # "select", call[1] # "remove"
          PROVE  AllowInv'
      BY <1>4, <1>7, <2>2, <2>8, <3>1 DEF AllowInv, Guarded
    <3>2. ASSUME call[1] = "add", AddApprovedTarget(call[2])
          PROVE  AllowInv'
      <4>1. /\ approvedTargets' = approvedTargets \cup {call[2]}
            /\ UNCHANGED <<approvedSelectors, selectorGuardEnabled>>
        BY <3>2 DEF AddApprovedTarget
      <4>2. \A t \in approvedTargets' : Guarded(t)' \/ Selects(rest, t)
        BY <1>7, <1>8, <2>8, <3>2, <4>1 DEF Guarded
      <4>3. \A i \in DOMAIN rest : ~Manages(rest[i])
        BY <1>8, <2>7, <3>2
      <4>4. batch.by = "patch" => call[2] \notin Wrong
        BY <1>8, <3>2
      <4>5. InOrder("setupV2", "patch") => call[2] \notin Wrong
        <5> SUFFICES ASSUME InOrder("setupV2", "patch"), call[2] \in Wrong PROVE FALSE
          OBVIOUS
        <5>1. IsIn(batch.undo, V2)
          BY <1>2 DEF InOrder, HasRun, Settled
        <5>2. Enables(calls, V2)
          BY <1>2, <1>8, <3>2, <5>1 DEF Partway, calls
        <5> QED BY <1>8, <3>2, <5>2 DEF Enables, Manages
      <4>6. batch.by = "patch" => \A t \in Wrong : Removes(rest, t) \/ t \notin approvedTargets'
        BY <1>7, <2>8, <3>2, <4>1, <4>4
      <4>7. InOrder("setupV2", "patch")' => Wrong \cap approvedTargets' = {}
        BY <2>2, <2>8, <4>1, <4>5
      <4> QED BY <1>4, <2>8, <4>1, <4>2, <4>3, <4>6, <4>7 DEF AllowInv
    <3>3. ASSUME call[1] = "remove", RemoveApprovedTarget(call[2])
          PROVE  AllowInv'
      <4>1. /\ approvedTargets' = approvedTargets \ {call[2]}
            /\ UNCHANGED <<approvedSelectors, selectorGuardEnabled>>
        BY <3>3 DEF RemoveApprovedTarget
      <4> QED BY <1>4, <1>7, <2>2, <2>8, <3>3, <4>1 DEF AllowInv, Guarded
    <3>4. ASSUME call[1] = "select", ApproveSelector(call[2], call[3])
          PROVE  AllowInv'
      <4>1. /\ approvedTargets' = approvedTargets
            /\ approvedSelectors' = approvedSelectors \cup {<<call[2], call[3]>>}
            /\ selectorGuardEnabled' = selectorGuardEnabled \cup {call[2]}
        BY <3>4 DEF ApproveSelector
      <4>2. approvedSelectors' \subseteq Permitted
        BY <1>8, <2>8, <3>4, <4>1
      <4>3. \A t \in approvedTargets' : (Guarded(t) => Guarded(t)') /\ (Guarded(t)' \/ Selects(rest, t))
        BY <1>7, <2>8, <4>1 DEF Guarded
      <4> QED BY <1>4, <1>7, <2>2, <2>8, <3>4, <4>1, <4>2, <4>3 DEF AllowInv
    <3>5. ASSUME call[1] = "revoke", RevokeSelector(call[2], call[3])
          PROVE  AllowInv'
      <4>1. /\ approvedTargets' = approvedTargets
            /\ approvedSelectors' \subseteq approvedSelectors
            /\ selectorGuardEnabled' = selectorGuardEnabled
        BY <3>5 DEF RevokeSelector
      <4> QED BY <1>4, <1>7, <2>2, <2>8, <3>5, <4>1 DEF AllowInv, Guarded
    <3>6. CASE call[1] = "setUsdcToken" /\ SetUsdcToken(call[2])
      BY <3>1, <3>6 DEF SetUsdcToken
    <3>7. CASE call[1] = "setPolicy" /\ SetPolicy(1, 1, 1)
      BY <3>1, <3>7 DEF SetPolicy
    <3> QED BY <1>10, <3>2, <3>3, <3>4, <3>5, <3>6, <3>7 DEF OnModule
  <2> QED BY <1>6, <2>2, <2>6, <2>9 DEF SetupInv
<1> QED BY <1>1, <1>9, <1>10
LEMMA SetupKeeps == SetupInv /\ [SetupNext]_<<vars, setupVars>> => SetupInv'
<1> SUFFICES ASSUME SetupInv, [SetupNext]_<<vars, setupVars>> PROVE SetupInv'
  OBVIOUS
<1>1. CASE UNCHANGED <<vars, setupVars>>
  <2>1. Unmoved /\ queue' = queue /\ script' = script
    BY <1>1 DEF SetupInv, SetupTypes, Unmoved, vars, contractVars, setupVars, safeVars
  <2>2. SetupTypes' /\ NonceInv' /\ \A p \in queue' : Whole(p.by, p.calls, unseen')
    <3>1. unseen' = unseen
      BY <1>1 DEF setupVars
    <3> QED BY <2>1, <3>1 DEF SetupInv, SetupTypes, NonceInv, NoncesDiffer, Unmoved, Running
  <2> QED BY <2>1, <2>2, UnmovedKeeps DEF SetupInv
<1>2. ASSUME NEW s \in Scripts, ReadSafe(s) \/ ReadQueue(s) \/ Post(s) \/ DryRun(s)
      PROVE  SetupInv'
  BY <1>2, ReadSafeKeeps, ReadQueueKeeps, PostKeeps, DryRunKeeps
<1>3. ASSUME NEW n \in 0 .. MaxNonce - 1, NEW call \in OwnersCalls, OwnersPropose(n, call)
      PROVE  SetupInv'
  BY <1>3, OwnersProposeKeeps
<1> QED
  BY <1>1, <1>2, <1>3, BeginKeeps, RunKeeps, FailKeeps, CommitKeeps DEF SetupNext, OwnersCalls

LEMMA SetupInvHolds == SetupSpec => []SetupInv
BY SetupInitially, SetupKeeps, PTL DEF SetupSpec

(* However the proposals of the scripts and of the owners interleave, fail *)
(* and repeat: while V2 is enabled, no direct call of the executor and no  *)
(* call of a batch encodeMultiSend built is anything but approve of USDC   *)
(* and supply and withdraw of a pool (setup-policy-module-v2.mjs,          *)
(* patch-policy-module-v2-addresses.mjs).                                  *)
THEOREM ExecutorIsConfined == SetupSpec => []Confined
<1>1. SetupInv => Confined
  <2> SUFFICES ASSUME SetupInv, ~Running, NEW tx \in Encoded, Executable(tx, 0),
                      NEW c \in tx.calls, c.to # MultiSend, c.sel # NoSelector
               PROVE  \/ c.to \in {UsdcOld, UsdcNew} /\ c.sel = approve
                      \/ c.to \in {PoolOld, PoolNew} /\ c.sel \in {supply, withdraw}
    BY DEF Confined
  <2>1. c.to \in approvedTargets /\ SelectorAllowed(c)
    BY EncodedIsRead DEF Executable, CalldataAllowed
  <2>2. batch.calls = <<>>
    BY DEF Running, NoBatch
  <2>3. c.to \in selectorGuardEnabled
    BY <2>1, <2>2 DEF SetupInv, AllowInv, Guarded, Selects
  <2>4. <<c.to, c.sel>> \in Permitted
    BY <2>1, <2>3 DEF SelectorAllowed, SetupInv, AllowInv
  <2> QED BY <2>4 DEF Permitted
<1> QED BY <1>1, SetupInvHolds, PTL

(* What a script replaced stays replaced: the first module is back beside  *)
(* V2 only where the scripts overlooked it or set it up again, and no      *)
(* repeated set-up brings the wrong addresses back after the patch.        *)
THEOREM ReplacementsHold == SetupSpec => []ReplacementsStick
<1>1. SetupInv => ReplacementsStick
  <2> SUFFICES ASSUME SetupInv PROVE V1Replaced /\ PatchSticks
    BY DEF ReplacementsStick
  <2>1. V1Replaced
    BY DEF V1Replaced, SetupInv, ModuleInv, Settled, Explained, InOrder
  <2>2. PatchSticks
    BY DEF PatchSticks, SetupInv, AllowInv, InOrder, Wrong
  <2> QED BY <2>1, <2>2
<1> QED BY <1>1, SetupInvHolds, PTL

(* Two proposals compete for a nonce only if a script posted one of them   *)
(* without an answer about the queue, or while another was on its way: for *)
(* any number of proposals, transactions of the Safe and failed reads.     *)
THEOREM NoncesAreDistinct == SetupSpec => []NoncesDiffer
<1>1. SetupInv => NoncesDiffer
  BY DEF SetupInv, NonceInv
<1> QED BY <1>1, SetupInvHolds, PTL
=============================================================================
