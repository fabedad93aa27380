CONSTANTS
  Targets = {pool}
  Selectors = {supply}
  NoSelector = NoSelector
  Accounts = {bot}
  ZeroAddress = ZeroAddress
  Usdc = Usdc
  MaxUsdc = 2
  MaxHeld = 2
  MaxBatch = 1
  PERIOD_DURATION = 2
  MaxTime = 3
SPECIFICATION Spec
INVARIANTS
  SpendingInv
  ViewsAgree
  OnlyAllowlistedCalls
  ReserveFloorKept
