CONSTANTS
  V1 = V1
  V2 = V2
  Other = Other
  UsdcOld = UsdcOld
  PoolOld = PoolOld
  UsdcNew = UsdcNew
  PoolNew = PoolNew
  MultiSend = MultiSend
  approve = approve
  supply = supply
  withdraw = withdraw
  Targets = {UsdcOld, PoolOld, UsdcNew, PoolNew, MultiSend}
  Selectors = {approve, supply, withdraw}
  NoSelector = NoSelector
  Accounts = {bot}
  ZeroAddress = ZeroAddress
  Usdc = Usdc
  MaxUsdc = 1
  MaxHeld = 1
  MaxBatch = 1
  PERIOD_DURATION = 1
  MaxTime = 0
  MaxNonce = 3
  MaxRuns = 4
  MaxFaults = 1
SPECIFICATION SetupSpec
CHECK_DEADLOCK FALSE
INVARIANTS
  Confined
  ReplacementsStick
  NoncesDiffer
