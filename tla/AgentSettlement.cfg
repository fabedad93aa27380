CONSTANTS
  Modes = {"safe"}
  Chains = {"base"}
  Scanners = {s1}
  Reconcilers = {r1, r2}
  MAX_CONCURRENT_SIMS = 1
  ReconcileLimit = 1
  ReserveFloor = 2
  IdleThreshold = 1
  MaxSingleAction = 4
  InitialFunds <- LittleIdle
  OutsideBalances = {1}
  MaxDecisions = 2
  MaxOwnerTxs = 1
  MaxFaults = 1
SPECIFICATION FairSpec
INVARIANT OnePositionUnderOneFault
PROPERTIES
  ScansUnblocked
  ExecutedIsReconciled
