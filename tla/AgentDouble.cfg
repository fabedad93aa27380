CONSTANTS
  Modes = {"module"}
  Chains = {"base"}
  Scanners = {s1}
  Reconcilers = {r1}
  MAX_CONCURRENT_SIMS = 2
  ReconcileLimit = 2
  ReserveFloor = 2
  IdleThreshold = 1
  MaxSingleAction = 4
  InitialFunds <- IdleOrBreached
  OutsideBalances = {}
  MaxDecisions = 1
  MaxOwnerTxs = 0
  MaxFaults = 1
SPECIFICATION Spec
INVARIANT OneChannel
