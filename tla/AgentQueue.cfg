CONSTANTS
  Modes = {"fork", "safe", "module"}
  Chains = {"base", "stagenet"}
  Scanners = {s1, s2}
  Reconcilers = {r1}
  MAX_CONCURRENT_SIMS = 1
  ReconcileLimit = 2
  ReserveFloor = 2
  IdleThreshold = 1
  MaxSingleAction = 4
  InitialFunds <- IdleOrBreached
  OutsideBalances = {}
  MaxDecisions = 2
  MaxOwnerTxs = 0
  MaxFaults = 1
SPECIFICATION Spec
SYMMETRY Symmetry
INVARIANTS
  QueueSound
  ProvenFirst
  ReconciliationSound
PROPERTIES
  MovesAreProvenAndPaid
