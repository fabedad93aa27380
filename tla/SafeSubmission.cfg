SPECIFICATION Spec
CONSTANTS
  Sims = {s1, s2}
  Submits = {c1, c2}
  Requests <- MCRequests
  Amount = 2
  Loss = 1
  ValidFor = 0
  MaxBlock = 1
  MaxNonce = 1
  MaxFaults = 1
SYMMETRY Symmetry
ACTION_CONSTRAINT SimulateFirst
VIEW View
CHECK_DEADLOCK FALSE
INVARIANTS
  ArtifactsSound
  ReserveKept
  ProposalsSound
  NothingLeftBehind
