CONSTANTS
  Modes = {"fork", "manual", "safe", "module"}
  Concurrency = 1
  Attempts = 2
  Decisions = {d1}
  PageSize = 1
  MaxFaults = 1
SPECIFICATION FairSpec
INVARIANTS
  MovesAreRecorded
  PositionsSound
PROPERTIES
  MovesAreProvenAndPaid
  WorkEnds
