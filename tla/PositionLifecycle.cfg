CONSTANTS
  Positions = {p1}
  Plan = 2
  Workers = {w1}
  Cycles = {c1}
  Readable = {p1}
  MaxQueued = 0
  MaxFaults = 1
SPECIFICATION FairSpec
INVARIANTS
  WatchedWasSigned
  JobsWarranted
PROPERTIES
  ClosedIsFinal
  CriticalLeavesTheWatch
