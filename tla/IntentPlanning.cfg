SPECIFICATION FairSpec
CONSTANTS
  Intents = {i1, i2}
  Watched = {i1}
  Templates = {"conservativeStableLending", "aaveUsdcLending"}
  Policies = {{}, {"aave-v3"}, {"morpho-blue"}}
  Providers = {0, 1}
  MaxPolls = 1
  MaxChanges = 1
  MaxFaults = 1
CHECK_DEADLOCK FALSE
INVARIANTS
  PlansSound
  HalfDoneExplained
PROPERTIES
  IntentsEnd
