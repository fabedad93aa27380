CONSTANTS
  Hashes = {h1, h2}
  Accounts = {bot, spare}
  ZeroAddress = ZeroAddress
  MaxBlock = 3
  MaxGrants = 2
  Clients = {c1, c2}
  Window = 1
SPECIFICATION ClientSpec
SYMMETRY Symmetry
CHECK_DEADLOCK FALSE
INVARIANTS
  RevertsExplained
PROPERTY OneUse
