CONSTANTS
  Usd = {0, 1, 2, 3, 4, 6}
  Threshold = 1
  MaxMandates = 2
  Requests = {q1, q2}
  MaxDecisions = 2
  MaxFaults = 1
SPECIFICATION FairSpec
INVARIANTS
  ActsUnderSignedMandate
  ActivationsSound
  DecisionsSound
PROPERTIES
  NothingHangs
