CONSTANTS
  Nodes = {n1, n2, n3}
  Kinds <- MCKinds
  MaxEdges = 3
  IntentTerms <- MCIntents
  NodeGas = 1
  Whole = 10
  Year = 5
  Hundred = 4
  Yields <- MCYields
  Days = {0, 1, 5}
  Rates = {0, 1, 2}
  Shares = {0, 2, 4}
  Capital = 2
  Standing = {1, 2}
  Callers = {c1, c2}
  MaxStarts = 3
  MaxNodeFaults = 1
SPECIFICATION EngineSpec
SYMMETRY Symmetry
VIEW View
CONSTRAINT ShapesOrKinds
ACTION_CONSTRAINT SimulatedFirst
CHECK_DEADLOCK FALSE
INVARIANTS
  GraphSound
  AssessmentSound
  PlanSound
  SimulationsSound
