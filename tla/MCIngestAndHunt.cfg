SPECIFICATION Spec
CONSTANTS
  A = A
  B = B
  h1 = h1
  h2 = h2
  h3 = h3
  h4 = h4
  Agents = {a1, a2}
  Telemetry <- MCTelemetry
  MaxCopies = 2
  Hunters = {x1, x2}
  Hunts = {h1, h2, h3, h4}
  Of <- MCOf
  Others <- MCOthers
  MaxLake = 2
  MaxHunts = 2
  MaxRuns = 2
  Shipped <- MCShipped
  None = None
INVARIANTS
  ResultsExact
  StatusHonest
  FindingsDelivered
CHECK_DEADLOCK FALSE
SYMMETRY Symmetry
