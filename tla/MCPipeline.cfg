SPECIFICATION Spec
CONSTANTS
  A1 = A1
  B1 = B1
  d1 = d1
  d2 = d2
  q1 = q1
  q0 = q0
  Deliverers = {t1, t2}
  Analysts = {t3}
  Ids = {i1, i2}
  None = None
  TenantOf <- MCTenantOf
  Critical = {d2}
  Techniques = {q1}
  Claimed <- MCClaimed
  MaxDeliveries = 2
  MaxMoves = 2
  MaxMappings = 2
INVARIANTS
  SummaryAddsUp
  CopiesHonest
PROPERTIES
  ScoreNeverFalls
CHECK_DEADLOCK FALSE
SYMMETRY Symmetry
