SPECIFICATION CaseSpec
CONSTANTS
  Analysts = {a1, a2}
  CaseIds = {c1, c2}
  Nobody = Nobody
  MaxFiled = 1
INVARIANTS
  CaseTypeOK
  CaseNoOrphans
PROPERTIES
  NoCloseWithoutReview
  ReopenedByAssignment
CHECK_DEADLOCK FALSE
SYMMETRY Symmetry
