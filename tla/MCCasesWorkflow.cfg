SPECIFICATION CaseSpec
CONSTANTS
  Analysts = {a1, a2}
  CaseIds = {c1}
  Nobody = Nobody
  MaxFiled = 1
PROPERTIES
  FollowsWorkflow
CHECK_DEADLOCK FALSE
