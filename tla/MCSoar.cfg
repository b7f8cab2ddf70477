SPECIFICATION FairSpec
CONSTANTS
  Tasks = {k1, k2}
  Executions = {x1, x2}
  None = None
  Chosen = {"BlockHost", "NotifyTeam"}
INVARIANTS
  TypeOK
  CausalFeed
  LogsAgree
PROPERTIES
  EveryStartEnds
  IsResponse
CHECK_DEADLOCK FALSE
