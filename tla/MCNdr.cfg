SPECIFICATION Spec
CONSTANTS
  Threads = {t1, t2}
  Dests = {"web", "smb"}
  Pairs = {"p"}
  Flows <- MCFlows
  Queries = {"dns_anomaly"}
  Window = 2
  MinConnections = 3
  Tolerance = 0
  ScanThreshold = 3
  MaxDelay = 1
  MaxNow = 2
  MaxItems = 4
INVARIANTS
  BeaconsReported
  ReportedOnce
  ThreatsReported
PROPERTIES
  NothingForgotten
CHECK_DEADLOCK FALSE
SYMMETRY Symmetry
