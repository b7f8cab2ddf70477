SPECIFICATION FairSpec
CONSTANTS
  a = a
  b = b
  c = c
  NodeIds = {a, b, c}
  Devices = {a, b}
  EdgeTypes <- AllEdges
  Depths = {0, 1, 2}
  MaxEdges = 3
INVARIANTS
  PathsExact
  BlastRadiusExact
PROPERTIES
  QueriesReturn
CHECK_DEADLOCK FALSE
