SPECIFICATION ResponseSpec
CONSTANTS
  Tasks = {k1, k2}
  Requests = {r1, r2}
  NoRequest = NoRequest
  Foreign <- OtherEvents
  MaxRequests = 3
  MaxFeed = 2
INVARIANTS
  ExecutedMeansActed
  SubmissionsAccounted
  ResultsAnnounced
CHECK_DEADLOCK FALSE
SYMMETRY Symmetry
