SPECIFICATION ItdrSpec
CONSTANTS
  Threads = {t1, t2}
  Users = {"u"}
  None = None
  Km <- CityKm
  Positions <- Cities
  Events <- MCEvents
  FailureThreshold = 2
  MaxEvents = 4
INVARIANTS
  ProfileFollowsHistory
  ThreatsAnnounced
  TravelBetweenNeighbours
CHECK_DEADLOCK FALSE
SYMMETRY Symmetry
