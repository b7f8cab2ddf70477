SPECIFICATION ItdrSpec
CONSTANTS
  Threads = {t1}
  Users = {"u"}
  None = None
  Km <- CityKm
  Positions <- Cities
  Events <- TravelEvents
  FailureThreshold = 2
  MaxEvents = 3
INVARIANTS
  TravelIsImpossible
CHECK_DEADLOCK FALSE
