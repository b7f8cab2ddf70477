SPECIFICATION FairSpec
CONSTANTS
  Threads = {t1, t2}
  Rules <- MCRules
  Events <- MCEvents
  Values <- MCValues
  Empty = ""
  None = None
  MaxRules = 2
  MaxEvents = 2
  MaxMatches = 1
INVARIANTS
  AnnouncedInOrder
  OneTriggerPerMatch
  Complete
  Sound
PROPERTIES
  CallsReturn
CHECK_DEADLOCK FALSE
