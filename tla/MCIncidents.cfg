SPECIFICATION FairSpec
CONSTANTS
  Threads = {t1, t2, t3}
  Ids = {i1}
  None = None
  MaxArtifacts = 1
INVARIANTS
  TypeOK
  AuditTrail
  AuditOnce
  AnnouncedAfterAudit
  NoOrphans
PROPERTIES
  EveryChangeAnnounced
  ImplementsAudited
CHECK_DEADLOCK FALSE
