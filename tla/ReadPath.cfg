SPECIFICATION Spec
CONSTANTS
  Readers = {r1, r2}
  Size = 13
  PageSize = 3
  DirectThreshold = 3
  MaxPages = 1
  Trigger = 4
  LookAhead = 3
  Requests <- McRequests
  BadSets <- McBadSets
INVARIANTS
  TypeOK
  CachesMirrorMedium
PROPERTIES
  ImplementsBlockDevice
