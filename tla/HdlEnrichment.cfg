SPECIFICATION FairSpec
CONSTANTS
  N = 3
  StartLba <- McStartLba
  Overrides <- McOverrides
  MediaClasses <- McMedia
INVARIANTS
  TypeOK
  OneReportPerCandidate
  CancelledIffIncomplete
PROPERTIES
  CallReturns
  ImplementsCatalogRead
CHECK_DEADLOCK FALSE
