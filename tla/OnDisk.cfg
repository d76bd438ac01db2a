SPECIFICATION Spec
CHECK_DEADLOCK FALSE
CONSTANTS
  DeviceSize = 56
  HeaderSize = 2
  MaxSub = 2
  MaxHeaders = 4
  Disks <- McDisks
  SectorSize = 2
  SuperSector = 2
  InodeMaxBlocks = 3
  IndirectMaxBlocks = 3
  MaxRun = 2
  Batch = 2
  Contents <- McContents
  Places <- McPlaces
  Requests <- McRequests
INVARIANTS
  TypeOK
  PartitionsFollowChain
  OkMeansIntact
  CatalogCountsOnce
  AnswerIsContent
  BytesOfPartition
