SPECIFICATION FairSpec
CHECK_DEADLOCK FALSE
CONSTANTS
  disk = disk
  image = image
  blank = blank
  None = none
  Sources = {disk, image, blank}
  Drives = {disk}
  Lbas = {1, 2}
  HdlMains <- MCHdlMains
  MaxCommands = 2
INVARIANTS
  TypeOK
  RowsComeFromTheirSource
  UnaskedOpenReplacesNothing
  SettledWindowShowsSession
  ReadyMeansRead
PROPERTIES
  WindowReturns
  OpenIsAnswered
