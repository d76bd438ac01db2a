SPECIFICATION FairSpec
CHECK_DEADLOCK FALSE
CONSTANTS
  disk = disk
  Sources = {disk}
  None = none
  Letters = {3, 4}
  MaxProcesses = 2
INVARIANTS
  TypeOK
  MountIsNeverForgotten
PROPERTIES
  EndedHelperIsNoticed
  RemovalEndsHelper
  EarlyEndIsAsked
