SPECIFICATION Spec
CHECK_DEADLOCK FALSE
CONSTANTS
  top = top
  parts = parts
  r = r
  d = d
  f1 = f1
  f2 = f2
  f3 = f3
  f4 = f4
  s = s
  t1 = t1
  None = none
  Nodes <- MCNodes
  Root = r
  Kind <- MCKind
  Entries <- MCEntries
  Words <- MCWords
  Folded <- MCFolded
  Reserved = {"con"}
  Top = top
  Fixed = {top, parts}
  Threads = {t1}
  MaxDepth = 4
  Chunks <- MCChunks
  MaxNesting = 3
  MaxOpens = 1
  MaxPath = 2
INVARIANTS
  TypeOK
  ShownNameLeadsToItsEntry
  NoBrokenFileStays
  SuccessIsComplete
  ExportIsOfSelection
PROPERTIES
  CopiesStay
