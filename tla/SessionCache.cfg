SPECIFICATION Spec
CONSTANTS
  Threads = {t1, t2}
  Calls <- McCalls
  Roots <- McRoots
  Kind <- McKind
  Entries <- McEntries
  Parts <- McParts
  MaxProbes = 1
  MaxListings = 1
  MaxStats = 1
  MaxNodes = 1
INVARIANTS
  TypeOK
  AnswersAreTheParsers
  CachesAgreeWithParser
SYMMETRY McSymmetry
