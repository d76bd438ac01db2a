SPECIFICATION FairSpec
CONSTANTS
  img = img
  d1 = d1
  d2 = d2
  None = none
  Sources = {img, d1, d2}
  Drives = {d1, d2}
PROPERTIES
  ClosingEnds
