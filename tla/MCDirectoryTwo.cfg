SPECIFICATION Spec
CONSTANTS
  a = a
  b = b
  w1 = w1
  w2 = w2
  Names = {a, b}
  Users = {w1, w2}
  Shows <- MCShows
  Versions = {1}
  Copies = 4
  MaxChanges = 2
  CloseWhenMissing = TRUE
INVARIANTS
  ScanIffWork
  NoFreedItemUsed
  QuietMeansComplete
