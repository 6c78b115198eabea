SPECIFICATION FairSpec
CONSTANTS
  a = a
  b = b
  w1 = w1
  w2 = w2
  Names = {a, b}
  Users = {w1}
  Shows <- MCShows1
  Versions = {1, 2}
  Copies = 4
  MaxChanges = 2
  CloseWhenMissing = TRUE
INVARIANTS
  RescanIsComing
  QuietMeansFresh
PROPERTIES
  Converges
