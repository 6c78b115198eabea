CONSTANTS
  i1 = i1
  i2 = i2
  p1 = p1
  p2 = p2
  Inodes = {i1, i2}
  Paths = {p1, p2}
  MaxSize = 2
  MaxCommands = 2
  MaxChanges = 3
  Total = 2
  None = None
SPECIFICATION Spec
INVARIANTS
  SafeToRemove
  CountedOnce
  NothingLeftBehind
PROPERTIES
  Ends
