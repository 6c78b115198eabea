SPECIFICATION Spec
CONSTANTS
    a = a
    b = b
    N = 2
    Kids = {"k", "l"}
    Leaf <- MCLeaf
    Folders = {1}
INVARIANTS
  SilentMeansDone
  DeclinedIsLeft
PROPERTIES
  Transfers
