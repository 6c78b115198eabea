CONSTANTS
  i1 = i1
  i2 = i2
  j1 = j1
  j2 = j2
  j3 = j3
  Images = {i1, i2}
  l1 = l1
  l2 = l2
  n1 = n1
  n2 = n2
  Loops = {l1, l2}
  Names = {n1, n2}
  Jobs = {j1, j2}
  None = None
  BaseName <- OneName
SPECIFICATION Spec
SYMMETRY Symmetric
INVARIANTS
  NoLoopForgotten
  MountedIsManaged
  StateNamesItsImage
