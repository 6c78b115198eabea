SPECIFICATION Spec
CONSTANTS
    filer = filer
    desktop = desktop
    near = near
    far = far
    c1 = c1
    c2 = c2
    c3 = c3
    None = None
    Procs <- MCProcs
    Paths <- MCPaths
    Far <- MCFar
    Contents <- MCContents
    Slots = {0, 1}
INVARIANTS
  Restorable
PROPERTIES
  BackWhereItWas
  IsStore
CHECK_DEADLOCK FALSE
SYMMETRY MCSymmetry
