SPECIFICATION Spec
CONSTANTS
    w1 = w1
    w2 = w2
    w3 = w3
    media = media
    disk = disk
    sub = sub
    None = None
    Win <- MCWin
    Paths <- MCPaths
    Below <- MCBelow
    Parent <- MCParent
    Mount = disk
    HistoryLimit = 2
    MaxTabs = 2
    MaxSteps = 6
INVARIANTS
  PanesGoTogether
  CountIsWindows
  OwnerServed
  OneWindowPerPath
PROPERTIES
  TabsKeepTheirPlace
CHECK_DEADLOCK FALSE
SYMMETRY MCSymmetry
