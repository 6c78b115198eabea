SPECIFICATION Spec
CONSTANTS
    a = a
    b = b
    home = home
    usb = usb
    s1 = s1
    s2 = s2
    w1 = w1
    w2 = w2
    None = None
    Closed = Closed
    Marked = Marked
    Files <- MCFiles
    Dirs <- MCDirs
    DirOf <- MCDirOf
    Windows <- MCWindows
    Slots <- MCSlots
    MaxVersion = 1
    MaxMoves = 3
INVARIANTS
  QueueIsServed
  QuietMeansShown
CHECK_DEADLOCK FALSE
SYMMETRY MCSymmetry
