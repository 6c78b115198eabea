SPECIFICATION FairSpec
CONSTANTS
    Kinds = {"copy", "delete", "delete_permanently", "unmount", "eject"}
    N = 2
    MaxToggles = 2
    Details = FALSE
INVARIANTS
  RefusedIsKept
  RiskyNeedsYes
  ToldAtEnd
  ClosedUnlessToggled
  AgreedIsTried
PROPERTIES
  Ends
