SPECIFICATION FairSpec
CONSTANTS
    unmounted = unmounted
    mounted = mounted
    renamed = renamed
    list1 = list1
    list2 = list2
    Worlds <- MCWorlds
    Signature <- MCSignature
    Lists <- MCTwoLists
    Desktop = Desktop
    Nothing = Nothing
    Reading = Reading
    Failed = Failed
    MaxChanges = 2
    MaxSettings = 1
INVARIANTS
  ShownIsSnapshot
  QuietMeansFresh
PROPERTIES
  Converges
