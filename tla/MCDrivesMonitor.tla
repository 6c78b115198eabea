-------------------------- MODULE MCDrivesMonitor --------------------------
(* Bounds for TLC: a drive that is mounted or not, and one with a new label. *)
EXTENDS DrivesMonitor, TLC

CONSTANTS unmounted, mounted, renamed, list1, list2

MCWorlds == {unmounted, mounted, renamed}
MCSignature == [w \in MCWorlds |-> IF w = renamed THEN mounted ELSE w]
MCTwoLists == {list1, list2}
MCOneList == {list1}
MCSymmetry == Permutations(MCTwoLists)
=============================================================================
