--------------------------- MODULE MCChildReaper ---------------------------
(* Bounds for TLC: ChildReaper with pids and threads as model values. *)
EXTENDS ChildReaper, TLC

CONSTANTS p1, p2, p3

MCPids == {p1, p2, p3}
MCTwoPids == {p1, p2}
MCSymmetry == Permutations(MCPids)
=============================================================================
