------------------------------ MODULE MCTrash ------------------------------
(* Bounds for TLC: two processes, two places of which one is on another file *)
(* system, three contents, two names.                                      *)
EXTENDS Trash, TLC

CONSTANTS filer, desktop, near, far, c1, c2, c3

MCProcs == {filer, desktop}
MCPaths == {near, far}
MCFar == {far}
MCContents == {c1, c2, c3}
MCSymmetry == Permutations(MCProcs) \cup Permutations(MCContents)
=============================================================================
