----------------------------- MODULE MCCopyMove -----------------------------
(* Bounds for TLC: sources with names of their own. *)
EXTENDS CopyMove

CONSTANTS a, b

MCLeaf == <<a, b>>
MCSameLeaf == <<a, a>>
=============================================================================
