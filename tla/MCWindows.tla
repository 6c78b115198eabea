----------------------------- MODULE MCWindows -----------------------------
(* Bounds for TLC: a directory of mount points, a mount point in it and a     *)
(* directory of the device; the limit of a history is 2 instead of 100.       *)
EXTENDS Windows, TLC

CONSTANTS w1, w2, w3, media, disk, sub

MCWin == {w1, w2, w3}
MCPaths == {media, disk, sub}
MCBelow == (media :> MCPaths @@ disk :> {disk, sub} @@ sub :> {sub})
MCParent == (media :> media @@ disk :> media @@ sub :> disk)
MCSymmetry == Permutations(MCWin)
=============================================================================
