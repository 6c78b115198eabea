---------------------------- MODULE MCThumbnails ----------------------------
(* Bounds for TLC: two files in one directory, none in the other. *)
EXTENDS Thumbnails, TLC

CONSTANTS a, b, home, usb, s1, s2, w1, w2

MCFiles == {a, b}
MCDirs == {home, usb}
MCDirOf == (a :> home @@ b :> home)
MCSlots == {s1, s2}
MCWindows == {w1, w2}
MCSymmetry == Permutations(MCWindows)
=============================================================================
