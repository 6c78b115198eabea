---------------------------- MODULE MCDirectory ----------------------------
(* Two files, two windows: the first shows everything, the second hides    *)
(* one name.                                                               *)
EXTENDS Directory, TLC

CONSTANTS a, b, w1, w2

MCShows == w1 :> {a, b} @@ w2 :> {a}
MCShows1 == w1 :> {a, b}
=============================================================================
