------------------------------ MODULE MCImages ------------------------------
EXTENDS Images, TLC
CONSTANTS i1, i2, j1, j2, j3, l1, l2, n1, n2

\* Two images of one name in different folders.
OneName == [i \in Images |-> "image"]

Symmetric == Permutations({i1, i2}) \cup Permutations({j1, j2, j3})
             \cup Permutations({l1, l2}) \cup Permutations({n1, n2})
=============================================================================
