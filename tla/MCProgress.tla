----------------------------- MODULE MCProgress -----------------------------
EXTENDS Progress
CONSTANTS i1, i2, p1, p2
=============================================================================
