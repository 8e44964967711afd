------------------------------- MODULE MCCart -------------------------------
EXTENDS Cart, TLC

CONSTANTS c1, c2, c3, c4, u, p, q

CartSymmetry == Permutations(Calls) \cup Permutations(Products)
=============================================================================
