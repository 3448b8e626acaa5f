--------------------------- MODULE MCTokenFamily ----------------------------
EXTENDS TokenFamily, TLC

\* Requests are interchangeable.
Symmetry == Permutations(Requests)
=============================================================================
