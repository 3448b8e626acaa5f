---------------------------- MODULE MCIdempotency ---------------------------
(* Small instances of Idempotency: the last request differs from the others *)
(* that carry its key.                                                      *)
EXTENDS Idempotency, TLC

CONSTANTS r1, r2, r3, r4

OneOther == [r \in Requests |-> IF r = r4 THEN "other" ELSE "same"]

\* The others are interchangeable.
Symmetry == Permutations({r1, r2, r3})
=============================================================================
