---------------------------- MODULE MCModelCache ----------------------------
EXTENDS ModelCache, TLC

CONSTANTS x1, x2, x3, byName, byAge

\* Two bindings of one SQL, and another SQL; all with the same fingerprint.
SqlText == (x1 :> byName) @@ (x2 :> byName) @@ (x3 :> byAge)
Collide == [q \in Queries |-> CHOOSE k \in Keys : TRUE]

\* Calls are interchangeable, and so are two bindings of one SQL.
Symmetry == Permutations(Calls) \cup Permutations({x1, x2})
=============================================================================
