-------------------------- MODULE MCDatabaseQueue --------------------------
EXTENDS DatabaseQueue, TLC

\* Workers are interchangeable, and so are pipelines.
Symmetry == Permutations(Workers) \cup Permutations(Chains)
=============================================================================
