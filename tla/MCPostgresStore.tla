-------------------------- MODULE MCPostgresStore --------------------------
EXTENDS PostgresStore, TLC

Symmetry == Permutations(Calls) \cup Permutations(Ids)
=============================================================================
