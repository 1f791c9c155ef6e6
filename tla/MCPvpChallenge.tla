--------------------------- MODULE MCPvpChallenge ---------------------------
EXTENDS PvpChallenge, TLC

Symmetry == Permutations(Workers) \cup Permutations(Ids)
=============================================================================
