---------------------------- MODULE MCPvpForfeit ----------------------------
(* PvpForfeit on the game of MCPvpMatch.                                   *)
EXTENDS PvpForfeit, MCPvpMatch
=============================================================================
