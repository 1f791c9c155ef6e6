----------------------------- MODULE MCPvpMatch -----------------------------
EXTENDS PvpMatch, TLC

\* A game of four positions: quiet moves lead on, and from the second ply on a
\* move may mate.
MCPositions == {"w1", "b1", "w2", "b2"}
MCTurn == "w1" :> "w" @@ "w2" :> "w" @@ "b1" :> "b" @@ "b2" :> "b"
MCMoves == {"quiet", "mate"}
Quiet == "w1" :> "b1" @@ "b1" :> "w2" @@ "w2" :> "b2" @@ "b2" :> "w2"
MCApplyUCI ==
  [p \in MCPositions |-> [m \in MCMoves |->
     IF m = "quiet"
       THEN [legal |-> TRUE, fen |-> Quiet[p], status |-> "active", result |-> "none"]
     ELSE IF p = "w1" THEN [legal |-> FALSE]
     ELSE [legal |-> TRUE, fen |-> Quiet[p], status |-> "finished", result |-> WinFor(MCTurn[p])]]]

NoBots == {}
BlackBot == {"b"}
Symmetry == Permutations(Workers)
=============================================================================
