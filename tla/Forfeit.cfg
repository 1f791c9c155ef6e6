SPECIFICATION ForfeitSpec
CONSTANTS
  Workers = {r1,r2}
  Kinds = {"ready", "read", "pulse"}
  Positions <- MCPositions
  StartingFEN = "w1"
  Moves <- MCMoves
  Turn <- MCTurn
  ApplyUCI <- MCApplyUCI
  Virtual <- NoBots
  Resident <- NoBots
  InitialClock = 9
  ReadyTimeout = 1
  HandoffDelay = 1
  ReconnectingWindow = 1
  GracePeriod = 3
  ReadyRounds = 1
  Rounds = 1
  StoreTries = 1
  MaxTime = 6
  MaxPly = 0
SYMMETRY Symmetry
INVARIANT
  GraceIsServed
