SPECIFICATION FairSpec
CONSTANTS
  Workers = {r1, r2}
  Kinds = {"ready", "read", "resign"}
  Positions <- MCPositions
  StartingFEN = "w1"
  Moves <- MCMoves
  Turn <- MCTurn
  ApplyUCI <- MCApplyUCI
  Virtual <- NoBots
  Resident <- NoBots
  InitialClock = 1
  ReadyTimeout = 1
  HandoffDelay = 1
  ReconnectingWindow = 9
  GracePeriod = 1
  ReadyRounds = 1
  Rounds = 2
  StoreTries = 1
  MaxTime = 3
  MaxPly = 0
PROPERTY
  EventuallyOver
