SPECIFICATION Spec
CONSTANTS
  Workers = {r1, r2}
  Kinds = {"ready", "move", "resign"}
  Positions <- MCPositions
  StartingFEN = "w1"
  Moves <- MCMoves
  Turn <- MCTurn
  ApplyUCI <- MCApplyUCI
  Virtual <- NoBots
  Resident <- NoBots
  InitialClock = 2
  ReadyTimeout = 1
  HandoffDelay = 1
  ReconnectingWindow = 2
  GracePeriod = 0
  ReadyRounds = 2
  Rounds = 2
  StoreTries = 1
  MaxTime = 3
  MaxPly = 2
SYMMETRY Symmetry
INVARIANTS
  HistoryIsAGame
  ClocksAccountForTime
  TimeoutIsDeserved
PROPERTY
  ImplementsDuel
