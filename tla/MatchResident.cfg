SPECIFICATION Spec
CONSTANTS
  Workers = {r1, r2}
  Kinds = {"ready", "cancel", "read", "move"}
  Positions <- MCPositions
  StartingFEN = "w1"
  Moves <- MCMoves
  Turn <- MCTurn
  ApplyUCI <- MCApplyUCI
  Virtual <- BlackBot
  Resident <- BlackBot
  InitialClock = 1
  ReadyTimeout = 1
  HandoffDelay = 1
  ReconnectingWindow = 1
  GracePeriod = 1
  ReadyRounds = 2
  Rounds = 2
  StoreTries = 2
  MaxTime = 3
  MaxPly = 1
SYMMETRY Symmetry
INVARIANTS
  TypeOK
  RevisionPinsDocument
  StartedByBothInTime
  HistoryIsAGame
  HistoryReplays
PROPERTIES
  TerminalIsFinal
  ImplementsDuel
