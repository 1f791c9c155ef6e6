SPECIFICATION Spec
CONSTANTS
  Moves = {"e4", "d4"}
  LegalMoves <- MCLegalMoves
  MaxLedger = 2
  MaxTries = 2
  RetryLimit = 1
  Budgets <- MCRetried
  Settings = {"random", "white"}
  Draws <- MCDraws
  MaxAttempts = 1
  MaxStarts = 1
  ProfileKeys = {"k1", "k2"}
  Users = {"alice", "bob"}
  FirstUser = "alice"
  PatchAttempts = 2
  Limits <- MCTwoDevices
  MaxDuels = 1
  MaxRevision = 1
  MaxAnswers = 1
PROPERTY RetryNeverMovesTwice
CHECK_DEADLOCK FALSE
