SPECIFICATION Spec
CONSTANTS
  Moves = {"e4", "d4"}
  LegalMoves <- MCLegalMoves
  MaxLedger = 2
  MaxTries = 2
  RetryLimit = 1
  Budgets <- MCBudgets
  Settings = {"random", "white"}
  Draws <- MCDraws
  MaxAttempts = 2
  MaxStarts = 2
  ProfileKeys = {"k1", "k2"}
  Users = {"alice", "bob"}
  FirstUser = "alice"
  PatchAttempts = 2
  Limits <- MCLimits
  MaxDuels = 2
  MaxRevision = 4
  MaxAnswers = 5
INVARIANTS NoMoveTwice ShownGameIsStored RetriesMakeOneGame StartsNeverConflict NoEditForgotten OwnValuesOnly RevisionPinsValue
PROPERTIES NoLostTurn RefusalIsHonest KeepsConfirmed NoEditOverwritten NoBlindWrite ScreenNeverGoesBack LobbyNeverReopens
CHECK_DEADLOCK FALSE
