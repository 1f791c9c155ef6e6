SPECIFICATION Spec
CONSTANTS
  alice = alice
  bob = bob
  carol = carol
  m1 = m1
  m2 = m2
  Players = {alice, bob, carol}
  Matches = {m1, m2}
  White <- TwoWhite
  Black <- TwoBlack
  Rated = {m1, m2}
  Outcomes <- WinThenLoss
  InitialRatings = {400, 416}
  Workers = {r1}
INVARIANT
  AtMostOnce
