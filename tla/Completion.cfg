SPECIFICATION SpecEither
CONSTANTS
  alice = alice
  bob = bob
  carol = carol
  c1 = c1
  m1 = m1
  m2 = m2
  Players = {alice, bob}
  Matches = {m1, m2}
  White <- OneWhite
  Black <- OneBlack
  Rated = {m1}
  Outcomes <- AnyOutcome
  InitialRatings = {0, 100}
  Workers = {r1, r2}
INVARIANTS
  TypeOK
  AtMostOnce
  RatedByTheResult
PROPERTIES
  EventuallySettled
  PointsFollowTheResult
  RetriedIsCompleted
