SPECIFICATION Spec
CONSTANTS
  Players = {alice, bob, otto}
  Bots = {otto}
  Owner = alice
  Ids = {c1, c2}
  Workers = {r1, r2}
  Kinds = {"create", "accept", "leave"}
  RosterTTL = 1
  ChallengeTTL = 0
  ChallengeCooldown = 1
  MaxTime = 1
  MaxCrashes = 1
SYMMETRY Symmetry
ACTION_CONSTRAINT Races
INVARIANTS
  TypeOK
  OnePendingPerPair
  DuelsAreAgreed
PROPERTIES
  ResolvedIsFinal
  DuelsArePermanent
  ImplementsAgreement
