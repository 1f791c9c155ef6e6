SPECIFICATION Spec
CONSTANTS
  Players = {alice, bob, carol}
  Bots = {}
  Owner = alice
  Ids = {c1, c2}
  Workers = {r1, r2}
  Kinds = {"create", "accept"}
  RosterTTL = 1
  ChallengeTTL = 1
  ChallengeCooldown = 1
  MaxTime = 0
  MaxCrashes = 0
SYMMETRY Symmetry
INVARIANT
  OneDuelAtATime
