SPECIFICATION MCSpec
CONSTANTS
  u1 = u1
  u2 = u2
  p1 = p1
  p2 = p2
  regular = regular
  premium = premium
  None = None
  Users = {u1, u2}
  Places = {p1, p2}
  Tiers = {regular, premium}
  Dist <- PlaceDist
  Radii = {1, 3}
  Regular = regular
  Syncs = {1}
  DbBacked = TRUE
  RateMax = 1
  MaxOps = 3
  Senders = {u1}
  Retiered = {u2}
INVARIANTS TypeOK FlagFounded
PROPERTIES SentWithConsent SentInRange SendEnds
CHECK_DEADLOCK FALSE
