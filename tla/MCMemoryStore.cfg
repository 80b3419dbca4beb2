SPECIFICATION FilledSpec
CONSTANTS
  u1 = u1
  u2 = u2
  u3 = u3
  t1 = t1
  t2 = t2
  a1 = a1
  a2 = a2
  a3 = a3
  a4 = a4
  None = None
  Sweeper = Sweeper
  Users = {u1, u2}
  Tasks = {t1, t2}
  Arcs = {a1, a2, a3}
  Points <- Strip
  Queries <- StripAsked
  Lookups = {u1}
  Movers = {u1}
  Starts <- StripStarts
  Layouts <- AnyLayout
  StartTime = 0
  CosAt <- Flat
  CosScale = 1
  ShardM = 2
  TTL = 0
  UpdateInterval = 1
  UpdateDistance = 2
  MaxTime = 1
  MaxOps = 2
SYMMETRY Sym
INVARIANTS TypeOK Placement OneHome SuppressionTracks NearbySound SteadyFound
