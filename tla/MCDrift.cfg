SPECIFICATION FilledSpec
CONSTANTS
  u1 = u1
  u2 = u2
  u3 = u3
  t1 = t1
  t2 = t2
  a1 = a1
  a2 = a2
  a3 = a3
  a4 = a4
  None = None
  Sweeper = Sweeper
  Users = {u1}
  Tasks = {t1}
  Arcs = {a1, a2}
  Points <- North
  Queries <- NorthAsked
  Lookups = {}
  Movers = {}
  Starts <- NorthStarts
  Layouts <- AnyLayout
  StartTime = 0
  CosAt <- Slope
  CosScale = 1000
  ShardM = 1
  TTL = 0
  UpdateInterval = 1
  UpdateDistance = 2
  MaxTime = 0
  MaxOps = 1
INVARIANTS NeverMissed
