SPECIFICATION FairSpec
CONSTANTS
  u1 = u1
  s1 = s1
  t1 = t1
  t2 = t2
  p1 = p1
  p2 = p2
  None = None
  Users = {u1}
  Places = {p1, p2}
  Sockets = {s1}
  Tasks = {t1, t2}
  TTL = 1
  UpdateInterval = 1
  MaxFaults = 1
INVARIANTS TypeOK
PROPERTIES ImplementsMap GoneForGood PushCatchesUp
