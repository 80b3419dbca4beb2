SPECIFICATION Spec
CONSTANTS
  a = a
  b = b
  c1 = c1
  c2 = c2
  p1 = p1
  p2 = p2
  None = None
  Users = {a, b}
  Venues = {v1}
  v1 = v1
  Bootstrap = a
  Clients = {c1, c2}
  s1 = s1
  Sessions = {s1}
  Cascade = {"messages"}
  Kept = {}
  Passwords = {p1, p2}
  SelfGuard = FALSE
  SessionTTL = 1
  MaxVersion = 2
  MaxRequests = 4
  MaxFaults = 1
SYMMETRY Symmetry
INVARIANTS TypeOK TokenTellsTruth AdminChecksAgree LoginOnce DeletedForGood
PROPERTIES RevokedForGood LoginProof
CHECK_DEADLOCK FALSE
