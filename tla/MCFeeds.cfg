SPECIFICATION FairSpec
CONSTANTS
  p1 = p1
  p2 = p2
  x1 = x1
  None = None
  Null = Null
  Kinds = {"msg", "loc"}
  Peers = {p1, p2}
  Venues = {p2}
  Pushes = {x1}
  BlockTTL = 2
  MaxDelay = 2
  MaxMsgs = 2
  MaxOps = 3
  MaxFaults = 1
INVARIANTS TypeOK BlockHonoured
PROPERTIES NearbyConverges ListConverges ThreadSent
