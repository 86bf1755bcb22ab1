SPECIFICATION MCSpec
CONSTANTS
  Channels = {c1}
  MaxSockets = 3
  MaxDialers = 2
  MaxHandshakes = 3
  MaxLinkFaults = 2
  MaxReconnects = 1
  MaxSeq = 4
  PageLimit = 2
  MaxWire = 3
  MaxStreamFaults = 1
  MaxBad = 2
  Pages = {p1}
  Calls = {k1, k2}
  Targets = {t1, t2}
  MaxGen = 2
  MaxAsks = 1
  SpareTarget = t2
  Kinds = {"k1", "k2"}
  Viewers = {"v1", "v2"}
  KindsOf <- MCKindsOf
INVARIANTS LinkInv StreamInv PoolInv ChannelInv
PROPERTIES TransportRecovers
CHECK_DEADLOCK FALSE
