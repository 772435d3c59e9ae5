SPECIFICATION SessionsSpec
CONSTANTS
  s1 = s1
  s2 = s2
  p1 = p1
  p2 = p2
  r1 = r1
  c1 = c1
  NoIdentity = NoIdentity
  Free = Free
  Gate = Gate
  Other = Other
  None = None
  Sessions = {s1, s2}
  Contents = {c1, c2}
  MaxRounds = 2
  Pools = {p1, p2}
  PoolOf <- PoolEach
  Brokers = {b1, b2}
  Workers = {}
  MaxShas = 5
  MaxCrashes = 2
  MaxOthers = 1
  MaxLost = 1
  MaxRenames = 1
  Remotes = {r1}
  RemoteOf <- OneRemote
  Creations = {n1}
  Reconcilers = {k1, k2}
  Creator = Creator
  Runtime = Runtime
  Nobody = Nobody
  MaxDeaths = 2
SYMMETRY Symmetric
CONSTRAINT Bounds
INVARIANTS CreationTypeOK PublishedWhole PublishedOnce IntentFindable BrokerTypeOK DeliveredLanded WriteAhead RecoveryExact AtMostOnce LaneExclusive
PROPERTIES NothingLiveRemoved MainOnlyGrows ImplementsDelivery
CHECK_DEADLOCK FALSE
