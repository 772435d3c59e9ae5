SPECIFICATION QSpec
CONSTANTS
  s1 = s1
  s2 = s2
  p1 = p1
  p2 = p2
  r1 = r1
  NoIdentity = NoIdentity
  Free = Free
  Gate = Gate
  Other = Other
  None = None
  Sessions = {s1, s2}
  Contents = {c1, c2}
  MaxRounds = 2
  Pools = {p1, p2}
  PoolOf <- PoolEach
  Brokers = {}
  Workers = {w1, w2}
  MaxShas = 3
  MaxCrashes = 2
  MaxOthers = 0
  MaxLost = 0
  MaxRenames = 0
  Jobs = 2
  Controls = {"recover", "discard", "gc"}
  MaxJobs = 3
  MaxOutages = 1
  MaxStartFaults = 0
  Remotes = {r1}
  RemoteOf <- OneRemote
SYMMETRY Symmetric
CONSTRAINT CrashesOrLanes
INVARIANTS QueueTypeOK AcceptedInputs DeliveredHonest GcAlone RecoveryExact
PROPERTIES FailureHonest ImplementsDelivery LandsInOrder
CHECK_DEADLOCK FALSE
