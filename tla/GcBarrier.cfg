SPECIFICATION QSpec
CONSTANTS
  s1 = s1
  s2 = s2
  p1 = p1
  p2 = p2
  r1 = r1
  NoIdentity = NoIdentity
  Free = Free
  Gate = Gate
  Other = Other
  None = None
  Sessions = {s1, s2}
  Contents = {c1}
  MaxRounds = 1
  Pools = {p1, p2}
  PoolOf <- PoolEach
  Brokers = {}
  Workers = {w1, w2}
  MaxShas = 4
  MaxCrashes = 0
  MaxOthers = 0
  MaxLost = 0
  MaxRenames = 0
  Jobs = 2
  Controls = {"gc"}
  MaxJobs = 3
  MaxOutages = 0
  MaxStartFaults = 0
  Remotes = {r1}
  RemoteOf <- OneRemote
SYMMETRY Symmetric
PROPERTIES FifoStart
CHECK_DEADLOCK FALSE
