SPECIFICATION QSpec
CONSTANTS
  s1 = s1
  s2 = s2
  p1 = p1
  p2 = p2
  r1 = r1
  NoIdentity = NoIdentity
  Free = Free
  Gate = Gate
  Other = Other
  None = None
  Sessions = {s1}
  Contents = {c1}
  MaxRounds = 1
  Pools = {p1}
  PoolOf <- OnePool
  Brokers = {}
  Workers = {w1}
  MaxShas = 2
  MaxCrashes = 0
  MaxOthers = 0
  MaxLost = 0
  MaxRenames = 0
  Jobs = 1
  Controls = {"gc"}
  MaxJobs = 2
  MaxOutages = 2
  MaxStartFaults = 0
  Remotes = {r1}
  RemoteOf <- OneRemote
SYMMETRY Symmetric
INVARIANTS NoStuckControl
CHECK_DEADLOCK FALSE
