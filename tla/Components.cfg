SPECIFICATION Spec
CONSTANTS
  Nobody = Nobody
  None = None
  ClientProcs = {k1, k2, k3}
  MaxStops = 1
  Creates = {c1}
  Dependents = {d1}
  SourceOf <- Sources
  LifecycleRuns <- LifecycleCommands
  StepCount = 2
  TornBan = TornBan
  RequestIntents = {i1, i2}
  RequestRuns <- RequestCommands
  MaxRecords = 1
  MaxMishaps = 1
  Launchers = {l1, l2}
  Launcher = l1
  TargetRuns = {k1, k2}
  Digests = {"d1", "d2"}
  HeadlessRuns = {h1}
  MaxRequests = 1
  MaxSignals = 2
  Forks <- ForkCalls
  MaxWrites = 1
  MaxResumes = 2
  MaxMessages = 2
  Sessions = {1, 2}
  Resumers = {k1, k2}
  Keepers = {g1}
  Canonical = Canonical
  App = App
  Outsider = Outsider
  Elsewhere = Elsewhere
  Failed = Failed
  Plain = Plain
  Qualified = Qualified
  c1 = c1
  d1 = d1
  g1 = g1
  h1 = h1
  h2 = h2
  i1 = i1
  i2 = i2
  k1 = k1
  k2 = k2
  k3 = k3
  r1 = r1
  r2 = r2
  s1 = s1
  s2 = s2
  watch = watch
INVARIANTS
  TypeOK
  LifecycleSafe
  AnswerSafe
  LocatorKept
  LaunchSafe
  TargetSafe
  HeadlessSafe
  HistorySafe
  SurfaceSafe
  OmpSafe
  BootstrapSafe
  ViewSafe
  RetirementSafe
  GuardSafe
PROPERTIES
  NoReplay
  ResultKept
CHECK_DEADLOCK FALSE
