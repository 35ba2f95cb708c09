CHECK_DEADLOCK FALSE
SPECIFICATION MCSpec
CONSTANTS
  Pair = pair
  Gates = {g1}
  DefaultOn = {g1}
  Versions = {v1}
  Requests = {r1, r2}
  VersionOf <- MCVersionOf
  Verifiers = {w1}
  RateMax = 1
  Term = 1
  MaxTime = 2
  MaxChanges = 2
  None = none
  Plans = {p1, p2}
  FirstPlan = p1
  CreditPlans = {}
  Overridden = {p1}
  Inline = inline
  Changes = {ch1, ch2}
  MaxOperations = 3
  NoPrice = null
  Posts = {u1, u2, u3}
  KeyOf <- MCKeyOf
  Activations = {m1}
  PoolSize = 2
  NoModel = null
  Widths = {0, 1, 3}
  UnitPrices = {1, 3}
  FlatFees = {0, 5}
  MaxTiers = 3
  MaxUnits = 5
  Unbounded = null
  DedupKeys = {k1}
  NoKey = null
  Threshold <- MCThreshold
  Contacts <- MCContacts
  SmsContacts = {c2}
  Scanners = {s1, s2}
  MaxAlerts = 1
  MaxFires = 2
  MaxAge = 2
  MaxFaults = 1
  AddOnRequests = {q1, q2, q3}
  NoItem = none
  MaxItems = 2
  MonthDays <- MCMonthDays
  AnchorDays = {1, 3, 4}
  MaxBufferSize = 2
  MaxBatch = 2
  MaxEvents = 3
  MaxMetricFaults = 2
  BucketLength = 2
  CronOffset = 1
  OldestEvent = 5
  FutureSkew = 1
  MetricEvents = {e1, e2}
  LastTick = 7
  Controls = {auto, human}
  HumanControls = {human}
  Cadence <- MCCadence
  MaxDays = 1
  MaxRuns = 2
  MaxSignals = 2
  MaxEvalFaults = 1
  Unevaluated = none
  r1 = r1
  r2 = r2
  v1 = v1
  w1 = w1
  u1 = u1
  u2 = u2
  u3 = u3
  k1 = k1
  s1 = s1
  s2 = s2
  ch1 = ch1
  ch2 = ch2
  c1 = c1
  c2 = c2
  c3 = c3
  n1 = n1
  n2 = n2
  n3 = n3
  n4 = n4
  n5 = n5
  Creations = {n1, n2, n3, n4, n5}
  Wanted <- MCWanted
  NoObject = none
  MaxObjects = 3
  Settings = {o1, o2, o3}
  NoEnd = null
INVARIANTS
  ServicesTypeOK
  ChainsAgree
  AppliedWasCharged
  GrandfatheredOnce
  ChargedOnce
  PricesAreGraduated
  QueuedOnce
  EveryContactTried
  CancelledNotBilled
  NoMonthGrantedTwice
  MetricsInOrder
  ClosedBucketIsWhole
  DropIsNotified
  CompletedRunIsWhole
  CatalogueMatchesStripe
  LatestOverrideInForce
PROPERTIES
  LeaseHonoursEarlierDecisions
  DeadLeasesStayDead
  LimiterRecovers
  PostsEnd
  StaleAlertEscalates
  MetricsDrain
