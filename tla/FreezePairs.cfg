SPECIFICATION MCSpec
CONSTANTS
  Pairs = {p1, p2}
  Registered = {p1}
  Stages = {t1, t2}
  Promoters = {r1, r2}
  GraceConfigured = TRUE
  Invoices = {i1}
  Callers = {c1}
  Scanner = sc
  Graces = {g1, g2}
  Subs = {s1}
  CreditSub = credit
  None = none
  Plans = {std, cr}
  CreditPlans = {cr}
  MaxTries = 2
  i1 = i1
  i2 = i2
  g1 = g1
  g2 = g2
  s1 = s1
  s2 = s2
INVARIANTS
  TypeOK
  SubscriptionOfItsPair
PROPERTIES
  RefinesLifecycle
  GraceEventuallyResolved
  JobsEnd
CHECK_DEADLOCK FALSE
