SPECIFICATION Spec
CONSTANTS
  Pairs = {p1}
  Registered = {p1}
  Stages = {}
  Promoters = {}
  GraceConfigured = TRUE
  Invoices = {i1}
  Callers = {c1}
  Scanner = sc
  Graces = {g1, g2}
  Subs = {s1, s2}
  CreditSub = credit
  None = none
  Plans = {std}
  CreditPlans = {}
  MaxTries = 2
  i1 = i1
  i2 = i2
  g1 = g1
  g2 = g2
  s1 = s1
  s2 = s2
PROPERTIES
  ReactivationGetsLiveSubscription
CHECK_DEADLOCK FALSE
