CHECK_DEADLOCK FALSE
SPECIFICATION FairSpec
CONSTANTS
  Invoices = {n1}
  MaxSent = 3
  Events = {subscribe, create, finalize, fail, pay, foreign}
  Kind <- MCKind
  Of <- AboutN1
  Productless = {foreign}
  n1 = n1
  subscribe = subscribe
  create = create
  finalize = finalize
  fail = fail
  pay = pay
  foreign = foreign
INVARIANTS
  TypeOK
  DispatchedHasJob
  PaymentFailureReachesBilling
PROPERTIES
  ProcessedOnce
  JobsSettle
