CHECK_DEADLOCK FALSE
SPECIFICATION UsageSpec
CONSTANTS
  Posts = {u1, u2}
  KeyOf <- MCKeyOf
  Activations = {m1, m2}
  PoolSize = 2
  NoModel = null
INVARIANTS
  CacheAgreesWithDatabase
