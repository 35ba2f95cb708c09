CHECK_DEADLOCK FALSE
SPECIFICATION Spec
CONSTANTS
  Connects = {c1, c2}
  Disconnects = {d1}
  Pings = {p1}
  Flush = flush
  Refreshes = {r1, r2}
  None = none
  MaxBufferSize = 2
  MaxEvents = 2
  r1 = r1
  r2 = r2
INVARIANTS
  NoLoopAfterDisconnect
