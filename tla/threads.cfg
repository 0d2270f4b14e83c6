\* The handler threads implement the atomic handlers, and lose no wake-up.
SPECIFICATION FairSpec
CONSTANTS
  s1 = s1
  b1 = b1
  Clients = {c1, c2}
  Servers = {s1}
  Blocks = {b1}
  Data = {zero, d1}
  Zero = zero
  NoData = NoData
  NoBlock = NoBlock
  Owner <- OneServer
  Hosted = {b1}
  MaxRev = 1
  MaxInits = 1
  MaxQueue = 1
INVARIANTS NoLostWakeup
PROPERTIES ImplementsSystem WaitReturns
CHECK_DEADLOCK FALSE
