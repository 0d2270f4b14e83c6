\* Two clients whose answers may come too late, and one block.
SPECIFICATION TimeoutsSpec
CONSTANTS
  s1 = s1
  s2 = s2
  b1 = b1
  b2 = b2
  Clients = {c1, c2}
  Servers = {s1}
  Blocks = {b1}
  Data = {zero, d1}
  Zero = zero
  NoData = NoData
  NoBlock = NoBlock
  Owner <- TwoServers
  Hosted = {b1}
  MaxRev = 2
  MaxInits = 1
  MaxQueue = 1
SYMMETRY Symmetry
INVARIANTS ConfusionIsLocal
PROPERTIES OnTimeWritesSafe
CHECK_DEADLOCK FALSE
