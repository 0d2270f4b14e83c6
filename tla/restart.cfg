\* The server ends and starts again; clients go on, reconnect or start anew.
SPECIFICATION RestartSpec
CONSTANTS
  s1 = s1
  b1 = b1
  Clients = {c1, c2}
  Servers = {s1}
  Blocks = {b1}
  Data = {zero, d1}
  Zero = zero
  NoData = NoData
  NoBlock = NoBlock
  Owner <- OneServer
  Hosted = {b1}
  MaxRev = 1
  MaxInits = 2
  MaxQueue = 1
  MaxCrashes = 1
  MaxStarts = 3
SYMMETRY Symmetry
INVARIANTS RestartTypeOK MappedSinceCoherent MappedSinceAgree
PROPERTIES MappedSinceWritesSafe
CHECK_DEADLOCK FALSE
