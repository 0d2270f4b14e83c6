\* Time-outs on: dm_block_update reads the answer to a dm_block_wait.
SPECIFICATION TimedSpec
CONSTANTS
  s1 = s1
  s2 = s2
  b1 = b1
  b2 = b2
  Clients = {c1, c2}
  Servers = {s1}
  Blocks = {b1}
  Data = {zero, d1, d2}
  Zero = zero
  NoData = NoData
  NoBlock = NoBlock
  Owner <- OneServer
  Hosted = {b1}
  MaxRev = 2
  MaxInits = 1
  MaxQueue = 2
SYMMETRY Symmetry
CHECK_DEADLOCK FALSE
INVARIANTS NoFault
