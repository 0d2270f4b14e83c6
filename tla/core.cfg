\* Two clients share one block, many writes; no time-outs, one dm_init each.
SPECIFICATION Spec
CONSTANTS
  s1 = s1
  s2 = s2
  b1 = b1
  b2 = b2
  Clients = {c1, c2}
  Servers = {s1}
  Blocks = {b1}
  Data = {zero, d1, d2}
  Zero = zero
  NoData = NoData
  NoBlock = NoBlock
  Owner <- OneServer
  Hosted = {b1}
  MaxRev = 3
  MaxInits = 1
  MaxQueue = 1
SYMMETRY Symmetry
INVARIANTS TypeOK Coherent NeverAhead InvalidIsOutdated NoFault AssociationsAgree
PROPERTIES NoLostUpdate ImplementsMemory
CHECK_DEADLOCK FALSE
