\* Three clients, one of them refused by a server and one without a key; clients leave, and servers may end by it.
SPECIFICATION Spec
CONSTANTS
  c1 = c1
  c2 = c2
  c3 = c3
  s1 = s1
  s2 = s2
  Clients = {c1, c2, c3}
  Order <- TwoServers
  Wrong <- OneWrong
  NoKey <- OneNoKey
  Nobody = Nobody
  Backlog = 2
INVARIANTS TypeOK Authenticated SocketHasThread EndedByServed
PROPERTIES InitEnds
CHECK_DEADLOCK FALSE
