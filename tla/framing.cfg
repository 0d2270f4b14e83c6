\* One client and many calls, texts that arrive in two parts.
SPECIFICATION FairSpec
CONSTANTS
  Clients = {c1}
  Parts = 2
  MaxCalls = 4
INVARIANTS TypeOK HandledInOrder TakenInOrder
PROPERTIES ThreadsEnd
CHECK_DEADLOCK FALSE
