\* Two clients connect, ask twice and go, and others are refused, at any time.
SPECIFICATION Spec
CONSTANTS
  Threads = {t1, t2}
  Main = main
  NoThread = NoThread
  Order <- SomeTypes
  MaxRequests = 2
SYMMETRY Symmetry
INVARIANTS TypeOK RacesOnlyWhileFilling 
PROPERTIES TypeReadOnceFilled
CHECK_DEADLOCK FALSE
