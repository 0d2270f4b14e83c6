\* Two threads and two SIGINTs at any time.
SPECIFICATION Spec
CONSTANTS
  Handlers = {h1, h2}
  MaxSignals = 2
INVARIANTS OneSigintSafe ClosedAtExit
PROPERTIES SigintQuits
CHECK_DEADLOCK FALSE
