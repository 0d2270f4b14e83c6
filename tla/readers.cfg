\* Three rounds of the reader test, whatever number count_spaces gives.
SPECIFICATION RSpec
CONSTANTS
  Clients <- Programs
  Blocks <- SharedBlocks
  Data = {0, 1, 2, 3, 4}
  Zero = 0
  Counted = {0, 1, 4}
  MaxRounds = 3
INVARIANTS OutputsAgree CleanSlate NoneFails
PROPERTIES RoundsEnd ZeroSpacesFail
CHECK_DEADLOCK FALSE
