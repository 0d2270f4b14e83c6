\* Every file of up to three entries over three servers and two blocks.
SPECIFICATION ConfigSpec
CONSTANTS
  s1 = s1
  s2 = s2
  s3 = s3
  Ids <- ThreeIds
  Blocks = {b1, b2}
  NoServer = NoServer
  MaxEntries = 3
INVARIANTS OwnerHosts LastEntryCounts
CHECK_DEADLOCK FALSE
