SPECIFICATION FairSpec
CONSTANTS
  MaxRequests = 1
  MaxErrors = 0
INVARIANTS ResponseIsALine
CHECK_DEADLOCK FALSE
