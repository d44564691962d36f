SPECIFICATION FairSpec
CONSTANTS
  Period = 2
  MaxWraps = 2
INVARIANTS ReadingIsCurrent ElapsedInRange
PROPERTIES ElapsedReturns
CHECK_DEADLOCK FALSE
