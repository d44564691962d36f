SPECIFICATION FairSpec
CONSTANTS
  Sticks = {"pitch", "roll"}
  Positions <- MCPositions
  Tolerance = 1
  StartAge = 1
  RecordAge = 2
  MaxFix = 3
INVARIANTS
  HoldYields
  TargetIsRecent
PROPERTY
  HoldBegins
