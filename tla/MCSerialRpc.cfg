SPECIFICATION FairSpec
CONSTANTS
  MaxRequests = 3
  MaxErrors = 1
INVARIANTS QuietMeansOwn AnswersInOrder
PROPERTIES CallsAsPromised EveryCallEnds
CHECK_DEADLOCK FALSE
