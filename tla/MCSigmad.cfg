SPECIFICATION FairSpec
CONSTANTS
  Clients = {"recorder", "user"}
  KeepAlive = {"user"}
  MaxRequests <- MCRequests
  MaxConns = 2
  Forwarded = {1}
INVARIANTS AnswerIsOwn TwiceOnlyAfterReuse
PROPERTIES RecordIsFresh StopCompletes
CHECK_DEADLOCK FALSE
