SPECIFICATION FairSpec
CONSTANTS
  BufSize = 4
  CacheSize = 2
  ChunkSize = 2
  NL <- MCNewlines
  MaxStored = 5
  MaxErrors = 1
  MaxDuring = 1
  MaxWritten = 6
  MaxAnswer = 4
INVARIANTS CacheFits CopiesInOrder NothingLost OneLinePerRequest OneAnswerPerLine CutAtTheEnd ReceiverRestarts WireInOrder
PROPERTIES ImplementsFifo LinesAreAnswered EverythingSent
