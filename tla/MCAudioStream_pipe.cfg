\* decode_stream, record_stream, encode_stream: never reset; Linux semaphores
SPECIFICATION FairSpec
CONSTANTS
  BufSize = 3
  ReadSizes = {1, 2, 4}
  WriteSizes = {2, 3}
  SeqMod = 4
  SemInit = 1
  SemMax = 3
  Seekable = FALSE
INVARIANT ReaderNotStranded
PROPERTY RestLeavesNoSleeper
PROPERTY ShortReadIsTheEnd
PROPERTY FinishedDrains
PROPERTY WriteReturns
