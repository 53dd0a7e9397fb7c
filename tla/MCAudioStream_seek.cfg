\* preprocess_stream: reset by seeks; FreeRTOS semaphores
SPECIFICATION Spec
CONSTANTS
  BufSize = 3
  ReadSizes = {1, 2, 4}
  WriteSizes = {2, 3}
  SeqMod = 4
  SemInit = 0
  SemMax = 1
  Seekable = TRUE
INVARIANT WriterNotStranded
PROPERTY OnlyStartStrands
PROPERTY ImplementsByteStream
