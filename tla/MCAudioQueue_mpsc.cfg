\* two senders, one receiver (preprocess_queue, play_queue), Linux semaphores
SPECIFICATION FairSpec
CONSTANTS
  Senders = {s1, s2}
  Receivers = {r1}
  Data = {a, b}
  NoData = nodata
  ItemCount = 1
  SemInit = 1
  SemMax = 5
PROPERTY ImplementsChannel
PROPERTY StoredIsReceived
