\* one sender, one receiver (decode_queue), Linux semaphores
SPECIFICATION FairSpec
CONSTANTS
  Senders = {s1}
  Receivers = {r1}
  Data = {a, b}
  NoData = nodata
  ItemCount = 1
  SemInit = 1
  SemMax = 5
INVARIANT SendersNotStranded
INVARIANT ReceiversNotStranded
PROPERTY ImplementsFairChannel
PROPERTY SendReturns
