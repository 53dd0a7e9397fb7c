\* two plays of play_pcm, each after the workers came to rest
SPECIFICATION FairSpec
CONSTANTS
  MaxPlays = 2
  FileUnits = 3
  Starts = {0}
  Playbacks = {1}
  PreCap = 1
  DecCap = 1
  FrameUnits = 1
  Decoder = "pcm"
  Slow = FALSE
  TimeoutLimit = 1
  MayFail = FALSE
  Impatient = FALSE
  Prompt = TRUE
  Pauses = TRUE
  Tidy = TRUE
  SemInit = 1
  SemMax = 2
PROPERTY CallsReturn
PROPERTY RunEnds
PROPERTY StopSettles
