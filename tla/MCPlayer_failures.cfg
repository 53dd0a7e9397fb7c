\* one play of a file that fits the buffer; seeks, failures, timeouts, info_only plays
SPECIFICATION Spec
CONSTANTS
  MaxPlays = 1
  FileUnits = 3
  Starts = {0, 2}
  Playbacks = {0, 1}
  PreCap = 3
  DecCap = 2
  FrameUnits = 2
  Decoder = "wav"
  Slow = TRUE
  TimeoutLimit = 1
  MayFail = TRUE
  Impatient = TRUE
  Prompt = FALSE
  Pauses = TRUE
  Tidy = TRUE
  SemInit = 1
  SemMax = 2
INVARIANT HeardInOrder
PROPERTY StopSilences
PROPERTY WholeTrack
