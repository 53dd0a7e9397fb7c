\* two plays, the second before the workers have noticed the end of the first
SPECIFICATION Spec
CONSTANTS
  MaxPlays = 2
  FileUnits = 4
  Starts = {0, 2}
  Playbacks = {1}
  PreCap = 1
  DecCap = 2
  FrameUnits = 2
  Decoder = "wav"
  Slow = FALSE
  TimeoutLimit = 1
  MayFail = FALSE
  Impatient = FALSE
  Prompt = FALSE
  Pauses = TRUE
  Tidy = TRUE
  SemInit = 0
  SemMax = 1
INVARIANT HeardInOrder
PROPERTY StopSilences
PROPERTY WholeTrack
PROPERTY StartsAfterEnd
