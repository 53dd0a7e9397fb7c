\* two recordings in which everything may fail
SPECIFICATION Spec
CONSTANTS
  MaxRecordings = 2
  MaxFrames = 2
  Types = {"wav"}
  Durations = {0, 1}
  CaptureUnits = 1
  FrameUnits = 2
  HeaderUnits = 2
  BlockAlign = 2
  RecordCap = 1
  EncodeCap = 2
  MayFail = TRUE
  Impatient = TRUE
  SemInit = 1
  SemMax = 2
CHECK_DEADLOCK FALSE
INVARIANT OneRecording
PROPERTY FileInOrder
