\* one recording with samples of two bytes
SPECIFICATION FairSpec
CONSTANTS
  MaxRecordings = 1
  MaxFrames = 2
  Types = {"wav"}
  Durations = {0, 1}
  CaptureUnits = 2
  FrameUnits = 3
  HeaderUnits = 2
  BlockAlign = 2
  RecordCap = 2
  EncodeCap = 4
  MayFail = FALSE
  Impatient = FALSE
  SemInit = 1
  SemMax = 2
PROPERTY HeaderFits
