\* two recordings, wav or pcm, endless or not, stopped at any time
SPECIFICATION FairSpec
CONSTANTS
  MaxRecordings = 2
  MaxFrames = 3
  Types = {"wav", "pcm"}
  Durations = {0, 2}
  CaptureUnits = 2
  FrameUnits = 3
  HeaderUnits = 2
  BlockAlign = 2
  RecordCap = 2
  EncodeCap = 4
  MayFail = FALSE
  Impatient = FALSE
  SemInit = 1
  SemMax = 2
PROPERTY FileIsWhole
PROPERTY CallsReturn
PROPERTY RecordingEnds
PROPERTY StopEnds
PROPERTY IdleSettles
