SPECIFICATION DevicesSpec
CONSTANTS
  Recorders = {r1, r2}
  Players = {p1, p2}
  Application = app
  Nobody = nobody
  MaxOpens = 3
  MaxPlays = 3
  MaxCalls = 1
  MayFail = TRUE
CHECK_DEADLOCK FALSE
INVARIANT CaptureExclusive
INVARIANT CaptureSafe
INVARIANT PlaybackSafe
PROPERTY OpenReturns
