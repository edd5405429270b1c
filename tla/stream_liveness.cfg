SPECIFICATION FairSpec
CONSTANTS
  Addresses = {u1}
  NoAddress = NoAddress
  Recorders = {r1}
  MaxPids = 2
  RetryTimes = 1
  AutoRestart = TRUE
  RestartMode = "wvp"
  MkdirMayFail = TRUE
PROPERTY StreamsOrEnds
PROPERTY ExpiredRecordingEnds
CHECK_DEADLOCK FALSE
