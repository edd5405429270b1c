SPECIFICATION Spec
CONSTANTS
  Addresses = {u1}
  NoAddress = NoAddress
  Recorders = {r1}
  MaxPids = 2
  RetryTimes = 1
  AutoRestart = TRUE
  RestartMode = "wvp"
  MkdirMayFail = FALSE
INVARIANT NothingPullsAtTheEnd
CHECK_DEADLOCK FALSE
