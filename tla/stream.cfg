SPECIFICATION HistorySpec
CONSTANTS
  Addresses = {u1, u2}
  NoAddress = NoAddress
  Recorders = {r1}
  MaxPids = 2
  RetryTimes = 1
  AutoRestart = TRUE
  RestartMode = "wvp"
  MkdirMayFail = FALSE
SYMMETRY Symmetry
INVARIANT TypeOK
INVARIANT NoLostProcess
INVARIANT LastAddressWins
INVARIANT RecordingIsReal
INVARIANT OnlyRacesLeavePullers
CHECK_DEADLOCK FALSE
