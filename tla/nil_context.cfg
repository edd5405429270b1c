SPECIFICATION Spec
CONSTANTS
  QueueCap = 1
  MaxFrames = 2
  MaxTime = 1
  EndTimes <- SomeEnds
  Labels = {l1}
  Showing <- FirstTwo
  StoreMayFail = FALSE
INVARIANT NoPanic
CHECK_DEADLOCK FALSE
