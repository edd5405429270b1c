SPECIFICATION FairSpec
CONSTANTS
  QueueCap = 1
  MaxFrames = 4
  MaxTime = 1
  EndTimes = {1}
  Labels = {l1}
  Showing <- FirstTwo
  StoreMayFail = FALSE
INVARIANT TypeOK
INVARIANT ResultsAreRecent
INVARIANT InOrder
INVARIANT LabelIsPictured
PROPERTY LoopEndsWithSession
PROPERTY ImplementsFeed
CHECK_DEADLOCK FALSE
