SPECIFICATION HistorySpec
CONSTANTS
  Ids = {a}
  NoId = NoId
  Objs = {o1, o2}
  NoObj = NoObj
  Gens = {g1, g2}
  NoGen = NoGen
  Callers = {c1}
  Ops <- DetectOps
  CloseChanCap = 1
  Recycle = FALSE
  PushMayFail = FALSE
  AutoRestart = TRUE
  MayClose = TRUE
SYMMETRY Symmetry
INVARIANT TypeOK
INVARIANT NoZombie
INVARIANT NoStrayProcess
INVARIANT OnlyRacesHideRuns
CHECK_DEADLOCK FALSE
