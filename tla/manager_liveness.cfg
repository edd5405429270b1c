SPECIFICATION FairSpec
CONSTANTS
  Ids = {a}
  NoId = NoId
  Objs = {o1}
  NoObj = NoObj
  Gens = {g1}
  NoGen = NoGen
  Callers = {c1}
  Ops <- AllOps
  CloseChanCap = 1
  Recycle = FALSE
  PushMayFail = TRUE
  AutoRestart = TRUE
  MayClose = TRUE
INVARIANT Inv
PROPERTY RegisteredIsUsed
PROPERTY ResetEndsRun
PROPERTY ImplementsRegistry
CHECK_DEADLOCK FALSE
