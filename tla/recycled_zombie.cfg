SPECIFICATION Spec
CONSTANTS
  Ids = {a}
  NoId = NoId
  Objs = {o1, o2}
  NoObj = NoObj
  Gens = {g1, g2}
  NoGen = NoGen
  Callers = {c1}
  Ops <- DetectAndRemove
  CloseChanCap = 2
  Recycle = TRUE
  PushMayFail = FALSE
  AutoRestart = FALSE
  MayClose = FALSE
SYMMETRY Symmetry
INVARIANT NoZombie
CHECK_DEADLOCK FALSE
