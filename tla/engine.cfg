SPECIFICATION FairSpec
CONSTANTS
  Ids = {"a", "b"}
  Calls = {q1}
  PeerCalls = {p1}
  Limits <- SomeLimits
  Loads <- SomeLoads
INVARIANT TypeOK
INVARIANT NothingLeft
INVARIANT RoomWhenLetIn
PROPERTY EndsWhenTold
CHECK_DEADLOCK FALSE
