CONSTANTS
  SocketIds = {s1, s2}
  Players = {p}
  Rooms = {r}
  None = None
  Expiries = {e1}
  MaxFaults = 1
  MaxDrops = 1
SPECIFICATION FairSpec
CHECK_DEADLOCK FALSE
CONSTRAINT Followed
INVARIANTS ServerTypeOK Delivery NobodyLeftBehind PresenceFollowsSockets NothingLeaks DrainedBeforeDatabase CleanExit
PROPERTIES LapsedIsHandled AlwaysExits
