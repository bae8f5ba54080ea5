SPECIFICATION FairSpec
CONSTANTS
  Players = {p1, p2, p3}
  Tasks = {t1, t2}
  Sweepers = {s1}
  NoPlayer = NoPlayer
  MinPlayers = 3
  MaxPoints = 1
  MaxRound = 2
  MaxFaults = 0
  Requests = {"start", "leave", "drop", "sweep", "resume"}
  SlowRotations = FALSE
PROPERTIES RoundOneFollows
CHECK_DEADLOCK FALSE
