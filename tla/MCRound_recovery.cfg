SPECIFICATION FairSpec
CONSTANTS
  Players = {p1, p2, p3}
  Tasks = {t1}
  Sweepers = {s1}
  NoPlayer = NoPlayer
  MinPlayers = 3
  MaxPoints = 2
  MaxRound = 2
  MaxFaults = 1
  Requests = {"start", "leave", "drop", "end", "sweep", "resume"}
  SlowRotations = FALSE
INVARIANTS OneRoundInPlay
PROPERTIES RotationCompletes
CHECK_DEADLOCK FALSE
