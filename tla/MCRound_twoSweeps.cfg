SPECIFICATION Spec
CONSTANTS
  Players = {p1, p2, p3}
  Tasks = {t1}
  Sweepers = {s1, s2}
  NoPlayer = NoPlayer
  MinPlayers = 3
  MaxPoints = 1
  MaxRound = 2
  MaxFaults = 1
  Requests = {"start", "expire", "resume"}
  SlowRotations = FALSE
SYMMETRY Instances
INVARIANTS JudgeAgreement
CHECK_DEADLOCK FALSE
