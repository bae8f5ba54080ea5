SPECIFICATION Spec
CONSTANTS
  Players = {p1, p2, p3}
  Tasks = {t1, t2}
  Sweepers = {}
  NoPlayer = NoPlayer
  MinPlayers = 3
  MaxPoints = 1
  MaxRound = 1
  MaxFaults = 0
  Requests = {"toggle", "start", "play", "pick", "leave", "drop", "return", "join", "expire", "end"}
  SlowRotations = FALSE
SYMMETRY Symmetry
INVARIANTS TypeOK LastAnswerOpensJudging WinEndsGame
CHECK_DEADLOCK FALSE
CONSTRAINT ToggledInCompany
