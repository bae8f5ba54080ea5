SPECIFICATION Spec
CONSTANTS
  Players = {p1, p2, p3}
  Tasks = {t1, t2}
  Sweepers = {s1}
  NoPlayer = NoPlayer
  MinPlayers = 3
  MaxPoints = 2
  MaxRound = 2
  MaxFaults = 1
  Requests = {"start", "play", "pick", "expire", "resume"}
  SlowRotations = FALSE
SYMMETRY Symmetry
INVARIANTS JudgeAgreement JudgeRotates ScoresBackedByWins WinnerPlayed AnnouncedOnce
PROPERTIES ImplementsLedger
CHECK_DEADLOCK FALSE
