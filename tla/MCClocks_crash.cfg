SPECIFICATION FairSpec
CONSTANTS
  Handlers = {h1, h2}
  Sweepers = {s1}
  None = None
  PlayWindow = 1
  GraceWindow = 1
  JudgeWindow = 2
  MaxChanges = 0
  MaxFaults = 1
PROPERTIES RoundEnds
CHECK_DEADLOCK FALSE
