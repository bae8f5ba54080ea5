SPECIFICATION FairSpec
CONSTANTS
  Handlers = {h1, h2}
  Sweepers = {s1}
  None = None
  PlayWindow = 1
  GraceWindow = 1
  JudgeWindow = 2
  MaxChanges = 1
  MaxFaults = 1
INVARIANTS TypeOK JudgingHasDeadline GraceFollowsPresence
PROPERTIES OnlyUndatedJudgingStalls
CHECK_DEADLOCK FALSE
