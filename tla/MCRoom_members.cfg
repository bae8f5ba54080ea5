SPECIFICATION Spec
CONSTANTS
  Creator = c
  Players = {c, p1, p2, p3}
  Handlers = {h1, h2}
  None = None
  MaxPlayers = 3
  MinPlayers = 3
  MaxFaults = 1
SYMMETRY Symmetry
INVARIANTS TypeOK NobodyWithoutHand NoOrphanedLobby
PROPERTIES JoinsRespectRoom StatusAdvances
CHECK_DEADLOCK FALSE
