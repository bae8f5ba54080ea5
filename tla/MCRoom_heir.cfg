SPECIFICATION Spec
CONSTANTS
  Creator = c
  Players = {c, p1, p2}
  Handlers = {h1, h2}
  None = None
  MaxPlayers = 3
  MinPlayers = 3
  MaxFaults = 0
SYMMETRY Symmetry
INVARIANTS HostCanAct
CHECK_DEADLOCK FALSE
