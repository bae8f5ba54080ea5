SPECIFICATION Spec
CONSTANTS
  Players = {p1, p2}
  WhiteCards = {w1, w2, w3, w4, w5}
  BlackCards = {b1, b2}
  Tasks = {t1, t2}
  NoPlayer = NoPlayer
  NoCard = NoCard
  HandSize = 2
  Pick = 1
  MaxRound = 3
  MaxMoves = 1
  MaxFaults = 1
SYMMETRY Symmetry
INVARIANTS TypeOK NeverRepeats HandStandsFull PlayedOnce BlackCardsGoRound
PROPERTIES RestartsWhenDry
CHECK_DEADLOCK FALSE
CONSTRAINT Followed
