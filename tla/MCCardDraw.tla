----------------------------- MODULE MCCardDraw -----------------------------
(* CardDraw for TLC.  Five White Cards are two Hands of two and one spare:    *)
(* the first refill takes the last unseen card and the next one recycles.     *)
EXTENDS CardDraw, TLC

\* No definition names a Player, a card or a slot.
Symmetry == Permutations(WhiteCards) \cup Permutations(Players) \cup Permutations(Tasks)

\* A Room is followed through one join, leave or death of a handler, and until
\* draws of White Cards overlapped or two oddities came about.
Followed ==
  /\ moves + faults <= 1
  /\ "overlap" \notin odd /\ Cardinality(odd) <= 1
=============================================================================
