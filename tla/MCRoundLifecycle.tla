-------------------------- MODULE MCRoundLifecycle --------------------------
(* RoundLifecycle for TLC.  The MCRound_*.cfg files choose which handlers    *)
(* meet, how many at once, and the bounds.                                   *)
EXTENDS RoundLifecycle, TLC

\* Players and request slots are interchangeable: no definition names one.
\* Only for runs whose properties are safety properties.
Symmetry  == Permutations(Players) \cup Permutations(Tasks)
Instances == Permutations(Players) \cup Permutations(Sweepers)

\* Bound: while a toggle is in flight, or once one has written after the start, two
\* Players stay active.  (Without one, all may go.)
ToggledInCompany ==
  (stray # {} \/ \E t \in Tasks : task[t].kind = "toggle") => Cardinality(active) >= 2

=============================================================================
