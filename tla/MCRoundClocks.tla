---------------------------- MODULE MCRoundClocks ----------------------------
(* RoundClocks for TLC.  Windows of one and two ticks are enough for every   *)
(* order of two deadlines; the judging window outlasts the grace, as in the  *)
(* code (90s and 30s).                                                       *)
EXTENDS RoundClocks
=============================================================================
