--------------------------- MODULE MCRoomMembership ---------------------------
(* RoomMembership for TLC.                                                   *)
EXTENDS RoomMembership, TLC

\* Everybody but the creator is interchangeable, and so are the handlers.
Symmetry == Permutations(Players \ {Creator}) \cup Permutations(Handlers)
=============================================================================
