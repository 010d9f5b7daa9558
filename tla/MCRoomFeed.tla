----------------------------- MODULE MCRoomFeed -----------------------------
(***************************************************************************)
(* Instances of RoomFeed for TLC.                                          *)
(***************************************************************************)
EXTENDS RoomFeed

CONSTANTS p1, p2
=============================================================================
