---------------------------- MODULE MCIrcSession ----------------------------
(***************************************************************************)
(* Instances of IrcSession for TLC.                                        *)
(***************************************************************************)
EXTENDS IrcSession

CONSTANTS s1, r1, r2

TwoRooms == <<r1, r2>>
=============================================================================
