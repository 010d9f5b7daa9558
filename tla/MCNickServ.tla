----------------------------- MODULE MCNickServ -----------------------------
(***************************************************************************)
(* Instances of NickServ for TLC.                                          *)
(***************************************************************************)
EXTENDS NickServ
=============================================================================
