---------------------------- MODULE MCTranslator ----------------------------
(***************************************************************************)
(* Instances of Translator for TLC.                                        *)
(***************************************************************************)
EXTENDS Translator

CONSTANTS c1, c2, k1, k2
=============================================================================
