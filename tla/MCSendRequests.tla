-------------------------- MODULE MCSendRequests --------------------------
(***************************************************************************)
(* Instances of SendRequests for TLC.                                      *)
(***************************************************************************)
EXTENDS SendRequests, TLC

CONSTANTS h1, h2, r1, r2, plain, korean, hello, annyeong

\* "plain" is posted as an original; "korean" is translated, and one of the
\* translator's answers is the very text of "plain".
MCWireForms == plain :> {hello} @@ korean :> {hello, annyeong}

MCTwoForms == korean :> {hello, annyeong}

Symmetric == Permutations({h1, h2}) \cup Permutations({r1, r2})
===========================================================================
