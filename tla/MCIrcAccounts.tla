--------------------------- MODULE MCIrcAccounts ---------------------------
(***************************************************************************)
(* Instances of IrcAccounts for TLC.                                       *)
(***************************************************************************)
EXTENDS IrcAccounts, TLC

CONSTANTS c1, c2, observer, alice, bob, home, spare, reader, other, away, nick1, nick2, nick3

Account(i, n, p) == [id |-> i, nick |-> n, pool |-> p]

\* The shared reader, an account whose identity pool changes, and one that
\* shares an identity with it.
MCSharing == {Account(observer, nick3, <<reader>>),
              Account(alice, nick1, <<home, away>>), Account(alice, nick1, <<spare>>),
              Account(bob, nick2, <<other, spare>>)}

\* An account whose primary identity changes.
MCMoving == {Account(alice, nick1, <<home>>), Account(alice, nick1, <<spare>>)}

\* The same beside an account that shares its second identity.
MCMovingShared == MCMoving \cup {Account(bob, nick2, <<spare>>)}

Symmetric == Permutations(Clients)
=============================================================================
