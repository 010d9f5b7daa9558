--------------------------- MODULE SendContract ---------------------------
(***************************************************************************)
(* What the outgoing-message pipeline promises its users, without          *)
(* handlers, database rows, clocks or restarts.  A request is accepted     *)
(* once; its text goes to IRC at most once; "failed" says that nothing was *)
(* sent, "unconfirmed" that something may have been, and "confirmed" that  *)
(* an echo came back for it.  SendRequests implements this contract.       *)
(***************************************************************************)
EXTENDS Naturals, FiniteSets

CONSTANT Requests           \* request identifiers, each of one user

VARIABLES
  status,                   \* what the user is told about each request
  transmitted               \* requests whose text may have reached IRC

vars == <<status, transmitted>>

Statuses == {"unknown", "working", "failed", "unconfirmed", "confirmed"}

Having(s) == {r \in Requests : status[r] = s}

ContractTypeOK ==
  /\ status \in [Requests -> Statuses]
  /\ transmitted \subseteq Requests

Init ==
  /\ status = [r \in Requests |-> "unknown"]
  /\ transmitted = {}

Accept(r) ==
  /\ status[r] = "unknown"
  /\ status' = [status EXCEPT ![r] = "working"]
  /\ UNCHANGED transmitted

\* Nothing is sent for a request already reported failed or unconfirmed.
Transmit(r) ==
  /\ status[r] \in {"working", "confirmed"}
  /\ r \notin transmitted
  /\ transmitted' = transmitted \cup {r}
  /\ UNCHANGED status

\* The requests of F are given up before anything was sent, those of U with
\* an unknown result; a restart settles many of them in one step.
Settle(F, U) ==
  /\ UNCHANGED transmitted
  /\ F \cup U # {}
  /\ F \cap U = {}
  /\ F \cap transmitted = {}
  /\ status' = [r \in Requests |-> IF r \in F THEN "failed"
                                   ELSE IF r \in U THEN "unconfirmed"
                                   ELSE status[r]]

\* There are never more confirmations than transmissions to confirm.
Confirm(r) ==
  /\ status[r] \in {"working", "unconfirmed"}
  /\ Cardinality(Having("confirmed")) < Cardinality(transmitted)
  /\ status' = [status EXCEPT ![r] = "confirmed"]
  /\ UNCHANGED transmitted

Next ==
  \/ \E r \in Requests : Accept(r) \/ Transmit(r) \/ Confirm(r)
  \/ \E F, U \in SUBSET Having("working") : Settle(F, U)

Spec == Init /\ [][Next]_vars
===========================================================================
