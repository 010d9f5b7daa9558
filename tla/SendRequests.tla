--------------------------- MODULE SendRequests ---------------------------
(***************************************************************************)
(* The outgoing-message pipeline: the HTTP handler that claims, prepares   *)
(* and writes a send request (internal/server/sends.go), the echo receiver *)
(* and the expiry ticker of the server loop (internal/server/server.go),   *)
(* the send_requests and messages tables (internal/store), deletion and    *)
(* retention of requests, graceful shutdown and crashes.                   *)
(*                                                                         *)
(* A request identifier stands for (user_id, request_id).  A body stands   *)
(* for (room, original, original_mode).  A text stands for what the echo   *)
(* match compares: (room, nick, wire_text).                                *)
(***************************************************************************)
EXTENDS Integers, Sequences, FiniteSets

CONSTANTS
  Handlers,       \* HTTP POST /api/send attempts; each runs once
  Requests,       \* request identifiers
  Bodies,         \* bodies a client may post
  Texts,          \* wire texts
  WireForms,      \* the texts the translator may return for a body
  Translated,     \* bodies whose room has a target language
  NoReq, NoBody, NoText,
  MaxPending,     \* cfg.Security.MaxPendingSends
  SendWindow,     \* the two minutes of a send and of waiting for its echo
  EchoWindow,     \* the twenty minutes PendingEcho looks back
  Retention,      \* the age at which retention erases a payload
  StoreMayFail,   \* whether a statement may report an error
  MaxTime,        \* bound on the clock
  LastAdmission,  \* bound on the time of the last POST
  MaxRestarts     \* bound on shutdowns and crashes

ASSUME SendAssumption ==
  /\ NoReq \notin Requests /\ NoBody \notin Bodies /\ NoText \notin Texts
  /\ IsFiniteSet(Requests)
  /\ WireForms \in [Bodies -> SUBSET Texts]
  /\ Translated \subseteq Bodies
  /\ MaxPending \in Nat /\ SendWindow \in Nat \ {0} /\ EchoWindow \in Nat
  /\ Retention \in Nat /\ EchoWindow < Retention
  /\ StoreMayFail \in BOOLEAN
  /\ MaxTime \in Nat /\ LastAdmission \in Nat /\ MaxRestarts \in Nat

VARIABLES
  pc,             \* where each handler is
  call,           \* each handler's local variables and its answer
  row,            \* the send_requests table
  messages,       \* the messages table: text and sender, id = position
  phase,          \* of the server process: "up" or "stopping"
  now,            \* wall clock
  restarts,       \* shutdowns begun and crashes so far
  inflight,       \* channel lines on IRC the observer has not received
  sent            \* history: bridge.Send calls that may have reached IRC

vars == <<pc, call, row, messages, phase, now, restarts, inflight, sent>>

-----------------------------------------------------------------------------
(* Types.                                                                  *)

States == {"none", "translating", "sending", "awaiting_echo",
           "confirmed", "failed", "unconfirmed"}
Settled == {"confirmed", "failed", "unconfirmed"}
Finishable == {"translating", "sending"}

\* The steps of server.send between admission and the answer.
Running == {"lookup", "check", "claim", "load", "translate", "prepare",
            "recheck", "write", "finish"}
PCs == Running \cup {"idle", "done", "dead"}
Answers == {"none", "send", "conflict", "expired", "refused", "unavailable"}
Results == {"none", "failed", "unconfirmed", "awaiting_echo"}

Row == [state : States, body : Bodies \cup {NoBody},
        wire : Texts \cup {NoText}, created : Nat, updated : Nat,
        expires : Nat, rowid : Nat, message : Nat, echoed : BOOLEAN,
        purged : BOOLEAN, dismissed : BOOLEAN]

Call == [req : Requests \cup {NoReq}, body : Bodies \cup {NoBody},
         started : Nat, stamp : Nat, claimed : BOOLEAN,
         text : Texts \cup {NoText}, result : Results, answer : Answers]

Line == [by : Handlers, req : Requests, text : Texts]

NoRow == [state |-> "none", body |-> NoBody, wire |-> NoText, created |-> 0,
          updated |-> 0, expires |-> 0, rowid |-> 0, message |-> 0,
          echoed |-> FALSE, purged |-> FALSE, dismissed |-> FALSE]

NoCall == [req |-> NoReq, body |-> NoBody, started |-> 0, stamp |-> 0,
           claimed |-> FALSE, text |-> NoText, result |-> "none",
           answer |-> "none"]

Active == {h \in Handlers : pc[h] \in Running}

-----------------------------------------------------------------------------
(* The statements of internal/store/query.sql.  A definition introduced as *)
(* a deviation is a wrong version of the one after it that no action uses. *)

\* Deviation: an unconfirmed request gives up its identifier.
UnconfirmedForgotten(r) == row[r].state \notin {"none", "unconfirmed"}

Exists(r) == row[r].state # "none"

\* SQLite numbers the rows in the order of their insertion.
NextRowId == 1 + Cardinality({r \in Requests : Exists(r)})

\* ClaimSend: INSERT ... ON CONFLICT DO NOTHING.
Claimed(b, stamp) ==
  [NoRow EXCEPT !.state = IF b \in Translated THEN "translating" ELSE "sending",
                !.body = b, !.created = stamp, !.updated = stamp,
                !.expires = stamp + SendWindow,
                !.rowid = NextRowId]

\* Deviation: the state stays "translating" until the write returned.
PreparedLate(w, t) == [w EXCEPT !.wire = t, !.updated = now]

\* PrepareSend.
Prepared(w, t) ==
  [w EXCEPT !.wire = t, !.state = "sending", !.updated = now]

\* FinishSend; only an answered write starts a new window for its echo.
Finished(w, result, stamp) ==
  [w EXCEPT !.state = result, !.updated = now,
            !.expires = SendWindow + IF result = "awaiting_echo"
                                     THEN now ELSE stamp]

\* Deviation: any text of the room and nick matches.
CarriesAny(w, t) == w.wire # NoText

Carries(w, t) == w.wire = t

\* Deviation: requests with an unknown result no longer match.
AwaitsEchoBriefly(w) ==
  ~w.echoed /\ w.state \in {"sending", "awaiting_echo"}

AwaitsEcho(w) ==
  ~w.echoed /\ w.state \in {"sending", "awaiting_echo", "unconfirmed"}

\* PendingEcho without its ORDER BY.
EchoMatches(r, t) ==
  /\ Carries(row[r], t)
  /\ ~row[r].purged
  /\ AwaitsEcho(row[r])
  /\ row[r].created + EchoWindow >= now

Older(r, q) ==
  \/ row[r].created < row[q].created
  \/ row[r].created = row[q].created /\ row[r].rowid <= row[q].rowid

PendingEcho(t) ==
  LET found == {r \in Requests : EchoMatches(r, t)}
  IN {r \in found : \A q \in found : Older(r, q)}

\* ConsumeEcho.
Confirmed(w, id) ==
  [w EXCEPT !.echoed = TRUE, !.message = id, !.state = "confirmed",
            !.updated = now]

\* Deviation: a request being written expires as well.
ExpirableEarly(w) ==
  w.state \in {"sending", "awaiting_echo"} /\ w.expires <= now

\* Deviation: only a request being written expires.
ExpirableSending(w) == w.state = "sending" /\ w.expires <= now

\* ExpireEchoes.
Expirable(w) == w.state = "awaiting_echo" /\ w.expires <= now

Expired(w) == [w EXCEPT !.state = "unconfirmed", !.updated = now]

\* Deviation: every interrupted request is reported as failed.
RecoveredAsFailed(w) ==
  IF w.state \in {"translating", "sending", "awaiting_echo"}
  THEN [w EXCEPT !.state = "failed"] ELSE w

\* RecoverSends, run when the server loop ends and when the store opens.
Recovered(w) ==
  IF w.state \in {"translating", "sending", "awaiting_echo"}
  THEN [w EXCEPT !.state = IF w.state = "translating" THEN "failed"
                                                      ELSE "unconfirmed"]
  ELSE w

\* DismissSend.
Dismissible(w) ==
  w.state \in {"failed", "unconfirmed"} /\ w.message = 0 /\ ~w.purged

\* PurgeSendPayloadsBatch.
Purgeable(w) ==
  /\ ~w.purged
  /\ w.state \in Settled
  /\ w.updated + Retention < now
  /\ w.created + Retention < now

Purged(w) == [w EXCEPT !.purged = TRUE, !.body = NoBody, !.wire = NoText]

-----------------------------------------------------------------------------
(* server.send.  A handler may fail a readiness or context check at any    *)
(* time: the room's membership and the client's connection are outside.    *)

Goto(h, label) == pc' = [pc EXCEPT ![h] = label]

\* A handler that ends leaves its clock readings and its result behind; what
\* it claimed and translated is kept as history.
Ended(c, answer) == [c EXCEPT !.started = 0, !.stamp = 0, !.result = "none",
                              !.answer = answer]

Answer(h, answer) ==
  /\ Goto(h, "done")
  /\ call' = [call EXCEPT ![h] = Ended(call[h], answer)]

\* Deviation: the bodies are not compared.
AnswerWithoutCompare(w, b) == IF w.purged THEN "expired" ELSE "send"

\* The answer to a caller who finds the request already claimed.
AnswerFor(w, b) ==
  IF w.purged THEN "expired" ELSE IF w.body # b THEN "conflict" ELSE "send"

\* Lines 140-186.  A refused admission leaves nothing behind.
Admit(h, r, b) ==
  /\ pc[h] = "idle"
  /\ phase = "up"
  /\ Cardinality(Active) < MaxPending
  /\ now <= LastAdmission
  /\ Goto(h, "lookup")
  /\ call' = [call EXCEPT ![h] = [NoCall EXCEPT !.req = r, !.body = b,
                                                !.started = now]]
  /\ UNCHANGED <<row, messages, phase, now, restarts, inflight, sent>>

\* Lines 192-208.
Lookup(h) ==
  /\ pc[h] = "lookup"
  /\ \/ /\ Exists(call[h].req)
        /\ Answer(h, AnswerFor(row[call[h].req], call[h].body))
     \/ /\ ~Exists(call[h].req)
        /\ Goto(h, "check")
        /\ UNCHANGED call
     \/ StoreMayFail /\ Answer(h, "unavailable")
  /\ UNCHANGED <<row, messages, phase, now, restarts, inflight, sent>>

\* Lines 209-228: the room is not ready, the account cannot be retained, or
\* the handler reads the clock for its claim.
Check(h) ==
  /\ pc[h] = "check"
  /\ \/ Answer(h, "refused")
     \/ /\ Goto(h, "claim")
        /\ call' = [call EXCEPT ![h].stamp = now]
  /\ UNCHANGED <<row, messages, phase, now, restarts, inflight, sent>>

Insert(h) ==
  LET c == call[h]
  IN row' = IF Exists(c.req) THEN row
            ELSE [row EXCEPT ![c.req] = Claimed(c.body, c.stamp)]

\* Lines 229-233.  A statement that reports an error may have committed.
Claim(h) ==
  /\ pc[h] = "claim"
  /\ \/ /\ Insert(h)
        /\ Goto(h, "load")
        /\ call' = [call EXCEPT ![h].claimed = ~Exists(call[h].req)]
     \/ /\ StoreMayFail
        /\ Insert(h) \/ UNCHANGED row
        /\ Answer(h, "unavailable")
  /\ UNCHANGED <<messages, phase, now, restarts, inflight, sent>>

\* Lines 234-254: only the handler that inserted the row goes on.
Load(h) ==
  /\ pc[h] = "load"
  /\ \/ /\ call[h].claimed
        /\ Goto(h, "translate")
        /\ UNCHANGED call
     \/ /\ ~call[h].claimed
        /\ Answer(h, AnswerFor(row[call[h].req], call[h].body))
     \/ StoreMayFail /\ Answer(h, "unavailable")
  /\ UNCHANGED <<row, messages, phase, now, restarts, inflight, sent>>

GiveUp(h, result) ==
  /\ Goto(h, "finish")
  /\ call' = [call EXCEPT ![h].result = result]

\* Lines 282-317: readiness, translation, length, readiness again.
Translate(h) ==
  /\ pc[h] = "translate"
  /\ \/ GiveUp(h, "failed")
     \/ \E t \in WireForms[call[h].body] :
          /\ Goto(h, "prepare")
          /\ call' = [call EXCEPT ![h].text = t]
  /\ UNCHANGED <<row, messages, phase, now, restarts, inflight, sent>>

\* Lines 318-327.  The request context may end, or the row may have gone on.
Prepare(h) ==
  LET r == call[h].req
      update == row' = [row EXCEPT ![r] = Prepared(row[r], call[h].text)]
  IN /\ pc[h] = "prepare"
     /\ \/ /\ row[r].state \in Finishable
           /\ update
           /\ Goto(h, "recheck")
           /\ UNCHANGED call
        \/ /\ UNCHANGED row
           /\ GiveUp(h, "failed")
        \/ /\ StoreMayFail
           /\ row[r].state \in Finishable
           /\ update
           /\ GiveUp(h, "failed")
     /\ UNCHANGED <<messages, phase, now, restarts, inflight, sent>>

\* Lines 328-336.
Recheck(h) ==
  /\ pc[h] = "recheck"
  /\ \/ GiveUp(h, "failed")
     \/ /\ now < call[h].stamp + SendWindow
        /\ Goto(h, "write")
        /\ UNCHANGED call
  /\ UNCHANGED <<row, messages, phase, now, restarts, inflight, sent>>

\* Lines 337-350, with the results bridge.Send can have: refused before
\* anything was written, written, or broken off with an unknown result.
Write(h) ==
  LET line == [by |-> h, req |-> call[h].req, text |-> call[h].text]
  IN /\ pc[h] = "write"
     /\ \/ /\ GiveUp(h, "failed")
           /\ UNCHANGED <<inflight, sent>>
        \/ /\ GiveUp(h, "awaiting_echo")
           /\ inflight' = inflight \cup {line}
           /\ sent' = sent \cup {line}
        \/ /\ GiveUp(h, "unconfirmed")
           /\ inflight' = inflight \cup {line} \/ UNCHANGED inflight
           /\ sent' = sent \cup {line}
     /\ UNCHANGED <<row, messages, phase, now, restarts>>

\* The guard of FinishSend.
CanFinish(w) == w.state \in Finishable

\* The row after FinishSend, or the unchanged one read back by GetSend.
FinishedRow(h) ==
  LET w == row[call[h].req]
  IN IF CanFinish(w) THEN Finished(w, call[h].result, call[h].stamp) ELSE w

\* The closure "finish", lines 255-281.
Finish(h) ==
  LET r == call[h].req
      update == row' = [row EXCEPT ![r] = FinishedRow(h)]
      well == FinishedRow(h).state = "confirmed"
                \/ call[h].result = "awaiting_echo"
  IN /\ pc[h] = "finish"
     /\ \/ update /\ Answer(h, IF well THEN "send" ELSE "refused")
        \/ /\ StoreMayFail
           /\ update \/ UNCHANGED row
           /\ Answer(h, "unavailable")
     /\ UNCHANGED <<messages, phase, now, restarts, inflight, sent>>

HandlerStep(h) ==
  \/ Lookup(h) \/ Check(h) \/ Claim(h) \/ Load(h) \/ Translate(h)
  \/ Prepare(h) \/ Recheck(h) \/ Write(h) \/ Finish(h)

-----------------------------------------------------------------------------
(* The server loop, the other request handler, retention, IRC, and time.   *)

\* server.receive: the echo match, the message and the confirmation are one
\* transaction; when it fails, the line is logged and dropped.
Receive(line) ==
  LET id == Len(messages) + 1
      found == PendingEcho(line.text)
      store(sender) == messages' = Append(messages, [text |-> line.text,
                                                     sender |-> sender])
  IN /\ line \in inflight
     /\ phase = "up"
     /\ inflight' = inflight \ {line}
     /\ \/ \E r \in found : /\ store(r)
                            /\ row' = [row EXCEPT ![r] = Confirmed(row[r], id)]
        \/ /\ found = {}
           /\ store(NoReq)
           /\ UNCHANGED row
     /\ UNCHANGED <<pc, call, phase, now, restarts, sent>>

\* The line never reaches the table: the observer is away, the process is
\* down, or the transaction failed.
Lose(line) ==
  /\ line \in inflight
  /\ inflight' = inflight \ {line}
  /\ UNCHANGED <<pc, call, row, messages, phase, now, restarts, sent>>

\* server.expireSends, run by the ticker of the server loop.
ExpireSends ==
  /\ phase = "up"
  /\ \E r \in Requests : Expirable(row[r])
  /\ row' = [r \in Requests |-> IF Expirable(row[r]) THEN Expired(row[r])
                                                    ELSE row[r]]
  /\ UNCHANGED <<pc, call, messages, phase, now, restarts, inflight, sent>>

\* server.dismissSend.
DismissSend(r) ==
  /\ Dismissible(row[r])
  /\ ~row[r].dismissed
  /\ row' = [row EXCEPT ![r].dismissed = TRUE]
  /\ UNCHANGED <<pc, call, messages, phase, now, restarts, inflight, sent>>

\* Queries.Prune commits batch by batch; here every batch is one row.
Prune(r) ==
  /\ Purgeable(row[r])
  /\ row' = [row EXCEPT ![r] = Purged(row[r])]
  /\ UNCHANGED <<pc, call, messages, phase, now, restarts, inflight, sent>>

\* The deferred part of Server.Run: no handler is admitted any more, ...
Stop ==
  /\ phase = "up"
  /\ restarts < MaxRestarts
  /\ phase' = "stopping"
  /\ restarts' = restarts + 1
  /\ UNCHANGED <<pc, call, row, messages, now, inflight, sent>>

\* What sending.Wait waits for.
Quiet == Active = {}

\* ... the admitted ones are waited for, the rows they left behind recovered,
\* and a new process opens the store.
Restart ==
  /\ phase = "stopping"
  /\ Quiet
  /\ phase' = "up"
  /\ row' = [r \in Requests |-> Recovered(row[r])]
  /\ UNCHANGED <<pc, call, messages, now, restarts, inflight, sent>>

\* The process dies between any two steps; opening the store again recovers.
Crash ==
  /\ restarts < MaxRestarts
  /\ restarts' = restarts + 1
  /\ phase' = "up"
  /\ pc' = [h \in Handlers |-> IF h \in Active THEN "dead" ELSE pc[h]]
  /\ call' = [h \in Handlers |-> IF h \in Active THEN Ended(call[h], "none")
                                                  ELSE call[h]]
  /\ row' = [r \in Requests |-> Recovered(row[r])]
  /\ UNCHANGED <<messages, now, inflight, sent>>

\* The context of a handler, lines 173-176, ends it within its window.
Tick ==
  /\ now < MaxTime
  /\ \A h \in Active : now <= call[h].started + SendWindow
  /\ now' = now + 1
  /\ UNCHANGED <<pc, call, row, messages, phase, restarts, inflight, sent>>

-----------------------------------------------------------------------------
Init ==
  /\ pc = [h \in Handlers |-> "idle"]
  /\ call = [h \in Handlers |-> NoCall]
  /\ row = [r \in Requests |-> NoRow]
  /\ messages = <<>>
  /\ phase = "up"
  /\ now = 0
  /\ restarts = 0
  /\ inflight = {}
  /\ sent = {}

Next ==
  \/ \E h \in Handlers, r \in Requests, b \in Bodies : Admit(h, r, b)
  \/ \E h \in Handlers : HandlerStep(h)
  \/ \E line \in inflight : Receive(line) \/ Lose(line)
  \/ ExpireSends
  \/ \E r \in Requests : DismissSend(r) \/ Prune(r)
  \/ Stop \/ Restart \/ Crash
  \/ Tick

Spec == Init /\ [][Next]_vars

\* Handlers are goroutines under a deadline, the ticker fires every second,
\* the clock advances and a process told to stop comes back.
Fairness ==
  /\ \A h \in Handlers : WF_vars(HandlerStep(h))
  /\ WF_vars(ExpireSends)
  /\ WF_vars(Restart)
  /\ WF_vars(Tick)

FairSpec == Spec /\ Fairness

-----------------------------------------------------------------------------
(* Properties.                                                             *)

SentFor(r) == {line \in sent : line.req = r}

\* Types.
TypeOK ==
  /\ pc \in [Handlers -> PCs]
  /\ call \in [Handlers -> Call]
  /\ row \in [Requests -> Row]
  /\ messages \in Seq([text : Texts, sender : Requests \cup {NoReq}])
  /\ phase \in {"up", "stopping"}
  /\ now \in Nat /\ restarts \in Nat
  /\ inflight \subseteq Line /\ sent \subseteq Line

\* A request goes to IRC at most once, however often it is posted, retried
\* after its answer was lost, recovered after a crash, or purged: the claim
\* in the database is the only licence to write (manager.go:517-518, "callers
\* must not automatically retry it").
SentOnce == \A l, m \in sent : l.req = m.req => l = m

\* "failed" invites the user to send again without a warning, so nothing of a
\* failed request can have reached IRC, not even across a crash.
FailedNeverSent == \A line \in sent : row[line.req].state # "failed"

\* Two echoes never go to one request and one echo never to two: a message
\* row and the request it confirms point at each other, and a handler of that
\* request prepared the very text of the message for its room and nick.
EchoesMatched ==
  /\ \A r \in Requests : row[r].message # 0 =>
       row[r].message \in DOMAIN messages /\ messages[row[r].message].sender = r
  /\ \A i \in DOMAIN messages : messages[i].sender \in Requests =>
       /\ row[messages[i].sender].message = i
       /\ \E h \in Handlers : /\ call[h].claimed
                              /\ call[h].req = messages[i].sender
                              /\ call[h].text = messages[i].text

\* A caller that is answered with the request, rather than with a conflict,
\* posted what the request carries, whichever of two racing handlers claimed.
AnswersMatchBody ==
  \A h \in Handlers : call[h].answer = "send" =>
    LET w == row[call[h].req] IN ~w.purged => w.body = call[h].body

\* What README.md:87 says of confirmations: a request is confirmed by the echo
\* of its own write.  It is not so: the echo of a newer request with the same
\* text confirms the oldest one that waits, written or not.
ConfirmedWasSent ==
  \A r \in Requests : row[r].state = "confirmed" => SentFor(r) # {}

\* A confirmed request stays confirmed with its message: a late FinishSend,
\* expiry, recovery or deletion never takes the confirmation back.
ConfirmedFinal ==
  [][\A r \in Requests : row[r].state = "confirmed" =>
       row'[r].state = "confirmed" /\ row'[r].message = row[r].message]_vars

\* Once a request is reported failed or unconfirmed, or was deleted by its
\* user, nothing of it is written to IRC any more.
SettledIsSilent ==
  [][\A r \in Requests :
       row[r].state \in {"failed", "unconfirmed"} \/ row[r].dismissed =>
         SentFor(r)' = SentFor(r)]_vars

\* The echo of an unconfirmed request that arrives within the echo window is
\* attributed, to that request or to an older one of the same text, whatever
\* the request has been through: an echo timeout, an unknown write result, a
\* deletion, a crash.
EchoAttributed ==
  [][\A line \in inflight \ inflight' :
       /\ messages' # messages
       /\ row[line.req].state # "confirmed"
       /\ now <= row[line.req].created + EchoWindow
       => messages'[Len(messages')].sender \in Requests]_vars

\* Every request that was claimed is eventually reported confirmed, failed or
\* unconfirmed (when no statement of the store fails).
RequestsSettle ==
  \A r \in Requests :
    row[r].state \in States \ (Settled \cup {"none"}) ~> row[r].state \in Settled

-----------------------------------------------------------------------------
(* The inductive invariant behind the safety properties.                   *)

\* A handler's local variables are set before they are used.
LocalsSet ==
  \A h \in Handlers :
    /\ pc[h] # "idle" => call[h].req \in Requests /\ call[h].body \in Bodies
    /\ pc[h] \in {"prepare", "recheck", "write"} => call[h].text \in Texts
    /\ pc[h] = "finish" => call[h].result # "none"

\* One handler at most ever holds the claim of a request, and only the holder
\* gets past "load".
OneClaim ==
  /\ \A h \in Handlers :
       /\ call[h].claimed => /\ Exists(call[h].req)
                             /\ pc[h] \notin {"idle", "lookup", "check", "claim"}
       /\ pc[h] \in {"translate", "prepare", "recheck", "write", "finish"} =>
            call[h].claimed
  /\ \A g, h \in Handlers : call[g].claimed /\ call[h].claimed
                             /\ call[g].req = call[h].req => g = h

\* While the holder runs, nobody else settles its row: only an echo can, and
\* only once a text was prepared.
HolderKeepsRow ==
  \A h \in Handlers : pc[h] \in Running /\ call[h].claimed =>
    LET w == row[call[h].req]
    IN /\ w.state \in {"translating", "sending", "confirmed"}
       /\ ~w.dismissed
       /\ pc[h] \in {"load", "translate", "prepare"} =>
            w.wire = NoText /\ w.state \in Finishable
       /\ pc[h] \in {"recheck", "write"} => w.state # "translating"

\* What may have reached IRC was written by the holder of the claim, which
\* can no longer report a failure.
SentByHolder ==
  \A line \in sent :
    LET c == call[line.by]
    IN /\ c.claimed /\ c.req = line.req /\ c.text = line.text
       /\ pc[line.by] \in {"finish", "done", "dead"}
       /\ pc[line.by] = "finish" => c.result \in {"awaiting_echo", "unconfirmed"}
       /\ row[line.req].state \notin {"none", "translating", "failed"}

\* The claim of a request is unique and survives whatever happens to the
\* handler; the invariant the theorems about SentOnce, FailedNeverSent and
\* SettledIsSilent rest on.
ClaimInv ==
  /\ TypeOK
  /\ LocalsSet
  /\ OneClaim
  /\ HolderKeepsRow
  /\ SentByHolder

-----------------------------------------------------------------------------
(* The inductive invariant behind the echoes, the answers and the contract. *)

\* An echo confirms a request for good and leaves it the number of its message.
EchoedOnce ==
  \A r \in Requests :
    /\ row[r].echoed <=> row[r].message # 0
    /\ row[r].echoed => row[r].state = "confirmed"

\* What a row carries was prepared by the holder of its claim; a text that was
\* written is still carried, until retention erases it.
WiresPrepared ==
  /\ \A r \in Requests : row[r].wire # NoText =>
       \E h \in Handlers : /\ call[h].claimed /\ call[h].req = r
                           /\ call[h].text = row[r].wire
  /\ \A h \in Handlers : pc[h] \in {"recheck", "write"} =>
       row[call[h].req].purged \/ row[call[h].req].wire = call[h].text
  /\ \A line \in sent : row[line.req].purged \/ row[line.req].wire = line.text

\* Who holds the claim of a request, or was answered with it, posted its body.
BodiesKept ==
  \A h \in Handlers :
    /\ pc[h] = "load" => Exists(call[h].req)
    /\ call[h].claimed \/ call[h].answer = "send" =>
         /\ pc[h] # "idle" /\ Exists(call[h].req)
         /\ row[call[h].req].purged \/ row[call[h].req].body = call[h].body

\* Retention erases nothing that is young.
PurgedLate ==
  \A r \in Requests : row[r].purged => row[r].created + Retention < now

\* Every confirmation used up an echo that has left IRC.
EchoesCounted ==
  /\ inflight \subseteq sent
  /\ Cardinality({r \in Requests : row[r].state = "confirmed"})
       <= Cardinality({line.req : line \in sent \ inflight})

EchoInv ==
  /\ ClaimInv
  /\ EchoedOnce /\ WiresPrepared /\ BodiesKept /\ PurgedLate /\ EchoesCounted
  /\ EchoesMatched

-----------------------------------------------------------------------------
\* The pipeline implements its contract.
Status(r) ==
  CASE row[r].state = "none" -> "unknown"
    [] row[r].state \in Settled -> row[r].state
    [] OTHER -> "working"

Contract == INSTANCE SendContract
              WITH status <- [r \in Requests |-> Status(r)],
                   transmitted <- {line.req : line \in sent}

ContractSpec == Contract!Spec
=============================================================================
