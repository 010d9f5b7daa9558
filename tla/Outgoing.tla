----------------------------- MODULE Outgoing -----------------------------
(***************************************************************************)
(* One message of a user as their browser sees it: the page's list of      *)
(* outgoing requests (+page.svelte, api.ts) against a server that is only  *)
(* known to honour SendContract.  A request is posted once; its answer,    *)
(* frames about it, lists, status checks and deletions overtake each other *)
(* and get lost; the socket breaks, the server restarts, the page is       *)
(* reloaded.  A resend is a deletion followed by a post under a new        *)
(* identifier.  All Requests carry the same message.  The states           *)
(* translating, sending and awaiting_echo are "working" here: the page     *)
(* treats them alike but for wording.                                      *)
(***************************************************************************)
EXTENDS Naturals, FiniteSets, Sequences

CONSTANTS
  Requests,                 \* identifiers the page may generate
  MaxClicks,                \* times the user checks, deletes or resends
  MaxFrames,                \* frames of a socket under way; 256 in the code
  MaxTroubles               \* failed calls, broken sockets, reloads and restarts

\* A frame is about a request or the first one, which tells who the user is.
ASSUME RequestsAssumption == "identity" \notin Requests

VARIABLES
  status, transmitted,      \* the server, as SendContract
  dismissed,                \* rows deleted by the user
  post,                     \* where the POST of each request is
  asked,                    \* other HTTP calls the server has not handled
  answers,                  \* answers on their way to the page
  socket,                   \* down, open (not verified yet) or live
  frames,                   \* frames of the socket, in order
  shown,                    \* outgoing: the page's entry for each request
  call,                     \* submitMessage of each request
  act,                      \* recovering and checking: what runs for an entry
  listed,                   \* a list arrived since the socket was verified
  warned,                   \* history: requests posted after the warning
  hid,                      \* history: requests whose deletion succeeded
  ends,                     \* connections of the socket that have ended
  losses,                   \* calls that have failed
  clicks                    \* times the user acted

server == <<status, transmitted, dismissed>>
net == <<asked, answers, socket, frames>>
page == <<shown, call, act, listed>>
history == <<warned, hid>>
counts == <<ends, losses, clicks>>
vars == <<server, post, net, page, history, counts>>

Contract == INSTANCE SendContract

Settled == {"failed", "unconfirmed", "confirmed"}

\* An entry of the page; null in the code for a request it does not know.
Entry == [state : {"working"} \cup Settled, dismissed : BOOLEAN,
          clientOnly : BOOLEAN]
NoEntry == [state |-> "none", dismissed |-> FALSE, clientOnly |-> FALSE]
NoAct == [kind |-> "none", entry |-> NoEntry]

\* outgoingFrom: a row as the server sends it.
RowEntry(r) == [state |-> status[r], dismissed |-> r \in dismissed,
                clientOnly |-> FALSE]

\* Deviation: what is not known to be sent is offered as failed.
ProvisionalFailed(s) == [state |-> "failed", dismissed |-> FALSE, clientOnly |-> TRUE]

\* The page's own guess about a request it has no row of.
Provisional(s) == [state |-> s, dismissed |-> FALSE, clientOnly |-> TRUE]

Rank(s) == CASE s = "working" -> 0
             [] s \in {"failed", "unconfirmed"} -> 3
             [] s = "confirmed" -> 4

\* Deviations: a deletion does not stay; what comes last wins.
MergeUndeleted(previous, incoming) ==
  IF previous # NoEntry /\ Rank(incoming.state) < Rank(previous.state)
  THEN previous ELSE incoming
MergeLast(previous, incoming) == incoming

\* What arrives never takes a state back, and a deletion stays.
mergeOutgoing(previous, incoming) ==
  IF previous = NoEntry THEN incoming
  ELSE IF Rank(incoming.state) < Rank(previous.state) THEN previous
  ELSE [incoming EXCEPT !.dismissed = @ \/ previous.dismissed]

\* receiveSends for the entries of a function; a request that turns confirmed
\* makes the page refresh, which asks for a list when the socket is verified.
Merged(new) ==
  [r \in Requests |-> IF r \in DOMAIN new THEN mergeOutgoing(shown[r], new[r])
                                          ELSE shown[r]]
Turned(new) == \E r \in DOMAIN new : /\ Merged(new)[r].state = "confirmed"
                                     /\ shown[r].state # "confirmed"
\* A list belongs to no request; it carries the number of its connection.
List == [kind |-> "list", req |-> ends]
Refresh == IF socket = "live" THEN {List} ELSE {}
Asks(new) == IF Turned(new) THEN Refresh ELSE {}

One(r, entry) == [q \in {r} |-> entry]

\* The body of an answer: rows, or a word for what went wrong.
Rows(S) == [what |-> "rows", rows |-> [r \in S |-> RowEntry(r)]]
Word(w) == [what |-> w, rows |-> [r \in {} |-> NoEntry]]

\* publishSend: the row after the step, to the subscription if there is one.
Publish(r) ==
  \/ /\ socket = "down"
     /\ UNCHANGED frames
  \/ /\ socket # "down" /\ Len(frames) < MaxFrames
     /\ frames' = Append(frames, [req |-> r, entry |-> RowEntry(r)'])

Reply(kind, r, body) == answers' = answers \cup {[kind |-> kind, req |-> r,
                                                   body |-> body]}

\* The page still waits for the answer of a POST.
Awaited(r) == /\ call[r] = "posting"
              /\ ~\E a \in answers : a.kind = "post" /\ a.req = r
PostReply(r, body) == IF Awaited(r) THEN Reply("post", r, body)
                                    ELSE UNCHANGED answers

Submitting == \E r \in Requests : call[r] \in {"posting", "recovering"}
Unused == {r \in Requests : call[r] = "idle" /\ post[r] = "idle"}

-----------------------------------------------------------------------------
(* The server.                                                             *)

\* The POST arrives: refused before anything was claimed, with a code that
\* says so; claimed; or failed with an error that does not tell.
PostArrives(r) ==
  /\ post[r] = "travelling"
  /\ \/ /\ post' = [post EXCEPT ![r] = "over"]
        /\ PostReply(r, Word("refused"))
        /\ UNCHANGED <<server, frames>>
     \/ /\ Contract!Accept(r)
        /\ UNCHANGED dismissed
        /\ \/ /\ post' = [post EXCEPT ![r] = "handling"]
              /\ Publish(r)
              /\ UNCHANGED answers
           \/ /\ post' = [post EXCEPT ![r] = "over"]
              /\ PostReply(r, Word("error"))
              /\ UNCHANGED frames
     \/ /\ post' = [post EXCEPT ![r] = "over"]
        /\ PostReply(r, Word("error"))
        /\ UNCHANGED <<server, frames>>
  /\ UNCHANGED <<asked, socket, page, history, counts>>

\* The handler writes to IRC.
Transmits(r) ==
  /\ post[r] = "handling"
  /\ Contract!Transmit(r)
  /\ UNCHANGED <<dismissed, post, net, page, history, counts>>

\* finish and expireSends: a failure before the write, else unconfirmed.
Settles(r) ==
  /\ status[r] = "working"
  /\ \/ post[r] = "handling" /\ Contract!Settle({r}, {})
     \/ post[r] = "handling" /\ Contract!Settle({}, {r})
     \/ r \in transmitted /\ Contract!Settle({}, {r})
  /\ UNCHANGED dismissed
  /\ Publish(r)
  /\ UNCHANGED <<post, asked, answers, socket, page, history, counts>>

\* The echo of the observer.
Confirms(r) ==
  /\ Contract!Confirm(r)
  /\ UNCHANGED dismissed
  /\ Publish(r)
  /\ UNCHANGED <<post, asked, answers, socket, page, history, counts>>

\* The POST is answered with its row when it was written or settled.
PostAnswers(r) ==
  /\ post[r] = "handling"
  /\ status[r] \in Settled \/ r \in transmitted
  /\ post' = [post EXCEPT ![r] = "over"]
  /\ PostReply(r, Rows({r}))
  /\ UNCHANGED <<server, asked, socket, frames, page, history, counts>>

\* sendStatus.
StatusAnswers(q) ==
  /\ q \in asked /\ q.kind \in {"status", "check"}
  /\ asked' = asked \ {q}
  /\ Reply(q.kind, q.req,
           IF status[q.req] = "unknown" THEN Word("missing") ELSE Rows({q.req}))
  /\ UNCHANGED <<server, post, socket, frames, page, history, counts>>

\* dismissSend: only what failed or is unconfirmed may be deleted.
DismissAnswers(q) ==
  /\ q \in asked /\ q.kind = "delete"
  /\ asked' = asked \ {q}
  /\ UNCHANGED <<status, transmitted>>
  /\ LET r == q.req
     IN \/ /\ status[r] \in {"failed", "unconfirmed"}
           /\ dismissed' = dismissed \cup {r}
           /\ Publish(r)
           /\ Reply("delete", r, Rows({r})')
        \/ /\ status[r] \notin {"failed", "unconfirmed"}
           /\ UNCHANGED <<dismissed, frames>>
           /\ Reply("delete", r,
                    Word(IF status[r] = "unknown" THEN "missing" ELSE "conflict"))
  /\ UNCHANGED <<post, socket, page, history, counts>>

\* The rows of ListSends.
Listing == {r \in Requests : status[r] # "unknown" /\ r \notin dismissed}

ListAnswers(q) ==
  /\ q \in asked /\ q.kind = "list"
  /\ asked' = asked \ {q}
  /\ Reply("list", q.req, Rows(Listing))
  /\ UNCHANGED <<server, post, socket, frames, page, history, counts>>

Trouble == ends + losses < MaxTroubles
Disconnect == /\ socket' = "down" /\ frames' = <<>> /\ listed' = FALSE
              /\ ends' = ends + 1

\* The process ends and starts again: sockets and handlers are gone, and
\* RecoverSends settles what they left without a frame.
Restart ==
  /\ Trouble
  /\ LET left == Contract!Having("working")
     IN IF left = {} THEN UNCHANGED <<status, transmitted>>
        ELSE \E U \in SUBSET left : Contract!Settle(left \ U, U)
  /\ post' = [r \in Requests |-> IF post[r] = "handling" THEN "over" ELSE post[r]]
  /\ Disconnect
  /\ UNCHANGED <<dismissed, asked, answers, shown, call, act, history, losses, clicks>>

-----------------------------------------------------------------------------
(* The page.                                                               *)

\* submitMessage under a new identifier.
Submit(r) ==
  /\ call' = [call EXCEPT ![r] = "posting"]
  /\ post' = [post EXCEPT ![r] = "travelling"]

\* The user sends the message for the first time (sendMessage, line 413).
Compose(r) ==
  /\ socket = "live"
  /\ \A q \in Requests : call[q] = "idle" /\ post[q] = "idle"
  /\ Submit(r)
  /\ UNCHANGED <<server, net, shown, act, listed, history, counts>>

Take(new) == shown' = Merged(new)

\* The answer of the POST.  A refusal leaves an entry of the page's own, any
\* other error asks for the status.
PostAnswered(r, body) ==
  /\ call[r] = "posting"
  /\ \/ /\ body.what = "rows"
        /\ Take(body.rows)
        /\ call' = [call EXCEPT ![r] = "over"]
        /\ asked' = asked \cup Asks(body.rows)
     \/ /\ body.what = "refused"
        /\ Take(One(r, Provisional("failed")))
        /\ call' = [call EXCEPT ![r] = "over"]
        /\ UNCHANGED asked
     \/ /\ body.what = "error"
        /\ call' = [call EXCEPT ![r] = "recovering"]
        /\ asked' = asked \cup {[kind |-> "status", req |-> r]}
        /\ UNCHANGED shown
  /\ UNCHANGED <<post, act, listed, history>>

\* The status after an unclear POST; an entry that is there already wins over
\* the provisional one.
StatusAnswered(r, body) ==
  /\ call[r] = "recovering"
  /\ call' = [call EXCEPT ![r] = "over"]
  /\ \/ /\ body.what = "rows"
        /\ Take(body.rows)
        /\ asked' = asked \cup Asks(body.rows)
     \/ /\ body.what # "rows"
        /\ IF shown[r] = NoEntry THEN Take(One(r, Provisional("unconfirmed")))
                                 ELSE UNCHANGED shown
        /\ UNCHANGED asked
  /\ UNCHANGED <<post, act, listed, history>>

\* checkSend.
CheckAnswered(r, body) ==
  /\ act[r].kind = "checking"
  /\ act' = [act EXCEPT ![r] = NoAct]
  /\ \/ /\ body.what = "rows"
        /\ Take(body.rows)
        /\ asked' = asked \cup Asks(body.rows)
     \/ body.what # "rows" /\ UNCHANGED <<shown, asked>>
  /\ UNCHANGED <<post, call, listed, history>>

\* recoverSend after its DELETE: the row is deleted, or there is none and the
\* entry was the page's own; then a resend posts a new request.
DeleteAnswered(r, body) ==
  LET own == act[r].entry.clientOnly /\ body.what = "missing"
      gone == IF own THEN One(r, [act[r].entry EXCEPT !.dismissed = TRUE])
                     ELSE body.rows
  IN /\ act[r].kind \in {"deleting", "resending"}
     /\ act' = [act EXCEPT ![r] = NoAct]
     /\ \/ /\ own \/ body.what = "rows"
           /\ Take(gone)
           /\ asked' = asked \cup Asks(gone)
           /\ hid' = IF own THEN hid ELSE hid \cup {r}
           /\ \/ /\ act[r].kind = "deleting"
                 /\ UNCHANGED <<call, post, warned>>
              \/ /\ act[r].kind = "resending"
                 /\ \E q \in Unused :
                      /\ Submit(q)
                      /\ warned' = IF act[r].entry.state = "unconfirmed"
                                   THEN warned \cup {q} ELSE warned
        \/ /\ ~own /\ body.what # "rows"
           /\ asked' = asked \cup Refresh
           /\ UNCHANGED <<shown, call, post, warned, hid>>
     /\ UNCHANGED listed

\* The answer of refreshSends; a failed one is not repeated.
ListAnswered(connection, body) ==
  /\ \/ /\ body.what = "rows"
        /\ Take(body.rows)
        /\ listed' = (listed \/ connection = List.req)
        /\ asked' = asked \cup Asks(body.rows)
     \/ /\ body.what = "error"
        /\ UNCHANGED <<shown, listed, asked>>
  /\ UNCHANGED <<post, call, act, history>>

\* An answer reaches the page, in any order.
Delivered(a) ==
  /\ a \in answers
  /\ answers' = answers \ {a}
  /\ \/ a.kind = "post" /\ PostAnswered(a.req, a.body)
     \/ a.kind = "status" /\ StatusAnswered(a.req, a.body)
     \/ a.kind = "check" /\ CheckAnswered(a.req, a.body)
     \/ a.kind = "delete" /\ DeleteAnswered(a.req, a.body)
     \/ a.kind = "list" /\ ListAnswered(a.req, a.body)
  /\ UNCHANGED <<server, socket, frames, counts>>

\* A call fails on its way there or back: an error for the page, whatever the
\* server did or is still going to do.
Lost ==
  /\ Trouble
  /\ losses' = losses + 1
  /\ \/ \E r \in Requests : /\ Awaited(r)
                            /\ Reply("post", r, Word("error"))
                            /\ UNCHANGED asked
     \/ \E q \in asked : /\ asked' = asked \ {q}
                         /\ Reply(q.kind, q.req, Word("error"))
     \/ \E a \in answers : /\ a.kind = "delete"
                           /\ a.body.what # "error"
                           /\ answers' = (answers \ {a})
                                            \cup {[a EXCEPT !.body = Word("error")]}
                           /\ UNCHANGED asked
  /\ UNCHANGED <<server, post, socket, frames, page, history, ends, clicks>>

\* The user asks for the status of an entry, deletes it, or resends it after
\* the warning that an unconfirmed one deserves.
Idle(r) == act[r] = NoAct
Click(r, kind) ==
  /\ clicks < MaxClicks
  /\ clicks' = clicks + 1
  /\ Idle(r)
  /\ \/ /\ kind = "checking"
        /\ shown[r].state \in {"unconfirmed", "working"}
        /\ asked' = asked \cup {[kind |-> "check", req |-> r]}
     \/ /\ kind \in {"deleting", "resending"}
        /\ shown[r].state \in {"failed", "unconfirmed"}
        /\ ~Submitting
        /\ kind = "resending" => socket = "live" /\ Unused # {}
        /\ asked' = asked \cup {[kind |-> "delete", req |-> r]}
  /\ ~shown[r].dismissed
  /\ act' = [act EXCEPT ![r] = [kind |-> kind, entry |-> shown[r]]]
  /\ UNCHANGED <<server, post, answers, socket, frames, shown, call, listed,
                 history, ends, losses>>

\* A frame of the socket: the identity, after which the page asks for a list,
\* or a request.
Frame ==
  /\ frames # <<>>
  /\ frames' = Tail(frames)
  /\ \/ /\ Head(frames).req = "identity"
        /\ socket' = "live"
        /\ asked' = asked \cup {List}
        /\ UNCHANGED shown
     \/ /\ Head(frames).req # "identity"
        /\ LET new == One(Head(frames).req, Head(frames).entry)
           IN Take(new) /\ asked' = asked \cup Asks(new)
        /\ UNCHANGED socket
  /\ UNCHANGED <<server, post, answers, call, act, listed, history, counts>>

\* The room shows the message of a confirmed request (onMessages).
FeedShows(r) ==
  /\ status[r] = "confirmed"
  /\ shown[r].state \notin {"none", "confirmed"}
  /\ LET new == One(r, [shown[r] EXCEPT !.state = "confirmed"])
     IN Take(new) /\ asked' = asked \cup Asks(new)
  /\ UNCHANGED <<server, post, answers, socket, frames, call, act, listed,
                 history, counts>>

\* The socket connects, and the server subscribes it before anything else.
Connect ==
  /\ socket = "down"
  /\ socket' = "open"
  /\ frames' = <<[req |-> "identity", entry |-> NoEntry]>>
  /\ UNCHANGED <<server, post, asked, answers, page, history, counts>>

\* The socket breaks, or the server closes one that fell behind.
Break ==
  /\ Trouble
  /\ socket # "down"
  /\ Disconnect
  /\ UNCHANGED <<server, post, asked, answers, shown, call, act, history, losses, clicks>>

\* A new page of the same user: it knows nothing and waits for nothing; what
\* the old one posted may still arrive.
Reload ==
  /\ Trouble
  /\ Disconnect
  /\ shown' = [r \in Requests |-> NoEntry]
  /\ call' = [r \in Requests |-> IF call[r] = "idle" THEN "idle" ELSE "over"]
  /\ act' = [r \in Requests |-> NoAct]
  /\ asked' = {} /\ answers' = {}
  /\ UNCHANGED <<server, post, history, losses, clicks>>

-----------------------------------------------------------------------------
Init ==
  /\ Contract!Init
  /\ dismissed = {}
  /\ post = [r \in Requests |-> "idle"]
  /\ asked = {} /\ answers = {}
  /\ socket = "down" /\ frames = <<>>
  /\ shown = [r \in Requests |-> NoEntry]
  /\ call = [r \in Requests |-> "idle"]
  /\ act = [r \in Requests |-> NoAct]
  /\ listed = FALSE
  /\ warned = {} /\ hid = {}
  /\ ends = 0 /\ losses = 0 /\ clicks = 0

ServerStep ==
  \/ \E r \in Requests : \/ PostArrives(r) \/ Transmits(r) \/ Settles(r)
                         \/ Confirms(r) \/ PostAnswers(r)
  \/ \E q \in asked : StatusAnswers(q) \/ DismissAnswers(q) \/ ListAnswers(q)

PageStep == Frame \/ \E a \in answers : Delivered(a)

UserStep ==
  \E r \in Requests :
    \/ Compose(r)
    \/ \E kind \in {"checking", "deleting", "resending"} : Click(r, kind)

Next ==
  \/ ServerStep \/ PageStep \/ UserStep
  \/ \E r \in Requests : FeedShows(r)
  \/ Lost \/ Connect \/ Break \/ Reload \/ Restart

Spec == Init /\ [][Next]_vars

-----------------------------------------------------------------------------
(* Properties.                                                             *)

TypeOK ==
  /\ Contract!ContractTypeOK
  /\ dismissed \subseteq Requests
  /\ post \in [Requests -> {"idle", "travelling", "handling", "over"}]
  /\ socket \in {"down", "open", "live"}
  /\ shown \in [Requests -> Entry \cup {NoEntry}]
  /\ call \in [Requests -> {"idle", "posting", "recovering", "over"}]
  /\ warned \subseteq Requests /\ hid \subseteq Requests

\* What the page says is true whatever overtook what: "confirmed" only of a
\* confirmed request, and "failed", which offers a resend without a warning,
\* only of one that is not and never will be on IRC (the POST may still be on
\* its way when the page has given up on it).
PageTruthful ==
  /\ TypeOK
  /\ \A r \in Requests :
       /\ shown[r].state = "confirmed" => status[r] = "confirmed"
       /\ shown[r].state = "failed" => r \notin transmitted

\* The message reaches IRC once, and once more for every time the user
\* accepted the warning that it may already have been sent.
CopiesWarned == Cardinality(transmitted) <= 1 + Cardinality(warned)

\* An entry the user has deleted is not offered again, whichever stale list,
\* frame or status check comes in later, and not by a new page either.
DeletedStaysHidden ==
  \A r \in hid : \/ shown[r] = NoEntry \/ shown[r].dismissed
                \/ shown[r].state = "confirmed"

\* A page that is connected, has its list and nothing under way agrees with
\* the server about every request that is settled and that nobody deleted,
\* also when it settled while the page was away or by a restart.
PageConverges ==
  /\ socket = "live" /\ listed
  /\ frames = <<>> /\ asked = {} /\ answers = {}
  => \A r \in Requests : \/ status[r] \notin Settled
                          \/ r \in dismissed \/ shown[r].dismissed
                          \/ shown[r].state = status[r]

-----------------------------------------------------------------------------
(* The inductive invariant behind the four.                                *)

RowSets == UNION {[S -> Entry] : S \in SUBSET Requests}

Bodies == [what : {"rows", "missing", "conflict", "refused", "error"}, rows : RowSets]

\* A list is asked for by a connection, anything else by a request.
NetOK ==
  /\ \A q \in asked :
       \/ q \in [kind : {"status", "check", "delete"}, req : Requests]
       \/ q \in [kind : {"list"}, req : Nat]
  /\ \A a \in answers :
       \/ a \in [kind : {"post", "status", "check", "delete"}, req : Requests, body : Bodies]
       \/ a \in [kind : {"list"}, req : Nat, body : Bodies]
  /\ frames \in Seq([req : Requests \cup {"identity"}, entry : Entry \cup {NoEntry}])

PageOK ==
  /\ act \in [Requests -> [kind : {"none", "checking", "deleting", "resending"},
                           entry : Entry \cup {NoEntry}]]
  /\ listed \in BOOLEAN
  /\ ends \in Nat

\* What the server goes by: rows exist from the arrival of a POST on, and are
\* deleted when they are settled.
ServerSound ==
  \A r \in Requests :
    /\ status[r] \in {"unknown", "failed"} => r \notin transmitted
    /\ r \in dismissed => status[r] \in Settled
    /\ post[r] \in {"idle", "travelling"} => status[r] = "unknown"
    /\ post[r] = "handling" => status[r] # "unknown"
    /\ call[r] = "idle" <=> post[r] = "idle"

\* A request of status s is at p: it was refused before it was claimed; or
\* nothing was and will be sent for it.
Refused(s, p) == s = "unknown" /\ p = "over"
Dead(s, p) == s = "failed" \/ Refused(s, p)

\* A row as it is, or as it was earlier.
Current(s, e) ==
  /\ e \in Entry /\ ~e.clientOnly
  /\ s # "unknown"
  /\ \/ e.state \in {"working", s}
     \/ e.state = "unconfirmed" /\ s = "confirmed"
  /\ e.dismissed => e.state # "working"

\* What the page may believe of it.
Believable(s, p, e) ==
  /\ e \in Entry
  /\ e.state = "confirmed" => s = "confirmed"
  /\ e.state = "failed" => IF e.clientOnly THEN Refused(s, p) ELSE s = "failed"

FramesCurrent ==
  \A i \in DOMAIN frames :
    frames[i].req # "identity" => Current(status[frames[i].req], frames[i].entry)

AnswersCurrent ==
  \A a \in answers :
    /\ \A r \in DOMAIN a.body.rows : Current(status[r], a.body.rows[r])
    /\ a.body.what = "refused" => Refused(status[a.req], post[a.req])
    /\ a.kind # "post" => a.body.what # "refused"
    /\ a.kind = "delete" /\ a.body.what = "rows" =>
         /\ DOMAIN a.body.rows = {a.req} /\ a.body.rows[a.req].dismissed
         /\ a.req \in dismissed

ShownBelievable ==
  \A r \in Requests : shown[r] # NoEntry =>
    Believable(status[r], post[r], shown[r]) /\ post[r] # "idle"

\* What the user acts on was shown; nothing is deleted while it is being posted.
ActsBelievable ==
  \A r \in Requests : act[r].kind # "none" =>
    /\ Believable(status[r], post[r], act[r].entry) /\ post[r] # "idle"
    /\ act[r].kind \in {"deleting", "resending"} =>
         act[r].entry.state \in {"failed", "unconfirmed"} /\ call[r] = "over"

\* The page does not offer the request, and nothing under way makes it do so.
Hidden(r) ==
  IF shown[r] # NoEntry THEN shown[r].dismissed \/ shown[r].state = "confirmed"
  ELSE /\ \A i \in DOMAIN frames : frames[i].req = r => frames[i].entry.dismissed
       /\ \A a \in answers : r \in DOMAIN a.body.rows => a.body.rows[r].dismissed

\* It never will.
Closed(r) ==
  /\ call[r] = "over" /\ act[r].kind # "resending"
  /\ r \in dismissed \/ Refused(status[r], post[r])
  /\ Hidden(r)

HidClosed == \A r \in hid : Closed(r)

\* Requests that may be on IRC, or that may yet be resent without a warning: one
\* for the first message, and one for every warning.
Posted == {r \in Requests : post[r] # "idle"}
Open == {r \in Posted : ~(Dead(status[r], post[r]) /\ Closed(r))}

OpenCounted ==
  /\ IsFiniteSet(Posted) /\ warned \subseteq Posted
  /\ Cardinality(Open) <= 1 + Cardinality(warned)

\* Requests that a connected page has to know of, and those it knows or will.
Due == {r \in Requests : status[r] \in Settled /\ r \notin dismissed}
Told(r) ==
  \/ shown[r].dismissed \/ shown[r].state = status[r]
  \/ \E i \in DOMAIN frames : frames[i].req = r /\ frames[i].entry.state = status[r]
Tells(a, r) == r \in DOMAIN a.body.rows /\ a.body.rows[r].state = status[r]

\* A list of this connection, once it was made, and the frames tell all.
ListsTell ==
  /\ socket = "down" => frames = <<>>
  /\ \A q \in asked : q.kind = "list" => q.req <= ends /\ (q.req = ends => socket # "down")
  /\ \A a \in answers : a.kind = "list" =>
       /\ a.req <= ends /\ (a.req = ends => socket # "down")
       /\ a.req = ends /\ a.body.what = "rows" => \A r \in Due : Told(r) \/ Tells(a, r)
  /\ listed => socket # "down" /\ \A r \in Due : Told(r)

PageInv ==
  /\ TypeOK /\ NetOK /\ PageOK
  /\ ServerSound
  /\ FramesCurrent /\ AnswersCurrent
  /\ ShownBelievable /\ ActsBelievable
  /\ HidClosed /\ OpenCounted
  /\ ListsTell
=============================================================================
