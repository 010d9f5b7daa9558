------------------------------ MODULE RoomFeed ------------------------------
(***************************************************************************)
(* A room as its readers see it: the event loop that stores and publishes  *)
(* messages (internal/server/server.go, rooms.go), the WebSocket handler   *)
(* that subscribes a page (websocket.go), the history request (http.go),   *)
(* the translation jobs, and the page that merges all of it (web/src/lib/  *)
(* api.ts, web/src/routes/+page.svelte).                                   *)
(*                                                                         *)
(* One room and one language.  Messages are numbered by their row; frames  *)
(* on their way to the page count against the subscription's queue.        *)
(***************************************************************************)
EXTENDS Integers, FiniteSets, Sequences

CONSTANTS
  Pages,        \* browser pages
  OwnMessages,  \* messages sent by the pages' user
  PageSize,     \* rows of a history page (query.sql:32)
  QueueSize,    \* cap(subscription.out)
  JobsSize,     \* cap(Server.jobs)
  Workers,      \* translateWorker goroutines
  Translating,  \* whether there is a translator and the pages want it
  Focused,      \* whether the pages are visible and focused
  MaxMessages,  \* bound: messages of the room
  MaxSubs,      \* bound: connections ever opened
  MaxRefreshes  \* bound: refreshes by the user of a page

ASSUME RoomFeedAssumption ==
  /\ PageSize \in Nat \ {0} /\ QueueSize \in Nat \ {0}
  /\ JobsSize \in Nat \ {0} /\ Workers \in Nat \ {0}
  /\ Translating \in BOOLEAN /\ Focused \in BOOLEAN
  /\ MaxMessages \in Nat /\ MaxSubs \in Nat /\ MaxRefreshes \in Nat
  /\ OwnMessages \subseteq Nat

Messages == 1..MaxMessages
Subs == 1..MaxSubs

VARIABLES
  stored,   \* rows of the room: messages 1..stored
  loop,     \* where Server.Run is with the newest message
  sub,      \* subscriptions, by order of their connection
  page,     \* what each page shows and knows
  reply,    \* history handlers: rows answered and rows yet to be enqueued
  queued,   \* Server.queued
  waiting   \* Server.jobs

vars == <<stored, loop, sub, page, reply, queued, waiting>>

-----------------------------------------------------------------------------
States == {"none", "pending", "ready", "failed", "excluded"}

Frame == [type : {"identity", "rooms", "room", "message", "translation"},
          id : 0..MaxMessages, state : States,
          latest : 0..MaxMessages, unread : 0..MaxMessages]

Loop == [stage : {"idle", "stored", "rooms", "enqueue"}, todo : SUBSET Subs]

Sub == [stage : {"unused", "opening", "bootstrap", "live", "gone"},
        done : BOOLEAN, left : BOOLEAN,
        boot : Seq(Frame), out : Seq(Frame), cursor : 0..MaxMessages,
        inbox : SUBSET Messages]

Page == [shown : [Messages -> States], during : [Messages -> States],
         open : BOOLEAN, history : {"idle", "asked", "answered"},
         again : BOOLEAN, known : BOOLEAN, error : BOOLEAN,
         socket : {0} \cup Subs, verified : BOOLEAN, live : BOOLEAN,
         cursor : 0..MaxMessages, latest : 0..MaxMessages,
         unread : 0..MaxMessages, reads : 0..MaxMessages,
         refreshes : 0..MaxRefreshes]

\* messageFrom: a stored message before it is translated.
Fresh == IF Translating THEN "pending" ELSE "excluded"

Nothing == [m \in Messages |-> "none"]

NewPage ==
  [shown |-> Nothing, during |-> Nothing, open |-> FALSE, history |-> "idle",
   again |-> FALSE, known |-> FALSE, error |-> FALSE, socket |-> 0,
   verified |-> FALSE, live |-> FALSE, cursor |-> 0, latest |-> 0,
   unread |-> 0, reads |-> 0, refreshes |-> 0]

NewSub == [stage |-> "unused", done |-> FALSE, left |-> FALSE,
           boot |-> <<>>, out |-> <<>>, cursor |-> 0, inbox |-> {}]

NewFrame == [type |-> "identity", id |-> 0, state |-> "none", latest |-> 0,
             unread |-> 0]

Larger(a, b) == IF a > b THEN a ELSE b
Smaller(a, b) == IF a < b THEN a ELSE b

\* The messages somebody else wrote after the cursor.
Unread(cursor) == Cardinality({m \in (cursor + 1)..stored : m \notin OwnMessages})

RoomFrame(type, cursor) ==
  [NewFrame EXCEPT !.type = type, !.latest = stored, !.unread = Unread(cursor)]

MessageFrame(type, m, state) ==
  [NewFrame EXCEPT !.type = type, !.id = m, !.state = state]

UsedSubs == {s \in Subs : sub[s].stage # "unused"}

NextSub == 1 + Cardinality(UsedSubs)

\* Bound: connections break only while another one may follow.
Breakable == NextSub \in Subs

\* Deviation: a connection is subscribed once its snapshot is written.
SubscribedAfterSnapshot == {s \in Subs : sub[s].stage = "live"}

\* Server.subscribers.
Subscribed == {s \in Subs : sub[s].stage \in {"bootstrap", "live"}}

\* Deviation: a handler that returns keeps its lock.
UnlockedWhileLive(s) == sub[s].stage = "live"

\* cursorMu is held from the subscription to the end of the snapshot.
Unlocked(s) == sub[s].stage # "bootstrap"

\* Sending to a queue, or closing the subscription when it is full.  Nobody
\* gets the frames of a connection its page has left.
Sent(x, frame) ==
  CASE x.left -> x
    [] ~x.left /\ Len(x.out) < QueueSize ->
         [x EXCEPT !.out = Append(x.out, frame)]
    [] OTHER -> [x EXCEPT !.done = TRUE]

\* subscription.push.
Pushed(x, frame) == IF x.done THEN x ELSE Sent(x, frame)

\* broadcastLocked.
Broadcast(frame) ==
  sub' = [s \in Subs |-> IF s \in Subscribed THEN Sent(sub[s], frame)
                                             ELSE sub[s]]

\* roomMetadata bounds the cursor to the stored messages and reports it.
Refreshed(x, id) ==
  LET cursor == Smaller(id, stored)
  IN Pushed([x EXCEPT !.cursor = cursor], RoomFrame("room", cursor))

-----------------------------------------------------------------------------
(* Server.Run: receive.                                                    *)

\* A line of the room is stored.
Commit ==
  /\ loop.stage = "idle"
  /\ stored < MaxMessages
  /\ stored' = stored + 1
  /\ loop' = [loop EXCEPT !.stage = "stored"]
  /\ UNCHANGED <<sub, page, reply, queued, waiting>>

\* subscriptionsFor.
Gather ==
  /\ loop.stage = "stored"
  /\ loop' = [stage |-> "rooms", todo |-> Subscribed]
  /\ UNCHANGED <<stored, sub, page, reply, queued, waiting>>

\* refreshRoom, one subscription at a time; the store may fail.
Refresh(s) ==
  /\ loop.stage = "rooms" /\ s \in loop.todo
  /\ Unlocked(s)
  /\ \/ sub' = [sub EXCEPT ![s] = Refreshed(sub[s], sub[s].cursor)]
     \/ /\ Breakable
        /\ sub' = [sub EXCEPT ![s].done = TRUE]
  /\ loop' = [loop EXCEPT !.todo = loop.todo \ {s}]
  /\ UNCHANGED <<stored, page, reply, queued, waiting>>

Publish ==
  /\ loop.stage = "rooms" /\ loop.todo = {}
  /\ Broadcast(MessageFrame("message", stored, Fresh))
  /\ loop' = [loop EXCEPT !.stage = "enqueue"]
  /\ UNCHANGED <<stored, page, reply, queued, waiting>>

\* enqueue.
Enqueue(m) ==
  IF m \in queued
  THEN UNCHANGED <<sub, queued, waiting>>
  ELSE IF Cardinality(waiting) < JobsSize
       THEN /\ queued' = queued \cup {m}
            /\ waiting' = waiting \cup {m}
            /\ UNCHANGED sub
       ELSE /\ Broadcast(MessageFrame("translation", m, "failed"))
            /\ UNCHANGED <<queued, waiting>>

\* Only a message somebody reads is translated.
EnqueueNewest ==
  /\ loop.stage = "enqueue"
  /\ IF Translating /\ Subscribed # {} THEN Enqueue(stored)
                        ELSE UNCHANGED <<sub, queued, waiting>>
  /\ loop' = [loop EXCEPT !.stage = "idle"]
  /\ UNCHANGED <<stored, page, reply>>

-----------------------------------------------------------------------------
(* Translation workers.                                                    *)

TakeJob(m) ==
  /\ m \in waiting
  /\ Cardinality(queued \ waiting) < Workers
  /\ waiting' = waiting \ {m}
  /\ UNCHANGED <<stored, loop, sub, page, reply, queued>>

FinishJob(m) ==
  /\ m \in queued \ waiting
  /\ queued' = queued \ {m}
  /\ \E state \in {"ready", "failed"} :
       Broadcast(MessageFrame("translation", m, state))
  /\ UNCHANGED <<stored, loop, page, reply, waiting>>

-----------------------------------------------------------------------------
(* History requests.                                                       *)

\* refreshHistory.
Asked(x) ==
  IF x.history # "idle"
  THEN [x EXCEPT !.again = TRUE]
  ELSE [x EXCEPT !.history = "asked", !.error = FALSE, !.during = Nothing]

\* The handler reads the newest rows.  A page has one handler at a time.
Serve(p) ==
  LET rows == (Larger(stored - PageSize, 0) + 1)..stored
  IN /\ page[p].history = "asked"
     /\ reply[p].todo = {}
     /\ reply' = [reply EXCEPT ![p] =
          [rows |-> rows, todo |-> IF Translating THEN rows ELSE {}]]
     /\ page' = [page EXCEPT ![p].history = "answered"]
     /\ UNCHANGED <<stored, loop, sub, queued, waiting>>

\* The answer is written before its messages are enqueued.
EnqueueRow(p, m) ==
  /\ m \in reply[p].todo
  /\ \A n \in reply[p].todo : m <= n
  /\ Enqueue(m)
  /\ reply' = [reply EXCEPT ![p].todo = reply[p].todo \ {m}]
  /\ UNCHANGED <<stored, loop, page>>

\* mergeMessage.
Merged(previous, incoming) ==
  IF previous = "ready" /\ incoming = "pending" THEN "ready" ELSE incoming

\* Deviation: the answer replaces what arrived meanwhile.
UnderNothing(x, history) == history

\* duringHistory.
Under(x, history) ==
  [m \in Messages |-> IF x.during[m] = "none" THEN history[m]
                      ELSE Merged(history[m], x.during[m])]

\* The answer is merged under the frames that arrived meanwhile; a refresh
\* asked for meanwhile follows.
Merge(p) ==
  LET x == page[p]
      history == [m \in Messages |-> IF m \in reply[p].rows
                                     THEN Merged(x.shown[m], Fresh)
                                     ELSE x.shown[m]]
      y == [x EXCEPT !.shown = Under(x, history), !.history = "idle", !.again = FALSE, !.known = TRUE,
                     !.during = Nothing]
  IN /\ x.history = "answered"
     /\ page' = [page EXCEPT ![p] = IF x.again THEN Asked(y) ELSE y]
     /\ UNCHANGED <<stored, loop, sub, reply, queued, waiting>>

\* The request fails or times out; its refresh is not repeated.
HistoryFails(p) ==
  /\ page[p].history # "idle"
  /\ page' = [page EXCEPT ![p].history = "idle", ![p].again = FALSE,
                          ![p].error = TRUE, ![p].during = Nothing]
  /\ UNCHANGED <<stored, loop, sub, reply, queued, waiting>>

-----------------------------------------------------------------------------
(* Connections.                                                            *)

Opening(p, x) ==
  /\ NextSub \in Subs
  /\ page' = [page EXCEPT ![p] = [x EXCEPT !.socket = NextSub]]
  /\ sub' = [sub EXCEPT ![NextSub].stage = "opening",
                        ![NextSub].cursor = x.cursor]

\* subscribeRoom asks for the history and connects at once.
Open(p) ==
  /\ ~page[p].open
  /\ Opening(p, [Asked(page[p]) EXCEPT !.open = TRUE])
  /\ UNCHANGED <<stored, loop, reply, queued, waiting>>

\* connect, after the retry delay.
Reconnect(p) ==
  /\ page[p].open /\ page[p].socket = 0
  /\ Opening(p, page[p])
  /\ UNCHANGED <<stored, loop, reply, queued, waiting>>

Written(x, frame) ==
  [x EXCEPT !.boot = IF x.left THEN <<>> ELSE Append(x.boot, frame)]

\* The handler subscribes the connection, then writes the bootstrap frames.
Subscribe(s) ==
  /\ sub[s].stage = "opening"
  /\ sub' = [sub EXCEPT ![s] =
       [Written(sub[s], NewFrame) EXCEPT !.stage = "bootstrap"]]
  /\ UNCHANGED <<stored, loop, page, reply, queued, waiting>>

Snapshot(s) ==
  LET cursor == Smaller(sub[s].cursor, stored)
  IN /\ sub[s].stage = "bootstrap"
     /\ sub' = [sub EXCEPT ![s] =
          [Written(sub[s], RoomFrame("rooms", cursor)) EXCEPT
             !.stage = "live", !.cursor = cursor]]
     /\ UNCHANGED <<stored, loop, page, reply, queued, waiting>>

\* The handler ends: the network broke or the subscription was closed.
\* Some of the frames may still arrive.
Drop(s) ==
  /\ sub[s].stage \in {"opening", "bootstrap", "live"}
  /\ Breakable \/ sub[s].done \/ sub[s].left
  /\ LET frames == sub[s].boot \o sub[s].out
     IN \E n \in {0, Len(frames)} :
          sub' = [sub EXCEPT ![s] = [sub[s] EXCEPT
                    !.stage = "gone", !.inbox = {}, !.out = <<>>,
                    !.boot = SubSeq(frames, 1, n)]]
  /\ UNCHANGED <<stored, loop, page, reply, queued, waiting>>

\* onclose.
SocketCloses(p) ==
  LET s == page[p].socket
  IN /\ s # 0
     /\ Breakable \/ (sub[s].stage = "gone" /\ sub[s].boot = <<>>)
     /\ page' = [page EXCEPT ![p].socket = 0, ![p].verified = FALSE,
                             ![p].live = FALSE, ![p].reads = 0]
     /\ sub' = [sub EXCEPT ![s].left = TRUE, ![s].boot = <<>>, ![s].out = <<>>]
     /\ UNCHANGED <<stored, loop, reply, queued, waiting>>

-----------------------------------------------------------------------------
(* The page.                                                               *)

\* receiveRooms.
WithRoom(x, frame) ==
  [x EXCEPT !.latest = frame.latest,
            !.unread = IF frame.latest <= x.cursor THEN 0 ELSE frame.unread]

WithMessage(x, frame) ==
  LET next == Merged(x.shown[frame.id], frame.state)
  IN [x EXCEPT !.shown[frame.id] = next,
               !.during[frame.id] = IF x.history # "idle" THEN next ELSE "none"]

Handled(x, frame) ==
  CASE frame.type = "identity" -> Asked([x EXCEPT !.verified = TRUE])
    [] frame.type = "rooms" -> WithRoom([x EXCEPT !.live = TRUE], frame)
    [] frame.type = "room" -> WithRoom(x, frame)
    [] OTHER -> WithMessage(x, frame)

\* onmessage.
Deliver(p) ==
  LET s == page[p].socket
      boot == sub[s].boot
      frames == IF boot # <<>> THEN boot ELSE sub[s].out
  IN /\ s # 0
     /\ frames # <<>>
     /\ boot # <<>> \/ sub[s].stage = "live"
     /\ page' = [page EXCEPT ![p] = Handled(page[p], Head(frames))]
     /\ sub' = IF boot # <<>> THEN [sub EXCEPT ![s].boot = Tail(boot)]
                              ELSE [sub EXCEPT ![s].out = Tail(sub[s].out)]
     /\ UNCHANGED <<stored, loop, reply, queued, waiting>>

\* The refresh button, and the confirmation of a message.
RefreshPage(p) ==
  /\ page[p].open
  /\ page[p].refreshes < MaxRefreshes
  /\ page' = [page EXCEPT ![p] =
       Asked([page[p] EXCEPT !.refreshes = page[p].refreshes + 1])]
  /\ UNCHANGED <<stored, loop, sub, reply, queued, waiting>>

Shown(p) == {m \in Messages : page[p].shown[m] # "none"}

\* The user has read down to the newest message shown.
Read(p, m) ==
  LET x == page[p]
  IN /\ Focused /\ x.live /\ x.known /\ ~x.error
     /\ m \in Shown(p) /\ \A n \in Shown(p) : n <= m
     /\ m > x.cursor
     /\ page' = [page EXCEPT ![p] = [x EXCEPT
          !.cursor = m, !.reads = Larger(m, x.reads),
          !.unread = IF x.latest <= m THEN 0 ELSE x.unread]]
     /\ UNCHANGED <<stored, loop, sub, reply, queued, waiting>>

\* flushRead.
FlushRead(p) ==
  LET s == page[p].socket
  IN /\ s # 0 /\ page[p].verified /\ page[p].reads > 0
     /\ page' = [page EXCEPT ![p].reads = 0]
     /\ sub' = IF sub[s].stage = "gone" THEN sub
               ELSE [sub EXCEPT ![s].inbox = sub[s].inbox \cup {page[p].reads}]
     /\ UNCHANGED <<stored, loop, reply, queued, waiting>>

\* Deviation: the cursor is only used for the answer.
MarkedInFrame(x, id) == [Refreshed(x, id) EXCEPT !.cursor = x.cursor]

Marked(x, id) == Refreshed(x, id)

\* markRead, in the handler's reading goroutine.
MarkRead(s, m) ==
  /\ m \in sub[s].inbox /\ \A n \in sub[s].inbox : m <= n
  /\ Unlocked(s)
  /\ sub' = [sub EXCEPT ![s] =
       Marked([sub[s] EXCEPT !.inbox = sub[s].inbox \ {m}],
              Larger(m, sub[s].cursor))]
  /\ UNCHANGED <<stored, loop, page, reply, queued, waiting>>

-----------------------------------------------------------------------------
Init ==
  /\ stored = 0
  /\ loop = [stage |-> "idle", todo |-> {}]
  /\ sub = [s \in Subs |-> NewSub]
  /\ page = [p \in Pages |-> NewPage]
  /\ reply = [p \in Pages |-> [rows |-> {}, todo |-> {}]]
  /\ queued = {} /\ waiting = {}

RunStep == Gather \/ (\E s \in Subs : Refresh(s)) \/ Publish \/ EnqueueNewest

JobStep(m) == TakeJob(m) \/ FinishJob(m)

HandlerStep(s) == Subscribe(s) \/ Snapshot(s)

HistoryStep(p) ==
  \/ Serve(p) \/ Merge(p) \/ HistoryFails(p)

PageStep(p) ==
  \/ Open(p) \/ Reconnect(p) \/ SocketCloses(p) \/ Deliver(p)
  \/ RefreshPage(p) \/ FlushRead(p)
  \/ \E m \in Messages : Read(p, m)

Next ==
  \/ Commit \/ RunStep
  \/ \E m \in Messages : JobStep(m)
  \/ \E s \in Subs : \/ HandlerStep(s) \/ Drop(s)
                     \/ \E m \in Messages : MarkRead(s, m)
  \/ \E p \in Pages : \/ HistoryStep(p) \/ PageStep(p)
                      \/ \E m \in Messages : EnqueueRow(p, m)

Spec == Init /\ [][Next]_vars

\* Goroutines run; requests, calls and writes end by their deadlines; a page
\* gets its frames, notices that its connection ended and connects again.
Fairness ==
  /\ WF_vars(RunStep)
  /\ \A m \in Messages : WF_vars(JobStep(m))
  /\ \A s \in Subs : /\ WF_vars(HandlerStep(s))
                     /\ WF_vars(sub[s].done /\ Drop(s))
  /\ \A p \in Pages :
       /\ WF_vars(HistoryStep(p))
       /\ \A m \in Messages : WF_vars(EnqueueRow(p, m))
       /\ WF_vars(Deliver(p)) /\ WF_vars(Reconnect(p))
       /\ WF_vars(page[p].socket # 0 /\ sub[page[p].socket].stage = "gone"
                  /\ SocketCloses(p))

FairSpec == Spec /\ Fairness

-----------------------------------------------------------------------------
(* Properties.                                                             *)

\* Types.
TypeOK ==
  /\ stored \in 0..MaxMessages
  /\ loop \in Loop
  /\ \A s \in Subs :
       /\ sub[s].stage \in {"unused", "opening", "bootstrap", "live", "gone"}
       /\ sub[s].done \in BOOLEAN /\ sub[s].left \in BOOLEAN
       /\ Len(sub[s].out) <= QueueSize
       /\ sub[s].cursor \in 0..MaxMessages /\ sub[s].inbox \subseteq Messages
  /\ page \in [Pages -> Page]
  /\ \A p \in Pages : /\ reply[p].rows \subseteq Messages
                      /\ reply[p].todo \subseteq Messages
  /\ queued \subseteq Messages /\ waiting \subseteq queued
  /\ Cardinality(waiting) <= JobsSize
  /\ Cardinality(queued \ waiting) <= Workers

\* The page is connected, nothing is on its way and no error is displayed.
CaughtUp(p) ==
  LET x == page[p]
  IN /\ x.live /\ x.history = "idle" /\ x.known /\ ~x.error
     /\ sub[x.socket].stage = "live" /\ ~sub[x.socket].done
     /\ sub[x.socket].boot = <<>> /\ sub[x.socket].out = <<>>
     /\ loop.stage \in {"idle", "enqueue"}

\* README.md:95: after the subscription the history covers the gap since the
\* last one.  A page that has caught up shows every message of the newest
\* history page, whatever was stored while it was away or connecting.
RecentShown ==
  \A p \in Pages : CaughtUp(p) =>
    (Larger(stored - PageSize, 0) + 1)..stored \subseteq Shown(p)

\* Within the bounds of its queues and jobs the feed shows what is recent.
FeedInv == TypeOK /\ RecentShown

\* README.md:95 without the limit of a history page: between two messages a
\* page shows none is missing.
GapCovered ==
  \A p \in Pages : CaughtUp(p) =>
    \A m, n \in Shown(p) : m..n \subseteq Shown(p)

\* The badge of a page that has caught up counts what its user has not read,
\* across reconnects, whether the read or the message came first.
BadgeExact ==
  \A p \in Pages :
    LET x == page[p]
    IN CaughtUp(p) /\ x.reads = 0 /\ sub[x.socket].inbox = {} =>
         x.latest = stored /\ x.unread = Unread(x.cursor)

\* Nothing is taken back: a message that a page shows stays shown, whatever
\* answers arrive late, and neither the page nor the server forgets what its
\* user has read, however the server bounds the cursor.
KeepsPage(x, w) ==
  /\ x.cursor <= w.cursor
  /\ \A m \in Messages : x.shown[m] # "none" => w.shown[m] # "none"

KeepsSub(y, z) == y.stage = "unused" \/ y.cursor <= z.cursor

NothingTakenBack ==
  [][/\ \A p \in Pages : KeepsPage(page[p], page'[p])
     /\ \A s \in Subs : KeepsSub(sub[s], sub'[s])]_vars

\* A message shown as being translated is settled, or the page tells of an
\* error and offers to retry.
PendingSettles ==
  \A p \in Pages, m \in Messages :
    page[p].shown[m] = "pending" ~>
      page[p].shown[m] # "pending" \/ page[p].error

\* What a page that has caught up shows as being translated is being translated,
\* or about to be, whether the job queue was full or not when it was asked for.
PendingOwed ==
  \A p \in Pages : CaughtUp(p) =>
    \A m \in Messages :
      page[p].shown[m] = "pending" /\ m > stored - PageSize =>
        \/ m \in queued \cup reply[p].todo
        \/ loop.stage = "enqueue" /\ m = stored

\* No connection keeps the event loop from its next message.
LoopAdvances == loop.stage # "idle" ~> loop.stage = "idle"

-----------------------------------------------------------------------------
(* What the proofs rest on: what is known of the room, how connections are  *)
(* used, and what holds between a page and its connection.                  *)

Rooms == {"rooms", "room"}
OfMessage == {"message", "translation"}

\* What can be said while messages 1..n are stored.
Known(n) ==
  {f \in Frame : /\ f.id <= n
                 /\ f.type \in OfMessage => f.id # 0 /\ f.state # "none"}

SubAt(n) ==
  [stage : {"unused", "opening", "bootstrap", "live", "gone"},
   done : BOOLEAN, left : BOOLEAN, boot : Seq(Known(n)), out : Seq(Known(n)),
   cursor : 0..n, inbox : SUBSET (1..n)]

PageAt(n) ==
  {x \in Page :
     /\ \A m \in Messages : x.shown[m] # "none" \/ x.during[m] # "none" => m <= n
     /\ x.cursor <= n /\ x.reads <= x.cursor
     /\ x.again => x.history # "idle"
     /\ x.live \/ x.verified => x.socket # 0
     /\ x.socket # 0 => x.open}

ReplyAt(n) == [rows : SUBSET (1..n), todo : SUBSET (1..n)]

\* The types, and that nobody knows of a message that is not stored.
DataInv ==
  /\ stored \in 0..MaxMessages
  /\ loop \in Loop /\ (loop.stage # "idle" => stored # 0)
  /\ sub \in [Subs -> SubAt(stored)]
  /\ \A s \in Subs : Len(sub[s].out) <= QueueSize
  /\ page \in [Pages -> PageAt(stored)]
  /\ reply \in [Pages -> ReplyAt(stored)]
  /\ queued \subseteq 1..stored /\ waiting \subseteq queued
  /\ Cardinality(waiting) <= JobsSize
  /\ Cardinality(queued \ waiting) <= Workers

\* Nothing is said on a connection that is not subscribed yet.
Started(y) == y.stage \notin {"unused", "opening"}

Quiet(y) ==
  /\ ~Started(y) => y.boot = <<>> /\ y.out = <<>> /\ y.inbox = {}
  /\ y.stage = "unused" => ~y.left

\* Connections are used in their order, and each by one page.
SocketInv ==
  /\ \E n \in 0..MaxSubs : UsedSubs = 1..n
  /\ \A s \in Subs : Quiet(sub[s]) /\ (s \in loop.todo => Started(sub[s]))
  /\ \A p, q \in Pages :
       page[p].socket # 0 /\ page[p].socket = page[q].socket => p = q

\* A page x has not left its connection y.
Linked(x, y) == ~y.left /\ y.stage # "unused" /\ (x.verified => Started(y))

\* A connection that still brings its page everything.
Serving(y) == y.stage \in {"bootstrap", "live"} /\ ~y.done

Has(q, m) == \E i \in DOMAIN q : q[i].type = "message" /\ q[i].id = m

Greets(q) == \E i \in DOMAIN q : q[i].type = "identity"

\* A history request that is asked for, or the error instead.
Asks(x) == x.history = "asked" \/ x.again \/ x.error

Newest(n) == (Larger(n - PageSize, 0) + 1)..n

\* The newest message is still to be published.
Coming(l) == l.stage \in {"stored", "rooms"}

\* Of n messages each of the newest is shown, or is on its way.
Covers(x, y, rows, n, l) ==
  Serving(y) => \A m \in Newest(n) :
    \/ x.shown[m] # "none"
    \/ Has(y.out, m)
    \/ Coming(l) /\ m = n
    \/ x.history = "answered" /\ m \in rows
    \/ Asks(x) \/ Greets(y.boot)

\* The page's cursor is the server's, or on its way.
Agrees(x, y) ==
  y.stage # "gone" =>
    /\ y.cursor <= x.cursor /\ \A c \in y.inbox : c <= x.cursor
    /\ x.cursor \in {y.cursor, x.reads} \cup y.inbox

Silent(q) == \A i \in DOMAIN q : q[i].type \notin Rooms

\* The last a queue says of the room is that n messages are stored and u unread.
Tells(q, n, u) ==
  \E i \in DOMAIN q :
    /\ q[i].type \in Rooms /\ q[i].latest = n /\ q[i].unread = u
    /\ \A j \in DOMAIN q : j > i => q[j].type \notin Rooms

Knows(x, n, u) ==
  x.latest = n /\ x.unread = IF n <= x.cursor THEN 0 ELSE u

\* Unread for n messages.
UnreadOf(n, cursor) == Cardinality({m \in (cursor + 1)..n : m \notin OwnMessages})

\* The room's state has yet to be sent to a subscription.
Awaits(l, s) == l.stage = "stored" \/ (l.stage = "rooms" /\ s \in l.todo)

\* What the server last said of the room, or is about to say, is right.
Says(x, y, s, n, l) ==
  LET u == UnreadOf(n, y.cursor)
  IN Serving(y) =>
       /\ y.stage = "bootstrap" => Silent(y.out)
       /\ y.stage = "live" /\ ~Awaits(l, s) =>
            \/ Tells(y.out, n, u)
            \/ /\ Silent(y.out)
               /\ Tells(y.boot, n, u) \/ (Silent(y.boot) /\ Knows(x, n, u))

\* A page x with its answers, and its connection y, the s-th.
Pair(x, y, s, rows, n, l) ==
  /\ Linked(x, y) /\ Agrees(x, y)
  /\ Covers(x, y, rows, n, l) /\ Says(x, y, s, n, l)

PairInv ==
  \A p \in Pages :
    LET s == page[p].socket
    IN s # 0 => Pair(page[p], sub[s], s, reply[p].rows, stored, loop)

FeedIndInv == DataInv /\ SocketInv /\ PairInv

=============================================================================
