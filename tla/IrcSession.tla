----------------------------- MODULE IrcSession -----------------------------
(***************************************************************************)
(* One account and its IRC sessions (internal/irc/session.go,              *)
(* membership.go, and Send and the wire of manager.go): the reader, which  *)
(* dials, serves and dials again, the worker that joins the rooms, the     *)
(* keepalive, the senders, and what the event loop of the server makes of  *)
(* it (internal/server/rooms.go).  The IRC network is external.            *)
(*                                                                         *)
(* A line is what the reader tells apart.  What the reader still has to do *)
(* about a line, events to report and lines to write, is its list "todo":  *)
(* each entry is a step, and may block or fail.  PING, and all that        *)
(* concerns NickServ, is module NickServ.                                  *)
(***************************************************************************)
EXTENDS Integers, Sequences

CONSTANTS
  JoinOrder,  \* cfg.Rooms
  Senders,    \* goroutines that call Send
  EventsSize, \* cap(Server.events)
  InboxSize,  \* bound: lines on their way to the reader
  MaxConns    \* bound: connections ever dialled

Rooms == {JoinOrder[i] : i \in DOMAIN JoinOrder}

ASSUME IrcSessionAssumption ==
  /\ JoinOrder \in Seq(Rooms) /\ JoinOrder # <<>>
  /\ EventsSize \in Nat \ {0} /\ InboxSize \in Nat \ {0} /\ MaxConns \in Nat

VARIABLES
  account,  \* accountConnection: what its mutex protects
  stopped,  \* whether its context is cancelled
  wire,     \* the connection: its number, and whether it is open
  reader,   \* serveConnection and the loop of runAccount around it
  joiner,   \* joinRooms: the room it is at
  keeper,   \* whether the keepalive runs
  sender,   \* Send: the connection it looked up, and the room
  events,   \* Server.events
  told,     \* subscription.roomStates
  status,   \* Server.accountStates
  inbox,    \* lines on their way to the reader
  net       \* the IRC network's view of the connection

workers == <<joiner, keeper>>
server == <<told, status>>

vars == <<account, stopped, wire, reader, workers, sender, events, server,
          inbox, net>>

-----------------------------------------------------------------------------
RoomStates == {"preparing", "ready", "unavailable"}

Statuses == {"connecting", "connected", "error", "disconnected", "stopped"}

Do(what, arg) == [do |-> what, arg |-> arg]

Report(s) == <<Do("status", s)>>
Member(r) == <<Do("membership", r)>>

Line(cmd, arg) == [cmd |-> cmd, arg |-> arg]

Unconnected == [connection |-> 0, joined |-> {}, unavailable |-> {}]

NewReader == [pc |-> "away", todo |-> <<>>, welcome |-> FALSE]

NewNet ==
  [introduced |-> FALSE, welcomed |-> FALSE, asked |-> {}, member |-> {},
   entered |-> {}, stray |-> FALSE]

Off == [stage |-> "off", at |-> 0]

\* Manager.RoomState, of a configured room and a started manager.
RoomState(r) ==
  CASE stopped -> "unavailable"
    [] ~stopped /\ account.connection # 0 /\ r \in account.joined -> "ready"
    [] ~stopped /\ account.connection # 0 /\ r \in account.unavailable ->
         "unavailable"
    [] OTHER -> "preparing"

\* setRoomState.
Noted(r, state) ==
  IF state = "ready"
  THEN [account EXCEPT !.joined = @ \cup {r}, !.unavailable = @ \ {r}]
  ELSE [account EXCEPT !.joined = @ \ {r}, !.unavailable = @ \cup {r}]

\* joinCtx, the context of the join worker and the keepalive.
Cancelled == stopped \/ reader.pc = "waiting"

WorkersDone == joiner = Off /\ ~keeper

\* The network gets a line.
Received(line) ==
  CASE line.cmd = "USER" -> [net EXCEPT !.introduced = TRUE]
    [] line.cmd = "JOIN" -> [net EXCEPT !.asked = @ \cup {line.arg}]
    [] line.cmd = "PRIVMSG" ->
         [net EXCEPT !.stray = (@ \/ line.arg \notin net.entered)]

Closed == [wire EXCEPT !.open = FALSE]

\* wireConnection.write: the line gets through, or the connection is closed
\* and the line may have got through or not.
Writes(line) == wire.open /\ ~stopped /\ net' = Received(line) /\ UNCHANGED wire
Fails(line) ==
  /\ wire' = Closed
  /\ UNCHANGED net \/ (wire.open /\ net' = Received(line))

\* Server.Event blocks while its queue is full.
Emits(event) ==
  /\ Len(events) < EventsSize
  /\ events' = Append(events, event)

-----------------------------------------------------------------------------
(* The reader.                                                             *)

Idle(pc) == reader.pc = pc /\ reader.todo = <<>>

\* runAccount: one more attempt.
Attempt ==
  /\ Idle("away") /\ ~stopped
  /\ wire.id < MaxConns
  /\ reader' = [reader EXCEPT
                  !.todo = Report("connecting") \o <<Do("dial", "")>>]
  /\ UNCHANGED <<account, stopped, wire, workers, sender, events, server,
                 inbox, net>>

MustDo(what) == reader.todo # <<>> /\ Head(reader.todo).do = what

\* runAccount reports that an attempt or a session ended, unless the account
\* is stopped.
Ended == [NewReader EXCEPT !.todo = IF stopped THEN <<>> ELSE Report("disconnected")]

\* dialIRC, and the beginning of serveConnection.
Dial ==
  /\ MustDo("dial")
  /\ \/ /\ reader' = [NewReader EXCEPT !.pc = "serving",
                                       !.todo = <<Do("write", "USER")>>]
        /\ wire' = [id |-> wire.id + 1, open |-> TRUE]
        /\ account' = [account EXCEPT !.connection = wire.id + 1]
     \/ /\ reader' = Ended
        /\ UNCHANGED <<wire, account>>
  /\ UNCHANGED <<stopped, workers, sender, events, server, inbox, net>>

\* status, and the event of setRoomState.
Emit ==
  /\ MustDo("status") \/ MustDo("membership")
  /\ Emits(Head(reader.todo))
  /\ reader' = [reader EXCEPT !.todo = Tail(@)]
  /\ UNCHANGED <<account, stopped, wire, workers, sender, server, inbox, net>>

\* NICK and USER.
Introduce ==
  /\ MustDo("write")
  /\ LET line == Line(Head(reader.todo).arg, "")
     IN \/ Writes(line) /\ reader' = [reader EXCEPT !.todo = Tail(@)]
        \/ Fails(line) /\ reader' = [reader EXCEPT !.pc = "leaving", !.todo = <<>>]
  /\ UNCHANGED <<account, stopped, workers, sender, events, server, inbox>>

\* joinAndDiscoverServices, and the start of the keepalive.
StartWorkers ==
  /\ MustDo("workers")
  /\ joiner' = [stage |-> "joining", at |-> 1]
  /\ keeper' = TRUE
  /\ reader' = [reader EXCEPT !.todo = Tail(@)]
  /\ UNCHANGED <<account, stopped, wire, sender, events, server, inbox, net>>

\* The next line, once everything about the one before is done.
Read(line) ==
  /\ Idle("serving")
  /\ inbox # <<>> /\ Head(inbox) = line
  /\ inbox' = Tail(inbox)

ReadWelcome ==
  /\ Read(Line("001", ""))
  /\ reader' = [reader EXCEPT !.welcome = TRUE,
                  !.todo = Report("connected") \o <<Do("workers", "")>>]
  /\ UNCHANGED <<account, stopped, wire, workers, sender, events, server, net>>

\* ERROR, and a nickname that is refused or taken away, end the session.
ReadError ==
  /\ Read(Line("ERROR", ""))
  /\ reader' = [reader EXCEPT !.pc = "leaving"]
  /\ UNCHANGED <<account, stopped, wire, workers, sender, events, server, net>>

\* What is reported of a room: its state, and a status unless it was left.
Tells(cmd, r) ==
  CASE cmd = "JOIN" -> Member(r) \o Report("connected")
    [] cmd = "PART" -> Member(r)
    [] cmd \in {"KICK", "403"} -> Member(r) \o Report("error")

\* The account enters a room, leaves it, is removed from it or is refused.
ReadRoom(cmd, r) ==
  /\ Read(Line(cmd, r))
  /\ account' = Noted(r, IF cmd = "JOIN" THEN "ready" ELSE "unavailable")
  /\ reader' = [reader EXCEPT !.todo = Tells(cmd, r)]
  /\ UNCHANGED <<stopped, wire, workers, sender, events, server, net>>

\* A read fails: the connection is broken, the server did not register the
\* account in time, or nothing was heard for the idle timeout.
ReadFails ==
  /\ Idle("serving")
  /\ ~wire.open \/ ~reader.welcome \/ inbox = <<>>
  /\ reader' = [reader EXCEPT !.pc = "leaving"]
  /\ UNCHANGED <<account, stopped, wire, workers, sender, events, server,
                 inbox, net>>

\* Deviation: the workers are waited for before they are told to stop.
AbandonLast ==
  /\ reader.pc = "leaving" /\ WorkersDone
  /\ wire' = Closed
  /\ reader' = [reader EXCEPT !.pc = "waiting"]
  /\ UNCHANGED <<account, stopped, workers, sender, events, server, inbox, net>>

\* The deferred part of serveConnection: cancelJoins and Close.
Abandon ==
  /\ reader.pc = "leaving"
  /\ wire' = Closed
  /\ reader' = [reader EXCEPT !.pc = "waiting"]
  /\ UNCHANGED <<account, stopped, workers, sender, events, server, inbox, net>>

Forgotten == Unconnected

\* Deviation: the workers may still run when the session has ended.
NobodyAwaited == TRUE

Awaited == WorkersDone

\* joins.Wait, then everything of the session is forgotten.
Leave ==
  /\ reader.pc = "waiting"
  /\ Awaited
  /\ account' = Forgotten
  /\ net' = NewNet /\ inbox' = <<>>
  /\ reader' = Ended
  /\ UNCHANGED <<stopped, wire, workers, sender, events, server>>

\* finishAccount.
Finish ==
  /\ Idle("away") /\ stopped
  /\ reader' = [reader EXCEPT !.pc = "gone", !.todo = Report("stopped")]
  /\ UNCHANGED <<account, stopped, wire, workers, sender, events, server,
                 inbox, net>>

ReaderStep ==
  \/ Attempt \/ Dial \/ Emit \/ Introduce \/ StartWorkers
  \/ ReadWelcome \/ ReadError \/ ReadFails
  \/ \E cmd \in {"JOIN", "PART", "KICK", "403"}, r \in Rooms : ReadRoom(cmd, r)
  \/ Abandon \/ Leave \/ Finish

-----------------------------------------------------------------------------
(* The workers of a session.                                               *)

\* joinRooms: one JOIN, or the end.
Join ==
  /\ joiner.stage = "joining"
  /\ LET line == Line("JOIN", JoinOrder[joiner.at])
     IN \/ /\ ~Cancelled /\ Writes(line)
           /\ joiner' = IF joiner.at = Len(JoinOrder)
                        THEN Off ELSE [joiner EXCEPT !.at = @ + 1]
        \/ /\ ~Cancelled /\ Fails(line)
           /\ joiner' = [joiner EXCEPT !.stage = "failed"]
        \/ /\ Cancelled
           /\ joiner' = Off
           /\ UNCHANGED <<wire, net>>
  /\ UNCHANGED <<account, stopped, reader, keeper, sender, events, server, inbox>>

\* A worker that failed reports it, unless the session has ended meanwhile.
\* The connection is closed already.
Complain ==
  /\ joiner.stage = "failed"
  /\ \/ Emits(Do("status", "error"))
     \/ Cancelled /\ UNCHANGED events
  /\ joiner' = Off
  /\ UNCHANGED <<account, stopped, wire, reader, keeper, sender, server, inbox,
                 net>>

\* keepalive: its PINGs change nothing until one cannot be written.
KeeperStops ==
  /\ keeper
  /\ keeper' = FALSE
  /\ \/ ~Cancelled /\ wire' = Closed
     \/ Cancelled /\ UNCHANGED wire
  /\ UNCHANGED <<account, stopped, reader, joiner, sender, events, server,
                 inbox, net>>

-----------------------------------------------------------------------------
(* Manager.Send.                                                           *)

Ready(r) == account.connection # 0 /\ r \in account.joined

Look(s, r) ==
  /\ sender[s].conn = 0
  /\ ~stopped /\ Ready(r)
  /\ sender' = [sender EXCEPT ![s] = [conn |-> account.connection, room |-> r]]
  /\ UNCHANGED <<account, stopped, wire, reader, workers, events, server, inbox,
                 net>>

\* Deviation: the connection is read again.
Newest(s) == TRUE

\* The line is written to the connection that was looked up, which may be
\* closed, or have been replaced, since.
Current(s) == sender[s].conn = wire.id

Send(s) ==
  /\ sender[s].conn # 0
  /\ LET line == Line("PRIVMSG", sender[s].room)
     IN \/ Current(s) /\ (Writes(line) \/ Fails(line))
        \/ ~Current(s) /\ UNCHANGED <<wire, net>>
  /\ sender' = [sender EXCEPT ![s].conn = 0]
  /\ UNCHANGED <<account, stopped, reader, workers, events, server, inbox>>

-----------------------------------------------------------------------------
(* The event loop of the server.                                           *)

\* The rooms of which refreshRoomStates tells the subscriber.
Refreshes(event) == IF event.do = "membership" THEN {event.arg} ELSE Rooms

\* receive.  The states are those of the moment, not of the event.
Receive ==
  /\ events # <<>>
  /\ LET event == Head(events)
     IN /\ told' = [r \in Rooms |->
                      IF r \in Refreshes(event) THEN RoomState(r) ELSE told[r]]
        /\ status' = IF event.do = "status" THEN event.arg ELSE status
  /\ events' = Tail(events)
  /\ UNCHANGED <<account, stopped, wire, reader, workers, sender, inbox, net>>

-----------------------------------------------------------------------------
(* The end of the account: its idle timer, or shutdown.                    *)

Stop ==
  /\ ~stopped
  /\ stopped' = TRUE
  /\ UNCHANGED <<account, wire, reader, workers, sender, events, server, inbox,
                 net>>

\* context.AfterFunc of serveConnection.
CloseStopped ==
  /\ stopped /\ reader.pc = "serving" /\ wire.open
  /\ wire' = Closed
  /\ UNCHANGED <<account, stopped, reader, workers, sender, events, server,
                 inbox, net>>

-----------------------------------------------------------------------------
(* The IRC network.                                                        *)

Arrives(line) ==
  /\ wire.open /\ reader.pc = "serving"
  /\ Len(inbox) < InboxSize
  /\ inbox' = Append(inbox, line)
  /\ UNCHANGED <<account, stopped, wire, reader, workers, sender, events, server>>

Refuse == net.introduced /\ Arrives(Line("ERROR", "")) /\ UNCHANGED net

Welcome ==
  /\ net.introduced /\ ~net.welcomed
  /\ Arrives(Line("001", ""))
  /\ net' = [net EXCEPT !.welcomed = TRUE]

\* The account enters a room it asked for, or is put back by a service into
\* one it was removed from.
Admit(r) ==
  /\ r \in net.asked \cup (net.entered \ net.member)
  /\ Arrives(Line("JOIN", r))
  /\ net' = [net EXCEPT !.asked = @ \ {r}, !.member = @ \cup {r},
                        !.entered = @ \cup {r}]

Deny(r) ==
  /\ r \in net.asked
  /\ Arrives(Line("403", r))
  /\ net' = [net EXCEPT !.asked = @ \ {r}]

\* Somebody removes the account from a room.
Remove(r) ==
  /\ r \in net.member
  /\ \E cmd \in {"PART", "KICK"} : Arrives(Line(cmd, r))
  /\ net' = [net EXCEPT !.member = @ \ {r}]

\* The connection breaks.
Break ==
  /\ wire.open
  /\ wire' = Closed
  /\ UNCHANGED <<account, stopped, reader, workers, sender, events, server,
                 inbox, net>>

Network ==
  \/ Refuse \/ Welcome \/ Break
  \/ \E r \in Rooms : Admit(r) \/ Deny(r) \/ Remove(r)

-----------------------------------------------------------------------------
Init ==
  /\ account = Unconnected
  /\ stopped = FALSE
  /\ wire = [id |-> 0, open |-> FALSE]
  /\ reader = NewReader
  /\ joiner = Off
  /\ keeper = FALSE
  /\ sender = [s \in Senders |-> [conn |-> 0, room |-> JoinOrder[1]]]
  /\ events = <<>>
  /\ told = [r \in Rooms |-> "preparing"]
  /\ status = "connecting"
  /\ inbox = <<>>
  /\ net = NewNet

Next ==
  \/ ReaderStep
  \/ Join \/ Complain \/ KeeperStops
  \/ \E s \in Senders : Send(s) \/ \E r \in Rooms : Look(s, r)
  \/ Receive
  \/ Stop \/ CloseStopped
  \/ Network

Spec == Init /\ [][Next]_vars

\* Goroutines run, the keepalive ticks, the event loop takes events.
Fairness ==
  /\ WF_vars(ReaderStep) /\ WF_vars(Join) /\ WF_vars(Complain)
  /\ WF_vars(KeeperStops /\ (Cancelled \/ ~wire.open))
  /\ WF_vars(Receive) /\ WF_vars(CloseStopped)

FairSpec == Spec /\ Fairness

-----------------------------------------------------------------------------
(* Properties.                                                             *)

Connections == 0..MaxConns

\* The types.  A room is never noted as joined and as unavailable at once.
TypeOK ==
  /\ account \in [connection: Connections, joined: SUBSET Rooms,
                  unavailable: SUBSET Rooms]
  /\ account.joined \cap account.unavailable = {}
  /\ stopped \in BOOLEAN /\ keeper \in BOOLEAN
  /\ wire \in [id: Connections, open: BOOLEAN]
  /\ reader.pc \in {"away", "serving", "leaving", "waiting", "gone"}
  /\ joiner \in [stage: {"off", "joining", "failed"}, at: 0..Len(JoinOrder)]
  /\ sender \in [Senders -> [conn: Connections, room: Rooms]]
  /\ Len(events) <= EventsSize /\ Len(inbox) <= InboxSize
  /\ told \in [Rooms -> RoomStates]
  /\ status \in Statuses

\* A message is only ever written to a room that the account has entered on
\* the very connection it is written to (Send, which reads the connection and
\* the room under the mutex and writes outside it, while sessions end and
\* begin).
SentWhereJoined == ~net.stray

\* The tables of rooms are consistent and no message goes astray by them.
SessionInv == TypeOK /\ SentWhereJoined

\* Nothing about a running account is on its way to its subscriber.
Quiet == events = <<>> /\ reader.todo = <<>> /\ ~stopped

\* A subscriber to whom nothing more is on its way was last told the present
\* state of every room (refreshRoomStates, which reads the state at the time
\* it handles an event, not the state the event was about; the end of a
\* session, whose only announcement is a status), and the account's status
\* says that a session has ended: no worker of it reports anything afterwards
\* (joins.Wait in serveConnection).
ToldTheTruth ==
  Quiet => /\ \A r \in Rooms : told[r] = RoomState(r)
           /\ reader.pc = "away" /\ wire.id # 0 => status = "disconnected"

\* A session whose connection is lost or refused ends, and a stopped account
\* finishes: reader, join worker and keepalive wait for one another, for the
\* queue of events and for the network, and never for ever (serveConnection).
SessionEnds ==
  /\ account.connection # 0 /\ (~wire.open \/ reader.pc = "leaving")
       ~> account.connection = 0
  /\ stopped ~> Idle("gone")

-----------------------------------------------------------------------------
(* What the proofs rest on.                                                *)

Events == [do : {"status"}, arg : Statuses] \cup [do : {"membership"}, arg : Rooms]

Tasks == Events \cup {Do("dial", ""), Do("write", "USER"), Do("workers", "")}

Lines == {Line("001", ""), Line("ERROR", "")}
           \cup [cmd : {"JOIN", "PART", "KICK", "403"}, arg : Rooms]

Reader == [pc : {"away", "serving", "leaving", "waiting", "gone"},
           todo : Seq(Tasks), welcome : BOOLEAN]

Net == [introduced : BOOLEAN, welcomed : BOOLEAN, asked : SUBSET Rooms,
        member : SUBSET Rooms, entered : SUBSET Rooms, stray : BOOLEAN]

\* The types of what is on its way.
DataInv ==
  /\ TypeOK
  /\ reader \in Reader /\ net \in Net
  /\ events \in Seq(Events) /\ inbox \in Seq(Lines)
  /\ joiner.stage = "joining" => joiner.at # 0

\* A session leaves nothing behind, and the reader does one thing at a time: it
\* dials, or introduces itself, last, and ends a session with nothing to do.
PhaseInv ==
  /\ reader.pc \in {"away", "gone"} =>
       /\ account = Unconnected /\ ~wire.open /\ WorkersDone
       /\ \A i \in DOMAIN reader.todo : reader.todo[i].do \in {"status", "dial"}
  /\ reader.pc \in {"serving", "leaving", "waiting"} =>
       account.connection = wire.id /\ wire.id # 0
  /\ reader.pc \in {"leaving", "waiting"} => reader.todo = <<>>
  /\ reader.pc = "waiting" => ~wire.open
  /\ \A i \in DOMAIN reader.todo :
       /\ reader.todo[i].do \in {"dial", "write"} => i = Len(reader.todo)
       /\ reader.todo[i].do = "dial" => reader.pc = "away" /\ wire.id < MaxConns

\* What the account and its senders take for joined it has entered on the
\* connection they speak of.
JoinInv ==
  /\ account.joined \subseteq net.entered
  /\ \A i \in DOMAIN inbox : inbox[i].cmd = "JOIN" => inbox[i].arg \in net.entered
  /\ \A s \in Senders :
       /\ sender[s].conn <= wire.id
       /\ sender[s].conn = wire.id /\ wire.open => sender[s].room \in net.entered
  /\ SentWhereJoined

\* Something on its way makes the server look at a room again.
Announced(queue, r) ==
  \E i \in DOMAIN queue : queue[i].do = "status" \/ queue[i] = Do("membership", r)

LastOf(queue, what) == queue # <<>> /\ queue[Len(queue)] = what

\* A subscriber was told the truth, or a look at it is on its way; and the end
\* of a session is the last that is said of it.
TruthInv ==
  ~stopped =>
    /\ \A r \in Rooms : \/ told[r] = RoomState(r)
                        \/ Announced(events, r) \/ Announced(reader.todo, r)
    /\ reader.pc = "away" /\ wire.id # 0 =>
         \/ LastOf(reader.todo, Do("dial", ""))
         \/ LastOf(reader.todo, Do("status", "disconnected"))
         \/ /\ reader.todo = <<>>
            /\ \/ LastOf(events, Do("status", "disconnected"))
               \/ events = <<>> /\ status = "disconnected"

SessionIndInv == DataInv /\ PhaseInv /\ JoinInv /\ TruthInv

=============================================================================
