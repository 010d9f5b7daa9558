------------------------- MODULE IrcSession_proofs --------------------------
(***************************************************************************)
(* Proofs about an account's IRC sessions, for any rooms, any number of    *)
(* senders and connections, and queues of any length.                      *)
(***************************************************************************)
EXTENDS IrcSession, SequenceTheorems, TLAPS

-----------------------------------------------------------------------------
(* Queues.                                                                 *)

LEMMA FirstAndRest ==
  ASSUME NEW S, NEW q \in Seq(S), q # <<>>
  PROVE  /\ Head(q) \in S /\ 1 \in DOMAIN q /\ Head(q) = q[1]
         /\ Tail(q) \in Seq(S) /\ Len(Tail(q)) = Len(q) - 1
         /\ \A i \in DOMAIN Tail(q) : i + 1 \in DOMAIN q /\ Tail(q)[i] = q[i + 1]
         /\ \A i \in DOMAIN q : i # 1 => i - 1 \in DOMAIN Tail(q)
                                         /\ Tail(q)[i - 1] = q[i]
  OBVIOUS

LEMMA OneBehind ==
  ASSUME NEW S, NEW q \in Seq(S), NEW x \in S
  PROVE  /\ Append(q, x) \in Seq(S) /\ Len(Append(q, x)) = Len(q) + 1
         /\ \A i \in DOMAIN q : i \in DOMAIN Append(q, x) /\ Append(q, x)[i] = q[i]
         /\ Append(q, x)[Len(q) + 1] = x
         /\ Len(q) + 1 \in DOMAIN Append(q, x)
         /\ \A i \in DOMAIN Append(q, x) : i \in DOMAIN q \/ i = Len(q) + 1
  OBVIOUS

LEMMA Typed ==
  ASSUME NEW S, NEW q \in Seq(S)
  PROVE  /\ Len(q) \in Nat /\ DOMAIN q = 1..Len(q)
         /\ \A i \in DOMAIN q : i \in Nat /\ q[i] \in S
         /\ q # <<>> => Len(q) > 0 /\ Len(q) \in DOMAIN q
  OBVIOUS

LEMMA Alone ==
  ASSUME NEW S, NEW x \in S
  PROVE  /\ <<x>> \in Seq(S) /\ <<x>> # <<>> /\ Len(<<x>>) = 1
         /\ DOMAIN <<x>> = 1..1 /\ <<x>>[1] = x
  OBVIOUS

LEMMA TwoInARow ==
  ASSUME NEW S, NEW x \in S, NEW y \in S
  PROVE  /\ <<x>> \o <<y>> \in Seq(S) /\ <<x>> \o <<y>> # <<>>
         /\ Len(<<x>> \o <<y>>) = 2 /\ DOMAIN (<<x>> \o <<y>>) = 1..2
         /\ (<<x>> \o <<y>>)[1] = x /\ (<<x>> \o <<y>>)[2] = y
<1>1. PICK s : s = <<x>> /\ s \in Seq(S) /\ Len(s) = 1 /\ s[1] = x
  BY Alone
<1>2. PICK t : t = <<y>> /\ t \in Seq(S) /\ Len(t) = 1 /\ t[1] = y
  BY Alone
<1>3. PICK q : q = s \o t
  OBVIOUS
<1>4. /\ q \in Seq(S) /\ Len(q) = 2
      /\ \A i \in 1..2 : q[i] = IF i <= 1 THEN s[i] ELSE t[i - 1]
  BY <1>1, <1>2, <1>3, ConcatProperties
<1>5. q[1] = x /\ q[2] = y
  BY <1>1, <1>2, <1>4
<1>6. DOMAIN q = 1..2
  BY <1>4
<1>7. q # <<>>
  <2>1. Len(<<>>) = 0
    OBVIOUS
  <2>2. Len(q) # 0
    BY <1>4
  <2> QED BY <2>1, <2>2
<1> QED BY <1>1, <1>2, <1>3, <1>4, <1>5, <1>6, <1>7

\* A look at a room stays announced until it is taken.
LEMMA StaysAnnounced ==
  ASSUME NEW S, NEW q \in Seq(S), q # <<>>, NEW r, Announced(q, r)
  PROVE  \/ Announced(Tail(q), r)
         \/ Head(q).do = "status" \/ Head(q) = Do("membership", r)
<1>1. PICK i \in DOMAIN q : q[i].do = "status" \/ q[i] = Do("membership", r)
  BY DEF Announced
<1>2. CASE i = 1
  BY <1>1, <1>2, FirstAndRest
<1>3. CASE i # 1
  <2>1. i - 1 \in DOMAIN Tail(q) /\ Tail(q)[i - 1] = q[i]
    BY <1>3, FirstAndRest
  <2> QED BY <1>1, <2>1 DEF Announced
<1> QED BY <1>2, <1>3

LEMMA AnnouncedBehind ==
  ASSUME NEW S, NEW q \in Seq(S), NEW x \in S, NEW r
  PROVE  /\ Announced(q, r) => Announced(Append(q, x), r)
         /\ x.do = "status" \/ x = Do("membership", r) => Announced(Append(q, x), r)
  BY OneBehind DEF Announced

LEMMA LastBehind ==
  ASSUME NEW S, NEW q \in Seq(S), NEW x \in S
  PROVE  LastOf(Append(q, x), x)
  BY OneBehind DEF LastOf

LEMMA LastOfRest ==
  ASSUME NEW S, NEW q \in Seq(S), NEW x, LastOf(q, x)
  PROVE  LastOf(Tail(q), x) \/ (Tail(q) = <<>> /\ Head(q) = x)
<1>1. q # <<>> /\ q[Len(q)] = x
  BY DEF LastOf
<1>2. CASE Len(q) = 1
  BY <1>1, <1>2, FirstAndRest
<1>3. CASE Len(q) # 1
  <2>1. Len(q) \in DOMAIN q /\ Len(q) \in Nat
    BY <1>1
  <2>2. Tail(q)[Len(q) - 1] = q[Len(q)]
    BY <1>1, <1>3, <2>1, FirstAndRest
  <2>3. Len(Tail(q)) = Len(q) - 1
    BY <1>1, FirstAndRest
  <2>4. Tail(q) # <<>>
    <3>1. Len(<<>>) = 0
      OBVIOUS
    <3>2. Len(Tail(q)) # 0
      BY <1>3, <2>1, <2>3
    <3> QED BY <3>1, <3>2
  <2> QED BY <1>1, <2>2, <2>3, <2>4 DEF LastOf
<1> QED BY <1>2, <1>3

-----------------------------------------------------------------------------
(* Types.                                                                  *)

LEMMA RoomNames ==
  /\ Len(JoinOrder) \in Nat \ {0}
  /\ \A i \in 1..Len(JoinOrder) : JoinOrder[i] \in Rooms
  /\ Rooms # {}
<1>1. JoinOrder \in Seq(Rooms) /\ JoinOrder # <<>>
  BY IrcSessionAssumption DEF IrcSessionAssumption
<1> QED BY <1>1

LEMMA TaskNames ==
  /\ \A s \in Statuses : Do("status", s) \in Events /\ Do("status", s) \in Tasks
  /\ \A r \in Rooms : Do("membership", r) \in Events /\ Do("membership", r) \in Tasks
  /\ Do("dial", "") \in Tasks /\ Do("write", "USER") \in Tasks
  /\ Do("workers", "") \in Tasks
<1>1. \A s \in Statuses : Do("status", s) \in Events
  BY DEF Events, Do
<1>2. \A r \in Rooms : Do("membership", r) \in Events
  BY DEF Events, Do
<1> QED BY <1>1, <1>2 DEF Tasks

LEMMA DoFields == \A what, arg : Do(what, arg).do = what /\ Do(what, arg).arg = arg
  BY DEF Do

LEMMA EventParts ==
  ASSUME NEW e \in Events
  PROVE  /\ e.do \in {"status", "membership"}
         /\ e.do = "status" => e.arg \in Statuses
         /\ e.do = "membership" => e.arg \in Rooms
         /\ e = Do(e.do, e.arg)
  BY DEF Events, Do

LEMMA TaskParts ==
  ASSUME NEW x \in Tasks
  PROVE  /\ x.do \in {"status", "membership"} => x \in Events
         /\ x.do = "dial" => x = Do("dial", "")
         /\ x.do = "write" => x = Do("write", "USER")
         /\ x.do = "workers" => x = Do("workers", "")
         /\ x.do \in {"status", "membership", "dial", "write", "workers"}
<1>1. CASE x \in Events
  BY <1>1, EventParts
<1>2. CASE x = Do("dial", "")
  BY <1>2 DEF Do
<1>3. CASE x = Do("write", "USER")
  BY <1>3 DEF Do
<1>4. CASE x = Do("workers", "")
  BY <1>4 DEF Do
<1> QED BY <1>1, <1>2, <1>3, <1>4 DEF Tasks

\* A write that fails closes the connection.
LEMMA WriteCases ==
  ASSUME NEW line, Writes(line) \/ Fails(line)
  PROVE  /\ wire' = wire \/ wire' = Closed
         /\ net' = net \/ (wire.open /\ net' = Received(line))
  BY DEF Writes, Fails

LEMMA ReceivedIs ==
  ASSUME net \in Net, NEW line,
         line.cmd \in {"USER", "JOIN", "PRIVMSG"},
         line.cmd = "JOIN" => line.arg \in Rooms
  PROVE  /\ Received(line) \in Net
         /\ Received(line).entered = net.entered
         /\ line.cmd # "PRIVMSG" => Received(line).stray = net.stray
         /\ line.cmd = "PRIVMSG" =>
              Received(line).stray = (net.stray \/ line.arg \notin net.entered)
<1>1. CASE line.cmd = "USER"
  BY <1>1 DEF Received, Net
<1>2. CASE line.cmd = "JOIN"
  BY <1>2 DEF Received, Net
<1>3. CASE line.cmd = "PRIVMSG"
  <2>1. PICK b \in BOOLEAN : b = (net.stray \/ line.arg \notin net.entered)
    BY Zenon
  <2>2. Received(line) = [net EXCEPT !.stray = b]
    BY <1>3, <2>1 DEF Received
  <2> QED BY <1>3, <2>1, <2>2 DEF Net
<1> QED BY <1>1, <1>2, <1>3

LEMMA ClosedIs ==
  ASSUME wire \in [id : Connections, open : BOOLEAN]
  PROVE  /\ Closed \in [id : Connections, open : BOOLEAN]
         /\ Closed.id = wire.id /\ ~Closed.open
  BY DEF Closed

LEMMA NewNetIs == NewNet \in Net /\ NewNet.entered = {} /\ ~NewNet.stray
  BY DEF NewNet, Net

LEMMA EndedIs ==
  /\ Ended \in Reader
  /\ Ended.pc = "away"
  /\ stopped => Ended.todo = <<>>
  /\ ~stopped => Ended.todo = <<Do("status", "disconnected")>>
<1>1. PICK d \in Tasks : d = Do("status", "disconnected")
  BY TaskNames DEF Statuses
<1>2. PICK q : q = IF stopped THEN <<>> ELSE <<d>>
  OBVIOUS
<1>3. q \in Seq(Tasks)
  BY <1>2
<1>4. Ended = [pc |-> "away", todo |-> q, welcome |-> FALSE]
  <2>1. q = IF stopped THEN <<>> ELSE Report("disconnected")
    BY <1>1, <1>2 DEF Report
  <2>2. Ended = [NewReader EXCEPT !.todo = q]
    BY <2>1, Zenon DEF Ended
  <2> QED BY <2>2 DEF NewReader
<1> QED BY <1>1, <1>2, <1>3, <1>4 DEF Reader

\* The parts of the types.
LEMMA DataParts ==
  ASSUME DataInv
  PROVE  /\ account \in [connection: Connections, joined: SUBSET Rooms,
                         unavailable: SUBSET Rooms]
         /\ account.joined \cap account.unavailable = {}
         /\ stopped \in BOOLEAN /\ keeper \in BOOLEAN
         /\ wire \in [id : Connections, open : BOOLEAN]
         /\ joiner \in [stage: {"off", "joining", "failed"}, at: 0..Len(JoinOrder)]
         /\ joiner.stage = "joining" => JoinOrder[joiner.at] \in Rooms
         /\ sender \in [Senders -> [conn: Connections, room: Rooms]]
         /\ reader \in Reader /\ net \in Net
         /\ reader.todo \in Seq(Tasks)
         /\ events \in Seq(Events) /\ inbox \in Seq(Lines)
         /\ Len(events) <= EventsSize /\ Len(inbox) <= InboxSize
         /\ told \in [Rooms -> RoomStates] /\ status \in Statuses
         /\ EventsSize \in Nat /\ InboxSize \in Nat
  BY RoomNames, IrcSessionAssumption DEF DataInv, TypeOK, Reader, IrcSessionAssumption

\* What a reader's step does to its own record.
LEMMA ReaderParts ==
  ASSUME reader \in Reader
  PROVE  /\ \A t \in Seq(Tasks) : /\ [reader EXCEPT !.todo = t] \in Reader
                                  /\ [reader EXCEPT !.todo = t].pc = reader.pc
                                  /\ [reader EXCEPT !.todo = t].todo = t
         /\ \A p \in {"away", "serving", "leaving", "waiting", "gone"} :
              /\ [reader EXCEPT !.pc = p] \in Reader
              /\ [reader EXCEPT !.pc = p].pc = p
              /\ [reader EXCEPT !.pc = p].todo = reader.todo
              /\ \A t \in Seq(Tasks) : /\ [reader EXCEPT !.pc = p, !.todo = t] \in Reader
                                       /\ [reader EXCEPT !.pc = p, !.todo = t].pc = p
                                       /\ [reader EXCEPT !.pc = p, !.todo = t].todo = t
  BY DEF Reader

\* What the reader is told to do next.
LEMMA Plans ==
  /\ \A s \in Statuses : /\ Report(s) \in Seq(Tasks) /\ Report(s) # <<>>
                         /\ Len(Report(s)) = 1 /\ DOMAIN Report(s) = 1..1
                         /\ Report(s)[1] = Do("status", s)
  /\ \A s \in Statuses, x \in Tasks :
       LET q == Report(s) \o <<x>>
       IN /\ q \in Seq(Tasks) /\ q # <<>> /\ Len(q) = 2 /\ DOMAIN q = 1..2
          /\ q[1] = Do("status", s) /\ q[2] = x
  /\ <<Do("write", "USER")>> \in Seq(Tasks) /\ Len(<<Do("write", "USER")>>) = 1
  /\ DOMAIN <<Do("write", "USER")>> = 1..1 /\ <<>> \in Seq(Tasks)
<1>1. ASSUME NEW s \in Statuses
      PROVE  /\ Report(s) \in Seq(Tasks) /\ Report(s) # <<>>
             /\ Len(Report(s)) = 1 /\ DOMAIN Report(s) = 1..1
             /\ Report(s)[1] = Do("status", s)
  <2>1. Do("status", s) \in Tasks
    BY TaskNames
  <2> QED BY <2>1, Alone DEF Report
<1>2. ASSUME NEW s \in Statuses, NEW x \in Tasks
      PROVE  LET q == Report(s) \o <<x>>
             IN /\ q \in Seq(Tasks) /\ q # <<>> /\ Len(q) = 2 /\ DOMAIN q = 1..2
                /\ q[1] = Do("status", s) /\ q[2] = x
  <2>1. Do("status", s) \in Tasks
    BY TaskNames
  <2>2. PICK e \in Tasks : e = Do("status", s)
    BY <2>1
  <2>3. PICK q : q = <<e>> \o <<x>>
    OBVIOUS
  <2>4. /\ q \in Seq(Tasks) /\ q # <<>> /\ Len(q) = 2 /\ DOMAIN q = 1..2
        /\ q[1] = e /\ q[2] = x
    BY <2>3, TwoInARow
  <2>5. q = Report(s) \o <<x>>
    BY <2>2, <2>3 DEF Report
  <2> QED BY <2>2, <2>4, <2>5
<1>3. Do("write", "USER") \in Tasks
  BY TaskNames
<1>4. /\ <<Do("write", "USER")>> \in Seq(Tasks) /\ Len(<<Do("write", "USER")>>) = 1
      /\ DOMAIN <<Do("write", "USER")>> = 1..1 /\ <<>> \in Seq(Tasks)
  BY <1>3, Alone
<1> QED BY <1>1, <1>2, <1>4

LEMMA TellsIs ==
  ASSUME NEW r \in Rooms, NEW cmd \in {"JOIN", "PART", "KICK", "403"}
  PROVE  /\ Tells(cmd, r) \in Seq(Tasks)
         /\ 1 \in DOMAIN Tells(cmd, r) /\ Tells(cmd, r)[1] = Do("membership", r)
         /\ \A i \in DOMAIN Tells(cmd, r) :
              Tells(cmd, r)[i].do \in {"membership", "status"}
<1>1. PICK m \in Tasks : m = Do("membership", r)
  BY TaskNames
<1>2. PICK c \in Tasks : c = Do("status", "connected")
  BY TaskNames DEF Statuses
<1>3. PICK e \in Tasks : e = Do("status", "error")
  BY TaskNames DEF Statuses
<1>4. m.do = "membership" /\ c.do = "status" /\ e.do = "status"
  BY <1>1, <1>2, <1>3 DEF Do
<1>5. CASE cmd = "JOIN"
  <2>1. Tells(cmd, r) = <<m>> \o <<c>>
    BY <1>1, <1>2, <1>5 DEF Tells, Member, Report
  <2> QED BY <2>1, <1>1, <1>4, TwoInARow
<1>6. CASE cmd = "PART"
  <2>1. Tells(cmd, r) = <<m>>
    BY <1>1, <1>6 DEF Tells, Member
  <2> QED BY <2>1, <1>1, <1>4, Alone
<1>7. CASE cmd \in {"KICK", "403"}
  <2>1. Tells(cmd, r) = <<m>> \o <<e>>
    BY <1>1, <1>3, <1>7 DEF Tells, Member, Report
  <2> QED BY <2>1, <1>1, <1>4, TwoInARow
<1> QED BY <1>5, <1>6, <1>7

\* A room is noted as joined or as unavailable.
LEMMA NotedIs ==
  ASSUME account \in [connection: Connections, joined: SUBSET Rooms,
                      unavailable: SUBSET Rooms],
         account.joined \cap account.unavailable = {},
         NEW r \in Rooms, NEW state
  PROVE  LET a == Noted(r, state)
         IN /\ a \in [connection: Connections, joined: SUBSET Rooms,
                      unavailable: SUBSET Rooms]
            /\ a.joined \cap a.unavailable = {}
            /\ a.connection = account.connection
            /\ a.joined \subseteq account.joined \cup {r}
            /\ state # "ready" => a.joined \subseteq account.joined
            /\ a.joined \ {r} = account.joined \ {r}
            /\ a.unavailable \ {r} = account.unavailable \ {r}
<1>1. CASE state = "ready"
  BY <1>1 DEF Noted
<1>2. CASE state # "ready"
  BY <1>2 DEF Noted
<1> QED BY <1>1, <1>2

LEMMA StateNames == \A r : RoomState(r) \in RoomStates
  BY DEF RoomState, RoomStates

LEMMA LineNames ==
  /\ Line("001", "") \in Lines /\ Line("ERROR", "") \in Lines
  /\ \A cmd \in {"JOIN", "PART", "KICK", "403"}, r \in Rooms : Line(cmd, r) \in Lines
  /\ Line("001", "").cmd # "JOIN" /\ Line("ERROR", "").cmd # "JOIN"
  /\ \A cmd, r : Line(cmd, r).cmd = cmd /\ Line(cmd, r).arg = r
  BY DEF Lines, Line

LEMMA LineIs ==
  ASSUME NEW cmd, NEW r
  PROVE  \E line : line = Line(cmd, r) /\ line.cmd = cmd /\ line.arg = r
<1>1. Line(cmd, r).cmd = cmd /\ Line(cmd, r).arg = r
  BY DEF Line
<1> QED BY <1>1

LEMMA TwoSteps ==
  ASSUME NEW s \in Statuses, NEW x \in Tasks
  PROVE  \E q \in Seq(Tasks) : /\ q = Report(s) \o <<x>> /\ q # <<>>
                               /\ Len(q) = 2 /\ DOMAIN q = 1..2
                               /\ q[1] = Do("status", s) /\ q[2] = x
  BY Plans

\* What the reader has to do next, and the line it reads next.
LEMMA DoIs ==
  ASSUME DataInv, NEW what, MustDo(what)
  PROVE  /\ reader.todo # <<>> /\ Head(reader.todo) \in Tasks
         /\ Head(reader.todo).do = what
         /\ 1 \in DOMAIN reader.todo /\ Head(reader.todo) = reader.todo[1]
         /\ Tail(reader.todo) \in Seq(Tasks)
         /\ Len(Tail(reader.todo)) = Len(reader.todo) - 1
         /\ Len(reader.todo) \in Nat
         /\ \A i \in DOMAIN Tail(reader.todo) :
              /\ i \in Nat /\ i + 1 \in DOMAIN reader.todo
              /\ Tail(reader.todo)[i] = reader.todo[i + 1]
<1>1. PICK q \in Seq(Tasks) : q = reader.todo
  BY DataParts
<1>2. q # <<>> /\ Head(q).do = what
  BY <1>1 DEF MustDo
<1>3. /\ Head(q) \in Tasks /\ 1 \in DOMAIN q /\ Head(q) = q[1]
      /\ Tail(q) \in Seq(Tasks) /\ Len(Tail(q)) = Len(q) - 1
      /\ \A i \in DOMAIN Tail(q) : i + 1 \in DOMAIN q /\ Tail(q)[i] = q[i + 1]
  BY <1>2, FirstAndRest
<1>4. Len(q) \in Nat /\ \A i \in DOMAIN Tail(q) : i \in Nat
  BY <1>3, Typed
<1> QED BY <1>1, <1>2, <1>3, <1>4

LEMMA ReadIs ==
  ASSUME DataInv, NEW line, Read(line)
  PROVE  /\ reader.pc = "serving" /\ reader.todo = <<>>
         /\ 1 \in DOMAIN inbox /\ inbox[1] = line /\ line \in Lines
         /\ inbox' \in Seq(Lines) /\ Len(inbox') <= InboxSize
         /\ \A i \in DOMAIN inbox' : /\ i + 1 \in DOMAIN inbox
                                    /\ inbox'[i] = inbox[i + 1]
<1>1. PICK q \in Seq(Lines) : q = inbox /\ Len(q) <= InboxSize
  BY DataParts
<1>2. PICK t : t = Tail(q)
  OBVIOUS
<1>3. q # <<>> /\ Head(q) = line /\ inbox' = t
  BY <1>1, <1>2 DEF Read
<1>4. /\ Head(q) \in Lines /\ 1 \in DOMAIN q /\ Head(q) = q[1]
      /\ t \in Seq(Lines) /\ Len(t) = Len(q) - 1
      /\ \A i \in DOMAIN t : i + 1 \in DOMAIN q /\ t[i] = q[i + 1]
  BY <1>2, <1>3, FirstAndRest
<1>5. Len(q) \in Nat /\ InboxSize \in Nat
  BY Typed, DataParts
<1>6. Len(t) <= InboxSize
  BY <1>1, <1>4, <1>5
<1> QED BY <1>1, <1>3, <1>4, <1>6 DEF Read, Idle

LEMMA EmitsIs ==
  ASSUME DataInv, NEW e \in Events, Emits(e)
  PROVE  events' \in Seq(Events) /\ Len(events') <= EventsSize
<1>1. PICK q \in Seq(Events) : q = events
  BY DataParts
<1>2. PICK t : t = Append(q, e)
  OBVIOUS
<1>3. events' = t /\ Len(q) < EventsSize
  BY <1>1, <1>2 DEF Emits
<1>4. t \in Seq(Events) /\ Len(t) = Len(q) + 1 /\ Len(q) \in Nat
  BY <1>2, OneBehind, Typed
<1> QED BY <1>3, <1>4, DataParts

LEMMA Heard ==
  ASSUME DataInv, NEW cmd \in {"USER", "JOIN", "PRIVMSG"}, NEW r,
         cmd = "JOIN" => r \in Rooms, Writes(Line(cmd, r)) \/ Fails(Line(cmd, r))
  PROVE  /\ wire' \in [id : Connections, open : BOOLEAN] /\ net' \in Net
         /\ wire'.id = wire.id /\ (wire'.open => wire.open)
         /\ net'.entered = net.entered
         /\ cmd # "PRIVMSG" => net'.stray = net.stray
         /\ cmd = "PRIVMSG" /\ net'.stray =>
              net.stray \/ (wire.open /\ r \notin net.entered)
<1>1. PICK line : line = Line(cmd, r) /\ line.cmd = cmd /\ line.arg = r
  BY LineIs
<1>2. /\ wire' = wire \/ wire' = Closed
      /\ net' = net \/ (wire.open /\ net' = Received(line))
  BY <1>1, WriteCases
<1>3. net \in Net /\ line.cmd \in {"USER", "JOIN", "PRIVMSG"}
      /\ (line.cmd = "JOIN" => line.arg \in Rooms)
  BY <1>1, DataParts
<1>5. /\ Received(line) \in Net /\ Received(line).entered = net.entered
      /\ line.cmd # "PRIVMSG" => Received(line).stray = net.stray
      /\ line.cmd = "PRIVMSG" =>
           Received(line).stray = (net.stray \/ line.arg \notin net.entered)
  BY <1>3, ReceivedIs
<1>4. wire' \in [id : Connections, open : BOOLEAN] /\ wire'.id = wire.id
      /\ (wire'.open => wire.open)
  BY <1>2, DataParts, ClosedIs
<1>6. net' \in Net /\ net'.entered = net.entered
  BY <1>2, <1>3, <1>5
<1> QED BY <1>1, <1>2, <1>4, <1>5, <1>6

\* The reader's steps.
LEMMA ReaderData ==
  ASSUME DataInv, PhaseInv, ReaderStep
  PROVE  DataInv'
<1>0. reader \in Reader
  BY DataParts
<1>1. CASE Attempt
  <2>1. Report("connecting") \o <<Do("dial", "")>> \in Seq(Tasks)
    BY Plans, TaskNames DEF Statuses
  <2>2. reader' \in Reader
    BY <1>1, <2>1, <1>0, ReaderParts DEF Attempt
  <2> QED BY <1>1, <2>2, DataParts DEF Attempt, DataInv, TypeOK, Reader, workers, server
<1>2. CASE Dial
  <2>1. wire.id + 1 \in Connections
    <3>1. MustDo("dial")
      BY <1>2 DEF Dial
    <3>2. 1 \in DOMAIN reader.todo /\ reader.todo[1].do = "dial"
      BY <3>1, DoIs
    <3>3. wire.id < MaxConns
      BY <3>2 DEF PhaseInv
    <3>4. wire.id \in 0..MaxConns
      BY DataParts DEF Connections
    <3> QED BY <3>3, <3>4, IrcSessionAssumption DEF Connections, IrcSessionAssumption
  <2>2. CASE reader' = Ended /\ UNCHANGED <<wire, account>>
    <3>1. reader' \in Reader
      BY <2>2, EndedIs
    <3> QED BY <1>2, <2>2, <3>1 DEF Dial, DataInv, TypeOK, Reader, workers, server
  <2>3. CASE /\ reader' = [NewReader EXCEPT !.pc = "serving",
                                            !.todo = <<Do("write", "USER")>>]
             /\ wire' = [id |-> wire.id + 1, open |-> TRUE]
             /\ account' = [account EXCEPT !.connection = wire.id + 1]
    <3>1. PICK q \in Seq(Tasks) : q = <<Do("write", "USER")>>
      BY Plans
    <3>2. reader' = [pc |-> "serving", todo |-> q, welcome |-> FALSE]
      BY <2>3, <3>1 DEF NewReader
    <3>3. reader' \in Reader
      BY <3>1, <3>2 DEF Reader
    <3> QED BY <1>2, <2>1, <2>3, <3>3 DEF Dial, DataInv, TypeOK, Reader, workers, server
  <2> QED BY <1>2, <2>2, <2>3 DEF Dial
<1>3. CASE Emit
  <2>1. MustDo("status") \/ MustDo("membership")
    BY <1>3 DEF Emit
  <2>2. Head(reader.todo) \in Events /\ Tail(reader.todo) \in Seq(Tasks)
    BY <2>1, DoIs, TaskParts
  <2>3. reader' \in Reader
    BY <1>3, <2>2, <1>0, ReaderParts DEF Emit
  <2>4. events' \in Seq(Events) /\ Len(events') <= EventsSize
    BY <1>3, <2>2, EmitsIs DEF Emit
  <2> QED BY <1>3, <2>3, <2>4, DataParts DEF Emit, DataInv, TypeOK, Reader, workers, server
<1>4. CASE Introduce
  <2>1. MustDo("write")
    BY <1>4 DEF Introduce
  <2>2. Head(reader.todo) \in Tasks /\ Tail(reader.todo) \in Seq(Tasks)
    BY <2>1, DoIs
  <2>3. Head(reader.todo) = Do("write", "USER")
    BY <2>1, <2>2, DoIs, TaskParts
  <2>4. Head(reader.todo).arg = "USER"
    BY <2>3 DEF Do
  <2>5. Writes(Line("USER", "")) \/ Fails(Line("USER", ""))
    BY <1>4, <2>4 DEF Introduce
  <2>6. wire' \in [id : Connections, open : BOOLEAN] /\ net' \in Net
    BY <2>5, Heard
  <2>7. reader' \in Reader
    <3>1. \/ reader' = [reader EXCEPT !.todo = Tail(@)]
          \/ reader' = [reader EXCEPT !.pc = "leaving", !.todo = <<>>]
      BY <1>4 DEF Introduce
    <3>2. <<>> \in Seq(Tasks)
      BY Plans
    <3>3. PICK q \in Seq(Tasks) : q = Tail(reader.todo)
      BY <2>2
    <3>4. \/ reader' = [reader EXCEPT !.todo = q]
          \/ reader' = [reader EXCEPT !.pc = "leaving", !.todo = <<>>]
      BY <3>1, <3>3
    <3> QED BY <1>0, <3>2, <3>3, <3>4 DEF Reader
  <2> QED BY <1>4, <2>6, <2>7, DataParts
          DEF Introduce, DataInv, TypeOK, Reader, workers, server
<1>5. CASE StartWorkers
  <2>1. Tail(reader.todo) \in Seq(Tasks)
    BY <1>5, DoIs DEF StartWorkers
  <2>2. reader' \in Reader
    BY <1>5, <2>1, <1>0, ReaderParts DEF StartWorkers
  <2>3. /\ joiner' \in [stage: {"off", "joining", "failed"}, at: 0..Len(JoinOrder)]
        /\ joiner'.at # 0
    <3>1. 1 \in 0..Len(JoinOrder)
      BY RoomNames
    <3> QED BY <1>5, <3>1 DEF StartWorkers
  <2> QED BY <1>5, <2>2, <2>3, DataParts DEF StartWorkers, DataInv, TypeOK, Reader, server
<1>6. CASE ReadWelcome
  <2>1. PICK q \in Seq(Tasks) : q = Report("connected") \o <<Do("workers", "")>>
    BY Plans, TaskNames DEF Statuses
  <2>2. reader' = [reader EXCEPT !.welcome = TRUE, !.todo = q]
    BY <1>6, <2>1 DEF ReadWelcome
  <2>3. reader' \in Reader
    BY <1>0, <2>1, <2>2 DEF Reader
  <2>4. inbox' \in Seq(Lines) /\ Len(inbox') <= InboxSize
    BY <1>6, ReadIs DEF ReadWelcome
  <2> QED BY <1>6, <2>3, <2>4, DataParts DEF ReadWelcome, DataInv, TypeOK, Reader, workers, server
<1>7. CASE ReadError
  <2>1. inbox' \in Seq(Lines) /\ Len(inbox') <= InboxSize
    BY <1>7, ReadIs DEF ReadError
  <2>2. reader' \in Reader
    BY <1>7, <1>0 DEF ReadError, Reader
  <2> QED BY <1>7, <2>1, <2>2, DataParts DEF ReadError, DataInv, TypeOK, Reader, workers, server
<1>8. CASE ReadFails
  <2>1. reader' \in Reader
    <3>1. reader' = [reader EXCEPT !.pc = "leaving"]
      BY <1>8 DEF ReadFails
    <3> QED BY <1>0, <3>1 DEF Reader
  <2> QED BY <1>8, <2>1, DataParts DEF ReadFails, DataInv, TypeOK, Reader, workers, server
<1>9. ASSUME NEW cmd \in {"JOIN", "PART", "KICK", "403"}, NEW r \in Rooms,
             ReadRoom(cmd, r)
      PROVE  DataInv'
  <2>1. inbox' \in Seq(Lines) /\ Len(inbox') <= InboxSize
    BY <1>9, ReadIs DEF ReadRoom
  <2>2. Tells(cmd, r) \in Seq(Tasks)
    BY TellsIs
  <2>3. reader' \in Reader
    BY <1>9, <2>2, <1>0, ReaderParts DEF ReadRoom
  <2>4. /\ account' \in [connection: Connections, joined: SUBSET Rooms,
                         unavailable: SUBSET Rooms]
        /\ account'.joined \cap account'.unavailable = {}
    <3>1. PICK state : account' = Noted(r, state)
      BY <1>9 DEF ReadRoom
    <3> QED BY <3>1, DataParts, NotedIs
  <2> QED BY <1>9, <2>1, <2>3, <2>4, DataParts
          DEF ReadRoom, DataInv, TypeOK, Reader, workers, server
<1>10. CASE Abandon
  <2>1. reader' \in Reader
    BY <1>10, <1>0, ReaderParts DEF Abandon
  <2> QED BY <1>10, <2>1, ClosedIs, DataParts DEF Abandon, DataInv, TypeOK, Reader, workers, server
<1>11. CASE Leave
  <2>1. reader' \in Reader /\ net' \in Net
    BY <1>11, EndedIs, NewNetIs DEF Leave
  <2>2. inbox' \in Seq(Lines) /\ Len(inbox') <= InboxSize
    <3>1. <<>> \in Seq(Lines) /\ Len(<<>>) = 0 /\ inbox' = <<>>
      BY <1>11 DEF Leave
    <3>2. InboxSize \in Nat
      BY DataParts
    <3> QED BY <3>1, <3>2
  <2>3. /\ account' \in [connection: Connections, joined: SUBSET Rooms,
                         unavailable: SUBSET Rooms]
        /\ account'.joined \cap account'.unavailable = {}
    <3>1. 0 \in Connections
      BY IrcSessionAssumption DEF Connections, IrcSessionAssumption
    <3> QED BY <1>11, <3>1 DEF Leave, Forgotten, Unconnected
  <2> QED BY <1>11, <2>1, <2>2, <2>3, DataParts DEF Leave, DataInv, TypeOK, Reader, workers, server
<1>12. CASE Finish
  <2>1. Report("stopped") \in Seq(Tasks)
    BY Plans DEF Statuses
  <2>2. reader' \in Reader
    BY <1>12, <2>1, <1>0, ReaderParts DEF Finish
  <2> QED BY <1>12, <2>2, DataParts DEF Finish, DataInv, TypeOK, Reader, workers, server
<1> QED BY <1>1, <1>2, <1>3, <1>4, <1>5, <1>6, <1>7, <1>8, <1>9, <1>10, <1>11, <1>12
        DEF ReaderStep

\* The steps of everybody else.
LEMMA WorkerData ==
  ASSUME DataInv, Join \/ Complain \/ KeeperStops
  PROVE  DataInv'
<1>1. CASE Join
  <2>1. joiner.stage = "joining" /\ JoinOrder[joiner.at] \in Rooms
    BY <1>1, DataParts DEF Join
  <2>2. CASE Cancelled
    <3>1. joiner' \in {Off, joiner, [joiner EXCEPT !.stage = "failed"]}
      BY <1>1, <2>2 DEF Join
    <3>2. UNCHANGED <<wire, net>>
      BY <1>1, <2>2 DEF Join
    <3>3. joiner' = Off
      BY <1>1, <2>2 DEF Join
    <3>4. /\ joiner' \in [stage: {"off", "joining", "failed"}, at: 0..Len(JoinOrder)]
          /\ joiner'.stage = "off"
      BY <3>3, RoomNames DEF Off
    <3> QED BY <1>1, <3>2, <3>4, DataParts DEF Join, DataInv, TypeOK, server
  <2>3. CASE ~Cancelled
    <3>1. Writes(Line("JOIN", JoinOrder[joiner.at])) \/ Fails(Line("JOIN", JoinOrder[joiner.at]))
      BY <1>1, <2>3 DEF Join
    <3>2. wire' \in [id : Connections, open : BOOLEAN] /\ net' \in Net
      BY <2>1, <3>1, Heard
    <3>3. \/ joiner.at = Len(JoinOrder) /\ joiner' = Off
          \/ joiner.at # Len(JoinOrder) /\ joiner' = [joiner EXCEPT !.at = @ + 1]
          \/ joiner' = [joiner EXCEPT !.stage = "failed"]
      BY <1>1, <2>3 DEF Join
    <3>4. /\ joiner' \in [stage: {"off", "joining", "failed"}, at: 0..Len(JoinOrder)]
          /\ joiner'.stage = "joining" => joiner'.at # 0
      <4>1. joiner \in [stage: {"off", "joining", "failed"}, at: 0..Len(JoinOrder)]
        BY DataParts
      <4>2. Len(JoinOrder) \in Nat
        BY RoomNames
      <4>3. CASE joiner' = Off
        BY <4>2, <4>3 DEF Off
      <4>4. CASE joiner.at # Len(JoinOrder) /\ joiner' = [joiner EXCEPT !.at = @ + 1]
        BY <4>1, <4>2, <4>4
      <4>5. CASE joiner' = [joiner EXCEPT !.stage = "failed"]
        BY <4>1, <4>2, <4>5
      <4> QED BY <3>3, <4>3, <4>4, <4>5
    <3> QED BY <1>1, <3>2, <3>4, DataParts DEF Join, DataInv, TypeOK, server
  <2> QED BY <2>2, <2>3
<1>2. CASE Complain
  <2>1. Do("status", "error") \in Events
    BY TaskNames DEF Statuses
  <2>2. events' \in Seq(Events) /\ Len(events') <= EventsSize
    <3>1. CASE Emits(Do("status", "error"))
      BY <2>1, <3>1, EmitsIs
    <3>2. CASE UNCHANGED events
      BY <3>2, DataParts
    <3> QED BY <1>2, <3>1, <3>2 DEF Complain
  <2>3. /\ joiner' \in [stage: {"off", "joining", "failed"}, at: 0..Len(JoinOrder)]
        /\ joiner'.stage = "off"
    BY <1>2, RoomNames DEF Complain, Off
  <2> QED BY <1>2, <2>2, <2>3, DataParts DEF Complain, DataInv, TypeOK, server
<1>3. CASE KeeperStops
  <2>1. wire' \in [id : Connections, open : BOOLEAN] /\ keeper' \in BOOLEAN
    BY <1>3, ClosedIs, DataParts DEF KeeperStops
  <2> QED BY <1>3, <2>1, DataParts DEF KeeperStops, DataInv, TypeOK, server
<1> QED BY <1>1, <1>2, <1>3

LEMMA SenderData ==
  ASSUME DataInv, NEW s \in Senders, Send(s) \/ \E r \in Rooms : Look(s, r)
  PROVE  DataInv'
<1>0. 0 \in Connections /\ sender[s].room \in Rooms
  <2>1. 0 \in Connections
    BY IrcSessionAssumption DEF Connections, IrcSessionAssumption
  <2> QED BY <2>1, DataParts
<1>1. CASE Send(s)
  <2>1. \/ UNCHANGED <<wire, net>>
        \/ Writes(Line("PRIVMSG", sender[s].room)) \/ Fails(Line("PRIVMSG", sender[s].room))
    BY <1>1 DEF Send
  <2>2. wire' \in [id : Connections, open : BOOLEAN] /\ net' \in Net
    <3>1. CASE UNCHANGED <<wire, net>>
      BY <3>1, DataParts
    <3>2. CASE ~UNCHANGED <<wire, net>>
      BY <2>1, <3>2, Heard
    <3> QED BY <3>1, <3>2
  <2>3. sender' \in [Senders -> [conn: Connections, room: Rooms]]
    BY SMTT(40), <1>0, <1>1, DataParts DEF Send
  <2> QED BY <1>1, <2>2, <2>3, DataParts DEF Send, DataInv, TypeOK, workers, server
<1>2. ASSUME NEW r \in Rooms, Look(s, r) PROVE DataInv'
  <2>1. sender' \in [Senders -> [conn: Connections, room: Rooms]]
    BY <1>2, DataParts DEF Look
  <2> QED BY <1>2, <2>1, DataParts DEF Look, DataInv, TypeOK, workers, server
<1> QED BY <1>1, <1>2

LEMMA ServerData ==
  ASSUME DataInv, Receive
  PROVE  DataInv'
<1>1. PICK q \in Seq(Events) : q = events
  BY DataParts
<1>2. q # <<>>
  BY <1>1 DEF Receive
<1>3. PICK e \in Events : e = Head(q)
  BY <1>2, FirstAndRest
<1>4. PICK t \in Seq(Events) : t = Tail(q) /\ Len(t) = Len(q) - 1
  BY <1>2, FirstAndRest
<1>5. status' \in Statuses
  <2>1. status' = IF e.do = "status" THEN e.arg ELSE status
    BY <1>1, <1>3 DEF Receive
  <2> QED BY <2>1, EventParts, DataParts
<1>6. told' \in [Rooms -> RoomStates]
  <2>1. told' = [r \in Rooms |-> IF r \in Refreshes(e) THEN RoomState(r) ELSE told[r]]
    BY <1>1, <1>3 DEF Receive
  <2>2. \A r \in Rooms : told[r] \in RoomStates /\ RoomState(r) \in RoomStates
    BY StateNames, DataParts
  <2> QED BY <2>1, <2>2
<1>7. events' \in Seq(Events) /\ Len(events') <= EventsSize
  <2>1. Len(q) \in Nat /\ Len(q) <= EventsSize /\ EventsSize \in Nat
    BY <1>1, Typed, DataParts
  <2>2. events' = t
    BY <1>1, <1>4 DEF Receive
  <2> QED BY <1>4, <2>1, <2>2
<1> QED BY <1>5, <1>6, <1>7, DataParts DEF Receive, DataInv, TypeOK, workers

LEMMA NetworkData ==
  ASSUME DataInv, Network
  PROVE  DataInv'
<1>1. ASSUME NEW line \in Lines, Arrives(line), net' \in Net PROVE DataInv'
  <2>1. PICK q \in Seq(Lines) : q = inbox
    BY DataParts
  <2>2. PICK t : t = Append(q, line)
    OBVIOUS
  <2>3. t \in Seq(Lines) /\ Len(t) = Len(q) + 1 /\ Len(q) \in Nat
    BY <2>2, OneBehind, Typed
  <2>4. inbox' = t /\ Len(q) < InboxSize
    BY <1>1, <2>1, <2>2 DEF Arrives
  <2>5. inbox' \in Seq(Lines) /\ Len(inbox') <= InboxSize
    BY <2>3, <2>4, DataParts
  <2> QED BY <1>1, <2>5, DataParts DEF Arrives, DataInv, TypeOK, workers, server
<1>2. net \in Net
  BY DataParts
<1>3. CASE Refuse
  BY <1>1, <1>2, <1>3, LineNames DEF Refuse
<1>4. CASE Welcome
  <2>1. net' \in Net
    BY <1>2, <1>4 DEF Welcome, Net
  <2> QED BY <1>1, <1>4, <2>1, LineNames DEF Welcome
<1>5. CASE Break
  <2>1. wire' \in [id : Connections, open : BOOLEAN]
    BY <1>5, ClosedIs, DataParts DEF Break
  <2> QED BY <1>5, <2>1, DataParts DEF Break, DataInv, TypeOK, workers, server
<1>6. ASSUME NEW r \in Rooms, Admit(r) PROVE DataInv'
  <2>1. net' \in Net
    BY <1>2, <1>6 DEF Admit, Net
  <2>2. Line("JOIN", r) \in Lines
    BY LineNames
  <2> QED BY <1>1, <1>6, <2>1, <2>2 DEF Admit
<1>7. ASSUME NEW r \in Rooms, Deny(r) PROVE DataInv'
  <2>1. net' \in Net
    BY <1>2, <1>7 DEF Deny, Net
  <2>2. Line("403", r) \in Lines
    BY LineNames
  <2> QED BY <1>1, <1>7, <2>1, <2>2 DEF Deny
<1>8. ASSUME NEW r \in Rooms, Remove(r) PROVE DataInv'
  <2>1. net' \in Net
    BY <1>2, <1>8 DEF Remove, Net
  <2>2. Line("PART", r) \in Lines /\ Line("KICK", r) \in Lines
    BY LineNames
  <2> QED BY <1>1, <1>8, <2>1, <2>2 DEF Remove
<1> QED BY <1>3, <1>4, <1>5, <1>6, <1>7, <1>8 DEF Network

LEMMA DataStep ==
  ASSUME DataInv, PhaseInv, [Next]_vars
  PROVE  DataInv'
<1>1. CASE Stop
  BY <1>1, DataParts DEF Stop, DataInv, TypeOK, workers, server
<1>2. CASE CloseStopped
  <2>1. wire' \in [id : Connections, open : BOOLEAN]
    BY <1>2, ClosedIs, DataParts DEF CloseStopped
  <2> QED BY <1>2, <2>1, DataParts DEF CloseStopped, DataInv, TypeOK, workers, server
<1>3. CASE UNCHANGED vars
  BY <1>3, DataParts DEF vars, DataInv, TypeOK, workers, server
<1> QED BY <1>1, <1>2, <1>3, ReaderData, WorkerData, SenderData, ServerData, NetworkData
        DEF Next

-----------------------------------------------------------------------------
(* The phases of a session.                                                *)

\* A step that does not concern the reader leaves the phase alone.
LEMMA PhaseKeeps ==
  ASSUME PhaseInv, reader' = reader, account' = account,
         wire'.id = wire.id, wire'.open => wire.open, WorkersDone => WorkersDone'
  PROVE  PhaseInv'
  BY DEF PhaseInv

LEMMA ServingWhen ==
  ASSUME DataInv, PhaseInv, NEW what \in {"write", "workers", "membership"}, MustDo(what)
  PROVE  reader.pc = "serving"
<1>1. 1 \in DOMAIN reader.todo /\ reader.todo[1].do = what /\ reader.todo # <<>>
  BY DoIs
<1>2. reader.pc \in {"away", "serving", "leaving", "waiting", "gone"}
  BY DataParts DEF Reader
<1> QED BY <1>1, <1>2 DEF PhaseInv

\* Dialling and introducing itself is the last thing the reader has to do.
LEMMA LastTask ==
  ASSUME DataInv, PhaseInv, NEW what \in {"dial", "write"}, MustDo(what)
  PROVE  /\ Len(reader.todo) = 1 /\ Tail(reader.todo) = <<>>
         /\ what = "dial" => reader.pc = "away"
<1>1. 1 \in DOMAIN reader.todo /\ reader.todo[1].do = what
  BY DoIs
<1>2. Len(reader.todo) = 1 /\ (what = "dial" => reader.pc = "away")
  BY <1>1 DEF PhaseInv
<1>3. PICK q : q = Tail(reader.todo)
  OBVIOUS
<1>4. q \in Seq(Tasks) /\ Len(q) = Len(reader.todo) - 1
  BY <1>3, DoIs
<1>5. Len(q) = 0
  BY <1>2, <1>4
<1>6. q = <<>>
  BY <1>4, <1>5
<1> QED BY <1>2, <1>3, <1>6

\* One thing less to do.
LEMMA PhaseGoesOn ==
  ASSUME DataInv, PhaseInv, NEW what, MustDo(what),
         reader' = [reader EXCEPT !.todo = Tail(@)],
         account' = account, wire'.id = wire.id, wire'.open => wire.open,
         WorkersDone' \/ reader.pc = "serving"
  PROVE  PhaseInv'
<1>1. PICK t \in Seq(Tasks) : t = Tail(reader.todo)
  BY DoIs
<1>2. reader'.pc = reader.pc /\ reader'.todo = t
  BY <1>1, DataParts DEF Reader
<1>3. \A i \in DOMAIN t : /\ i \in Nat /\ i + 1 \in DOMAIN reader.todo
                          /\ t[i] = reader.todo[i + 1]
  BY <1>1, DoIs
<1>4. Len(t) = Len(reader.todo) - 1 /\ Len(reader.todo) \in Nat /\ reader.todo # <<>>
  BY <1>1, DoIs
<1>5. reader.pc \notin {"leaving", "waiting"}
  BY <1>4 DEF PhaseInv
<1>6. \A i \in DOMAIN t :
        /\ t[i].do \in {"dial", "write"} => i = Len(t)
        /\ t[i].do = "dial" => reader.pc = "away" /\ wire.id < MaxConns
  BY <1>3, <1>4 DEF PhaseInv
<1>7. reader.pc \in {"away", "gone"} =>
        \A i \in DOMAIN t : t[i].do \in {"status", "dial"}
  BY <1>3 DEF PhaseInv
<1>8. reader.pc \in {"away", "gone"} =>
        account = Unconnected /\ ~wire'.open /\ WorkersDone'
  BY DEF PhaseInv
<1>9. reader.pc = "serving" => account'.connection = wire'.id /\ wire'.id # 0
  BY DEF PhaseInv
<1> QED BY <1>2, <1>5, <1>6, <1>7, <1>8, <1>9 DEF PhaseInv

\* A new list of what to do, without dialling or introducing itself.
LEMMA PhaseAnew ==
  ASSUME PhaseInv, reader.pc = "serving", reader'.pc = "serving",
         \A i \in DOMAIN reader'.todo : reader'.todo[i].do \notin {"dial", "write"},
         account'.connection = account.connection, wire'.id = wire.id
  PROVE  PhaseInv'
  BY DEF PhaseInv

LEMMA PhaseEnds ==
  ASSUME DataInv, PhaseInv, reader.pc = "serving", reader'.pc = "leaving",
         reader'.todo = <<>>, account' = account, wire'.id = wire.id
  PROVE  PhaseInv'
<1>1. \A i \in DOMAIN reader'.todo : FALSE
  OBVIOUS
<1> QED BY <1>1 DEF PhaseInv

LEMMA ReaderPhase ==
  ASSUME DataInv, PhaseInv, ReaderStep
  PROVE  PhaseInv'
<1>0. reader \in Reader /\ wire \in [id : Connections, open : BOOLEAN]
  BY DataParts
<1>1. CASE Attempt
  <2>1. PICK q \in Seq(Tasks) : /\ q = Report("connecting") \o <<Do("dial", "")>>
                                /\ Len(q) = 2 /\ DOMAIN q = 1..2
                                /\ q[1] = Do("status", "connecting")
                                /\ q[2] = Do("dial", "")
    <3>1. "connecting" \in Statuses /\ Do("dial", "") \in Tasks
      BY TaskNames DEF Statuses
    <3> QED BY <3>1, TwoSteps
  <2>2. reader' = [reader EXCEPT !.todo = q] /\ reader.pc = "away"
    BY <1>1, <2>1 DEF Attempt, Idle
  <2>3. reader'.pc = "away" /\ reader'.todo = q
    BY <1>0, <2>2 DEF Reader
  <2>4. q[1].do = "status" /\ q[2].do = "dial" /\ \A i \in DOMAIN q : i = 1 \/ i = 2
    <3>1. Do("status", "connecting").do = "status" /\ Do("dial", "").do = "dial"
      BY DEF Do
    <3>2. q[1].do = "status" /\ q[2].do = "dial"
      BY <2>1, <3>1
    <3>3. \A i \in 1..2 : i = 1 \/ i = 2
      OBVIOUS
    <3> QED BY <2>1, <3>2, <3>3
  <2>5. /\ wire.id < MaxConns /\ account' = account /\ wire' = wire
        /\ UNCHANGED workers
    BY <1>1 DEF Attempt
  <2>6. WorkersDone => WorkersDone'
    BY <2>5 DEF WorkersDone, workers
  <2> QED BY <2>1, <2>2, <2>3, <2>4, <2>5, <2>6 DEF PhaseInv
<1>2. CASE Dial
  <2>1. reader.pc = "away"
    BY <1>2, LastTask DEF Dial
  <2>2. WorkersDone' /\ account = Unconnected /\ ~wire.open
    BY <1>2, <2>1 DEF Dial, PhaseInv, WorkersDone, workers
  <2>3. CASE reader' = Ended /\ UNCHANGED <<wire, account>>
    <3>1. PICK q : q = Ended.todo /\ \A i \in DOMAIN q : q[i].do = "status"
      <4>1. Do("status", "disconnected") \in Tasks /\ Do("status", "disconnected").do = "status"
        BY TaskNames DEF Do, Statuses
      <4> QED BY <4>1, EndedIs, Alone
    <3>2. reader'.pc = "away" /\ reader'.todo = q
      BY <2>3, <3>1, EndedIs
    <3> QED BY <2>2, <2>3, <3>1, <3>2 DEF PhaseInv
  <2>4. CASE /\ reader' = [NewReader EXCEPT !.pc = "serving",
                                            !.todo = <<Do("write", "USER")>>]
             /\ wire' = [id |-> wire.id + 1, open |-> TRUE]
             /\ account' = [account EXCEPT !.connection = wire.id + 1]
    <3>1. PICK q : q = <<Do("write", "USER")>>
      OBVIOUS
    <3>2. Len(q) = 1 /\ DOMAIN q = 1..1 /\ q[1] = Do("write", "USER")
      BY <3>1
    <3>3. reader'.pc = "serving" /\ reader'.todo = q
      BY <2>4, <3>1 DEF NewReader
    <3>4. q[1].do = "write"
      BY <3>2 DEF Do
    <3>5. wire.id \in Nat
      BY <1>0 DEF Connections
    <3>6. account'.connection = wire'.id /\ wire'.id # 0
      BY <2>4, <3>5, DataParts
    <3> QED BY <3>2, <3>3, <3>4, <3>6 DEF PhaseInv
  <2> QED BY <1>2, <2>3, <2>4 DEF Dial
<1>3. CASE Emit
  <2>1. MustDo("status") \/ MustDo("membership")
    BY <1>3 DEF Emit
  <2>2. /\ reader' = [reader EXCEPT !.todo = Tail(@)] /\ account' = account
        /\ wire' = wire /\ UNCHANGED workers
    BY <1>3 DEF Emit
  <2>3. WorkersDone' \/ reader.pc = "serving"
    <3>1. reader.pc \in {"away", "serving", "leaving", "waiting", "gone"}
      BY <1>0 DEF Reader
    <3>2. reader.pc \notin {"leaving", "waiting"}
      BY <2>1, DoIs DEF PhaseInv
    <3> QED BY <2>2, <3>1, <3>2 DEF PhaseInv, WorkersDone, workers
  <2> QED BY <2>1, <2>2, <2>3, PhaseGoesOn
<1>4. CASE Introduce
  <2>1. MustDo("write") /\ reader.pc = "serving"
    BY <1>4, ServingWhen DEF Introduce
  <2>2. wire'.id = wire.id /\ (wire'.open => wire.open) /\ account' = account
    <3>1. /\ wire' = wire \/ wire' = Closed
          /\ account' = account
      BY <1>4, WriteCases DEF Introduce
    <3> QED BY <1>0, <3>1, ClosedIs
  <2>3. CASE reader' = [reader EXCEPT !.todo = Tail(@)]
    BY <2>1, <2>2, <2>3, PhaseGoesOn
  <2>4. CASE reader' = [reader EXCEPT !.pc = "leaving", !.todo = <<>>]
    <3>1. reader'.pc = "leaving" /\ reader'.todo = <<>>
      BY <1>0, <2>4 DEF Reader
    <3> QED BY <2>1, <2>2, <3>1, PhaseEnds
  <2> QED BY <1>4, <2>3, <2>4 DEF Introduce
<1>5. CASE StartWorkers
  <2>1. MustDo("workers") /\ reader.pc = "serving"
    BY <1>5, ServingWhen DEF StartWorkers
  <2> QED BY <1>5, <2>1, PhaseGoesOn DEF StartWorkers
<1>6. CASE ReadWelcome
  <2>1. PICK q \in Seq(Tasks) : /\ q = Report("connected") \o <<Do("workers", "")>>
                                /\ DOMAIN q = 1..2
                                /\ q[1] = Do("status", "connected")
                                /\ q[2] = Do("workers", "")
    <3>1. "connected" \in Statuses /\ Do("workers", "") \in Tasks
      BY TaskNames DEF Statuses
    <3> QED BY <3>1, TwoSteps
  <2>2. reader' = [reader EXCEPT !.welcome = TRUE, !.todo = q]
    BY <1>6, <2>1 DEF ReadWelcome
  <2>3. reader.pc = "serving"
    BY <1>6, ReadIs DEF ReadWelcome
  <2>4. reader'.pc = "serving" /\ reader'.todo = q
    BY <1>0, <2>2, <2>3 DEF Reader
  <2>5. q[1].do = "status" /\ q[2].do = "workers" /\ \A i \in DOMAIN q : i = 1 \/ i = 2
    <3>1. q[1].do = "status" /\ q[2].do = "workers"
      BY <2>1, DoFields
    <3>2. \A i \in 1..2 : i = 1 \/ i = 2
      OBVIOUS
    <3> QED BY <2>1, <3>1, <3>2
  <2>6. account' = account /\ wire' = wire
    BY <1>6 DEF ReadWelcome
  <2> QED BY <2>3, <2>4, <2>5, <2>6, PhaseAnew
<1>7. CASE ReadError \/ ReadFails
  <2>1. reader.pc = "serving" /\ reader.todo = <<>>
    BY <1>7, ReadIs DEF ReadError, ReadFails, Idle
  <2>2. reader' = [reader EXCEPT !.pc = "leaving"] /\ account' = account /\ wire' = wire
    BY <1>7 DEF ReadError, ReadFails
  <2>3. reader'.pc = "leaving" /\ reader'.todo = <<>>
    BY <1>0, <2>1, <2>2 DEF Reader
  <2> QED BY <2>1, <2>2, <2>3, PhaseEnds
<1>8. ASSUME NEW cmd \in {"JOIN", "PART", "KICK", "403"}, NEW r \in Rooms,
             ReadRoom(cmd, r)
      PROVE  PhaseInv'
  <2>1. PICK q \in Seq(Tasks) : /\ q = Tells(cmd, r)
                                /\ \A i \in DOMAIN q : q[i].do \in {"membership", "status"}
    BY TellsIs
  <2>2. reader' = [reader EXCEPT !.todo = q] /\ wire' = wire
    BY <1>8, <2>1 DEF ReadRoom
  <2>3. reader.pc = "serving"
    BY <1>8, ReadIs DEF ReadRoom
  <2>4. reader'.pc = "serving" /\ reader'.todo = q
    BY <1>0, <2>2, <2>3 DEF Reader
  <2>5. account'.connection = account.connection
    <3>1. PICK state : account' = Noted(r, state)
      BY <1>8 DEF ReadRoom
    <3> QED BY <3>1, DataParts, NotedIs
  <2> QED BY <2>1, <2>2, <2>3, <2>4, <2>5, PhaseAnew
<1>9. CASE Abandon
  <2>1. /\ reader.pc = "leaving" /\ reader' = [reader EXCEPT !.pc = "waiting"]
        /\ wire' = Closed /\ account' = account
    BY <1>9 DEF Abandon
  <2>2. reader'.pc = "waiting" /\ reader'.todo = reader.todo /\ reader.todo = <<>>
    BY <1>0, <2>1 DEF Reader, PhaseInv
  <2>3. ~wire'.open /\ wire'.id = wire.id
    BY <1>0, <2>1, ClosedIs
  <2>4. account.connection = wire.id /\ wire.id # 0
    BY <2>1 DEF PhaseInv
  <2>5. \A i \in DOMAIN reader'.todo : FALSE
    BY <2>2
  <2> QED BY <2>1, <2>2, <2>3, <2>4, <2>5 DEF PhaseInv
<1>10. CASE Leave
  <2>1. PICK q : q = Ended.todo /\ \A i \in DOMAIN q : q[i].do = "status"
    <3>1. Do("status", "disconnected") \in Tasks /\ Do("status", "disconnected").do = "status"
      BY TaskNames DEF Do, Statuses
    <3> QED BY <3>1, EndedIs, Alone
  <2>2. reader'.pc = "away" /\ reader'.todo = q
    BY <1>10, <2>1, EndedIs DEF Leave
  <2>3. account' = Unconnected /\ ~wire'.open /\ WorkersDone'
    BY <1>10 DEF Leave, Forgotten, Awaited, WorkersDone, workers, PhaseInv
  <2> QED BY <2>1, <2>2, <2>3 DEF PhaseInv, Unconnected
<1>11. CASE Finish
  <2>1. PICK q \in Seq(Tasks) : /\ q = Report("stopped") /\ DOMAIN q = 1..1
                                /\ q[1] = Do("status", "stopped")
    BY Plans DEF Statuses
  <2>2. reader' = [reader EXCEPT !.pc = "gone", !.todo = q] /\ reader.pc = "away"
    BY <1>11, <2>1 DEF Finish, Idle
  <2>3. reader'.pc = "gone" /\ reader'.todo = q
    BY <1>0, <2>2 DEF Reader
  <2>4. \A i \in DOMAIN q : q[i].do = "status"
    BY <2>1 DEF Do
  <2>5. account' = Unconnected /\ ~wire'.open /\ WorkersDone'
    BY <1>11, <2>2 DEF Finish, WorkersDone, workers, PhaseInv
  <2> QED BY <2>3, <2>4, <2>5 DEF PhaseInv
<1> QED BY <1>1, <1>2, <1>3, <1>4, <1>5, <1>6, <1>7, <1>8, <1>9, <1>10, <1>11
        DEF ReaderStep

LEMMA PhaseStep ==
  ASSUME DataInv, PhaseInv, [Next]_vars
  PROVE  PhaseInv'
<1>0. wire \in [id : Connections, open : BOOLEAN]
  BY DataParts
<1>1. CASE Join \/ Complain \/ KeeperStops
  <2>1. reader' = reader /\ account' = account /\ ~WorkersDone
    BY <1>1 DEF Join, Complain, KeeperStops, WorkersDone, Off
  <2>2. wire' = wire \/ wire' = Closed
    BY <1>1, WriteCases DEF Join, Complain, KeeperStops
  <2> QED BY <1>0, <2>1, <2>2, ClosedIs, PhaseKeeps
<1>2. ASSUME NEW s \in Senders, Send(s) PROVE PhaseInv'
  <2>1. reader' = reader /\ account' = account /\ UNCHANGED workers
    BY <1>2 DEF Send
  <2>2. wire' = wire \/ wire' = Closed
    BY <1>2, WriteCases DEF Send
  <2> QED BY <1>0, <2>1, <2>2, ClosedIs, PhaseKeeps DEF WorkersDone, workers
<1>3. ASSUME NEW s \in Senders, NEW r \in Rooms, Look(s, r) PROVE PhaseInv'
  BY <1>3, PhaseKeeps DEF Look, WorkersDone, workers
<1>4. CASE Receive \/ Stop
  BY <1>4, PhaseKeeps DEF Receive, Stop, WorkersDone, workers
<1>5. CASE CloseStopped \/ Break
  BY <1>0, <1>5, ClosedIs, PhaseKeeps DEF CloseStopped, Break, WorkersDone, workers
<1>6. ASSUME NEW line, Arrives(line) PROVE PhaseInv'
  BY <1>6, PhaseKeeps DEF Arrives, WorkersDone, workers
<1>7. CASE Network
  BY <1>5, <1>6, <1>7 DEF Network, Refuse, Welcome, Admit, Deny, Remove
<1>8. CASE UNCHANGED vars
  BY <1>8, PhaseKeeps DEF vars, WorkersDone, workers
<1> QED BY <1>1, <1>2, <1>3, <1>4, <1>5, <1>7, <1>8, ReaderPhase DEF Next

-----------------------------------------------------------------------------
(* Messages and rooms.                                                     *)

\* What is not about rooms leaves them alone: the network forgets no room that
\* was entered, and lines are read or come in.
LEMMA JoinKeeps ==
  ASSUME JoinInv, account'.joined \subseteq account.joined, sender' = sender,
         wire'.id = wire.id, wire'.open => wire.open,
         net.entered \subseteq net'.entered, net'.stray => net.stray,
         \A i \in DOMAIN inbox' : inbox'[i].cmd = "JOIN" =>
           \/ \E j \in DOMAIN inbox : inbox[j] = inbox'[i]
           \/ inbox'[i].arg \in net'.entered
  PROVE  JoinInv'
  BY DEF JoinInv, SentWhereJoined

LEMMA ReaderJoins ==
  ASSUME DataInv, PhaseInv, JoinInv, ReaderStep
  PROVE  JoinInv'
<1>0. wire \in [id : Connections, open : BOOLEAN]
  BY DataParts
<1>1. CASE Attempt \/ Emit \/ StartWorkers \/ ReadFails \/ Finish
  BY <1>1, JoinKeeps DEF Attempt, Emit, StartWorkers, ReadFails, Finish
<1>2. CASE Dial
  <2>1. reader.pc = "away"
    BY <1>2, LastTask DEF Dial
  <2>2. CASE UNCHANGED <<wire, account>>
    BY <1>2, <2>2, JoinKeeps DEF Dial
  <2>3. CASE /\ wire' = [id |-> wire.id + 1, open |-> TRUE]
             /\ account' = [account EXCEPT !.connection = wire.id + 1]
    <3>1. wire.id \in Nat /\ wire'.id = wire.id + 1
      BY <1>0, <2>3 DEF Connections
    <3>2. \A s \in Senders : sender[s].conn \in Nat /\ sender[s].conn <= wire.id
      BY DataParts DEF JoinInv, Connections
    <3>3. \A s \in Senders : sender[s].conn <= wire'.id /\ sender[s].conn # wire'.id
      BY <3>1, <3>2
    <3>4. account'.joined = account.joined
      BY <2>3, DataParts
    <3>5. UNCHANGED <<sender, net, inbox>>
      BY <1>2 DEF Dial
    <3> QED BY <3>3, <3>4, <3>5 DEF JoinInv, SentWhereJoined
  <2> QED BY <1>2, <2>2, <2>3 DEF Dial
<1>3. CASE Introduce
  <2>1. MustDo("write")
    BY <1>3 DEF Introduce
  <2>2. Head(reader.todo) = Do("write", "USER")
    BY <2>1, DoIs, TaskParts
  <2>3. Writes(Line("USER", "")) \/ Fails(Line("USER", ""))
    BY <1>3, <2>2, DoFields DEF Introduce
  <2>4. /\ wire'.id = wire.id /\ (wire'.open => wire.open)
        /\ net'.entered = net.entered /\ net'.stray = net.stray
    BY <2>3, Heard
  <2>5. UNCHANGED <<account, sender, inbox>>
    BY <1>3 DEF Introduce
  <2> QED BY <2>4, <2>5, JoinKeeps
<1>4. CASE ReadWelcome \/ ReadError
  <2>1. \A i \in DOMAIN inbox' : i + 1 \in DOMAIN inbox /\ inbox'[i] = inbox[i + 1]
    BY <1>4, ReadIs DEF ReadWelcome, ReadError
  <2>2. UNCHANGED <<account, sender, wire, net>>
    BY <1>4 DEF ReadWelcome, ReadError
  <2>3. \A i \in DOMAIN inbox' : \E j \in DOMAIN inbox : inbox[j] = inbox'[i]
    BY <2>1
  <2> QED BY <2>2, <2>3, JoinKeeps
<1>5. ASSUME NEW cmd \in {"JOIN", "PART", "KICK", "403"}, NEW r \in Rooms,
             ReadRoom(cmd, r)
      PROVE  JoinInv'
  <2>1. /\ \A i \in DOMAIN inbox' : i + 1 \in DOMAIN inbox /\ inbox'[i] = inbox[i + 1]
        /\ 1 \in DOMAIN inbox /\ inbox[1] = Line(cmd, r)
    BY <1>5, ReadIs DEF ReadRoom
  <2>2. cmd = "JOIN" => r \in net.entered
    <3>1. inbox[1].cmd = cmd /\ inbox[1].arg = r
      <4>1. PICK line : line = Line(cmd, r) /\ line.cmd = cmd /\ line.arg = r
        BY LineIs
      <4>2. inbox[1] = line
        BY <2>1, <4>1
      <4> QED BY <4>1, <4>2
    <3> QED BY <2>1, <3>1 DEF JoinInv
  <2>3. account'.joined \subseteq net.entered
    <3>1. CASE cmd = "JOIN"
      <4>1. account' = Noted(r, "ready")
        BY <1>5, <3>1 DEF ReadRoom
      <4>2. account'.joined \subseteq account.joined \cup {r}
        BY <4>1, NotedIs, DataParts
      <4> QED BY <2>2, <3>1, <4>2 DEF JoinInv
    <3>2. CASE cmd # "JOIN"
      <4>1. account' = Noted(r, "unavailable")
        BY <1>5, <3>2 DEF ReadRoom
      <4>2. account'.joined \subseteq account.joined
        BY <4>1, NotedIs, DataParts
      <4> QED BY <4>2 DEF JoinInv
    <3> QED BY <3>1, <3>2
  <2>4. UNCHANGED <<sender, wire, net>>
    BY <1>5 DEF ReadRoom
  <2>5. \A i \in DOMAIN inbox' : \E j \in DOMAIN inbox : inbox[j] = inbox'[i]
    BY <2>1
  <2> QED BY <2>3, <2>4, <2>5 DEF JoinInv, SentWhereJoined
<1>6. CASE Abandon
  BY <1>0, <1>6, ClosedIs, JoinKeeps DEF Abandon
<1>7. CASE Leave
  <2>1. reader.pc = "waiting" /\ UNCHANGED <<wire, sender>>
    BY <1>7 DEF Leave
  <2>2. ~wire'.open
    BY <2>1 DEF PhaseInv
  <2>3. account'.joined = {} /\ ~net'.stray /\ inbox' = <<>>
    BY <1>7, NewNetIs DEF Leave, Forgotten, Unconnected
  <2>4. \A i \in DOMAIN inbox' : FALSE
    BY <2>3
  <2> QED BY <2>1, <2>2, <2>3, <2>4 DEF JoinInv, SentWhereJoined
<1> QED BY <1>1, <1>2, <1>3, <1>4, <1>5, <1>6, <1>7 DEF ReaderStep

LEMMA SenderJoins ==
  ASSUME DataInv, PhaseInv, JoinInv,
         NEW s \in Senders, Send(s) \/ \E r \in Rooms : Look(s, r)
  PROVE  JoinInv'
<1>0. /\ wire \in [id : Connections, open : BOOLEAN]
      /\ sender \in [Senders -> [conn: Connections, room: Rooms]]
  BY DataParts
<1>1. CASE Send(s)
  <2>1. UNCHANGED <<account, inbox>> /\ sender' = [sender EXCEPT ![s].conn = 0]
    BY <1>1 DEF Send
  <2>2. CASE UNCHANGED <<wire, net>>
    <3>1. sender'[s].conn = 0 /\ \A x \in Senders : x # s => sender'[x] = sender[x]
      BY <1>0, <2>1
    <3>2. 0 <= wire.id /\ (wire.open => wire.id # 0)
      <4>1. reader.pc \in {"away", "serving", "leaving", "waiting", "gone"}
        BY DataParts DEF Reader
      <4> QED BY <1>0, <4>1 DEF PhaseInv, Connections
    <3> QED BY <2>1, <2>2, <3>1, <3>2 DEF JoinInv, SentWhereJoined
  <2>3. CASE Current(s) /\ (\/ Writes(Line("PRIVMSG", sender[s].room))
                            \/ Fails(Line("PRIVMSG", sender[s].room)))
    <3>1. /\ wire'.id = wire.id /\ (wire'.open => wire.open)
          /\ net'.entered = net.entered
          /\ net'.stray => net.stray \/ (wire.open /\ sender[s].room \notin net.entered)
      BY <2>3, Heard
    <3>2. wire.open => sender[s].room \in net.entered
      BY <2>3 DEF Current, JoinInv
    <3>3. ~net'.stray
      BY <3>1, <3>2 DEF JoinInv, SentWhereJoined
    <3>4. sender'[s].conn = 0 /\ \A x \in Senders : x # s => sender'[x] = sender[x]
      BY <1>0, <2>1
    <3>5. 0 <= wire.id /\ (wire.open => wire.id # 0)
      <4>1. reader.pc \in {"away", "serving", "leaving", "waiting", "gone"}
        BY DataParts DEF Reader
      <4> QED BY <1>0, <4>1 DEF PhaseInv, Connections
    <3> QED BY <2>1, <3>1, <3>3, <3>4, <3>5 DEF JoinInv, SentWhereJoined
  <2> QED BY <1>1, <2>2, <2>3 DEF Send
<1>2. ASSUME NEW r \in Rooms, Look(s, r) PROVE JoinInv'
  <2>1. /\ UNCHANGED <<account, inbox, wire, net>>
        /\ sender' = [sender EXCEPT ![s] = [conn |-> account.connection, room |-> r]]
        /\ account.connection # 0 /\ r \in account.joined
    BY <1>2 DEF Look, Ready
  <2>2. account.connection = wire.id
    <3>1. reader.pc \in {"away", "serving", "leaving", "waiting", "gone"}
      BY DataParts DEF Reader
    <3> QED BY <2>1, <3>1 DEF PhaseInv, Unconnected
  <2>3. /\ sender'[s].conn = wire.id /\ sender'[s].room = r
        /\ \A x \in Senders : x # s => sender'[x] = sender[x]
    BY <1>0, <2>1, <2>2
  <2>4. wire.id <= wire.id
    BY <1>0 DEF Connections
  <2> QED BY <2>1, <2>3, <2>4 DEF JoinInv, SentWhereJoined
<1> QED BY <1>1, <1>2

LEMMA NetworkJoins ==
  ASSUME DataInv, JoinInv, Network
  PROVE  JoinInv'
<1>0. wire \in [id : Connections, open : BOOLEAN] /\ net \in Net
  BY DataParts
<1>1. ASSUME NEW line \in Lines, Arrives(line), net.entered \subseteq net'.entered,
             net'.stray = net.stray, line.cmd = "JOIN" => line.arg \in net'.entered
      PROVE  JoinInv'
  <2>1. PICK q \in Seq(Lines) : q = inbox
    BY DataParts
  <2>2. PICK t : t = Append(q, line) /\ inbox' = t
    BY <1>1, <2>1 DEF Arrives
  <2>3. /\ \A i \in DOMAIN q : t[i] = q[i]
        /\ t[Len(q) + 1] = line
        /\ \A i \in DOMAIN t : i \in DOMAIN q \/ i = Len(q) + 1
    BY <2>2, OneBehind
  <2>4. \A i \in DOMAIN t : t[i].cmd = "JOIN" =>
          (\E j \in DOMAIN inbox : inbox[j] = t[i]) \/ t[i].arg \in net'.entered
    BY <1>1, <2>1, <2>3
  <2>5. UNCHANGED <<account, sender, wire>>
    BY <1>1 DEF Arrives
  <2> QED BY <1>1, <2>2, <2>4, <2>5, JoinKeeps
<1>2. CASE Refuse
  BY <1>1, <1>2, LineNames DEF Refuse
<1>3. CASE Welcome
  <2>1. net'.entered = net.entered /\ net'.stray = net.stray
    BY <1>0, <1>3 DEF Welcome, Net
  <2> QED BY <1>1, <1>3, <2>1, LineNames DEF Welcome
<1>4. CASE Break
  BY <1>0, <1>4, ClosedIs, JoinKeeps DEF Break
<1>5. ASSUME NEW r \in Rooms, Admit(r) PROVE JoinInv'
  <2>1. net'.entered = net.entered \cup {r} /\ net'.stray = net.stray
    BY <1>0, <1>5 DEF Admit, Net
  <2>2. PICK line \in Lines : line = Line("JOIN", r) /\ line.arg = r
    BY LineNames
  <2> QED BY <1>1, <1>5, <2>1, <2>2 DEF Admit
<1>6. ASSUME NEW r \in Rooms, Deny(r) PROVE JoinInv'
  <2>1. net'.entered = net.entered /\ net'.stray = net.stray
    BY <1>0, <1>6 DEF Deny, Net
  <2>2. PICK line \in Lines : line = Line("403", r) /\ line.cmd # "JOIN"
    BY LineNames
  <2> QED BY <1>1, <1>6, <2>1, <2>2 DEF Deny
<1>7. ASSUME NEW r \in Rooms, Remove(r) PROVE JoinInv'
  <2>1. net'.entered = net.entered /\ net'.stray = net.stray
    BY <1>0, <1>7 DEF Remove, Net
  <2>2. PICK cmd \in {"PART", "KICK"} : Arrives(Line(cmd, r))
    BY <1>7 DEF Remove
  <2>3. PICK line \in Lines : line = Line(cmd, r) /\ line.cmd # "JOIN"
    BY <2>2, LineNames
  <2> QED BY <1>1, <2>1, <2>2, <2>3
<1> QED BY <1>2, <1>3, <1>4, <1>5, <1>6, <1>7 DEF Network

LEMMA JoinStep ==
  ASSUME DataInv, PhaseInv, JoinInv, [Next]_vars
  PROVE  JoinInv'
<1>0. wire \in [id : Connections, open : BOOLEAN]
  BY DataParts
<1>1. CASE Join
  <2>1. UNCHANGED <<account, sender, inbox>>
    BY <1>1 DEF Join
  <2>2. CASE UNCHANGED <<wire, net>>
    BY <2>1, <2>2, JoinKeeps
  <2>3. CASE \/ Writes(Line("JOIN", JoinOrder[joiner.at]))
             \/ Fails(Line("JOIN", JoinOrder[joiner.at]))
    <3>1. JoinOrder[joiner.at] \in Rooms
      BY <1>1, DataParts DEF Join
    <3>2. /\ wire'.id = wire.id /\ (wire'.open => wire.open)
          /\ net'.entered = net.entered /\ net'.stray = net.stray
      BY <2>3, <3>1, Heard
    <3> QED BY <2>1, <3>2, JoinKeeps
  <2> QED BY <1>1, <2>2, <2>3 DEF Join
<1>2. CASE Complain \/ Receive \/ Stop
  BY <1>2, JoinKeeps DEF Complain, Receive, Stop
<1>3. CASE KeeperStops \/ CloseStopped
  BY <1>0, <1>3, ClosedIs, JoinKeeps DEF KeeperStops, CloseStopped
<1>4. CASE UNCHANGED vars
  BY <1>4, JoinKeeps DEF vars
<1> QED BY <1>1, <1>2, <1>3, <1>4, ReaderJoins, SenderJoins, NetworkJoins DEF Next

-----------------------------------------------------------------------------
(* What a subscriber was told.                                             *)

\* Told the present state, or about to be.
Informed(r) == \/ told[r] = RoomState(r)
               \/ Announced(events, r) \/ Announced(reader.todo, r)

LEMMA TruthKeeps ==
  ASSUME TruthInv, ~stopped' => ~stopped /\ account' = account,
         UNCHANGED <<told, status, events>>,
         reader'.todo = reader.todo, reader'.pc = reader.pc, wire'.id = wire.id,
         stopped' \in BOOLEAN
  PROVE  TruthInv'
<1>1. CASE stopped'
  BY <1>1 DEF TruthInv
<1>2. CASE ~stopped'
  <2>1. ~stopped /\ account' = account
    BY <1>2
  <2>2. \A r \in Rooms : RoomState(r)' = RoomState(r)
    BY <1>2, <2>1 DEF RoomState
  <2> QED BY <1>2, <2>1, <2>2 DEF TruthInv, Announced, LastOf
<1> QED BY <1>1, <1>2

\* A step while a session lasts.
LEMMA TruthServing ==
  ASSUME TruthInv, stopped' = stopped,
         reader'.pc # "away",
         \A r \in Rooms : Informed(r) => Informed(r)'
  PROVE  TruthInv'
  BY DEF TruthInv, Informed

LEMMA EmptyAnnouncesNothing == \A r : ~Announced(<<>>, r)
  BY DEF Announced

LEMMA SameState ==
  ASSUME account' = account, stopped' = stopped
  PROVE  \A r : RoomState(r)' = RoomState(r)
  BY DEF RoomState

\* The report that ends an attempt or a session tells of everything.
LEMMA TruthEnds ==
  ASSUME reader' = Ended, stopped' = stopped, stopped \in BOOLEAN
  PROVE  TruthInv'
<1>1. CASE stopped
  BY <1>1 DEF TruthInv
<1>2. CASE ~stopped
  <2>1. PICK d \in Tasks : d = Do("status", "disconnected") /\ d.do = "status"
    BY TaskNames, DoFields DEF Statuses
  <2>2. PICK q : q = <<d>>
    OBVIOUS
  <2>3. q # <<>> /\ Len(q) = 1 /\ 1 \in DOMAIN q /\ q[1] = d
    BY <2>1, <2>2, Alone
  <2>4. reader'.todo = q
    BY <1>2, <2>1, <2>2, EndedIs
  <2>5. \A r \in Rooms : Announced(reader'.todo, r)
    BY <2>1, <2>3, <2>4 DEF Announced
  <2>6. LastOf(reader'.todo, Do("status", "disconnected"))
    BY <2>1, <2>3, <2>4 DEF LastOf
  <2> QED BY <2>5, <2>6 DEF TruthInv
<1> QED BY <1>1, <1>2

LEMMA ReaderTruth ==
  ASSUME DataInv, PhaseInv, TruthInv, ReaderStep
  PROVE  TruthInv'
<1>0. reader \in Reader /\ stopped \in BOOLEAN
  BY DataParts
<1>1. CASE Attempt
  <2>1. PICK q \in Seq(Tasks) : /\ q = Report("connecting") \o <<Do("dial", "")>>
                                /\ q # <<>> /\ Len(q) = 2 /\ DOMAIN q = 1..2
                                /\ q[1] = Do("status", "connecting")
                                /\ q[2] = Do("dial", "")
    <3>1. "connecting" \in Statuses /\ Do("dial", "") \in Tasks
      BY TaskNames DEF Statuses
    <3> QED BY <3>1, TwoSteps
  <2>2. reader' = [reader EXCEPT !.todo = q] /\ ~stopped
    BY <1>1, <2>1 DEF Attempt
  <2>3. reader'.todo = q
    BY <1>0, <2>2 DEF Reader
  <2>4. 1 \in DOMAIN q /\ q[1].do = "status"
    <3>1. 1 \in 1..2
      OBVIOUS
    <3> QED BY <2>1, <3>1, DoFields
  <2>5. \A r \in Rooms : Announced(q, r)
    BY <2>4 DEF Announced
  <2>6. LastOf(q, Do("dial", ""))
    BY <2>1 DEF LastOf
  <2>7. \A r \in Rooms : Announced(reader'.todo, r)
    BY <2>3, <2>5
  <2>8. LastOf(reader'.todo, Do("dial", ""))
    BY <2>3, <2>6
  <2> QED BY <2>7, <2>8 DEF TruthInv
<1>2. CASE Dial
  <2>1. /\ Len(reader.todo) = 1 /\ reader.pc = "away"
        /\ 1 \in DOMAIN reader.todo /\ reader.todo[1].do = "dial"
    BY <1>2, LastTask, DoIs DEF Dial
  <2>2. CASE reader' = Ended
    BY <1>0, <1>2, <2>2, TruthEnds DEF Dial
  <2>3. CASE /\ reader' = [NewReader EXCEPT !.pc = "serving",
                                            !.todo = <<Do("write", "USER")>>]
             /\ account' = [account EXCEPT !.connection = wire.id + 1]
    <3>1. reader'.pc = "serving"
      BY <2>3 DEF NewReader
    <3>2. \A i \in DOMAIN reader.todo : reader.todo[i].do = "dial"
      <4>1. PICK q \in Seq(Tasks) : q = reader.todo
        BY DataParts
      <4>2. DOMAIN q = 1..1
        BY <2>1, <4>1
      <4> QED BY <2>1, <4>1, <4>2
    <3>3. \A r : ~Announced(reader.todo, r)
      BY <3>2, DoFields DEF Announced
    <3>4. account = Unconnected
      BY <2>1 DEF PhaseInv
    <3>5. stopped' = stopped /\ UNCHANGED <<told, events>>
      BY <1>2 DEF Dial, server
    <3>6. \A r : RoomState(r)' = RoomState(r)
      BY <2>3, <3>4, <3>5 DEF RoomState, Unconnected
    <3>7. \A r \in Rooms : Informed(r) => Informed(r)'
      BY <3>3, <3>5, <3>6 DEF Informed, Announced
    <3> QED BY <3>1, <3>5, <3>7, TruthServing
  <2> QED BY <1>2, <2>2, <2>3 DEF Dial
<1>3. CASE Emit
  <2>1. PICK what \in {"status", "membership"} : MustDo(what)
    BY <1>3 DEF Emit
  <2>2. PICK t \in Seq(Tasks), e \in Events :
          t = Tail(reader.todo) /\ e = Head(reader.todo) /\ e.do = what
    <3>1. Tail(reader.todo) \in Seq(Tasks) /\ Head(reader.todo) \in Tasks
          /\ Head(reader.todo).do = what
      BY <2>1, DoIs
    <3> QED BY <3>1, TaskParts
  <2>3. PICK o \in Seq(Tasks), old \in Seq(Events) :
          /\ o = reader.todo /\ o # <<>> /\ old = events
          /\ t = Tail(o) /\ e = Head(o)
    BY <2>1, <2>2, DataParts DEF MustDo
  <2>4. PICK new \in Seq(Events) : new = Append(old, e)
    BY OneBehind
  <2>5. /\ events' = new /\ reader'.todo = t /\ reader'.pc = reader.pc
        /\ UNCHANGED <<account, stopped, told, status, wire>>
    BY <1>0, <1>3, <2>2, <2>3, <2>4 DEF Emit, Emits, server, Reader
  <2>6. \A r \in Rooms : Announced(old, r) => Announced(new, r)
    BY <2>4, AnnouncedBehind
  <2>7. \A r \in Rooms : Announced(o, r) => Announced(t, r) \/ Announced(new, r)
    <3>1. SUFFICES ASSUME NEW r \in Rooms, Announced(o, r), ~Announced(t, r)
                   PROVE  Announced(new, r)
      OBVIOUS
    <3>2. e.do = "status" \/ e = Do("membership", r)
      BY <2>3, <3>1, StaysAnnounced
    <3> QED BY <2>4, <3>2, AnnouncedBehind
  <2>8. \A r \in Rooms : Informed(r) => Informed(r)'
    BY <2>3, <2>5, <2>6, <2>7, SameState DEF Informed
  <2>9. CASE reader.pc = "away" /\ wire.id # 0 /\ ~stopped
    <3>1. LastOf(o, Do("dial", "")) \/ LastOf(o, Do("status", "disconnected"))
      BY <2>3, <2>9 DEF TruthInv
    <3>2. ASSUME LastOf(o, Do("dial", "")) PROVE LastOf(t, Do("dial", ""))
      <4>1. e # Do("dial", "")
        <5>1. PICK d : d = Do("dial", "") /\ d.do = "dial"
          BY DoFields
        <5>2. e.do # "dial"
          BY <2>1, <2>2
        <5> QED BY <5>1, <5>2
      <4> QED BY <2>3, <3>2, <4>1, LastOfRest
    <3>3. ASSUME LastOf(o, Do("status", "disconnected"))
          PROVE  \/ LastOf(t, Do("status", "disconnected"))
                 \/ t = <<>> /\ LastOf(new, Do("status", "disconnected"))
      <4>1. \/ LastOf(t, Do("status", "disconnected"))
            \/ t = <<>> /\ e = Do("status", "disconnected")
        BY <2>3, <3>3, LastOfRest
      <4> QED BY <2>4, <4>1, LastBehind
    <3>4. \/ LastOf(reader'.todo, Do("dial", ""))
          \/ LastOf(reader'.todo, Do("status", "disconnected"))
          \/ reader'.todo = <<>> /\ LastOf(events', Do("status", "disconnected"))
      BY <2>5, <3>1, <3>2, <3>3
    <3> QED BY <2>5, <2>8, <3>4 DEF TruthInv, Informed
  <2>10. CASE ~(reader.pc = "away" /\ wire.id # 0 /\ ~stopped)
    BY <2>5, <2>8, <2>10 DEF TruthInv, Informed
  <2> QED BY <2>9, <2>10
<1>4. CASE Introduce
  <2>1. /\ MustDo("write") /\ reader.pc = "serving" /\ Len(reader.todo) = 1
        /\ 1 \in DOMAIN reader.todo /\ reader.todo[1].do = "write"
    BY <1>4, ServingWhen, LastTask, DoIs DEF Introduce
  <2>2. \A i \in DOMAIN reader.todo : reader.todo[i].do = "write"
    <3>1. PICK q \in Seq(Tasks) : q = reader.todo
      BY DataParts
    <3>2. DOMAIN q = 1..1
      BY <2>1, <3>1
    <3> QED BY <2>1, <3>1, <3>2
  <2>3. \A r : ~Announced(reader.todo, r)
    BY <2>2, DoFields DEF Announced
  <2>4. UNCHANGED <<account, stopped, told, events>>
    BY <1>4 DEF Introduce, server
  <2>5. reader'.pc \in {"serving", "leaving"}
    BY <1>0, <1>4, <2>1 DEF Introduce, Reader
  <2>6. \A r \in Rooms : Informed(r) => Informed(r)'
    BY <2>3, <2>4, SameState DEF Informed, Announced
  <2> QED BY <2>4, <2>5, <2>6, TruthServing
<1>5. CASE StartWorkers
  <2>1. MustDo("workers") /\ reader.pc = "serving"
    BY <1>5, ServingWhen DEF StartWorkers
  <2>2. PICK o \in Seq(Tasks) : o = reader.todo /\ o # <<>> /\ Head(o).do = "workers"
    BY <2>1, DataParts, DoIs
  <2>3. PICK t : t = Tail(o)
    OBVIOUS
  <2>4. /\ reader'.todo = t /\ reader'.pc = "serving"
        /\ UNCHANGED <<account, stopped, told, events>>
    BY <1>0, <1>5, <2>1, <2>2, <2>3 DEF StartWorkers, server, Reader
  <2>5. \A r \in Rooms : Announced(o, r) => Announced(t, r)
    BY <2>2, <2>3, StaysAnnounced, DoFields
  <2>6. \A r \in Rooms : Informed(r) => Informed(r)'
    BY <2>2, <2>4, <2>5, SameState DEF Informed, Announced
  <2> QED BY <2>4, <2>6, TruthServing
<1>6. CASE ReadWelcome
  <2>1. PICK q \in Seq(Tasks) : /\ q = Report("connected") \o <<Do("workers", "")>>
                                /\ DOMAIN q = 1..2 /\ q[1] = Do("status", "connected")
    <3>1. "connected" \in Statuses /\ Do("workers", "") \in Tasks
      BY TaskNames DEF Statuses
    <3> QED BY <3>1, TwoSteps
  <2>2. reader' = [reader EXCEPT !.welcome = TRUE, !.todo = q] /\ reader.pc = "serving"
    BY <1>6, <2>1, ReadIs DEF ReadWelcome
  <2>3. reader'.todo = q /\ reader'.pc = "serving"
    BY <1>0, <2>2 DEF Reader
  <2>4. 1 \in DOMAIN q /\ q[1].do = "status"
    <3>1. 1 \in 1..2
      OBVIOUS
    <3> QED BY <2>1, <3>1, DoFields
  <2>5. \A r \in Rooms : Announced(q, r)
    BY <2>4 DEF Announced
  <2>6. \A r \in Rooms : Announced(reader'.todo, r)
    BY <2>3, <2>5
  <2> QED BY <2>3, <2>6 DEF TruthInv
<1>7. CASE ReadError \/ ReadFails \/ Abandon
  <2>1. reader'.pc # "away" /\ reader'.todo = reader.todo
    BY <1>0, <1>7 DEF ReadError, ReadFails, Abandon, Reader
  <2>2. UNCHANGED <<account, stopped, told, events>>
    BY <1>7 DEF ReadError, ReadFails, Abandon, server
  <2>3. \A r \in Rooms : Informed(r) => Informed(r)'
    BY <2>1, <2>2, SameState DEF Informed, Announced
  <2> QED BY <2>1, <2>2, <2>3, TruthServing
<1>8. ASSUME NEW cmd \in {"JOIN", "PART", "KICK", "403"}, NEW r \in Rooms,
             ReadRoom(cmd, r)
      PROVE  TruthInv'
  <2>1. PICK q \in Seq(Tasks) : /\ q = Tells(cmd, r) /\ 1 \in DOMAIN q
                                /\ q[1] = Do("membership", r)
    BY TellsIs
  <2>2. /\ reader' = [reader EXCEPT !.todo = q]
        /\ reader.pc = "serving" /\ reader.todo = <<>>
    BY <1>8, <2>1, ReadIs DEF ReadRoom
  <2>3. reader'.todo = q /\ reader'.pc = "serving"
    BY <1>0, <2>2 DEF Reader
  <2>4. Announced(q, r)
    BY <2>1 DEF Announced
  <2>5. UNCHANGED <<stopped, told, events>>
    BY <1>8 DEF ReadRoom, server
  <2>6. \A x \in Rooms : x # r => RoomState(x)' = RoomState(x)
    <3>1. PICK state : account' = Noted(r, state)
      BY <1>8 DEF ReadRoom
    <3>2. PICK a : a = account' /\ a.connection = account.connection
                   /\ a.joined \ {r} = account.joined \ {r}
                   /\ a.unavailable \ {r} = account.unavailable \ {r}
      BY <3>1, DataParts, NotedIs
    <3>3. \A x \in Rooms : x # r => /\ (x \in a.joined <=> x \in account.joined)
                                    /\ (x \in a.unavailable <=> x \in account.unavailable)
      BY <3>2
    <3> QED BY <2>5, <3>2, <3>3 DEF RoomState
  <2>7. \A x : ~Announced(reader.todo, x)
    BY <2>2, EmptyAnnouncesNothing
  <2>8. \A x \in Rooms : Informed(x) => Informed(x)'
    <3>1. SUFFICES ASSUME NEW x \in Rooms, Informed(x) PROVE Informed(x)'
      OBVIOUS
    <3>2. CASE x = r
      BY <2>3, <2>4, <3>2 DEF Informed
    <3>3. CASE x # r
      BY <2>5, <2>6, <2>7, <3>1, <3>3 DEF Informed, Announced
    <3> QED BY <3>2, <3>3
  <2> QED BY <2>3, <2>5, <2>8, TruthServing
<1>9. CASE Leave
  BY <1>0, <1>9, TruthEnds DEF Leave
<1>10. CASE Finish
  BY <1>10 DEF Finish, TruthInv
<1> QED BY <1>1, <1>2, <1>3, <1>4, <1>5, <1>6, <1>7, <1>8, <1>9, <1>10 DEF ReaderStep

LEMMA ReceiveTruth ==
  ASSUME DataInv, TruthInv, Receive
  PROVE  TruthInv'
<1>1. PICK old \in Seq(Events), e \in Events, t \in Seq(Events) :
        /\ old = events /\ old # <<>> /\ e = Head(old) /\ t = Tail(old)
        /\ events' = t
  <2>1. PICK old \in Seq(Events) : old = events /\ old # <<>>
    BY DataParts DEF Receive
  <2>2. Head(old) \in Events /\ Tail(old) \in Seq(Events)
    BY <2>1, FirstAndRest
  <2> QED BY <2>1, <2>2 DEF Receive
<1>2. /\ UNCHANGED <<account, stopped, wire, reader>>
      /\ told' = [r \in Rooms |-> IF r \in Refreshes(e) THEN RoomState(r) ELSE told[r]]
      /\ status' = IF e.do = "status" THEN e.arg ELSE status
  BY <1>1 DEF Receive
<1>3. ASSUME NEW r \in Rooms, Informed(r) PROVE Informed(r)'
  <2>1. CASE r \in Refreshes(e)
    <3>1. told'[r] = RoomState(r)'
      BY <1>2, <2>1, SameState
    <3> QED BY <3>1 DEF Informed
  <2>2. CASE r \notin Refreshes(e)
    <3>1. told'[r] = told[r]
      BY <1>2, <2>2
    <3>2. e.do = "membership" /\ e.arg # r
      BY <2>2 DEF Refreshes
    <3>3. e.do # "status" /\ e # Do("membership", r)
      <4>1. PICK d : d = Do("membership", r) /\ d.arg = r
        BY DoFields
      <4> QED BY <3>2, <4>1
    <3>4. Announced(old, r) => Announced(t, r)
      BY <1>1, <3>3, StaysAnnounced
    <3> QED BY <1>1, <1>2, <1>3, <3>1, <3>4, SameState DEF Informed
  <2> QED BY <2>1, <2>2
<1>4. CASE reader.pc = "away" /\ wire.id # 0 /\ ~stopped
  <2>1. \/ LastOf(reader.todo, Do("dial", ""))
        \/ LastOf(reader.todo, Do("status", "disconnected"))
        \/ reader.todo = <<>> /\ LastOf(old, Do("status", "disconnected"))
    BY <1>1, <1>4 DEF TruthInv
  <2>2. ASSUME LastOf(old, Do("status", "disconnected"))
        PROVE  \/ LastOf(t, Do("status", "disconnected"))
               \/ t = <<>> /\ status' = "disconnected"
    <3>1. \/ LastOf(t, Do("status", "disconnected"))
          \/ t = <<>> /\ e = Do("status", "disconnected")
      BY <1>1, <2>2, LastOfRest
    <3>2. PICK d : /\ d = Do("status", "disconnected")
                   /\ d.do = "status" /\ d.arg = "disconnected"
      BY DoFields
    <3> QED BY <1>2, <3>1, <3>2
  <2>3. \/ LastOf(reader'.todo, Do("dial", ""))
        \/ LastOf(reader'.todo, Do("status", "disconnected"))
        \/ /\ reader'.todo = <<>>
           /\ \/ LastOf(events', Do("status", "disconnected"))
              \/ events' = <<>> /\ status' = "disconnected"
    BY <1>1, <1>2, <2>1, <2>2
  <2> QED BY <1>2, <1>3, <1>4, <2>3 DEF TruthInv, Informed
<1>5. CASE ~(reader.pc = "away" /\ wire.id # 0 /\ ~stopped)
  BY <1>2, <1>3, <1>5 DEF TruthInv, Informed
<1> QED BY <1>4, <1>5

LEMMA ComplainTruth ==
  ASSUME DataInv, PhaseInv, TruthInv, Complain
  PROVE  TruthInv'
<1>1. reader'.pc # "away"
  BY DEF Complain, PhaseInv, WorkersDone, Off
<1>2. UNCHANGED <<account, stopped, told, reader>>
  BY DEF Complain, server
<1>3. PICK old \in Seq(Events) : old = events
  BY DataParts
<1>4. PICK x \in Events : x = Do("status", "error")
  BY TaskNames DEF Statuses
<1>5. \A r \in Rooms : Announced(events, r) => Announced(events', r)
  <2>1. CASE Emits(Do("status", "error"))
    BY <1>3, <1>4, <2>1, AnnouncedBehind DEF Emits
  <2>2. CASE UNCHANGED events
    BY <2>2
  <2> QED BY <2>1, <2>2 DEF Complain
<1>6. \A r \in Rooms : Informed(r) => Informed(r)'
  BY <1>2, <1>5, SameState DEF Informed
<1> QED BY <1>1, <1>2, <1>6, TruthServing

LEMMA TruthStep ==
  ASSUME DataInv, PhaseInv, TruthInv, [Next]_vars
  PROVE  TruthInv'
<1>0. wire \in [id : Connections, open : BOOLEAN] /\ stopped \in BOOLEAN
  BY DataParts
<1>1. CASE Join
  <2>1. UNCHANGED <<account, stopped, told, status, events, reader>>
    BY <1>1 DEF Join, server
  <2>2. wire'.id = wire.id
    BY <1>0, <1>1, WriteCases, ClosedIs DEF Join
  <2> QED BY <1>0, <2>1, <2>2, TruthKeeps
<1>2. CASE KeeperStops \/ CloseStopped
  BY <1>0, <1>2, ClosedIs, TruthKeeps DEF KeeperStops, CloseStopped, server
<1>3. ASSUME NEW s \in Senders, Send(s) PROVE TruthInv'
  <2>1. UNCHANGED <<account, stopped, told, status, events, reader>>
    BY <1>3 DEF Send, server
  <2>2. wire'.id = wire.id
    BY <1>0, <1>3, WriteCases, ClosedIs DEF Send
  <2> QED BY <1>0, <2>1, <2>2, TruthKeeps
<1>4. ASSUME NEW s \in Senders, NEW r \in Rooms, Look(s, r) PROVE TruthInv'
  BY <1>0, <1>4, TruthKeeps DEF Look, server
<1>5. CASE Stop
  BY <1>5 DEF Stop, TruthInv
<1>6. CASE Network
  <2>1. UNCHANGED <<account, stopped, told, status, events, reader>>
    BY <1>6 DEF Network, Refuse, Welcome, Break, Admit, Deny, Remove, Arrives, server
  <2>2. wire'.id = wire.id
    BY <1>0, <1>6, ClosedIs
       DEF Network, Refuse, Welcome, Break, Admit, Deny, Remove, Arrives
  <2> QED BY <1>0, <2>1, <2>2, TruthKeeps
<1>7. CASE UNCHANGED vars
  BY <1>0, <1>7, TruthKeeps DEF vars, server
<1> QED BY <1>1, <1>2, <1>3, <1>4, <1>5, <1>6, <1>7, ReaderTruth, ReceiveTruth,
           ComplainTruth DEF Next

-----------------------------------------------------------------------------
(* The theorems.                                                           *)

LEMMA Beginning ==
  ASSUME Init
  PROVE  SessionIndInv
<1>1. reader \in Reader /\ reader.pc = "away" /\ reader.todo = <<>>
  <2>1. PICK q \in Seq(Tasks) : q = <<>>
    BY Plans
  <2> QED BY <2>1 DEF Init, NewReader, Reader
<1>2. events \in Seq(Events) /\ inbox \in Seq(Lines) /\ Len(events) = 0 /\ Len(inbox) = 0
  BY DEF Init
<1>3. /\ joiner \in [stage: {"off", "joining", "failed"}, at: 0..Len(JoinOrder)]
      /\ joiner.stage # "joining"
  BY RoomNames DEF Init, Off
<1>4. sender \in [Senders -> [conn: Connections, room: Rooms]]
  BY RoomNames, IrcSessionAssumption DEF Init, Connections, IrcSessionAssumption
<1>5. TypeOK
  <2>1. 0 \in Connections /\ Len(events) <= EventsSize /\ Len(inbox) <= InboxSize
    BY <1>2, IrcSessionAssumption DEF Connections, IrcSessionAssumption
  <2>2. /\ account \in [connection: Connections, joined: SUBSET Rooms,
                        unavailable: SUBSET Rooms]
        /\ account.joined \cap account.unavailable = {}
    BY <2>1 DEF Init, Unconnected
  <2>3. wire \in [id : Connections, open : BOOLEAN]
    BY <2>1 DEF Init
  <2>4. told \in [Rooms -> RoomStates] /\ status \in Statuses
    BY DEF Init, RoomStates, Statuses
  <2>5. stopped \in BOOLEAN /\ keeper \in BOOLEAN
    BY DEF Init
  <2> QED BY <1>1, <1>3, <1>4, <2>1, <2>2, <2>3, <2>4, <2>5 DEF TypeOK
<1>6. DataInv
  BY <1>1, <1>2, <1>3, <1>5, NewNetIs DEF Init, DataInv
<1>7. \A i : i \notin DOMAIN reader.todo /\ i \notin DOMAIN inbox
  BY <1>1 DEF Init
<1>8. PhaseInv
  BY <1>1, <1>7 DEF Init, PhaseInv, WorkersDone
<1>9. JoinInv
  BY <1>7, NewNetIs, IrcSessionAssumption
     DEF Init, JoinInv, SentWhereJoined, Unconnected, IrcSessionAssumption
<1>10. TruthInv
  BY DEF Init, TruthInv, RoomState, Unconnected
<1> QED BY <1>6, <1>8, <1>9, <1>10 DEF SessionIndInv

\* Throughout an account's sessions the rooms it counts as joined are rooms it
\* entered on the connection that is served, a session leaves nothing of itself
\* behind, and a change of a room's state is told or on its way to be told
\* (serveConnection, session.go:24-210; refreshRoomStates, rooms.go:154-182).
THEOREM SessionInvariant == Spec => []SessionIndInv
<1>1. Init => SessionIndInv
  BY Beginning
<1>2. SessionIndInv /\ [Next]_vars => SessionIndInv'
  BY DataStep, PhaseStep, JoinStep, TruthStep DEF SessionIndInv
<1> QED BY <1>1, <1>2, PTL DEF Spec

\* Types are right, no room is joined and unavailable at once, and a message is
\* written only to a room entered on the connection it is written to, though
\* Send looks the connection up and writes to it in two steps
\* (manager.go:552-562).
THEOREM SessionsCorrect == Spec => []SessionInv
<1>1. SessionIndInv => SessionInv
  BY DEF SessionIndInv, DataInv, JoinInv, SessionInv
<1> QED BY SessionInvariant, <1>1, PTL

\* A subscriber for whom nothing is on its way was told the present state of
\* every room, and that the session ended if it did (rooms.go:154-182;
\* joins.Wait, session.go:35).
THEOREM SubscribersToldTheTruth == Spec => []ToldTheTruth
<1>1. SessionIndInv => ToldTheTruth
  <2>1. SUFFICES ASSUME TruthInv, Quiet PROVE ToldTheTruth
    BY DEF SessionIndInv, ToldTheTruth
  <2>2. \A r : ~Announced(events, r) /\ ~Announced(reader.todo, r)
    BY <2>1, EmptyAnnouncesNothing DEF Quiet
  <2>3. \A x : ~LastOf(events, x) /\ ~LastOf(reader.todo, x)
    BY <2>1 DEF Quiet, LastOf
  <2> QED BY <2>1, <2>2, <2>3 DEF TruthInv, ToldTheTruth, Quiet
<1> QED BY SessionInvariant, <1>1, PTL

=============================================================================
