---------------------------- MODULE Server_proofs ----------------------------
(***************************************************************************)
(* Theorems about internal/server: the room feed (RoomFeed), for any       *)
(* number of pages, connections and messages and every size of its queues, *)
(* and the request limiter (Limits), for any number of clients and calls.  *)
(***************************************************************************)
EXTENDS RoomFeed, Limits, FiniteSetTheorems, SequenceTheorems, TLAPS

-----------------------------------------------------------------------------
(* Sequences: the frame that comes last, and what is left of the first.     *)

LEMMA Appended ==
  ASSUME NEW S, NEW q \in Seq(S), NEW f \in S
  PROVE  /\ Append(q, f) \in Seq(S)
         /\ Len(Append(q, f)) = Len(q) + 1 /\ Len(q) \in Nat
         /\ DOMAIN Append(q, f) = 1..(Len(q) + 1)
         /\ DOMAIN q = 1..Len(q)
         /\ \A i \in 1..Len(q) : Append(q, f)[i] = q[i]
         /\ Append(q, f)[Len(q) + 1] = f
  OBVIOUS

LEMMA Shifted ==
  ASSUME NEW S, NEW q \in Seq(S), q # <<>>
  PROVE  /\ Tail(q) \in Seq(S)
         /\ Head(q) \in S /\ Head(q) = q[1] /\ 1 \in DOMAIN q
         /\ Len(Tail(q)) = Len(q) - 1 /\ Len(q) \in Nat \ {0}
         /\ DOMAIN Tail(q) = 1..(Len(q) - 1)
         /\ DOMAIN q = 1..Len(q)
         /\ \A i \in 1..(Len(q) - 1) : Tail(q)[i] = q[i + 1]
  OBVIOUS

LEMMA Empty ==
  ASSUME NEW S
  PROVE  /\ <<>> \in Seq(S) /\ Len(<<>>) = 0 /\ DOMAIN <<>> = {}
  OBVIOUS

\* Nothing is lost from a queue to which a frame is added.
LEMMA AppendKeeps ==
  ASSUME NEW S, NEW q \in Seq(S), NEW f \in S
  PROVE  /\ \A m : Has(q, m) => Has(Append(q, f), m)
         /\ f.type = "message" => Has(Append(q, f), f.id)
         /\ Greets(q) => Greets(Append(q, f))
         /\ f.type = "identity" => Greets(Append(q, f))
<1>1. PICK r : r = Append(q, f)
  OBVIOUS
<1>2. /\ DOMAIN r = 1..(Len(q) + 1) /\ DOMAIN q = 1..Len(q) /\ Len(q) \in Nat
      /\ \A i \in 1..Len(q) : r[i] = q[i]
      /\ r[Len(q) + 1] = f
  BY <1>1, Appended
<1>3. (Len(q) + 1) \in DOMAIN r /\ \A i \in DOMAIN q : i \in DOMAIN r /\ r[i] = q[i]
  BY <1>2
<1>4. \A m : Has(q, m) => Has(r, m)
  BY <1>3 DEF Has
<1>5. f.type = "message" => Has(r, f.id)
  BY <1>2, <1>3 DEF Has
<1>6. Greets(q) => Greets(r)
  BY <1>3 DEF Greets
<1>7. f.type = "identity" => Greets(r)
  BY <1>2, <1>3 DEF Greets
<1> QED BY <1>1, <1>4, <1>5, <1>6, <1>7

\* A frame that is not about the room leaves what is said of it, one that is
\* about the room says it anew.
LEMMA AppendTells ==
  ASSUME NEW S, NEW q \in Seq(S), NEW f \in S
  PROVE  /\ f.type \notin Rooms =>
              /\ Silent(q) => Silent(Append(q, f))
              /\ \A n, u : Tells(q, n, u) => Tells(Append(q, f), n, u)
         /\ f.type \in Rooms => Tells(Append(q, f), f.latest, f.unread)
<1>1. PICK r : r = Append(q, f)
  OBVIOUS
<1>2. PICK k \in Nat : /\ DOMAIN r = 1..(k + 1) /\ DOMAIN q = 1..k
                       /\ \A i \in 1..k : r[i] = q[i]
                       /\ r[k + 1] = f
  BY <1>1, Appended
<1>3. \A i \in DOMAIN r : i = k + 1 \/ (i \in DOMAIN q /\ r[i] = q[i])
  BY <1>2
<1>4. ASSUME f.type \notin Rooms PROVE Silent(q) => Silent(r)
  BY <1>2, <1>3, <1>4 DEF Silent
<1>5. ASSUME f.type \notin Rooms, NEW n, NEW u, Tells(q, n, u) PROVE Tells(r, n, u)
  <2>1. PICK i \in DOMAIN q : /\ q[i].type \in Rooms /\ q[i].latest = n /\ q[i].unread = u
                              /\ \A j \in DOMAIN q : j > i => q[j].type \notin Rooms
    BY <1>5 DEF Tells
  <2>2. i \in DOMAIN r /\ r[i] = q[i]
    BY <1>2
  <2>3. \A j \in DOMAIN r : j > i => r[j].type \notin Rooms
    BY <1>2, <1>3, <1>5, <2>1
  <2> QED BY <2>1, <2>2, <2>3 DEF Tells
<1>6. ASSUME f.type \in Rooms PROVE Tells(r, f.latest, f.unread)
  <2>1. (k + 1) \in DOMAIN r /\ \A j \in DOMAIN r : ~(j > k + 1)
    BY <1>2
  <2> QED BY <1>2, <1>6, <2>1 DEF Tells
<1> QED BY <1>1, <1>4, <1>5, <1>6

\* What is not in the rest of a queue was its head.
LEMMA TailKeeps ==
  ASSUME NEW S, NEW q \in Seq(S), q # <<>>
  PROVE  /\ \A m : Has(q, m) =>
              \/ Has(Tail(q), m)
              \/ Head(q).type = "message" /\ Head(q).id = m
         /\ Greets(q) => Greets(Tail(q)) \/ Head(q).type = "identity"
<1>1. PICK r : r = Tail(q)
  OBVIOUS
<1>2. PICK k \in Nat : /\ DOMAIN r = 1..k /\ DOMAIN q = 1..(k + 1)
                       /\ \A i \in 1..k : r[i] = q[i + 1]
                       /\ q[1] = Head(q)
  <2>0. Len(q) \in Nat \ {0}
    BY Shifted
  <2>1. PICK k \in Nat : k = Len(q) - 1
    BY <2>0
  <2>2. Len(q) = k + 1
    BY <2>1, Shifted
  <2> QED BY <1>1, <2>1, <2>2, Shifted
<1>3. \A i \in DOMAIN q : i = 1 \/ \E j \in DOMAIN r : r[j] = q[i]
  <2>1. ASSUME NEW i \in DOMAIN q, i # 1 PROVE \E j \in DOMAIN r : r[j] = q[i]
    <3>1. i - 1 \in 1..k /\ (i - 1) + 1 = i
      BY <1>2, <2>1
    <3> QED BY <1>2, <3>1
  <2> QED BY <2>1
<1>4. \A m : Has(q, m) => Has(r, m) \/ (Head(q).type = "message" /\ Head(q).id = m)
  BY <1>2, <1>3 DEF Has
<1>5. Greets(q) => Greets(r) \/ Head(q).type = "identity"
  BY <1>2, <1>3 DEF Greets
<1> QED BY <1>1, <1>4, <1>5

LEMMA TailTells ==
  ASSUME NEW S, NEW q \in Seq(S), q # <<>>
  PROVE  /\ Silent(q) => Silent(Tail(q)) /\ Head(q).type \notin Rooms
         /\ \A n, u : Tells(q, n, u) =>
              \/ Tells(Tail(q), n, u)
              \/ /\ Silent(Tail(q)) /\ Head(q).type \in Rooms
                 /\ Head(q).latest = n /\ Head(q).unread = u
<1>1. PICK r : r = Tail(q)
  OBVIOUS
<1>2. PICK k \in Nat : /\ DOMAIN r = 1..k /\ DOMAIN q = 1..(k + 1)
                       /\ \A i \in 1..k : r[i] = q[i + 1]
                       /\ q[1] = Head(q)
  <2>0. Len(q) \in Nat \ {0}
    BY Shifted
  <2>1. PICK k \in Nat : k = Len(q) - 1
    BY <2>0
  <2>2. Len(q) = k + 1
    BY <2>1, Shifted
  <2> QED BY <1>1, <2>1, <2>2, Shifted
<1>3. /\ 1 \in DOMAIN q
      /\ \A j \in DOMAIN r : j \in Nat /\ j >= 1 /\ j + 1 \in DOMAIN q /\ r[j] = q[j + 1]
  BY <1>2
<1>4. Silent(q) => Silent(r) /\ Head(q).type \notin Rooms
  BY <1>2, <1>3 DEF Silent
<1>5. ASSUME NEW n, NEW u, Tells(q, n, u)
      PROVE  \/ Tells(r, n, u)
             \/ /\ Silent(r) /\ Head(q).type \in Rooms
                /\ Head(q).latest = n /\ Head(q).unread = u
  <2>1. PICK i \in DOMAIN q : /\ q[i].type \in Rooms /\ q[i].latest = n /\ q[i].unread = u
                              /\ \A j \in DOMAIN q : j > i => q[j].type \notin Rooms
    BY <1>5 DEF Tells
  <2>2. CASE i = 1
    <3>1. \A j \in DOMAIN r : q[j + 1].type \notin Rooms
      BY <1>3, <2>1, <2>2
    <3>2. Silent(r)
      BY <1>3, <3>1 DEF Silent
    <3> QED BY <1>2, <2>1, <2>2, <3>2
  <2>3. CASE i # 1
    <3>1. PICK h \in 1..k : i = h + 1
      <4>1. i - 1 \in 1..k /\ i = (i - 1) + 1
        BY <1>2, <2>3
      <4> QED BY <4>1
    <3>2. h \in DOMAIN r /\ r[h] = q[i]
      BY <1>2, <3>1
    <3>3. \A j \in DOMAIN r : j > h => r[j].type \notin Rooms
      <4>1. ASSUME NEW j \in DOMAIN r, j > h PROVE r[j].type \notin Rooms
        <5>1. j + 1 \in DOMAIN q /\ j + 1 > i /\ r[j] = q[j + 1]
          BY <1>3, <3>1, <4>1
        <5> QED BY <2>1, <5>1
      <4> QED BY <4>1
    <3> QED BY <2>1, <3>2, <3>3 DEF Tells
  <2> QED BY <2>2, <2>3
<1> QED BY <1>1, <1>4, <1>5

LEMMA EmptyQueue == ~Greets(<<>>) /\ Silent(<<>>) /\ (\A m : ~Has(<<>>, m))
                    /\ (\A n, u : ~Tells(<<>>, n, u))
<1>1. DOMAIN <<>> = {}
  BY Empty
<1> QED BY <1>1 DEF Greets, Silent, Has, Tells

-----------------------------------------------------------------------------
(* Frames, and what is unread.                                             *)

LEMMA Constants == PageSize \in Nat \ {0} /\ QueueSize \in Nat \ {0} /\ JobsSize \in Nat \ {0}
                   /\ Workers \in Nat \ {0} /\ MaxMessages \in Nat /\ MaxSubs \in Nat
                   /\ MaxRefreshes \in Nat
  BY RoomFeedAssumption

LEMMA StoredType == ASSUME DataInv PROVE stored \in 0..MaxMessages /\ stored \in Nat
  BY Constants DEF DataInv

LEMMA UnreadType ==
  ASSUME stored \in 0..MaxMessages, NEW c \in 0..MaxMessages
  PROVE  /\ Unread(c) \in 0..MaxMessages
         /\ c >= stored => Unread(c) = 0
<1>1. PICK M : M = {m \in (c + 1)..stored : m \notin OwnMessages}
  OBVIOUS
<1>2. M \in SUBSET (1..MaxMessages)
  BY <1>1, Constants
<1>3. IsFiniteSet(1..MaxMessages) /\ Cardinality(1..MaxMessages) <= MaxMessages
  BY FS_Interval, Constants
<1>4. IsFiniteSet(M) /\ Cardinality(M) <= Cardinality(1..MaxMessages)
  BY <1>2, <1>3, FS_Subset
<1>5. Cardinality(M) \in Nat /\ Cardinality(1..MaxMessages) \in Nat
  BY <1>3, <1>4, FS_CardinalityType
<1>6. Cardinality(M) \in 0..MaxMessages
  BY <1>3, <1>4, <1>5, Constants
<1>7. c >= stored => Cardinality(M) = 0
  <2>1. c >= stored => M = {}
    BY <1>1, Constants
  <2> QED BY <2>1, FS_EmptySet
<1> QED BY <1>1, <1>6, <1>7 DEF Unread

LEMMA UnreadIs == ASSUME NEW c PROVE Unread(c) = UnreadOf(stored, c)
  BY DEF Unread, UnreadOf

LEMMA RoomFrameIs ==
  ASSUME stored \in 0..MaxMessages, NEW type \in Rooms, NEW c \in 0..MaxMessages, NEW f,
         f = RoomFrame(type, c)
  PROVE  /\ f \in Known(stored) /\ f.type = type /\ f.type \in Rooms
         /\ f.type \notin OfMessage /\ f.type # "identity"
         /\ f.latest = stored /\ f.unread = Unread(c)
<1>1. PICK u \in 0..MaxMessages : u = Unread(c)
  BY UnreadType
<1>2. f = [type |-> type, id |-> 0, state |-> "none", latest |-> stored, unread |-> u]
  BY <1>1 DEF RoomFrame, NewFrame
<1>3. f.type = type /\ f.id = 0 /\ f.latest = stored /\ f.unread = u
  BY <1>2
<1>4. 0 \in 0..MaxMessages
  BY Constants
<1>5. f \in Frame
  BY <1>2, <1>4 DEF Frame, States, Rooms
<1>6. type \notin OfMessage /\ type # "identity"
  BY DEF Rooms, OfMessage
<1>7. f \in Known(stored)
  BY <1>3, <1>5, <1>6, Constants DEF Known
<1> QED BY <1>1, <1>3, <1>6, <1>7

LEMMA MessageFrameIs ==
  ASSUME stored \in 0..MaxMessages, NEW type \in OfMessage, NEW m \in 1..stored,
         NEW state \in States \ {"none"}, NEW f, f = MessageFrame(type, m, state)
  PROVE  /\ f \in Known(stored) /\ f.type = type /\ f.type \in OfMessage
         /\ f.type \notin Rooms /\ f.type # "identity" /\ f.id = m
<1>1. f = [type |-> type, id |-> m, state |-> state, latest |-> 0, unread |-> 0]
  BY DEF MessageFrame, NewFrame
<1>2. f.type = type /\ f.id = m /\ f.state = state
  BY <1>1
<1>3. 0 \in 0..MaxMessages /\ m \in 0..MaxMessages /\ m # 0 /\ m <= stored
  BY Constants
<1>4. f \in Frame
  BY <1>1, <1>3 DEF Frame, OfMessage
<1>5. type \notin Rooms /\ type # "identity"
  BY DEF Rooms, OfMessage
<1>6. f \in Known(stored)
  BY <1>2, <1>3, <1>4 DEF Known
<1> QED BY <1>2, <1>5, <1>6

LEMMA NewFrameIs ==
  ASSUME NEW n \in 0..MaxMessages
  PROVE  NewFrame \in Known(n) /\ NewFrame.type = "identity"
<1>1. NewFrame.type = "identity" /\ NewFrame.id = 0
  BY DEF NewFrame
<1>2. NewFrame \in Frame
  BY Constants DEF NewFrame, Frame, States
<1> QED BY <1>1, <1>2 DEF Known, OfMessage

LEMMA KnownFrames ==
  ASSUME NEW n \in 0..MaxMessages, NEW f \in Known(n)
  PROVE  /\ f.type \in {"identity", "rooms", "room", "message", "translation"}
         /\ f.id \in 0..MaxMessages /\ f.id <= n /\ f.state \in States
         /\ f.latest \in 0..MaxMessages /\ f.unread \in 0..MaxMessages
         /\ f.type \in OfMessage => f.id \in Messages /\ f.state # "none"
<1>1. f \in Frame /\ f.id <= n /\ (f.type \in OfMessage => f.id # 0 /\ f.state # "none")
  BY DEF Known
<1>2. /\ f.type \in {"identity", "rooms", "room", "message", "translation"}
      /\ f.id \in 0..MaxMessages /\ f.state \in States
      /\ f.latest \in 0..MaxMessages /\ f.unread \in 0..MaxMessages
  BY <1>1 DEF Frame
<1>3. f.id # 0 => f.id \in Messages
  BY <1>2, Constants DEF Messages
<1> QED BY <1>1, <1>2, <1>3

LEMMA KnownGrows ==
  ASSUME NEW n \in 0..MaxMessages, NEW k \in 0..MaxMessages, n <= k
  PROVE  Known(n) \subseteq Known(k)
<1>1. ASSUME NEW f \in Known(n) PROVE f \in Known(k)
  <2>1. f \in Frame /\ f.id <= n /\ (f.type \in OfMessage => f.id # 0 /\ f.state # "none")
    BY DEF Known
  <2>2. f.id \in 0..MaxMessages
    BY KnownFrames
  <2>3. f.id <= k
    BY <2>1, <2>2, Constants
  <2> QED BY <2>1, <2>3 DEF Known
<1> QED BY <1>1

-----------------------------------------------------------------------------
(* What is done to a subscription.                                         *)

LEMMA SubFields ==
  ASSUME NEW n, NEW y \in SubAt(n)
  PROVE  /\ y.stage \in {"unused", "opening", "bootstrap", "live", "gone"}
         /\ y.done \in BOOLEAN /\ y.left \in BOOLEAN
         /\ y.boot \in Seq(Known(n)) /\ y.out \in Seq(Known(n))
         /\ y.cursor \in 0..n /\ y.inbox \in SUBSET (1..n)
  BY DEF SubAt

\* Only what is to be sent may change, or that the subscription is closed.
Queues(y, z) ==
  /\ z.stage = y.stage /\ z.left = y.left /\ z.boot = y.boot
  /\ z.cursor = y.cursor /\ z.inbox = y.inbox
  /\ y.done => z.done

\* A frame is sent unless that closes the subscription.
Gets(y, z, f) ==
  /\ z.out = y.out \/ z.out = Append(y.out, f)
  /\ z.done \/ y.left \/ z.out = Append(y.out, f)

LEMMA SentIs ==
  ASSUME NEW n, NEW y \in SubAt(n), Len(y.out) <= QueueSize, NEW f \in Known(n),
         NEW z, z = Sent(y, f)
  PROVE  z \in SubAt(n) /\ Len(z.out) <= QueueSize /\ Queues(y, z) /\ Gets(y, z, f)
<1>1. CASE y.left
  <2>1. z = y
    BY <1>1 DEF Sent
  <2> QED BY <1>1, <2>1 DEF Queues, Gets
<1>2. CASE ~y.left /\ Len(y.out) < QueueSize
  <2>0. PICK o \in Seq(Known(n)) : o = y.out
    BY SubFields
  <2>1. PICK q : q = Append(o, f)
    OBVIOUS
  <2>2. q \in Seq(Known(n)) /\ Len(q) = Len(o) + 1
    BY <2>1, Appended
  <2>3. z \in SubAt(n) /\ Queues(y, z) /\ z.out = q
    <3>1. z = [y EXCEPT !.out = q]
      BY <1>2, <2>0, <2>1 DEF Sent
    <3> QED BY <2>2, <3>1 DEF SubAt, Queues
  <2>4. Len(y.out) \in Nat
    BY <2>0
  <2> QED BY <1>2, <2>0, <2>1, <2>2, <2>3, <2>4, Constants DEF Gets
<1>3. CASE ~y.left /\ ~(Len(y.out) < QueueSize)
  <2>1. z = [y EXCEPT !.done = TRUE]
    BY <1>3 DEF Sent
  <2>2. z \in SubAt(n) /\ Queues(y, z) /\ z.out = y.out /\ z.done
    BY <2>1 DEF SubAt, Queues
  <2> QED BY <2>2 DEF Gets
<1> QED BY <1>1, <1>2, <1>3

LEMMA PushedIs ==
  ASSUME NEW n, NEW y \in SubAt(n), Len(y.out) <= QueueSize, NEW f \in Known(n),
         NEW z, z = Pushed(y, f)
  PROVE  z \in SubAt(n) /\ Len(z.out) <= QueueSize /\ Queues(y, z) /\ Gets(y, z, f)
<1>1. CASE y.done
  <2>1. z = y
    BY <1>1 DEF Pushed
  <2> QED BY <1>1, <2>1 DEF Queues, Gets
<1>2. CASE ~y.done
  <2>1. z = Sent(y, f)
    BY <1>2 DEF Pushed
  <2> QED BY <2>1, SentIs
<1> QED BY <1>1, <1>2

\* The room's state, of n messages, is told for the cursor c.
Refreshes(y, z, n, c) ==
  /\ z.stage = y.stage /\ z.left = y.left /\ z.boot = y.boot
  /\ z.cursor = c /\ z.inbox = y.inbox
  /\ y.done => z.done
  /\ \E f \in Known(n) : /\ f.type = "room" /\ f.latest = n /\ f.unread = UnreadOf(n, c)
                         /\ Gets(y, z, f)

LEMMA RefreshedIs ==
  ASSUME stored \in 0..MaxMessages, NEW y \in SubAt(stored), Len(y.out) <= QueueSize,
         NEW c \in 0..stored, NEW z, z = Refreshed(y, c)
  PROVE  z \in SubAt(stored) /\ Len(z.out) <= QueueSize /\ Refreshes(y, z, stored, c)
<1>1. c \in 0..MaxMessages /\ Smaller(c, stored) = c
  BY Constants DEF Smaller
<1>2. PICK f : f = RoomFrame("room", c)
  OBVIOUS
<1>3. /\ f \in Known(stored) /\ f.type = "room" /\ f.latest = stored
      /\ f.unread = UnreadOf(stored, c)
  BY <1>1, <1>2, RoomFrameIs, UnreadIs DEF Rooms
<1>4. PICK v : v = [y EXCEPT !.cursor = c]
  OBVIOUS
<1>5. /\ v \in SubAt(stored) /\ v.out = y.out /\ v.cursor = c
      /\ v.stage = y.stage /\ v.left = y.left /\ v.boot = y.boot
      /\ v.inbox = y.inbox /\ v.done = y.done
  BY <1>4 DEF SubAt
<1>6. z = Pushed(v, f)
  BY <1>1, <1>2, <1>4 DEF Refreshed
<1>7. z \in SubAt(stored) /\ Len(z.out) <= QueueSize /\ Queues(v, z) /\ Gets(v, z, f)
  BY <1>3, <1>5, <1>6, PushedIs
<1>8. Gets(y, z, f)
  BY <1>5, <1>7 DEF Gets
<1> QED BY <1>3, <1>5, <1>7, <1>8 DEF Refreshes, Queues

LEMMA SubGrows ==
  ASSUME NEW n \in 0..MaxMessages, NEW k \in 0..MaxMessages, n <= k, NEW y \in SubAt(n)
  PROVE  y \in SubAt(k)
<1>1. y.boot \in Seq(Known(k)) /\ y.out \in Seq(Known(k))
  BY SubFields, KnownGrows, SeqMonotonic
<1>2. y.cursor \in 0..k /\ y.inbox \in SUBSET (1..k)
  BY SubFields, Constants
<1> QED BY <1>1, <1>2 DEF SubAt

-----------------------------------------------------------------------------
(* A page and its connection, while the server speaks to it.               *)

\* One step of a broadcast: subscriptions get the frame, the others nothing.
Hears(y, z, f) ==
  IF y.stage \in {"bootstrap", "live"} THEN Queues(y, z) /\ Gets(y, z, f) ELSE z = y

LEMMA HearsQuiet ==
  ASSUME NEW y, NEW z, NEW f, Quiet(y), Hears(y, z, f)
  PROVE  Quiet(z) /\ z.stage = y.stage
<1>1. CASE y.stage \in {"bootstrap", "live"}
  <2>1. z.stage = y.stage
    BY <1>1 DEF Hears, Queues
  <2> QED BY <1>1, <2>1 DEF Quiet, Started
<1>2. CASE y.stage \notin {"bootstrap", "live"}
  BY <1>2 DEF Hears
<1> QED BY <1>1, <1>2

\* The step of a subscription may end the waiting for a message or for the
\* room's state only when it brings it.
LEMMA PairHears ==
  ASSUME NEW n \in 0..MaxMessages, NEW x, NEW y \in SubAt(n), NEW z, NEW s, NEW rows,
         NEW l, NEW k, NEW f \in Known(n), f.type \in OfMessage, Hears(y, z, f),
         Pair(x, y, s, rows, n, l),
         Coming(l) => Coming(k) \/ (f.type = "message" /\ f.id = n),
         Serving(y) /\ Awaits(l, s) => Awaits(k, s)
  PROVE  Pair(x, z, s, rows, n, k)
<1>0. f.type \notin Rooms
  BY DEF Rooms, OfMessage
<1>1. PICK o \in Seq(Known(n)) : o = y.out
  BY SubFields
<1>2. PICK q : q = Append(o, f)
  OBVIOUS
<1>3. /\ z.stage = y.stage /\ z.left = y.left /\ z.boot = y.boot
      /\ z.cursor = y.cursor /\ z.inbox = y.inbox
  BY DEF Hears, Queues
<1>4. ASSUME Serving(z)
      PROVE  Serving(y) /\ z.out = q
  <2>1. y.stage \in {"bootstrap", "live"}
    BY <1>3, <1>4 DEF Serving
  <2>2. ~z.done /\ ~y.left
    BY <1>4 DEF Serving, Pair, Linked
  <2> QED BY <1>1, <1>2, <2>1, <2>2 DEF Hears, Queues, Gets, Serving
<1>5. Linked(x, z) /\ Agrees(x, z)
  <2>1. Linked(x, y) /\ Agrees(x, y)
    BY DEF Pair
  <2> QED BY <1>3, <2>1 DEF Linked, Agrees, Started
<1>6. Covers(x, z, rows, n, k)
  <2>1. ASSUME Serving(z), NEW m \in Newest(n)
        PROVE  \/ x.shown[m] # "none"
               \/ Has(z.out, m)
               \/ Coming(k) /\ m = n
               \/ x.history = "answered" /\ m \in rows
               \/ Asks(x) \/ Greets(z.boot)
    <3>1. \/ x.shown[m] # "none"
          \/ Has(o, m)
          \/ Coming(l) /\ m = n
          \/ x.history = "answered" /\ m \in rows
          \/ Asks(x) \/ Greets(y.boot)
      BY <1>1, <1>4, <2>1 DEF Pair, Covers
    <3>2. Has(o, m) => Has(z.out, m)
      BY <1>2, <1>4, <2>1, AppendKeeps
    <3>3. f.type = "message" /\ f.id = n => Has(z.out, n)
      BY <1>2, <1>4, <2>1, AppendKeeps
    <3> QED BY <1>3, <3>1, <3>2, <3>3
  <2> QED BY <2>1 DEF Covers
<1>7. Says(x, z, s, n, k)
  <2>1. PICK u : u = UnreadOf(n, y.cursor)
    OBVIOUS
  <2>2. ASSUME Serving(z)
        PROVE  /\ z.stage = "bootstrap" => Silent(z.out)
               /\ z.stage = "live" /\ ~Awaits(k, s) =>
                    \/ Tells(z.out, n, u)
                    \/ /\ Silent(z.out)
                       /\ Tells(z.boot, n, u) \/ (Silent(z.boot) /\ Knows(x, n, u))
    <3>1. /\ y.stage = "bootstrap" => Silent(o)
          /\ y.stage = "live" /\ ~Awaits(l, s) =>
               \/ Tells(o, n, u)
               \/ /\ Silent(o)
                  /\ Tells(y.boot, n, u) \/ (Silent(y.boot) /\ Knows(x, n, u))
      BY <1>1, <1>4, <2>1, <2>2 DEF Pair, Says
    <3>2. Silent(o) => Silent(z.out)
      BY <1>0, <1>2, <1>4, <2>2, AppendTells
    <3>3. Tells(o, n, u) => Tells(z.out, n, u)
      BY <1>0, <1>2, <1>4, <2>2, AppendTells
    <3> QED BY <1>3, <1>4, <2>2, <3>1, <3>2, <3>3
  <2> QED BY <1>3, <2>1, <2>2 DEF Says
<1> QED BY <1>5, <1>6, <1>7 DEF Pair

\* Nothing is said: then nothing may be waited for that is not waited for still.
LEMMA PairWaits ==
  ASSUME NEW n, NEW x, NEW y, NEW s, NEW rows, NEW l, NEW k, Pair(x, y, s, rows, n, l),
         Coming(l) => Coming(k), Serving(y) /\ Awaits(l, s) => Awaits(k, s)
  PROVE  Pair(x, y, s, rows, n, k)
<1>1. Covers(x, y, rows, n, k)
  BY DEF Pair, Covers
<1>2. Says(x, y, s, n, k)
  BY DEF Pair, Says
<1> QED BY <1>1, <1>2 DEF Pair

\* A message is stored.
LEMMA PairStores ==
  ASSUME NEW n \in 0..MaxMessages, NEW x, NEW y, NEW s, NEW rows, NEW l, NEW k,
         Pair(x, y, s, rows, n, l), ~Coming(l), k.stage = "stored"
  PROVE  Pair(x, y, s, rows, n + 1, k)
<1>1. Newest(n + 1) \subseteq Newest(n) \cup {n + 1}
  BY Constants DEF Newest, Larger
<1>2. Covers(x, y, rows, n + 1, k)
  <2>1. Coming(k)
    BY DEF Coming
  <2> QED BY <1>1, <2>1 DEF Pair, Covers
<1>3. Says(x, y, s, n + 1, k)
  BY DEF Pair, Says, Awaits
<1> QED BY <1>2, <1>3 DEF Pair

\* The room's state is told, for the cursor that the subscription has now.
LEMMA PairRefreshes ==
  ASSUME NEW n \in 0..MaxMessages, NEW x, NEW y \in SubAt(n), NEW z, NEW s, NEW rows,
         NEW l, NEW k, NEW c, y.stage # "bootstrap", Refreshes(y, z, n, c),
         Linked(x, y), Covers(x, y, rows, n, l), Agrees(x, z), Coming(l) => Coming(k)
  PROVE  Pair(x, z, s, rows, n, k)
<1>1. PICK f \in Known(n) : /\ f.type = "room" /\ f.latest = n
                            /\ f.unread = UnreadOf(n, c) /\ Gets(y, z, f)
  BY DEF Refreshes
<1>2. PICK o \in Seq(Known(n)) : o = y.out
  BY SubFields
<1>3. PICK q : q = Append(o, f)
  OBVIOUS
<1>4. /\ z.stage = y.stage /\ z.left = y.left /\ z.boot = y.boot
      /\ z.cursor = c /\ z.inbox = y.inbox
  BY DEF Refreshes
<1>5. ASSUME Serving(z)
      PROVE  Serving(y) /\ z.out = q /\ z.stage # "bootstrap"
  BY <1>1, <1>2, <1>3, <1>4, <1>5 DEF Refreshes, Gets, Serving, Linked
<1>6. Linked(x, z)
  BY <1>4 DEF Linked, Started
<1>7. Covers(x, z, rows, n, k)
  <2>1. ASSUME Serving(z), NEW m \in Newest(n)
        PROVE  \/ x.shown[m] # "none"
               \/ Has(z.out, m)
               \/ Coming(k) /\ m = n
               \/ x.history = "answered" /\ m \in rows
               \/ Asks(x) \/ Greets(z.boot)
    <3>1. \/ x.shown[m] # "none"
          \/ Has(o, m)
          \/ Coming(l) /\ m = n
          \/ x.history = "answered" /\ m \in rows
          \/ Asks(x) \/ Greets(y.boot)
      BY <1>2, <1>5, <2>1 DEF Covers
    <3>2. Has(o, m) => Has(z.out, m)
      BY <1>3, <1>5, <2>1, AppendKeeps
    <3> QED BY <1>4, <3>1, <3>2
  <2> QED BY <2>1 DEF Covers
<1>8. Says(x, z, s, n, k)
  <2>1. ASSUME Serving(z) PROVE Tells(z.out, n, UnreadOf(n, z.cursor))
    <3>1. f.type \in Rooms
      BY <1>1 DEF Rooms
    <3>2. Tells(q, f.latest, f.unread)
      BY <1>3, <3>1, AppendTells
    <3> QED BY <1>1, <1>4, <1>5, <2>1, <3>2
  <2> QED BY <1>5, <2>1 DEF Says
<1> QED BY <1>6, <1>7, <1>8 DEF Pair

\* A connection is subscribed: it greets the page, which then asks for the history.
LEMMA PairGreets ==
  ASSUME NEW n \in 0..MaxMessages, NEW x, NEW y \in SubAt(n), NEW z, NEW s, NEW rows,
         NEW l, Quiet(y), y.stage = "opening", z.stage = "bootstrap", z.left = y.left,
         z.boot = Append(y.boot, NewFrame), z.out = y.out, z.cursor = y.cursor,
         z.inbox = y.inbox, Pair(x, y, s, rows, n, l)
  PROVE  Pair(x, z, s, rows, n, l)
<1>1. PICK b \in Seq(Known(n)) : b = y.boot
  BY SubFields
<1>2. Greets(z.boot)
  BY <1>1, NewFrameIs, AppendKeeps
<1>3. Silent(z.out)
  <2>1. z.out = <<>>
    BY DEF Quiet, Started
  <2> QED BY <2>1, EmptyQueue
<1>4. Covers(x, z, rows, n, l)
  BY <1>2 DEF Covers
<1>5. Says(x, z, s, n, l)
  BY <1>3 DEF Says
<1>6. Linked(x, z) /\ Agrees(x, z)
  <2>1. Linked(x, y) /\ Agrees(x, y)
    BY DEF Pair
  <2> QED BY <2>1 DEF Linked, Agrees, Started
<1> QED BY <1>4, <1>5, <1>6 DEF Pair

\* The snapshot is written: the last bootstrap frame tells the room's state.
LEMMA PairSnapshot ==
  ASSUME NEW n \in 0..MaxMessages, NEW x, NEW y \in SubAt(n), NEW z, NEW s, NEW rows,
         NEW l, NEW f \in Known(n), f.type = "rooms", f.latest = n,
         f.unread = UnreadOf(n, y.cursor),
         y.stage = "bootstrap", z.stage = "live", z.left = y.left, z.done = y.done,
         z.boot = Append(y.boot, f), z.out = y.out, z.cursor = y.cursor,
         z.inbox = y.inbox, Pair(x, y, s, rows, n, l)
  PROVE  Pair(x, z, s, rows, n, l)
<1>1. PICK b \in Seq(Known(n)) : b = y.boot
  BY SubFields
<1>2. Greets(y.boot) => Greets(z.boot)
  BY <1>1, AppendKeeps
<1>3. Tells(z.boot, n, UnreadOf(n, z.cursor))
  <2>1. f.type \in Rooms
    BY DEF Rooms
  <2>2. Tells(Append(b, f), f.latest, f.unread)
    BY <2>1, AppendTells
  <2> QED BY <1>1, <2>2
<1>4. Serving(z) => Serving(y)
  BY DEF Serving
<1>5. Covers(x, z, rows, n, l)
  BY <1>2, <1>4 DEF Pair, Covers
<1>6. Says(x, z, s, n, l)
  <2>1. Serving(z) => Silent(z.out)
    BY <1>4 DEF Pair, Says
  <2> QED BY <1>3, <2>1 DEF Says
<1>7. Linked(x, z) /\ Agrees(x, z)
  <2>1. Linked(x, y) /\ Agrees(x, y)
    BY DEF Pair
  <2> QED BY <2>1 DEF Linked, Agrees, Started
<1> QED BY <1>5, <1>6, <1>7 DEF Pair

\* The handler has ended.
LEMMA PairEnds ==
  ASSUME NEW n, NEW x, NEW y, NEW z, NEW s, NEW rows, NEW l,
         z.stage = "gone", z.left = y.left, Pair(x, y, s, rows, n, l)
  PROVE  Pair(x, z, s, rows, n, l)
<1>1. ~Serving(z)
  BY DEF Serving
<1>2. Linked(x, z) /\ Agrees(x, z)
  BY DEF Pair, Linked, Agrees, Started
<1> QED BY <1>1, <1>2 DEF Pair, Covers, Says

-----------------------------------------------------------------------------
(* What a page does with what it is told.                                  *)

LEMMA PageFields ==
  ASSUME NEW n, NEW x \in PageAt(n)
  PROVE  /\ x \in Page
         /\ x.shown \in [Messages -> States] /\ x.during \in [Messages -> States]
         /\ x.open \in BOOLEAN /\ x.history \in {"idle", "asked", "answered"}
         /\ x.again \in BOOLEAN /\ x.known \in BOOLEAN /\ x.error \in BOOLEAN
         /\ x.socket \in {0} \cup Subs /\ x.verified \in BOOLEAN /\ x.live \in BOOLEAN
         /\ x.cursor \in 0..MaxMessages /\ x.latest \in 0..MaxMessages
         /\ x.unread \in 0..MaxMessages /\ x.reads \in 0..MaxMessages
         /\ x.refreshes \in 0..MaxRefreshes
         /\ \A m \in Messages : x.shown[m] # "none" \/ x.during[m] # "none" => m <= n
         /\ x.cursor <= n /\ x.reads <= x.cursor
         /\ x.again => x.history # "idle"
         /\ x.live \/ x.verified => x.socket # 0
         /\ x.socket # 0 => x.open
<1>1. x \in Page
  BY DEF PageAt
<1>2. /\ \A m \in Messages : x.shown[m] # "none" \/ x.during[m] # "none" => m <= n
      /\ x.cursor <= n /\ x.reads <= x.cursor
      /\ x.again => x.history # "idle"
      /\ x.live \/ x.verified => x.socket # 0
      /\ x.socket # 0 => x.open
  BY DEF PageAt
<1>3. /\ x.shown \in [Messages -> States] /\ x.during \in [Messages -> States]
      /\ x.open \in BOOLEAN /\ x.history \in {"idle", "asked", "answered"}
      /\ x.again \in BOOLEAN /\ x.known \in BOOLEAN /\ x.error \in BOOLEAN
  BY <1>1 DEF Page
<1>4. /\ x.socket \in {0} \cup Subs /\ x.verified \in BOOLEAN /\ x.live \in BOOLEAN
      /\ x.cursor \in 0..MaxMessages /\ x.latest \in 0..MaxMessages
      /\ x.unread \in 0..MaxMessages /\ x.reads \in 0..MaxMessages
      /\ x.refreshes \in 0..MaxRefreshes
  BY <1>1 DEF Page
<1> QED BY <1>1, <1>2, <1>3, <1>4

LEMMA NothingIs == Nothing \in [Messages -> States] /\ \A m \in Messages : Nothing[m] = "none"
  BY DEF Nothing, States

\* The connection and the badge stay as they are.
Still(x, w) ==
  /\ w.socket = x.socket /\ w.open = x.open /\ w.live = x.live /\ w.verified = x.verified
  /\ w.cursor = x.cursor /\ w.reads = x.reads
  /\ w.latest = x.latest /\ w.unread = x.unread

\* A page that keeps its messages too is one as before.
LEMMA PageStill ==
  ASSUME NEW n, NEW x \in PageAt(n), NEW w \in Page, Still(x, w),
         w.shown = x.shown, w.during = x.during, w.again => w.history # "idle"
  PROVE  w \in PageAt(n)
<1>1. /\ \A m \in Messages : w.shown[m] # "none" \/ w.during[m] # "none" => m <= n
      /\ w.cursor <= n /\ w.reads <= w.cursor
      /\ w.live \/ w.verified => w.socket # 0
      /\ w.socket # 0 => w.open
  BY PageFields DEF Still
<1> QED BY <1>1 DEF PageAt

\* refreshHistory.
LEMMA AskedIs ==
  ASSUME NEW n, NEW x \in PageAt(n), NEW w, w = Asked(x)
  PROVE  w \in PageAt(n) /\ Still(x, w) /\ Asks(w) /\ w.shown = x.shown
<1>0. x \in Page
  BY DEF PageAt
<1>1. CASE x.history # "idle"
  <2>1. w = [x EXCEPT !.again = TRUE]
    BY <1>1 DEF Asked
  <2>2. /\ w.shown = x.shown /\ w.during = x.during /\ w.history = x.history /\ w.again
        /\ w.error = x.error /\ Still(x, w)
    BY <1>0, <2>1 DEF Page, Still
  <2>3. w \in Page
    BY <1>0, <2>1, ZenonT(40) DEF Page
  <2> QED BY <1>1, <2>2, <2>3, PageFields DEF PageAt, Asks, Still
<1>2. CASE x.history = "idle"
  <2>1. PICK d \in [Messages -> States] : d = Nothing /\ \A m \in Messages : d[m] = "none"
    BY NothingIs
  <2>2. w = [x EXCEPT !.history = "asked", !.error = FALSE, !.during = d]
    BY <1>2, <2>1 DEF Asked
  <2>3. /\ w.shown = x.shown /\ w.during = d /\ w.history = "asked" /\ w.again = x.again
        /\ ~w.error /\ Still(x, w)
    BY <1>0, <2>2 DEF Page, Still
  <2>4. w \in Page
    BY <1>0, <2>2, ZenonT(40) DEF Page
  <2>5. \A m \in Messages : w.shown[m] # "none" \/ w.during[m] # "none" => m <= n
    BY <2>1, <2>3, PageFields
  <2> QED BY <2>3, <2>4, <2>5, PageFields DEF PageAt, Asks, Still
<1> QED BY <1>1, <1>2

\* A page that does not touch its connection or its badge covers what it did.
LEMMA PairStill ==
  ASSUME NEW n, NEW x, NEW y, NEW s, NEW rows, NEW w, NEW l, NEW news,
         Pair(x, y, s, rows, n, l), Still(x, w), Covers(w, y, news, n, l)
  PROVE  Pair(w, y, s, news, n, l)
<1>1. Linked(w, y) /\ Agrees(w, y)
  BY DEF Pair, Linked, Agrees, Still
<1>2. Says(w, y, s, n, l)
  BY DEF Pair, Says, Knows, Still
<1> QED BY <1>1, <1>2 DEF Pair

LEMMA PairAsks ==
  ASSUME NEW n, NEW x, NEW y, NEW s, NEW rows, NEW w, NEW l,
         Pair(x, y, s, rows, n, l), Still(x, w), Asks(w)
  PROVE  Pair(w, y, s, rows, n, l)
<1>1. Covers(w, y, rows, n, l)
  BY DEF Covers
<1> QED BY <1>1, PairStill

\* The handler has read the newest rows.
LEMMA AnsweredIs ==
  ASSUME NEW n, NEW x \in PageAt(n), NEW w, w = [x EXCEPT !.history = "answered"]
  PROVE  w \in PageAt(n) /\ Still(x, w) /\ w.history = "answered" /\ w.shown = x.shown
<1>0. x \in Page
  BY DEF PageAt
<1>1. /\ w.shown = x.shown /\ w.during = x.during /\ w.history = "answered"
      /\ w.again = x.again /\ Still(x, w)
  BY <1>0 DEF Page, Still
<1>2. w \in Page
  BY <1>0, ZenonT(40) DEF Page
<1>3. w.again => w.history # "idle"
  BY <1>1
<1>4. w \in PageAt(n)
  BY <1>1, <1>2, <1>3, PageStill
<1> QED BY <1>1, <1>4

LEMMA PairServes ==
  ASSUME NEW n, NEW x, NEW y, NEW s, NEW rows, NEW w, NEW l,
         Pair(x, y, s, rows, n, l), Still(x, w), w.history = "answered"
  PROVE  Pair(w, y, s, Newest(n), n, l)
<1>1. Covers(w, y, Newest(n), n, l)
  BY DEF Covers
<1> QED BY <1>1, PairStill

\* The request has failed.
LEMMA FailedIs ==
  ASSUME NEW n, NEW x \in PageAt(n), NEW w,
         w = [x EXCEPT !.history = "idle", !.again = FALSE, !.error = TRUE,
                       !.during = Nothing]
  PROVE  w \in PageAt(n) /\ Still(x, w) /\ Asks(w) /\ w.shown = x.shown
<1>0. x \in Page
  BY DEF PageAt
<1>1. PICK d \in [Messages -> States] : d = Nothing /\ \A m \in Messages : d[m] = "none"
  BY NothingIs
<1>2. w = [x EXCEPT !.history = "idle", !.again = FALSE, !.error = TRUE, !.during = d]
  BY <1>1
<1>3. /\ w.shown = x.shown /\ w.during = d /\ w.history = "idle" /\ w.again = FALSE
      /\ w.error /\ Still(x, w)
  BY <1>0, <1>2 DEF Page, Still
<1>4. w \in Page
  BY <1>0, <1>2, ZenonT(40) DEF Page
<1>5. \A m \in Messages : w.shown[m] # "none" \/ w.during[m] # "none" => m <= n
  BY <1>1, <1>3, PageFields
<1> QED BY <1>3, <1>4, <1>5, PageFields DEF PageAt, Asks, Still

\* mergeMessage.
LEMMA MergedIs ==
  ASSUME NEW a \in States, NEW b \in States
  PROVE  /\ Merged(a, b) \in States
         /\ b # "none" => Merged(a, b) # "none"
  BY DEF Merged, States

LEMMA FreshIs == Fresh \in States /\ Fresh # "none"
  BY DEF Fresh, States

\* What a page shows once its history is merged, whatever arrived meanwhile.
LEMMA UnderIs ==
  ASSUME NEW x \in Page, NEW rows, NEW w,
         w = Under(x, [m \in Messages |-> IF m \in rows THEN Merged(x.shown[m], Fresh)
                                          ELSE x.shown[m]])
  PROVE  /\ w \in [Messages -> States]
         /\ \A m \in Messages :
              /\ m \in rows \/ x.shown[m] # "none" => w[m] # "none"
              /\ w[m] # "none" => m \in rows \/ x.shown[m] # "none" \/ x.during[m] # "none"
<1>1. PICK h : h = [m \in Messages |-> IF m \in rows THEN Merged(x.shown[m], Fresh)
                                       ELSE x.shown[m]]
  OBVIOUS
<1>2. \A m \in Messages : x.shown[m] \in States /\ x.during[m] \in States
  BY DEF Page
<1>3. \A m \in Messages : /\ h[m] \in States
                          /\ m \in rows \/ x.shown[m] # "none" => h[m] # "none"
                          /\ h[m] # "none" => m \in rows \/ x.shown[m] # "none"
  <2>1. ASSUME NEW m \in Messages, m \in rows
        PROVE  h[m] \in States /\ h[m] # "none"
    <3>1. h[m] = Merged(x.shown[m], Fresh)
      BY <1>1, <2>1
    <3> QED BY <1>2, <3>1, FreshIs, MergedIs
  <2>2. ASSUME NEW m \in Messages, m \notin rows
        PROVE  h[m] = x.shown[m]
    BY <1>1, <2>2
  <2> QED BY <1>2, <2>1, <2>2
<1>4. w = [m \in Messages |-> IF x.during[m] = "none" THEN h[m]
                              ELSE Merged(h[m], x.during[m])]
  BY <1>1 DEF Under
<1>5. ASSUME NEW m \in Messages
      PROVE  /\ w[m] \in States
             /\ m \in rows \/ x.shown[m] # "none" => w[m] # "none"
             /\ w[m] # "none" => m \in rows \/ x.shown[m] # "none" \/ x.during[m] # "none"
  <2>1. CASE x.during[m] = "none"
    <3>1. w[m] = h[m]
      BY <1>4, <2>1
    <3> QED BY <1>3, <3>1
  <2>2. CASE x.during[m] # "none"
    <3>1. w[m] = Merged(h[m], x.during[m])
      BY <1>4, <2>2
    <3> QED BY <1>2, <1>3, <2>2, <3>1, MergedIs
  <2> QED BY <2>1, <2>2
<1> QED BY <1>4, <1>5

\* Merge, before a request that was asked for meanwhile.
LEMMA MergeIs ==
  ASSUME NEW n \in 0..MaxMessages, NEW x \in PageAt(n), NEW rows \in SUBSET (1..n), NEW w \in Page,
         Still(x, w), w.during = Nothing, w.again = FALSE,
         \A m \in Messages :
           w.shown[m] # "none" => m \in rows \/ x.shown[m] # "none" \/ x.during[m] # "none"
  PROVE  w \in PageAt(n)
<1>1. \A m \in Messages : w.shown[m] # "none" \/ w.during[m] # "none" => m <= n
  <2>1. \A m \in Messages : m \in rows => m <= n
    BY Constants
  <2>2. \A m \in Messages : w.during[m] = "none"
    BY NothingIs
  <2> QED BY <2>1, <2>2, PageFields
<1> QED BY <1>1, PageFields DEF PageAt, Still

LEMMA NewestKnown ==
  ASSUME NEW n \in 0..MaxMessages
  PROVE  Newest(n) \subseteq 1..n /\ 1..n \subseteq Messages
  BY Constants DEF Newest, Larger, Messages

LEMMA PairMerges ==
  ASSUME NEW n \in 0..MaxMessages, NEW x, NEW y, NEW s, NEW rows, NEW w, NEW l,
         Pair(x, y, s, rows, n, l), x.history = "answered", ~x.again,
         Still(x, w), w.error = x.error,
         \A m \in Messages : m \in rows \/ x.shown[m] # "none" => w.shown[m] # "none"
  PROVE  Pair(w, y, s, rows, n, l)
<1>1. Asks(x) => Asks(w)
  BY DEF Asks
<1>2. Covers(x, y, rows, n, l)
  BY DEF Pair
<1>3. \A m \in Newest(n) : m \in Messages
  BY NewestKnown
<1>4. Covers(w, y, rows, n, l)
  BY <1>1, <1>2, <1>3 DEF Covers
<1> QED BY <1>4, PairStill

-----------------------------------------------------------------------------
(* What a page makes of a frame.                                           *)

\* The page x has taken the frame f and is w.
Takes(x, f, w) ==
  /\ w.socket = x.socket /\ w.cursor = x.cursor /\ w.reads = x.reads
  /\ w.verified => x.verified \/ f.type = "identity"
  /\ Asks(x) \/ f.type = "identity" => Asks(w)
  /\ \A m \in Messages :
       x.shown[m] # "none" \/ (f.type = "message" /\ f.id = m) => w.shown[m] # "none"
  /\ x.history = "answered" => w.history = "answered"
  /\ IF f.type \in Rooms THEN Knows(w, f.latest, f.unread)
                         ELSE w.latest = x.latest /\ w.unread = x.unread

\* The first frame: the page knows who its user is and asks for the history.
LEMMA GreetedIs ==
  ASSUME NEW n, NEW x \in PageAt(n), x.socket # 0, NEW f, f.type = "identity",
         NEW w, w = Asked([x EXCEPT !.verified = TRUE])
  PROVE  w \in PageAt(n) /\ Takes(x, f, w)
<1>0. x \in Page
  BY DEF PageAt
<1>1. PICK v : v = [x EXCEPT !.verified = TRUE]
  OBVIOUS
<1>2. v.shown = x.shown /\ v.during = x.during /\ v.history = x.history /\ v.again = x.again
  BY <1>0, <1>1 DEF Page
<1>3. /\ v.open = x.open /\ v.socket = x.socket /\ v.cursor = x.cursor /\ v.reads = x.reads
      /\ v.latest = x.latest /\ v.unread = x.unread
  BY <1>0, <1>1 DEF Page
<1>4. v \in Page
  BY <1>0, <1>1, ZenonT(40) DEF Page
<1>5. v \in PageAt(n)
  BY <1>2, <1>3, <1>4, PageFields DEF PageAt
<1>6. w \in PageAt(n) /\ Still(v, w) /\ Asks(w)
  BY <1>1, <1>5, AskedIs
<1>7. w.shown = v.shown /\ (v.history = "answered" => w.history = "answered")
  BY <1>1, <1>4 DEF Asked, Page
<1> QED BY <1>2, <1>3, <1>6, <1>7 DEF Takes, Still, Rooms

\* receiveRooms.
LEMMA WithRoomIs ==
  ASSUME NEW n \in 0..MaxMessages, NEW x \in PageAt(n), NEW f \in Known(n), f.type \in Rooms,
         NEW w, w = WithRoom(x, f)
  PROVE  w \in PageAt(n) /\ Takes(x, f, w)
<1>0. x \in Page
  BY DEF PageAt
<1>1. PICK u : u = IF f.latest <= x.cursor THEN 0 ELSE f.unread
  OBVIOUS
<1>2. f.latest \in 0..MaxMessages /\ u \in 0..MaxMessages
  BY <1>1, KnownFrames, Constants
<1>3. w = [x EXCEPT !.latest = f.latest, !.unread = u]
  BY <1>1 DEF WithRoom
<1>4. /\ w.shown = x.shown /\ w.during = x.during /\ w.history = x.history
      /\ w.again = x.again /\ w.error = x.error
  BY <1>0, <1>3 DEF Page
<1>5. /\ w.open = x.open /\ w.socket = x.socket /\ w.live = x.live
      /\ w.verified = x.verified /\ w.cursor = x.cursor /\ w.reads = x.reads
  BY <1>0, <1>3 DEF Page
<1>6. w.latest = f.latest /\ w.unread = u
  BY <1>0, <1>3 DEF Page
<1>7. w \in Page
  BY <1>0, <1>2, <1>3, ZenonT(40) DEF Page
<1>8. w \in PageAt(n)
  BY <1>4, <1>5, <1>7, PageFields DEF PageAt
<1>9. Knows(w, f.latest, f.unread)
  BY <1>1, <1>5, <1>6 DEF Knows
<1> QED BY <1>4, <1>5, <1>8, <1>9 DEF Takes, Asks, Rooms

LEMMA LiveIs ==
  ASSUME NEW n \in 0..MaxMessages, NEW x \in PageAt(n), x.socket # 0, NEW f \in Known(n),
         f.type \in Rooms, NEW w, w = WithRoom([x EXCEPT !.live = TRUE], f)
  PROVE  w \in PageAt(n) /\ Takes(x, f, w)
<1>0. x \in Page
  BY DEF PageAt
<1>1. PICK v : v = [x EXCEPT !.live = TRUE]
  OBVIOUS
<1>2. /\ v.shown = x.shown /\ v.during = x.during /\ v.history = x.history
      /\ v.again = x.again /\ v.error = x.error
  BY <1>0, <1>1 DEF Page
<1>3. /\ v.open = x.open /\ v.socket = x.socket /\ v.cursor = x.cursor /\ v.reads = x.reads
      /\ v.verified = x.verified
  BY <1>0, <1>1 DEF Page
<1>4. v \in Page
  BY <1>0, <1>1, ZenonT(40) DEF Page
<1>5. v \in PageAt(n)
  BY <1>2, <1>3, <1>4, PageFields DEF PageAt
<1>6. w \in PageAt(n) /\ Takes(v, f, w)
  BY <1>1, <1>5, WithRoomIs
<1> QED BY <1>2, <1>3, <1>6 DEF Takes, Asks

\* A message, or its translation.
LEMMA WithMessageIs ==
  ASSUME NEW n \in 0..MaxMessages, NEW x \in PageAt(n), NEW f \in Known(n),
         f.type \in OfMessage, NEW w, w = WithMessage(x, f)
  PROVE  w \in PageAt(n) /\ Takes(x, f, w)
<1>0. x \in Page
  BY DEF PageAt
<1>1. x.shown \in [Messages -> States] /\ x.during \in [Messages -> States]
  BY PageFields
<1>2. f.id \in Messages /\ f.id <= n /\ f.state \in States /\ f.state # "none"
  BY KnownFrames
<1>3. PICK next \in States : next = Merged(x.shown[f.id], f.state) /\ next # "none"
  BY <1>1, <1>2, MergedIs
<1>4. PICK mark \in States : mark = IF x.history # "idle" THEN next ELSE "none"
  BY DEF States
<1>5. PICK v : v = [x.shown EXCEPT ![f.id] = next]
  OBVIOUS
<1>6. PICK d : d = [x.during EXCEPT ![f.id] = mark]
  OBVIOUS
<1>7. w = [x EXCEPT !.shown = v, !.during = d]
  BY <1>0, <1>3, <1>4, <1>5, <1>6 DEF WithMessage, Page
<1>8. /\ v \in [Messages -> States] /\ d \in [Messages -> States]
      /\ v[f.id] # "none"
      /\ \A m \in Messages : m # f.id => v[m] = x.shown[m] /\ d[m] = x.during[m]
  BY <1>1, <1>2, <1>3, <1>4, <1>5, <1>6
<1>9. w.shown = v /\ w.during = d /\ w.history = x.history /\ w.again = x.again
  BY <1>0, <1>7 DEF Page
<1>10. w.error = x.error /\ Still(x, w)
  BY <1>0, <1>7 DEF Page, Still
<1>11. w \in Page
  BY <1>0, <1>7, <1>8, ZenonT(40) DEF Page
<1>12. \A m \in Messages : w.shown[m] # "none" \/ w.during[m] # "none" => m <= n
  BY <1>2, <1>8, <1>9, PageFields
<1>13. w \in PageAt(n)
  BY <1>9, <1>10, <1>11, <1>12, PageFields DEF PageAt, Still
<1>14. f.type \notin Rooms /\ f.type # "identity"
  BY DEF Rooms, OfMessage
<1>15. \A m \in Messages : x.shown[m] # "none" \/ f.id = m => w.shown[m] # "none"
  BY <1>8, <1>9
<1> QED BY <1>9, <1>10, <1>13, <1>14, <1>15 DEF Takes, Asks, Still

LEMMA HandledIs ==
  ASSUME NEW n \in 0..MaxMessages, NEW x \in PageAt(n), x.socket # 0, NEW f \in Known(n),
         NEW w, w = Handled(x, f)
  PROVE  w \in PageAt(n) /\ Takes(x, f, w)
<1>1. CASE f.type = "identity"
  <2>1. w = Asked([x EXCEPT !.verified = TRUE])
    BY <1>1 DEF Handled
  <2> QED BY <1>1, <2>1, GreetedIs
<1>2. CASE f.type = "rooms"
  <2>1. w = WithRoom([x EXCEPT !.live = TRUE], f) /\ f.type \in Rooms
    BY <1>2 DEF Handled, Rooms
  <2> QED BY <2>1, LiveIs
<1>3. CASE f.type = "room"
  <2>1. w = WithRoom(x, f) /\ f.type \in Rooms
    BY <1>3 DEF Handled, Rooms
  <2> QED BY <2>1, WithRoomIs
<1>4. CASE f.type \in OfMessage
  <2>1. w = WithMessage(x, f)
    BY <1>4 DEF Handled, OfMessage
  <2> QED BY <1>4, <2>1, WithMessageIs
<1> QED BY <1>1, <1>2, <1>3, <1>4, KnownFrames DEF OfMessage

\* A frame arrives that was written before the subscription's queue was read.
LEMMA PairBoot ==
  ASSUME NEW n \in 0..MaxMessages, NEW x, NEW y \in SubAt(n), NEW z, NEW s, NEW rows,
         NEW l, NEW w, Quiet(y), y.boot # <<>>, Takes(x, Head(y.boot), w),
         z.stage = y.stage, z.done = y.done, z.left = y.left, z.boot = Tail(y.boot),
         z.out = y.out, z.cursor = y.cursor, z.inbox = y.inbox,
         Pair(x, y, s, rows, n, l)
  PROVE  Pair(w, z, s, rows, n, l)
<1>1. PICK b \in Seq(Known(n)) : b = y.boot
  BY SubFields
<1>2. PICK f \in Known(n) : f = Head(b)
  BY <1>1, Shifted
<1>3. PICK c : c = Tail(b)
  OBVIOUS
<1>4. Started(y) /\ (Serving(z) => Serving(y))
  BY DEF Quiet, Serving
<1>5. Linked(w, z) /\ Agrees(w, z)
  <2>1. Linked(x, y) /\ Agrees(x, y)
    BY DEF Pair
  <2> QED BY <1>4, <2>1 DEF Linked, Agrees, Started, Takes
<1>6. Covers(w, z, rows, n, l)
  <2>1. ASSUME Serving(z), NEW m \in Newest(n)
        PROVE  \/ w.shown[m] # "none"
               \/ Has(z.out, m)
               \/ Coming(l) /\ m = n
               \/ w.history = "answered" /\ m \in rows
               \/ Asks(w) \/ Greets(z.boot)
    <3>1. \/ x.shown[m] # "none"
          \/ Has(y.out, m)
          \/ Coming(l) /\ m = n
          \/ x.history = "answered" /\ m \in rows
          \/ Asks(x) \/ Greets(b)
      BY <1>1, <1>4, <2>1 DEF Pair, Covers
    <3>2. Greets(b) => Greets(c) \/ f.type = "identity"
      BY <1>1, <1>2, <1>3, TailKeeps
    <3>3. m \in Messages
      BY NewestKnown
    <3> QED BY <1>1, <1>2, <1>3, <3>1, <3>2, <3>3 DEF Takes
  <2> QED BY <2>1 DEF Covers
<1>7. Says(w, z, s, n, l)
  <2>1. PICK u : u = UnreadOf(n, y.cursor)
    OBVIOUS
  <2>2. ASSUME Serving(z)
        PROVE  /\ z.stage = "bootstrap" => Silent(z.out)
               /\ z.stage = "live" /\ ~Awaits(l, s) =>
                    \/ Tells(z.out, n, u)
                    \/ /\ Silent(z.out)
                       /\ Tells(z.boot, n, u) \/ (Silent(z.boot) /\ Knows(w, n, u))
    <3>1. /\ y.stage = "bootstrap" => Silent(y.out)
          /\ y.stage = "live" /\ ~Awaits(l, s) =>
               \/ Tells(y.out, n, u)
               \/ /\ Silent(y.out)
                  /\ Tells(b, n, u) \/ (Silent(b) /\ Knows(x, n, u))
      BY <1>1, <1>4, <2>1, <2>2 DEF Pair, Says
    <3>2. Tells(b, n, u) =>
            \/ Tells(c, n, u)
            \/ Silent(c) /\ f.type \in Rooms /\ f.latest = n /\ f.unread = u
      BY <1>1, <1>2, <1>3, TailTells
    <3>3. Silent(b) => Silent(c) /\ f.type \notin Rooms
      BY <1>1, <1>2, <1>3, TailTells
    <3>4. f.type \in Rooms /\ f.latest = n /\ f.unread = u => Knows(w, n, u)
      BY <1>1, <1>2 DEF Takes
    <3>5. f.type \notin Rooms /\ Knows(x, n, u) => Knows(w, n, u)
      BY <1>1, <1>2 DEF Takes, Knows
    <3> QED BY <1>1, <1>3, <3>1, <3>2, <3>3, <3>4, <3>5
  <2> QED BY <2>1, <2>2 DEF Says
<1> QED BY <1>5, <1>6, <1>7 DEF Pair

\* A frame arrives from the subscription's queue.
LEMMA PairOut ==
  ASSUME NEW n \in 0..MaxMessages, NEW x, NEW y \in SubAt(n), NEW z, NEW s, NEW rows,
         NEW l, NEW w, y.stage = "live", y.boot = <<>>, y.out # <<>>,
         Takes(x, Head(y.out), w),
         z.stage = y.stage, z.done = y.done, z.left = y.left, z.boot = y.boot,
         z.out = Tail(y.out), z.cursor = y.cursor, z.inbox = y.inbox,
         Pair(x, y, s, rows, n, l)
  PROVE  Pair(w, z, s, rows, n, l)
<1>1. PICK o \in Seq(Known(n)) : o = y.out
  BY SubFields
<1>2. PICK f \in Known(n) : f = Head(o)
  BY <1>1, Shifted
<1>3. PICK c : c = Tail(o)
  OBVIOUS
<1>4. Serving(z) => Serving(y)
  BY DEF Serving
<1>5. Linked(w, z) /\ Agrees(w, z)
  <2>1. Linked(x, y) /\ Agrees(x, y)
    BY DEF Pair
  <2> QED BY <2>1 DEF Linked, Agrees, Started, Takes
<1>6. Covers(w, z, rows, n, l)
  <2>1. ASSUME Serving(z), NEW m \in Newest(n)
        PROVE  \/ w.shown[m] # "none"
               \/ Has(z.out, m)
               \/ Coming(l) /\ m = n
               \/ w.history = "answered" /\ m \in rows
               \/ Asks(w) \/ Greets(z.boot)
    <3>1. \/ x.shown[m] # "none"
          \/ Has(o, m)
          \/ Coming(l) /\ m = n
          \/ x.history = "answered" /\ m \in rows
          \/ Asks(x)
      BY <1>1, <1>4, <2>1, EmptyQueue DEF Pair, Covers
    <3>2. Has(o, m) => Has(c, m) \/ (f.type = "message" /\ f.id = m)
      BY <1>1, <1>2, <1>3, TailKeeps
    <3>3. m \in Messages
      BY NewestKnown
    <3> QED BY <1>1, <1>2, <1>3, <3>1, <3>2, <3>3 DEF Takes
  <2> QED BY <2>1 DEF Covers
<1>7. Says(w, z, s, n, l)
  <2>1. PICK u : u = UnreadOf(n, y.cursor)
    OBVIOUS
  <2>2. ASSUME Serving(z), ~Awaits(l, s)
        PROVE  \/ Tells(z.out, n, u)
               \/ Silent(z.out) /\ Silent(z.boot) /\ Knows(w, n, u)
    <3>1. \/ Tells(o, n, u)
          \/ Silent(o) /\ Knows(x, n, u)
      BY <1>1, <1>4, <2>1, <2>2, EmptyQueue DEF Pair, Says
    <3>2. Tells(o, n, u) =>
            \/ Tells(c, n, u)
            \/ Silent(c) /\ f.type \in Rooms /\ f.latest = n /\ f.unread = u
      BY <1>1, <1>2, <1>3, TailTells
    <3>3. Silent(o) => Silent(c) /\ f.type \notin Rooms
      BY <1>1, <1>2, <1>3, TailTells
    <3>4. f.type \in Rooms /\ f.latest = n /\ f.unread = u => Knows(w, n, u)
      BY <1>1, <1>2 DEF Takes
    <3>5. f.type \notin Rooms /\ Knows(x, n, u) => Knows(w, n, u)
      BY <1>1, <1>2 DEF Takes, Knows
    <3> QED BY <1>1, <1>3, <3>1, <3>2, <3>3, <3>4, <3>5, EmptyQueue
  <2> QED BY <2>1, <2>2 DEF Says
<1> QED BY <1>5, <1>6, <1>7 DEF Pair

\* A subscription is closed.
LEMMA PairCloses ==
  ASSUME NEW n, NEW x, NEW y, NEW z, NEW s, NEW rows, NEW l, z.done,
         z.stage = y.stage, z.left = y.left, z.cursor = y.cursor, z.inbox = y.inbox,
         Pair(x, y, s, rows, n, l)
  PROVE  Pair(x, z, s, rows, n, l)
<1>1. ~Serving(z)
  BY DEF Serving
<1>2. Linked(x, z) /\ Agrees(x, z)
  BY DEF Pair, Linked, Agrees, Started
<1> QED BY <1>1, <1>2 DEF Pair, Covers, Says

\* A page opens a connection.
LEMMA PairOpens ==
  ASSUME NEW n, NEW x, NEW y, NEW s, NEW rows, NEW l, ~x.verified,
         y.stage = "opening", ~y.left, y.inbox = {}, x.cursor \in Nat, y.cursor = x.cursor
  PROVE  Pair(x, y, s, rows, n, l)
<1>1. ~Serving(y)
  BY DEF Serving
<1>2. Linked(x, y) /\ Agrees(x, y)
  BY DEF Linked, Agrees
<1> QED BY <1>1, <1>2 DEF Pair, Covers, Says

\* The user reads on.
LEMMA PairReads ==
  ASSUME NEW n \in 0..MaxMessages, NEW x \in PageAt(n), NEW y \in SubAt(n), NEW s,
         NEW rows, NEW l, NEW w, NEW m \in Messages, m > x.cursor,
         w.cursor = m, w.reads = m, w.verified = x.verified, w.shown = x.shown,
         w.history = x.history, w.again = x.again, w.error = x.error,
         w.latest = x.latest, w.unread = IF x.latest <= m THEN 0 ELSE x.unread,
         Pair(x, y, s, rows, n, l)
  PROVE  Pair(w, y, s, rows, n, l)
<1>1. x.cursor \in Nat /\ m \in Nat /\ y.cursor \in Nat /\ \A c \in y.inbox : c \in Nat
  BY PageFields, SubFields, Constants DEF Messages
<1>2. Linked(x, y) /\ Agrees(x, y) /\ Covers(x, y, rows, n, l) /\ Says(x, y, s, n, l)
  BY DEF Pair
<1>3. Linked(w, y)
  BY <1>2 DEF Linked
<1>4. Agrees(w, y)
  BY <1>1, <1>2 DEF Agrees
<1>5. Covers(w, y, rows, n, l)
  BY <1>2 DEF Covers, Asks
<1>6. ASSUME NEW u, Knows(x, n, u) PROVE Knows(w, n, u)
  <2>1. x.latest = n /\ n \in Nat /\ (x.unread = IF n <= x.cursor THEN 0 ELSE u)
    BY <1>6, Constants DEF Knows
  <2>2. CASE n <= m
    BY <1>1, <2>1, <2>2 DEF Knows
  <2>3. CASE ~(n <= m)
    <3>1. ~(n <= x.cursor)
      BY <1>1, <2>1, <2>3
    <3> QED BY <2>1, <2>3, <3>1 DEF Knows
  <2> QED BY <2>2, <2>3
<1>7. Says(w, y, s, n, l)
  BY <1>2, <1>6 DEF Says
<1> QED BY <1>3, <1>4, <1>5, <1>7 DEF Pair

\* What was read goes to the server.
LEMMA PairFlushes ==
  ASSUME NEW n, NEW x \in PageAt(n), NEW y, NEW s, NEW rows, NEW l, NEW w, NEW z,
         w.reads = 0, w.cursor = x.cursor, w.verified = x.verified, w.shown = x.shown,
         w.history = x.history, w.again = x.again, w.error = x.error,
         w.latest = x.latest, w.unread = x.unread,
         IF y.stage = "gone" THEN z = y
         ELSE /\ z.stage = y.stage /\ z.done = y.done /\ z.left = y.left
              /\ z.boot = y.boot /\ z.out = y.out /\ z.cursor = y.cursor
              /\ z.inbox = y.inbox \cup {x.reads},
         Pair(x, y, s, rows, n, l)
  PROVE  Pair(w, z, s, rows, n, l)
<1>1. /\ z.stage = y.stage /\ z.done = y.done /\ z.left = y.left /\ z.boot = y.boot
      /\ z.out = y.out /\ z.cursor = y.cursor
  OBVIOUS
<1>2. Linked(x, y) /\ Agrees(x, y) /\ Covers(x, y, rows, n, l) /\ Says(x, y, s, n, l)
  BY DEF Pair
<1>3. Linked(w, z)
  BY <1>1, <1>2 DEF Linked, Started
<1>4. Agrees(w, z)
  <2>1. x.reads <= x.cursor
    BY PageFields
  <2> QED BY <1>1, <1>2, <2>1 DEF Agrees
<1>5. Covers(w, z, rows, n, l)
  BY <1>1, <1>2 DEF Covers, Asks, Serving
<1>6. Says(w, z, s, n, l)
  BY <1>1, <1>2 DEF Says, Knows, Serving
<1> QED BY <1>3, <1>4, <1>5, <1>6 DEF Pair

\* The server moves its cursor and reports the room's state.
LEMMA PairMarks ==
  ASSUME NEW n \in 0..MaxMessages, NEW x \in PageAt(n), NEW y \in SubAt(n), NEW z, NEW s,
         NEW rows, NEW l, NEW m \in y.inbox, NEW v, v = Larger(m, y.cursor),
         NEW q \in SubAt(n), q.stage = y.stage, q.done = y.done, q.left = y.left,
         q.boot = y.boot, q.out = y.out, q.inbox = y.inbox \ {m},
         y.stage # "bootstrap", Refreshes(q, z, n, v), Pair(x, y, s, rows, n, l)
  PROVE  Pair(x, z, s, rows, n, l)
<1>1. y.cursor \in Nat /\ m \in Nat /\ x.cursor \in Nat
  BY SubFields, PageFields, Constants
<1>2. Linked(x, y) /\ Agrees(x, y) /\ Covers(x, y, rows, n, l)
  BY DEF Pair
<1>3. z.stage = y.stage /\ z.cursor = v /\ z.inbox = y.inbox \ {m}
  BY DEF Refreshes
<1>4. v \in {m, y.cursor} /\ v >= m /\ v >= y.cursor
  BY <1>1 DEF Larger
<1>5. Agrees(x, z)
  <2>1. ASSUME y.stage # "gone"
        PROVE  /\ y.cursor <= x.cursor /\ \A c \in y.inbox : c <= x.cursor
               /\ x.cursor \in {y.cursor, x.reads} \cup y.inbox
    BY <1>2, <2>1 DEF Agrees
  <2>2. ASSUME y.stage # "gone" PROVE v <= x.cursor
    BY <1>4, <2>1, <2>2
  <2>3. ASSUME y.stage # "gone" PROVE x.cursor \in {v, x.reads} \cup (y.inbox \ {m})
    <3>1. x.cursor = y.cursor \/ x.cursor = m => x.cursor = v
      BY <1>1, <1>4, <2>2, <2>3
    <3> QED BY <2>1, <2>3, <3>1
  <2> QED BY <1>3, <2>1, <2>2, <2>3 DEF Agrees
<1>6. Linked(x, q) /\ Covers(x, q, rows, n, l)
  BY <1>2 DEF Linked, Covers, Serving, Started
<1> QED BY <1>5, <1>6, PairRefreshes

-----------------------------------------------------------------------------
(* Steps.                                                                  *)

LEMMA SubFacts ==
  ASSUME FeedIndInv, NEW s \in Subs
  PROVE  /\ sub[s] \in SubAt(stored) /\ Len(sub[s].out) <= QueueSize /\ Quiet(sub[s])
         /\ s \in loop.todo => Started(sub[s])
  BY DEF FeedIndInv, DataInv, SocketInv

LEMMA PageFacts ==
  ASSUME FeedIndInv, NEW p \in Pages
  PROVE  /\ page[p] \in PageAt(stored)
         /\ reply[p].rows \in SUBSET (1..stored) /\ reply[p].todo \in SUBSET (1..stored)
         /\ page[p].socket \in {0} \cup Subs
         /\ page[p].socket # 0 =>
              /\ page[p].socket \in Subs
              /\ Pair(page[p], sub[page[p].socket], page[p].socket, reply[p].rows,
                      stored, loop)
<1>1. page[p] \in PageAt(stored)
  BY DEF FeedIndInv, DataInv
<1>2. reply[p] \in ReplyAt(stored)
  BY DEF FeedIndInv, DataInv
<1>3. reply[p].rows \in SUBSET (1..stored) /\ reply[p].todo \in SUBSET (1..stored)
  BY <1>2 DEF ReplyAt
<1>4. page[p].socket \in {0} \cup Subs
  BY <1>1, PageFields
<1>5. page[p].socket # 0 =>
        Pair(page[p], sub[page[p].socket], page[p].socket, reply[p].rows, stored, loop)
  BY DEF FeedIndInv, PairInv
<1> QED BY <1>1, <1>3, <1>4, <1>5

LEMMA StoredIs == ASSUME FeedIndInv
                  PROVE stored \in 0..MaxMessages /\ stored \in Nat
  BY StoredType DEF FeedIndInv

\* A step that takes nothing back.
Onward ==
  /\ \A p \in Pages : KeepsPage(page[p], page'[p])
  /\ \A s \in Subs : KeepsSub(sub[s], sub'[s])

LEMMA SameCursor ==
  ASSUME NEW n, NEW y \in SubAt(n), NEW z, z.cursor = y.cursor
  PROVE  KeepsSub(y, z)
<1>1. y.cursor \in 0..n
  BY SubFields
<1> QED BY <1>1 DEF KeepsSub

LEMMA SameShown ==
  ASSUME NEW n, NEW x \in PageAt(n), NEW w, w.cursor = x.cursor, w.shown = x.shown
  PROVE  KeepsPage(x, w)
<1>1. x.cursor \in 0..MaxMessages
  BY PageFields
<1> QED BY <1>1 DEF KeepsPage

LEMMA SelfKept ==
  ASSUME FeedIndInv
  PROVE  /\ \A p \in Pages : KeepsPage(page[p], page[p])
         /\ \A s \in Subs : KeepsSub(sub[s], sub[s])
  BY PageFacts, SubFacts, SameCursor, SameShown

\* No connection is used anew, and pages keep theirs or leave it.
LEMMA SocketsKeep ==
  ASSUME SocketInv,
         \A s \in Subs : /\ sub'[s].stage = "unused" <=> sub[s].stage = "unused"
                         /\ Quiet(sub'[s])
                         /\ s \in loop'.todo => Started(sub'[s]),
         \A p \in Pages : page'[p].socket \in {0, page[p].socket}
  PROVE  SocketInv'
<1>1. PICK n \in 0..MaxSubs : UsedSubs = 1..n
  BY DEF SocketInv
<1>2. UsedSubs' = UsedSubs
  BY DEF UsedSubs
<1>3. \E k \in 0..MaxSubs : UsedSubs' = 1..k
  BY <1>1, <1>2
<1>4. \A s \in Subs : (Quiet(sub[s]))' /\ (s \in loop.todo => Started(sub[s]))'
  OBVIOUS
<1>5. \A p, q \in Pages :
        page'[p].socket # 0 /\ page'[p].socket = page'[q].socket => p = q
  BY DEF SocketInv
<1> QED BY <1>3, <1>4, <1>5 DEF SocketInv

\* A step of one subscription, and of the loop that waits for it.
LEMMA OneSub ==
  ASSUME FeedIndInv, NEW s \in Subs, NEW z \in SubAt(stored), Len(z.out) <= QueueSize,
         Quiet(z), z.stage = "unused" <=> sub[s].stage = "unused",
         Started(sub[s]) => Started(z), KeepsSub(sub[s], z),
         sub' = [sub EXCEPT ![s] = z],
         stored' = stored, page' = page, reply' = reply, queued' = queued,
         waiting' = waiting,
         loop' \in Loop, loop'.stage = loop.stage, loop'.todo \subseteq loop.todo,
         \A t \in Subs : t # s /\ t \in loop.todo => t \in loop'.todo,
         \A p \in Pages : page[p].socket = s =>
           Pair(page[p], z, s, reply[p].rows, stored, loop')
  PROVE  FeedIndInv' /\ Onward
<1>1. sub \in [Subs -> SubAt(stored)]
  BY DEF FeedIndInv, DataInv
<1>2. sub'[s] = z /\ \A t \in Subs : t # s => sub'[t] = sub[t]
  BY <1>1
<1>3. sub' \in [Subs -> SubAt(stored)]
  BY <1>1
<1>4. \A t \in Subs : Len(sub'[t].out) <= QueueSize
  BY <1>2 DEF FeedIndInv, DataInv
<1>5. DataInv'
  BY <1>3, <1>4 DEF FeedIndInv, DataInv
<1>6. SocketInv'
  <2>1. \A t \in Subs : /\ sub'[t].stage = "unused" <=> sub[t].stage = "unused"
                        /\ Quiet(sub'[t])
                        /\ t \in loop'.todo => Started(sub'[t])
    BY <1>2, SubFacts
  <2>2. \A p \in Pages : page'[p].socket \in {0, page[p].socket}
    OBVIOUS
  <2> QED BY <2>1, <2>2, SocketsKeep DEF FeedIndInv
<1>7. PairInv'
  <2>1. ASSUME NEW p \in Pages, page[p].socket # 0
        PROVE  Pair(page[p], sub'[page[p].socket], page[p].socket, reply[p].rows,
                    stored, loop')
    <3>1. CASE page[p].socket = s
      BY <1>2, <3>1
    <3>2. CASE page[p].socket # s
      <4>1. PICK t \in Subs : t = page[p].socket
        BY <2>1, PageFacts
      <4>2. Pair(page[p], sub[t], t, reply[p].rows, stored, loop)
        BY <2>1, <4>1, PageFacts
      <4>3. Coming(loop) => Coming(loop')
        BY DEF Coming
      <4>4. Awaits(loop, t) => Awaits(loop', t)
        BY <3>2, <4>1 DEF Awaits
      <4>5. Pair(page[p], sub[t], t, reply[p].rows, stored, loop')
        BY <4>2, <4>3, <4>4, PairWaits
      <4> QED BY <1>2, <3>2, <4>1, <4>5
    <3> QED BY <3>1, <3>2
  <2> QED BY <2>1 DEF PairInv
<1>8. Onward
  BY <1>2, SelfKept DEF Onward
<1> QED BY <1>5, <1>6, <1>7, <1>8 DEF FeedIndInv

\* A step of one page, and of its connection.
LEMMA OnePage ==
  ASSUME FeedIndInv, NEW p \in Pages, NEW w \in PageAt(stored), NEW r \in ReplyAt(stored),
         page' = [page EXCEPT ![p] = w], reply' = [reply EXCEPT ![p] = r],
         stored' = stored, loop' = loop, queued' = queued, waiting' = waiting,
         sub' \in [Subs -> SubAt(stored)],
         \A t \in Subs : /\ Len(sub'[t].out) <= QueueSize
                         /\ Quiet(sub'[t])
                         /\ sub'[t].stage = sub[t].stage
                         /\ t # page[p].socket => sub'[t] = sub[t],
         KeepsPage(page[p], w), \A t \in Subs : KeepsSub(sub[t], sub'[t]),
         w.socket \in {0, page[p].socket},
         w.socket # 0 => Pair(w, sub'[w.socket], w.socket, r.rows, stored, loop)
  PROVE  FeedIndInv' /\ Onward
<1>1. page \in [Pages -> PageAt(stored)] /\ reply \in [Pages -> ReplyAt(stored)]
  BY DEF FeedIndInv, DataInv
<1>2. /\ page'[p] = w /\ \A q \in Pages : q # p => page'[q] = page[q]
      /\ reply'[p] = r /\ \A q \in Pages : q # p => reply'[q] = reply[q]
  BY <1>1
<1>3. page' \in [Pages -> PageAt(stored)] /\ reply' \in [Pages -> ReplyAt(stored)]
  BY <1>1
<1>4. \A t \in Subs : Len(sub'[t].out) <= QueueSize
  OBVIOUS
<1>5. DataInv'
  BY <1>3, <1>4 DEF FeedIndInv, DataInv
<1>6. SocketInv'
  <2>1. \A t \in Subs : /\ sub'[t].stage = "unused" <=> sub[t].stage = "unused"
                        /\ Quiet(sub'[t])
                        /\ t \in loop'.todo => Started(sub'[t])
    BY SubFacts DEF Started
  <2>2. \A q \in Pages : page'[q].socket \in {0, page[q].socket}
    BY <1>2
  <2> QED BY <2>1, <2>2, SocketsKeep DEF FeedIndInv
<1>7. PairInv'
  <2>1. ASSUME NEW q \in Pages, page'[q].socket # 0
        PROVE  Pair(page'[q], sub'[page'[q].socket], page'[q].socket, reply'[q].rows,
                    stored, loop)
    <3>1. CASE q = p
      BY <1>2, <2>1, <3>1
    <3>2. CASE q # p
      <4>1. page'[q] = page[q] /\ reply'[q] = reply[q]
        BY <1>2, <3>2
      <4>2. PICK t \in Subs : t = page[q].socket
        BY <2>1, <4>1, PageFacts
      <4>3. t # page[p].socket
        BY <2>1, <3>2, <4>1, <4>2 DEF FeedIndInv, SocketInv
      <4>4. Pair(page[q], sub[t], t, reply[q].rows, stored, loop)
        BY <2>1, <4>1, <4>2, PageFacts
      <4> QED BY <4>1, <4>2, <4>3, <4>4
    <3> QED BY <3>1, <3>2
  <2> QED BY <2>1 DEF PairInv
<1>8. Onward
  BY <1>2, SelfKept DEF Onward
<1> QED BY <1>5, <1>6, <1>7, <1>8 DEF FeedIndInv

\* A step of a page alone.
LEMMA PageAlone ==
  ASSUME FeedIndInv, NEW p \in Pages, NEW w \in PageAt(stored), NEW r \in ReplyAt(stored),
         page' = [page EXCEPT ![p] = w], reply' = [reply EXCEPT ![p] = r],
         stored' = stored, loop' = loop, queued' = queued, waiting' = waiting, sub' = sub,
         w.socket = page[p].socket, KeepsPage(page[p], w),
         w.socket # 0 => Pair(w, sub[w.socket], w.socket, r.rows, stored, loop)
  PROVE  FeedIndInv' /\ Onward
<1>1. sub' \in [Subs -> SubAt(stored)]
  BY DEF FeedIndInv, DataInv
<1>2. \A t \in Subs : /\ Len(sub'[t].out) <= QueueSize
                      /\ Quiet(sub'[t])
                      /\ sub'[t].stage = sub[t].stage
                      /\ t # page[p].socket => sub'[t] = sub[t]
  BY SubFacts
<1>3. \A t \in Subs : KeepsSub(sub[t], sub'[t])
  BY SelfKept
<1> QED BY <1>1, <1>2, <1>3, OnePage

-----------------------------------------------------------------------------
(* Steps of a connection.                                                  *)

LEMMA RefreshKeeps == ASSUME FeedIndInv, NEW s \in Subs, Refresh(s) PROVE FeedIndInv' /\ Onward
<1>1. PICK y \in SubAt(stored) : y = sub[s]
  BY SubFacts
<1>2. Len(y.out) <= QueueSize /\ Quiet(y) /\ Started(y)
  BY <1>1, SubFacts DEF Refresh
<1>3. y.cursor \in 0..stored /\ y.stage # "bootstrap"
  BY <1>1, SubFields DEF Refresh, Unlocked
<1>4. loop \in Loop
  BY DEF FeedIndInv, DataInv
<1>5. /\ loop' \in Loop /\ loop'.stage = loop.stage /\ loop'.todo \subseteq loop.todo
      /\ \A t \in Subs : t # s /\ t \in loop.todo => t \in loop'.todo
  BY <1>4 DEF Refresh, Loop
<1>6. Coming(loop) => Coming(loop')
  BY <1>5 DEF Coming
<1>7. CASE sub' = [sub EXCEPT ![s] = Refreshed(sub[s], sub[s].cursor)]
  <2>1. PICK z : z = Refreshed(y, y.cursor)
    OBVIOUS
  <2>2. z \in SubAt(stored) /\ Len(z.out) <= QueueSize /\ Refreshes(y, z, stored, y.cursor)
    BY <1>2, <1>3, <2>1, StoredIs, RefreshedIs
  <2>3. z.stage = y.stage /\ z.cursor = y.cursor /\ z.inbox = y.inbox
    BY <2>2 DEF Refreshes
  <2>4. Started(z) /\ Quiet(z) /\ (z.stage = "unused" <=> y.stage = "unused")
    BY <1>2, <2>3 DEF Started, Quiet
  <2>5. ASSUME NEW p \in Pages, page[p].socket = s
        PROVE  Pair(page[p], z, s, reply[p].rows, stored, loop')
    <3>1. Pair(page[p], y, s, reply[p].rows, stored, loop)
      BY <1>1, <2>5, PageFacts DEF Subs
    <3>2. /\ Linked(page[p], y) /\ Covers(page[p], y, reply[p].rows, stored, loop)
          /\ Agrees(page[p], y)
      BY <3>1 DEF Pair
    <3>3. Agrees(page[p], z)
      BY <2>3, <3>2 DEF Agrees
    <3> QED BY <1>3, <1>6, <2>2, <3>2, <3>3, StoredIs, PairRefreshes
  <2>6. sub' = [sub EXCEPT ![s] = z]
    BY <1>1, <1>7, <2>1
  <2>7. KeepsSub(y, z)
    BY <2>3, SameCursor
  <2> QED BY <1>1, <1>2, <1>5, <2>2, <2>4, <2>5, <2>6, <2>7, OneSub DEF Refresh
<1>8. CASE sub' = [sub EXCEPT ![s].done = TRUE]
  <2>1. PICK z : z = [y EXCEPT !.done = TRUE]
    OBVIOUS
  <2>2. /\ z \in SubAt(stored) /\ z.out = y.out /\ z.done /\ z.stage = y.stage
        /\ z.left = y.left /\ z.boot = y.boot /\ z.cursor = y.cursor /\ z.inbox = y.inbox
    BY <2>1 DEF SubAt
  <2>3. Started(z) /\ Quiet(z) /\ (z.stage = "unused" <=> y.stage = "unused")
    BY <1>2, <2>2 DEF Started, Quiet
  <2>4. ASSUME NEW p \in Pages, page[p].socket = s
        PROVE  Pair(page[p], z, s, reply[p].rows, stored, loop')
    <3>1. Pair(page[p], y, s, reply[p].rows, stored, loop)
      BY <1>1, <2>4, PageFacts DEF Subs
    <3>2. Pair(page[p], z, s, reply[p].rows, stored, loop)
      BY <2>2, <3>1, PairCloses
    <3>3. ~Serving(z)
      BY <2>2 DEF Serving
    <3> QED BY <1>6, <3>2, <3>3, PairWaits
  <2>5. sub' = [sub EXCEPT ![s] = z]
    BY <1>1, <1>8, <2>1
  <2>6. KeepsSub(y, z)
    BY <2>2, SameCursor
  <2> QED BY <1>1, <1>2, <1>5, <2>2, <2>3, <2>4, <2>5, <2>6, OneSub DEF Refresh
<1> QED BY <1>7, <1>8 DEF Refresh

\* A step of one subscription alone.
LEMMA SubAlone ==
  ASSUME FeedIndInv, NEW s \in Subs, NEW z \in SubAt(stored), Len(z.out) <= QueueSize,
         Quiet(z), z.stage # "unused", sub[s].stage # "unused",
         Started(sub[s]) => Started(z), KeepsSub(sub[s], z),
         sub' = [sub EXCEPT ![s] = z],
         UNCHANGED <<stored, loop, page, reply, queued, waiting>>,
         \A p \in Pages : page[p].socket = s =>
           Pair(page[p], z, s, reply[p].rows, stored, loop)
  PROVE  FeedIndInv' /\ Onward
<1>1. loop' \in Loop /\ loop'.stage = loop.stage /\ loop'.todo = loop.todo
  BY DEF FeedIndInv, DataInv
<1>2. \A p \in Pages : page[p].socket = s =>
        Pair(page[p], z, s, reply[p].rows, stored, loop')
  OBVIOUS
<1> QED BY <1>1, <1>2, OneSub

LEMMA SubscribeKeeps == ASSUME FeedIndInv, NEW s \in Subs, Subscribe(s) PROVE FeedIndInv' /\ Onward
<1>1. PICK y \in SubAt(stored) : y = sub[s]
  BY SubFacts
<1>2. Len(y.out) <= QueueSize /\ Quiet(y) /\ y.stage = "opening"
  BY <1>1, SubFacts DEF Subscribe
<1>3. PICK b \in Seq(Known(stored)) : b = y.boot
  BY SubFields
<1>4. PICK c : c = IF y.left THEN <<>> ELSE Append(b, NewFrame)
  OBVIOUS
<1>5. c \in Seq(Known(stored))
  BY <1>4, StoredIs, NewFrameIs, Appended, Empty
<1>6. PICK z : z = [y EXCEPT !.boot = c, !.stage = "bootstrap"]
  OBVIOUS
<1>7. /\ z \in SubAt(stored) /\ z.stage = "bootstrap" /\ z.left = y.left /\ z.boot = c
      /\ z.out = y.out /\ z.cursor = y.cursor /\ z.inbox = y.inbox
  BY <1>5, <1>6 DEF SubAt
<1>8. Started(z) /\ Quiet(z) /\ ~Started(y)
  BY <1>2, <1>7 DEF Started, Quiet
<1>9. sub' = [sub EXCEPT ![s] = z]
  BY <1>1, <1>3, <1>4, <1>6 DEF Subscribe, Written, SubAt
<1>10. ASSUME NEW p \in Pages, page[p].socket = s
       PROVE  Pair(page[p], z, s, reply[p].rows, stored, loop)
  <2>1. Pair(page[p], y, s, reply[p].rows, stored, loop)
    BY <1>1, <1>10, PageFacts DEF Subs
  <2>2. ~y.left
    BY <2>1 DEF Pair, Linked
  <2>3. z.boot = Append(y.boot, NewFrame)
    BY <1>3, <1>4, <1>7, <2>2
  <2> QED BY <1>2, <1>7, <2>1, <2>3, StoredIs, PairGreets
<1>11. KeepsSub(y, z)
  BY <1>7, SameCursor
<1> QED BY <1>1, <1>2, <1>7, <1>8, <1>9, <1>10, <1>11, SubAlone DEF Subscribe

LEMMA SnapshotKeeps == ASSUME FeedIndInv, NEW s \in Subs, Snapshot(s) PROVE FeedIndInv' /\ Onward
<1>1. PICK y \in SubAt(stored) : y = sub[s]
  BY SubFacts
<1>2. Len(y.out) <= QueueSize /\ Quiet(y) /\ y.stage = "bootstrap"
  BY <1>1, SubFacts DEF Snapshot
<1>3. y.cursor \in 0..stored /\ y.cursor \in 0..MaxMessages
  BY SubFields, StoredIs, Constants
<1>4. Smaller(y.cursor, stored) = y.cursor
  BY <1>3, StoredIs DEF Smaller
<1>5. PICK f : f = RoomFrame("rooms", y.cursor)
  OBVIOUS
<1>6. /\ f \in Known(stored) /\ f.type = "rooms" /\ f.latest = stored
      /\ f.unread = UnreadOf(stored, y.cursor)
  BY <1>3, <1>5, StoredIs, RoomFrameIs, UnreadIs DEF Rooms
<1>7. PICK b \in Seq(Known(stored)) : b = y.boot
  BY SubFields
<1>8. PICK c : c = IF y.left THEN <<>> ELSE Append(b, f)
  OBVIOUS
<1>9. c \in Seq(Known(stored))
  BY <1>6, <1>7, <1>8, Appended, Empty
<1>10. PICK z : z = [y EXCEPT !.boot = c, !.stage = "live", !.cursor = y.cursor]
  OBVIOUS
<1>11. /\ z \in SubAt(stored) /\ z.stage = "live" /\ z.left = y.left /\ z.boot = c
       /\ z.out = y.out /\ z.cursor = y.cursor /\ z.inbox = y.inbox /\ z.done = y.done
  BY <1>9, <1>10 DEF SubAt
<1>12. Started(z) /\ Quiet(z)
  BY <1>11 DEF Started, Quiet
<1>13. sub' = [sub EXCEPT ![s] = z]
  BY <1>1, <1>4, <1>5, <1>7, <1>8, <1>10 DEF Snapshot, Written, SubAt
<1>14. ASSUME NEW p \in Pages, page[p].socket = s
       PROVE  Pair(page[p], z, s, reply[p].rows, stored, loop)
  <2>1. Pair(page[p], y, s, reply[p].rows, stored, loop)
    BY <1>1, <1>14, PageFacts DEF Subs
  <2>2. ~y.left
    BY <2>1 DEF Pair, Linked
  <2>3. z.boot = Append(y.boot, f)
    BY <1>7, <1>8, <1>11, <2>2
  <2> QED BY <1>2, <1>6, <1>11, <2>1, <2>3, StoredIs, PairSnapshot
<1>15. KeepsSub(y, z)
  BY <1>11, SameCursor
<1> QED BY <1>1, <1>2, <1>11, <1>12, <1>13, <1>14, <1>15, SubAlone DEF Snapshot

LEMMA DropKeeps == ASSUME FeedIndInv, NEW s \in Subs, Drop(s) PROVE FeedIndInv' /\ Onward
<1>1. PICK y \in SubAt(stored) : y = sub[s]
  BY SubFacts
<1>2. y.stage \in {"opening", "bootstrap", "live"}
  BY <1>1 DEF Drop
<1>3. PICK q \in Seq(Known(stored)) : q = y.boot \o y.out
  BY SubFields, ConcatProperties
<1>4. PICK n \in {0, Len(q)} :
        sub' = [sub EXCEPT ![s] = [sub[s] EXCEPT !.stage = "gone", !.inbox = {},
                                                 !.out = <<>>, !.boot = SubSeq(q, 1, n)]]
  BY <1>1, <1>3 DEF Drop
<1>5. PICK b : b = SubSeq(q, 1, n)
  OBVIOUS
<1>6. b \in Seq(Known(stored))
  <2>0. q \in Seq(Known(stored))
    BY <1>3
  <2>1. Len(q) \in Nat /\ \A i \in 1..Len(q) : q[i] \in Known(stored)
    BY <2>0, ElementOfSeq, LenProperties
  <2>2. n \in Int
    BY <1>4, <2>1
  <2>3. n <= Len(q)
    BY <1>4, <2>1
  <2>4. \A i \in 1..n : i \in 1..Len(q)
    BY <2>1, <2>2, <2>3
  <2> QED BY <1>5, <2>1, <2>2, <2>4, SubSeqProperties
<1>7. PICK z : z = [y EXCEPT !.stage = "gone", !.inbox = {}, !.out = <<>>, !.boot = b]
  OBVIOUS
<1>8. /\ z \in SubAt(stored) /\ z.stage = "gone" /\ z.left = y.left /\ z.out = <<>>
      /\ z.cursor = y.cursor
  BY <1>6, <1>7, Empty DEF SubAt
<1>9. Started(z) /\ Quiet(z) /\ Len(z.out) <= QueueSize
  BY <1>8, Empty, Constants DEF Started, Quiet
<1>10. sub' = [sub EXCEPT ![s] = z]
  BY <1>1, <1>4, <1>5, <1>7
<1>11. ASSUME NEW p \in Pages, page[p].socket = s
       PROVE  Pair(page[p], z, s, reply[p].rows, stored, loop)
  <2>1. Pair(page[p], y, s, reply[p].rows, stored, loop)
    BY <1>1, <1>11, PageFacts DEF Subs
  <2> QED BY <1>8, <2>1, PairEnds
<1>12. KeepsSub(y, z)
  BY <1>8, SameCursor
<1> QED BY <1>1, <1>2, <1>8, <1>9, <1>10, <1>11, <1>12, SubAlone DEF Drop

LEMMA MarkReadKeeps ==
  ASSUME FeedIndInv, NEW s \in Subs, NEW m \in Messages, MarkRead(s, m) PROVE FeedIndInv' /\ Onward
<1>1. PICK y \in SubAt(stored) : y = sub[s]
  BY SubFacts
<1>2. Len(y.out) <= QueueSize /\ Quiet(y) /\ y.stage # "bootstrap" /\ m \in y.inbox
  BY <1>1, SubFacts DEF MarkRead, Unlocked
<1>3. PICK v : v = Larger(m, y.cursor)
  OBVIOUS
<1>4. v \in 0..stored
  BY <1>2, <1>3, SubFields, StoredIs DEF Larger
<1>5. PICK q : q = [y EXCEPT !.inbox = y.inbox \ {m}]
  OBVIOUS
<1>6. /\ q \in SubAt(stored) /\ q.stage = y.stage /\ q.done = y.done /\ q.left = y.left
      /\ q.boot = y.boot /\ q.out = y.out /\ q.inbox = y.inbox \ {m}
  BY <1>5 DEF SubAt
<1>7. PICK z : z = Refreshed(q, v)
  OBVIOUS
<1>8. z \in SubAt(stored) /\ Len(z.out) <= QueueSize /\ Refreshes(q, z, stored, v)
  BY <1>2, <1>4, <1>6, <1>7, StoredIs, RefreshedIs
<1>9. Started(y) /\ y.stage # "unused"
  BY <1>2 DEF Quiet, Started
<1>10. Started(z) /\ Quiet(z) /\ z.stage # "unused"
  BY <1>6, <1>8, <1>9 DEF Refreshes, Started, Quiet
<1>11. sub' = [sub EXCEPT ![s] = z]
  BY <1>1, <1>3, <1>5, <1>7 DEF MarkRead, Marked
<1>12. ASSUME NEW p \in Pages, page[p].socket = s
       PROVE  Pair(page[p], z, s, reply[p].rows, stored, loop)
  <2>1. Pair(page[p], y, s, reply[p].rows, stored, loop)
    BY <1>1, <1>12, PageFacts DEF Subs
  <2>2. page[p] \in PageAt(stored)
    BY PageFacts
  <2> QED BY <1>2, <1>3, <1>6, <1>8, <2>1, <2>2, StoredIs, PairMarks
<1>13. KeepsSub(y, z)
  <2>1. y.cursor \in Nat /\ m \in Nat
    BY SubFields, StoredIs, Constants DEF Messages
  <2>2. z.cursor = v
    BY <1>8 DEF Refreshes
  <2> QED BY <1>3, <2>1, <2>2 DEF KeepsSub, Larger
<1> QED BY <1>1, <1>8, <1>9, <1>10, <1>11, <1>12, <1>13, SubAlone DEF MarkRead

-----------------------------------------------------------------------------
(* Steps of a page.                                                        *)

LEMMA SameReply == ASSUME FeedIndInv, NEW p \in Pages
                   PROVE  reply[p] \in ReplyAt(stored) /\ reply = [reply EXCEPT ![p] = reply[p]]
<1>1. reply \in [Pages -> ReplyAt(stored)]
  BY DEF FeedIndInv, DataInv
<1> QED BY <1>1

\* A page alone, with the answers that it had.
LEMMA PageOnly ==
  ASSUME FeedIndInv, NEW p \in Pages, NEW w \in PageAt(stored),
         page' = [page EXCEPT ![p] = w],
         UNCHANGED <<stored, loop, sub, reply, queued, waiting>>,
         w.socket = page[p].socket, KeepsPage(page[p], w),
         page[p].socket # 0 =>
           Pair(w, sub[page[p].socket], page[p].socket, reply[p].rows, stored, loop)
  PROVE  FeedIndInv' /\ Onward
<1>1. reply[p] \in ReplyAt(stored) /\ reply' = [reply EXCEPT ![p] = reply[p]]
  BY SameReply
<1> QED BY <1>1, PageAlone

LEMMA ServeKeeps == ASSUME FeedIndInv, NEW p \in Pages, Serve(p) PROVE FeedIndInv' /\ Onward
<1>1. PICK x \in PageAt(stored) : x = page[p]
  BY PageFacts
<1>2. PICK w : w = [x EXCEPT !.history = "answered"]
  OBVIOUS
<1>3. w \in PageAt(stored) /\ Still(x, w) /\ w.history = "answered" /\ w.shown = x.shown
  BY <1>2, AnsweredIs
<1>4. PICK r : r = [rows |-> Newest(stored),
                    todo |-> IF Translating THEN Newest(stored) ELSE {}]
  OBVIOUS
<1>5. r \in ReplyAt(stored) /\ r.rows = Newest(stored)
  BY <1>4, StoredIs, NewestKnown DEF ReplyAt
<1>6. page' = [page EXCEPT ![p] = w] /\ reply' = [reply EXCEPT ![p] = r]
  BY <1>1, <1>2, <1>4 DEF Serve, Newest
<1>7. w.socket = page[p].socket
  BY <1>1, <1>3 DEF Still
<1>8. w.socket # 0 => Pair(w, sub[w.socket], w.socket, r.rows, stored, loop)
  BY <1>1, <1>3, <1>5, <1>7, PageFacts, PairServes
<1>9. KeepsPage(x, w)
  BY <1>3, SameShown DEF Still
<1> QED BY <1>1, <1>3, <1>5, <1>6, <1>7, <1>8, <1>9, PageAlone DEF Serve

LEMMA MergeKeeps == ASSUME FeedIndInv, NEW p \in Pages, Merge(p) PROVE FeedIndInv' /\ Onward
<1>1. PICK x \in PageAt(stored) : x = page[p]
  BY PageFacts
<1>2. PICK rows \in SUBSET (1..stored) : rows = reply[p].rows
  BY PageFacts
<1>3. PICK v : v = Under(x, [m \in Messages |-> IF m \in rows THEN Merged(x.shown[m], Fresh)
                                                ELSE x.shown[m]])
  OBVIOUS
<1>4. PICK w : w = [x EXCEPT !.shown = v, !.history = "idle", !.again = FALSE,
                             !.known = TRUE, !.during = Nothing]
  OBVIOUS
<1>5. /\ w \in PageAt(stored) /\ Still(x, w) /\ w.error = x.error
      /\ \A m \in Messages : m \in rows \/ x.shown[m] # "none" => w.shown[m] # "none"
  <2>1. x \in Page
    BY DEF PageAt
  <2>2. /\ v \in [Messages -> States]
        /\ \A m \in Messages :
             /\ m \in rows \/ x.shown[m] # "none" => v[m] # "none"
             /\ v[m] # "none" => m \in rows \/ x.shown[m] # "none" \/ x.during[m] # "none"
    BY <1>3, <2>1, UnderIs
  <2>3. /\ w \in Page /\ Still(x, w) /\ w.error = x.error
        /\ w.shown = v /\ w.during = Nothing /\ w.again = FALSE
    <3>1. v \in [Messages -> States]
      BY <2>2
    <3>2. PICK d \in [Messages -> States] : d = Nothing
      BY NothingIs
    <3>3. w = [x EXCEPT !.shown = v, !.history = "idle", !.again = FALSE, !.known = TRUE,
                        !.during = d]
      BY <1>4, <3>2
    <3>4. w.shown = v /\ w.during = d /\ w.again = FALSE
      BY <2>1, <3>3 DEF Page
    <3>5. w.error = x.error /\ Still(x, w)
      BY <2>1, <3>3 DEF Page, Still
    <3>6. w \in Page
      BY <2>1, <3>1, <3>3, ZenonT(40) DEF Page
    <3> QED BY <3>2, <3>4, <3>5, <3>6
  <2>4. w \in PageAt(stored)
    <3>1. \A m \in Messages :
            w.shown[m] # "none" => m \in rows \/ x.shown[m] # "none" \/ x.during[m] # "none"
      BY <2>2, <2>3
    <3>2. w \in Page /\ Still(x, w) /\ w.during = Nothing /\ w.again = FALSE
      BY <2>3
    <3> QED BY <3>1, <3>2, StoredIs, MergeIs
  <2> QED BY <2>2, <2>3, <2>4
<1>6. x.history = "answered"
  BY <1>1 DEF Merge
<1>7. page' = [page EXCEPT ![p] = IF x.again THEN Asked(w) ELSE w]
  BY <1>1, <1>2, <1>3, <1>4 DEF Merge
<1>8. w.socket = page[p].socket
  BY <1>1, <1>5 DEF Still
<1>0. KeepsPage(x, w)
  <2>1. x.cursor \in Nat /\ w.cursor = x.cursor
    BY <1>5, PageFields, Constants DEF Still
  <2> QED BY <1>5, <2>1 DEF KeepsPage
<1>9. CASE x.again
  <2>1. PICK a : a = Asked(w)
    OBVIOUS
  <2>2. a \in PageAt(stored) /\ Still(w, a) /\ Asks(a) /\ a.shown = w.shown
    BY <1>5, <2>1, AskedIs
  <2>3. Still(x, a) /\ a.socket = page[p].socket
    BY <1>5, <1>8, <2>2 DEF Still
  <2>4. page[p].socket # 0 =>
          Pair(a, sub[page[p].socket], page[p].socket, rows, stored, loop)
    BY <1>1, <1>2, <2>2, <2>3, PageFacts, PairAsks
  <2>5. KeepsPage(x, a)
    BY <1>0, <2>2 DEF KeepsPage, Still
  <2> QED BY <1>1, <1>2, <1>7, <1>9, <2>1, <2>2, <2>3, <2>4, <2>5, PageOnly DEF Merge
<1>10. CASE ~x.again
  <2>1. page[p].socket # 0 =>
          Pair(w, sub[page[p].socket], page[p].socket, rows, stored, loop)
    <3>1. ASSUME page[p].socket # 0
          PROVE  Pair(x, sub[page[p].socket], page[p].socket, rows, stored, loop)
      BY <1>1, <1>2, <3>1, PageFacts
    <3> QED BY <1>5, <1>6, <1>10, <3>1, StoredIs, PairMerges
  <2> QED BY <1>0, <1>1, <1>2, <1>5, <1>7, <1>8, <1>10, <2>1, PageOnly DEF Merge
<1> QED BY <1>9, <1>10

LEMMA HistoryFailsKeeps ==
  ASSUME FeedIndInv, NEW p \in Pages, HistoryFails(p) PROVE FeedIndInv' /\ Onward
<1>1. PICK x \in PageAt(stored) : x = page[p]
  BY PageFacts
<1>2. PICK w : w = [x EXCEPT !.history = "idle", !.again = FALSE, !.error = TRUE,
                             !.during = Nothing]
  OBVIOUS
<1>3. w \in PageAt(stored) /\ Still(x, w) /\ Asks(w) /\ w.shown = x.shown
  BY <1>2, FailedIs
<1>4. page' = [page EXCEPT ![p] = w]
  BY <1>1, <1>2 DEF HistoryFails
<1>5. w.socket = page[p].socket
  BY <1>1, <1>3 DEF Still
<1>6. page[p].socket # 0 =>
        Pair(w, sub[page[p].socket], page[p].socket, reply[p].rows, stored, loop)
  BY <1>1, <1>3, PageFacts, PairAsks
<1>7. KeepsPage(x, w)
  BY <1>3, SameShown DEF Still
<1> QED BY <1>1, <1>3, <1>4, <1>5, <1>6, <1>7, PageOnly DEF HistoryFails

LEMMA RefreshPageKeeps ==
  ASSUME FeedIndInv, NEW p \in Pages, RefreshPage(p) PROVE FeedIndInv' /\ Onward
<1>1. PICK x \in PageAt(stored) : x = page[p]
  BY PageFacts
<1>2. x \in Page
  BY DEF PageAt
<1>3. PICK k : k = x.refreshes + 1
  OBVIOUS
<1>4. k \in 0..MaxRefreshes
  BY <1>1, <1>3, PageFields, Constants DEF RefreshPage
<1>5. PICK v : v = [x EXCEPT !.refreshes = k]
  OBVIOUS
<1>6. v.shown = x.shown /\ v.during = x.during /\ v.history = x.history /\ v.again = x.again
  BY <1>2, <1>5 DEF Page
<1>7. Still(x, v)
  BY <1>2, <1>5 DEF Page, Still
<1>8. v \in Page
  BY <1>2, <1>4, <1>5, ZenonT(40) DEF Page
<1>9. v \in PageAt(stored)
  BY <1>6, <1>7, <1>8, PageFields DEF PageAt, Still
<1>10. PICK w : w = Asked(v)
  OBVIOUS
<1>11. w \in PageAt(stored) /\ Still(v, w) /\ Asks(w) /\ w.shown = v.shown
  BY <1>9, <1>10, AskedIs
<1>12. Still(x, w) /\ w.socket = page[p].socket
  BY <1>1, <1>7, <1>11 DEF Still
<1>13. page' = [page EXCEPT ![p] = w]
  BY <1>1, <1>3, <1>5, <1>10 DEF RefreshPage
<1>14. page[p].socket # 0 =>
         Pair(w, sub[page[p].socket], page[p].socket, reply[p].rows, stored, loop)
  BY <1>1, <1>11, <1>12, PageFacts, PairAsks
<1>15. KeepsPage(x, w)
  BY <1>6, <1>11, <1>12, SameShown DEF Still
<1> QED BY <1>1, <1>11, <1>12, <1>13, <1>14, <1>15, PageOnly DEF RefreshPage

LEMMA ReadKeeps ==
  ASSUME FeedIndInv, NEW p \in Pages, NEW m \in Messages, Read(p, m) PROVE FeedIndInv' /\ Onward
<1>1. PICK x \in PageAt(stored) : x = page[p]
  BY PageFacts
<1>2. x \in Page
  BY DEF PageAt
<1>3. m <= stored /\ m > x.cursor /\ m \in 0..MaxMessages
  <2>1. x.shown[m] # "none" /\ m > x.cursor
    BY <1>1 DEF Read, Shown
  <2> QED BY <2>1, PageFields, Constants DEF Messages
<1>4. Larger(m, x.reads) = m
  <2>1. x.reads \in Nat /\ x.cursor \in Nat /\ x.reads <= x.cursor /\ m \in Nat
    BY PageFields, Constants DEF Messages
  <2> QED BY <1>3, <2>1 DEF Larger
<1>5. PICK u : u = IF x.latest <= m THEN 0 ELSE x.unread
  OBVIOUS
<1>6. u \in 0..MaxMessages
  BY <1>5, PageFields, Constants
<1>7. PICK w : w = [x EXCEPT !.cursor = m, !.reads = m, !.unread = u]
  OBVIOUS
<1>8. /\ w.shown = x.shown /\ w.during = x.during /\ w.history = x.history
      /\ w.again = x.again /\ w.error = x.error
  BY <1>2, <1>7 DEF Page
<1>9. /\ w.cursor = m /\ w.reads = m /\ w.unread = u /\ w.latest = x.latest
      /\ w.socket = x.socket
  BY <1>2, <1>7 DEF Page
<1>10. w.open = x.open /\ w.live = x.live /\ w.verified = x.verified
  BY <1>2, <1>7 DEF Page
<1>11. w \in Page
  BY <1>2, <1>3, <1>6, <1>7, ZenonT(40) DEF Page
<1>12. w \in PageAt(stored)
  BY <1>3, <1>8, <1>9, <1>10, <1>11, PageFields, Constants DEF PageAt
<1>13. page' = [page EXCEPT ![p] = w]
  BY <1>1, <1>4, <1>5, <1>7 DEF Read
<1>14. page[p].socket # 0 =>
         Pair(w, sub[page[p].socket], page[p].socket, reply[p].rows, stored, loop)
  <2>1. ASSUME page[p].socket # 0
        PROVE  /\ Pair(x, sub[page[p].socket], page[p].socket, reply[p].rows, stored, loop)
               /\ sub[page[p].socket] \in SubAt(stored)
    BY <1>1, <2>1, PageFacts, SubFacts
  <2> QED BY <1>3, <1>5, <1>8, <1>9, <1>10, <2>1, StoredIs, PairReads
<1>15. KeepsPage(x, w)
  <2>1. x.cursor \in Nat /\ m \in Nat
    BY PageFields, Constants DEF Messages
  <2> QED BY <1>3, <1>8, <1>9, <2>1 DEF KeepsPage
<1> QED BY <1>1, <1>9, <1>12, <1>13, <1>14, <1>15, PageOnly DEF Read

-----------------------------------------------------------------------------
(* Steps of a page and its connection.                                     *)

\* The next connection is one that nobody has used.
LEMMA NextIs ==
  ASSUME FeedIndInv, NextSub \in Subs
  PROVE  /\ NextSub - 1 \in 0..MaxSubs /\ NextSub \in 1..MaxSubs
         /\ UsedSubs = 1..(NextSub - 1) /\ NextSub # 0
         /\ sub[NextSub].stage = "unused"
         /\ \A p \in Pages : page[p].socket # NextSub
<1>1. PICK n \in 0..MaxSubs : UsedSubs = 1..n
  BY DEF FeedIndInv, SocketInv
<1>2. n \in Nat /\ Cardinality(1..n) = n
  BY FS_Interval, Constants
<1>3. NextSub = n + 1
  BY <1>1, <1>2 DEF NextSub
<1>4. NextSub \notin UsedSubs
  BY <1>1, <1>2, <1>3
<1>5. sub[NextSub].stage = "unused"
  BY <1>4 DEF UsedSubs
<1>6. ASSUME NEW p \in Pages, page[p].socket = NextSub PROVE FALSE
  <2>1. NextSub # 0
    BY <1>2, <1>3
  <2>2. Linked(page[p], sub[page[p].socket])
    BY <1>6, <2>1, PageFacts DEF Pair
  <2> QED BY <1>5, <1>6, <2>2 DEF Linked
<1> QED BY <1>1, <1>2, <1>3, <1>5, <1>6 DEF Subs

LEMMA OpeningKeeps ==
  ASSUME FeedIndInv, NEW p \in Pages, NEW x \in PageAt(stored), page[p].socket = 0,
         x.open, ~x.verified, KeepsPage(page[p], x), Opening(p, x),
         UNCHANGED <<stored, loop, reply, queued, waiting>>
  PROVE  FeedIndInv' /\ Onward
<1>1. PICK s \in Subs : s = NextSub
  BY DEF Opening
<1>2. /\ s - 1 \in 0..MaxSubs /\ s \in 1..MaxSubs /\ UsedSubs = 1..(s - 1) /\ s # 0
      /\ sub[s].stage = "unused" /\ \A q \in Pages : page[q].socket # s
  BY <1>1, NextIs
<1>3. PICK y \in SubAt(stored) : y = sub[s]
  BY SubFacts
<1>4. /\ Len(y.out) <= QueueSize /\ y.boot = <<>> /\ y.out = <<>> /\ y.inbox = {}
      /\ ~y.left
  BY <1>2, <1>3, SubFacts DEF Quiet, Started
<1>5. x.cursor \in 0..stored
  BY PageFields, StoredIs
<1>6. PICK z : z = [y EXCEPT !.stage = "opening", !.cursor = x.cursor]
  OBVIOUS
<1>7. /\ z \in SubAt(stored) /\ z.stage = "opening" /\ z.cursor = x.cursor
      /\ z.left = y.left /\ z.boot = y.boot /\ z.out = y.out /\ z.inbox = y.inbox
  BY <1>5, <1>6 DEF SubAt
<1>8. sub \in [Subs -> SubAt(stored)] /\ page \in [Pages -> PageAt(stored)]
  BY DEF FeedIndInv, DataInv
<1>9. sub' = [sub EXCEPT ![s] = z]
  BY <1>1, <1>3, <1>6, <1>8 DEF Opening
<1>10. /\ sub' \in [Subs -> SubAt(stored)] /\ sub'[s] = z
       /\ \A t \in Subs : t # s => sub'[t] = sub[t]
  BY <1>7, <1>8, <1>9
<1>11. PICK w : w = [x EXCEPT !.socket = s]
  OBVIOUS
<1>12. x \in Page
  BY DEF PageAt
<1>13. /\ w.shown = x.shown /\ w.during = x.during /\ w.history = x.history
       /\ w.again = x.again /\ w.error = x.error
  BY <1>11, <1>12 DEF Page
<1>14. /\ w.cursor = x.cursor /\ w.reads = x.reads /\ w.socket = s
       /\ w.open = x.open /\ w.verified = x.verified
  BY <1>11, <1>12 DEF Page
<1>15. w \in Page
  BY <1>11, <1>12, ZenonT(40) DEF Page
<1>16. w \in PageAt(stored)
  BY <1>2, <1>13, <1>14, <1>15, PageFields DEF PageAt
<1>17. page' = [page EXCEPT ![p] = w]
  BY <1>1, <1>11 DEF Opening
<1>18. /\ page' \in [Pages -> PageAt(stored)] /\ page'[p] = w
       /\ \A q \in Pages : q # p => page'[q] = page[q]
  BY <1>8, <1>16, <1>17
<1>19. DataInv'
  <2>1. \A t \in Subs : Len(sub'[t].out) <= QueueSize
    BY <1>4, <1>7, <1>10, SubFacts
  <2> QED BY <1>10, <1>18, <2>1 DEF FeedIndInv, DataInv
<1>20. SocketInv'
  <2>1. UsedSubs' = UsedSubs \cup {s}
    BY <1>7, <1>10 DEF UsedSubs
  <2>2. 1..s = (1..(s - 1)) \cup {s}
    BY <1>2
  <2>3. \E n \in 0..MaxSubs : UsedSubs' = 1..n
    <3>1. s \in 0..MaxSubs
      BY <1>2, Constants
    <3>2. UsedSubs' = 1..s
      BY <1>2, <2>1, <2>2
    <3> QED BY <3>1, <3>2
  <2>4. Quiet(z) /\ ~Started(y)
    BY <1>2, <1>3, <1>4, <1>7 DEF Quiet, Started
  <2>5. \A t \in Subs : (Quiet(sub[t]))' /\ (t \in loop.todo => Started(sub[t]))'
    <3>1. \A t \in Subs : Quiet(sub'[t]) /\ (t \in loop.todo => Started(sub'[t]))
      BY <1>3, <1>10, <2>4, SubFacts
    <3> QED BY <3>1
  <2>6. \A q, r \in Pages :
          page'[q].socket # 0 /\ page'[q].socket = page'[r].socket => q = r
    BY <1>2, <1>14, <1>18 DEF FeedIndInv, SocketInv
  <2> QED BY <2>3, <2>5, <2>6 DEF SocketInv
<1>21. PairInv'
  <2>1. ASSUME NEW q \in Pages, page'[q].socket # 0
        PROVE  Pair(page'[q], sub'[page'[q].socket], page'[q].socket, reply[q].rows,
                    stored, loop)
    <3>1. CASE q = p
      <4>1. x.cursor \in Nat
        BY <1>5
      <4>2. ~w.verified /\ w.cursor \in Nat /\ z.cursor = w.cursor /\ ~z.left /\ z.inbox = {}
        BY <1>4, <1>7, <1>14, <4>1
      <4>3. Pair(w, z, s, reply[q].rows, stored, loop)
        BY <1>7, <4>2, PairOpens
      <4> QED BY <1>10, <1>14, <1>18, <3>1, <4>3
    <3>2. CASE q # p
      <4>1. page'[q] = page[q]
        BY <1>18, <3>2
      <4>2. PICK t \in Subs : t = page[q].socket
        BY <2>1, <4>1, PageFacts
      <4>3. t # s
        BY <1>2, <4>2
      <4>4. Pair(page[q], sub[t], t, reply[q].rows, stored, loop)
        BY <2>1, <4>1, <4>2, PageFacts
      <4> QED BY <1>10, <4>1, <4>2, <4>3, <4>4
    <3> QED BY <3>1, <3>2
  <2> QED BY <2>1 DEF PairInv
<1>22. Onward
  <2>1. KeepsPage(page[p], w)
    BY <1>13, <1>14 DEF KeepsPage
  <2>2. KeepsSub(sub[s], sub'[s])
    BY <1>2 DEF KeepsSub
  <2> QED BY <1>10, <1>18, <2>1, <2>2, SelfKept DEF Onward
<1> QED BY <1>19, <1>20, <1>21, <1>22 DEF FeedIndInv

LEMMA OpenKeeps == ASSUME FeedIndInv, NEW p \in Pages, Open(p) PROVE FeedIndInv' /\ Onward
<1>1. PICK x \in PageAt(stored) : x = page[p]
  BY PageFacts
<1>2. x.socket = 0 /\ ~x.verified /\ ~x.live
  BY <1>1, PageFields DEF Open
<1>3. PICK v : v = Asked(x)
  OBVIOUS
<1>4. v \in PageAt(stored) /\ Still(x, v) /\ v.shown = x.shown
  BY <1>3, AskedIs
<1>5. PICK w : w = [v EXCEPT !.open = TRUE]
  OBVIOUS
<1>6. v \in Page
  BY <1>4 DEF PageAt
<1>7. w.shown = v.shown /\ w.during = v.during /\ w.history = v.history /\ w.again = v.again
  BY <1>5, <1>6 DEF Page
<1>8. /\ w.cursor = v.cursor /\ w.reads = v.reads /\ w.socket = v.socket
      /\ w.open = TRUE /\ w.verified = v.verified /\ w.live = v.live
  BY <1>5, <1>6 DEF Page
<1>9. w \in Page
  BY <1>5, <1>6, ZenonT(40) DEF Page
<1>10. w \in PageAt(stored)
  BY <1>4, <1>7, <1>8, <1>9, PageFields DEF PageAt
<1>11. w.open /\ ~w.verified
  BY <1>2, <1>4, <1>8 DEF Still
<1>12. Opening(p, w)
  BY <1>1, <1>3, <1>5 DEF Open
<1>13. KeepsPage(x, w)
  BY <1>4, <1>7, <1>8, SameShown DEF Still
<1> QED BY <1>1, <1>2, <1>10, <1>11, <1>12, <1>13, OpeningKeeps DEF Open

LEMMA ReconnectKeeps == ASSUME FeedIndInv, NEW p \in Pages, Reconnect(p) PROVE FeedIndInv' /\ Onward
<1>1. page[p] \in PageAt(stored) /\ page[p].socket = 0 /\ page[p].open
  BY PageFacts DEF Reconnect
<1>2. ~page[p].verified
  BY <1>1, PageFields
<1> QED BY <1>1, <1>2, SelfKept, OpeningKeeps DEF Reconnect

LEMMA SocketClosesKeeps ==
  ASSUME FeedIndInv, NEW p \in Pages, SocketCloses(p) PROVE FeedIndInv' /\ Onward
<1>1. PICK x \in PageAt(stored) : x = page[p]
  BY PageFacts
<1>2. PICK s \in Subs : s = x.socket
  BY <1>1, PageFacts DEF SocketCloses
<1>3. PICK y \in SubAt(stored) : y = sub[s]
  BY SubFacts
<1>4. Len(y.out) <= QueueSize /\ Quiet(y) /\ y.stage # "unused"
  <2>1. Linked(x, y)
    BY <1>1, <1>2, <1>3, PageFacts DEF SocketCloses, Pair
  <2> QED BY <1>3, <2>1, SubFacts DEF Linked
<1>5. PICK z : z = [y EXCEPT !.left = TRUE, !.boot = <<>>, !.out = <<>>]
  OBVIOUS
<1>6. /\ z \in SubAt(stored) /\ z.stage = y.stage /\ z.boot = <<>> /\ z.out = <<>>
      /\ z.inbox = y.inbox /\ z.cursor = y.cursor
  BY <1>5, Empty DEF SubAt
<1>7. Quiet(z) /\ Len(z.out) <= QueueSize
  BY <1>4, <1>6, Empty, Constants DEF Quiet, Started
<1>8. sub \in [Subs -> SubAt(stored)]
  BY DEF FeedIndInv, DataInv
<1>9. sub' = [sub EXCEPT ![s] = z]
  BY <1>1, <1>2, <1>3, <1>5, <1>8 DEF SocketCloses
<1>10. /\ sub' \in [Subs -> SubAt(stored)] /\ sub'[s] = z
       /\ \A t \in Subs : t # s => sub'[t] = sub[t]
  BY <1>6, <1>8, <1>9
<1>11. x \in Page /\ 0 \in 0..MaxMessages
  BY Constants DEF PageAt
<1>12. PICK w : w = [x EXCEPT !.socket = 0, !.verified = FALSE, !.live = FALSE, !.reads = 0]
  OBVIOUS
<1>13. w.shown = x.shown /\ w.during = x.during /\ w.history = x.history /\ w.again = x.again
  BY <1>11, <1>12 DEF Page
<1>14. /\ w.cursor = x.cursor /\ w.reads = 0 /\ w.socket = 0 /\ w.verified = FALSE
       /\ w.live = FALSE
  BY <1>11, <1>12 DEF Page
<1>15. w \in Page
  BY <1>11, <1>12, ZenonT(40) DEF Page
<1>16. x.cursor \in Nat
  BY PageFields
<1>17. w \in PageAt(stored)
  BY <1>13, <1>14, <1>15, <1>16, PageFields DEF PageAt
<1>18. page' = [page EXCEPT ![p] = w]
  BY <1>1, <1>12 DEF SocketCloses
<1>19. \A t \in Subs : /\ Len(sub'[t].out) <= QueueSize
                       /\ Quiet(sub'[t])
                       /\ sub'[t].stage = sub[t].stage
                       /\ t # page[p].socket => sub'[t] = sub[t]
  BY <1>1, <1>2, <1>3, <1>6, <1>7, <1>10, SubFacts
<1>20. reply[p] \in ReplyAt(stored) /\ reply' = [reply EXCEPT ![p] = reply[p]]
  BY SameReply DEF SocketCloses
<1>21. w.socket \in {0, page[p].socket} /\ ~(w.socket # 0)
  BY <1>14
<1>22. stored' = stored /\ loop' = loop /\ queued' = queued /\ waiting' = waiting
  BY DEF SocketCloses
<1>23. KeepsPage(x, w)
  BY <1>13, <1>14, SameShown
<1>24. \A t \in Subs : KeepsSub(sub[t], sub'[t])
  BY <1>3, <1>6, <1>10, SameCursor, SelfKept
<1> QED BY <1>1, <1>10, <1>17, <1>18, <1>19, <1>20, <1>21, <1>22, <1>23, <1>24, OnePage

\* A page and its connection take a step.
LEMMA PageAndSub ==
  ASSUME FeedIndInv, NEW p \in Pages, NEW w \in PageAt(stored), NEW s \in Subs,
         NEW z \in SubAt(stored), Len(z.out) <= QueueSize, Quiet(z),
         z.stage = sub[s].stage, s = page[p].socket, w.socket = s,
         KeepsPage(page[p], w), KeepsSub(sub[s], z),
         page' = [page EXCEPT ![p] = w], sub' = [sub EXCEPT ![s] = z],
         UNCHANGED <<stored, loop, reply, queued, waiting>>,
         Pair(w, z, s, reply[p].rows, stored, loop)
  PROVE  FeedIndInv' /\ Onward
<1>1. sub \in [Subs -> SubAt(stored)]
  BY DEF FeedIndInv, DataInv
<1>2. /\ sub' \in [Subs -> SubAt(stored)] /\ sub'[s] = z
      /\ \A t \in Subs : t # s => sub'[t] = sub[t]
  BY <1>1
<1>3. \A t \in Subs : /\ Len(sub'[t].out) <= QueueSize
                      /\ Quiet(sub'[t])
                      /\ sub'[t].stage = sub[t].stage
                      /\ t # page[p].socket => sub'[t] = sub[t]
  BY <1>2, SubFacts
<1>4. reply[p] \in ReplyAt(stored) /\ reply' = [reply EXCEPT ![p] = reply[p]]
  BY SameReply
<1>5. Pair(w, sub'[w.socket], w.socket, reply[p].rows, stored, loop)
  BY <1>2
<1>6. \A t \in Subs : KeepsSub(sub[t], sub'[t])
  BY <1>2, SelfKept
<1> QED BY <1>2, <1>3, <1>4, <1>5, <1>6, OnePage

LEMMA DeliverKeeps == ASSUME FeedIndInv, NEW p \in Pages, Deliver(p) PROVE FeedIndInv' /\ Onward
<1>1. PICK x \in PageAt(stored) : x = page[p]
  BY PageFacts
<1>2. PICK s \in Subs : s = x.socket /\ s # 0
  BY <1>1, PageFacts DEF Deliver
<1>3. PICK y \in SubAt(stored) : y = sub[s]
  BY SubFacts
<1>4. Len(y.out) <= QueueSize /\ Quiet(y)
  BY <1>3, SubFacts
<1>5. Pair(x, y, s, reply[p].rows, stored, loop)
  BY <1>1, <1>2, <1>3, PageFacts
<1>0. UNCHANGED <<stored, loop, reply, queued, waiting>>
  BY DEF Deliver
<1>6. CASE y.boot # <<>>
  <2>1. PICK b \in Seq(Known(stored)) : b = y.boot /\ b # <<>>
    BY <1>6, SubFields
  <2>2. PICK f \in Known(stored) : f = Head(b)
    BY <2>1, Shifted
  <2>3. PICK c \in Seq(Known(stored)) : c = Tail(b)
    BY <2>1, Shifted
  <2>4. PICK z : z = [y EXCEPT !.boot = c]
    OBVIOUS
  <2>5. /\ z \in SubAt(stored) /\ z.stage = y.stage /\ z.done = y.done /\ z.left = y.left
        /\ z.boot = c /\ z.out = y.out /\ z.cursor = y.cursor /\ z.inbox = y.inbox
    BY <2>4 DEF SubAt
  <2>6. Quiet(z)
    BY <1>4, <1>6, <2>5 DEF Quiet, Started
  <2>7. PICK w : w = Handled(x, f)
    OBVIOUS
  <2>8. w \in PageAt(stored) /\ Takes(x, f, w)
    BY <1>2, <2>7, StoredIs, HandledIs
  <2>9. Pair(w, z, s, reply[p].rows, stored, loop)
    BY <1>4, <1>5, <1>6, <2>1, <2>2, <2>3, <2>5, <2>8, StoredIs, PairBoot
  <2>10. page' = [page EXCEPT ![p] = w]
    BY <1>1, <1>2, <1>3, <1>6, <2>1, <2>2, <2>7 DEF Deliver
  <2>11. sub' = [sub EXCEPT ![s] = z]
    BY <1>1, <1>2, <1>3, <1>6, <2>1, <2>3, <2>4 DEF Deliver
  <2>12. w.socket = s
    BY <1>2, <2>8 DEF Takes
  <2>13. KeepsPage(x, w) /\ KeepsSub(y, z)
    <3>1. x.cursor \in Nat
      BY PageFields, Constants
    <3>2. KeepsPage(x, w)
      BY <2>8, <3>1 DEF Takes, KeepsPage
    <3> QED BY <2>5, <3>2, SameCursor
  <2> QED BY <1>0, <1>1, <1>2, <1>3, <1>4, <2>5, <2>6, <2>8, <2>9, <2>10, <2>11, <2>12, <2>13,
          PageAndSub
<1>7. CASE y.boot = <<>>
  <2>1. PICK o \in Seq(Known(stored)) : o = y.out /\ o # <<>>
    BY <1>1, <1>2, <1>3, <1>7, SubFields DEF Deliver
  <2>2. PICK f \in Known(stored) : f = Head(o)
    BY <2>1, Shifted
  <2>3. PICK c \in Seq(Known(stored)) : c = Tail(o) /\ Len(c) <= QueueSize
    <3>1. Tail(o) \in Seq(Known(stored)) /\ Len(Tail(o)) = Len(o) - 1 /\ Len(o) \in Nat
      BY <2>1, Shifted
    <3>2. Len(o) <= QueueSize /\ QueueSize \in Nat
      BY <1>4, <2>1, Constants
    <3>3. Len(Tail(o)) <= QueueSize
      BY <3>1, <3>2
    <3> QED BY <3>1, <3>3
  <2>4. PICK z : z = [y EXCEPT !.out = c]
    OBVIOUS
  <2>5. /\ z \in SubAt(stored) /\ z.stage = y.stage /\ z.done = y.done /\ z.left = y.left
        /\ z.boot = y.boot /\ z.out = c /\ z.cursor = y.cursor /\ z.inbox = y.inbox
    BY <2>4 DEF SubAt
  <2>6. y.stage = "live"
    BY <1>1, <1>2, <1>3, <1>7 DEF Deliver
  <2>7. Quiet(z)
    BY <2>5, <2>6 DEF Quiet, Started
  <2>8. PICK w : w = Handled(x, f)
    OBVIOUS
  <2>9. w \in PageAt(stored) /\ Takes(x, f, w)
    BY <1>2, <2>8, StoredIs, HandledIs
  <2>10. Pair(w, z, s, reply[p].rows, stored, loop)
    BY <1>5, <1>7, <2>1, <2>2, <2>3, <2>5, <2>6, <2>9, StoredIs, PairOut
  <2>11. page' = [page EXCEPT ![p] = w]
    BY <1>1, <1>2, <1>3, <1>7, <2>1, <2>2, <2>8 DEF Deliver
  <2>12. sub' = [sub EXCEPT ![s] = z]
    BY <1>1, <1>2, <1>3, <1>7, <2>1, <2>3, <2>4 DEF Deliver
  <2>13. w.socket = s
    BY <1>2, <2>9 DEF Takes
  <2>14. KeepsPage(x, w) /\ KeepsSub(y, z)
    <3>1. x.cursor \in Nat
      BY PageFields, Constants
    <3>2. KeepsPage(x, w)
      BY <2>9, <3>1 DEF Takes, KeepsPage
    <3> QED BY <2>5, <3>2, SameCursor
  <2> QED BY <1>0, <1>1, <1>2, <1>3, <2>3, <2>5, <2>7, <2>9, <2>10, <2>11, <2>12, <2>13, <2>14,
          PageAndSub
<1> QED BY <1>6, <1>7

LEMMA FlushReadKeeps == ASSUME FeedIndInv, NEW p \in Pages, FlushRead(p) PROVE FeedIndInv' /\ Onward
<1>1. PICK x \in PageAt(stored) : x = page[p]
  BY PageFacts
<1>2. PICK s \in Subs : s = x.socket /\ s # 0
  BY <1>1, PageFacts DEF FlushRead
<1>3. PICK y \in SubAt(stored) : y = sub[s]
  BY SubFacts
<1>4. Len(y.out) <= QueueSize /\ Quiet(y)
  BY <1>3, SubFacts
<1>5. Pair(x, y, s, reply[p].rows, stored, loop)
  BY <1>1, <1>2, <1>3, PageFacts
<1>6. x \in Page /\ 0 \in 0..MaxMessages
  BY Constants DEF PageAt
<1>7. x.verified /\ x.reads > 0 /\ x.reads <= stored /\ x.cursor \in Nat /\ x.reads \in Nat
  <2>1. x.verified /\ x.reads > 0
    BY <1>1 DEF FlushRead
  <2>2. /\ x.reads \in 0..MaxMessages /\ x.cursor \in 0..MaxMessages
        /\ x.reads <= x.cursor /\ x.cursor <= stored
    BY PageFields
  <2> QED BY <2>1, <2>2, StoredIs
<1>8. PICK w : w = [x EXCEPT !.reads = 0]
  OBVIOUS
<1>9. /\ w.shown = x.shown /\ w.during = x.during /\ w.history = x.history
      /\ w.again = x.again /\ w.error = x.error
  BY <1>6, <1>8 DEF Page
<1>10. /\ w.cursor = x.cursor /\ w.reads = 0 /\ w.socket = x.socket
       /\ w.latest = x.latest /\ w.unread = x.unread
  BY <1>6, <1>8 DEF Page
<1>11. w.open = x.open /\ w.live = x.live /\ w.verified = x.verified
  BY <1>6, <1>8 DEF Page
<1>12. w \in Page
  BY <1>6, <1>8, ZenonT(40) DEF Page
<1>13. w \in PageAt(stored)
  BY <1>7, <1>9, <1>10, <1>11, <1>12, PageFields DEF PageAt
<1>14. page' = [page EXCEPT ![p] = w]
  BY <1>1, <1>8 DEF FlushRead
<1>15. PICK z : z = IF y.stage = "gone" THEN y
                    ELSE [y EXCEPT !.inbox = y.inbox \cup {x.reads}]
  OBVIOUS
<1>16. IF y.stage = "gone" THEN z = y
       ELSE /\ z.stage = y.stage /\ z.done = y.done /\ z.left = y.left
            /\ z.boot = y.boot /\ z.out = y.out /\ z.cursor = y.cursor
            /\ z.inbox = y.inbox \cup {x.reads}
  BY <1>15 DEF SubAt
<1>17. z \in SubAt(stored)
  <2>1. y.inbox \cup {x.reads} \in SUBSET (1..stored)
    BY <1>7, SubFields, StoredIs
  <2> QED BY <1>15, <2>1 DEF SubAt
<1>18. Len(z.out) <= QueueSize /\ Quiet(z) /\ z.stage = y.stage
  <2>1. Started(y)
    BY <1>5, <1>7 DEF Pair, Linked
  <2>2. z.stage = y.stage /\ z.out = y.out
    BY <1>16
  <2> QED BY <1>4, <2>1, <2>2 DEF Quiet, Started
<1>19. Pair(w, z, s, reply[p].rows, stored, loop)
  BY <1>5, <1>9, <1>10, <1>11, <1>16, PairFlushes
<1>20. sub' = [sub EXCEPT ![s] = z]
  <2>1. sub \in [Subs -> SubAt(stored)]
    BY DEF FeedIndInv, DataInv
  <2> QED BY <1>1, <1>2, <1>3, <1>15, <2>1 DEF FlushRead
<1>21. w.socket = s
  BY <1>2, <1>10
<1>23. KeepsPage(x, w) /\ KeepsSub(y, z)
  <2>1. z.cursor = y.cursor
    BY <1>16
  <2> QED BY <1>9, <1>10, <2>1, SameShown, SameCursor
<1>22. UNCHANGED <<stored, loop, reply, queued, waiting>>
  BY DEF FlushRead
<1> QED BY <1>1, <1>2, <1>3, <1>13, <1>14, <1>17, <1>18, <1>19, <1>20, <1>21, <1>22, <1>23,
       PageAndSub

-----------------------------------------------------------------------------
(* Steps of the event loop and of the translation jobs.                    *)

\* What is to be translated, of n messages.
Jobs(n, q, w) ==
  /\ q \subseteq 1..n /\ w \subseteq q
  /\ Cardinality(w) <= JobsSize /\ Cardinality(q \ w) <= Workers

LEMMA JobFacts == ASSUME FeedIndInv PROVE Jobs(stored, queued, waiting)
  BY DEF FeedIndInv, DataInv, Jobs

LEMMA BroadcastIs ==
  ASSUME FeedIndInv, NEW f \in Known(stored), Broadcast(f)
  PROVE  /\ sub' \in [Subs -> SubAt(stored)]
         /\ \A t \in Subs : /\ Len(sub'[t].out) <= QueueSize
                            /\ Hears(sub[t], sub'[t], f)
                            /\ Quiet(sub'[t]) /\ sub'[t].stage = sub[t].stage
<1>1. ASSUME NEW t \in Subs
      PROVE  /\ sub'[t] \in SubAt(stored) /\ Len(sub'[t].out) <= QueueSize
             /\ Hears(sub[t], sub'[t], f)
             /\ Quiet(sub'[t]) /\ sub'[t].stage = sub[t].stage
  <2>1. PICK y \in SubAt(stored) : y = sub[t]
    BY SubFacts
  <2>2. Len(y.out) <= QueueSize /\ Quiet(y)
    BY <2>1, SubFacts
  <2>3. PICK z : z = sub'[t]
    OBVIOUS
  <2>4. z = IF y.stage \in {"bootstrap", "live"} THEN Sent(y, f) ELSE y
    BY <2>1, <2>3 DEF Broadcast, Subscribed
  <2>5. z \in SubAt(stored) /\ Len(z.out) <= QueueSize /\ Hears(y, z, f)
    <3>1. CASE y.stage \in {"bootstrap", "live"}
      <4>1. z = Sent(y, f)
        BY <2>4, <3>1
      <4>2. z \in SubAt(stored) /\ Len(z.out) <= QueueSize /\ Queues(y, z) /\ Gets(y, z, f)
        BY <2>2, <4>1, SentIs
      <4> QED BY <3>1, <4>2 DEF Hears
    <3>2. CASE y.stage \notin {"bootstrap", "live"}
      <4>1. z = y
        BY <2>4, <3>2
      <4> QED BY <2>2, <3>2, <4>1 DEF Hears
    <3> QED BY <3>1, <3>2
  <2>6. Quiet(z) /\ z.stage = y.stage
    BY <2>2, <2>5, HearsQuiet
  <2> QED BY <2>1, <2>3, <2>5, <2>6
<1>2. \E g : sub' = [t \in Subs |-> g[t]]
  <2>1. sub' = [t \in Subs |-> sub'[t]]
    BY DEF Broadcast
  <2> QED BY <2>1
<1> QED BY <1>1, <1>2

\* The loop or a job takes a step, and tells nobody.
LEMMA SilentStep ==
  ASSUME FeedIndInv, sub' = sub, stored' = stored, page' = page,
         reply' \in [Pages -> ReplyAt(stored)],
         \A p \in Pages : reply'[p].rows = reply[p].rows,
         loop' \in Loop, loop'.stage # "idle" => stored # 0,
         \A s \in Subs : s \in loop'.todo => Started(sub[s]),
         Jobs(stored, queued', waiting'),
         Coming(loop) => Coming(loop'),
         \A s \in Subs : Serving(sub[s]) /\ Awaits(loop, s) => Awaits(loop', s)
  PROVE  FeedIndInv' /\ Onward
<1>1. DataInv'
  BY DEF FeedIndInv, DataInv, Jobs
<1>2. SocketInv'
  <2>1. \A s \in Subs : /\ sub'[s].stage = "unused" <=> sub[s].stage = "unused"
                        /\ Quiet(sub'[s])
                        /\ s \in loop'.todo => Started(sub'[s])
    BY SubFacts
  <2>2. \A p \in Pages : page'[p].socket \in {0, page[p].socket}
    OBVIOUS
  <2> QED BY <2>1, <2>2, SocketsKeep DEF FeedIndInv
<1>3. PairInv'
  <2>1. ASSUME NEW p \in Pages, page[p].socket # 0
        PROVE  Pair(page[p], sub[page[p].socket], page[p].socket, reply'[p].rows,
                    stored, loop')
    <3>1. PICK s \in Subs : s = page[p].socket
      BY <2>1, PageFacts
    <3>2. Pair(page[p], sub[s], s, reply[p].rows, stored, loop)
      BY <2>1, <3>1, PageFacts
    <3>3. Serving(sub[s]) /\ Awaits(loop, s) => Awaits(loop', s)
      OBVIOUS
    <3>4. Pair(page[p], sub[s], s, reply[p].rows, stored, loop')
      BY <3>2, <3>3, PairWaits
    <3> QED BY <3>1, <3>4
  <2> QED BY <2>1 DEF PairInv
<1>4. Onward
  BY SelfKept DEF Onward
<1> QED BY <1>1, <1>2, <1>3, <1>4 DEF FeedIndInv

\* The loop or a job takes a step, and tells every subscription.
LEMMA BroadcastStep ==
  ASSUME FeedIndInv, NEW f \in Known(stored), f.type \in OfMessage, Broadcast(f),
         stored' = stored, page' = page, reply' \in [Pages -> ReplyAt(stored)],
         \A p \in Pages : reply'[p].rows = reply[p].rows,
         loop' \in Loop, loop'.stage # "idle" => stored # 0, loop'.todo = loop.todo,
         Jobs(stored, queued', waiting'),
         Coming(loop) => Coming(loop') \/ (f.type = "message" /\ f.id = stored),
         \A s \in Subs : Awaits(loop, s) => Awaits(loop', s)
  PROVE  FeedIndInv' /\ Onward
<1>1. /\ sub' \in [Subs -> SubAt(stored)]
      /\ \A t \in Subs : /\ Len(sub'[t].out) <= QueueSize
                         /\ Hears(sub[t], sub'[t], f)
                         /\ Quiet(sub'[t]) /\ sub'[t].stage = sub[t].stage
  BY BroadcastIs
<1>2. DataInv'
  BY <1>1 DEF FeedIndInv, DataInv, Jobs
<1>3. SocketInv'
  <2>1. \A s \in Subs : /\ sub'[s].stage = "unused" <=> sub[s].stage = "unused"
                        /\ Quiet(sub'[s])
                        /\ s \in loop'.todo => Started(sub'[s])
    BY <1>1, SubFacts DEF Started
  <2>2. \A p \in Pages : page'[p].socket \in {0, page[p].socket}
    OBVIOUS
  <2> QED BY <2>1, <2>2, SocketsKeep DEF FeedIndInv
<1>4. PairInv'
  <2>1. ASSUME NEW p \in Pages, page[p].socket # 0
        PROVE  Pair(page[p], sub'[page[p].socket], page[p].socket, reply'[p].rows,
                    stored, loop')
    <3>1. PICK s \in Subs : s = page[p].socket
      BY <2>1, PageFacts
    <3>2. Pair(page[p], sub[s], s, reply[p].rows, stored, loop)
      BY <2>1, <3>1, PageFacts
    <3>3. PICK y \in SubAt(stored) : y = sub[s]
      BY SubFacts
    <3>4. Hears(y, sub'[s], f)
      BY <1>1, <3>3
    <3>5. Serving(y) /\ Awaits(loop, s) => Awaits(loop', s)
      OBVIOUS
    <3>6. Pair(page[p], sub'[s], s, reply[p].rows, stored, loop')
      BY <3>2, <3>3, <3>4, <3>5, StoredIs, PairHears
    <3> QED BY <3>1, <3>6
  <2> QED BY <2>1 DEF PairInv
<1>5. Onward
  <2>1. ASSUME NEW t \in Subs PROVE KeepsSub(sub[t], sub'[t])
    <3>1. sub'[t].cursor = sub[t].cursor
      BY <1>1 DEF Hears, Queues
    <3> QED BY <3>1, SubFacts, SameCursor
  <2> QED BY <2>1, SelfKept DEF Onward
<1> QED BY <1>2, <1>3, <1>4, <1>5 DEF FeedIndInv

LEMMA EnqueueIs ==
  ASSUME FeedIndInv, NEW m \in 1..stored, Enqueue(m)
  PROVE  /\ Jobs(stored, queued', waiting')
         /\ \/ sub' = sub
            \/ \E f \in Known(stored) : f.type = "translation" /\ Broadcast(f)
<1>1. Jobs(stored, queued, waiting)
  BY JobFacts
<1>2. CASE m \in queued
  BY <1>1, <1>2 DEF Enqueue
<1>3. CASE m \notin queued /\ Cardinality(waiting) < JobsSize
  <2>1. queued' = queued \cup {m} /\ waiting' = waiting \cup {m} /\ sub' = sub
    BY <1>3 DEF Enqueue
  <2>2. IsFiniteSet(waiting)
    <3>1. waiting \in SUBSET (1..stored) /\ IsFiniteSet(1..stored)
      BY <1>1, StoredIs, FS_Interval DEF Jobs
    <3> QED BY <3>1, FS_Subset
  <2>3. Cardinality(waiting') = Cardinality(waiting) + 1 /\ Cardinality(waiting) \in Nat
    BY <1>1, <1>3, <2>1, <2>2, FS_AddElement, FS_CardinalityType DEF Jobs
  <2>4. Cardinality(waiting') <= JobsSize
    BY <1>3, <2>3, Constants
  <2>5. queued' \ waiting' = queued \ waiting
    BY <1>3, <2>1
  <2> QED BY <1>1, <2>1, <2>4, <2>5 DEF Jobs
<1>4. CASE m \notin queued /\ ~(Cardinality(waiting) < JobsSize)
  <2>1. PICK f : f = MessageFrame("translation", m, "failed")
    OBVIOUS
  <2>2. f \in Known(stored) /\ f.type = "translation"
    BY <2>1, StoredIs, MessageFrameIs DEF OfMessage, States
  <2>3. Broadcast(f) /\ queued' = queued /\ waiting' = waiting
    BY <1>4, <2>1 DEF Enqueue
  <2> QED BY <1>1, <2>2, <2>3
<1> QED BY <1>2, <1>3, <1>4

LEMMA LoopFacts == ASSUME FeedIndInv
                   PROVE  /\ loop \in Loop /\ (loop.stage # "idle" => stored # 0)
                          /\ loop.stage \in {"idle", "stored", "rooms", "enqueue"}
                          /\ loop.todo \in SUBSET Subs
<1>1. loop \in Loop /\ (loop.stage # "idle" => stored # 0)
  BY DEF FeedIndInv, DataInv
<1> QED BY <1>1 DEF Loop

LEMMA ReplyFacts == ASSUME FeedIndInv PROVE reply \in [Pages -> ReplyAt(stored)]
  BY DEF FeedIndInv, DataInv

LEMMA GatherKeeps == ASSUME FeedIndInv, Gather PROVE FeedIndInv' /\ Onward
<1>1. /\ loop' \in Loop /\ loop'.stage = "rooms" /\ loop'.todo = Subscribed
      /\ stored # 0
  BY LoopFacts DEF Gather, Loop, Subscribed
<1>2. \A s \in Subs : s \in loop'.todo => Started(sub[s])
  BY <1>1 DEF Subscribed, Started
<1>3. \A s \in Subs : Serving(sub[s]) /\ Awaits(loop, s) => Awaits(loop', s)
  BY <1>1 DEF Serving, Awaits, Subscribed
<1>4. Coming(loop')
  BY <1>1 DEF Coming
<1> QED BY <1>1, <1>2, <1>3, <1>4, ReplyFacts, JobFacts, SilentStep DEF Gather

LEMMA PublishKeeps == ASSUME FeedIndInv, Publish PROVE FeedIndInv' /\ Onward
<1>1. loop' \in Loop /\ loop'.stage = "enqueue" /\ loop'.todo = loop.todo /\ stored # 0
  BY LoopFacts DEF Publish, Loop
<1>2. \A s \in Subs : ~Awaits(loop, s)
  BY DEF Publish, Awaits
<1>3. PICK f : f = MessageFrame("message", stored, Fresh)
  OBVIOUS
<1>4. /\ f \in Known(stored) /\ f.type = "message" /\ f.type \in OfMessage
      /\ f.id = stored
  <2>1. stored \in 1..stored
    BY <1>1, StoredIs
  <2>2. Fresh \in States \ {"none"}
    BY FreshIs
  <2> QED BY <1>3, <2>1, <2>2, StoredIs, MessageFrameIs DEF OfMessage
<1>5. Broadcast(f)
  BY <1>3 DEF Publish
<1> QED BY <1>1, <1>2, <1>4, <1>5, ReplyFacts, JobFacts, BroadcastStep DEF Publish

LEMMA EnqueueNewestKeeps == ASSUME FeedIndInv, EnqueueNewest PROVE FeedIndInv' /\ Onward
<1>1. loop' \in Loop /\ loop'.stage = "idle" /\ loop'.todo = loop.todo /\ stored # 0
  BY LoopFacts DEF EnqueueNewest, Loop
<1>2. ~Coming(loop) /\ \A s \in Subs : ~Awaits(loop, s)
  BY DEF EnqueueNewest, Awaits, Coming
<1>0. stored' = stored /\ page' = page /\ reply' = reply
  BY DEF EnqueueNewest
<1>3. \A s \in Subs : s \in loop'.todo => Started(sub[s])
  BY <1>1, SubFacts
<1>4. /\ Jobs(stored, queued', waiting')
      /\ \/ sub' = sub
         \/ \E f \in Known(stored) : f.type = "translation" /\ Broadcast(f)
  <2>1. stored \in 1..stored
    BY <1>1, StoredIs
  <2>2. CASE Translating /\ Subscribed # {}
    <3>1. Enqueue(stored)
      BY <2>2 DEF EnqueueNewest
    <3> QED BY <2>1, <3>1, EnqueueIs
  <2>3. CASE ~(Translating /\ Subscribed # {})
    <3>1. sub' = sub /\ queued' = queued /\ waiting' = waiting
      BY <2>3 DEF EnqueueNewest
    <3> QED BY <3>1, JobFacts
  <2> QED BY <2>2, <2>3
<1>5. CASE sub' = sub
  BY <1>0, <1>1, <1>2, <1>3, <1>4, <1>5, ReplyFacts, SilentStep
<1>6. ASSUME NEW f \in Known(stored), f.type = "translation", Broadcast(f)
      PROVE  FeedIndInv' /\ Onward
  <2>1. f.type \in OfMessage
    BY <1>6 DEF OfMessage
  <2> QED BY <1>0, <1>1, <1>2, <1>4, <1>6, <2>1, ReplyFacts, BroadcastStep
<1> QED BY <1>4, <1>5, <1>6

LEMMA EnqueueRowKeeps ==
  ASSUME FeedIndInv, NEW p \in Pages, NEW m \in Messages, EnqueueRow(p, m) PROVE FeedIndInv' /\ Onward
<1>1. m \in 1..stored /\ Enqueue(m)
  BY PageFacts DEF EnqueueRow
<1>2. reply \in [Pages -> ReplyAt(stored)]
  BY ReplyFacts
<1>3. PICK r : r = [reply[p] EXCEPT !.todo = reply[p].todo \ {m}]
  OBVIOUS
<1>4. r \in ReplyAt(stored) /\ r.rows = reply[p].rows
  BY <1>2, <1>3 DEF ReplyAt
<1>5. reply' = [reply EXCEPT ![p] = r]
  BY <1>3 DEF EnqueueRow
<1>0. stored' = stored /\ page' = page
  BY DEF EnqueueRow
<1>6. /\ reply' \in [Pages -> ReplyAt(stored)]
      /\ \A q \in Pages : reply'[q].rows = reply[q].rows
  BY <1>2, <1>4, <1>5
<1>7. /\ loop' = loop /\ loop' \in Loop /\ (loop'.stage # "idle" => stored # 0)
      /\ \A s \in Subs : s \in loop'.todo => Started(sub[s])
  BY LoopFacts, SubFacts DEF EnqueueRow
<1>8. /\ Jobs(stored, queued', waiting')
      /\ \/ sub' = sub
         \/ \E f \in Known(stored) : f.type = "translation" /\ Broadcast(f)
  BY <1>1, EnqueueIs
<1>9. CASE sub' = sub
  BY <1>0, <1>6, <1>7, <1>8, <1>9, SilentStep
<1>10. ASSUME NEW f \in Known(stored), f.type = "translation", Broadcast(f)
       PROVE  FeedIndInv' /\ Onward
  <2>1. f.type \in OfMessage
    BY <1>10 DEF OfMessage
  <2> QED BY <1>0, <1>6, <1>7, <1>8, <1>10, <2>1, BroadcastStep
<1> QED BY <1>8, <1>9, <1>10

LEMMA TakeJobKeeps ==
  ASSUME FeedIndInv, NEW m \in Messages, TakeJob(m) PROVE FeedIndInv' /\ Onward
<1>1. Jobs(stored, queued, waiting)
  BY JobFacts
<1>2. /\ m \in waiting /\ Cardinality(queued \ waiting) < Workers
      /\ waiting' = waiting \ {m} /\ queued' = queued
  BY DEF TakeJob
<1>3. IsFiniteSet(queued) /\ IsFiniteSet(waiting) /\ IsFiniteSet(queued \ waiting)
  <2>1. IsFiniteSet(1..stored) /\ queued \in SUBSET (1..stored)
    BY <1>1, StoredIs, FS_Interval DEF Jobs
  <2>2. IsFiniteSet(queued)
    BY <2>1, FS_Subset
  <2>3. waiting \in SUBSET queued /\ (queued \ waiting) \in SUBSET queued
    BY <1>1 DEF Jobs
  <2> QED BY <2>2, <2>3, FS_Subset
<1>4. Cardinality(waiting') <= JobsSize
  <2>1. waiting' \in SUBSET waiting
    BY <1>2
  <2>2. /\ Cardinality(waiting') <= Cardinality(waiting) /\ Cardinality(waiting') \in Nat
        /\ Cardinality(waiting) \in Nat
    BY <1>3, <2>1, FS_Subset, FS_CardinalityType
  <2> QED BY <1>1, <2>2, Constants DEF Jobs
<1>5. Cardinality(queued' \ waiting') <= Workers
  <2>1. queued' \ waiting' = (queued \ waiting) \cup {m} /\ m \notin queued \ waiting
    BY <1>1, <1>2 DEF Jobs
  <2>2. Cardinality((queued \ waiting) \cup {m}) = Cardinality(queued \ waiting) + 1
    BY <1>3, <2>1, FS_AddElement
  <2>3. Cardinality(queued \ waiting) \in Nat
    BY <1>3, FS_CardinalityType
  <2> QED BY <1>2, <2>1, <2>2, <2>3, Constants
<1>6. Jobs(stored, queued', waiting')
  BY <1>1, <1>2, <1>4, <1>5 DEF Jobs
<1>7. /\ loop' = loop /\ loop' \in Loop /\ (loop'.stage # "idle" => stored # 0)
      /\ \A s \in Subs : s \in loop'.todo => Started(sub[s])
  BY LoopFacts, SubFacts DEF TakeJob
<1>8. sub' = sub /\ stored' = stored /\ page' = page /\ reply' = reply
  BY DEF TakeJob
<1> QED BY <1>6, <1>7, <1>8, ReplyFacts, SilentStep

LEMMA FinishJobKeeps ==
  ASSUME FeedIndInv, NEW m \in Messages, FinishJob(m) PROVE FeedIndInv' /\ Onward
<1>1. Jobs(stored, queued, waiting)
  BY JobFacts
<1>2. m \in queued /\ m \notin waiting /\ queued' = queued \ {m} /\ waiting' = waiting
  BY DEF FinishJob
<1>3. Cardinality(queued' \ waiting') <= Workers
  <2>1. IsFiniteSet(1..stored) /\ (queued \ waiting) \in SUBSET (1..stored)
    BY <1>1, StoredIs, FS_Interval DEF Jobs
  <2>2. IsFiniteSet(queued \ waiting)
    BY <2>1, FS_Subset
  <2>3. (queued' \ waiting') \in SUBSET (queued \ waiting)
    BY <1>2
  <2>4. /\ Cardinality(queued' \ waiting') <= Cardinality(queued \ waiting)
        /\ Cardinality(queued' \ waiting') \in Nat /\ Cardinality(queued \ waiting) \in Nat
    BY <2>2, <2>3, FS_Subset, FS_CardinalityType
  <2> QED BY <1>1, <2>4, Constants DEF Jobs
<1>4. Jobs(stored, queued', waiting')
  BY <1>1, <1>2, <1>3 DEF Jobs
<1>5. PICK state \in {"ready", "failed"} :
        Broadcast(MessageFrame("translation", m, state))
  BY DEF FinishJob
<1>6. PICK f : f = MessageFrame("translation", m, state)
  OBVIOUS
<1>7. f \in Known(stored) /\ f.type = "translation" /\ f.type \in OfMessage
  <2>1. m \in 1..stored /\ state \in States \ {"none"}
    BY <1>1, <1>2, <1>5 DEF Jobs, States
  <2> QED BY <1>6, <2>1, StoredIs, MessageFrameIs DEF OfMessage
<1>8. Broadcast(f)
  BY <1>5, <1>6
<1>9. /\ loop' = loop /\ loop' \in Loop /\ (loop'.stage # "idle" => stored # 0)
  BY LoopFacts DEF FinishJob
<1> QED BY <1>4, <1>7, <1>8, <1>9, ReplyFacts, BroadcastStep DEF FinishJob

LEMMA PageGrows ==
  ASSUME NEW n \in 0..MaxMessages, NEW x \in PageAt(n) PROVE x \in PageAt(n + 1)
<1>1. /\ \A m \in Messages : m \in Nat
      /\ \A m \in Messages : x.shown[m] # "none" \/ x.during[m] # "none" => m <= n + 1
  BY PageFields, Constants DEF Messages
<1>2. x.cursor <= n + 1
  BY PageFields, Constants
<1> QED BY <1>1, <1>2 DEF PageAt

LEMMA CommitKeeps == ASSUME FeedIndInv, Commit PROVE FeedIndInv' /\ Onward
<1>1. /\ stored \in 0..MaxMessages /\ stored \in Nat /\ stored' = stored + 1
      /\ stored' \in 0..MaxMessages /\ stored <= stored'
  BY StoredIs, Constants DEF Commit
<1>2. /\ loop' \in Loop /\ loop'.stage = "stored" /\ loop'.todo = loop.todo
      /\ ~Coming(loop)
  BY LoopFacts DEF Commit, Loop, Coming
<1>3. sub' = sub /\ page' = page /\ reply' = reply /\ queued' = queued /\ waiting' = waiting
  BY DEF Commit
<1>4. DataInv'
  <2>1. sub \in [Subs -> SubAt(stored)] /\ page \in [Pages -> PageAt(stored)]
        /\ reply \in [Pages -> ReplyAt(stored)]
    BY DEF FeedIndInv, DataInv
  <2>2. sub' \in [Subs -> SubAt(stored')]
    BY <1>1, <1>3, <2>1, SubGrows
  <2>3. page' \in [Pages -> PageAt(stored')]
    BY <1>1, <1>3, <2>1, PageGrows
  <2>4. 1..stored \subseteq 1..stored'
    BY <1>1
  <2>5. ReplyAt(stored) \subseteq ReplyAt(stored')
    BY <2>4 DEF ReplyAt
  <2>6. reply' \in [Pages -> ReplyAt(stored')]
    BY <1>3, <2>1, <2>5
  <2>7. \A s \in Subs : Len(sub'[s].out) <= QueueSize
    BY <1>3, SubFacts
  <2>8. /\ queued' \subseteq 1..stored' /\ waiting' \subseteq queued'
        /\ Cardinality(waiting') <= JobsSize /\ Cardinality(queued' \ waiting') <= Workers
    BY <1>3, <2>4, JobFacts DEF Jobs
  <2>9. stored' # 0
    BY <1>1
  <2> QED BY <1>1, <1>2, <2>2, <2>3, <2>6, <2>7, <2>8, <2>9 DEF DataInv
<1>5. SocketInv'
  <2>1. \A s \in Subs : /\ sub'[s].stage = "unused" <=> sub[s].stage = "unused"
                        /\ Quiet(sub'[s])
                        /\ s \in loop'.todo => Started(sub'[s])
    BY <1>2, <1>3, SubFacts
  <2>2. \A p \in Pages : page'[p].socket \in {0, page[p].socket}
    BY <1>3
  <2> QED BY <2>1, <2>2, SocketsKeep DEF FeedIndInv
<1>6. PairInv'
  <2>1. ASSUME NEW p \in Pages, page[p].socket # 0
        PROVE  Pair(page[p], sub[page[p].socket], page[p].socket, reply[p].rows,
                    stored + 1, loop')
    BY <1>1, <1>2, <2>1, PageFacts, PairStores
  <2> QED BY <1>1, <1>3, <2>1 DEF PairInv
<1>7. Onward
  BY <1>3, SelfKept DEF Onward
<1> QED BY <1>4, <1>5, <1>6, <1>7 DEF FeedIndInv

-----------------------------------------------------------------------------
(* The invariant and what follows from it.                                 *)

LEMMA FeedStarts == ASSUME Init PROVE FeedIndInv
<1>0. stored = 0 /\ loop = [stage |-> "idle", todo |-> {}] /\ queued = {} /\ waiting = {}
  BY DEF Init
<1>1. loop \in Loop /\ loop.stage = "idle" /\ loop.todo = {}
  BY <1>0 DEF Loop
<1>2. /\ NewSub \in SubAt(0) /\ NewSub.stage = "unused" /\ NewSub.out = <<>>
      /\ NewSub.boot = <<>> /\ NewSub.inbox = {} /\ ~NewSub.left
  <2>1. <<>> \in Seq(Known(0)) /\ 0 \in 0..0 /\ {} \in SUBSET (1..0)
    BY Empty
  <2> QED BY <2>1 DEF NewSub, SubAt
<1>3. \A s \in Subs : sub[s] = NewSub
  BY DEF Init
<1>4. \A p \in Pages : page[p] = NewPage
  BY DEF Init
<1>5. PICK d \in [Messages -> States] : d = Nothing /\ \A m \in Messages : d[m] = "none"
  BY NothingIs
<1>6. PICK x : x = NewPage
  OBVIOUS
<1>7. x = [shown |-> d, during |-> d, open |-> FALSE, history |-> "idle",
           again |-> FALSE, known |-> FALSE, error |-> FALSE, socket |-> 0,
           verified |-> FALSE, live |-> FALSE, cursor |-> 0, latest |-> 0,
           unread |-> 0, reads |-> 0, refreshes |-> 0]
  BY <1>5, <1>6 DEF NewPage
<1>8. /\ x.shown = d /\ x.during = d /\ x.socket = 0 /\ x.live = FALSE
      /\ x.verified = FALSE /\ x.again = FALSE /\ x.cursor = 0 /\ x.reads = 0
  BY <1>7
<1>9. x \in Page
  <2>1. 0 \in 0..MaxMessages /\ 0 \in 0..MaxRefreshes /\ 0 \in {0} \cup Subs
    BY Constants
  <2> QED BY <1>7, <2>1 DEF Page
<1>10. x \in PageAt(0)
  BY <1>5, <1>8, <1>9 DEF PageAt
<1>11. DataInv
  <2>1. sub \in [Subs -> SubAt(0)] /\ page \in [Pages -> PageAt(0)]
    BY <1>2, <1>6, <1>10 DEF Init
  <2>2. reply \in [Pages -> ReplyAt(0)]
    BY DEF Init, ReplyAt
  <2>3. \A s \in Subs : Len(sub[s].out) <= QueueSize
    BY <1>2, <1>3, Empty, Constants
  <2>4. Cardinality({}) = 0 /\ {} \ {} = {}
    BY FS_EmptySet
  <2>5. /\ queued \subseteq 1..0 /\ waiting \subseteq queued
        /\ Cardinality(waiting) <= JobsSize /\ Cardinality(queued \ waiting) <= Workers
    BY <1>0, <2>4, Constants
  <2> QED BY <1>0, <1>1, <2>1, <2>2, <2>3, <2>5, Constants DEF DataInv
<1>12. SocketInv
  <2>1. UsedSubs = {}
    BY <1>2, <1>3 DEF UsedSubs
  <2>2. 1..0 = {} /\ 0 \in 0..MaxSubs
    BY Constants
  <2>3. \A s \in Subs : Quiet(sub[s]) /\ (s \in loop.todo => Started(sub[s]))
    BY <1>1, <1>2, <1>3 DEF Quiet
  <2> QED BY <1>4, <1>6, <1>8, <2>1, <2>2, <2>3 DEF SocketInv
<1>13. PairInv
  BY <1>4, <1>6, <1>8 DEF PairInv
<1> QED BY <1>11, <1>12, <1>13 DEF FeedIndInv

LEMMA FeedSteps == ASSUME FeedIndInv, [Next]_vars PROVE FeedIndInv' /\ Onward
<1>1. CASE Commit
  BY <1>1, CommitKeeps
<1>2. CASE RunStep
  BY <1>2, GatherKeeps, RefreshKeeps, PublishKeeps, EnqueueNewestKeeps DEF RunStep
<1>3. ASSUME NEW m \in Messages, JobStep(m) PROVE FeedIndInv' /\ Onward
  BY <1>3, TakeJobKeeps, FinishJobKeeps DEF JobStep
<1>4. ASSUME NEW s \in Subs, HandlerStep(s) PROVE FeedIndInv' /\ Onward
  BY <1>4, SubscribeKeeps, SnapshotKeeps DEF HandlerStep
<1>5. ASSUME NEW s \in Subs, Drop(s) PROVE FeedIndInv' /\ Onward
  BY <1>5, DropKeeps
<1>6. ASSUME NEW s \in Subs, NEW m \in Messages, MarkRead(s, m) PROVE FeedIndInv' /\ Onward
  BY <1>6, MarkReadKeeps
<1>7. ASSUME NEW p \in Pages, HistoryStep(p) PROVE FeedIndInv' /\ Onward
  BY <1>7, ServeKeeps, MergeKeeps, HistoryFailsKeeps DEF HistoryStep
<1>8. ASSUME NEW p \in Pages, PageStep(p) PROVE FeedIndInv' /\ Onward
  BY <1>8, OpenKeeps, ReconnectKeeps, SocketClosesKeeps, DeliverKeeps, RefreshPageKeeps,
     FlushReadKeeps, ReadKeeps DEF PageStep
<1>9. ASSUME NEW p \in Pages, NEW m \in Messages, EnqueueRow(p, m) PROVE FeedIndInv' /\ Onward
  BY <1>9, EnqueueRowKeeps
<1>10. CASE UNCHANGED vars
  <2>1. /\ stored' = stored /\ loop' = loop /\ sub' = sub /\ page' = page
        /\ reply' = reply /\ queued' = queued /\ waiting' = waiting
    BY <1>10 DEF vars
  <2>2. /\ loop' \in Loop /\ (loop'.stage # "idle" => stored # 0)
        /\ \A s \in Subs : s \in loop'.todo => Started(sub[s])
    BY <2>1, LoopFacts, SubFacts
  <2> QED BY <2>1, <2>2, ReplyFacts, JobFacts, SilentStep
<1> QED BY <1>1, <1>2, <1>3, <1>4, <1>5, <1>6, <1>7, <1>8, <1>9, <1>10 DEF Next

\* A page and its connection agree in what is shown, asked for and on its way,
\* in the cursor, and in what the server last said of the room.
THEOREM FeedIndInvariant == Spec => []FeedIndInv
<1>1. Init => FeedIndInv
  BY FeedStarts
<1>2. FeedIndInv /\ [Next]_vars => FeedIndInv'
  BY FeedSteps
<1> QED BY <1>1, <1>2, PTL DEF Spec

LEMMA FeedTypes == ASSUME FeedIndInv PROVE TypeOK
<1>1. \A s \in Subs :
        /\ sub[s].stage \in {"unused", "opening", "bootstrap", "live", "gone"}
        /\ sub[s].done \in BOOLEAN /\ sub[s].left \in BOOLEAN
        /\ Len(sub[s].out) <= QueueSize
        /\ sub[s].cursor \in 0..MaxMessages /\ sub[s].inbox \subseteq Messages
  <2>1. ASSUME NEW s \in Subs
        PROVE  sub[s].cursor \in 0..MaxMessages /\ sub[s].inbox \subseteq Messages
    <3>1. sub[s].cursor \in 0..stored /\ sub[s].inbox \in SUBSET (1..stored)
      BY SubFacts, SubFields
    <3> QED BY <3>1, StoredIs, NewestKnown, Constants
  <2> QED BY <2>1, SubFacts, SubFields
<1>2. page \in [Pages -> Page]
  <2>1. page \in [Pages -> PageAt(stored)] /\ PageAt(stored) \subseteq Page
    BY DEF FeedIndInv, DataInv, PageAt
  <2> QED BY <2>1
<1>3. \A p \in Pages : reply[p].rows \subseteq Messages /\ reply[p].todo \subseteq Messages
  BY PageFacts, StoredIs, NewestKnown
<1>4. queued \subseteq Messages
  BY JobFacts, StoredIs, NewestKnown DEF Jobs
<1> QED BY <1>1, <1>2, <1>3, <1>4, StoredIs, LoopFacts, JobFacts DEF TypeOK, Jobs

\* A page that has caught up, and its connection.
LEMMA CaughtUpIs ==
  ASSUME FeedIndInv, NEW p \in Pages, CaughtUp(p),
         NEW x, x = page[p], NEW y, y = sub[x.socket]
  PROVE  /\ x \in PageAt(stored) /\ x.socket \in Subs /\ y \in SubAt(stored)
         /\ x.history = "idle" /\ ~x.again /\ ~x.error
         /\ Serving(y) /\ y.stage = "live" /\ y.boot = <<>> /\ y.out = <<>>
         /\ ~Coming(loop) /\ ~Awaits(loop, x.socket)
         /\ Pair(x, y, x.socket, reply[p].rows, stored, loop)
<1>1. x \in PageAt(stored)
  BY PageFacts
<1>2. /\ x.live /\ x.history = "idle" /\ ~x.error /\ y.stage = "live" /\ ~y.done
      /\ y.boot = <<>> /\ y.out = <<>> /\ loop.stage \in {"idle", "enqueue"}
  BY DEF CaughtUp
<1>3. x.socket # 0 /\ ~x.again
  BY <1>1, <1>2, PageFields
<1>4. x.socket \in Subs /\ Pair(x, y, x.socket, reply[p].rows, stored, loop)
  BY <1>3, PageFacts
<1>5. y \in SubAt(stored)
  BY <1>4, SubFacts
<1>6. Serving(y) /\ ~Coming(loop) /\ ~Awaits(loop, x.socket)
  BY <1>2 DEF Serving, Coming, Awaits
<1> QED BY <1>1, <1>2, <1>3, <1>4, <1>5, <1>6

LEMMA RecentFollows == ASSUME FeedIndInv PROVE RecentShown
<1>1. ASSUME NEW p \in Pages, CaughtUp(p), NEW m \in Newest(stored) PROVE m \in Shown(p)
  <2>1. PICK x : x = page[p]
    OBVIOUS
  <2>2. PICK y : y = sub[x.socket]
    OBVIOUS
  <2>3. /\ x.history = "idle" /\ ~x.again /\ ~x.error /\ Serving(y)
        /\ y.boot = <<>> /\ y.out = <<>> /\ ~Coming(loop)
        /\ Pair(x, y, x.socket, reply[p].rows, stored, loop)
    BY <1>1, <2>1, <2>2, CaughtUpIs
  <2>4. /\ ~Asks(x) /\ ~Greets(y.boot) /\ ~Has(y.out, m)
    BY <2>3, EmptyQueue DEF Asks
  <2>5. x.shown[m] # "none"
    BY <1>1, <2>3, <2>4 DEF Pair, Covers
  <2>6. m \in Messages
    BY <1>1, StoredIs, NewestKnown
  <2> QED BY <2>1, <2>5, <2>6 DEF Shown
<1> QED BY <1>1 DEF RecentShown, Newest

LEMMA BadgeFollows == ASSUME FeedIndInv PROVE BadgeExact
<1>1. ASSUME NEW p \in Pages, CaughtUp(p), NEW x, x = page[p], NEW y, y = sub[x.socket],
             x.reads = 0, y.inbox = {}
      PROVE  x.latest = stored /\ x.unread = Unread(x.cursor)
  <2>1. /\ x \in PageAt(stored) /\ y \in SubAt(stored) /\ Serving(y) /\ y.stage = "live"
        /\ y.boot = <<>> /\ y.out = <<>> /\ ~Awaits(loop, x.socket)
        /\ Pair(x, y, x.socket, reply[p].rows, stored, loop)
    BY <1>1, CaughtUpIs
  <2>2. Knows(x, stored, UnreadOf(stored, y.cursor))
    BY <2>1, EmptyQueue DEF Pair, Says
  <2>3. x.cursor = y.cursor
    <3>1. y.cursor <= x.cursor /\ x.cursor \in {y.cursor, 0}
      BY <1>1, <2>1 DEF Pair, Agrees
    <3>2. y.cursor \in 0..stored
      BY <2>1, SubFields
    <3> QED BY <3>1, <3>2, StoredIs
  <2>4. x.cursor \in 0..MaxMessages
    BY <2>1, PageFields
  <2>5. x.cursor >= stored => Unread(x.cursor) = 0
    BY <2>4, StoredIs, UnreadType
  <2>6. UnreadOf(stored, y.cursor) = Unread(x.cursor)
    BY <2>3, UnreadIs
  <2>7. x.latest = stored /\ (x.unread = IF stored <= x.cursor THEN 0 ELSE Unread(x.cursor))
    BY <2>2, <2>6 DEF Knows
  <2>8. stored <= x.cursor => x.cursor >= stored
    BY <2>4, StoredIs, Constants
  <2> QED BY <2>5, <2>7, <2>8
<1> QED BY <1>1 DEF BadgeExact

\* Within the bounds of its queues and jobs, a page that has caught up shows
\* every message of the newest history page.
THEOREM FeedInvariant == Spec => []FeedInv
<1>1. FeedIndInv => FeedInv
  BY FeedTypes, RecentFollows DEF FeedInv
<1> QED BY <1>1, FeedIndInvariant, PTL

\* A message that a page shows stays shown, and what its user has read is
\* forgotten neither by the page nor by the server's subscription.
THEOREM NothingIsTakenBack == Spec => NothingTakenBack
<1>1. FeedIndInv /\ [Next]_vars => [Onward]_vars
  BY FeedSteps
<1> QED BY <1>1, FeedIndInvariant, PTL DEF Spec, NothingTakenBack, Onward

\* The badge of a page that has caught up counts what its user has not read.
THEOREM BadgeInvariant == Spec => []BadgeExact
<1>1. FeedIndInv => BadgeExact
  BY BadgeFollows
<1> QED BY <1>1, FeedIndInvariant, PTL

-----------------------------------------------------------------------------
(* The request limiter, for any number of clients and of callers, any rate   *)
(* and burst and any size of the table.                                      *)

USE CostAssumption, TimeAssumption

\* A bucket that is forgotten was idle for as long as it takes to fill, and
\* what that lacks of twice the lag is the excess.
LEMMA IdleLong ==
  ASSUME LimiterTypeOK
  PROVE  /\ full \in Nat /\ Lag \in Nat /\ Minute \in Nat
         /\ Recovery \in Nat /\ Recovery >= full /\ Idle = Recovery
         /\ Excess \in Nat /\ Excess >= full + 2 * Lag - Recovery
<1>1. full \in Nat /\ Lag \in Nat /\ Minute \in Nat
  BY FullAssumption, TimeAssumption DEF LimiterTypeOK
<1>2. Recovery \in Nat /\ Recovery >= full /\ Idle = Recovery
  BY <1>1 DEF Recovery, Idle, Most
<1>3. Excess \in Nat /\ Excess >= full + 2 * Lag - Recovery
  BY <1>1, <1>2 DEF Excess, Most
<1> QED BY <1>1, <1>2, <1>3

\* Whether a limiter is the same limiter.
LEMMA SameLimiter ==
  ASSUME full' = full
  PROVE  Recovery' = Recovery /\ Excess' = Excess
  BY DEF Recovery, Excess, Most

\* What a number of lapses adds.
LEMMA OneMore ==
  ASSUME NEW n \in Nat, NEW e \in Int
  PROVE  /\ n * e \in Int /\ (n + 1) * e = n * e + e
         /\ n = 0 => n * e = 0
         /\ e >= 0 => n * e >= 0
<1>1. n * e \in Int /\ (n + 1) * e = n * e + e /\ (n = 0 => n * e = 0)
  OBVIOUS
<1>2. e >= 0 => n * e >= 0
  OBVIOUS
<1> QED BY <1>1, <1>2

\* What a sweep leaves is part of the table and has been used lately.
LEMMA SweptPart ==
  ASSUME LimiterTypeOK, NEW at \in Times
  PROVE  /\ Swept(at) \subseteq table
         /\ at >= nextSweep => \A k \in Swept(at) : at - bucket[k].updated < Idle
         /\ at >= nextSweep =>
              \A k \in table \ Swept(at) : at - bucket[k].updated >= Idle
         /\ at < nextSweep => Swept(at) = table
<1>1. at \in Nat /\ nextSweep \in Nat /\ table \subseteq Keys
  BY DEF LimiterTypeOK, Times
<1>2. \A k \in table : at - bucket[k].updated \in Int
  BY DEF LimiterTypeOK, Times
<1>3. Idle \in Nat
  BY IdleLong
<1> QED BY <1>1, <1>2, <1>3 DEF Swept

\* The level of a bucket is what was left and the refill since, or a burst.
LEMMA LevelIs ==
  ASSUME LimiterTypeOK, NEW k \in Keys, NEW at \in Times, NEW kept \in SUBSET Keys
  PROVE  /\ Level(k, kept, at) \in Int
         /\ Level(k, kept, at) <= full
         /\ k \notin kept => Level(k, kept, at) = full
         /\ k \in kept =>
              /\ Level(k, kept, at) <= bucket[k].tokens + (at - bucket[k].updated)
              /\ \/ Level(k, kept, at) = full
                 \/ Level(k, kept, at) = bucket[k].tokens + (at - bucket[k].updated)
<1>1. full \in Nat
  BY IdleLong
<1>2. /\ at \in Nat /\ bucket[k].updated \in Nat /\ bucket[k].tokens \in Int
  BY DEF LimiterTypeOK, Times
<1> QED BY <1>1, <1>2 DEF Level, Least

\* What a bucket holds.
LEMMA BucketType ==
  ASSUME bucket \in [Keys -> [tokens : Int, updated : Times]]
  PROVE  \A k \in Keys : bucket[k].updated \in Nat /\ bucket[k].tokens \in Int
BY DEF Times

\* The limiter starts in the invariant.
LEMMA LimitInit == LimiterInit => LimitInv
<1> SUFFICES ASSUME LimiterInit
             PROVE  LimitInv
  OBVIOUS
<1>1. /\ 0 \in Times /\ now = 0 /\ table = {}
      /\ \A k \in Keys, s \in Times : spent[k][s] = 0 /\ lapses[k][s] = 0
  BY DEF LimiterInit, Times
<1>2. LimiterTypeOK
  <2>1. bucket \in [Keys -> [tokens : Int, updated : Times]]
    BY <1>1 DEF LimiterInit
  <2>2. spent \in [Keys -> [Times -> Nat]] /\ lapses \in [Keys -> [Times -> Nat]]
    BY DEF LimiterInit
  <2>3. stamp \in [Callers -> Times \cup {NoStamp}]
    BY DEF LimiterInit
  <2> QED BY <1>1, <2>1, <2>2, <2>3 DEF LimiterInit, LimiterTypeOK
<1>3. StampsFresh /\ SpentFollows
  BY <1>1 DEF LimiterInit, StampsFresh, SpentFollows, NoStamp
<1>4. SweptRecently /\ Solvent
  BY <1>1 DEF LimiterInit, SweptRecently, Solvent
<1>5. \A k \in Keys, s \in Times : /\ lapses[k][s] * Excess = 0
                                   /\ lapses[k][s] * (Recovery - Lag) = 0
  <2> SUFFICES ASSUME NEW k \in Keys, NEW s \in Times
               PROVE  lapses[k][s] * Excess = 0 /\ lapses[k][s] * (Recovery - Lag) = 0
    OBVIOUS
  <2>1. lapses[k][s] = 0 /\ lapses[k][s] \in Nat
    BY <1>1
  <2>2. Excess \in Int /\ Recovery - Lag \in Int
    BY <1>2, IdleLong
  <2> QED BY <2>1, <2>2, OneMore
<1>6. Forgotten
  BY <1>1, <1>5 DEF Forgotten, Times
<1>7. LapsesRare
  BY <1>1, <1>5 DEF LapsesRare, Times
<1> QED BY <1>2, <1>3, <1>4, <1>6, <1>7 DEF LimitInv

\* Reading the clock keeps the invariant.
LEMMA LimitRead ==
  ASSUME LimitInv, NEW c \in Callers, ReadClock(c)
  PROVE  LimitInv'
<1> USE DEF LimitInv
<1>1. now \in Times /\ now \in Nat
  BY DEF LimiterTypeOK, Times
<1>2. LimiterTypeOK'
  BY <1>1 DEF ReadClock, LimiterTypeOK
<1>3. StampsFresh'
  BY <1>1 DEF ReadClock, LimiterTypeOK, StampsFresh, Times
<1>4. Recovery' = Recovery /\ Excess' = Excess
  BY SameLimiter DEF ReadClock
<1>5. SweptRecently' /\ SpentFollows'
  BY <1>4 DEF ReadClock, SweptRecently, SpentFollows
<1>6. LapsesRare'
  BY <1>4 DEF ReadClock, LapsesRare
<1>7. Solvent' /\ Forgotten'
  BY <1>4 DEF ReadClock, Solvent, Forgotten
<1> QED BY <1>2, <1>3, <1>5, <1>6, <1>7

\* Nothing was spent, and nothing forgotten, since a time that is yet to come.
LEMMA NothingYet ==
  ASSUME LimiterTypeOK, SpentFollows, LapsesRare, NEW k \in Keys, NEW s \in Times, s > now
  PROVE  spent[k][s] = 0 /\ lapses[k][s] = 0
<1>1. /\ spent[k][s] \in Nat /\ lapses[k][s] \in Nat
      /\ s \in Nat /\ now \in Nat
  BY DEF LimiterTypeOK, Times
<1>2. ~ (spent[k][s] > 0)
  BY <1>1 DEF SpentFollows
<1>3. ~ (lapses[k][s] > 0)
  BY <1>2 DEF LapsesRare
<1> QED BY <1>1, <1>2, <1>3

\* The passing of time keeps the invariant.
LEMMA LimitTick ==
  ASSUME LimitInv, Tick
  PROVE  LimitInv'
<1> USE DEF LimitInv
<1>1. now \in Nat /\ now' = now + 1 /\ now' \in Times
  BY DEF Tick, LimiterTypeOK, Times
<1>2. LimiterTypeOK'
  BY <1>1 DEF Tick, LimiterTypeOK
<1>3. StampsFresh'
  <2>1. ASSUME NEW c \in Callers, stamp[c] # NoStamp
        PROVE  stamp[c] <= now' /\ now' <= stamp[c] + Lag
    <3>1. stamp[c] \in Nat /\ stamp[c] <= now
      BY <2>1 DEF LimiterTypeOK, StampsFresh, Times
    <3>2. now < stamp[c] + Lag
      BY <2>1 DEF Tick
    <3> QED BY <3>1, <3>2, <1>1
  <2>2. \A k \in Keys : bucket[k].updated <= now'
    BY <1>1 DEF StampsFresh, LimiterTypeOK, Times
  <2> QED BY <2>1, <2>2 DEF Tick, StampsFresh
<1>4. /\ Recovery' = Recovery /\ Excess' = Excess
      /\ bucket' = bucket /\ table' = table /\ nextSweep' = nextSweep
      /\ spent' = spent /\ lapses' = lapses
  BY SameLimiter DEF Tick
<1>5. SweptRecently'
  BY <1>1, <1>4 DEF LimiterTypeOK, SweptRecently
<1>6. SpentFollows'
  BY <1>1, <1>4 DEF LimiterTypeOK, SpentFollows, Times
<1>7. Excess \in Nat /\ Recovery - Lag \in Int
  BY IdleLong
<1>8. ASSUME NEW k \in Keys, NEW s \in Times, s <= now + 1
      PROVE  \/ s <= now
             \/ /\ s = now + 1 /\ spent[k][s] = 0
                /\ lapses[k][s] * Excess = 0 /\ lapses[k][s] * (Recovery - Lag) = 0
  <2>1. s \in Nat /\ lapses[k][s] \in Nat
    BY DEF LimiterTypeOK, Times
  <2>2. CASE s = now + 1
    <3>1. spent[k][s] = 0 /\ lapses[k][s] = 0
      BY <2>2, <1>1, NothingYet
    <3> QED BY <3>1, <2>1, <2>2, <1>7, OneMore
  <2> QED BY <2>1, <2>2, <1>1, <1>8
<1>9. LapsesRare'
  <2> SUFFICES ASSUME NEW k \in Keys, NEW s \in Times, s <= now + 1
               PROVE  lapses[k][s] * (Recovery - Lag) + s <= now + 1
    BY <1>1, <1>4 DEF LapsesRare
  <2>1. s \in Nat /\ lapses[k][s] * (Recovery - Lag) \in Int
    BY <1>7, OneMore DEF LimiterTypeOK, Times
  <2>2. s <= now => lapses[k][s] * (Recovery - Lag) + s <= now
    BY DEF LapsesRare
  <2> QED BY <2>1, <2>2, <1>1, <1>8
<1>10. Solvent'
  <2> SUFFICES ASSUME NEW k \in table
               PROVE  /\ bucket[k].tokens <= full
                      /\ bucket[k].tokens >= 0 - Lag
                      /\ bucket[k].tokens >= bucket[k].updated - (now + 1)
                      /\ \A s \in Times :
                           s <= bucket[k].updated + Lag
                             => spent[k][s] + bucket[k].tokens
                                  <= full + (bucket[k].updated + Lag - s)
                                       + lapses[k][s] * Excess
    BY <1>1, <1>4 DEF Tick, Solvent
  <2>1. bucket[k].tokens \in Int /\ bucket[k].updated \in Nat
    BY DEF LimiterTypeOK, Times
  <2>2. bucket[k].tokens >= bucket[k].updated - now
    BY DEF Solvent
  <2>3. bucket[k].tokens >= bucket[k].updated - (now + 1)
    BY <2>1, <2>2, <1>1
  <2> QED BY <2>3 DEF Solvent
<1>11. Forgotten'
  <2>1. ASSUME NEW k \in Keys \ table', NEW s \in Times, s <= now'
        PROVE  spent'[k][s] <= now' - s + lapses'[k][s] * Excess'
    <3>1. s \in Nat /\ spent[k][s] \in Nat /\ lapses[k][s] * Excess \in Int
      BY <1>7, OneMore DEF LimiterTypeOK, Times
    <3>2. k \in Keys \ table /\ s <= now + 1
      BY <2>1, <1>1, <1>4
    <3>3. s <= now => spent[k][s] <= now - s + lapses[k][s] * Excess
      BY <3>2 DEF Forgotten
    <3>4. spent[k][s] <= now' - s + lapses[k][s] * Excess
      BY <3>1, <3>2, <3>3, <1>1, <1>8
    <3> QED BY <3>4, <1>4, Zenon
  <2> QED BY <2>1, Zenon DEF Forgotten
<1> QED BY <1>2, <1>3, <1>5, <1>6, <1>9, <1>10, <1>11

\* A key the sweep forgets has regained a burst, but for the excess, and is not
\* forgotten before it has recovered; n counts its lapses.
LEMMA SweptForgotten ==
  ASSUME LimitInv, NEW at \in Times, at <= now, now <= at + Lag,
         NEW k \in Keys \ Swept(at), NEW s \in Times, s <= now,
         NEW n, n = IF k \in table /\ spent[k][s] > 0 THEN lapses[k][s] + 1
                                                      ELSE lapses[k][s]
  PROVE  /\ spent[k][s] <= now - s + n * Excess
         /\ n * (Recovery - Lag) + s <= now
         /\ n > 0 => spent[k][s] > 0
<1> USE DEF LimitInv
<1>1. /\ now \in Nat /\ at \in Nat /\ s \in Nat /\ spent[k][s] \in Nat
      /\ lapses[k][s] \in Nat
  BY DEF LimiterTypeOK, Times
<1>2. /\ full \in Nat /\ Lag \in Nat /\ Recovery \in Nat /\ Idle = Recovery
      /\ Excess \in Nat /\ Excess >= full + 2 * Lag - Recovery
  BY IdleLong
<1>3. lapses[k][s] > 0 => spent[k][s] > 0
  BY DEF LapsesRare
<1>4. CASE k \notin table
  <2>1. n = lapses[k][s]
    BY <1>4
  <2>2. spent[k][s] <= now - s + lapses[k][s] * Excess
    BY <1>4 DEF Forgotten
  <2>3. lapses[k][s] * (Recovery - Lag) + s <= now
    BY DEF LapsesRare
  <2> QED BY <2>1, <2>2, <2>3, <1>3
<1>5. CASE k \in table /\ ~ (spent[k][s] > 0)
  <2>1. n = 0 /\ spent[k][s] = 0
    BY <1>1, <1>3, <1>5
  <2>2. n * Excess = 0 /\ n * (Recovery - Lag) = 0
    BY <2>1, <1>2, OneMore
  <2> QED BY <2>1, <2>2, <1>1
<1>6. CASE k \in table /\ spent[k][s] > 0
  <2>1. at >= nextSweep /\ at - bucket[k].updated >= Recovery
    <3>1. nextSweep \in Nat
      BY DEF LimiterTypeOK
    <3>2. at >= nextSweep
      BY <3>1, <1>1, <1>6, SweptPart
    <3> QED BY <3>2, <1>2, <1>6, SweptPart
  <2>2. bucket[k].updated \in Nat /\ bucket[k].tokens \in Int
    BY BucketType DEF LimiterTypeOK
  <2>3. s <= bucket[k].updated + Lag
    BY <1>6 DEF SpentFollows
  <2>4. /\ bucket[k].tokens >= 0 - Lag
        /\ spent[k][s] + bucket[k].tokens
             <= full + (bucket[k].updated + Lag - s) + lapses[k][s] * Excess
    BY <1>6, <2>3 DEF Solvent
  <2>5. lapses[k][s] * (Recovery - Lag) + s <= bucket[k].updated + Lag
    BY <1>6 DEF LapsesRare
  <2>6. /\ n = lapses[k][s] + 1
        /\ lapses[k][s] * Excess \in Int
        /\ n * Excess = lapses[k][s] * Excess + Excess
    <3>1. n = lapses[k][s] + 1
      BY <1>6
    <3>2. Excess \in Int
      BY <1>2
    <3> QED BY <3>1, <3>2, <1>1, OneMore
  <2>7. /\ lapses[k][s] * (Recovery - Lag) \in Int
        /\ n * (Recovery - Lag) = lapses[k][s] * (Recovery - Lag) + (Recovery - Lag)
    <3>1. Recovery - Lag \in Int
      BY <1>2
    <3> QED BY <3>1, <2>6, <1>1, OneMore
  <2>8. PICK e \in Int : e = lapses[k][s] * Excess
    BY <2>6
  <2>9. PICK r \in Int : r = lapses[k][s] * (Recovery - Lag)
    BY <2>7
  <2>10. spent[k][s] <= now - s + (e + Excess)
    <3>1. spent[k][s] + bucket[k].tokens <= full + (bucket[k].updated + Lag - s) + e
      BY <2>4, <2>8
    <3>2. bucket[k].tokens >= 0 - Lag
      BY <2>4
    <3> QED BY <3>1, <3>2, <2>1, <2>2, <1>1, <1>2
  <2>11. (r + (Recovery - Lag)) + s <= now
    <3>1. r + s <= bucket[k].updated + Lag
      BY <2>5, <2>9
    <3> QED BY <3>1, <2>1, <2>2, <1>1, <1>2
  <2> QED BY <2>6, <2>7, <2>8, <2>9, <2>10, <2>11, <1>6
<1> QED BY <1>4, <1>5, <1>6

\* A call keeps the invariant, whichever way it goes.
LEMMA LimitAllow ==
  ASSUME LimitInv, NEW c \in Callers, NEW k \in Keys, Allow(c, k)
  PROVE  LimitInv'
<1> USE DEF LimitInv
<1> DEFINE at == stamp[c]
           kept == Swept(at)
           pays == Admits(k, kept, at)
           level == Level(k, kept, at)
<1>1. /\ at \in Times /\ at \in Nat /\ now \in Times /\ now \in Nat
      /\ at <= now /\ now <= at + Lag
  BY DEF Allow, LimiterTypeOK, StampsFresh, Times, NoStamp
<1>2. /\ stamp' = [stamp EXCEPT ![c] = NoStamp]
      /\ nextSweep' = IF at < nextSweep THEN nextSweep ELSE at + Minute
      /\ lapses' = [i \in Keys |-> [s \in Times |->
                     IF i \in table \ kept /\ spent[i][s] > 0
                     THEN lapses[i][s] + 1 ELSE lapses[i][s]]]
      /\ now' = now /\ full' = full
  BY DEF Allow
<1>3. kept \subseteq table /\ kept \subseteq Keys
  BY <1>1, SweptPart DEF LimiterTypeOK
<1>4. level \in Int /\ level <= full /\ (pays <=> level >= Cost)
  BY <1>1, <1>3, LevelIs DEF Admits
<1>5. nextSweep' \in Nat /\ nextSweep' <= now + Minute
  BY <1>1, <1>2 DEF SweptRecently, LimiterTypeOK
<1>6. /\ full \in Nat /\ Lag \in Nat /\ Minute \in Nat /\ Recovery \in Nat /\ Idle = Recovery
      /\ Excess \in Nat /\ Recovery - Lag \in Int
  BY IdleLong
<1>7. Recovery' = Recovery /\ Excess' = Excess
  BY <1>2, SameLimiter
<1>8. \A i \in kept : \/ bucket[i].updated > nextSweep' - Minute - Recovery
                      \/ bucket[i].updated >= nextSweep' - Minute - Lag
  <2> SUFFICES ASSUME NEW i \in kept
               PROVE  \/ bucket[i].updated > nextSweep' - Minute - Recovery
                      \/ bucket[i].updated >= nextSweep' - Minute - Lag
    OBVIOUS
  <2>1. bucket[i].updated \in Nat /\ nextSweep \in Nat /\ i \in table
    BY <1>3 DEF LimiterTypeOK, Times
  <2>2. CASE at < nextSweep
    BY <2>1, <2>2, <1>2 DEF SweptRecently
  <2>3. CASE at >= nextSweep
    <3>1. at - bucket[i].updated < Recovery
      BY <2>3, <1>1, <1>6, SweptPart
    <3>2. nextSweep' = at + Minute
      BY <2>3, <2>1, <1>1, <1>2
    <3> QED BY <3>1, <3>2, <2>1, <1>1, <1>6
  <2> QED BY <2>1, <2>2, <2>3, <1>1
<1>9. lapses' \in [Keys -> [Times -> Nat]]
  BY <1>2 DEF LimiterTypeOK
<1>10. \A i \in kept, s \in Times : lapses'[i][s] = lapses[i][s]
  BY <1>2, <1>3
<1>11. ASSUME NEW i \in Keys \ kept, NEW s \in Times, s <= now
       PROVE  /\ spent[i][s] <= now - s + lapses'[i][s] * Excess
              /\ lapses'[i][s] * (Recovery - Lag) + s <= now
              /\ lapses'[i][s] > 0 => spent[i][s] > 0
  <2>1. lapses'[i][s] = IF i \in table /\ spent[i][s] > 0 THEN lapses[i][s] + 1
                                                          ELSE lapses[i][s]
    BY <1>2
  <2> QED BY <2>1, <1>1, <1>11, SweptForgotten
<1>12. ASSUME NEW i \in Keys, NEW s \in Times
       PROVE  /\ lapses'[i][s] > 0 => spent[i][s] > 0
              /\ s <= now => lapses'[i][s] * (Recovery - Lag) + s <= now
              /\ i \in kept /\ spent[i][s] > 0 =>
                   lapses'[i][s] * (Recovery - Lag) + s <= bucket[i].updated + Lag
  <2>1. CASE i \in kept
    <3>1. lapses'[i][s] = lapses[i][s] /\ i \in table
      BY <2>1, <1>3, <1>10
    <3> QED BY <3>1, <2>1 DEF LapsesRare
  <2>2. CASE i \notin kept /\ s <= now
    BY <2>2, <1>11
  <2>3. CASE i \notin kept /\ ~ (s <= now)
    <3>1. s > now
      BY <2>3, <1>1 DEF Times
    <3>2. spent[i][s] = 0 /\ lapses[i][s] = 0
      BY <3>1, NothingYet
    <3>3. lapses'[i][s] = 0
      BY <3>2, <1>2
    <3> QED BY <3>3, <2>3
  <2> QED BY <2>1, <2>2, <2>3
<1>13. \A i \in kept :
         /\ bucket[i].tokens <= full
         /\ bucket[i].tokens >= 0 - Lag
         /\ bucket[i].tokens >= bucket[i].updated - now
         /\ \A s \in Times :
              s <= bucket[i].updated + Lag
                => spent[i][s] + bucket[i].tokens
                     <= full + (bucket[i].updated + Lag - s) + lapses'[i][s] * Excess
  BY <1>3, <1>10 DEF Solvent
<1> HIDE DEF kept
<1>14. CASE /\ table' = kept
            /\ refused' = TRUE
            /\ UNCHANGED <<bucket, spent>>
  <2>1. LimiterTypeOK'
    BY <1>14, <1>2, <1>3, <1>5, <1>9 DEF LimiterTypeOK
  <2>2. StampsFresh'
    BY <1>14, <1>2 DEF StampsFresh, LimiterTypeOK
  <2>3. SweptRecently'
    BY <1>14, <1>2, <1>5, <1>7, <1>8 DEF SweptRecently
  <2>4. SpentFollows'
    BY <1>14, <1>2 DEF SpentFollows
  <2>5. LapsesRare'
    BY <1>14, <1>2, <1>7, <1>12 DEF LapsesRare
  <2>6. Solvent'
    BY <1>14, <1>2, <1>7, <1>13 DEF Solvent
  <2>7. Forgotten'
    BY <1>14, <1>2, <1>7, <1>11 DEF Forgotten
  <2> QED BY <2>1, <2>2, <2>3, <2>4, <2>5, <2>6, <2>7
<1>15. CASE /\ table' = kept \cup {k}
            /\ bucket' = [bucket EXCEPT ![k] =
                            [tokens |-> IF pays THEN level - Cost ELSE level,
                             updated |-> at]]
            /\ spent' = [spent EXCEPT ![k] =
                           [s \in Times |-> IF pays /\ s <= now
                                            THEN @[s] + Cost ELSE @[s]]]
            /\ refused' = FALSE
  <2> HIDE DEF pays, level
  <2>1. /\ bucket'[k] = [tokens |-> IF pays THEN level - Cost ELSE level,
                         updated |-> at]
        /\ \A i \in Keys \ {k} : bucket'[i] = bucket[i]
        /\ bucket' \in [Keys -> [tokens : Int, updated : Times]]
    BY <1>1, <1>4, <1>15 DEF LimiterTypeOK
  <2>2. /\ \A s \in Times : spent'[k][s] = IF pays /\ s <= now
                                           THEN spent[k][s] + Cost ELSE spent[k][s]
        /\ \A i \in Keys \ {k} : spent'[i] = spent[i]
        /\ \A i \in Keys, s \in Times : spent[i][s] \in Nat
        /\ spent' \in [Keys -> [Times -> Nat]]
    BY <1>1, <1>15 DEF LimiterTypeOK
  <2>3. LimiterTypeOK'
    <3>1. full' \in Fulls /\ now' \in Times /\ nextSweep' \in Nat
      BY <1>1, <1>2, <1>5 DEF LimiterTypeOK
    <3>2. stamp' \in [Callers -> Times \cup {NoStamp}]
      BY <1>2 DEF LimiterTypeOK
    <3>3. table' \subseteq Keys /\ refused' \in BOOLEAN
      BY <1>3, <1>15
    <3> QED BY <2>1, <2>2, <3>1, <3>2, <3>3, <1>9 DEF LimiterTypeOK
  <2>4. StampsFresh'
    <3>1. \A i \in Keys : bucket'[i].updated <= now
      BY <2>1, <1>1 DEF StampsFresh
    <3>2. \A d \in Callers : stamp'[d] = NoStamp \/ stamp'[d] = stamp[d]
      BY <1>2 DEF LimiterTypeOK
    <3> QED BY <3>1, <3>2, <1>2 DEF StampsFresh
  <2>5. SweptRecently'
    <3>1. at >= nextSweep' - Minute - Lag
      BY <1>1, <1>5, <1>6
    <3>2. \A i \in kept \cup {k} : \/ bucket'[i].updated > nextSweep' - Minute - Recovery
                                   \/ bucket'[i].updated >= nextSweep' - Minute - Lag
      BY <3>1, <2>1, <1>3, <1>8
    <3> QED BY <3>2, <1>2, <1>5, <1>7, <1>15 DEF SweptRecently
  <2>6. SpentFollows'
    <3> SUFFICES ASSUME NEW i \in Keys, NEW s \in Times, spent'[i][s] > 0
                 PROVE  s <= now /\ s <= bucket'[i].updated + Lag
      BY <1>2 DEF SpentFollows
    <3>1. CASE i # k
      BY <3>1, <2>1, <2>2 DEF SpentFollows
    <3>2. CASE i = k
      <4>1. s \in Nat /\ bucket'[k].updated = at
        BY <2>1 DEF Times
      <4>2. s <= now
        BY <3>2, <2>2, <1>1 DEF SpentFollows
      <4> QED BY <3>2, <4>1, <4>2, <1>1, <1>6
    <3> QED BY <3>1, <3>2
  <2>7. LapsesRare'
    <3> SUFFICES ASSUME NEW i \in Keys, NEW s \in Times
                 PROVE  /\ lapses'[i][s] > 0 => spent'[i][s] > 0
                        /\ s <= now => lapses'[i][s] * (Recovery - Lag) + s <= now
                        /\ i \in kept \cup {k} /\ spent'[i][s] > 0 =>
                             lapses'[i][s] * (Recovery - Lag) + s <= bucket'[i].updated + Lag
      BY <1>2, <1>7, <1>15 DEF LapsesRare
    <3>1. spent'[i][s] >= spent[i][s] /\ spent'[i][s] \in Nat /\ spent[i][s] \in Nat
      <4>1. CASE i = k
        BY <4>1, <2>2
      <4>2. CASE i # k
        BY <4>2, <2>2
      <4> QED BY <4>1, <4>2
    <3>2. lapses'[i][s] > 0 => spent'[i][s] > 0
      BY <3>1, <1>12
    <3>3. s <= now => lapses'[i][s] * (Recovery - Lag) + s <= now
      BY <1>12
    <3>4. ASSUME i = k, spent'[i][s] > 0
          PROVE  lapses'[i][s] * (Recovery - Lag) + s <= bucket'[i].updated + Lag
      <4>1. s <= now /\ s \in Nat /\ bucket'[i].updated = at
        BY <3>4, <2>1, <2>6, <1>2 DEF SpentFollows, Times
      <4>2. PICK r \in Int : r = lapses'[i][s] * (Recovery - Lag)
        BY <1>6, <1>9, OneMore
      <4> QED BY <4>1, <4>2, <3>3, <1>1, <1>6
    <3>5. ASSUME i # k, i \in kept, spent'[i][s] > 0
          PROVE  lapses'[i][s] * (Recovery - Lag) + s <= bucket'[i].updated + Lag
      BY <3>5, <2>1, <2>2, <1>12
    <3> QED BY <3>2, <3>3, <3>4, <3>5
  <2>8. Solvent'
    <3> SUFFICES ASSUME NEW i \in kept \cup {k}
                 PROVE  /\ bucket'[i].tokens <= full
                        /\ bucket'[i].tokens >= 0 - Lag
                        /\ bucket'[i].tokens >= bucket'[i].updated - now
                        /\ \A s \in Times :
                             s <= bucket'[i].updated + Lag
                               => spent'[i][s] + bucket'[i].tokens
                                    <= full + (bucket'[i].updated + Lag - s)
                                         + lapses'[i][s] * Excess
      BY <1>2, <1>7, <1>15 DEF Solvent
    <3>1. CASE i # k
      BY <3>1, <2>1, <2>2, <1>3, <1>13
    <3>2. CASE i = k
      <4>1. bucket'[k].updated = at /\ bucket'[k].tokens = IF pays THEN level - Cost ELSE level
        BY <2>1
      <4>2. bucket'[k].tokens <= full
        BY <4>1, <1>4, <1>6
      <4>3. /\ bucket[k].updated \in Nat /\ bucket[k].tokens \in Int
            /\ bucket[k].updated <= now
        BY DEF LimiterTypeOK, Times, StampsFresh
      <4>4. k \in kept => /\ bucket[k].tokens >= bucket[k].updated - now
                          /\ level <= bucket[k].tokens + (at - bucket[k].updated)
                          /\ \/ level = full
                             \/ level = bucket[k].tokens + (at - bucket[k].updated)
        BY <1>1, <1>3, <1>13, LevelIs DEF level
      <4>5. k \notin kept => level = full
        BY <1>1, <1>3, LevelIs DEF level
      <4>6. level >= at - now
        BY <4>3, <4>4, <4>5, <1>1, <1>6
      <4>7. bucket'[k].tokens >= at - now
        BY <4>1, <4>6, <1>1, <1>4
      <4>8. ASSUME NEW s \in Times, s <= at + Lag
            PROVE  spent'[k][s] + bucket'[k].tokens
                     <= full + (at + Lag - s) + lapses'[k][s] * Excess
        <5>1. s \in Nat /\ spent[k][s] \in Nat
          BY <2>2 DEF Times
        <5>2. PICK e \in Int : e = lapses'[k][s] * Excess /\ e >= 0
          BY <1>6, <1>9, OneMore
        <5>3. CASE s > now
          <6>1. spent[k][s] = 0
            BY <5>3, NothingYet
          <6>2. spent'[k][s] = spent[k][s]
            BY <5>3, <5>1, <2>2, <1>1
          <6> QED BY <6>1, <6>2, <5>1, <5>2, <4>1, <4>2, <4>8, <1>1, <1>4, <1>6
        <5>4. CASE s <= now
          <6>1. spent'[k][s] + bucket'[k].tokens = spent[k][s] + level
            BY <5>1, <5>4, <4>1, <2>2, <1>1, <1>4
          <6>2. CASE k \notin kept
            <7>1. spent[k][s] <= now - s + e
              BY <6>2, <5>2, <5>4, <1>11
            <7> QED BY <7>1, <6>1, <6>2, <5>1, <5>2, <4>5, <1>1, <1>6
          <6>3. CASE k \in kept /\ s <= bucket[k].updated + Lag
            <7>1. spent[k][s] + bucket[k].tokens <= full + (bucket[k].updated + Lag - s) + e
              BY <6>3, <5>2, <1>13
            <7> QED BY <7>1, <6>1, <6>3, <5>1, <5>2, <4>3, <4>4, <1>1, <1>4, <1>6
          <6>4. CASE k \in kept /\ ~ (s <= bucket[k].updated + Lag)
            <7>1. ~ (spent[k][s] > 0)
              BY <6>4 DEF SpentFollows
            <7> QED BY <7>1, <6>1, <5>1, <5>2, <4>8, <1>1, <1>4, <1>6
          <6> QED BY <6>2, <6>3, <6>4
        <5> QED BY <5>1, <5>3, <5>4, <1>1
      <4> QED BY <3>2, <4>1, <4>2, <4>7, <4>8, <1>1, <1>4, <1>6
    <3> QED BY <3>1, <3>2
  <2>9. Forgotten'
    <3> SUFFICES ASSUME NEW i \in Keys \ (kept \cup {k}), NEW s \in Times, s <= now
                 PROVE  spent[i][s] <= now - s + lapses'[i][s] * Excess
      BY <2>2, <1>2, <1>7, <1>15 DEF Forgotten
    <3> QED BY <1>11
  <2> QED BY <2>3, <2>4, <2>5, <2>6, <2>7, <2>8, <2>9
<1> QED BY <1>14, <1>15 DEF Allow, kept

\* The invariant of the limiter, for every rate: a bucket and what was admitted
\* from it never add up to more than a burst and the refill, but for the excess
\* of the times it was forgotten, and it is forgotten only when it has recovered.
THEOREM LimiterInvariant == LimiterSpec => []LimitInv
<1>1. LimitInv /\ [LimiterNext]_limiterVars => LimitInv'
  <2> SUFFICES ASSUME LimitInv, [LimiterNext]_limiterVars
               PROVE  LimitInv'
    OBVIOUS
  <2>1. ASSUME NEW c \in Callers, ReadClock(c)
        PROVE  LimitInv'
    BY <2>1, LimitRead
  <2>2. ASSUME NEW c \in Callers, NEW k \in Keys, Allow(c, k)
        PROVE  LimitInv'
    BY <2>2, LimitAllow
  <2>3. CASE Tick
    BY <2>3, LimitTick
  <2>4. CASE UNCHANGED limiterVars
    <3>1. Recovery' = Recovery /\ Excess' = Excess
      BY <2>4, SameLimiter DEF limiterVars
    <3>2. LimiterTypeOK' /\ StampsFresh' /\ SweptRecently' /\ SpentFollows'
      BY <2>4, <3>1 DEF limiterVars, LimitInv, LimiterTypeOK, StampsFresh, SweptRecently,
                       SpentFollows
    <3>3. LapsesRare' /\ Solvent' /\ Forgotten'
      BY <2>4, <3>1 DEF limiterVars, LimitInv, LapsesRare, Solvent, Forgotten
    <3> QED BY <3>2, <3>3 DEF LimitInv
  <2> QED BY <2>1, <2>2, <2>3, <2>4 DEF LimiterNext
<1> QED BY LimitInit, <1>1, PTL DEF LimiterSpec

\* Whatever the rate, no client is admitted more than a burst, the refill of the
\* time that has passed and the lag; a sweep that forgets it adds no more than the
\* excess, once in the time in which its bucket recovers.
THEOREM BurstAndRefill == LimiterSpec => []LimitKept
<1>1. LimitInv => LimitKept
  <2> SUFFICES ASSUME LimitInv, NEW k \in Keys, NEW s \in Times, s <= now
               PROVE  /\ spent[k][s] <= full + (now - s) + Lag + lapses[k][s] * Excess
                      /\ lapses[k][s] * (Recovery - Lag) <= now - s
    BY DEF LimitKept
  <2> USE DEF LimitInv
  <2>1. /\ now \in Nat /\ s \in Nat /\ spent[k][s] \in Nat /\ lapses[k][s] \in Nat
        /\ bucket[k].updated \in Nat /\ bucket[k].tokens \in Int
        /\ bucket[k].updated <= now
    BY DEF LimiterTypeOK, StampsFresh, Times
  <2>2. full \in Nat /\ Lag \in Nat /\ Excess \in Nat /\ Recovery - Lag \in Int
    BY IdleLong
  <2>3. PICK e \in Int : e = lapses[k][s] * Excess /\ e >= 0
    BY <2>1, <2>2, OneMore
  <2>4. PICK r \in Int : r = lapses[k][s] * (Recovery - Lag)
    BY <2>1, <2>2, OneMore
  <2>5. r <= now - s
    <3>1. r + s <= now
      BY <2>4 DEF LapsesRare
    <3> QED BY <3>1, <2>1
  <2>6. CASE k \notin table
    <3>1. spent[k][s] <= now - s + e
      BY <2>3, <2>6 DEF Forgotten
    <3> QED BY <3>1, <2>1, <2>2, <2>3, <2>4, <2>5
  <2>7. CASE k \in table /\ s <= bucket[k].updated + Lag
    <3>1. /\ bucket[k].tokens >= bucket[k].updated - now
          /\ spent[k][s] + bucket[k].tokens <= full + (bucket[k].updated + Lag - s) + e
      BY <2>3, <2>7 DEF Solvent
    <3> QED BY <3>1, <2>1, <2>2, <2>3, <2>4, <2>5
  <2>8. CASE k \in table /\ ~ (s <= bucket[k].updated + Lag)
    <3>1. ~ (spent[k][s] > 0)
      BY <2>8 DEF SpentFollows
    <3> QED BY <3>1, <2>1, <2>2, <2>3, <2>4, <2>5
  <2> QED BY <2>6, <2>7, <2>8
<1> QED BY <1>1, LimiterInvariant, PTL

\* Whatever the rate, a client is turned away for want of room only while every
\* bucket of the table was used less than a sweep and a recovery ago.
THEOREM RoomComesBack == LimiterSpec => RefusedWhenBusy
<1> DEFINE Busy == \A c \in Callers :
       stamp[c] # NoStamp /\ stamp'[c] = NoStamp /\ refused'
         => \A k \in table' : stamp[c] - bucket[k].updated < Minute + Most(Recovery, Lag)
<1>1. ASSUME LimitInv, [LimiterNext]_limiterVars
      PROVE  [Busy]_limiterVars
  <2> SUFFICES ASSUME NEW c \in Callers, stamp[c] # NoStamp, stamp'[c] = NoStamp, refused',
                      NEW k \in table'
               PROVE  stamp[c] - bucket[k].updated < Minute + Most(Recovery, Lag)
    OBVIOUS
  <2> USE <1>1 DEF LimitInv
  <2>1. PICK i \in Keys : Allow(c, i)
    <3>1. ASSUME NEW d \in Callers, ReadClock(d)
          PROVE  FALSE
      BY <3>1 DEF ReadClock, LimiterTypeOK, Times, NoStamp
    <3>2. ASSUME NEW d \in Callers, NEW i \in Keys, Allow(d, i)
          PROVE  d = c
      BY <3>2 DEF Allow, LimiterTypeOK
    <3> QED BY <3>1, <3>2, <1>1 DEF LimiterNext, Tick, limiterVars
  <2>2. stamp[c] \in Times /\ stamp[c] \in Nat /\ k \in Swept(stamp[c])
    BY <2>1 DEF Allow, LimiterTypeOK, Times
  <2>3. k \in table /\ bucket[k].updated \in Nat /\ nextSweep \in Nat
    <3>1. k \in table
      BY <2>2, SweptPart
    <3> QED BY <3>1 DEF LimiterTypeOK, Times
  <2>4. /\ Lag \in Nat /\ Minute \in Nat /\ Recovery \in Nat /\ Idle = Recovery
    BY IdleLong
  <2>5. /\ Most(Recovery, Lag) \in Nat
        /\ Most(Recovery, Lag) >= Recovery /\ Most(Recovery, Lag) >= Lag
    BY <2>4 DEF Most
  <2>6. CASE stamp[c] >= nextSweep
    <3>1. stamp[c] - bucket[k].updated < Recovery
      BY <2>2, <2>4, <2>6, SweptPart
    <3> QED BY <3>1, <2>2, <2>3, <2>4, <2>5
  <2>7. CASE stamp[c] < nextSweep
    <3>1. \/ bucket[k].updated > nextSweep - Minute - Recovery
          \/ bucket[k].updated >= nextSweep - Minute - Lag
      BY <2>3 DEF SweptRecently
    <3> QED BY <3>1, <2>2, <2>3, <2>4, <2>5, <2>7
  <2> QED BY <2>2, <2>3, <2>6, <2>7
<1> QED BY <1>1, LimiterInvariant, PTL DEF LimiterSpec, RefusedWhenBusy

=============================================================================
