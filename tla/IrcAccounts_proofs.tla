------------------------- MODULE IrcAccounts_proofs -------------------------
(***************************************************************************)
(* Proofs about the manager of IRC connections, its warmups and its        *)
(* router, for every set of callers, accounts, pools and identities, any   *)
(* number of connections and warmups, and every setting of the limits.     *)
(* First the leases and what follows from them for timers and statuses,    *)
(* then the router's channel, then the warmups, then the endpoints.        *)
(***************************************************************************)
EXTENDS IrcAccounts, FiniteSetTheorems, TLAPS

-----------------------------------------------------------------------------
(* Types.                                                                  *)

LEMMA ConnFields ==
  ASSUME NEW k \in Conn
  PROVE  /\ k.who \in Descriptors /\ k.leases \in Nat /\ k.closing \in BOOLEAN
         /\ k.cancelled \in BOOLEAN /\ k.epoch \in Nat /\ k.timer \in Nat
         /\ k.left \in Nat /\ k.fired \in SUBSET Nat /\ k.rest \in Nat
         /\ k.stage \in Stages /\ k.warm \in Nat /\ k.channel \in Nat
         /\ k.selected \in Nat /\ k.slot \in [Addresses -> Endpoint]
  BY DEF Conn

LEMMA WarmFields ==
  ASSUME NEW k \in Warm
  PROVE  /\ k.who \in Descriptors /\ k.cancelled \in BOOLEAN
         /\ k.claimed \in BOOLEAN /\ k.closing \in BOOLEAN
         /\ k.listed \in BOOLEAN /\ k.channel \in Nat /\ k.failed \in BOOLEAN
         /\ k.handed \in BOOLEAN /\ k.released \in BOOLEAN
         /\ k.stage \in WarmStages /\ k.endpoint \in Endpoint
  BY DEF Warm

LEMMA DescriptorFields ==
  ASSUME NEW d \in Descriptors
  PROVE  /\ d.id \in Ids /\ d.pool \in Seq(Addresses) /\ Len(d.pool) \in Nat \ {0}
         /\ \A i \in 1..Len(d.pool) : d.pool[i] \in Addresses
         /\ Len(d.pool) <= PoolSize
         /\ Primary(d) \in Pool(d) /\ Pool(d) \subseteq Addresses
  BY AccountAssumption DEF AccountAssumption, Primary, Pool

LEMMA StageNames ==
  /\ Stages = {"unused", "start", "warming", "waiting", "loop", "serving",
               "leaving", "closing", "reporting", "removing", "gone"}
  /\ Endpoint = {"none", "creating", "live", "failed"}
  BY DEF Stages, Endpoint

\* What the manager's books say of a connection is the same.
SameBooks(k, l) ==
  /\ l.who = k.who /\ l.leases = k.leases /\ l.closing = k.closing
  /\ l.cancelled = k.cancelled /\ l.epoch = k.epoch /\ l.timer = k.timer
  /\ l.left = k.left /\ l.fired = k.fired /\ l.rest = k.rest

LEMMA StoppedIs ==
  ASSUME NEW k \in Conn, NEW l, l = Stopped(k)
  PROVE  /\ l \in Conn /\ l.closing /\ l.cancelled /\ l.timer = 0
         /\ l.who = k.who /\ l.leases = k.leases /\ l.fired = k.fired
         /\ l.stage = k.stage /\ l.warm = k.warm
         /\ l.channel = k.channel /\ l.selected = k.selected /\ l.slot = k.slot
<1>1. PICK n \in Nat : n = k.epoch + 1
  BY ConnFields
<1>2. PICK m : m = [k EXCEPT !.epoch = n, !.timer = 0, !.left = 0]
  OBVIOUS
<1>3. l = [m EXCEPT !.closing = TRUE, !.cancelled = TRUE]
  BY <1>1, <1>2, ConnFields DEF Stopped, Conn
<1>4. /\ m \in Conn /\ m.who = k.who /\ m.leases = k.leases /\ m.fired = k.fired
      /\ m.stage = k.stage /\ m.warm = k.warm /\ m.timer = 0
      /\ m.channel = k.channel /\ m.selected = k.selected /\ m.slot = k.slot
  BY <1>2, ConnFields DEF Conn
<1> QED BY <1>3, <1>4, ConnFields DEF Conn

LEMMA LeasedIs ==
  ASSUME NEW k \in Conn, k.who.id # Observer, NEW l, l = Leased(k)
  PROVE  /\ l \in Conn /\ l.leases = k.leases + 1 /\ l.epoch = k.epoch + 1
         /\ l.timer = 0 /\ l.fired = k.fired
         /\ l.who = k.who /\ l.closing = k.closing /\ l.cancelled = k.cancelled
         /\ l.stage = k.stage /\ l.warm = k.warm
         /\ l.channel = k.channel /\ l.selected = k.selected /\ l.slot = k.slot
<1>1. PICK n \in Nat : n = k.epoch + 1
  BY ConnFields
<1>2. PICK m \in Nat : m = k.leases + 1
  BY ConnFields
<1>3. l = [k EXCEPT !.leases = m, !.epoch = n, !.timer = 0, !.left = 0,
                    !.rest = 0]
  BY <1>1, <1>2 DEF Leased
<1>5. PICK b : b = [k EXCEPT !.epoch = n, !.timer = 0, !.left = 0]
  OBVIOUS
<1>6. l = [b EXCEPT !.leases = m, !.rest = 0]
  BY <1>3, <1>5, ConnFields DEF Conn
<1>7. /\ b \in Conn /\ b.epoch = n /\ b.timer = 0 /\ b.left = 0
      /\ b.fired = k.fired /\ b.who = k.who /\ b.closing = k.closing
      /\ b.cancelled = k.cancelled /\ b.stage = k.stage /\ b.warm = k.warm
      /\ b.channel = k.channel /\ b.selected = k.selected /\ b.slot = k.slot
  BY <1>5, ConnFields DEF Conn
<1>4. /\ l \in Conn /\ l.leases = m /\ l.epoch = n
      /\ l.timer = 0 /\ l.fired = k.fired
      /\ l.who = k.who /\ l.closing = k.closing /\ l.cancelled = k.cancelled
      /\ l.stage = k.stage /\ l.warm = k.warm
      /\ l.channel = k.channel /\ l.selected = k.selected /\ l.slot = k.slot
  BY ZenonT(60), <1>6, <1>7, ConnFields DEF Conn
<1> QED BY <1>1, <1>2, <1>4

LEMMA ReleasedIs ==
  ASSUME NEW k \in Conn, k.leases > 0, NEW l, l = Released(k)
  PROVE  /\ l \in Conn /\ l.leases = k.leases - 1
         /\ \/ k.leases > 1 /\ l.epoch = k.epoch /\ l.timer = k.timer
            \/ /\ l.leases = 0 /\ l.epoch = k.epoch + 1 /\ l.timer = k.epoch + 1
               /\ l.left = Grace /\ l.rest = 0
         /\ l.fired = k.fired
         /\ l.who = k.who /\ l.closing = k.closing /\ l.cancelled = k.cancelled
         /\ l.stage = k.stage /\ l.warm = k.warm
         /\ l.channel = k.channel /\ l.selected = k.selected /\ l.slot = k.slot
<1>1. PICK n \in Nat : n = k.epoch + 1
  BY ConnFields
<1>2. PICK m \in Nat : m = k.leases - 1
  BY ConnFields
<1>3. CASE k.leases > 1
  <2>1. l = [k EXCEPT !.leases = m]
    BY <1>2, <1>3 DEF Released
  <2>2. /\ l \in Conn /\ l.leases = m /\ l.epoch = k.epoch
        /\ l.timer = k.timer /\ l.fired = k.fired
        /\ l.who = k.who /\ l.closing = k.closing /\ l.cancelled = k.cancelled
        /\ l.stage = k.stage /\ l.warm = k.warm
        /\ l.channel = k.channel /\ l.selected = k.selected /\ l.slot = k.slot
    BY <2>1, ConnFields DEF Conn
  <2> QED BY <1>2, <1>3, <2>2
<1>4. CASE ~(k.leases > 1)
  <2>1. l = [k EXCEPT !.leases = m, !.epoch = n, !.timer = n, !.left = Grace,
                      !.rest = 0]
    BY <1>1, <1>2, <1>4 DEF Released
  <2>0. Grace \in Nat
    BY AccountAssumption DEF AccountAssumption
  <2>4. PICK b : b = [k EXCEPT !.epoch = n, !.timer = n, !.left = Grace]
    OBVIOUS
  <2>5. l = [b EXCEPT !.leases = m, !.rest = 0]
    BY <2>1, <2>4, ConnFields DEF Conn
  <2>6. /\ b \in Conn /\ b.epoch = n /\ b.timer = n /\ b.left = Grace
        /\ b.fired = k.fired /\ b.who = k.who /\ b.closing = k.closing
        /\ b.cancelled = k.cancelled /\ b.stage = k.stage /\ b.warm = k.warm
        /\ b.channel = k.channel /\ b.selected = k.selected /\ b.slot = k.slot
    BY <2>0, <2>4, ConnFields DEF Conn
  <2>2. /\ l \in Conn /\ l.leases = m /\ l.epoch = n
        /\ l.timer = n /\ l.fired = k.fired /\ l.left = Grace /\ l.rest = 0
        /\ l.who = k.who /\ l.closing = k.closing /\ l.cancelled = k.cancelled
        /\ l.stage = k.stage /\ l.warm = k.warm
        /\ l.channel = k.channel /\ l.selected = k.selected /\ l.slot = k.slot
    BY ZenonT(60), <2>5, <2>6, ConnFields DEF Conn
  <2>3. m = 0
    BY <1>2, <1>4, ConnFields
  <2> QED BY <1>1, <1>2, <2>2, <2>3
<1> QED BY <1>3, <1>4

LEMMA AgedIs ==
  ASSUME NEW k \in Conn, NEW l, l = Aged(k)
  PROVE  /\ l \in Conn /\ l.leases = k.leases /\ l.epoch = k.epoch
         /\ l.timer = k.timer /\ l.fired = k.fired
         /\ k.leases = 0 /\ k.rest + k.left = Grace => l.rest + l.left = Grace
         /\ k.leases = 0 /\ k.rest = Grace => l.rest = Grace
         /\ l.who = k.who /\ l.closing = k.closing /\ l.cancelled = k.cancelled
         /\ l.stage = k.stage /\ l.warm = k.warm
         /\ l.channel = k.channel /\ l.selected = k.selected /\ l.slot = k.slot
<1>1. PICK n \in Nat : n = IF k.left > 0 THEN k.left - 1 ELSE 0
  BY ConnFields
<1>2. PICK m \in Nat : m = IF k.leases = 0 /\ k.rest < Grace THEN k.rest + 1
                                                         ELSE k.rest
  BY ConnFields
<1>3. l = [k EXCEPT !.left = n, !.rest = m]
  BY <1>1, <1>2 DEF Aged
<1>4. /\ l \in Conn /\ l.leases = k.leases /\ l.epoch = k.epoch
      /\ l.left = n /\ l.rest = m
      /\ l.timer = k.timer /\ l.fired = k.fired
      /\ l.who = k.who /\ l.closing = k.closing /\ l.cancelled = k.cancelled
      /\ l.stage = k.stage /\ l.warm = k.warm
      /\ l.channel = k.channel /\ l.selected = k.selected /\ l.slot = k.slot
  BY ZenonT(60), <1>3, ConnFields DEF Conn
<1>5. Grace \in Nat
  BY AccountAssumption DEF AccountAssumption
<1>6. k.leases = 0 /\ k.rest + k.left = Grace => l.rest + l.left = Grace
  BY <1>1, <1>2, <1>4, <1>5, ConnFields
<1>7. k.leases = 0 /\ k.rest = Grace => l.rest = Grace
  BY <1>2, <1>4, <1>5, ConnFields
<1> QED BY <1>4, <1>6, <1>7

LEMMA NewConnIs ==
  ASSUME NEW d \in Descriptors, NEW w \in Nat, NEW k, k = NewConn(d, w)
  PROVE  /\ k \in Conn /\ k.who = d /\ k.leases = 0 /\ k.epoch = 0 /\ k.timer = 0
         /\ k.fired = {} /\ ~k.closing /\ ~k.cancelled /\ k.stage = "start"
         /\ k.warm = w /\ k.selected = 1 /\ k.rest = 0 /\ k.left = 0
         /\ \A a \in Addresses : k.slot[a] = "none"
  BY DEF Conn, NewConn, Stages, Endpoint

\* A step of a worker that leaves the books alone: what it may change.
Advance(g) ==
  \/ WorkerStarts(g) \/ TakeWarm(g) \/ StartSlots(g) \/ Attempt(g)
  \/ SessionEnds(g) \/ WorkerLeaves(g) \/ FinishCloses(g) \/ FinishReports(g)
  \/ \E a \in Addresses : SlotCreated(g, a)

Others(g) == \A h \in Conns : h # g => conn'[h] = conn[h]

Advances(g) ==
  /\ conn' \in [Conns -> Conn] /\ Others(g) /\ SameBooks(conn[g], conn'[g])
  /\ UNCHANGED <<life, accounts, router, client>>
  /\ conn'[g].selected \in 1..Len(conn[g].who.pool)
  /\ conn'[g].warm \in {0} \cup Warms
  /\ spoke' = spoke \/ spoke' = [spoke EXCEPT ![conn[g].who.id] = g]
  /\ warm' \in [Warms -> Warm]

LEMMA StartsSum ==
  ASSUME TypeOK, NEW g \in Conns, WorkerStarts(g)
  PROVE  /\ Advances(g) /\ conn'[g].slot = conn[g].slot
         /\ conn'[g].warm = conn[g].warm
         /\ conn'[g].channel = router.channel /\ UNCHANGED warm
         /\ conn[g].stage = "start"
         /\ \/ conn'[g].stage = "warming" /\ conn[g].warm # 0
            \/ conn'[g].stage = "waiting" /\ conn[g].warm = 0
<1>1. conn[g] \in Conn /\ router.channel \in Nat
  BY DEF TypeOK
<1>2. PICK s \in Stages : s = IF conn[g].warm # 0 THEN "warming" ELSE "waiting"
  BY DEF Stages
<1>3. /\ conn' = [conn EXCEPT ![g].stage = s, ![g].channel = router.channel]
      /\ UNCHANGED <<life, accounts, router, client, warm>>
      /\ spoke' = [spoke EXCEPT ![conn[g].who.id] = g]
      /\ conn[g].stage = "start"
  BY <1>2 DEF WorkerStarts, Speak
<1>4. conn'[g] = [conn[g] EXCEPT !.stage = s, !.channel = router.channel]
  BY <1>3 DEF TypeOK
<1>5. /\ conn'[g] \in Conn /\ SameBooks(conn[g], conn'[g])
      /\ conn'[g].stage = s /\ conn'[g].channel = router.channel
      /\ conn'[g].slot = conn[g].slot /\ conn'[g].warm = conn[g].warm
      /\ conn'[g].selected = conn[g].selected
  BY ZenonT(60), <1>1, <1>4, ConnFields DEF Conn, SameBooks
<1>6. conn' \in [Conns -> Conn] /\ Others(g)
  BY <1>3, <1>5 DEF TypeOK, Others
<1>7. warm' \in [Warms -> Warm]
  BY <1>3 DEF TypeOK
<1> QED BY <1>2, <1>3, <1>5, <1>6, <1>7 DEF Advances, TypeOK

LEMMA TakeWarmSum ==
  ASSUME TypeOK, TableInv, NEW g \in Conns, TakeWarm(g),
         NEW w, w = conn[g].warm, NEW p, p = Primary(conn[g].who)
  PROVE  /\ Advances(g) /\ p \in Addresses
         /\ conn'[g].slot = [conn[g].slot EXCEPT ![p] = warm[w].endpoint]
         /\ conn'[g].warm = 0 /\ conn'[g].channel = router.channel
         /\ conn[g].stage = "warming" /\ conn'[g].stage = "waiting"
         /\ w \in Warms /\ warm[w].stage = "done"
         /\ warm' = [warm EXCEPT ![w].endpoint = "none"]
<1>1. conn[g] \in Conn /\ router.channel \in Nat
  BY DEF TypeOK
<1>2. w \in Warms /\ conn[g].stage = "warming"
  <2>1. w \in {0} \cup Warms
    BY DEF TypeOK
  <2>2. conn[g].stage = "warming"
    BY DEF TakeWarm
  <2>3. \A h \in Conns : conn[h].stage = "warming" => conn[h].warm # 0
    BY DEF TableInv
  <2> QED BY <2>1, <2>2, <2>3
<1>3. warm[w] \in Warm /\ warm[w].endpoint \in Endpoint
  BY <1>2, WarmFields DEF TypeOK
<1>4. p \in Addresses
  BY <1>1, ConnFields, DescriptorFields
<1>5. PICK f : f = [conn[g].slot EXCEPT ![p] = warm[w].endpoint]
  OBVIOUS
<1>6. f \in [Addresses -> Endpoint]
  BY <1>1, <1>3, <1>4, <1>5, ConnFields
<1>7. conn' = [conn EXCEPT ![g].slot[p] = warm[w].endpoint,
                           ![g].warm = 0, ![g].stage = "waiting",
                           ![g].channel = router.channel]
  BY DEF TakeWarm
<1>8. conn'[g] = [conn[g] EXCEPT !.slot = f, !.warm = 0, !.stage = "waiting",
                                 !.channel = router.channel]
  BY <1>1, <1>5, <1>7 DEF TypeOK, Conn
<1>9. /\ conn'[g] \in Conn /\ SameBooks(conn[g], conn'[g])
      /\ conn'[g].stage = "waiting" /\ conn'[g].channel = router.channel
      /\ conn'[g].slot = f /\ conn'[g].warm = 0
      /\ conn'[g].selected = conn[g].selected
  <2>1. PICK m : m = [conn[g] EXCEPT !.slot = f, !.warm = 0]
    OBVIOUS
  <2>2. /\ m \in Conn /\ SameBooks(conn[g], m)
        /\ m.slot = f /\ m.warm = 0 /\ m.selected = conn[g].selected
    BY <1>1, <1>6, <2>1, ConnFields DEF Conn, SameBooks
  <2>3. conn'[g] = [m EXCEPT !.stage = "waiting", !.channel = router.channel]
    BY <1>1, <1>8, <2>1 DEF Conn
  <2> QED BY <1>1, <2>2, <2>3, ConnFields DEF Conn, SameBooks, Stages
<1>10. conn' \in [Conns -> Conn] /\ Others(g)
  BY ZenonT(60), <1>7, <1>9 DEF TypeOK, Others
<1>11. warm' = [warm EXCEPT ![w].endpoint = "none"] /\ warm[w].stage = "done"
       /\ UNCHANGED <<life, accounts, router, client>>
       /\ spoke' = [spoke EXCEPT ![conn[g].who.id] = g]
  BY DEF TakeWarm, Speak
<1>12. warm' \in [Warms -> Warm]
  BY <1>2, <1>3, <1>11 DEF TypeOK, Warm, Endpoint
<1> QED BY <1>2, <1>4, <1>5, <1>9, <1>10, <1>11, <1>12 DEF Advances, TypeOK

LEMMA StartSlotsSum ==
  ASSUME TypeOK, NEW g \in Conns, StartSlots(g)
  PROVE  /\ Advances(g) /\ UNCHANGED warm
         /\ \A a \in Addresses : \/ conn'[g].slot[a] = conn[g].slot[a]
                                 \/ /\ a \in Pool(conn[g].who)
                                    /\ conn'[g].slot[a] = "creating"
         /\ conn'[g].warm = conn[g].warm
         /\ conn'[g].channel = conn[g].channel
         /\ conn[g].stage = "waiting" /\ conn'[g].stage = "loop"
<1>1. conn[g] \in Conn
  BY DEF TypeOK
<1>2. PICK f : f = [a \in Addresses |->
                      IF a \in Pool(conn[g].who) /\ conn[g].slot[a] = "none"
                      THEN "creating" ELSE conn[g].slot[a]]
  OBVIOUS
<1>3. f \in [Addresses -> Endpoint]
  BY <1>1, <1>2, ConnFields, StageNames
<1>4. conn' = [conn EXCEPT ![g].stage = "loop", ![g].slot = f]
  BY <1>2 DEF StartSlots
<1>5. conn'[g] = [conn[g] EXCEPT !.stage = "loop", !.slot = f]
  BY <1>4 DEF TypeOK
<1>6. /\ conn'[g] \in Conn /\ SameBooks(conn[g], conn'[g])
      /\ conn'[g].stage = "loop" /\ conn'[g].slot = f
      /\ conn'[g].channel = conn[g].channel /\ conn'[g].warm = conn[g].warm
      /\ conn'[g].selected = conn[g].selected
  BY ZenonT(60), <1>1, <1>3, <1>5, ConnFields DEF Conn, SameBooks, Stages
<1>7. conn' \in [Conns -> Conn] /\ Others(g)
  BY <1>4, <1>6 DEF TypeOK, Others
<1>8. /\ UNCHANGED <<life, accounts, router, client, warm>>
      /\ spoke' = [spoke EXCEPT ![conn[g].who.id] = g]
      /\ conn[g].stage = "waiting"
  BY DEF StartSlots, Speak
<1>9. warm' \in [Warms -> Warm]
  BY <1>8 DEF TypeOK
<1>10. \A a \in Addresses : \/ conn'[g].slot[a] = conn[g].slot[a]
                            \/ /\ a \in Pool(conn[g].who)
                               /\ conn'[g].slot[a] = "creating"
  BY <1>2, <1>6
<1> QED BY <1>6, <1>7, <1>8, <1>9, <1>10 DEF Advances, TypeOK

\* What changes one slot of a connection and perhaps the slot it tries next.
Slotted(k, a, e, s, n) ==
  [k EXCEPT !.stage = s, !.slot = [k.slot EXCEPT ![a] = e], !.selected = n]

LEMMA SlottedIs ==
  ASSUME NEW k \in Conn, NEW a \in Addresses, NEW e \in Endpoint,
         NEW s \in Stages, NEW n \in Nat,
         NEW l, l = Slotted(k, a, e, s, n)
  PROVE  /\ l \in Conn /\ SameBooks(k, l)
         /\ l.stage = s /\ l.channel = k.channel /\ l.warm = k.warm
         /\ l.selected = n
         /\ \A b \in Addresses : l.slot[b] = IF b = a THEN e ELSE k.slot[b]
<1>1. PICK f : f = [k.slot EXCEPT ![a] = e]
  OBVIOUS
<1>2. f \in [Addresses -> Endpoint]
  BY <1>1, ConnFields
<1>3. l = [k EXCEPT !.stage = s, !.slot = f, !.selected = n]
  BY <1>1 DEF Slotted
<1>4. /\ l \in Conn /\ SameBooks(k, l)
      /\ l.stage = s /\ l.channel = k.channel /\ l.warm = k.warm
      /\ l.selected = n /\ l.slot = f
  BY ZenonT(60), <1>2, <1>3, ConnFields DEF Conn, SameBooks
<1> QED BY <1>1, <1>4, ConnFields

LEMMA SlotCreatedSum ==
  ASSUME TypeOK, NEW g \in Conns, NEW a \in Addresses, SlotCreated(g, a)
  PROVE  /\ Advances(g) /\ UNCHANGED <<warm, spoke>>
         /\ conn[g].slot[a] = "creating"
         /\ \A b \in Addresses : b # a => conn'[g].slot[b] = conn[g].slot[b]
         /\ conn'[g].slot[a] \in {"live", "failed"}
         /\ conn'[g].warm = conn[g].warm
         /\ conn'[g].channel = conn[g].channel
         /\ conn'[g].stage = conn[g].stage
<1>1. conn[g] \in Conn /\ conn[g].selected \in 1..Len(conn[g].who.pool)
  BY DEF TypeOK
<1>2. PICK e \in {"live", "failed"} : conn' = [conn EXCEPT ![g].slot[a] = e]
  BY DEF SlotCreated
<1>4. conn'[g] = [conn[g] EXCEPT !.slot = [conn[g].slot EXCEPT ![a] = e]]
  BY <1>1, <1>2 DEF TypeOK, Conn
<1>5. conn'[g] = Slotted(conn[g], a, e, conn[g].stage, conn[g].selected)
  BY <1>1, <1>4 DEF Conn, Slotted
<1>6. e \in Endpoint /\ conn[g].stage \in Stages /\ conn[g].selected \in Nat
  BY <1>1, ConnFields, StageNames
<1>7. /\ conn'[g] \in Conn /\ SameBooks(conn[g], conn'[g])
      /\ conn'[g].stage = conn[g].stage
      /\ \A b \in Addresses : conn'[g].slot[b] =
                                IF b = a THEN e ELSE conn[g].slot[b]
      /\ conn'[g].channel = conn[g].channel /\ conn'[g].warm = conn[g].warm
      /\ conn'[g].selected = conn[g].selected
  BY <1>1, <1>5, <1>6, SlottedIs
<1>8. conn' \in [Conns -> Conn] /\ Others(g)
  BY <1>2, <1>7 DEF TypeOK, Others
<1>9. /\ UNCHANGED <<life, accounts, router, client, warm, spoke>>
      /\ conn[g].slot[a] = "creating"
  BY DEF SlotCreated
<1>10. warm' \in [Warms -> Warm]
  BY <1>9 DEF TypeOK
<1> QED BY <1>1, <1>7, <1>8, <1>9, <1>10 DEF Advances, TypeOK

LEMMA SelectedIn ==
  ASSUME TypeOK, NEW g \in Conns
  PROVE  /\ Selected(g) \in Addresses /\ Selected(g) \in Pool(conn[g].who)
         /\ Following(g) \in 1..Len(conn[g].who.pool)
<1>1. conn[g].who \in Descriptors /\ conn[g].selected \in 1..Len(conn[g].who.pool)
  BY ConnFields DEF TypeOK
<1>2. Selected(g) \in Addresses /\ Selected(g) \in Pool(conn[g].who)
  BY <1>1, DescriptorFields DEF Selected, Pool
<1>3. PICK n \in Nat \ {0} : n = Len(conn[g].who.pool)
  BY <1>1, DescriptorFields
<1>4. PICK m \in 1..n : m = conn[g].selected
  BY <1>1, <1>3
<1>5. Following(g) = 1 + (m % n)
  BY <1>3, <1>4 DEF Following
<1>6. m % n \in 0..(n - 1)
  BY <1>3, <1>4
<1>7. 1 + (m % n) \in 1..n
  BY <1>6
<1> QED BY <1>2, <1>3, <1>5, <1>7

LEMMA NextSlotSum ==
  ASSUME TypeOK, NEW g \in Conns, NEW e \in {"live", "none"}, NextSlot(g, e)
  PROVE  /\ Advances(g) /\ UNCHANGED warm
         /\ \A b \in Addresses : conn'[g].slot[b] =
                                   IF b = Selected(g) THEN e ELSE conn[g].slot[b]
         /\ conn'[g].warm = conn[g].warm
         /\ conn'[g].channel = conn[g].channel
         /\ conn'[g].stage = "loop"
<1>1. conn[g] \in Conn /\ e \in Endpoint /\ "loop" \in Stages
  BY StageNames DEF TypeOK
<1>2. PICK a \in Addresses : a = Selected(g)
  BY SelectedIn
<1>3. PICK n \in 1..Len(conn[g].who.pool) : n = Following(g)
  BY SelectedIn
<1>4. conn' = [conn EXCEPT ![g].stage = "loop", ![g].slot[a] = e,
                           ![g].selected = n]
  BY <1>2, <1>3 DEF NextSlot
<1>5. n \in Nat
  BY <1>1, ConnFields, DescriptorFields
<1>6. conn'[g] = Slotted(conn[g], a, e, "loop", n)
  BY <1>1, <1>4 DEF TypeOK, Conn, Slotted
<1>7. /\ conn'[g] \in Conn /\ SameBooks(conn[g], conn'[g])
      /\ conn'[g].stage = "loop"
      /\ \A b \in Addresses : conn'[g].slot[b] =
                                IF b = a THEN e ELSE conn[g].slot[b]
      /\ conn'[g].channel = conn[g].channel /\ conn'[g].warm = conn[g].warm
      /\ conn'[g].selected = n
  BY <1>1, <1>5, <1>6, SlottedIs
<1>8. conn' \in [Conns -> Conn] /\ Others(g)
  BY <1>4, <1>7 DEF TypeOK, Others
<1>9. /\ UNCHANGED <<life, accounts, router, client, warm>>
      /\ spoke' = [spoke EXCEPT ![conn[g].who.id] = g]
  BY DEF NextSlot, Speak
<1>10. warm' \in [Warms -> Warm]
  BY <1>9 DEF TypeOK
<1> QED BY <1>2, <1>7, <1>8, <1>9, <1>10 DEF Advances, TypeOK

\* What moves a worker to a stage and changes nothing else of its connection.
LEMMA EnterSum ==
  ASSUME TypeOK, NEW g \in Conns, NEW s \in Stages, Enter(g, s)
  PROVE  /\ conn' \in [Conns -> Conn] /\ Others(g)
         /\ SameBooks(conn[g], conn'[g])
         /\ conn'[g].stage = s /\ conn'[g].slot = conn[g].slot
         /\ conn'[g].warm = conn[g].warm /\ conn'[g].channel = conn[g].channel
         /\ conn'[g].selected = conn[g].selected
<1>1. conn[g] \in Conn
  BY DEF TypeOK
<1>2. conn' = [conn EXCEPT ![g].stage = s]
  BY DEF Enter
<1>3. conn'[g] = [conn[g] EXCEPT !.stage = s]
  BY <1>2 DEF TypeOK
<1>4. /\ conn'[g] \in Conn /\ SameBooks(conn[g], conn'[g])
      /\ conn'[g].stage = s /\ conn'[g].slot = conn[g].slot
      /\ conn'[g].warm = conn[g].warm /\ conn'[g].channel = conn[g].channel
      /\ conn'[g].selected = conn[g].selected
  BY <1>1, <1>3, ConnFields DEF Conn, SameBooks
<1> QED BY <1>2, <1>4 DEF TypeOK, Others

\* A worker that runs: attempts and the end of a session.
LEMMA RunsSum ==
  ASSUME TypeOK, NEW g \in Conns, Attempt(g) \/ SessionEnds(g)
  PROVE  /\ Advances(g) /\ UNCHANGED warm
         /\ \A b \in Addresses : conn'[g].slot[b] # conn[g].slot[b] =>
              b \in Pool(conn[g].who)
         /\ conn'[g].warm = conn[g].warm
         /\ conn'[g].channel = conn[g].channel
         /\ conn[g].stage \in {"loop", "serving"}
         /\ conn'[g].stage \in {"loop", "serving"}
<1>1. CASE \E e \in {"live", "none"} :
             NextSlot(g, e) /\ conn[g].stage \in {"loop", "serving"}
  BY <1>1, NextSlotSum, SelectedIn
<1>2. CASE Attempt(g) /\ conn[g].slot[Selected(g)] = "none"
           /\ conn' = [conn EXCEPT ![g].slot[Selected(g)] = "creating"]
           /\ Speak(g) /\ UNCHANGED <<life, accounts, warm, router, client>>
  <2>1. conn[g] \in Conn /\ conn[g].selected \in 1..Len(conn[g].who.pool)
        /\ conn[g].stage = "loop" /\ conn[g].warm \in {0} \cup Warms
    BY <1>2 DEF TypeOK, Attempt
  <2>2. PICK a \in Addresses : a = Selected(g)
    BY SelectedIn
  <2>3. conn' = [conn EXCEPT ![g].slot[a] = "creating"]
    BY <1>2, <2>2
  <2>4. conn'[g] = [conn[g] EXCEPT !.slot = [conn[g].slot EXCEPT ![a] = "creating"]]
    BY <2>1, <2>3 DEF TypeOK, Conn
  <2>5. conn'[g] = Slotted(conn[g], a, "creating", conn[g].stage, conn[g].selected)
    BY <2>1, <2>4 DEF Conn, Slotted
  <2>6. /\ "creating" \in Endpoint /\ conn[g].stage \in Stages
        /\ conn[g].selected \in Nat
    BY <2>1, ConnFields, StageNames
  <2>7. /\ conn'[g] \in Conn /\ SameBooks(conn[g], conn'[g])
        /\ conn'[g].stage = conn[g].stage
        /\ \A b \in Addresses : conn'[g].slot[b] =
                                  IF b = a THEN "creating" ELSE conn[g].slot[b]
        /\ conn'[g].channel = conn[g].channel /\ conn'[g].warm = conn[g].warm
        /\ conn'[g].selected = conn[g].selected
    BY <2>1, <2>5, <2>6, SlottedIs
  <2>8. conn' \in [Conns -> Conn] /\ Others(g)
    BY <2>3, <2>7 DEF TypeOK, Others
  <2>9. warm' \in [Warms -> Warm]
    BY <1>2 DEF TypeOK
  <2>10. spoke' = [spoke EXCEPT ![conn[g].who.id] = g]
    BY <1>2 DEF Speak
  <2> QED BY <1>2, <2>1, <2>2, <2>7, <2>8, <2>9, <2>10, SelectedIn DEF Advances
<1>3. CASE conn[g].stage = "loop" /\ Enter(g, "serving") /\ Speak(g)
           /\ UNCHANGED <<life, accounts, warm, router, client>>
  <2>1. "serving" \in Stages
    BY StageNames
  <2>2. /\ conn' \in [Conns -> Conn] /\ Others(g)
        /\ SameBooks(conn[g], conn'[g])
        /\ conn'[g].stage = "serving" /\ conn'[g].slot = conn[g].slot
        /\ conn'[g].warm = conn[g].warm /\ conn'[g].channel = conn[g].channel
        /\ conn'[g].selected = conn[g].selected
    BY <1>3, <2>1, EnterSum
  <2>3. conn[g].selected \in 1..Len(conn[g].who.pool) /\ warm' \in [Warms -> Warm]
        /\ conn[g].warm \in {0} \cup Warms
    BY <1>3 DEF TypeOK
  <2>4. spoke' = [spoke EXCEPT ![conn[g].who.id] = g]
    BY <1>3 DEF Speak
  <2> QED BY <1>3, <2>2, <2>3, <2>4 DEF Advances
<1> QED BY <1>1, <1>2, <1>3 DEF Attempt, SessionEnds

LEMMA LeavesSum ==
  ASSUME TypeOK, NEW g \in Conns, WorkerLeaves(g)
  PROVE  /\ Advances(g) /\ UNCHANGED <<warm, spoke>>
         /\ conn'[g].slot = conn[g].slot /\ conn'[g].warm = conn[g].warm
         /\ conn'[g].channel = conn[g].channel
         /\ conn[g].stage \in {"waiting", "loop", "serving"}
         /\ conn'[g].stage = "leaving"
         /\ conn[g].cancelled \/ CtxDone
<1>1. "leaving" \in Stages /\ Enter(g, "leaving")
  BY StageNames DEF WorkerLeaves
<1>2. conn[g].selected \in 1..Len(conn[g].who.pool)
      /\ conn[g].warm \in {0} \cup Warms
  BY DEF TypeOK
<1>3. warm' \in [Warms -> Warm]
  BY DEF TypeOK, WorkerLeaves
<1>4. /\ UNCHANGED <<life, accounts, warm, router, client, spoke>>
      /\ conn[g].stage \in {"waiting", "loop", "serving"}
      /\ conn[g].cancelled \/ CtxDone
  BY DEF WorkerLeaves, Cancelled
<1> QED BY <1>1, <1>2, <1>3, <1>4, EnterSum DEF Advances

LEMMA ReportsSum ==
  ASSUME TypeOK, NEW g \in Conns, FinishReports(g)
  PROVE  /\ Advances(g) /\ UNCHANGED warm
         /\ conn'[g].slot = conn[g].slot /\ conn'[g].warm = conn[g].warm
         /\ conn'[g].channel = conn[g].channel
         /\ conn[g].stage = "reporting" /\ conn'[g].stage = "removing"
<1>1. "removing" \in Stages /\ Enter(g, "removing")
  BY StageNames DEF FinishReports
<1>2. conn[g].selected \in 1..Len(conn[g].who.pool)
      /\ conn[g].warm \in {0} \cup Warms
  BY DEF TypeOK
<1>3. warm' \in [Warms -> Warm]
  BY DEF TypeOK, FinishReports
<1>4. /\ UNCHANGED <<life, accounts, warm, router, client>>
      /\ conn[g].stage = "reporting"
      /\ spoke' = [spoke EXCEPT ![conn[g].who.id] = g]
  BY DEF FinishReports, Speak
<1> QED BY <1>1, <1>2, <1>3, <1>4, EnterSum DEF Advances

LEMMA ClosesSum ==
  ASSUME TypeOK, NEW g \in Conns, FinishCloses(g)
  PROVE  /\ Advances(g) /\ UNCHANGED <<warm, spoke>>
         /\ \A a \in Addresses : conn'[g].slot[a] =
              IF conn[g].slot[a] = "creating" THEN "creating" ELSE "none"
         /\ conn'[g].warm = conn[g].warm
         /\ conn'[g].channel = conn[g].channel
         /\ conn[g].stage = "closing" /\ conn'[g].stage = "reporting"
<1>1. conn[g] \in Conn
  BY DEF TypeOK
<1>2. PICK f : f = [a \in Addresses |->
                      IF conn[g].slot[a] = "creating" THEN "creating" ELSE "none"]
  OBVIOUS
<1>3. f \in [Addresses -> Endpoint]
  BY <1>1, <1>2, ConnFields, StageNames
<1>4. conn' = [conn EXCEPT ![g].stage = "reporting", ![g].slot = f]
  BY <1>2 DEF FinishCloses
<1>5. conn'[g] = [conn[g] EXCEPT !.stage = "reporting", !.slot = f]
  BY <1>4 DEF TypeOK
<1>6. /\ conn'[g] \in Conn /\ SameBooks(conn[g], conn'[g])
      /\ conn'[g].stage = "reporting" /\ conn'[g].slot = f
      /\ conn'[g].channel = conn[g].channel /\ conn'[g].warm = conn[g].warm
      /\ conn'[g].selected = conn[g].selected
  BY ZenonT(60), <1>1, <1>3, <1>5, ConnFields DEF Conn, SameBooks, Stages
<1>7. conn' \in [Conns -> Conn] /\ Others(g)
  BY <1>4, <1>6 DEF TypeOK, Others
<1>8. /\ UNCHANGED <<life, accounts, router, client, warm, spoke>>
      /\ conn[g].stage = "closing"
  BY DEF FinishCloses
<1>9. /\ warm' \in [Warms -> Warm]
      /\ conn[g].selected \in 1..Len(conn[g].who.pool)
      /\ conn[g].warm \in {0} \cup Warms
  BY <1>8 DEF TypeOK
<1>10. \A a \in Addresses : conn'[g].slot[a] =
         IF conn[g].slot[a] = "creating" THEN "creating" ELSE "none"
  BY <1>2, <1>6
<1> QED BY <1>6, <1>7, <1>8, <1>9, <1>10 DEF Advances

-----------------------------------------------------------------------------
(* Steps that take no lease, give none back, arm no timer and let the clock *)
(* and the tables be.                                                       *)

ConnOK ==
  /\ conn \in [Conns -> Conn]
  /\ \A g \in Conns : /\ conn[g].selected \in 1..Len(conn[g].who.pool)
                      /\ conn[g].warm \in {0} \cup Warms

TameConn(g) ==
  /\ conn'[g].who = conn[g].who /\ conn'[g].fired \subseteq conn[g].fired
  /\ conn'[g].stage = "unused" <=> conn[g].stage = "unused"
  /\ conn'[g].stage = "gone" <=> conn[g].stage = "gone"
  /\ \/ conn'[g].closing /\ conn'[g].timer = 0
     \/ /\ conn'[g].leases = conn[g].leases /\ conn'[g].closing = conn[g].closing
        /\ conn'[g].cancelled = conn[g].cancelled
        /\ conn'[g].epoch = conn[g].epoch /\ conn'[g].timer = conn[g].timer
        /\ conn'[g].left = conn[g].left /\ conn'[g].rest = conn[g].rest
  /\ conn'[g].stage = "leaving" =>
       conn[g].stage = "leaving" \/ conn'[g].closing \/ CtxDone'
  /\ conn'[g].stage \in {"closing", "reporting", "removing"} => conn'[g].closing
  /\ conn'[g].stage = "warming" => conn'[g].warm # 0
  /\ life' = "closed" =>
       life = "closed" \/ conn'[g].closing \/ conn[g].stage = "unused"

Tame ==
  /\ ConnOK' /\ UNCHANGED accounts
  /\ CtxDone => CtxDone'
  /\ \A c \in Clients : /\ client'[c].pc = "holding" <=> client[c].pc = "holding"
                        /\ client[c].pc = "holding" => client'[c].on = client[c].on
  /\ \A i \in Ids : \/ spoke'[i] = spoke[i]
                    \/ accounts[i] # 0 /\ spoke'[i] = accounts[i]
  /\ \A g \in Conns : TameConn(g)

\* The table holds a connection under the account it is of.
LEMMA TrackedIs ==
  ASSUME TypeOK, TableInv, NEW g
  PROVE  g \in Tracked <=> g \in Conns /\ Live(g)
<1>1. ASSUME g \in Tracked PROVE g \in Conns /\ Live(g)
  BY <1>1 DEF Tracked, TypeOK, TableInv
<1>2. ASSUME g \in Conns, Live(g) PROVE g \in Tracked
  <2>1. conn[g].who.id \in Ids /\ accounts[conn[g].who.id] = g /\ g # 0
    BY <1>2, ConnFields, DescriptorFields DEF TypeOK, TableInv, Conns
  <2> QED BY <2>1 DEF Tracked
<1> QED BY <1>1, <1>2

LEMMA TameUsed ==
  ASSUME TypeOK, ConnOK', \A g \in Conns : TameConn(g)
  PROVE  Used' = Used /\ \A g \in Conns : Live(g)' <=> Live(g)
  BY DEF TameConn, Used, Live

\* The callers that hold a connection are a finite set.
LEMMA HoldersFinite ==
  ASSUME NEW g
  PROVE  IsFiniteSet(Holders(g)) /\ Cardinality(Holders(g)) \in Nat
  BY AccountAssumption, FS_Subset, FS_CardinalityType DEF AccountAssumption, Holders

LEMMA TameKeeps ==
  ASSUME LeaseInv, TypeOK', Tame
  PROVE  LeaseInv'
<1>1. TypeOK /\ ConnOK' /\ UNCHANGED accounts
  BY DEF LeaseInv, Tame
<1>2. \A g \in Conns : TameConn(g)
  BY DEF Tame
<1>3. Used' = Used /\ \A g \in Conns : Live(g)' <=> Live(g)
  BY <1>1, <1>2, TameUsed
<1>4. \A i \in Ids : accounts[i] # 0 => accounts[i] \in Conns
  BY <1>1 DEF TypeOK
<1>5. TableInv'
  <2>1. \E n \in 0..MaxConns : Used' = 1..n
    BY <1>3 DEF LeaseInv, TableInv
  <2>2. \A i \in Ids : \A g \in Conns : accounts'[i] = g =>
          conn'[g].who.id = i /\ Live(g)'
    <3>1. \A i \in Ids : \A g \in Conns : accounts[i] = g =>
            conn[g].who.id = i /\ Live(g)
      BY DEF LeaseInv, TableInv, Conns
    <3>2. \A g \in Conns : conn'[g].who = conn[g].who
      BY <1>2 DEF TameConn
    <3> QED BY <1>1, <1>3, <3>1, <3>2
  <2>5. \A i \in Ids : accounts'[i] # 0 => accounts'[i] \in Conns
    BY DEF TypeOK
  <2>3. \A g \in Conns : Live(g)' => accounts'[conn'[g].who.id] = g
    BY <1>1, <1>2, <1>3 DEF LeaseInv, TableInv, TameConn
  <2>4. \A g \in Conns : conn'[g].stage = "warming" => conn'[g].warm # 0
    BY <1>2 DEF TameConn
  <2> QED BY <2>1, <2>2, <2>3, <2>4, <2>5 DEF TableInv, Live
<1>6. SpokenInv'
  <2>1. \A i \in Ids : /\ spoke[i] = 0 \/ spoke[i] \in Used
                       /\ accounts[i] # 0 => spoke[i] <= accounts[i]
    BY DEF LeaseInv, SpokenInv
  <2>2. \A i \in Ids : accounts[i] # 0 => accounts[i] \in Used
    BY <1>4 DEF LeaseInv, TableInv, Live, Used
  <2>3. \A i \in Ids : \/ spoke'[i] = spoke[i]
                       \/ accounts[i] # 0 /\ spoke'[i] = accounts[i]
    BY DEF Tame
  <2>4. \A i \in Ids : accounts[i] <= accounts[i]
    BY <1>1 DEF TypeOK, Conns
  <2> QED BY <1>1, <1>3, <2>1, <2>2, <2>3, <2>4 DEF SpokenInv
<1>7. StopInv'
  <2>1. \A c \in Clients : client'[c].pc = "holding" =>
          client'[c].on \in Used' /\ conn'[client'[c].on].who.id # Observer
    <3>1. \A c \in Clients : client[c].pc = "holding" =>
            client[c].on \in Used /\ conn[client[c].on].who.id # Observer
      BY DEF LeaseInv, StopInv
    <3>2. \A c \in Clients : client'[c].pc = "holding" =>
            client[c].pc = "holding" /\ client'[c].on = client[c].on
      BY DEF Tame
    <3>3. \A g \in Used : conn'[g].who = conn[g].who
      BY <1>2 DEF TameConn, Used
    <3> QED BY <1>3, <3>1, <3>2, <3>3
  <2>2. ASSUME NEW g \in Conns
        PROVE  /\ conn'[g].cancelled => conn'[g].closing
               /\ conn'[g].stage = "leaving" => conn'[g].closing \/ CtxDone'
               /\ conn'[g].stage \in {"closing", "reporting", "removing", "gone"} =>
                    conn'[g].closing
               /\ life' = "closed" =>
                    conn'[g].closing \/ conn'[g].stage = "unused"
               /\ conn'[g].who.id = Observer =>
                    conn'[g].timer = 0 /\ conn'[g].fired = {}
    <3>1. /\ conn[g].cancelled => conn[g].closing
          /\ conn[g].stage = "leaving" => conn[g].closing \/ CtxDone
          /\ conn[g].stage \in {"closing", "reporting", "removing", "gone"} =>
               conn[g].closing
          /\ life = "closed" => conn[g].closing \/ conn[g].stage = "unused"
          /\ conn[g].who.id = Observer => conn[g].timer = 0 /\ conn[g].fired = {}
      BY DEF LeaseInv, StopInv
    <3>2. CtxDone => CtxDone'
      BY DEF Tame
    <3>3. TameConn(g)
      BY <1>2
    <3> QED BY <3>1, <3>2, <3>3 DEF TameConn
  <2> QED BY <2>1, <2>2 DEF StopInv
<1>8. TimerInv'
  <2>1. SUFFICES ASSUME NEW g \in Used, ~conn'[g].closing
                 PROVE  /\ conn'[g].timer # 0 =>
                             /\ conn'[g].timer = conn'[g].epoch
                             /\ conn'[g].leases = 0
                             /\ conn'[g].rest + conn'[g].left = Grace
                        /\ \A e \in conn'[g].fired : e <= conn'[g].epoch
                        /\ conn'[g].epoch \in conn'[g].fired =>
                             conn'[g].leases = 0 /\ conn'[g].rest = Grace
    BY <1>3 DEF TimerInv
  <2>2. TameConn(g)
    BY <1>2 DEF Used
  <2> QED BY <2>1, <2>2 DEF LeaseInv, TimerInv, TameConn
<1>9. LeasesCounted'
  <2>1. Tracked' = Tracked
    BY <1>1 DEF Tracked
  <2>2. \A g : Holders(g)' = Holders(g)
    BY DEF Tame, Holders
  <2>3. \A g \in Tracked : g \in Conns
    BY <1>4 DEF Tracked
  <2>4. \A g \in Tracked : ~conn'[g].closing =>
          ~conn[g].closing /\ conn'[g].leases = conn[g].leases
    BY <1>2, <2>3 DEF TameConn
  <2>5. \A g \in Tracked : conn'[g].who = conn[g].who
    BY <1>2, <2>3 DEF TameConn
  <2> QED BY <2>1, <2>2, <2>4, <2>5 DEF LeaseInv, LeasesCounted
<1> QED BY <1>5, <1>6, <1>7, <1>8, <1>9 DEF LeaseInv

LEMMA AdvancesTyped ==
  ASSUME TypeOK, NEW g \in Conns, Advances(g)
  PROVE  TypeOK' /\ ConnOK'
<1>1. ConnOK'
  <2>1. \A h \in Conns : h # g => conn'[h] = conn[h]
    BY DEF Advances, Others
  <2>2. conn'[g].who = conn[g].who
    BY DEF Advances, SameBooks
  <2> QED BY <2>1, <2>2 DEF Advances, ConnOK, TypeOK
<1>2. spoke' \in [Ids -> {0} \cup Conns]
  BY DEF Advances, TypeOK
<1>3. UNCHANGED <<life, accounts, router, client>> /\ warm' \in [Warms -> Warm]
  BY DEF Advances
<1> QED BY <1>1, <1>2, <1>3 DEF TypeOK, ConnOK

\* What is left to show of a worker's step is that its stages are in order.
LEMMA AdvancesTame ==
  ASSUME LeaseInv, NEW g \in Conns, Advances(g),
         \/ conn'[g].stage = conn[g].stage
            /\ conn'[g].warm = conn[g].warm
         \/ /\ Live(g)
            /\ conn'[g].stage \in {"warming", "waiting", "loop", "serving",
                                   "leaving", "reporting", "removing"}
            /\ conn'[g].stage = "leaving" => conn[g].cancelled \/ CtxDone
            /\ conn'[g].stage \in {"reporting", "removing"} =>
                 conn[g].stage \in {"closing", "reporting"}
            /\ conn'[g].stage = "warming" => conn'[g].warm # 0,
         spoke' # spoke => Live(g)
  PROVE  TypeOK' /\ Tame
<1>1. TypeOK /\ TypeOK' /\ ConnOK'
  BY AdvancesTyped DEF LeaseInv
<1>2. \A h \in Conns : h # g => conn'[h] = conn[h]
  BY DEF Advances, Others
<1>3. \A h \in Conns :
        /\ conn[h].stage \in {"closing", "reporting", "removing", "gone"} =>
             conn[h].closing
        /\ conn[h].stage = "warming" => conn[h].warm # 0
        /\ conn[h].cancelled => conn[h].closing
  BY DEF LeaseInv, StopInv, TableInv
<1>4. CtxDone <=> CtxDone'
  BY DEF Advances, CtxDone
<1>5. TameConn(g)
  BY <1>3, <1>4 DEF Advances, SameBooks, TameConn, Live
<1>6. \A h \in Conns : h # g => TameConn(h)
  BY <1>2, <1>3 DEF TameConn, Advances
<1>7. \A i \in Ids : \/ spoke'[i] = spoke[i]
                     \/ accounts[i] # 0 /\ spoke'[i] = accounts[i]
  <2>1. CASE spoke' = spoke
    BY <2>1
  <2>2. CASE spoke' # spoke
    <3>1. spoke' = [spoke EXCEPT ![conn[g].who.id] = g]
      BY <2>2 DEF Advances
    <3>2. accounts[conn[g].who.id] = g
      BY <2>2 DEF LeaseInv, TableInv
    <3>3. \A i \in Ids : spoke'[i] = IF i = conn[g].who.id THEN g ELSE spoke[i]
      BY <1>1, <3>1 DEF TypeOK
    <3> QED BY <3>2, <3>3 DEF Conns
  <2> QED BY <2>1, <2>2
<1> QED BY <1>1, <1>4, <1>5, <1>6, <1>7 DEF Tame, Advances

LEMMA AdvanceTame ==
  ASSUME LeaseInv, NEW g \in Conns, Advance(g)
  PROVE  TypeOK' /\ Tame
<1>0. TypeOK /\ TableInv
  BY DEF LeaseInv
<1>1. CASE WorkerStarts(g)
  BY <1>0, <1>1, StartsSum, AdvancesTame DEF Live
<1>2. CASE TakeWarm(g)
  <2>1. PICK w, p : w = conn[g].warm /\ p = Primary(conn[g].who)
    OBVIOUS
  <2> QED BY <1>0, <1>2, <2>1, TakeWarmSum, AdvancesTame DEF Live
<1>3. CASE StartSlots(g)
  BY <1>0, <1>3, StartSlotsSum, AdvancesTame DEF Live
<1>4. CASE Attempt(g) \/ SessionEnds(g)
  BY <1>0, <1>4, RunsSum, AdvancesTame DEF Live
<1>5. CASE WorkerLeaves(g)
  BY <1>0, <1>5, LeavesSum, AdvancesTame DEF Live
<1>6. CASE FinishCloses(g)
  BY <1>0, <1>6, ClosesSum, AdvancesTame DEF Live
<1>7. CASE FinishReports(g)
  BY <1>0, <1>7, ReportsSum, AdvancesTame DEF Live
<1>8. CASE \E a \in Addresses : SlotCreated(g, a)
  BY <1>0, <1>8, SlotCreatedSum, AdvancesTame
<1> QED BY <1>1, <1>2, <1>3, <1>4, <1>5, <1>6, <1>7, <1>8 DEF Advance

\* A set of connections is stopped.
StopSet(S) ==
  [g \in Conns |-> IF g \in S THEN Stopped(conn[g]) ELSE conn[g]]

LEMMA StopsTame ==
  ASSUME LeaseInv, NEW S \in SUBSET Conns, CtxDone => CtxDone',
         life' = "closed" => \/ life = "closed"
                             \/ \A g \in Conns : g \in S \/ conn[g].closing
                                                \/ conn[g].stage = "unused",
         conn' = StopSet(S), UNCHANGED <<accounts, client, spoke>>
  PROVE  Tame
<1>1. TypeOK /\ TableInv /\ StopInv
  BY DEF LeaseInv
<1>2. \A g \in Conns : conn[g] \in Conn
  BY <1>1 DEF TypeOK
<1>3. \A g \in Conns :
        IF g \in S
        THEN LET k == conn[g]  l == conn'[g]
             IN /\ l \in Conn /\ l.closing /\ l.cancelled /\ l.timer = 0
                /\ l.who = k.who /\ l.fired = k.fired /\ l.stage = k.stage
                /\ l.warm = k.warm /\ l.selected = k.selected
        ELSE conn'[g] = conn[g]
  BY <1>2, StoppedIs DEF StopSet
<1>4. ConnOK'
  BY <1>1, <1>2, <1>3 DEF ConnOK, TypeOK, StopSet
<1>5. \A g \in Conns : TameConn(g)
  <2>1. \A g \in Conns :
          /\ conn[g].stage \in {"closing", "reporting", "removing"} =>
               conn[g].closing
          /\ conn[g].stage = "warming" => conn[g].warm # 0
    BY <1>1 DEF StopInv, TableInv
  <2> QED BY <1>3, <2>1 DEF TameConn
<1> QED BY <1>4, <1>5 DEF Tame

LEMMA FinishStopsTame ==
  ASSUME LeaseInv, NEW g \in Conns, FinishStops(g)
  PROVE  /\ TypeOK' /\ Tame
         /\ Others(g) /\ conn'[g].who = conn[g].who
         /\ conn'[g].slot = conn[g].slot /\ conn'[g].warm = conn[g].warm
         /\ conn'[g].channel = conn[g].channel
         /\ conn'[g].stage = "closing"
<1>1. TypeOK /\ TableInv /\ StopInv
  BY DEF LeaseInv
<1>2. conn[g] \in Conn /\ conn[g].stage = "leaving"
  BY <1>1 DEF TypeOK, FinishStops
<1>3. PICK k : k = Stopped(conn[g])
  OBVIOUS
<1>4. /\ k \in Conn /\ k.closing /\ k.cancelled /\ k.timer = 0
      /\ k.who = conn[g].who /\ k.fired = conn[g].fired
      /\ k.warm = conn[g].warm /\ k.channel = conn[g].channel
      /\ k.selected = conn[g].selected /\ k.slot = conn[g].slot
  BY <1>2, <1>3, StoppedIs
<1>5. conn' = [conn EXCEPT ![g] = [k EXCEPT !.stage = "closing"]]
  BY <1>3 DEF FinishStops
<1>6. conn'[g] = [k EXCEPT !.stage = "closing"]
  BY <1>1, <1>5 DEF TypeOK
<1>7. /\ conn'[g] \in Conn /\ SameBooks(k, conn'[g])
      /\ conn'[g].stage = "closing" /\ conn'[g].warm = k.warm
      /\ conn'[g].channel = k.channel /\ conn'[g].selected = k.selected
      /\ conn'[g].slot = k.slot
  BY ZenonT(60), <1>4, <1>6, ConnFields, StageNames DEF Conn, SameBooks
<1>8. Others(g) /\ UNCHANGED <<life, accounts, warm, router, client, spoke>>
  BY <1>1, <1>5 DEF Others, FinishStops, TypeOK
<1>9. ConnOK'
  BY <1>1, <1>4, <1>5, <1>7, <1>8 DEF ConnOK, TypeOK, SameBooks, Others
<1>10. TypeOK'
  BY <1>1, <1>8, <1>9 DEF TypeOK, ConnOK
<1>11. \A h \in Conns : h # g => TameConn(h)
  BY <1>1, <1>8 DEF Others, TameConn, StopInv, TableInv
<1>12. TameConn(g)
  BY <1>2, <1>4, <1>7 DEF TameConn, SameBooks
<1> QED BY <1>4, <1>7, <1>8, <1>9, <1>10, <1>11, <1>12 DEF Tame, SameBooks, CtxDone

\* A callback of the idle timer, which may stop its connection.
LEMMA CallbackTame ==
  ASSUME LeaseInv, NEW g \in Conns, IdleCallback(g)
  PROVE  /\ TypeOK' /\ Tame
         /\ Others(g) /\ conn'[g].who = conn[g].who
         /\ conn'[g].slot = conn[g].slot /\ conn'[g].warm = conn[g].warm
         /\ conn'[g].channel = conn[g].channel
         /\ conn'[g].stage = conn[g].stage
         /\ conn'[g].closing /\ ~conn[g].closing =>
              \E e \in conn[g].fired : Idle(g, e)
<1>1. TypeOK /\ TableInv /\ StopInv
  BY DEF LeaseInv
<1>2. conn[g] \in Conn
  BY <1>1 DEF TypeOK
<1>3. PICK e \in conn[g].fired :
        conn' = [conn EXCEPT ![g] =
                   IF Idle(g, e) THEN Stopped([conn[g] EXCEPT !.fired = conn[g].fired \ {e}])
                                 ELSE [conn[g] EXCEPT !.fired = conn[g].fired \ {e}]]
  BY DEF IdleCallback
<1>4. UNCHANGED <<life, accounts, warm, router, client, spoke>>
  BY DEF IdleCallback
<1>5. PICK k : k = [conn[g] EXCEPT !.fired = conn[g].fired \ {e}]
  OBVIOUS
<1>6. /\ k \in Conn /\ k.fired \subseteq conn[g].fired
      /\ k.who = conn[g].who /\ k.leases = conn[g].leases
      /\ k.closing = conn[g].closing /\ k.cancelled = conn[g].cancelled
      /\ k.epoch = conn[g].epoch /\ k.timer = conn[g].timer
      /\ k.left = conn[g].left /\ k.rest = conn[g].rest
      /\ k.stage = conn[g].stage /\ k.warm = conn[g].warm
      /\ k.channel = conn[g].channel /\ k.selected = conn[g].selected
      /\ k.slot = conn[g].slot
  BY <1>2, <1>5, ConnFields DEF Conn
<1>7. conn'[g] = IF Idle(g, e) THEN Stopped(k) ELSE k
  BY <1>1, <1>3, <1>5 DEF TypeOK
<1>8. CASE Idle(g, e)
  <2>1. LET l == conn'[g]
        IN /\ l \in Conn /\ l.closing /\ l.timer = 0
           /\ l.who = k.who /\ l.fired = k.fired /\ l.stage = k.stage
           /\ l.warm = k.warm /\ l.channel = k.channel
           /\ l.selected = k.selected /\ l.slot = k.slot
    BY <1>6, <1>7, <1>8, StoppedIs
  <2>2. Others(g)
    BY <1>1, <1>3 DEF Others, TypeOK
  <2>3. ConnOK'
    <3>1. conn' = [conn EXCEPT ![g] = conn'[g]]
      BY <1>1, <1>3 DEF TypeOK
    <3>2. conn' \in [Conns -> Conn]
      BY <1>1, <2>1, <3>1 DEF TypeOK
    <3> QED BY <1>1, <1>6, <2>1, <2>2, <3>2 DEF ConnOK, TypeOK, Others
  <2>4. TypeOK'
    BY <1>1, <1>4, <2>3 DEF TypeOK, ConnOK
  <2>5. \A h \in Conns : h # g => TameConn(h)
    BY <1>1, <1>4, <2>2 DEF Others, TameConn, StopInv, TableInv
  <2>6. TameConn(g)
    BY <1>1, <1>6, <2>1 DEF TameConn, TableInv
  <2> QED BY <1>4, <1>6, <1>8, <2>1, <2>2, <2>3, <2>4, <2>5, <2>6 DEF Tame, CtxDone
<1>9. CASE ~Idle(g, e)
  <2>1. conn'[g] = k
    BY <1>7, <1>9
  <2>2. Others(g)
    BY <1>1, <1>3 DEF Others, TypeOK
  <2>3. ConnOK'
    BY <1>1, <1>3, <1>6, <2>1, <2>2 DEF ConnOK, TypeOK, Others
  <2>4. TypeOK'
    BY <1>1, <1>4, <2>3 DEF TypeOK, ConnOK
  <2>5. \A h \in Conns : h # g => TameConn(h)
    BY <1>1, <1>4, <2>2 DEF Others, TameConn, StopInv, TableInv
  <2>6. TameConn(g)
    BY <1>1, <1>4, <1>6, <2>1 DEF TameConn, TableInv, StopInv
  <2> QED BY <1>4, <1>6, <2>1, <2>2, <2>3, <2>4, <2>5, <2>6 DEF Tame, CtxDone
<1> QED BY <1>8, <1>9

-----------------------------------------------------------------------------
(* The warmups' own steps.                                                 *)

LEMMA CancelTyped ==
  ASSUME TypeOK, NEW S
  PROVE  /\ CancelWarms(S) \in [Warms -> Warm]
         /\ \A w \in Warms :
              LET k == warm[w]  l == CancelWarms(S)[w]
              IN /\ l.who = k.who /\ l.claimed = k.claimed
                 /\ l.closing = k.closing /\ l.listed = k.listed
                 /\ l.channel = k.channel /\ l.failed = k.failed
                 /\ l.handed = k.handed /\ l.released = k.released
                 /\ l.stage = k.stage /\ l.endpoint = k.endpoint
                 /\ l.cancelled = (k.cancelled \/ w \in S)
<1>1. \A w \in Warms : warm[w] \in Warm
  BY DEF TypeOK
<1>2. \A k \in Warm : [k EXCEPT !.cancelled = TRUE] \in Warm
  BY DEF Warm
<1>3. CancelWarms(S) \in [Warms -> Warm]
  BY <1>1, <1>2 DEF CancelWarms
<1> QED BY <1>1, <1>3, WarmFields DEF CancelWarms, Warm

LEMMA NewWarmTyped ==
  ASSUME TypeOK, NEW d \in Descriptors, NEW k, k = NewWarm(d)
  PROVE  /\ k \in Warm /\ k.who = d /\ ~k.cancelled /\ ~k.claimed /\ ~k.closing
         /\ k.listed /\ k.channel = router.channel /\ ~k.failed /\ ~k.handed
         /\ ~k.released /\ k.stage = "await" /\ k.endpoint = "none"
  BY DEF TypeOK, NewWarm, Warm, WarmStages, Endpoint

\* What a warmup's own step leaves alone.
WarmOthers(w) == \A x \in Warms : x # w => warm'[x] = warm[x]

WarmSame(k, l) ==
  /\ l.who = k.who /\ l.claimed = k.claimed /\ l.channel = k.channel

LEMMA WarmPut ==
  ASSUME TypeOK, NEW w \in Warms, NEW k \in Warm, warm' = [warm EXCEPT ![w] = k]
  PROVE  warm' \in [Warms -> Warm] /\ WarmOthers(w) /\ warm'[w] = k
  BY DEF TypeOK, WarmOthers

LEMMA WarmRunSum ==
  ASSUME TypeOK, NEW w \in Warms, WarmRun(w)
  PROVE  LET k == warm[w]  l == warm'[w]
         IN /\ warm' \in [Warms -> Warm] /\ WarmOthers(w) /\ WarmSame(k, l)
            /\ l.closing = k.closing /\ l.listed = k.listed
            /\ l.handed = k.handed /\ l.released = k.released
            /\ \/ /\ k.stage \in {"await", "parked", "readying"}
                  /\ l.stage \in {"ending", "parked"}
                  /\ l.endpoint = k.endpoint
               \/ /\ k.stage = "await" /\ l.stage = "creating"
                  /\ l.endpoint = "creating"
               \/ /\ k.stage = "creating" /\ l.stage = "readying"
                  /\ l.endpoint = "live"
               \/ /\ k.stage = "creating" /\ l.stage = "ending"
                  /\ l.endpoint = "none"
<1>1. warm[w] \in Warm /\ \A b \in BOOLEAN : (warm[w].failed \/ b) \in BOOLEAN
  BY WarmFields DEF TypeOK
<1>2. /\ {"await", "creating", "readying", "parked", "ending"} \subseteq WarmStages
      /\ {"none", "creating", "live"} \subseteq Endpoint
  BY DEF WarmStages, Endpoint
<1>3. CASE /\ warm[w].stage \in {"await", "parked", "readying"}
           /\ \E s \in {"ending", "parked"}, b \in BOOLEAN : Move(w, s, b)
  <2>1. PICK s \in {"ending", "parked"}, b \in BOOLEAN : Move(w, s, b)
    BY <1>3
  <2>2. PICK f \in BOOLEAN : f = (warm[w].failed \/ b)
    BY <1>1
  <2>3. PICK l : l = [warm[w] EXCEPT !.stage = s, !.failed = f]
    OBVIOUS
  <2>4. /\ l \in Warm /\ WarmSame(warm[w], l) /\ l.closing = warm[w].closing
        /\ l.listed = warm[w].listed /\ l.handed = warm[w].handed
        /\ l.released = warm[w].released /\ l.stage = s
        /\ l.endpoint = warm[w].endpoint
    BY <1>1, <1>2, <2>3, WarmFields DEF Warm, WarmSame
  <2>5. warm' = [warm EXCEPT ![w] = l]
    BY <2>1, <2>2, <2>3 DEF Move, TypeOK
  <2> QED BY <1>3, <2>4, <2>5, WarmPut
<1>4. CASE warm[w].stage = "await"
           /\ warm' = [warm EXCEPT ![w].stage = "creating", ![w].endpoint = "creating"]
  <2>1. PICK l : l = [warm[w] EXCEPT !.stage = "creating", !.endpoint = "creating"]
    OBVIOUS
  <2>2. /\ l \in Warm /\ WarmSame(warm[w], l) /\ l.closing = warm[w].closing
        /\ l.listed = warm[w].listed /\ l.handed = warm[w].handed
        /\ l.released = warm[w].released /\ l.stage = "creating"
        /\ l.endpoint = "creating"
    BY <1>1, <1>2, <2>1, WarmFields DEF Warm, WarmSame
  <2>3. warm' = [warm EXCEPT ![w] = l]
    BY <1>4, <2>1 DEF TypeOK
  <2> QED BY <1>4, <2>2, <2>3, WarmPut
<1>5. CASE warm[w].stage = "creating"
           /\ warm' = [warm EXCEPT ![w].stage = "readying", ![w].endpoint = "live"]
  <2>1. PICK l : l = [warm[w] EXCEPT !.stage = "readying", !.endpoint = "live"]
    OBVIOUS
  <2>2. /\ l \in Warm /\ WarmSame(warm[w], l) /\ l.closing = warm[w].closing
        /\ l.listed = warm[w].listed /\ l.handed = warm[w].handed
        /\ l.released = warm[w].released /\ l.stage = "readying"
        /\ l.endpoint = "live"
    BY <1>1, <1>2, <2>1, WarmFields DEF Warm, WarmSame
  <2>3. warm' = [warm EXCEPT ![w] = l]
    BY <1>5, <2>1 DEF TypeOK
  <2> QED BY <1>5, <2>2, <2>3, WarmPut
<1>6. CASE warm[w].stage = "creating"
           /\ warm' = [warm EXCEPT ![w].stage = "ending", ![w].failed = TRUE,
                                   ![w].endpoint = "none"]
  <2>1. PICK l : l = [warm[w] EXCEPT !.stage = "ending", !.failed = TRUE,
                                     !.endpoint = "none"]
    OBVIOUS
  <2>2. /\ l \in Warm /\ WarmSame(warm[w], l) /\ l.closing = warm[w].closing
        /\ l.listed = warm[w].listed /\ l.handed = warm[w].handed
        /\ l.released = warm[w].released /\ l.stage = "ending"
        /\ l.endpoint = "none"
    BY <1>1, <1>2, <2>1, WarmFields DEF Warm, WarmSame
  <2>3. warm' = [warm EXCEPT ![w] = l]
    BY <1>6, <2>1 DEF TypeOK
  <2> QED BY <1>6, <2>2, <2>3, WarmPut
<1>7. \/ /\ warm[w].stage \in {"await", "parked", "readying"}
         /\ \E s \in {"ending", "parked"}, b \in BOOLEAN : Move(w, s, b)
      \/ /\ warm[w].stage = "await"
         /\ warm' = [warm EXCEPT ![w].stage = "creating", ![w].endpoint = "creating"]
      \/ /\ warm[w].stage = "creating"
         /\ warm' = [warm EXCEPT ![w].stage = "readying", ![w].endpoint = "live"]
      \/ /\ warm[w].stage = "creating"
         /\ warm' = [warm EXCEPT ![w].stage = "ending", ![w].failed = TRUE,
                                 ![w].endpoint = "none"]
  BY DEF WarmRun
<1> QED BY <1>3, <1>4, <1>5, <1>6, <1>7

LEMMA WarmCloseSum ==
  ASSUME TypeOK, NEW w \in Warms, WarmClose(w)
  PROVE  LET k == warm[w]  l == warm'[w]
         IN /\ warm' \in [Warms -> Warm] /\ WarmOthers(w) /\ WarmSame(k, l)
            /\ l.closing /\ l.listed = k.listed /\ l.handed = k.claimed
            /\ l.released = k.released /\ l.endpoint = k.endpoint
            /\ k.stage = "ending" /\ l.stage = "closing"
<1>1. warm[w] \in Warm /\ "closing" \in WarmStages
  BY DEF TypeOK, WarmStages
<1>2. PICK l : l = [warm[w] EXCEPT !.stage = "closing", !.closing = TRUE,
                                   !.handed = warm[w].claimed]
  OBVIOUS
<1>3. /\ l \in Warm /\ WarmSame(warm[w], l) /\ l.closing
      /\ l.listed = warm[w].listed /\ l.handed = warm[w].claimed
      /\ l.released = warm[w].released /\ l.stage = "closing"
      /\ l.endpoint = warm[w].endpoint
  BY <1>1, <1>2, WarmFields DEF Warm, WarmSame
<1>4. warm' = [warm EXCEPT ![w] = l]
  BY ZenonT(60), <1>1, <1>2, <1>3 DEF TypeOK, WarmClose, StillListed, Warm
<1>5. warm[w].stage = "ending"
  BY DEF WarmClose
<1> QED BY <1>3, <1>4, <1>5, WarmPut

LEMMA WarmDropSum ==
  ASSUME TypeOK, NEW w \in Warms, WarmDrop(w)
  PROVE  LET k == warm[w]  l == warm'[w]
         IN /\ warm' \in [Warms -> Warm] /\ WarmOthers(w) /\ WarmSame(k, l)
            /\ l.closing = k.closing /\ l.listed = k.listed
            /\ l.handed = k.handed /\ l.released = ~k.handed
            /\ \/ l.endpoint = "none"
               \/ k.handed /\ l.endpoint = k.endpoint
            /\ k.stage = "closing" /\ l.stage = "unlisting"
<1>1. warm[w] \in Warm /\ "unlisting" \in WarmStages /\ "none" \in Endpoint
  BY DEF TypeOK, WarmStages, Endpoint
<1>2. PICK e \in Endpoint :
        /\ e = IF warm[w].handed /\ ~warm[w].failed THEN warm[w].endpoint
                                                    ELSE "none"
  BY <1>1, WarmFields
<1>3. PICK m : m = [warm[w] EXCEPT !.stage = "unlisting", !.cancelled = TRUE]
  OBVIOUS
<1>4. /\ m \in Warm /\ WarmSame(warm[w], m) /\ m.closing = warm[w].closing
      /\ m.listed = warm[w].listed /\ m.handed = warm[w].handed
      /\ m.stage = "unlisting"
  BY <1>1, <1>3, WarmFields DEF Warm, WarmSame
<1>5. PICK l : l = [m EXCEPT !.endpoint = e, !.released = ~warm[w].handed]
  OBVIOUS
<1>6. /\ l \in Warm /\ WarmSame(m, l) /\ l.closing = m.closing
      /\ l.listed = m.listed /\ l.handed = m.handed
      /\ l.released = ~warm[w].handed /\ l.stage = "unlisting" /\ l.endpoint = e
  BY <1>1, <1>4, <1>5, WarmFields DEF Warm, WarmSame
<1>7. l = [warm[w] EXCEPT !.stage = "unlisting", !.cancelled = TRUE,
                          !.endpoint = e, !.released = ~warm[w].handed]
  BY <1>1, <1>3, <1>5 DEF Warm
<1>8. warm' = [warm EXCEPT ![w] = l]
  BY <1>1, <1>2, <1>7 DEF TypeOK, WarmDrop
<1>9. warm[w].stage = "closing"
  BY DEF WarmDrop
<1> QED BY <1>2, <1>4, <1>6, <1>8, <1>9, WarmPut DEF WarmSame

LEMMA WarmUnlistSum ==
  ASSUME TypeOK, NEW w \in Warms, WarmUnlist(w)
  PROVE  LET k == warm[w]  l == warm'[w]
         IN /\ warm' \in [Warms -> Warm] /\ WarmOthers(w) /\ WarmSame(k, l)
            /\ l.closing = k.closing /\ ~l.listed
            /\ l.handed = k.handed /\ l.released = k.released
            /\ l.endpoint = k.endpoint
            /\ k.stage = "unlisting" /\ l.stage = "done"
<1>1. warm[w] \in Warm /\ "done" \in WarmStages
  BY DEF TypeOK, WarmStages
<1>2. PICK l : l = [warm[w] EXCEPT !.stage = "done", !.listed = FALSE]
  OBVIOUS
<1>3. /\ l \in Warm /\ WarmSame(warm[w], l) /\ l.closing = warm[w].closing
      /\ ~l.listed /\ l.handed = warm[w].handed
      /\ l.released = warm[w].released /\ l.stage = "done"
      /\ l.endpoint = warm[w].endpoint
  BY <1>1, <1>2, WarmFields DEF Warm, WarmSame
<1>4. warm' = [warm EXCEPT ![w] = l] /\ warm[w].stage = "unlisting"
  BY <1>1, <1>2 DEF TypeOK, WarmUnlist
<1> QED BY <1>3, <1>4, WarmPut

\* Nothing of a warmup changes but its cancellation.
Calm(k, l) ==
  /\ WarmSame(k, l) /\ l.closing = k.closing /\ l.listed = k.listed
  /\ l.handed = k.handed /\ l.released = k.released
  /\ l.stage = k.stage /\ l.endpoint = k.endpoint

WarmCalm == warm' \in [Warms -> Warm] /\ \A w \in Warms : Calm(warm[w], warm'[w])

LEMMA CancelCalm ==
  ASSUME TypeOK, NEW S, warm' = CancelWarms(S) \/ warm' = warm
  PROVE  WarmCalm
<1>1. CASE warm' = CancelWarms(S)
  BY <1>1, CancelTyped DEF WarmCalm, Calm, WarmSame
<1>2. CASE warm' = warm
  BY <1>2 DEF WarmCalm, Calm, WarmSame, TypeOK
<1> QED BY <1>1, <1>2

LEMMA AwaitWarmCalm ==
  ASSUME TypeOK, NEW c \in Clients, AwaitWarm(c)
  PROVE  WarmCalm
<1>1. PICK w \in Warms, b \in BOOLEAN :
        warm' = [warm EXCEPT ![w].cancelled = warm[w].cancelled \/ b]
  BY DEF AwaitWarm, Blocking, Outdated, Ending, Evictable, Listed, Discards
<1>2. warm[w] \in Warm /\ (warm[w].cancelled \/ b) \in BOOLEAN
  BY <1>1, WarmFields DEF TypeOK
<1>3. PICK l : l = [warm[w] EXCEPT !.cancelled = warm[w].cancelled \/ b]
  OBVIOUS
<1>4. l \in Warm /\ Calm(warm[w], l)
  BY <1>2, <1>3, WarmFields DEF Warm, Calm, WarmSame
<1>5. warm' = [warm EXCEPT ![w] = l]
  BY <1>1, <1>3 DEF TypeOK
<1>6. \A x \in Warms : Calm(warm[x], warm[x])
  BY DEF Calm, WarmSame
<1> QED BY <1>4, <1>5, <1>6, WarmPut DEF WarmCalm, WarmOthers

-----------------------------------------------------------------------------
(* The callers' and the manager's own steps.                               *)

LEMMA CallerFields ==
  ASSUME NEW k \in Caller
  PROVE  /\ k.pc \in {"idle", "trying", "waiting", "waitingWarm", "holding"}
         /\ k.who \in Descriptors /\ k.on \in Nat /\ k.calls \in Nat
  BY DEF Caller

\* A caller goes from one state to another, neither of which holds a lease.
LEMMA CallerMoves ==
  ASSUME TypeOK, NEW c \in Clients, NEW k \in Caller,
         client[c].pc # "holding", k.pc # "holding",
         client' = [client EXCEPT ![c] = k]
  PROVE  /\ client' \in [Clients -> Caller]
         /\ \A x \in Clients :
              /\ client'[x].pc = "holding" <=> client[x].pc = "holding"
              /\ client[x].pc = "holding" => client'[x].on = client[x].on
  BY DEF TypeOK

LEMMA QuitIs ==
  ASSUME TypeOK, NEW c \in Clients, Quit(c)
  PROVE  \E k \in Caller : /\ client' = [client EXCEPT ![c] = k]
                           /\ k.pc = "idle"
<1>1. client[c] \in Caller
  BY DEF TypeOK
<1>2. PICK k : k = [client[c] EXCEPT !.pc = "idle", !.on = 0]
  OBVIOUS
<1>3. k \in Caller /\ k.pc = "idle"
  BY <1>1, <1>2, CallerFields DEF Caller
<1>4. client' = [client EXCEPT ![c] = k]
  BY <1>2 DEF Quit, TypeOK
<1> QED BY <1>3, <1>4

\* The connections, the table and the leases are left alone.
Quiet ==
  /\ UNCHANGED <<conn, accounts, spoke>> /\ warm' \in [Warms -> Warm]
  /\ client' \in [Clients -> Caller]
  /\ \A x \in Clients :
       /\ client'[x].pc = "holding" <=> client[x].pc = "holding"
       /\ client[x].pc = "holding" => client'[x].on = client[x].on

LEMMA QuietTame ==
  ASSUME LeaseInv, Quiet, UNCHANGED <<life, router>>
  PROVE  TypeOK' /\ Tame
<1>1. TypeOK /\ TableInv /\ StopInv
  BY DEF LeaseInv
<1>2. TypeOK' /\ ConnOK'
  BY <1>1 DEF TypeOK, Quiet, ConnOK
<1>3. \A g \in Conns : TameConn(g)
  BY <1>1 DEF Quiet, TameConn, TableInv, StopInv
<1> QED BY <1>2, <1>3 DEF Tame, Quiet, CtxDone

\* A caller that enters, leaves or waits.
Waits(c) ==
  \/ \E d \in Descriptors : Call(c, d)
  \/ CallerGone(c) \/ AwaitClosing(c) \/ AwaitWarm(c) \/ Refuse(c) \/ WakeUp(c)

LEMMA WaitsQuiet ==
  ASSUME TypeOK, NEW c \in Clients, Waits(c)
  PROVE  /\ Quiet /\ UNCHANGED <<life, router>>
         /\ UNCHANGED warm \/ AwaitWarm(c)
<1>1. client[c] \in Caller /\ warm \in [Warms -> Warm]
  BY DEF TypeOK
<1>2. CASE \E d \in Descriptors : Call(c, d)
  <2>1. PICK d \in Descriptors : Call(c, d)
    BY <1>2
  <2>2. PICK n \in Nat : n = client[c].calls + 1
    BY <1>1, CallerFields
  <2>3. PICK k : k = [client[c] EXCEPT !.pc = "trying", !.who = d, !.calls = n]
    OBVIOUS
  <2>4. k \in Caller /\ k.pc = "trying"
    BY <1>1, <2>3, CallerFields DEF Caller
  <2>5. client' = [client EXCEPT ![c] = k] /\ client[c].pc = "idle"
    BY <2>1, <2>2, <2>3 DEF Call, TypeOK
  <2> QED BY <1>1, <2>1, <2>4, <2>5, CallerMoves DEF Call, Quiet
<1>3. CASE CallerGone(c) \/ Refuse(c)
  <2>1. Quit(c) /\ client[c].pc # "holding"
    BY <1>3 DEF CallerGone, Refuse
  <2>2. PICK k \in Caller : client' = [client EXCEPT ![c] = k] /\ k.pc = "idle"
    BY <2>1, QuitIs
  <2> QED BY <1>1, <1>3, <2>1, <2>2, CallerMoves DEF CallerGone, Refuse, Quiet
<1>4. CASE AwaitClosing(c) \/ AwaitWarm(c)
  <2>1. PICK n \in Nat, p \in {"waiting", "waitingWarm"} :
          client' = [client EXCEPT ![c].pc = p, ![c].on = n]
    <3>1. CASE AwaitClosing(c)
      <4>1. accounts[client[c].who.id] \in Nat
        <5>1. client[c].who.id \in Ids
          BY <1>1, CallerFields, DescriptorFields
        <5>2. accounts \in [Ids -> {0} \cup Conns]
          BY DEF TypeOK
        <5> QED BY <5>1, <5>2 DEF Conns
      <4> QED BY <3>1, <4>1 DEF AwaitClosing
    <3>2. CASE AwaitWarm(c)
      <4>1. PICK w \in Blocking(client[c].who) :
              client' = [client EXCEPT ![c].pc = "waitingWarm", ![c].on = w]
        BY <3>2 DEF AwaitWarm
      <4>2. w \in Nat
        BY DEF Blocking, Outdated, Ending, Evictable, Listed, Warms
      <4> QED BY <4>1, <4>2
    <3> QED BY <1>4, <3>1, <3>2
  <2>2. PICK k : k = [client[c] EXCEPT !.pc = p, !.on = n]
    OBVIOUS
  <2>3. k \in Caller /\ k.pc # "holding"
    BY <1>1, <2>2, CallerFields DEF Caller
  <2>4. client' = [client EXCEPT ![c] = k]
    BY <2>1, <2>2 DEF TypeOK
  <2>5. client[c].pc # "holding"
    BY <1>4 DEF AwaitClosing, AwaitWarm
  <2>6. warm' \in [Warms -> Warm]
    BY <1>1, <1>4, AwaitWarmCalm DEF AwaitClosing, WarmCalm
  <2> QED BY <1>4, <2>3, <2>4, <2>5, <2>6, CallerMoves
          DEF AwaitClosing, AwaitWarm, Quiet
<1>5. CASE WakeUp(c)
  <2>1. /\ client[c].pc \in {"waiting", "waitingWarm"}
        /\ \/ client' = [client EXCEPT ![c].pc = "trying", ![c].on = 0]
           \/ Quit(c)
    BY <1>5 DEF WakeUp
  <2>2. \E k \in Caller : client' = [client EXCEPT ![c] = k] /\ k.pc # "holding"
    <3>1. CASE client' = [client EXCEPT ![c].pc = "trying", ![c].on = 0]
      <4>1. PICK k : k = [client[c] EXCEPT !.pc = "trying", !.on = 0]
        OBVIOUS
      <4>2. k \in Caller /\ k.pc = "trying"
        BY <1>1, <4>1, CallerFields DEF Caller
      <4>3. client' = [client EXCEPT ![c] = k]
        BY <3>1, <4>1 DEF TypeOK
      <4> QED BY <4>2, <4>3
    <3>2. CASE Quit(c)
      BY <3>2, QuitIs
    <3> QED BY <2>1, <3>1, <3>2
  <2> QED BY <1>1, <1>5, <2>1, <2>2, CallerMoves DEF WakeUp, Quiet
<1> QED BY <1>2, <1>3, <1>4, <1>5 DEF Waits

\* What an unused warmup becomes, and what Prewarm does to the others.
LEMMA PrewarmSum ==
  ASSUME TypeOK, NEW d \in Descriptors, Prewarm(d)
  PROVE  /\ UNCHANGED <<life, accounts, conn, router, client, spoke>>
         /\ \/ WarmCalm
            \/ \E w \in Warms :
                 /\ w = 1 + Cardinality(Begun)
                 /\ d.id # Observer /\ Warmable(d) /\ Early(d) = {}
                 /\ Cardinality(Listed) < PrewarmCapacity
                 /\ \A x \in Same(d) : Primary(warm[x].who) # Primary(d)
                 /\ warm' \in [Warms -> Warm]
                 /\ \A x \in Warms : x # w => Calm(warm[x], warm'[x])
                 /\ warm'[w] = NewWarm(d)
<1>1. UNCHANGED <<life, accounts, conn, router, client, spoke>>
  BY DEF Prewarm
<1>2. CASE \E S : warm' = CancelWarms(S)
  BY <1>1, <1>2, CancelCalm
<1>3. CASE /\ Early(d) = {} /\ Cardinality(Listed) < PrewarmCapacity
           /\ \A x \in Same(d) : Primary(warm[x].who) # Primary(d)
           /\ d.id # Observer /\ Warmable(d)
           /\ 1 + Cardinality(Begun) <= MaxWarms
           /\ warm' = [CancelWarms(Same(d)) EXCEPT
                         ![1 + Cardinality(Begun)] = NewWarm(d)]
  <2>1. PICK w : w = 1 + Cardinality(Begun)
    OBVIOUS
  <2>2. Cardinality(Begun) \in Nat
    <3>1. IsFiniteSet(Warms)
      BY AccountAssumption, FS_Interval DEF AccountAssumption, Warms
    <3> QED BY <3>1, FS_Subset, FS_CardinalityType DEF Begun
  <2>3. w \in Warms
    BY <1>3, <2>1, <2>2, AccountAssumption DEF AccountAssumption, Warms
  <2>4. NewWarm(d) \in Warm
    BY NewWarmTyped
  <2>5. PICK W : W = CancelWarms(Same(d))
    OBVIOUS
  <2>6. W \in [Warms -> Warm] /\ \A x \in Warms : Calm(warm[x], W[x])
    BY <2>5, CancelTyped DEF Calm, WarmSame
  <2>7. warm' = [W EXCEPT ![w] = NewWarm(d)]
    BY <1>3, <2>1, <2>5
  <2>8. /\ warm' \in [Warms -> Warm] /\ warm'[w] = NewWarm(d)
        /\ \A x \in Warms : x # w => Calm(warm[x], warm'[x])
    BY <2>3, <2>4, <2>6, <2>7
  <2> QED BY <1>1, <1>3, <2>1, <2>3, <2>8
<1> QED BY <1>2, <1>3 DEF Prewarm

LEMMA WarmStepTyped ==
  ASSUME TypeOK, NEW w \in Warms, WarmStep(w)
  PROVE  /\ warm' \in [Warms -> Warm]
         /\ UNCHANGED <<life, accounts, conn, router, client, spoke>>
<1>1. warm' \in [Warms -> Warm]
  BY WarmRunSum, WarmCloseSum, WarmDropSum, WarmUnlistSum DEF WarmStep
<1> QED BY <1>1 DEF WarmStep, WarmRun, WarmClose, WarmDrop, WarmUnlist

\* A step of a warmup, or one that only ends warmups.
Warming ==
  \/ \E d \in Descriptors : Prewarm(d)
  \/ \E w \in Warms : WarmCallerGone(w) \/ WarmStep(w)
  \/ \E g \in Conns : WarmingCancelled(g)

LEMMA WarmingTame ==
  ASSUME LeaseInv, Warming
  PROVE  TypeOK' /\ Tame
<1>1. TypeOK
  BY DEF LeaseInv
<1>2. /\ warm' \in [Warms -> Warm]
      /\ UNCHANGED <<life, accounts, conn, router, client, spoke>>
  <2>1. CASE \E d \in Descriptors : Prewarm(d)
    BY <1>1, <2>1, PrewarmSum DEF WarmCalm
  <2>2. CASE \E w \in Warms : WarmCallerGone(w)
    BY <1>1, <2>2, CancelTyped DEF WarmCallerGone
  <2>3. CASE \E w \in Warms : WarmStep(w)
    BY <1>1, <2>3, WarmStepTyped
  <2>4. CASE \E g \in Conns : WarmingCancelled(g)
    BY <1>1, <2>4, CancelTyped DEF WarmingCancelled
  <2> QED BY <2>1, <2>2, <2>3, <2>4 DEF Warming
<1>3. Quiet
  BY <1>1, <1>2 DEF Quiet, TypeOK
<1> QED BY <1>2, <1>3, QuietTame

\* What the router and the manager as a whole do.
Managing ==
  \/ Start \/ RouterReady \/ RouterFails \/ RouterDrained \/ RouterStops
  \/ RouterStopped \/ Cancel \/ Close

RouterOK ==
  router \in [stage : {"off", "starting", "up", "draining", "stopping",
                       "stopped"},
              ready : BOOLEAN, channel : Nat, opened : SUBSET Nat,
              drain : SUBSET Warms]

LEMMA ManagingTyped ==
  ASSUME TypeOK, Managing
  PROVE  /\ RouterOK' /\ life' \in {"new", "running", "cancelled", "closed"}
         /\ CtxDone => CtxDone'
         /\ UNCHANGED <<accounts, client, spoke>> /\ WarmCalm
         /\ UNCHANGED conn \/ (conn' = StopAll /\ CtxDone')
         /\ life' = "closed" => UNCHANGED life \/ conn' = StopAll
         /\ router.opened \subseteq router'.opened
<1>1. RouterOK /\ life \in {"new", "running", "cancelled", "closed"}
  BY DEF TypeOK, RouterOK
<1>2. CASE Start
  BY <1>1, <1>2, CancelCalm DEF Start, RouterOK, CtxDone
<1>3. CASE RouterReady
  BY <1>1, <1>3, CancelCalm DEF RouterReady, RouterOK, CtxDone
<1>4. CASE RouterFails
  <2>1. router.channel + 1 \in Nat /\ Listed \subseteq Warms
    BY <1>1 DEF RouterOK, Listed
  <2>2. WarmCalm
    BY <1>4, CancelCalm DEF RouterFails
  <2>3. PICK n \in Nat, D \in SUBSET Warms :
          router' = [router EXCEPT !.stage = "draining", !.ready = FALSE,
                                   !.channel = n, !.drain = D]
    BY <1>1, <1>4, <2>1 DEF RouterFails, RouterOK
  <2>4. RouterOK' /\ router'.opened = router.opened
    BY <1>1, <2>3 DEF RouterOK
  <2> QED BY <1>1, <1>4, <2>2, <2>3, <2>4 DEF RouterFails, CtxDone, RouterOK
<1>5. CASE RouterDrained
  BY <1>1, <1>5, CancelCalm DEF RouterDrained, RouterOK, CtxDone
<1>6. CASE RouterStops
  BY <1>1, <1>6, CancelCalm DEF RouterStops, RouterOK, CtxDone
<1>7. CASE RouterStopped
  BY <1>1, <1>7, CancelCalm DEF RouterStopped, RouterOK, CtxDone
<1>8. CASE Cancel
  BY <1>1, <1>8, CancelCalm DEF Cancel, RouterOK, CtxDone
<1>9. CASE Close
  BY <1>1, <1>9, CancelCalm DEF Close, RouterOK, CtxDone
<1> QED BY <1>2, <1>3, <1>4, <1>5, <1>6, <1>7, <1>8, <1>9 DEF Managing

LEMMA ManagingTame ==
  ASSUME LeaseInv, Managing
  PROVE  TypeOK' /\ Tame
<1>1. TypeOK /\ TableInv /\ StopInv
  BY DEF LeaseInv
<1>2. /\ RouterOK' /\ life' \in {"new", "running", "cancelled", "closed"}
      /\ CtxDone => CtxDone'
      /\ UNCHANGED <<accounts, client, spoke>> /\ WarmCalm
      /\ UNCHANGED conn \/ (conn' = StopAll /\ CtxDone')
      /\ life' = "closed" => UNCHANGED life \/ conn' = StopAll
  BY <1>1, ManagingTyped
<1>4. Tame
  <2>1. CASE UNCHANGED conn
    <3>1. conn' = StopSet({})
      BY <1>1, <2>1 DEF TypeOK, StopSet
    <3>2. life' = "closed" =>
            \/ life = "closed"
            \/ \A g \in Conns : conn[g].closing \/ conn[g].stage = "unused"
      <4>1. CASE life' = "closed" /\ life # "closed"
        <5>1. conn = StopAll
          BY <1>2, <2>1, <4>1
        <5>2. ASSUME NEW g \in Conns, Live(g) PROVE conn[g].closing
          <6>1. g \in Tracked /\ conn[g] \in Conn
            BY <1>1, <5>2, TrackedIs DEF TypeOK
          <6>2. conn[g] = Stopped(conn[g])
            BY <5>1, <6>1 DEF StopAll
          <6> QED BY <6>1, <6>2, StoppedIs
        <5> QED BY <1>1, <5>2 DEF Live, StopInv
      <4> QED BY <4>1
    <3> QED BY <1>2, <3>1, <3>2, StopsTame
  <2>2. CASE conn' = StopAll
    <3>1. PICK S : S = Tracked
      OBVIOUS
    <3>2. S \in SUBSET Conns
      BY <1>1, <3>1 DEF TypeOK, Tracked
    <3>3. conn' = StopSet(S)
      BY <2>2, <3>1 DEF StopAll, StopSet
    <3>4. \A g \in Conns : g \in S \/ conn[g].closing \/ conn[g].stage = "unused"
      BY <1>1, <3>1, TrackedIs DEF Live, StopInv
    <3> QED BY <1>2, <3>2, <3>3, <3>4, StopsTame
  <2> QED BY <1>2, <2>1, <2>2
<1>5. TypeOK'
  BY <1>1, <1>2, <1>4 DEF TypeOK, Tame, ConnOK, RouterOK, WarmCalm
<1> QED BY <1>4, <1>5

-----------------------------------------------------------------------------
(* Steps that take or give back leases, or let time pass.                  *)

LEMMA SteadyTables ==
  ASSUME TypeOK, TableInv, SpokenInv, UNCHANGED <<accounts, spoke>>,
         \A g \in Conns : /\ conn'[g].who = conn[g].who
                          /\ conn'[g].stage = conn[g].stage
                          /\ conn'[g].warm = conn[g].warm
  PROVE  TableInv' /\ SpokenInv' /\ Used' = Used /\ Tracked' = Tracked
<1>1. Used' = Used /\ \A g \in Conns : Live(g)' <=> Live(g)
  BY DEF Used, Live
<1>2. \A i \in Ids : accounts[i] # 0 => accounts[i] \in Conns
  BY DEF TypeOK
<1>3. TableInv'
  <2>1. \A i \in Ids : \A g \in Conns : accounts'[i] = g =>
          conn'[g].who.id = i /\ Live(g)'
    BY <1>1 DEF TableInv, Conns
  <2>2. \A g \in Conns : Live(g)' => accounts'[conn'[g].who.id] = g
    BY <1>1 DEF TableInv
  <2>3. \A g \in Conns : conn'[g].stage = "warming" => conn'[g].warm # 0
    BY DEF TableInv
  <2>4. \E n \in 0..MaxConns : Used' = 1..n
    BY <1>1 DEF TableInv
  <2> QED BY <1>2, <2>1, <2>2, <2>3, <2>4 DEF TableInv, Live
<1>4. SpokenInv'
  BY <1>1 DEF SpokenInv
<1> QED BY <1>1, <1>3, <1>4 DEF Tracked

LEMMA LeaseTaken ==
  ASSUME LeaseInv, NEW c \in Clients, NEW g \in Conns, Live(g),
         ~conn[g].closing, conn[g].who.id # Observer,
         conn' = [conn EXCEPT ![g] = Leased(conn[g])],
         NEW k \in Caller, client' = [client EXCEPT ![c] = k],
         client[c].pc # "holding", k.pc = "holding", k.on = g,
         UNCHANGED <<life, accounts, warm, router, spoke>>
  PROVE  LeaseInv'
<1>1. TypeOK /\ TableInv /\ SpokenInv /\ StopInv /\ TimerInv /\ LeasesCounted
  BY DEF LeaseInv
<1>2. conn[g] \in Conn
  BY <1>1 DEF TypeOK
<1>3. LET l == conn'[g]
      IN /\ l \in Conn /\ l.leases = conn[g].leases + 1
         /\ l.epoch = conn[g].epoch + 1 /\ l.timer = 0
         /\ l.fired = conn[g].fired /\ l.who = conn[g].who
         /\ l.closing = conn[g].closing /\ l.cancelled = conn[g].cancelled
         /\ l.stage = conn[g].stage /\ l.warm = conn[g].warm
         /\ l.selected = conn[g].selected
  <2>1. conn'[g] = Leased(conn[g])
    BY <1>1 DEF TypeOK
  <2> QED BY <1>2, <2>1, LeasedIs
<1>4. \A h \in Conns : h # g => conn'[h] = conn[h]
  BY <1>1 DEF TypeOK
<1>5. ConnOK'
  BY <1>1, <1>3, <1>4 DEF TypeOK, ConnOK
<1>6. client' \in [Clients -> Caller]
  BY <1>1 DEF TypeOK
<1>7. TypeOK'
  BY <1>1, <1>5, <1>6 DEF TypeOK, ConnOK
<1>8. TableInv' /\ SpokenInv' /\ Used' = Used /\ Tracked' = Tracked
  BY <1>1, <1>3, <1>4, SteadyTables
<1>9. g \in Used /\ g \in Tracked
  BY <1>1, TrackedIs DEF Live, Used
<1>10. StopInv'
  <2>1. \A x \in Clients : client'[x].pc = "holding" =>
          client'[x].on \in Used /\ conn[client'[x].on].who.id # Observer
    BY <1>1, <1>9 DEF StopInv, TypeOK
  <2>2. \A h \in Used : conn'[h].who = conn[h].who
    BY <1>3, <1>4 DEF Used
  <2>3. \A h \in Conns :
          /\ conn'[h].cancelled => conn'[h].closing
          /\ conn'[h].stage = "leaving" => conn'[h].closing \/ CtxDone
          /\ conn'[h].stage \in {"closing", "reporting", "removing", "gone"} =>
               conn'[h].closing
          /\ life = "closed" => conn'[h].closing \/ conn'[h].stage = "unused"
          /\ conn'[h].who.id = Observer =>
               conn'[h].timer = 0 /\ conn'[h].fired = {}
    BY <1>1, <1>3, <1>4 DEF StopInv
  <2> QED BY <1>8, <2>1, <2>2, <2>3 DEF StopInv, CtxDone
<1>11. TimerInv'
  <2>1. \A e \in conn[g].fired : e <= conn[g].epoch
    BY <1>1, <1>9 DEF TimerInv
  <2>2. \A e \in conn'[g].fired : e < conn'[g].epoch
    BY <1>2, <1>3, <2>1, ConnFields
  <2>3. conn'[g].epoch \in Nat /\ conn'[g].fired \in SUBSET Nat
    BY <1>3, ConnFields
  <2>4. /\ conn'[g].timer = 0
        /\ \A e \in conn'[g].fired : e <= conn'[g].epoch
        /\ conn'[g].epoch \notin conn'[g].fired
    BY <1>3, <2>2, <2>3
  <2>5. \A h \in Used : h # g => conn'[h] = conn[h]
    BY <1>4 DEF Used
  <2> QED BY <1>1, <1>8, <2>4, <2>5 DEF TimerInv
<1>12. LeasesCounted'
  <2>1. Holders(g)' = Holders(g) \cup {c} /\ c \notin Holders(g)
    BY <1>1 DEF Holders, TypeOK
  <2>2. \A h : h # g => Holders(h)' = Holders(h)
    BY <1>1 DEF Holders, TypeOK
  <2>3. conn[g].leases = Cardinality(Holders(g))
    BY <1>1, <1>9 DEF LeasesCounted
  <2>4. Cardinality(Holders(g)') = Cardinality(Holders(g)) + 1
    BY <2>1, HoldersFinite, FS_AddElement
  <2>5. \A h \in Tracked : h \in Conns
    BY <1>1, TrackedIs
  <2>6. conn'[g].leases = Cardinality(Holders(g)')
    BY <1>3, <2>3, <2>4
  <2>7. \A h \in Tracked : h # g => conn'[h] = conn[h]
    BY <1>4, <2>5
  <2> QED BY <1>1, <1>8, <2>2, <2>6, <2>7 DEF LeasesCounted
<1> QED BY <1>7, <1>8, <1>10, <1>11, <1>12 DEF LeaseInv

LEMMA HoldIs ==
  ASSUME TypeOK, NEW c \in Clients, NEW g \in Conns, Hold(c, g),
         conn'[g] \in Conn
  PROVE  \E k \in Caller :
           /\ client' = [client EXCEPT ![c] = k]
           /\ conn'[g].who.id = Observer => k.pc = "idle"
           /\ conn'[g].who.id # Observer => k.pc = "holding" /\ k.on = g
<1>1. client[c] \in Caller /\ g \in Nat
  BY DEF TypeOK, Conns
<1>2. CASE conn'[g].who.id = Observer
  <2>1. PICK k : k = [client[c] EXCEPT !.pc = "idle", !.on = 0]
    OBVIOUS
  <2>2. k \in Caller /\ k.pc = "idle"
    BY <1>1, <2>1, CallerFields DEF Caller
  <2>3. client' = [client EXCEPT ![c] = k]
    BY <1>2, <2>1 DEF Hold, TypeOK
  <2> QED BY <1>2, <2>2, <2>3
<1>3. CASE conn'[g].who.id # Observer
  <2>1. PICK k : k = [client[c] EXCEPT !.pc = "holding", !.on = g]
    OBVIOUS
  <2>2. k \in Caller /\ k.pc = "holding" /\ k.on = g
    BY <1>1, <2>1, CallerFields DEF Caller
  <2>3. client' = [client EXCEPT ![c] = k]
    BY <1>3, <2>1 DEF Hold, TypeOK
  <2> QED BY <1>3, <2>2, <2>3
<1> QED BY <1>2, <1>3

LEMMA JoinKeeps ==
  ASSUME LeaseInv, NEW c \in Clients, Join(c)
  PROVE  LeaseInv'
<1>1. TypeOK /\ TableInv
  BY DEF LeaseInv
<1>2. PICK g : g = accounts[client[c].who.id]
  OBVIOUS
<1>3. /\ client[c].pc = "trying" /\ g # 0 /\ ~conn[g].closing
      /\ conn[g].who = client[c].who
      /\ conn' = [conn EXCEPT ![g] = Leased(conn[g])]
      /\ Hold(c, g) /\ UNCHANGED <<life, accounts, warm, router, spoke>>
  BY <1>2 DEF Join
<1>4. g \in Conns /\ Live(g)
  <2>1. client[c].who.id \in Ids
    BY <1>1, CallerFields, DescriptorFields DEF TypeOK
  <2> QED BY <1>1, <1>2, <1>3, <2>1, TrackedIs DEF Tracked
<1>5. conn[g] \in Conn /\ conn'[g] = Leased(conn[g])
  BY <1>1, <1>3, <1>4 DEF TypeOK
<1>6. CASE conn[g].who.id = Observer
  <2>1. conn' = conn
    BY <1>1, <1>3, <1>4, <1>6 DEF Leased, TypeOK
  <2>2. PICK k \in Caller : client' = [client EXCEPT ![c] = k] /\ k.pc = "idle"
    BY <1>1, <1>3, <1>4, <1>5, <1>6, <2>1, HoldIs
  <2>3. Quiet
    BY <1>1, <1>3, <2>1, <2>2, CallerMoves DEF Quiet, TypeOK
  <2> QED BY <1>3, <2>3, QuietTame, TameKeeps
<1>7. CASE conn[g].who.id # Observer
  <2>1. conn'[g] \in Conn /\ conn'[g].who = conn[g].who
    BY <1>5, <1>7, LeasedIs
  <2>2. PICK k \in Caller : /\ client' = [client EXCEPT ![c] = k]
                            /\ k.pc = "holding" /\ k.on = g
    BY <1>1, <1>3, <1>4, <1>7, <2>1, HoldIs
  <2> QED BY <1>3, <1>4, <1>7, <2>2, LeaseTaken
<1> QED BY <1>6, <1>7

LEMMA RetainKeeps ==
  ASSUME LeaseInv, NEW c \in Clients, NEW i \in Ids, Retain(c, i)
  PROVE  LeaseInv'
<1>1. TypeOK /\ TableInv
  BY DEF LeaseInv
<1>2. PICK g : g = accounts[i]
  OBVIOUS
<1>3. PICK n : n = client[c].calls + 1
  OBVIOUS
<1>4. /\ client[c].pc = "idle" /\ i # Observer /\ g # 0 /\ ~conn[g].closing
      /\ conn' = [conn EXCEPT ![g] = Leased(conn[g])]
      /\ client' = [client EXCEPT ![c].pc = "holding", ![c].on = g,
                                  ![c].calls = n]
      /\ UNCHANGED <<life, accounts, warm, router, spoke>>
  BY <1>2, <1>3 DEF Retain
<1>5. g \in Conns /\ Live(g)
  BY <1>1, <1>2, <1>4, TrackedIs DEF Tracked
<1>6. conn[g].who.id = i
  BY <1>1, <1>2, <1>4 DEF TableInv
<1>7. client[c] \in Caller /\ n \in Nat /\ g \in Nat
  BY <1>1, <1>3, <1>5, CallerFields DEF TypeOK, Conns
<1>8. PICK k : k = [client[c] EXCEPT !.pc = "holding", !.on = g, !.calls = n]
  OBVIOUS
<1>9. k \in Caller /\ k.pc = "holding" /\ k.on = g
  BY <1>7, <1>8, CallerFields DEF Caller
<1>10. client' = [client EXCEPT ![c] = k]
  BY <1>1, <1>4, <1>8 DEF TypeOK
<1> QED BY <1>4, <1>5, <1>6, <1>9, <1>10, LeaseTaken

LEMMA ReleaseKeeps ==
  ASSUME LeaseInv, NEW c \in Clients, Release(c)
  PROVE  LeaseInv'
<1>1. TypeOK /\ TableInv /\ SpokenInv /\ StopInv /\ TimerInv /\ LeasesCounted
  BY DEF LeaseInv
<1>2. PICK g : g = client[c].on
  OBVIOUS
<1>3. /\ client[c].pc = "holding" /\ Quit(c)
      /\ conn' = IF /\ accounts[conn[g].who.id] = g
                    /\ ~conn[g].closing
                    /\ life # "closed"
                 THEN [conn EXCEPT ![g] = Released(conn[g])] ELSE conn
      /\ UNCHANGED <<life, accounts, warm, router, spoke>>
  BY <1>2 DEF Release
<1>4. g \in Used /\ g \in Conns /\ conn[g].who.id # Observer
  BY <1>1, <1>2, <1>3 DEF StopInv, Used
<1>5. PICK k \in Caller : client' = [client EXCEPT ![c] = k] /\ k.pc = "idle"
  BY <1>1, <1>3, QuitIs
<1>6. client' \in [Clients -> Caller]
  BY <1>1, <1>5 DEF TypeOK
<1>7. /\ Holders(g)' = Holders(g) \ {c} /\ c \in Holders(g)
      /\ \A h : h # g => Holders(h)' = Holders(h)
  BY <1>1, <1>2, <1>3, <1>5 DEF Holders, TypeOK
<1>8. \A x \in Clients : client'[x].pc = "holding" =>
        client[x].pc = "holding" /\ client'[x].on = client[x].on
  BY <1>1, <1>5 DEF TypeOK
<1>9. CASE ~(accounts[conn[g].who.id] = g /\ ~conn[g].closing /\ life # "closed")
  <2>1. UNCHANGED conn
    BY <1>3, <1>9
  <2>2. TypeOK'
    BY <1>1, <1>3, <1>6, <2>1 DEF TypeOK
  <2>3. TableInv' /\ SpokenInv' /\ Used' = Used /\ Tracked' = Tracked
    BY <1>1, <1>3, <2>1, SteadyTables
  <2>4. StopInv'
    BY <1>1, <1>3, <1>8, <2>1 DEF StopInv, Used, CtxDone
  <2>5. TimerInv'
    BY <1>1, <2>1, <2>3 DEF TimerInv
  <2>6. \A h \in Tracked : h = g => conn[h].closing
    BY <1>1, <1>4, <1>9, TrackedIs DEF TableInv, StopInv, Used
  <2>7. LeasesCounted'
    BY <1>1, <1>7, <2>1, <2>3, <2>6 DEF LeasesCounted
  <2> QED BY <2>2, <2>3, <2>4, <2>5, <2>7 DEF LeaseInv
<1>10. CASE accounts[conn[g].who.id] = g /\ ~conn[g].closing /\ life # "closed"
  <2>1. g \in Tracked /\ conn[g] \in Conn
    <3>1. conn[g] \in Conn /\ conn[g].who.id \in Ids
      BY <1>1, <1>4, ConnFields, DescriptorFields DEF TypeOK
    <3> QED BY <1>4, <1>10, <3>1 DEF Tracked, Conns
  <2>2. conn[g].leases = Cardinality(Holders(g))
    BY <1>1, <1>4, <1>10, <2>1 DEF LeasesCounted
  <2>3. Cardinality(Holders(g)') = Cardinality(Holders(g)) - 1
        /\ Cardinality(Holders(g)') \in Nat
    <3>1. IsFiniteSet(Holders(g)) /\ IsFiniteSet(Holders(g) \ {c})
      BY HoldersFinite, FS_RemoveElement
    <3>2. Cardinality(Holders(g)') = Cardinality(Holders(g)) - 1
      BY <1>7, <3>1, FS_RemoveElement
    <3> QED BY <1>7, <3>1, <3>2, FS_CardinalityType
  <2>4. conn[g].leases > 0
    BY <2>1, <2>2, <2>3, HoldersFinite
  <2>5. conn' = [conn EXCEPT ![g] = Released(conn[g])]
    BY <1>3, <1>10
  <2>6. conn'[g] = Released(conn[g])
    BY <1>1, <1>4, <2>5 DEF TypeOK
  <2>7. LET k2 == conn[g]  l == conn'[g]
        IN /\ l \in Conn /\ l.leases = k2.leases - 1
           /\ \/ /\ k2.leases > 1 /\ l.epoch = k2.epoch /\ l.timer = k2.timer
              \/ /\ l.leases = 0 /\ l.epoch = k2.epoch + 1
                 /\ l.timer = k2.epoch + 1 /\ l.left = Grace /\ l.rest = 0
           /\ l.fired = k2.fired /\ l.who = k2.who /\ l.closing = k2.closing
           /\ l.cancelled = k2.cancelled /\ l.stage = k2.stage
           /\ l.warm = k2.warm /\ l.selected = k2.selected
    BY <2>1, <2>4, <2>6, ReleasedIs
  <2>8. \A h \in Conns : h # g => conn'[h] = conn[h]
    BY <1>1, <2>5 DEF TypeOK
  <2>9. ConnOK'
    BY <1>1, <1>4, <2>5, <2>7, <2>8 DEF TypeOK, ConnOK
  <2>10. TypeOK'
    BY <1>1, <1>3, <1>6, <2>9 DEF TypeOK, ConnOK
  <2>11. TableInv' /\ SpokenInv' /\ Used' = Used /\ Tracked' = Tracked
    BY <1>1, <1>3, <2>7, <2>8, SteadyTables
  <2>12. StopInv'
    <3>1. \A x \in Clients : client'[x].pc = "holding" =>
            client'[x].on \in Used /\ conn[client'[x].on].who.id # Observer
      BY <1>1, <1>8 DEF StopInv
    <3>2. \A h \in Used : conn'[h].who = conn[h].who
      BY <2>7, <2>8 DEF Used
    <3>3. \A h \in Conns :
          /\ conn'[h].cancelled => conn'[h].closing
          /\ conn'[h].stage = "leaving" => conn'[h].closing \/ CtxDone
          /\ conn'[h].stage \in {"closing", "reporting", "removing", "gone"} =>
               conn'[h].closing
          /\ life = "closed" => conn'[h].closing \/ conn'[h].stage = "unused"
          /\ conn'[h].who.id = Observer =>
               conn'[h].timer = 0 /\ conn'[h].fired = {}
      BY <1>1, <1>4, <2>7, <2>8 DEF StopInv
    <3> QED BY <1>3, <2>11, <3>1, <3>2, <3>3 DEF StopInv, CtxDone
  <2>13. TimerInv'
    <3>1. /\ conn[g].timer # 0 => conn[g].leases = 0
          /\ \A e \in conn[g].fired : e <= conn[g].epoch
          /\ conn[g].epoch \in conn[g].fired => conn[g].leases = 0
      BY <1>1, <1>4, <1>10 DEF TimerInv
    <3>2. /\ conn[g].epoch \in Nat /\ conn[g].fired \in SUBSET Nat
          /\ conn[g].leases \in Nat /\ Grace \in Nat
      BY <2>1, ConnFields, AccountAssumption DEF AccountAssumption
    <3>3. /\ conn'[g].timer # 0 => /\ conn'[g].timer = conn'[g].epoch
                                   /\ conn'[g].leases = 0
                                   /\ conn'[g].rest + conn'[g].left = Grace
          /\ \A e \in conn'[g].fired : e <= conn'[g].epoch
          /\ conn'[g].epoch \notin conn'[g].fired
      <4>1. CASE conn[g].leases > 1 /\ conn'[g].epoch = conn[g].epoch
                 /\ conn'[g].timer = conn[g].timer
        BY <2>7, <3>1, <3>2, <4>1
      <4>2. CASE /\ conn'[g].leases = 0 /\ conn'[g].epoch = conn[g].epoch + 1
                 /\ conn'[g].timer = conn[g].epoch + 1
                 /\ conn'[g].left = Grace /\ conn'[g].rest = 0
        <5>1. \A e \in conn'[g].fired : e < conn'[g].epoch /\ e \in Nat
          BY <2>7, <3>1, <3>2, <4>2
        <5>2. conn'[g].rest + conn'[g].left = Grace /\ conn'[g].epoch \in Nat
          BY <3>2, <4>2
        <5> QED BY <4>2, <5>1, <5>2
      <4> QED BY <2>7, <4>1, <4>2
    <3>4. \A h \in Used : h # g => conn'[h] = conn[h]
      BY <2>8 DEF Used
    <3> QED BY <1>1, <2>11, <3>3, <3>4 DEF TimerInv
  <2>14. LeasesCounted'
    <3>1. conn'[g].leases = Cardinality(Holders(g)')
      BY <2>2, <2>3, <2>7
    <3>2. \A h \in Tracked : h # g => conn'[h] = conn[h]
      BY <1>1, <2>8, TrackedIs
    <3> QED BY <1>1, <1>7, <2>11, <3>1, <3>2 DEF LeasesCounted
  <2> QED BY <2>10, <2>11, <2>12, <2>13, <2>14 DEF LeaseInv
<1> QED BY <1>9, <1>10

\* A step that changes timers, callbacks or the time without leases only.
LEMMA TimesKeep ==
  ASSUME LeaseInv, conn' \in [Conns -> Conn],
         UNCHANGED <<life, accounts, warm, router, client, spoke>>,
         \A g \in Conns :
           /\ conn'[g].who = conn[g].who /\ conn'[g].stage = conn[g].stage
           /\ conn'[g].warm = conn[g].warm
           /\ conn'[g].selected = conn[g].selected
           /\ conn'[g].leases = conn[g].leases
           /\ conn'[g].closing = conn[g].closing
           /\ conn'[g].cancelled = conn[g].cancelled
           /\ conn[g].who.id = Observer =>
                conn'[g].timer = conn[g].timer /\ conn'[g].fired = conn[g].fired,
         TimerInv'
  PROVE  LeaseInv'
<1>1. TypeOK /\ TableInv /\ SpokenInv /\ StopInv /\ LeasesCounted
  BY DEF LeaseInv
<1>2. TypeOK'
  BY <1>1 DEF TypeOK
<1>3. TableInv' /\ SpokenInv' /\ Used' = Used /\ Tracked' = Tracked
  BY <1>1, SteadyTables
<1>4. StopInv'
  <2>1. \A x \in Clients : client'[x].pc = "holding" =>
          client'[x].on \in Used /\ conn'[client'[x].on].who.id # Observer
    BY <1>1 DEF StopInv, Used
  <2>2. \A h \in Conns :
          /\ conn'[h].cancelled => conn'[h].closing
          /\ conn'[h].stage = "leaving" => conn'[h].closing \/ CtxDone
          /\ conn'[h].stage \in {"closing", "reporting", "removing", "gone"} =>
               conn'[h].closing
          /\ life = "closed" => conn'[h].closing \/ conn'[h].stage = "unused"
          /\ conn'[h].who.id = Observer =>
               conn'[h].timer = 0 /\ conn'[h].fired = {}
    BY <1>1 DEF StopInv
  <2> QED BY <1>3, <2>1, <2>2 DEF StopInv, CtxDone
<1>5. LeasesCounted'
  <2>1. \A g : Holders(g)' = Holders(g)
    BY DEF Holders
  <2>2. \A g \in Tracked : g \in Conns
    BY <1>1, TrackedIs
  <2> QED BY <1>1, <1>3, <2>1, <2>2 DEF LeasesCounted
<1> QED BY <1>2, <1>3, <1>4, <1>5 DEF LeaseInv

LEMMA TimerFiresKeeps ==
  ASSUME LeaseInv, NEW g \in Conns, TimerFires(g)
  PROVE  /\ LeaseInv' /\ Others(g)
         /\ conn'[g].who = conn[g].who /\ conn'[g].closing = conn[g].closing
         /\ conn'[g].slot = conn[g].slot /\ conn'[g].warm = conn[g].warm
         /\ conn'[g].channel = conn[g].channel
         /\ conn'[g].stage = conn[g].stage
<1>1. TypeOK /\ StopInv /\ TimerInv
  BY DEF LeaseInv
<1>2. conn[g] \in Conn
  BY <1>1 DEF TypeOK
<1>3. PICK F \in SUBSET Nat : F = conn[g].fired \cup {conn[g].timer}
  BY <1>2, ConnFields
<1>4. conn'[g] = [conn[g] EXCEPT !.fired = F, !.timer = 0]
  BY <1>1, <1>3 DEF TypeOK, TimerFires
<1>5. LET k == conn[g]  l == conn'[g]
      IN /\ l \in Conn /\ l.who = k.who /\ l.leases = k.leases
         /\ l.closing = k.closing /\ l.cancelled = k.cancelled
         /\ l.epoch = k.epoch /\ l.timer = 0 /\ l.left = k.left
         /\ l.fired = F /\ l.rest = k.rest /\ l.stage = k.stage
         /\ l.warm = k.warm /\ l.channel = k.channel
         /\ l.selected = k.selected /\ l.slot = k.slot
  <2>1. PICK m : m = [conn[g] EXCEPT !.timer = 0]
    OBVIOUS
  <2>2. /\ m \in Conn /\ m.who = conn[g].who /\ m.leases = conn[g].leases
        /\ m.closing = conn[g].closing /\ m.cancelled = conn[g].cancelled
        /\ m.epoch = conn[g].epoch /\ m.timer = 0 /\ m.left = conn[g].left
        /\ m.rest = conn[g].rest /\ m.stage = conn[g].stage
        /\ m.warm = conn[g].warm /\ m.channel = conn[g].channel
        /\ m.selected = conn[g].selected /\ m.slot = conn[g].slot
    BY <1>2, <2>1, ConnFields DEF Conn
  <2>3. conn'[g] = [m EXCEPT !.fired = F]
    BY <1>2, <1>4, <2>1 DEF Conn
  <2>4. F \in SUBSET Nat
    BY <1>3
  <2>5. PICK l : l = conn'[g]
    OBVIOUS
  <2>6. /\ l \in Conn /\ l.who = m.who /\ l.leases = m.leases
        /\ l.closing = m.closing /\ l.cancelled = m.cancelled
        /\ l.epoch = m.epoch /\ l.timer = m.timer /\ l.left = m.left
        /\ l.rest = m.rest /\ l.stage = m.stage /\ l.fired = F
        /\ l.warm = m.warm /\ l.channel = m.channel
        /\ l.selected = m.selected /\ l.slot = m.slot
    BY <2>2, <2>3, <2>4, <2>5, ConnFields DEF Conn
  <2> QED BY <2>2, <2>5, <2>6
<1>6. /\ conn' \in [Conns -> Conn] /\ Others(g)
      /\ UNCHANGED <<life, accounts, warm, router, client, spoke>>
      /\ conn[g].timer # 0 /\ conn[g].left = 0
  BY <1>1, <1>5 DEF TypeOK, TimerFires, Others
<1>7. conn[g].who.id # Observer
  BY <1>1, <1>6 DEF StopInv
<1>8. Used' = Used
  BY <1>5, <1>6 DEF Used, Others
<1>9. TimerInv'
  <2>1. SUFFICES ASSUME NEW h \in Used, ~conn'[h].closing
                 PROVE  /\ conn'[h].timer # 0 =>
                             /\ conn'[h].timer = conn'[h].epoch
                             /\ conn'[h].leases = 0
                             /\ conn'[h].rest + conn'[h].left = Grace
                        /\ \A e \in conn'[h].fired : e <= conn'[h].epoch
                        /\ conn'[h].epoch \in conn'[h].fired =>
                             conn'[h].leases = 0 /\ conn'[h].rest = Grace
    BY <1>8 DEF TimerInv
  <2>2. CASE h # g
    BY <1>1, <1>6, <2>1, <2>2 DEF TimerInv, Others, Used
  <2>3. CASE h = g
    <3>1. /\ conn[g].timer = conn[g].epoch /\ conn[g].leases = 0
          /\ conn[g].rest + conn[g].left = Grace
          /\ \A e \in conn[g].fired : e <= conn[g].epoch
      BY <1>1, <1>5, <1>6, <2>1, <2>3 DEF TimerInv
    <3>2. conn[g].rest = Grace /\ conn[g].epoch <= conn[g].epoch
      BY <1>2, <1>6, <3>1, ConnFields
    <3> QED BY <1>3, <1>5, <2>3, <3>1, <3>2
  <2> QED BY <2>2, <2>3
<1>10. LeaseInv'
  BY <1>5, <1>6, <1>7, <1>9, TimesKeep DEF Others
<1> QED BY <1>5, <1>6, <1>10

LEMMA TickKeeps ==
  ASSUME LeaseInv, Tick
  PROVE  /\ LeaseInv'
         /\ \A g \in Conns :
              /\ conn'[g].who = conn[g].who /\ conn'[g].closing = conn[g].closing
              /\ conn'[g].slot = conn[g].slot /\ conn'[g].warm = conn[g].warm
              /\ conn'[g].channel = conn[g].channel
              /\ conn'[g].stage = conn[g].stage
<1>1. TypeOK /\ TimerInv
  BY DEF LeaseInv
<1>2. UNCHANGED <<life, accounts, warm, router, client, spoke>>
  BY DEF Tick
<1>3. \A g \in Conns : conn[g] \in Conn
  BY <1>1 DEF TypeOK
<1>4. \A g \in Conns :
        LET k == conn[g]  l == conn'[g]
        IN /\ l \in Conn /\ l.leases = k.leases /\ l.epoch = k.epoch
           /\ l.timer = k.timer /\ l.fired = k.fired
           /\ k.leases = 0 /\ k.rest + k.left = Grace => l.rest + l.left = Grace
           /\ k.leases = 0 /\ k.rest = Grace => l.rest = Grace
           /\ l.who = k.who /\ l.closing = k.closing
           /\ l.cancelled = k.cancelled /\ l.stage = k.stage
           /\ l.warm = k.warm /\ l.channel = k.channel
           /\ l.selected = k.selected /\ l.slot = k.slot
  <2>1. TAKE g \in Conns
  <2>2. CASE conn'[g] = Aged(conn[g])
    BY <1>3, <2>2, AgedIs
  <2>3. CASE conn'[g] = conn[g]
    BY <1>3, <2>3
  <2> QED BY <2>2, <2>3 DEF Tick
<1>5. conn' \in [Conns -> Conn]
  <2>1. conn' = [g \in Conns |-> conn'[g]]
    BY DEF Tick
  <2> QED BY <1>4, <2>1
<1>6. Used' = Used
  BY <1>4 DEF Used
<1>7. TimerInv'
  BY <1>1, <1>4, <1>6 DEF TimerInv, Used
<1>8. LeaseInv'
  BY <1>2, <1>4, <1>5, <1>7, TimesKeep
<1> QED BY <1>4, <1>8

LEMMA RemovesKeeps ==
  ASSUME LeaseInv, NEW g \in Conns, FinishRemoves(g)
  PROVE  /\ LeaseInv' /\ Others(g) /\ SameBooks(conn[g], conn'[g])
         /\ conn'[g].slot = conn[g].slot /\ conn'[g].warm = conn[g].warm
         /\ conn'[g].channel = conn[g].channel
         /\ conn[g].stage = "removing" /\ conn'[g].stage = "gone"
         /\ accounts' = [accounts EXCEPT ![conn[g].who.id] = 0]
         /\ UNCHANGED <<life, warm, router, client, spoke>>
<1>1. TypeOK /\ TableInv /\ SpokenInv /\ StopInv /\ TimerInv /\ LeasesCounted
  BY DEF LeaseInv
<1>2. PICK i \in Ids : i = conn[g].who.id
  BY <1>1, ConnFields, DescriptorFields DEF TypeOK
<1>3. conn[g].stage = "removing" /\ Enter(g, "gone") /\ "gone" \in Stages
      /\ UNCHANGED <<life, warm, router, client, spoke>>
  BY StageNames DEF FinishRemoves
<1>4. accounts[i] = g
  BY <1>1, <1>2, <1>3 DEF TableInv, Live
<1>5. accounts' = [accounts EXCEPT ![i] = 0]
  BY <1>2, <1>4 DEF FinishRemoves
<1>6. /\ conn' \in [Conns -> Conn] /\ Others(g)
      /\ SameBooks(conn[g], conn'[g])
      /\ conn'[g].stage = "gone" /\ conn'[g].slot = conn[g].slot
      /\ conn'[g].warm = conn[g].warm /\ conn'[g].channel = conn[g].channel
      /\ conn'[g].selected = conn[g].selected
  BY <1>1, <1>3, EnterSum
<1>7. TypeOK'
  <2>1. accounts' \in [Ids -> {0} \cup Conns]
    BY <1>1, <1>5 DEF TypeOK
  <2>2. ConnOK'
    BY <1>1, <1>6 DEF TypeOK, ConnOK, Others, SameBooks
  <2> QED BY <1>1, <1>3, <2>1, <2>2 DEF TypeOK, ConnOK
<1>8. Used' = Used /\ \A h \in Conns : h # g => (Live(h)' <=> Live(h))
  BY <1>3, <1>6 DEF Used, Live, Others
<1>9. \A x \in Ids : accounts'[x] = IF x = i THEN 0 ELSE accounts[x]
  BY <1>1, <1>5 DEF TypeOK
<1>10. TableInv'
  <2>1. \A x \in Ids : \A h \in Conns : accounts'[x] = h =>
          conn'[h].who.id = x /\ Live(h)'
    <3>1. SUFFICES ASSUME NEW x \in Ids, NEW h \in Conns, accounts'[x] = h
                   PROVE  conn'[h].who.id = x /\ Live(h)'
      OBVIOUS
    <3>2. x # i /\ accounts[x] = h /\ h # 0
      BY <1>9, <3>1 DEF Conns
    <3>3. conn[h].who.id = x /\ Live(h)
      BY <1>1, <3>2 DEF TableInv
    <3>4. h # g
      BY <1>2, <3>2, <3>3
    <3> QED BY <1>6, <1>8, <3>3, <3>4 DEF Others
  <2>2. \A h \in Conns : Live(h)' => accounts'[conn'[h].who.id] = h
    <3>1. SUFFICES ASSUME NEW h \in Conns, Live(h)'
                   PROVE  accounts'[conn'[h].who.id] = h
      OBVIOUS
    <3>2. h # g
      BY <1>6, <3>1 DEF Live
    <3>3. accounts[conn[h].who.id] = h /\ conn'[h] = conn[h]
      BY <1>1, <1>6, <1>8, <3>1, <3>2 DEF TableInv, Others
    <3>4. conn[h].who.id \in Ids
      BY <1>1, ConnFields, DescriptorFields DEF TypeOK
    <3> QED BY <1>4, <1>9, <3>2, <3>3, <3>4
  <2>3. \A h \in Conns : conn'[h].stage = "warming" => conn'[h].warm # 0
    BY <1>1, <1>6 DEF TableInv, Others
  <2>4. \E n \in 0..MaxConns : Used' = 1..n
    BY <1>1, <1>8 DEF TableInv
  <2>5. \A x \in Ids : accounts'[x] # 0 => accounts'[x] \in Conns
    BY <1>7 DEF TypeOK
  <2> QED BY <2>1, <2>2, <2>3, <2>4, <2>5 DEF TableInv, Live
<1>11. SpokenInv'
  BY <1>1, <1>3, <1>8, <1>9 DEF SpokenInv
<1>12. StopInv'
  <2>1. \A x \in Clients : client'[x].pc = "holding" =>
          client'[x].on \in Used /\ conn'[client'[x].on].who.id # Observer
    BY <1>1, <1>3, <1>6 DEF StopInv, Used, Others, SameBooks
  <2>2. \A h \in Conns :
          /\ conn'[h].cancelled => conn'[h].closing
          /\ conn'[h].stage = "leaving" => conn'[h].closing \/ CtxDone
          /\ conn'[h].stage \in {"closing", "reporting", "removing", "gone"} =>
               conn'[h].closing
          /\ life = "closed" => conn'[h].closing \/ conn'[h].stage = "unused"
          /\ conn'[h].who.id = Observer =>
               conn'[h].timer = 0 /\ conn'[h].fired = {}
    BY <1>1, <1>3, <1>6 DEF StopInv, Others, SameBooks
  <2> QED BY <1>3, <1>8, <2>1, <2>2 DEF StopInv, CtxDone
<1>13. TimerInv'
  BY <1>1, <1>6, <1>8 DEF TimerInv, Used, Others, SameBooks
<1>14. LeasesCounted'
  <2>1. \A h \in Tracked' : h \in Tracked /\ h # g /\ h \in Conns
    <3>1. SUFFICES ASSUME NEW h \in Tracked' PROVE h \in Tracked /\ h # g /\ h \in Conns
      OBVIOUS
    <3>2. h \in Conns /\ Live(h)'
      BY <1>7, <1>10, <3>1 DEF Tracked, TypeOK, TableInv, Live
    <3>3. h # g
      BY <1>6, <3>2 DEF Live
    <3> QED BY <1>1, <1>8, <3>2, <3>3, TrackedIs
  <2>2. \A h : Holders(h)' = Holders(h)
    BY <1>3 DEF Holders
  <2> QED BY <1>1, <1>6, <2>1, <2>2 DEF LeasesCounted, Others
<1>15. LeaseInv'
  BY <1>7, <1>10, <1>11, <1>12, <1>13, <1>14 DEF LeaseInv
<1> QED BY <1>2, <1>3, <1>5, <1>6, <1>15

-----------------------------------------------------------------------------
(* A new connection.                                                       *)

\* What claims a warmup.
Claimed(k) == [k EXCEPT !.claimed = TRUE, !.listed = FALSE]

LEMMA ClaimedIs ==
  ASSUME NEW k \in Warm, NEW l, l = Claimed(k)
  PROVE  /\ l \in Warm /\ l.who = k.who /\ l.claimed /\ ~l.listed
         /\ l.cancelled = k.cancelled /\ l.closing = k.closing
         /\ l.channel = k.channel /\ l.handed = k.handed
         /\ l.released = k.released /\ l.stage = k.stage
         /\ l.endpoint = k.endpoint
  BY WarmFields DEF Claimed, Warm

\* Connections are numbered in order: the next one has never been used.
LEMMA NextUnused ==
  ASSUME TypeOK, TableInv, NEW g, g = 1 + Cardinality(Used), g <= MaxConns
  PROVE  /\ g \in Conns /\ g \notin Used /\ Used = 1..(g - 1)
         /\ \A h \in Used : h \in Nat /\ h < g
<1>1. PICK n \in 0..MaxConns : Used = 1..n
  BY DEF TableInv
<1>2. MaxConns \in Nat
  BY AccountAssumption DEF AccountAssumption
<1>3. Cardinality(Used) = n
  BY <1>1, <1>2, FS_Interval
<1> QED BY <1>1, <1>2, <1>3 DEF Conns

LEMMA CreateSum ==
  ASSUME LeaseInv, NEW c \in Clients, Create(c),
         NEW d, d = client[c].who, NEW g, g = 1 + Cardinality(Used)
  PROVE  /\ d \in Descriptors /\ g \in Conns /\ g \notin Used
         /\ Used = 1..(g - 1) /\ \A h \in Used : h \in Nat /\ h < g
         /\ Admissible(d) /\ client[c].pc = "trying" /\ Running
         /\ Foreign(d) = {} /\ Blocking(d) = {}
         /\ conn' \in [Conns -> Conn] /\ Others(g)
         /\ conn'[g].who = d /\ conn'[g].timer = 0
         /\ conn'[g].fired = {} /\ ~conn'[g].closing /\ ~conn'[g].cancelled
         /\ conn'[g].stage = "start" /\ conn'[g].selected = 1
         /\ conn'[g].leases = IF d.id = Observer THEN 0 ELSE 1
         /\ \A a \in Addresses : conn'[g].slot[a] = "none"
         /\ \/ conn'[g].warm = 0 /\ Matching(d) = {}
            \/ conn'[g].warm \in Warms /\ conn'[g].warm \in Matching(d)
         /\ accounts' = [accounts EXCEPT ![d.id] = g]
         /\ warm' \in [Warms -> Warm]
         /\ \A x \in Warms : x # conn'[g].warm => warm'[x] = warm[x]
         /\ \A x \in Warms : x = conn'[g].warm => warm'[x] = Claimed(warm[x])
         /\ Hold(c, g) /\ UNCHANGED <<life, router, spoke>>
<1>1. TypeOK /\ TableInv
  BY DEF LeaseInv
<1>2. d \in Descriptors
  BY <1>1, CallerFields DEF TypeOK
<1>3. g <= MaxConns
  BY DEF Create
<1>4. /\ g \in Conns /\ g \notin Used /\ Used = 1..(g - 1)
      /\ \A h \in Used : h \in Nat /\ h < g
  BY <1>1, <1>3, NextUnused
<1> DEFINE w == IF Matching(d) = {} THEN 0 ELSE CHOOSE x \in Matching(d) : TRUE
<1>6. \/ w = 0 /\ Matching(d) = {}
      \/ w \in Warms /\ w \in Matching(d)
  <2>1. Matching(d) \subseteq Warms
    BY DEF Matching, Listed
  <2>2. Matching(d) # {} => (CHOOSE x \in Matching(d) : TRUE) \in Matching(d)
    OBVIOUS
  <2> QED BY <2>1, <2>2
<1>7. /\ conn' = [conn EXCEPT ![g] = Leased(NewConn(d, w))]
      /\ accounts' = [accounts EXCEPT ![d.id] = g]
      /\ warm' = [x \in Warms |-> IF x # w THEN warm[x] ELSE Claimed(warm[x])]
      /\ Hold(c, g) /\ UNCHANGED <<life, router, spoke>>
      /\ Admissible(d) /\ client[c].pc = "trying" /\ Running
      /\ Foreign(d) = {} /\ Blocking(d) = {}
  BY DEF Create, Claimed
<1> HIDE DEF w
<1>8. PICK k : k = NewConn(d, w)
  OBVIOUS
<1>9. /\ k \in Conn /\ k.who = d /\ k.leases = 0 /\ k.timer = 0
      /\ k.fired = {} /\ ~k.closing /\ ~k.cancelled /\ k.stage = "start"
      /\ k.warm = w /\ k.selected = 1
      /\ \A a \in Addresses : k.slot[a] = "none"
  <2>1. w \in Nat
    BY <1>6 DEF Warms
  <2> QED BY <1>2, <1>8, <2>1, NewConnIs
<1>10. conn'[g] = Leased(k)
  BY <1>1, <1>4, <1>7, <1>8 DEF TypeOK
<1>11. LET l == conn'[g]
       IN /\ l \in Conn /\ l.who = d /\ l.timer = 0
          /\ l.leases = IF d.id = Observer THEN 0 ELSE 1
          /\ l.fired = {} /\ ~l.closing /\ ~l.cancelled /\ l.stage = "start"
          /\ l.warm = w /\ l.selected = 1 /\ l.slot = k.slot
  <2>1. CASE d.id = Observer
    <3>1. conn'[g] = k
      BY <1>9, <1>10, <2>1 DEF Leased
    <3> QED BY <1>9, <2>1, <3>1
  <2>2. CASE d.id # Observer
    <3>1. k.who.id # Observer
      BY <1>9, <2>2
    <3>2. LET l == conn'[g]
          IN /\ l \in Conn /\ l.leases = k.leases + 1 /\ l.timer = 0
             /\ l.fired = k.fired /\ l.who = k.who /\ l.closing = k.closing
             /\ l.cancelled = k.cancelled /\ l.stage = k.stage
             /\ l.warm = k.warm /\ l.selected = k.selected /\ l.slot = k.slot
      BY <1>9, <1>10, <3>1, LeasedIs
    <3> QED BY <1>9, <2>2, <3>2
  <2> QED BY <2>1, <2>2
<1>12. conn' \in [Conns -> Conn] /\ Others(g)
  BY <1>1, <1>4, <1>7, <1>10, <1>8, <1>11 DEF TypeOK, Others
<1>13. \A x \in Warms : Claimed(warm[x]) \in Warm
  BY <1>1, ClaimedIs DEF TypeOK
<1>14. /\ warm' \in [Warms -> Warm]
       /\ \A x \in Warms : x # w => warm'[x] = warm[x]
       /\ \A x \in Warms : x = w => warm'[x] = Claimed(warm[x])
  BY <1>1, <1>7, <1>13 DEF TypeOK
<1>15. \A a \in Addresses : conn'[g].slot[a] = "none"
  BY <1>9, <1>11
<1> QED BY <1>2, <1>4, <1>6, <1>7, <1>11, <1>12, <1>14, <1>15

LEMMA CreateKeeps ==
  ASSUME LeaseInv, NEW c \in Clients, Create(c)
  PROVE  LeaseInv'
<1>1. TypeOK /\ TableInv /\ SpokenInv /\ StopInv /\ TimerInv /\ LeasesCounted
  BY DEF LeaseInv
<1>2. PICK d, g : d = client[c].who /\ g = 1 + Cardinality(Used)
  OBVIOUS
<1>3. /\ d \in Descriptors /\ g \in Conns /\ g \notin Used
      /\ Used = 1..(g - 1) /\ \A h \in Used : h \in Nat /\ h < g
      /\ Admissible(d) /\ client[c].pc = "trying" /\ Running
  BY <1>2, CreateSum
<1>4. /\ conn' \in [Conns -> Conn] /\ Others(g)
      /\ conn'[g].who = d /\ conn'[g].timer = 0
      /\ conn'[g].fired = {} /\ ~conn'[g].closing /\ ~conn'[g].cancelled
      /\ conn'[g].stage = "start" /\ conn'[g].selected = 1
      /\ conn'[g].leases = IF d.id = Observer THEN 0 ELSE 1
  BY <1>2, CreateSum
<1>5. conn'[g].warm \in {0} \cup Warms
  BY <1>2, CreateSum
<1>6. /\ accounts' = [accounts EXCEPT ![d.id] = g]
      /\ warm' \in [Warms -> Warm]
      /\ Hold(c, g) /\ UNCHANGED <<life, router, spoke>>
  BY <1>2, CreateSum
<1>7. d.id \in Ids /\ Len(d.pool) \in Nat \ {0} /\ accounts[d.id] = 0
  BY <1>3, DescriptorFields DEF Admissible
<1>8. PICK k \in Caller :
        /\ client' = [client EXCEPT ![c] = k]
        /\ d.id = Observer => k.pc = "idle"
        /\ d.id # Observer => k.pc = "holding" /\ k.on = g
  BY <1>1, <1>3, <1>4, <1>6, HoldIs
<1>9. TypeOK'
  <2>1. \A h \in Conns : conn'[h].selected \in 1..Len(conn'[h].who.pool)
                           /\ conn'[h].warm \in {0} \cup Warms
    BY <1>1, <1>3, <1>4, <1>5, <1>7 DEF TypeOK, Others
  <2>2. accounts' \in [Ids -> {0} \cup Conns]
    BY <1>1, <1>3, <1>6, <1>7 DEF TypeOK
  <2>3. client' \in [Clients -> Caller]
    BY <1>1, <1>8 DEF TypeOK
  <2> QED BY <1>1, <1>4, <1>6, <2>1, <2>2, <2>3 DEF TypeOK
<1>10. /\ Used' = Used \cup {g} /\ Live(g)' /\ ~Live(g)
       /\ \A h \in Conns : h # g => conn'[h] = conn[h] /\ (Live(h)' <=> Live(h))
  BY <1>3, <1>4 DEF Used, Live, Others
<1>11. \A i \in Ids : accounts'[i] = IF i = d.id THEN g ELSE accounts[i]
  BY <1>1, <1>6, <1>7 DEF TypeOK
<1>12. TableInv'
  <2>1. \A i \in Ids : \A h \in Conns : accounts'[i] = h =>
          conn'[h].who.id = i /\ Live(h)'
    <3>1. SUFFICES ASSUME NEW i \in Ids, NEW h \in Conns, accounts'[i] = h
                   PROVE  conn'[h].who.id = i /\ Live(h)'
      OBVIOUS
    <3>2. CASE i = d.id
      BY <1>4, <1>10, <1>11, <3>1, <3>2
    <3>3. CASE i # d.id
      <4>1. accounts[i] = h /\ h # 0
        BY <1>11, <3>1, <3>3 DEF Conns
      <4>2. conn[h].who.id = i /\ Live(h)
        BY <1>1, <4>1 DEF TableInv
      <4> QED BY <1>10, <4>2
    <3> QED BY <3>2, <3>3
  <2>2. \A h \in Conns : Live(h)' => accounts'[conn'[h].who.id] = h
    <3>1. SUFFICES ASSUME NEW h \in Conns, Live(h)'
                   PROVE  accounts'[conn'[h].who.id] = h
      OBVIOUS
    <3>2. CASE h = g
      BY <1>4, <1>7, <1>11, <3>2
    <3>3. CASE h # g
      <4>1. accounts[conn[h].who.id] = h /\ conn'[h] = conn[h] /\ h # 0
        BY <1>1, <1>10, <3>1, <3>3 DEF TableInv, Conns
      <4>2. conn[h].who.id \in Ids
        BY <1>1, ConnFields, DescriptorFields DEF TypeOK
      <4> QED BY <1>7, <1>11, <4>1, <4>2
    <3> QED BY <3>2, <3>3
  <2>3. \A h \in Conns : conn'[h].stage = "warming" => conn'[h].warm # 0
    BY <1>1, <1>4, <1>10 DEF TableInv
  <2>4. \E n \in 0..MaxConns : Used' = 1..n
    <3>1. Used' = 1..g /\ g \in 0..MaxConns
      BY <1>3, <1>10 DEF Conns
    <3> QED BY <3>1
  <2>5. \A x \in Ids : accounts'[x] # 0 => accounts'[x] \in Conns
    BY <1>9 DEF TypeOK
  <2> QED BY <2>1, <2>2, <2>3, <2>4, <2>5 DEF TableInv, Live
<1>13. SpokenInv'
  <2>1. \A i \in Ids : spoke[i] = 0 \/ spoke[i] \in Used
    BY <1>1 DEF SpokenInv
  <2>2. \A i \in Ids : accounts[i] # 0 => spoke[i] <= accounts[i]
    BY <1>1 DEF SpokenInv
  <2>3. \A i \in Ids : spoke[i] <= g
    BY <1>3, <2>1 DEF Conns
  <2> QED BY <1>6, <1>10, <1>11, <2>1, <2>2, <2>3 DEF SpokenInv
<1>14. StopInv'
  <2>1. \A x \in Clients : client'[x].pc = "holding" =>
          client'[x].on \in Used' /\ conn'[client'[x].on].who.id # Observer
    <3>1. SUFFICES ASSUME NEW x \in Clients, client'[x].pc = "holding"
          PROVE client'[x].on \in Used' /\ conn'[client'[x].on].who.id # Observer
      OBVIOUS
    <3>2. CASE x = c
      <4>1. client'[x] = k
        BY <1>1, <1>8, <3>2 DEF TypeOK
      <4>2. k.on = g /\ d.id # Observer
        BY <1>8, <3>1, <4>1
      <4> QED BY <1>4, <1>10, <4>1, <4>2
    <3>3. CASE x # c
      <4>1. client'[x] = client[x]
        BY <1>1, <1>8, <3>3 DEF TypeOK
      <4>2. client[x].on \in Used /\ conn[client[x].on].who.id # Observer
        BY <1>1, <3>1, <4>1 DEF StopInv
      <4>3. client[x].on # g /\ client[x].on \in Conns
        BY <1>3, <4>2 DEF Used
      <4> QED BY <1>10, <4>1, <4>2, <4>3
    <3> QED BY <3>2, <3>3
  <2>2. life # "closed"
    BY <1>3 DEF Running
  <2>3. \A h \in Conns :
          /\ conn'[h].cancelled => conn'[h].closing
          /\ conn'[h].stage = "leaving" => conn'[h].closing \/ CtxDone
          /\ conn'[h].stage \in {"closing", "reporting", "removing", "gone"} =>
               conn'[h].closing
          /\ conn'[h].who.id = Observer =>
               conn'[h].timer = 0 /\ conn'[h].fired = {}
    BY <1>1, <1>4, <1>10 DEF StopInv
  <2> QED BY <1>6, <2>1, <2>2, <2>3 DEF StopInv, CtxDone
<1>15. TimerInv'
  <2>1. \A h \in Used : h # g /\ h \in Conns
    BY <1>3 DEF Used
  <2> QED BY <1>1, <1>4, <1>10, <2>1 DEF TimerInv
<1>16. LeasesCounted'
  <2>1. \A h \in Tracked' : h = g \/ (h \in Tracked /\ h # g /\ h \in Conns)
    <3>1. SUFFICES ASSUME NEW h \in Tracked', h # g PROVE h \in Tracked /\ h \in Conns
      <4>1. ~(g \in Tracked)
        BY <1>1, <1>10, TrackedIs
      <4> QED BY <4>1
    <3>2. h \in Tracked
      BY <1>11, <3>1 DEF Tracked
    <3> QED BY <1>1, <3>2, TrackedIs
  <2>2. Holders(g) = {}
    BY <1>1, <1>3 DEF Holders, StopInv
  <2>3. \A h : h # g => Holders(h)' = Holders(h)
    BY <1>1, <1>3, <1>8 DEF Holders, TypeOK
  <2>4. d.id # Observer => Holders(g)' = {c}
    BY <1>1, <1>3, <1>8, <2>2 DEF Holders, TypeOK
  <2>5. Cardinality({c}) = 1
    BY FS_Singleton
  <2>6. \A h \in Tracked : h # g /\ h \in Conns =>
          conn'[h] = conn[h]
    BY <1>10
  <2>7. \A h \in Tracked : ~conn[h].closing /\ conn[h].who.id # Observer =>
          conn[h].leases = Cardinality(Holders(h))
    BY <1>1 DEF LeasesCounted
  <2>8. SUFFICES ASSUME NEW h \in Tracked', ~conn'[h].closing,
                        conn'[h].who.id # Observer
                 PROVE  conn'[h].leases = Cardinality(Holders(h)')
    BY DEF LeasesCounted
  <2>9. CASE h = g
    BY <1>4, <2>4, <2>5, <2>8, <2>9
  <2>10. CASE h # g
    BY <2>1, <2>3, <2>6, <2>7, <2>8, <2>10
  <2> QED BY <2>9, <2>10
<1> QED BY <1>9, <1>12, <1>13, <1>14, <1>15, <1>16 DEF LeaseInv

-----------------------------------------------------------------------------
(* Every step.                                                             *)

\* The steps, grouped by what they do.
LEMMA StepCases ==
  ASSUME [Next]_vars
  PROVE  \/ \E c \in Clients : \/ Waits(c) \/ Join(c) \/ Create(c) \/ Release(c)
                               \/ \E i \in Ids : Retain(c, i)
         \/ Warming \/ Managing \/ Tick
         \/ \E g \in Conns : \/ TimerFires(g) \/ IdleCallback(g) \/ Advance(g)
                             \/ FinishStops(g) \/ FinishRemoves(g)
         \/ UNCHANGED vars
<1>1. CASE Next
  <2>1. CASE \E c \in Clients :
               \/ \E d \in Descriptors : Call(c, d)
               \/ \E i \in Ids : Retain(c, i)
               \/ AcquireStep(c) \/ CallerGone(c) \/ Release(c)
    BY <2>1 DEF AcquireStep, Waits
  <2>2. CASE \E d \in Descriptors : Prewarm(d)
    BY <2>2 DEF Warming
  <2>3. CASE \E g \in Conns : TimerFires(g) \/ IdleCallback(g)
                                \/ WorkerStep(g) \/ SessionEnds(g)
    BY <2>3 DEF WorkerStep, Advance, Warming
  <2>4. CASE \E w \in Warms : WarmCallerGone(w) \/ WarmStep(w)
    BY <2>4 DEF Warming
  <2>5. CASE RouterStep \/ RouterFails \/ Start \/ Cancel \/ Close
    BY <2>5 DEF RouterStep, Managing
  <2>6. CASE Tick
    BY <2>6
  <2> QED BY <1>1, <2>1, <2>2, <2>3, <2>4, <2>5, <2>6 DEF Next
<1>2. CASE UNCHANGED vars
  BY <1>2
<1> QED BY <1>1, <1>2

LEMMA LeaseStep ==
  ASSUME LeaseInv, [Next]_vars
  PROVE  LeaseInv'
<1>1. TypeOK
  BY DEF LeaseInv
<1>2. CASE \E c \in Clients : Waits(c)
  BY <1>1, <1>2, WaitsQuiet, QuietTame, TameKeeps
<1>3. CASE \E c \in Clients : \/ Join(c) \/ Create(c) \/ Release(c)
                              \/ \E i \in Ids : Retain(c, i)
  BY <1>3, JoinKeeps, CreateKeeps, ReleaseKeeps, RetainKeeps
<1>4. CASE Warming \/ Managing
  BY <1>4, WarmingTame, ManagingTame, TameKeeps
<1>5. CASE Tick
  BY <1>5, TickKeeps
<1>6. CASE \E g \in Conns : TimerFires(g) \/ FinishRemoves(g)
  BY <1>6, TimerFiresKeeps, RemovesKeeps
<1>7. CASE \E g \in Conns : IdleCallback(g) \/ Advance(g) \/ FinishStops(g)
  BY <1>7, CallbackTame, AdvanceTame, FinishStopsTame, TameKeeps
<1>8. CASE UNCHANGED vars
  <2>1. Quiet /\ UNCHANGED <<life, router>>
    BY <1>1, <1>8 DEF Quiet, vars, TypeOK
  <2> QED BY <2>1, QuietTame, TameKeeps
<1> QED BY <1>2, <1>3, <1>4, <1>5, <1>6, <1>7, <1>8, StepCases

LEMMA LeaseInit ==
  ASSUME Init
  PROVE  LeaseInv
<1>1. PICK d \in Descriptors : d = CHOOSE x \in Descriptors : TRUE
  BY AccountAssumption DEF AccountAssumption
<1>2. /\ life = "new" /\ accounts = [i \in Ids |-> 0]
      /\ router = [stage |-> "off", ready |-> FALSE, channel |-> 1,
                   opened |-> {}, drain |-> {}]
      /\ conn = [g \in Conns |-> [NewConn(d, 0) EXCEPT !.stage = "unused"]]
      /\ warm = [w \in Warms |-> [NewWarm(d) EXCEPT !.stage = "unused",
                                                    !.listed = FALSE]]
      /\ client = [c \in Clients |-> [pc |-> "idle", who |-> d, on |-> 0,
                                      calls |-> 0]]
      /\ spoke = [i \in Ids |-> 0]
  BY <1>1 DEF Init
<1>3. PICK k : k = NewConn(d, 0)
  OBVIOUS
<1>4. /\ k \in Conn /\ k.who = d /\ k.leases = 0 /\ k.timer = 0
      /\ k.fired = {} /\ ~k.closing /\ ~k.cancelled
      /\ k.warm = 0 /\ k.selected = 1
  BY <1>3, NewConnIs
<1>5. PICK l : l = [k EXCEPT !.stage = "unused"]
  OBVIOUS
<1>6. /\ l \in Conn /\ l.who = d /\ l.leases = 0 /\ l.timer = 0
      /\ l.fired = {} /\ ~l.closing /\ ~l.cancelled /\ l.stage = "unused"
      /\ l.warm = 0 /\ l.selected = 1
  BY <1>4, <1>5, StageNames DEF Conn
<1>7. conn = [g \in Conns |-> l]
  BY <1>2, <1>3, <1>5
<1>8. TypeOK
  <2>1. router.channel \in Nat /\ router.channel = 1
    BY <1>2
  <2>2. \A w \in Warms : warm[w] \in Warm
    <3>1. PICK m : m = NewWarm(d)
      OBVIOUS
    <3>2. m \in Warm
      BY <2>1, <3>1 DEF NewWarm, Warm, WarmStages, Endpoint
    <3>3. [m EXCEPT !.stage = "unused", !.listed = FALSE] \in Warm
      BY <3>2 DEF Warm, WarmStages
    <3> QED BY <1>2, <3>1, <3>3
  <2>3. \A c \in Clients : client[c] \in Caller
    BY <1>2 DEF Caller
  <2>4. 1 \in 1..Len(d.pool)
    BY DescriptorFields
  <2>5. \A g \in Conns : conn[g] = l
    BY <1>7
  <2>6. warm \in [Warms -> Warm]
    BY <1>2, <2>2
  <2>7. client \in [Clients -> Caller]
    BY <1>2, <2>3
  <2>8. conn \in [Conns -> Conn]
    BY <1>6, <1>7
  <2>9. \A g \in Conns : conn[g].selected \in 1..Len(conn[g].who.pool)
                           /\ conn[g].warm \in {0} \cup Warms
    BY <1>6, <2>4, <2>5
  <2>10. router \in [stage : {"off", "starting", "up", "draining", "stopping",
                              "stopped"},
                     ready : BOOLEAN, channel : Nat, opened : SUBSET Nat,
                     drain : SUBSET Warms]
    BY <1>2
  <2> QED BY <1>2, <2>6, <2>7, <2>8, <2>9, <2>10 DEF TypeOK
<1>9. Used = {} /\ \A g \in Conns : ~Live(g)
  BY <1>6, <1>7 DEF Used, Live
<1>10. TableInv
  <2>1. 0 \in 0..MaxConns /\ Used = 1..0
    BY <1>9, AccountAssumption DEF AccountAssumption
  <2> QED BY <1>2, <1>6, <1>7, <1>9, <2>1 DEF TableInv
<1>11. SpokenInv /\ StopInv /\ TimerInv /\ LeasesCounted
  <2>1. Tracked = {}
    BY <1>2 DEF Tracked
  <2> QED BY <1>2, <1>6, <1>7, <1>9, <2>1
          DEF SpokenInv, StopInv, TimerInv, LeasesCounted
<1> QED BY <1>8, <1>10, <1>11 DEF LeaseInv

\* What the manager's books say is right in every reachable state: the table of
\* accounts, the leases and the timers agree with each other and with the
\* callers (manager.go:183-211, 345-387).
THEOREM LeaseInvariant == Spec => []LeaseInv
<1>1. Init => LeaseInv
  BY LeaseInit
<1>2. LeaseInv /\ [Next]_vars => LeaseInv'
  BY LeaseStep
<1> QED BY <1>1, <1>2, PTL DEF Spec

\* No release is lost or counted twice: the lease count of a connection that is
\* up is the number of callers that hold it (manager.go:364-387).
THEOREM LeasesAreCounted == Spec => []LeasesCounted
<1>1. LeaseInv => LeasesCounted
  BY DEF LeaseInv
<1> QED BY <1>1, LeaseInvariant, PTL

\* What a step may do to the statuses.
LEMMA SpeakStep ==
  ASSUME LeaseInv, [Next]_vars
  PROVE  \A i \in Ids : \/ spoke'[i] = spoke[i]
                        \/ accounts[i] # 0 /\ spoke'[i] = accounts[i]
<1>1. TypeOK
  BY DEF LeaseInv
<1>2. CASE Tame
  BY <1>2 DEF Tame
<1>3. CASE UNCHANGED spoke
  BY <1>3
<1>4. CASE \E c \in Clients : Waits(c)
  BY <1>1, <1>3, <1>4, WaitsQuiet DEF Quiet
<1>5. CASE \E c \in Clients : \/ Join(c) \/ Create(c) \/ Release(c)
                              \/ \E i \in Ids : Retain(c, i)
  BY <1>3, <1>5 DEF Join, Create, Release, Retain
<1>6. CASE Warming \/ Managing
  BY <1>2, <1>6, WarmingTame, ManagingTame
<1>7. CASE Tick \/ \E g \in Conns : TimerFires(g) \/ FinishRemoves(g)
  BY <1>3, <1>7 DEF Tick, TimerFires, FinishRemoves
<1>8. CASE \E g \in Conns : IdleCallback(g) \/ Advance(g) \/ FinishStops(g)
  BY <1>2, <1>8, CallbackTame, AdvanceTame, FinishStopsTame
<1>9. CASE UNCHANGED vars
  BY <1>3, <1>9 DEF vars
<1> QED BY <1>4, <1>5, <1>6, <1>7, <1>8, <1>9, StepCases

\* The statuses of an account reach the server in the order of its connections:
\* "stopped" never overwrites the status of a replacement (manager.go:619-647).
THEOREM StatusesInOrder == Spec => StatusInOrder
<1>1. LeaseInv /\ [Next]_vars => [\A i \in Ids : spoke'[i] >= spoke[i]]_vars
  <2>1. SUFFICES ASSUME LeaseInv, [Next]_vars, NEW i \in Ids
                 PROVE  spoke'[i] >= spoke[i]
    OBVIOUS
  <2>2. /\ spoke[i] \in {0} \cup Conns
        /\ accounts[i] # 0 => spoke[i] <= accounts[i]
    BY <2>1 DEF LeaseInv, TypeOK, SpokenInv
  <2>3. accounts[i] \in {0} \cup Conns
    BY <2>1 DEF LeaseInv, TypeOK
  <2>4. \/ spoke'[i] = spoke[i]
        \/ accounts[i] # 0 /\ spoke'[i] = accounts[i]
    BY <2>1, SpeakStep
  <2> QED BY <2>2, <2>3, <2>4 DEF Conns
<1> QED BY <1>1, LeaseInvariant, PTL DEF Spec, StatusInOrder

\* A release keeps the connection as open as it was.
LEMMA LeaseKeepsOpen ==
  ASSUME NEW k \in Conn
  PROVE  Leased(k).closing = k.closing /\ Released(k).closing = k.closing
  BY ConnFields DEF Leased, Released, Conn

\* A connection that stops was stopped by its timer or with the manager.
LEMMA StopStep ==
  ASSUME LeaseInv, [Next]_vars, NEW g \in Used,
         conn'[g].closing, ~conn[g].closing
  PROVE  CtxDone' \/ \E e \in conn[g].fired : Idle(g, e)
<1>1. TypeOK /\ StopInv /\ g \in Conns /\ conn[g] \in Conn
  BY DEF LeaseInv, TypeOK, Used
<1>2. CASE UNCHANGED conn
  BY <1>2
<1>3. CASE \E c \in Clients : Waits(c)
  BY <1>1, <1>2, <1>3, WaitsQuiet DEF Quiet
<1>4. CASE \E c \in Clients : \/ Join(c) \/ Release(c)
                              \/ \E i \in Ids : Retain(c, i)
  <2>1. \/ UNCHANGED conn
        \/ \E h : conn' = [conn EXCEPT ![h] = Leased(conn[h])]
        \/ \E h : conn' = [conn EXCEPT ![h] = Released(conn[h])]
    BY <1>4 DEF Join, Release, Retain
  <2>2. conn'[g] \in {conn[g], Leased(conn[g]), Released(conn[g])}
    BY <1>1, <2>1 DEF TypeOK
  <2> QED BY <1>1, <2>2, LeaseKeepsOpen
<1>5. CASE \E c \in Clients : Create(c)
  <2>1. PICK c \in Clients : Create(c)
    BY <1>5
  <2>2. PICK d, n : d = client[c].who /\ n = 1 + Cardinality(Used)
    OBVIOUS
  <2>3. n \notin Used /\ Others(n)
    BY <2>1, <2>2, CreateSum
  <2> QED BY <1>1, <2>3 DEF Others
<1>6. CASE Warming
  BY <1>2, <1>6 DEF Warming, Prewarm, WarmCallerGone, WarmStep, WarmRun,
     WarmClose, WarmDrop, WarmUnlist, WarmingCancelled
<1>7. CASE Managing
  BY <1>1, <1>7, ManagingTyped
<1>8. CASE Tick
  BY <1>1, <1>8, TickKeeps
<1>9. CASE \E h \in Conns : TimerFires(h) \/ FinishRemoves(h)
  BY <1>1, <1>9, TimerFiresKeeps, RemovesKeeps DEF Others, SameBooks
<1>10. CASE \E h \in Conns : IdleCallback(h)
  BY <1>1, <1>10, CallbackTame DEF Others
<1>11. CASE \E h \in Conns : Advance(h)
  <2>1. PICK h \in Conns : Advance(h)
    BY <1>11
  <2>2. Advances(h)
    <3>1. TableInv
      BY DEF LeaseInv
    <3>2. PICK w, p : w = conn[h].warm /\ p = Primary(conn[h].who)
      OBVIOUS
    <3> QED BY <1>1, <2>1, <3>1, <3>2, StartsSum, TakeWarmSum, StartSlotsSum,
               RunsSum, LeavesSum, ClosesSum, ReportsSum, SlotCreatedSum
            DEF Advance
  <2> QED BY <1>1, <2>2 DEF Advances, Others, SameBooks
<1>12. CASE \E h \in Conns : FinishStops(h)
  <2>1. PICK h \in Conns : FinishStops(h)
    BY <1>12
  <2>2. Others(h) /\ conn[h].stage = "leaving" /\ UNCHANGED life
    BY <2>1, FinishStopsTame DEF FinishStops
  <2>3. conn[h].closing \/ CtxDone
    BY <1>1, <2>2 DEF StopInv
  <2> QED BY <1>1, <2>2, <2>3 DEF Others, CtxDone
<1>13. CASE UNCHANGED vars
  BY <1>2, <1>13 DEF vars
<1> QED BY <1>3, <1>4, <1>5, <1>6, <1>7, <1>8, <1>9, <1>10, <1>11, <1>12,
           <1>13, StepCases

\* Nobody but the end of the manager stops the connection of the shared reader,
\* one that a caller holds, or one that was not without leases for the whole
\* grace period (manager.go:197-208, 380-387).
THEOREM StopsAreJustified == Spec => StopsJustified
<1> DEFINE Justified ==
      \A g \in Used : conn'[g].closing /\ ~conn[g].closing =>
        \/ CtxDone'
        \/ /\ conn[g].who.id # Observer
           /\ Holders(g) = {} /\ conn[g].rest = Grace
<1>1. LeaseInv /\ [Next]_vars => Justified
  <2>1. SUFFICES ASSUME LeaseInv, [Next]_vars, NEW g \in Used,
                        conn'[g].closing, ~conn[g].closing, ~CtxDone'
                 PROVE  /\ conn[g].who.id # Observer
                        /\ Holders(g) = {} /\ conn[g].rest = Grace
    OBVIOUS
  <2>2. PICK e \in conn[g].fired : Idle(g, e)
    BY <2>1, StopStep
  <2>3. /\ TypeOK /\ StopInv /\ TimerInv /\ LeasesCounted
        /\ g \in Conns /\ conn[g] \in Conn
    BY <2>1 DEF LeaseInv, Used, TypeOK
  <2>4. conn[g].who.id # Observer
    BY <2>2, <2>3 DEF StopInv
  <2>5. conn[g].rest = Grace
    BY <2>1, <2>2, <2>3 DEF TimerInv, Idle
  <2>6. g \in Tracked
    <3>1. conn[g].who.id \in Ids
      BY <2>3, ConnFields, DescriptorFields
    <3> QED BY <2>2, <2>3, <3>1 DEF Idle, Tracked, Conns
  <2>7. Cardinality(Holders(g)) = 0
    BY <2>1, <2>2, <2>3, <2>4, <2>6 DEF LeasesCounted, Idle
  <2>8. Holders(g) = {}
    BY <2>7, HoldersFinite, FS_EmptySet
  <2> QED BY <2>4, <2>5, <2>8
<1>2. LeaseInv /\ [Next]_vars => [Justified]_vars
  BY <1>1
<1> QED BY <1>2, LeaseInvariant, PTL DEF Spec, StopsJustified

-----------------------------------------------------------------------------
(* What a step does to the endpoints, the warmups and the channels.        *)

\* The connection is as it was but for its leases and its end.
ShapeKept(k, l) ==
  /\ l.who = k.who /\ l.stage = k.stage /\ l.warm = k.warm
  /\ l.channel = k.channel /\ l.slot = k.slot

FlatConns == \A g \in Conns : ShapeKept(conn[g], conn'[g])
Flat == FlatConns /\ UNCHANGED accounts /\ WarmCalm

\* A new warmup.
Warmed(d, w) ==
  /\ w = 1 + Cardinality(Begun)
  /\ d.id # Observer /\ Warmable(d) /\ Early(d) = {}
  /\ Cardinality(Listed) < PrewarmCapacity
  /\ \A x \in Same(d) : Primary(warm[x].who) # Primary(d)
  /\ warm' \in [Warms -> Warm]
  /\ \A x \in Warms : x # w => Calm(warm[x], warm'[x])
  /\ warm'[w] = NewWarm(d)
  /\ UNCHANGED <<life, accounts, conn, router, client, spoke>>

LEMMA LeaseKeepsShape ==
  ASSUME NEW k \in Conn
  PROVE  ShapeKept(k, Leased(k)) /\ ShapeKept(k, Released(k))
  BY ConnFields DEF Leased, Released, Conn, ShapeKept

LEMMA SameIsFlat ==
  ASSUME TypeOK
  PROVE  /\ UNCHANGED conn => FlatConns
         /\ UNCHANGED warm => WarmCalm
  BY DEF FlatConns, ShapeKept, WarmCalm, Calm, WarmSame, TypeOK

LEMMA ManagingFlat ==
  ASSUME TypeOK, Managing
  PROVE  Flat
<1>1. UNCHANGED accounts /\ WarmCalm /\ (UNCHANGED conn \/ conn' = StopAll)
  BY ManagingTyped
<1>2. CASE conn' = StopAll
  <2>1. \A g \in Conns : conn[g] \in Conn
    BY DEF TypeOK
  <2>2. \A g \in Conns : ShapeKept(conn[g], Stopped(conn[g]))
    BY <2>1, StoppedIs DEF ShapeKept
  <2>3. \A g \in Conns : ShapeKept(conn[g], conn[g])
    BY DEF ShapeKept
  <2> QED BY <1>1, <1>2, <2>2, <2>3 DEF StopAll, Flat, FlatConns
<1> QED BY <1>1, <1>2, SameIsFlat DEF Flat

\* Every step but these leaves the endpoints alone.
LEMMA ShapeCases ==
  ASSUME LeaseInv, [Next]_vars
  PROVE  \/ Flat
         \/ \E d \in Descriptors, w \in Warms : Warmed(d, w)
         \/ \E w \in Warms : WarmStep(w)
         \/ \E c \in Clients : Create(c)
         \/ \E g \in Conns : Advance(g) \/ FinishStops(g) \/ FinishRemoves(g)
<1>1. TypeOK
  BY DEF LeaseInv
<1>2. CASE \E c \in Clients : Waits(c)
  <2>1. PICK c \in Clients : Waits(c)
    BY <1>2
  <2>2. UNCHANGED <<conn, accounts>> /\ (UNCHANGED warm \/ AwaitWarm(c))
    BY <1>1, <2>1, WaitsQuiet DEF Quiet
  <2>3. WarmCalm
    BY <1>1, <2>2, SameIsFlat, AwaitWarmCalm
  <2> QED BY <1>1, <2>2, <2>3, SameIsFlat DEF Flat
<1>3. CASE \E c \in Clients : \/ Join(c) \/ Release(c)
                              \/ \E i \in Ids : Retain(c, i)
  <2>1. UNCHANGED <<accounts, warm>>
    BY <1>3 DEF Join, Release, Retain
  <2>2. \/ UNCHANGED conn
        \/ \E h : conn' = [conn EXCEPT ![h] = Leased(conn[h])]
        \/ \E h : conn' = [conn EXCEPT ![h] = Released(conn[h])]
    BY <1>3 DEF Join, Release, Retain
  <2>3. \A g \in Conns : conn'[g] \in {conn[g], Leased(conn[g]), Released(conn[g])}
    BY <1>1, <2>2 DEF TypeOK
  <2>4. \A g \in Conns : conn[g] \in Conn
    BY <1>1 DEF TypeOK
  <2>5. FlatConns
    BY <2>3, <2>4, LeaseKeepsShape DEF FlatConns, ShapeKept
  <2> QED BY <1>1, <2>1, <2>5, SameIsFlat DEF Flat
<1>4. CASE Warming
  <2>1. CASE \E d \in Descriptors : Prewarm(d)
    <3>1. PICK d \in Descriptors : Prewarm(d)
      BY <2>1
    <3> QED BY <1>1, <3>1, PrewarmSum, SameIsFlat DEF Warmed, Flat
  <2>2. CASE \E w \in Warms : WarmCallerGone(w)
    BY <1>1, <2>2, CancelCalm, SameIsFlat DEF WarmCallerGone, Flat
  <2>3. CASE \E g \in Conns : WarmingCancelled(g)
    BY <1>1, <2>3, CancelCalm, SameIsFlat DEF WarmingCancelled, Flat
  <2> QED BY <1>4, <2>1, <2>2, <2>3 DEF Warming
<1>5. CASE Managing
  BY <1>1, <1>5, ManagingFlat
<1>6. CASE Tick
  BY <1>1, <1>6, TickKeeps, SameIsFlat DEF Flat, FlatConns, ShapeKept, Tick
<1>7. CASE \E g \in Conns : TimerFires(g) \/ IdleCallback(g)
  <2>1. PICK g \in Conns : TimerFires(g) \/ IdleCallback(g)
    BY <1>7
  <2>2. Others(g) /\ ShapeKept(conn[g], conn'[g])
    BY <2>1, TimerFiresKeeps, CallbackTame DEF ShapeKept
  <2>3. UNCHANGED <<accounts, warm>>
    BY <2>1 DEF TimerFires, IdleCallback
  <2> QED BY <1>1, <2>2, <2>3, SameIsFlat DEF Flat, FlatConns, Others, ShapeKept
<1>8. CASE UNCHANGED vars
  BY <1>1, <1>8, SameIsFlat DEF Flat, vars
<1> QED BY <1>2, <1>3, <1>4, <1>5, <1>6, <1>7, <1>8, StepCases

\* The steps of the router, and that no other step touches it.
LEMMA RouterMoves ==
  ASSUME LeaseInv, [Next]_vars, router.ready => router.channel \in router.opened
  PROVE  /\ router.opened \subseteq router'.opened
         /\ router'.ready => router'.channel \in router'.opened
         /\ router'.channel = router.channel \/ router.channel \in router'.opened
<1>1. TypeOK /\ RouterOK
  BY DEF LeaseInv, TypeOK, RouterOK
<1>2. CASE UNCHANGED router
  BY <1>2
<1>3. CASE Managing
  <2>1. CASE RouterReady
    BY <1>1, <2>1 DEF RouterReady, RouterOK
  <2>2. CASE RouterFails
    <3>1. PICK n, D : /\ router' = [router EXCEPT !.stage = "draining",
                                      !.ready = FALSE, !.channel = n, !.drain = D]
                      /\ n = IF router.ready THEN router.channel + 1
                                             ELSE router.channel
      BY <2>2 DEF RouterFails, Replaces
    <3>2. /\ router'.opened = router.opened /\ router'.ready = FALSE
          /\ router'.channel = n
      BY <1>1, <3>1 DEF RouterOK
    <3> QED BY <3>1, <3>2
  <2>3. CASE Start \/ RouterDrained \/ RouterStops \/ RouterStopped
    BY <1>1, <2>3 DEF Start, RouterDrained, RouterStops, RouterStopped, RouterOK
  <2>4. CASE Cancel \/ Close
    BY <1>2, <2>4 DEF Cancel, Close
  <2> QED BY <1>3, <2>1, <2>2, <2>3, <2>4 DEF Managing
<1>4. CASE \E c \in Clients : \/ Waits(c) \/ Join(c) \/ Create(c) \/ Release(c)
                              \/ \E i \in Ids : Retain(c, i)
  BY <1>1, <1>2, <1>4, WaitsQuiet DEF Join, Create, Release, Retain
<1>5. CASE Warming \/ Tick \/ UNCHANGED vars
  BY <1>2, <1>5 DEF Warming, Prewarm, WarmCallerGone, WarmStep, WarmRun,
     WarmClose, WarmDrop, WarmUnlist, WarmingCancelled, Tick, vars
<1>6. CASE \E g \in Conns : \/ TimerFires(g) \/ IdleCallback(g)
                            \/ FinishStops(g) \/ FinishRemoves(g)
  BY <1>2, <1>6 DEF TimerFires, IdleCallback, FinishStops, FinishRemoves
<1>7. CASE \E g \in Conns : Advance(g)
  BY <1>2, <1>7 DEF Advance, WorkerStarts, TakeWarm, StartSlots, Attempt,
     SessionEnds, NextSlot, WorkerLeaves, FinishCloses, FinishReports,
     SlotCreated
<1> QED BY <1>3, <1>4, <1>5, <1>6, <1>7, StepCases

\* Who starts to wait does so for the present channel.
LEMMA WaitersMove ==
  ASSUME LeaseInv, [Next]_vars
  PROVE  /\ \A g \in Conns : conn'[g].stage = "waiting" =>
              \/ conn'[g].channel = router.channel
              \/ conn[g].stage = "waiting" /\ conn'[g].channel = conn[g].channel
         /\ \A w \in Warms : warm'[w].stage = "await" =>
              \/ warm'[w].channel = router.channel
              \/ warm[w].stage = "await" /\ warm'[w].channel = warm[w].channel
<1>1. TypeOK /\ TableInv
  BY DEF LeaseInv
<1>2. CASE Flat
  BY <1>2 DEF Flat, FlatConns, ShapeKept, WarmCalm, Calm, WarmSame
<1>3. CASE \E d \in Descriptors, w \in Warms : Warmed(d, w)
  <2>1. PICK d \in Descriptors, w \in Warms : Warmed(d, w)
    BY <1>3
  <2>2. warm'[w].channel = router.channel /\ UNCHANGED conn
        /\ \A x \in Warms : x # w => Calm(warm[x], warm'[x])
    BY <2>1 DEF Warmed, NewWarm
  <2> QED BY <2>2 DEF Calm, WarmSame
<1>4. CASE \E w \in Warms : WarmStep(w)
  <2>1. PICK w \in Warms : WarmStep(w)
    BY <1>4
  <2>2. /\ \A x \in Warms : x # w => warm'[x] = warm[x]
        /\ warm'[w].stage # "await"
    BY <1>1, <2>1, WarmRunSum, WarmCloseSum, WarmDropSum, WarmUnlistSum
       DEF WarmStep, WarmOthers
  <2>3. UNCHANGED conn
    BY <1>1, <2>1, WarmStepTyped
  <2> QED BY <2>2, <2>3
<1>5. CASE \E c \in Clients : Create(c)
  <2>1. PICK c \in Clients : Create(c)
    BY <1>5
  <2>2. PICK d, g : d = client[c].who /\ g = 1 + Cardinality(Used)
    OBVIOUS
  <2>3. /\ Others(g) /\ conn'[g].stage = "start"
        /\ \A x \in Warms : x # conn'[g].warm => warm'[x] = warm[x]
        /\ \A x \in Warms : x = conn'[g].warm => warm'[x] = Claimed(warm[x])
    BY <2>1, <2>2, CreateSum
  <2>4. \A x \in Warms : warm[x] \in Warm
    BY <1>1 DEF TypeOK
  <2> QED BY <2>3, <2>4, ClaimedIs DEF Others
<1>6. CASE \E g \in Conns : Advance(g)
  <2>1. PICK g \in Conns : Advance(g)
    BY <1>6
  <2>2. PICK w, p : w = conn[g].warm /\ p = Primary(conn[g].who)
    OBVIOUS
  <2>3. CASE TakeWarm(g)
    <3>1. /\ Others(g) /\ conn'[g].channel = router.channel
          /\ w \in Warms /\ warm[w].stage = "done"
          /\ warm' = [warm EXCEPT ![w].endpoint = "none"]
      BY ZenonT(60), <1>1, <2>2, <2>3, TakeWarmSum DEF Advances
    <3>2. \A x \in Warms : warm'[x].stage = warm[x].stage
                             /\ warm'[x].channel = warm[x].channel
      BY <1>1, <3>1 DEF TypeOK, Warm
    <3> QED BY <3>1, <3>2 DEF Others
  <2>4. CASE ~TakeWarm(g)
    <3>1. /\ Others(g) /\ UNCHANGED warm
          /\ conn'[g].stage = "waiting" =>
               \/ conn'[g].channel = router.channel
               \/ conn[g].stage = "waiting" /\ conn'[g].channel = conn[g].channel
      BY <1>1, <2>1, <2>4, StartsSum, StartSlotsSum, RunsSum, LeavesSum,
         ClosesSum, ReportsSum, SlotCreatedSum DEF Advance, Advances
    <3> QED BY <3>1 DEF Others
  <2> QED BY <2>3, <2>4
<1>7. CASE \E g \in Conns : FinishStops(g) \/ FinishRemoves(g)
  <2>1. PICK g \in Conns : FinishStops(g) \/ FinishRemoves(g)
    BY <1>7
  <2>2. Others(g) /\ conn'[g].stage # "waiting" /\ UNCHANGED warm
    BY <2>1, FinishStopsTame, RemovesKeeps DEF FinishStops, FinishRemoves
  <2> QED BY <2>2 DEF Others
<1> QED BY <1>2, <1>3, <1>4, <1>5, <1>6, <1>7, ShapeCases

\* Nobody waits for a readiness channel that no router will ever close
\* (router_runtime.go:120-190).
THEOREM WaitersAreReachable == Spec => []ChannelsReachable
<1>1. Init => ChannelInv
  <2>1. SUFFICES ASSUME Init PROVE ChannelInv
    OBVIOUS
  <2>2. router.ready = FALSE
    BY <2>1 DEF Init
  <2>3. \A g \in Conns : conn[g].stage = "unused"
    BY <2>1 DEF Init, NewConn
  <2>4. \A w \in Warms : warm[w].stage = "unused"
    BY <2>1 DEF Init, NewWarm
  <2> QED BY <2>2, <2>3, <2>4 DEF ChannelInv, ChannelsReachable
<1>2. LeaseInv /\ ChannelInv /\ [Next]_vars => ChannelInv'
  <2>1. SUFFICES ASSUME LeaseInv, ChannelInv, [Next]_vars
                 PROVE  ChannelInv'
    OBVIOUS
  <2>2. /\ router.opened \subseteq router'.opened
        /\ router'.ready => router'.channel \in router'.opened
        /\ router'.channel = router.channel \/ router.channel \in router'.opened
    BY <2>1, RouterMoves DEF ChannelInv
  <2>3. \A n : n \in router.opened \/ n = router.channel =>
          n \in router'.opened \/ n = router'.channel
    BY <2>2
  <2>4. /\ \A g \in Conns : conn[g].stage = "waiting" =>
             conn[g].channel \in router.opened \/ conn[g].channel = router.channel
        /\ \A w \in Warms : warm[w].stage = "await" =>
             warm[w].channel \in router.opened \/ warm[w].channel = router.channel
    BY <2>1 DEF ChannelInv, ChannelsReachable, Ready
  <2>5. /\ \A g \in Conns : conn'[g].stage = "waiting" =>
             conn'[g].channel \in router'.opened \/ conn'[g].channel = router'.channel
        /\ \A w \in Warms : warm'[w].stage = "await" =>
             warm'[w].channel \in router'.opened \/ warm'[w].channel = router'.channel
    BY <2>1, <2>3, <2>4, WaitersMove
  <2> QED BY <2>2, <2>5 DEF ChannelInv, ChannelsReachable, Ready
<1>3. ChannelInv => ChannelsReachable
  BY DEF ChannelInv
<1> QED BY <1>1, <1>2, <1>3, LeaseInvariant, PTL DEF Spec

-----------------------------------------------------------------------------
(* The life of a warmup.                                                   *)

\* A warmup whose record and whose owners are the same stays as it was.
LEMMA WarmOKSame ==
  ASSUME NEW w \in Warms, WarmOK(w), Calm(warm[w], warm'[w]),
         \A g \in Conns : Owns(g, w) => Owns(g, w)'
  PROVE  WarmOK(w)'
  BY DEF WarmOK, Calm, WarmSame

LEMMA FlatOwns ==
  ASSUME FlatConns, NEW w \in Warms
  PROVE  \A g \in Conns : Owns(g, w)' <=> Owns(g, w)
  BY DEF FlatConns, ShapeKept, Owns

LEMMA WarmStepOK ==
  ASSUME TypeOK, NEW w \in Warms, WarmOK(w), WarmStep(w)
  PROVE  WarmOK(w)' /\ warm[w].stage # "unused" /\ warm'[w].stage # "unused"
<1>1. \A g \in Conns : Owns(g, w)' <=> Owns(g, w)
  BY WarmStepTyped DEF Owns
<1>2. PICK k, l : k = warm[w] /\ l = warm'[w]
  OBVIOUS
<1>3. /\ k.listed => k.stage \notin {"unused", "done"} /\ ~k.claimed
      /\ k.stage \notin {"unused", "done"} => k.listed \/ k.claimed
      /\ k.stage \in {"unused", "await"} => k.endpoint = "none"
      /\ k.stage \in {"closing", "unlisting", "done"} =>
           k.closing /\ (k.handed <=> k.claimed)
      /\ k.stage \in {"unlisting", "done"} /\ Holding(k.endpoint) => k.claimed
      /\ k.released => k.stage \in {"unlisting", "done"} /\ ~k.handed
      /\ k.claimed => \/ \E g \in Conns : Owns(g, w)
                      \/ k.stage = "done" /\ k.endpoint = "none"
      /\ k.stage # "unused" => k.who.id # Observer
  BY <1>2 DEF WarmOK
<1>4. SUFFICES /\ k.stage # "unused" /\ l.stage # "unused"
               /\ l.listed => l.stage \notin {"unused", "done"} /\ ~l.claimed
               /\ l.stage \notin {"unused", "done"} => l.listed \/ l.claimed
               /\ l.stage = "await" => l.endpoint = "none"
               /\ l.stage \in {"closing", "unlisting", "done"} =>
                    l.closing /\ (l.handed <=> l.claimed)
               /\ l.stage \in {"unlisting", "done"} /\ Holding(l.endpoint) =>
                    l.claimed
               /\ l.released => l.stage \in {"unlisting", "done"} /\ ~l.handed
               /\ l.claimed => k.claimed /\ k.stage # "done"
               /\ l.who.id # Observer
  BY <1>1, <1>2, <1>3 DEF WarmOK
<1>5. CASE WarmRun(w)
  <2>1. /\ WarmSame(k, l) /\ l.closing = k.closing /\ l.listed = k.listed
        /\ l.handed = k.handed /\ l.released = k.released
        /\ k.stage \in {"await", "parked", "readying", "creating"}
        /\ l.stage \in {"ending", "parked", "creating", "readying"}
    BY <1>2, <1>5, WarmRunSum
  <2> QED BY <1>3, <2>1 DEF WarmSame
<1>6. CASE WarmClose(w)
  BY <1>2, <1>3, <1>6, WarmCloseSum DEF WarmSame
<1>7. CASE WarmDrop(w)
  BY <1>2, <1>3, <1>7, WarmDropSum DEF WarmSame, Holding
<1>8. CASE WarmUnlist(w)
  BY <1>2, <1>3, <1>8, WarmUnlistSum DEF WarmSame
<1> QED BY <1>5, <1>6, <1>7, <1>8 DEF WarmStep

\* A worker's step leaves to a warmup its owner, unless it takes what the
\* warmup made.
LEMMA AdvanceOwns ==
  ASSUME LeaseInv, NEW g \in Conns,
         (Advance(g) /\ ~TakeWarm(g)) \/ FinishStops(g) \/ FinishRemoves(g)
  PROVE  /\ Others(g) /\ UNCHANGED warm
         /\ \A w \in Warms, h \in Conns : Owns(h, w) => Owns(h, w)'
<1>0. TypeOK
  BY DEF LeaseInv
<1>1. CASE WorkerStarts(g)
  <2>1. /\ Others(g) /\ UNCHANGED warm /\ conn'[g].warm = conn[g].warm
        /\ \/ conn'[g].stage = "warming" /\ conn[g].warm # 0
           \/ conn'[g].stage = "waiting" /\ conn[g].warm = 0
    BY <1>0, <1>1, StartsSum DEF Advances
  <2>2. \A w \in Warms : w # 0
    BY DEF Warms
  <2> QED BY <2>1, <2>2 DEF Owns, Others
<1>2. CASE ~WorkerStarts(g)
  <2>1. /\ Others(g) /\ UNCHANGED warm
        /\ conn[g].stage \in {"start", "warming"} =>
             /\ conn'[g].stage = conn[g].stage /\ conn'[g].warm = conn[g].warm
    <3>1. CASE StartSlots(g) \/ Attempt(g) \/ SessionEnds(g) \/ WorkerLeaves(g)
               \/ FinishCloses(g) \/ FinishReports(g)
      BY <1>0, <3>1, StartSlotsSum, RunsSum, LeavesSum, ClosesSum, ReportsSum
         DEF Advances
    <3>2. CASE \E a \in Addresses : SlotCreated(g, a)
      BY <1>0, <3>2, SlotCreatedSum DEF Advances
    <3>3. CASE FinishStops(g) \/ FinishRemoves(g)
      BY <3>3, FinishStopsTame, RemovesKeeps DEF FinishStops
    <3> QED BY <1>2, <3>1, <3>2, <3>3 DEF Advance
  <2> QED BY <2>1 DEF Owns, Others
<1> QED BY <1>1, <1>2

LEMMA NextWarm ==
  ASSUME TypeOK, WarmInv, NEW w \in Warms, w = 1 + Cardinality(Begun)
  PROVE  w \notin Begun /\ \E n \in 0..MaxWarms : Begun \cup {w} = 1..n
<1>1. PICK n \in 0..MaxWarms : Begun = 1..n
  BY DEF WarmInv
<1>2. MaxWarms \in Nat
  BY AccountAssumption DEF AccountAssumption
<1>3. Cardinality(Begun) = n
  BY <1>1, <1>2, FS_Interval
<1>4. Begun \cup {w} = 1..(n + 1) /\ (n + 1) \in 0..MaxWarms
  BY <1>1, <1>2, <1>3 DEF Warms
<1> QED BY <1>1, <1>3, <1>4

LEMMA WarmInvStep ==
  ASSUME LeaseInv, WarmInv, [Next]_vars
  PROVE  WarmInv'
<1>1. TypeOK /\ TableInv
  BY DEF LeaseInv
<1>2. \A w \in Warms : WarmOK(w)
  BY DEF WarmInv
<1>3. \E n \in 0..MaxWarms : Begun = 1..n
  BY DEF WarmInv
<1>4. SUFFICES (\E n \in 0..MaxWarms : Begun' = 1..n)
               /\ \A w \in Warms : WarmOK(w)'
  BY DEF WarmInv
<1>5. CASE Flat
  <2>1. Begun' = Begun
    BY <1>5 DEF Flat, WarmCalm, Calm, Begun
  <2>2. \A w \in Warms : Calm(warm[w], warm'[w])
    BY <1>5 DEF Flat, WarmCalm
  <2>3. \A w \in Warms, g \in Conns : Owns(g, w) => Owns(g, w)'
    BY <1>5, FlatOwns DEF Flat
  <2>4. \A w \in Warms : WarmOK(w)'
    BY <1>2, <2>2, <2>3, WarmOKSame
  <2> QED BY <1>3, <2>1, <2>4
<1>6. CASE \E d \in Descriptors, w \in Warms : Warmed(d, w)
  <2>1. PICK d \in Descriptors, w \in Warms : Warmed(d, w)
    BY <1>6
  <2>2. w \notin Begun /\ \E n \in 0..MaxWarms : Begun \cup {w} = 1..n
    BY <1>1, <2>1, NextWarm DEF Warmed
  <2>3. /\ warm'[w] = NewWarm(d) /\ d.id # Observer /\ UNCHANGED conn
        /\ \A x \in Warms : x # w => Calm(warm[x], warm'[x])
    BY <2>1 DEF Warmed
  <2>4. LET k == warm'[w]
        IN /\ k \in Warm /\ k.who = d /\ ~k.cancelled /\ ~k.claimed /\ ~k.closing
           /\ k.listed /\ k.channel = router.channel /\ ~k.failed /\ ~k.handed
           /\ ~k.released /\ k.stage = "await" /\ k.endpoint = "none"
    BY <1>1, <2>3, NewWarmTyped
  <2>5. WarmOK(w)'
    BY <2>3, <2>4 DEF WarmOK
  <2>6. \A x \in Warms, g \in Conns : Owns(g, x) => Owns(g, x)'
    BY <2>3 DEF Owns
  <2>7. \A x \in Warms : x # w => WarmOK(x)'
    BY <1>2, <2>3, <2>6, WarmOKSame
  <2>8. Begun' = Begun \cup {w}
    BY <2>3, <2>4 DEF Begun, Calm
  <2> QED BY <2>2, <2>5, <2>7, <2>8
<1>7. CASE \E w \in Warms : WarmStep(w)
  <2>1. PICK w \in Warms : WarmStep(w)
    BY <1>7
  <2>2. WarmOK(w)' /\ warm[w].stage # "unused" /\ warm'[w].stage # "unused"
    BY <1>1, <1>2, <2>1, WarmStepOK
  <2>3. UNCHANGED conn /\ \A x \in Warms : x # w => warm'[x] = warm[x]
    BY <1>1, <2>1, WarmStepTyped, WarmRunSum, WarmCloseSum, WarmDropSum,
       WarmUnlistSum DEF WarmStep, WarmOthers
  <2>4. \A x \in Warms, g \in Conns : Owns(g, x) => Owns(g, x)'
    BY <2>3 DEF Owns
  <2>5. \A x \in Warms : x # w => Calm(warm[x], warm'[x])
    BY <2>3 DEF Calm, WarmSame
  <2>6. \A x \in Warms : x # w => WarmOK(x)'
    BY <1>2, <2>4, <2>5, WarmOKSame
  <2>7. Begun' = Begun
    BY <2>2, <2>3 DEF Begun
  <2> QED BY <1>3, <2>2, <2>6, <2>7
<1>8. CASE \E c \in Clients : Create(c)
  <2>1. PICK c \in Clients : Create(c)
    BY <1>8
  <2>2. PICK d, g : d = client[c].who /\ g = 1 + Cardinality(Used)
    OBVIOUS
  <2>3. /\ g \in Conns /\ g \notin Used /\ Others(g)
        /\ conn'[g].stage = "start"
        /\ \/ conn'[g].warm = 0 /\ Matching(d) = {}
           \/ conn'[g].warm \in Warms /\ conn'[g].warm \in Matching(d)
        /\ \A x \in Warms : x # conn'[g].warm => warm'[x] = warm[x]
        /\ \A x \in Warms : x = conn'[g].warm => warm'[x] = Claimed(warm[x])
    <3>1. /\ g \in Conns /\ g \notin Used /\ Others(g)
          /\ conn'[g].stage = "start"
      BY <2>1, <2>2, CreateSum
    <3>2. /\ \/ conn'[g].warm = 0 /\ Matching(d) = {}
             \/ conn'[g].warm \in Warms /\ conn'[g].warm \in Matching(d)
          /\ \A x \in Warms : x # conn'[g].warm => warm'[x] = warm[x]
          /\ \A x \in Warms : x = conn'[g].warm => warm'[x] = Claimed(warm[x])
      BY SMTT(40), <2>1, <2>2, CreateSum
    <3> QED BY <3>1, <3>2
  <2>4. \A x \in Warms, h \in Conns : Owns(h, x) => Owns(h, x)'
    BY <2>3 DEF Owns, Others, Used
  <2>5. \A x \in Warms : x # conn'[g].warm => WarmOK(x)'
    <3>1. \A x \in Warms : x # conn'[g].warm => Calm(warm[x], warm'[x])
      BY <2>3 DEF Calm, WarmSame
    <3> QED BY <1>2, <2>4, <3>1, WarmOKSame
  <2>6. \A x \in Warms : LET k == warm[x]  l == Claimed(warm[x])
                         IN /\ l.who = k.who /\ l.claimed /\ ~l.listed
                            /\ l.closing = k.closing /\ l.handed = k.handed
                            /\ l.released = k.released /\ l.stage = k.stage
                            /\ l.endpoint = k.endpoint
    BY <1>1, ClaimedIs DEF TypeOK
  <2>7. ASSUME NEW x \in Warms, x = conn'[g].warm PROVE WarmOK(x)'
    <3>1. x \in Listed /\ ~warm[x].closing
      <4>1. x \in Matching(d)
        BY <2>3, <2>7 DEF Warms
      <4> QED BY <4>1 DEF Matching, Ending
    <3>2. warm'[x] = Claimed(warm[x])
      BY <2>3, <2>7
    <3>3. Owns(g, x)'
      BY <2>3, <2>7 DEF Owns
    <3>4. WarmOK(x) /\ warm[x].listed
      BY <1>2, <3>1 DEF Listed
    <3>5. /\ warm[x].stage \notin {"unused", "done", "closing", "unlisting"}
          /\ ~warm[x].released
      BY <3>1, <3>4 DEF WarmOK
    <3>6. /\ warm'[x].who = warm[x].who /\ warm'[x].claimed /\ ~warm'[x].listed
          /\ warm'[x].released = warm[x].released
          /\ warm'[x].stage = warm[x].stage
          /\ warm'[x].endpoint = warm[x].endpoint
      BY <2>6, <3>2
    <3> QED BY <2>3, <3>3, <3>4, <3>5, <3>6 DEF WarmOK
  <2>8. Begun' = Begun
    BY <2>3, <2>6 DEF Begun
  <2> QED BY <1>3, <2>5, <2>7, <2>8
<1>9. CASE \E g \in Conns : TakeWarm(g)
  <2>1. PICK g \in Conns : TakeWarm(g)
    BY <1>9
  <2>2. PICK w, p : w = conn[g].warm /\ p = Primary(conn[g].who)
    OBVIOUS
  <2>3. /\ Others(g) /\ w \in Warms /\ warm[w].stage = "done"
        /\ warm' = [warm EXCEPT ![w].endpoint = "none"]
    BY ZenonT(60), <1>1, <2>1, <2>2, TakeWarmSum DEF Advances
  <2>4. /\ warm'[w] = [warm[w] EXCEPT !.endpoint = "none"] /\ warm[w] \in Warm
        /\ \A x \in Warms : x # w => warm'[x] = warm[x]
    BY <1>1, <2>3 DEF TypeOK
  <2>5. LET k == warm[w]  l == warm'[w]
        IN /\ l.who = k.who /\ l.claimed = k.claimed /\ l.listed = k.listed
           /\ l.closing = k.closing /\ l.handed = k.handed
           /\ l.released = k.released /\ l.stage = k.stage
           /\ l.endpoint = "none"
    BY <2>4, WarmFields DEF Warm
  <2>6. WarmOK(w)'
    BY <1>2, <2>3, <2>5 DEF WarmOK, Holding
  <2>7. \A x \in Warms : x # w => WarmOK(x)'
    <3>1. \A x \in Warms : x # w => \A h \in Conns : Owns(h, x) => Owns(h, x)'
      BY <2>2, <2>3 DEF Owns, Others
    <3>2. \A x \in Warms : x # w => Calm(warm[x], warm'[x])
      BY <2>4 DEF Calm, WarmSame
    <3> QED BY <1>2, <3>1, <3>2, WarmOKSame
  <2>8. Begun' = Begun
    BY <2>4, <2>5 DEF Begun
  <2> QED BY <1>3, <2>6, <2>7, <2>8
<1>10. CASE \E g \in Conns : \/ Advance(g) /\ ~TakeWarm(g)
                             \/ FinishStops(g) \/ FinishRemoves(g)
  <2>1. PICK g \in Conns : \/ Advance(g) /\ ~TakeWarm(g)
                           \/ FinishStops(g) \/ FinishRemoves(g)
    BY <1>10
  <2>2. /\ UNCHANGED warm
        /\ \A w \in Warms, h \in Conns : Owns(h, w) => Owns(h, w)'
    BY <2>1, AdvanceOwns
  <2>3. \A w \in Warms : Calm(warm[w], warm'[w])
    BY <2>2 DEF Calm, WarmSame
  <2>4. \A w \in Warms : WarmOK(w)'
    BY <1>2, <2>2, <2>3, WarmOKSame
  <2>5. Begun' = Begun
    BY <2>2 DEF Begun
  <2> QED BY <1>3, <2>4, <2>5
<1> QED BY <1>5, <1>6, <1>7, <1>8, <1>9, <1>10, ShapeCases

-----------------------------------------------------------------------------
(* The endpoints of a connection.                                          *)

\* What a connection asks of its warmup.
Claims(k) ==
  k.warm # 0 => /\ k.stage \in {"start", "warming"}
                /\ warm[k.warm].claimed
                /\ warm[k.warm].who.id = k.who.id
                /\ Primary(warm[k.warm].who) = Primary(k.who)

\* What a connection's slots may hold.
SlotsOK(k) ==
  \A a \in Addresses : Holding(k.slot[a]) =>
    /\ a \in Pool(k.who)
    /\ k.stage \in {"waiting", "loop", "serving", "leaving", "closing"}
    /\ k.stage = "closing" => k.slot[a] = "live"

LEMMA SlotParts ==
  ASSUME NEW g \in Conns
  PROVE  /\ SlotOK(g) <=> Claims(conn[g]) /\ SlotsOK(conn[g])
         /\ SlotOK(g)' <=> Claims(conn[g])' /\ SlotsOK(conn[g])'
  BY DEF SlotOK, Claims, SlotsOK

\* A claimed warmup keeps its account and identity.
LEMMA ClaimsKept ==
  ASSUME TypeOK, NEW g \in Conns, Claims(conn[g]),
         conn'[g].who = conn[g].who, conn'[g].warm = conn[g].warm,
         conn'[g].stage \in {"start", "warming"} \/ conn'[g].stage = conn[g].stage
           \/ conn'[g].warm = 0,
         \A w \in Warms : warm[w].claimed =>
           warm'[w].claimed /\ warm'[w].who = warm[w].who
  PROVE  Claims(conn[g])'
<1>1. conn[g].warm \in {0} \cup Warms
  BY DEF TypeOK
<1> QED BY <1>1 DEF Claims

LEMMA WorkerSlots ==
  ASSUME LeaseInv, NEW g \in Conns, SlotOK(g), WarmInv,
         Advance(g) \/ FinishStops(g) \/ FinishRemoves(g)
  PROVE  SlotOK(g)' /\ Others(g)
<1>1. TypeOK /\ TableInv /\ conn[g] \in Conn /\ conn[g].warm \in {0} \cup Warms
  BY DEF LeaseInv, TypeOK
<1>2. Claims(conn[g]) /\ SlotsOK(conn[g])
  BY SlotParts
<1>3. SUFFICES Claims(conn[g])' /\ SlotsOK(conn[g])' /\ Others(g)
  BY SlotParts
<1>4. CASE WorkerStarts(g)
  <2>1. /\ Others(g) /\ SameBooks(conn[g], conn'[g]) /\ UNCHANGED warm
        /\ conn'[g].slot = conn[g].slot /\ conn'[g].warm = conn[g].warm
        /\ conn[g].stage = "start"
        /\ \/ conn'[g].stage = "warming" /\ conn[g].warm # 0
           \/ conn'[g].stage = "waiting" /\ conn[g].warm = 0
    BY <1>1, <1>4, StartsSum DEF Advances
  <2> QED BY <1>2, <2>1 DEF SameBooks, Claims, SlotsOK
<1>5. CASE TakeWarm(g)
  <2>1. PICK w, p : w = conn[g].warm /\ p = Primary(conn[g].who)
    OBVIOUS
  <2>2. /\ Others(g) /\ SameBooks(conn[g], conn'[g]) /\ p \in Addresses
        /\ conn'[g].slot = [conn[g].slot EXCEPT ![p] = warm[w].endpoint]
        /\ conn'[g].warm = 0
        /\ conn[g].stage = "warming" /\ conn'[g].stage = "waiting"
    BY <1>1, <1>5, <2>1, TakeWarmSum DEF Advances
  <2>3. p \in Pool(conn[g].who)
    BY <1>1, <2>1, ConnFields, DescriptorFields
  <2>4. \A a \in Addresses : a # p => conn'[g].slot[a] = conn[g].slot[a]
    BY <1>1, <2>2, ConnFields
  <2> QED BY <1>2, <2>2, <2>3, <2>4 DEF SameBooks, Claims, SlotsOK
<1>6. CASE StartSlots(g)
  <2>1. /\ Others(g) /\ SameBooks(conn[g], conn'[g]) /\ UNCHANGED warm
        /\ \A a \in Addresses : \/ conn'[g].slot[a] = conn[g].slot[a]
                                \/ /\ a \in Pool(conn[g].who)
                                   /\ conn'[g].slot[a] = "creating"
        /\ conn'[g].warm = conn[g].warm
        /\ conn[g].stage = "waiting" /\ conn'[g].stage = "loop"
    BY <1>1, <1>6, StartSlotsSum DEF Advances
  <2> QED BY <1>2, <2>1 DEF SameBooks, Claims, SlotsOK
<1>7. CASE Attempt(g) \/ SessionEnds(g)
  <2>1. /\ Others(g) /\ SameBooks(conn[g], conn'[g]) /\ UNCHANGED warm
        /\ \A b \in Addresses : conn'[g].slot[b] # conn[g].slot[b] =>
             b \in Pool(conn[g].who)
        /\ conn'[g].warm = conn[g].warm
        /\ conn[g].stage \in {"loop", "serving"}
        /\ conn'[g].stage \in {"loop", "serving"}
    BY <1>1, <1>7, RunsSum DEF Advances
  <2> QED BY <1>2, <2>1 DEF SameBooks, Claims, SlotsOK
<1>8. CASE WorkerLeaves(g)
  <2>1. /\ Others(g) /\ SameBooks(conn[g], conn'[g]) /\ UNCHANGED warm
        /\ conn'[g].slot = conn[g].slot /\ conn'[g].warm = conn[g].warm
        /\ conn[g].stage \in {"waiting", "loop", "serving"}
        /\ conn'[g].stage = "leaving"
    BY <1>1, <1>8, LeavesSum DEF Advances
  <2> QED BY <1>2, <2>1 DEF SameBooks, Claims, SlotsOK
<1>9. CASE FinishCloses(g)
  <2>1. /\ Others(g) /\ SameBooks(conn[g], conn'[g]) /\ UNCHANGED warm
        /\ \A a \in Addresses : conn'[g].slot[a] =
             IF conn[g].slot[a] = "creating" THEN "creating" ELSE "none"
        /\ conn'[g].warm = conn[g].warm
        /\ conn[g].stage = "closing" /\ conn'[g].stage = "reporting"
    BY <1>1, <1>9, ClosesSum DEF Advances
  <2> QED BY <1>2, <2>1 DEF SameBooks, Claims, SlotsOK, Holding
<1>10. CASE FinishReports(g)
  <2>1. /\ Others(g) /\ SameBooks(conn[g], conn'[g]) /\ UNCHANGED warm
        /\ conn'[g].slot = conn[g].slot /\ conn'[g].warm = conn[g].warm
        /\ conn[g].stage = "reporting" /\ conn'[g].stage = "removing"
    BY <1>1, <1>10, ReportsSum DEF Advances
  <2> QED BY <1>2, <2>1 DEF SameBooks, Claims, SlotsOK
<1>11. CASE \E a \in Addresses : SlotCreated(g, a)
  <2>1. PICK a \in Addresses : SlotCreated(g, a)
    BY <1>11
  <2>2. /\ Others(g) /\ SameBooks(conn[g], conn'[g]) /\ UNCHANGED warm
        /\ conn[g].slot[a] = "creating"
        /\ \A b \in Addresses : b # a => conn'[g].slot[b] = conn[g].slot[b]
        /\ conn'[g].slot[a] \in {"live", "failed"}
        /\ conn'[g].warm = conn[g].warm /\ conn'[g].stage = conn[g].stage
    BY <1>1, <2>1, SlotCreatedSum DEF Advances
  <2>3. Claims(conn[g])'
    BY <1>2, <2>2 DEF SameBooks, Claims
  <2>4. SlotsOK(conn[g])'
    BY <1>2, <2>2 DEF SameBooks, SlotsOK, Holding
  <2> QED BY <2>2, <2>3, <2>4
<1>12. CASE FinishStops(g)
  <2>1. /\ Others(g) /\ conn'[g].who = conn[g].who /\ UNCHANGED warm
        /\ conn'[g].slot = conn[g].slot /\ conn'[g].warm = conn[g].warm
        /\ conn[g].stage = "leaving" /\ conn'[g].stage = "closing"
        /\ \A a \in Addresses : conn[g].slot[a] # "creating"
    BY <1>12, FinishStopsTame DEF FinishStops, Created
  <2> QED BY <1>2, <2>1 DEF Claims, SlotsOK, Holding
<1>13. CASE FinishRemoves(g)
  <2>1. /\ Others(g) /\ SameBooks(conn[g], conn'[g]) /\ UNCHANGED warm
        /\ conn'[g].slot = conn[g].slot /\ conn'[g].warm = conn[g].warm
        /\ conn[g].stage = "removing" /\ conn'[g].stage = "gone"
    BY <1>13, RemovesKeeps
  <2> QED BY <1>2, <2>1 DEF SameBooks, Claims, SlotsOK
<1> QED BY <1>4, <1>5, <1>6, <1>7, <1>8, <1>9, <1>10, <1>11, <1>12, <1>13
        DEF Advance

\* No step takes a claim back or changes what a claimed warmup is of.
LEMMA ClaimStays ==
  ASSUME LeaseInv, WarmInv, [Next]_vars
  PROVE  \A w \in Warms : warm[w].claimed =>
           warm'[w].claimed /\ warm'[w].who = warm[w].who
<1>1. TypeOK /\ TableInv /\ \A w \in Warms : WarmOK(w)
  BY DEF LeaseInv, WarmInv
<1>2. CASE Flat
  BY <1>2 DEF Flat, WarmCalm, Calm, WarmSame
<1>3. CASE \E d \in Descriptors, w \in Warms : Warmed(d, w)
  <2>1. PICK d \in Descriptors, w \in Warms : Warmed(d, w)
    BY <1>3
  <2>2. w \notin Begun /\ \A x \in Warms : x # w => Calm(warm[x], warm'[x])
    BY <1>1, <2>1, NextWarm DEF Warmed
  <2>3. ~warm[w].claimed
    BY <1>1, <2>2 DEF WarmOK, Begun
  <2> QED BY <2>2, <2>3 DEF Calm, WarmSame
<1>4. CASE \E w \in Warms : WarmStep(w)
  <2>1. PICK w \in Warms : WarmStep(w)
    BY <1>4
  <2>2. WarmOthers(w) /\ WarmSame(warm[w], warm'[w])
    BY <1>1, <2>1, WarmRunSum, WarmCloseSum, WarmDropSum, WarmUnlistSum
       DEF WarmStep
  <2> QED BY <2>2 DEF WarmOthers, WarmSame
<1>5. CASE \E c \in Clients : Create(c)
  <2>1. PICK c \in Clients : Create(c)
    BY <1>5
  <2>2. PICK d, g : d = client[c].who /\ g = 1 + Cardinality(Used)
    OBVIOUS
  <2>3. /\ \A x \in Warms : x # conn'[g].warm => warm'[x] = warm[x]
        /\ \A x \in Warms : x = conn'[g].warm => warm'[x] = Claimed(warm[x])
    BY <2>1, <2>2, CreateSum
  <2>4. \A x \in Warms : Claimed(warm[x]).who = warm[x].who
                           /\ Claimed(warm[x]).claimed
    BY <1>1, ClaimedIs DEF TypeOK
  <2> QED BY <2>3, <2>4
<1>6. CASE \E g \in Conns : TakeWarm(g)
  <2>1. PICK g \in Conns : TakeWarm(g)
    BY <1>6
  <2>2. PICK w, p : w = conn[g].warm /\ p = Primary(conn[g].who)
    OBVIOUS
  <2>3. w \in Warms /\ warm' = [warm EXCEPT ![w].endpoint = "none"]
    BY <1>1, <2>1, <2>2, TakeWarmSum
  <2>4. \A x \in Warms : warm[x] \in Warm
    BY <1>1 DEF TypeOK
  <2>5. \A x \in Warms : warm'[x].claimed = warm[x].claimed
                           /\ warm'[x].who = warm[x].who
    BY <1>1, <2>3, <2>4 DEF TypeOK, Warm
  <2> QED BY <2>5
<1>7. CASE \E g \in Conns : \/ Advance(g) /\ ~TakeWarm(g)
                            \/ FinishStops(g) \/ FinishRemoves(g)
  BY <1>7, AdvanceOwns
<1> QED BY <1>2, <1>3, <1>4, <1>5, <1>6, <1>7, ShapeCases

LEMMA SlotInvStep ==
  ASSUME LeaseInv, WarmInv, SlotInv, [Next]_vars
  PROVE  SlotInv'
<1>1. TypeOK /\ TableInv /\ \A w \in Warms : WarmOK(w)
  BY DEF LeaseInv, WarmInv
<1>2. \A g \in Conns : SlotOK(g) /\ Claims(conn[g]) /\ SlotsOK(conn[g])
  BY SlotParts DEF SlotInv
<1>3. \A w \in Warms : warm[w].claimed =>
        warm'[w].claimed /\ warm'[w].who = warm[w].who
  BY ClaimStays
<1>4. ASSUME NEW g \in Conns, ShapeKept(conn[g], conn'[g])
      PROVE  SlotOK(g)'
  <2>1. Claims(conn[g])'
    BY <1>1, <1>2, <1>3, <1>4, ClaimsKept DEF ShapeKept
  <2>2. SlotsOK(conn[g])'
    BY <1>2, <1>4 DEF SlotsOK, ShapeKept
  <2> QED BY <2>1, <2>2, SlotParts
<1>5. \A g \in Conns : ShapeKept(conn[g], conn[g])
  BY DEF ShapeKept
<1>6. CASE Flat
  BY <1>4, <1>6 DEF Flat, FlatConns, SlotInv
<1>7. CASE UNCHANGED conn
  BY <1>4, <1>5, <1>7 DEF SlotInv
<1>8. CASE \E d \in Descriptors, w \in Warms : Warmed(d, w)
  BY <1>7, <1>8 DEF Warmed
<1>9. CASE \E w \in Warms : WarmStep(w)
  BY <1>1, <1>7, <1>9, WarmStepTyped
<1>10. CASE \E c \in Clients : Create(c)
  <2>1. PICK c \in Clients : Create(c)
    BY <1>10
  <2>2. PICK d, g : d = client[c].who /\ g = 1 + Cardinality(Used)
    OBVIOUS
  <2>3. /\ g \in Conns /\ Others(g) /\ conn'[g].stage = "start"
        /\ conn'[g].who = d /\ \A a \in Addresses : conn'[g].slot[a] = "none"
    BY <2>1, <2>2, CreateSum
  <2>4. /\ \/ conn'[g].warm = 0
           \/ conn'[g].warm \in Warms /\ conn'[g].warm \in Matching(d)
        /\ \A x \in Warms : x = conn'[g].warm => warm'[x] = Claimed(warm[x])
    BY <2>1, <2>2, CreateSum
  <2>5. \A x \in Warms : Claimed(warm[x]).who = warm[x].who
                           /\ Claimed(warm[x]).claimed
    BY <1>1, ClaimedIs DEF TypeOK
  <2>6. Claims(conn[g])'
    BY <2>3, <2>4, <2>5 DEF Claims, Matching
  <2>7. SlotsOK(conn[g])'
    BY <2>3 DEF SlotsOK, Holding
  <2>8. SlotOK(g)'
    BY <2>3, <2>6, <2>7, SlotParts
  <2> QED BY <1>4, <1>5, <2>3, <2>8 DEF Others, SlotInv
<1>11. CASE \E g \in Conns : Advance(g) \/ FinishStops(g) \/ FinishRemoves(g)
  <2>1. PICK g \in Conns : Advance(g) \/ FinishStops(g) \/ FinishRemoves(g)
    BY <1>11
  <2>2. SlotOK(g)' /\ Others(g)
    BY <1>2, <2>1, WorkerSlots
  <2> QED BY <1>4, <1>5, <2>2 DEF Others, SlotInv
<1> QED BY <1>6, <1>8, <1>9, <1>10, <1>11, ShapeCases

LEMMA WarmSlotInit ==
  ASSUME Init
  PROVE  WarmInv /\ SlotInv
<1>1. PICK d \in Descriptors : d = CHOOSE x \in Descriptors : TRUE
  BY AccountAssumption DEF AccountAssumption
<1>2. /\ conn = [g \in Conns |-> [NewConn(d, 0) EXCEPT !.stage = "unused"]]
      /\ warm = [w \in Warms |-> [NewWarm(d) EXCEPT !.stage = "unused",
                                                    !.listed = FALSE]]
  BY <1>1 DEF Init
<1>3. \A g \in Conns : conn[g].warm = 0
        /\ \A a \in Addresses : conn[g].slot[a] = "none"
  BY <1>2 DEF NewConn
<1>4. \A w \in Warms : /\ warm[w].stage = "unused" /\ ~warm[w].listed
                       /\ ~warm[w].claimed /\ ~warm[w].released
                       /\ warm[w].endpoint = "none"
  BY <1>2 DEF NewWarm
<1>5. SlotInv
  BY <1>3 DEF SlotInv, SlotOK, Holding
<1>6. \A w \in Warms : WarmOK(w)
  BY <1>4 DEF WarmOK
<1>7. Begun = 1..0 /\ 0 \in 0..MaxWarms
  BY <1>4, AccountAssumption DEF Begun, AccountAssumption
<1> QED BY <1>5, <1>6, <1>7 DEF WarmInv

\* What a warmup made has one owner at any time, through every claim and every
\* end of a warmup (prewarm.go:155-246, manager.go:500-530, 619-647).
THEOREM WarmupsAreHandedOver == Spec => []HandedOver
<1>1. Init => WarmInv /\ SlotInv
  BY WarmSlotInit
<1>2. LeaseInv /\ WarmInv /\ SlotInv /\ [Next]_vars => WarmInv' /\ SlotInv'
  BY WarmInvStep, SlotInvStep
<1>3. WarmInv /\ SlotInv => HandedOver
  <2>1. SUFFICES ASSUME WarmInv, SlotInv PROVE HandedOver
    OBVIOUS
  <2>2. \A g \in Conns : SlotOK(g)
    BY <2>1 DEF SlotInv
  <2>3. \A w \in Warms : WarmOK(w)
    BY <2>1 DEF WarmInv
  <2>4. \A g \in Conns : conn[g].stage \in {"reporting", "removing", "gone"} =>
          \A a \in Addresses : ~Holding(conn[g].slot[a])
    BY <2>2 DEF SlotOK
  <2>5. \A w \in Warms : warm[w].stage = "done" /\ Holding(warm[w].endpoint) =>
          \E g \in Conns : conn[g].warm = w /\ conn[g].stage \in {"start", "warming"}
    BY <2>3 DEF WarmOK, Owns, Holding
  <2>6. \A w \in Warms : warm[w].claimed => ~warm[w].released
    BY <2>3 DEF WarmOK
  <2> QED BY <2>4, <2>5, <2>6 DEF HandedOver
<1> QED BY <1>1, <1>2, <1>3, LeaseInvariant, PTL DEF Spec

-----------------------------------------------------------------------------
(* The tables: who may use which identity.                                 *)

\* The tables lose entries or keep them.
Shrink ==
  /\ \A i \in Ids : accounts'[i] \in {0, accounts[i]}
  /\ \A g \in Conns : conn'[g].who = conn[g].who
  /\ \A w \in Warms : /\ warm'[w].who = warm[w].who
                      /\ warm'[w].listed => warm[w].listed

\* Only these enter something in a table.
LEMMA TableCases ==
  ASSUME LeaseInv, [Next]_vars
  PROVE  \/ Shrink
         \/ \E d \in Descriptors, w \in Warms : Warmed(d, w)
         \/ \E c \in Clients : Create(c)
<1>1. TypeOK /\ TableInv
  BY DEF LeaseInv
<1>2. CASE Flat
  BY <1>2 DEF Flat, FlatConns, ShapeKept, WarmCalm, Calm, WarmSame, Shrink
<1>3. CASE \E w \in Warms : WarmStep(w)
  <2>1. PICK w \in Warms : WarmStep(w)
    BY <1>3
  <2>2. /\ WarmOthers(w) /\ WarmSame(warm[w], warm'[w])
        /\ warm'[w].listed => warm[w].listed
    BY <1>1, <2>1, WarmRunSum, WarmCloseSum, WarmDropSum, WarmUnlistSum
       DEF WarmStep
  <2>3. UNCHANGED <<accounts, conn>>
    BY <1>1, <2>1, WarmStepTyped
  <2> QED BY <2>2, <2>3 DEF WarmOthers, WarmSame, Shrink
<1>4. CASE \E g \in Conns : TakeWarm(g)
  <2>1. PICK g \in Conns : TakeWarm(g)
    BY <1>4
  <2>2. PICK w, p : w = conn[g].warm /\ p = Primary(conn[g].who)
    OBVIOUS
  <2>3. /\ Others(g) /\ SameBooks(conn[g], conn'[g]) /\ UNCHANGED accounts
        /\ w \in Warms /\ warm' = [warm EXCEPT ![w].endpoint = "none"]
    BY ZenonT(60), <1>1, <2>1, <2>2, TakeWarmSum DEF Advances
  <2>4. \A x \in Warms : warm[x] \in Warm
    BY <1>1 DEF TypeOK
  <2>5. \A x \in Warms : warm'[x].listed = warm[x].listed
                           /\ warm'[x].who = warm[x].who
    BY <1>1, <2>3, <2>4 DEF TypeOK, Warm
  <2> QED BY <2>3, <2>5 DEF Others, SameBooks, Shrink
<1>5. CASE \E g \in Conns : \/ Advance(g) /\ ~TakeWarm(g)
                            \/ FinishStops(g) \/ FinishRemoves(g)
  <2>1. PICK g \in Conns : \/ Advance(g) /\ ~TakeWarm(g)
                           \/ FinishStops(g) \/ FinishRemoves(g)
    BY <1>5
  <2>2. Others(g) /\ UNCHANGED warm
    BY <2>1, AdvanceOwns
  <2>3. conn'[g].who = conn[g].who
        /\ \A i \in Ids : accounts'[i] \in {0, accounts[i]}
    <3>1. CASE FinishRemoves(g)
      <4>1. conn'[g].who = conn[g].who
        BY <3>1, RemovesKeeps DEF SameBooks
      <4>2. accounts' = [accounts EXCEPT ![conn[g].who.id] = 0]
        BY <3>1, RemovesKeeps
      <4> QED BY <1>1, <4>1, <4>2 DEF TypeOK
    <3>2. CASE FinishStops(g)
      BY <3>2, FinishStopsTame DEF FinishStops
    <3>3. CASE Advance(g) /\ ~TakeWarm(g)
      <4>1. Advances(g)
        BY <1>1, <3>3, StartsSum, StartSlotsSum, RunsSum, LeavesSum,
           ClosesSum, ReportsSum, SlotCreatedSum DEF Advance
      <4> QED BY <4>1 DEF Advances, SameBooks
    <3> QED BY <2>1, <3>1, <3>2, <3>3
  <2> QED BY <2>2, <2>3 DEF Others, Shrink
<1> QED BY <1>2, <1>3, <1>4, <1>5, ShapeCases

LEMMA ShrinkTables ==
  ASSUME TypeOK, TypeOK', Shrink
  PROVE  Tracked' \subseteq Tracked /\ Listed' \subseteq Listed
<1>1. Tracked' \subseteq Tracked
  BY DEF Shrink, Tracked
<1>2. Listed' \subseteq Listed
  BY DEF Shrink, Listed
<1> QED BY <1>1, <1>2

\* What Acquire enters is apart from everything else in the tables.
LEMMA CreateApart ==
  ASSUME LeaseInv, ApartInv, NEW c \in Clients, Create(c),
         NEW d, d = client[c].who, NEW g, g = 1 + Cardinality(Used)
  PROVE  /\ Tracked' = Tracked \cup {g} /\ g \notin Tracked
         /\ \A h \in Tracked : conn'[h] = conn[h]
         /\ conn'[g].who = d
         /\ \A h \in Tracked : Pool(d) \cap Pool(conn[h].who) = {}
         /\ Listed' \subseteq Listed
         /\ \A w \in Warms : warm'[w].who = warm[w].who
         /\ \A w \in Listed' : Primary(warm[w].who) \notin Pool(d)
<1>1. TypeOK /\ TableInv
  BY DEF LeaseInv
<1>2. /\ d \in Descriptors /\ g \in Conns /\ g \notin Used
      /\ Admissible(d) /\ Foreign(d) = {} /\ Blocking(d) = {}
      /\ Others(g) /\ conn'[g].who = d
  <2>1. d \in Descriptors /\ g \in Conns /\ g \notin Used
    BY CreateSum
  <2>2. Admissible(d) /\ Foreign(d) = {} /\ Blocking(d) = {}
    BY DEF Create
  <2>3. Others(g) /\ conn'[g].who = d
    BY CreateSum
  <2> QED BY <2>1, <2>2, <2>3
<1>3. /\ \/ conn'[g].warm = 0 /\ Matching(d) = {}
         \/ conn'[g].warm \in Warms /\ conn'[g].warm \in Matching(d)
      /\ accounts' = [accounts EXCEPT ![d.id] = g]
  BY CreateSum
<1>4. /\ \A x \in Warms : x # conn'[g].warm => warm'[x] = warm[x]
      /\ \A x \in Warms : x = conn'[g].warm => warm'[x] = Claimed(warm[x])
  BY CreateSum
<1>5. d.id \in Ids /\ accounts[d.id] = 0 /\ ~Clashes(d)
  BY <1>2, DescriptorFields DEF Admissible
<1>6. Tracked' = Tracked \cup {g} /\ g \notin Tracked
  <2>1. \A i \in Ids : accounts'[i] = IF i = d.id THEN g ELSE accounts[i]
    BY <1>1, <1>3, <1>5 DEF TypeOK
  <2>2. g # 0 /\ g \notin Tracked
    BY <1>1, <1>2, TrackedIs DEF Conns, Used, Live
  <2> QED BY <1>5, <2>1, <2>2 DEF Tracked
<1>7. \A h \in Tracked : conn'[h] = conn[h]
  BY <1>1, <1>2, <1>6, TrackedIs DEF Others
<1>8. \A h \in Tracked : Pool(d) \cap Pool(conn[h].who) = {}
  BY <1>5 DEF Clashes, ClashesWith
<1>9. \A x \in Warms : Claimed(warm[x]).who = warm[x].who
                         /\ ~Claimed(warm[x]).listed
  BY <1>1, ClaimedIs DEF TypeOK
<1>10. /\ Listed' \subseteq Listed
       /\ \A w \in Warms : warm'[w].who = warm[w].who
       /\ \A w \in Listed' : w # conn'[g].warm
  BY <1>4, <1>9 DEF Listed
<1>11. ASSUME NEW w \in Listed', Primary(warm[w].who) \in Pool(d) PROVE FALSE
  <2>1. w \in Listed /\ w # conn'[g].warm
    BY <1>10
  <2>2. Outdated(d) = {} /\ Ending(d) = {}
    BY <1>2 DEF Blocking
  <2>3. warm[w].who.id = d.id
    BY <1>2, <1>11, <2>1 DEF Foreign
  <2>4. Primary(warm[w].who) = Primary(d)
    BY <2>1, <2>2, <2>3 DEF Outdated
  <2>5. w \in Matching(d)
    BY <2>1, <2>2, <2>3, <2>4 DEF Matching
  <2>6. conn'[g].warm \in Matching(d)
    BY <1>3, <2>5
  <2>7. /\ conn'[g].warm \in Listed
        /\ Primary(warm[conn'[g].warm].who) = Primary(d)
    BY <2>6 DEF Matching
  <2>8. \A x, y \in Listed : Primary(warm[x].who) = Primary(warm[y].who) => x = y
    BY DEF ApartInv
  <2> QED BY <2>1, <2>4, <2>7, <2>8
<1> QED BY <1>2, <1>6, <1>7, <1>8, <1>10, <1>11

LEMMA ApartStep ==
  ASSUME LeaseInv, LeaseInv', WarmInv, ApartInv, [Next]_vars
  PROVE  ApartInv'
<1>1. TypeOK /\ TypeOK' /\ TableInv /\ \A w \in Warms : WarmOK(w)
  BY DEF LeaseInv, WarmInv
<1>2. /\ \A g, h \in Tracked : Pool(conn[g].who) \cap Pool(conn[h].who) # {} => g = h
      /\ \A w, x \in Listed : Primary(warm[w].who) = Primary(warm[x].who) => w = x
      /\ \A w \in Listed, g \in Tracked : Primary(warm[w].who) \notin Pool(conn[g].who)
  BY DEF ApartInv
<1>3. Tracked \subseteq Conns /\ Listed \subseteq Warms
  BY <1>1, TrackedIs DEF Listed
<1>4. CASE Shrink
  <2>1. Tracked' \subseteq Tracked /\ Listed' \subseteq Listed
    BY <1>1, <1>4, ShrinkTables
  <2>2. /\ \A g \in Tracked : conn'[g].who = conn[g].who
        /\ \A w \in Listed : warm'[w].who = warm[w].who
    BY <1>3, <1>4 DEF Shrink
  <2> QED BY <1>2, <2>1, <2>2 DEF ApartInv
<1>5. CASE \E d \in Descriptors, w \in Warms : Warmed(d, w)
  <2>1. PICK d \in Descriptors, w \in Warms : Warmed(d, w)
    BY <1>5
  <2>2. /\ UNCHANGED <<accounts, conn>> /\ Warmable(d) /\ Early(d) = {}
        /\ \A x \in Same(d) : Primary(warm[x].who) # Primary(d)
        /\ \A x \in Warms : x # w => Calm(warm[x], warm'[x])
        /\ warm'[w] = NewWarm(d)
    BY <2>1 DEF Warmed
  <2>3. warm'[w].who = d /\ warm'[w].listed
    BY <2>2 DEF NewWarm
  <2>4. Listed' = Listed \cup {w} /\ Tracked' = Tracked
    BY <2>2, <2>3 DEF Listed, Tracked, Calm
  <2>5. w \notin Listed
    <3>1. w \notin Begun
      BY <1>1, <2>1, NextWarm DEF Warmed
    <3> QED BY <1>1, <3>1 DEF WarmOK, Begun, Listed
  <2>6. \A x \in Listed : warm'[x].who = warm[x].who
    BY <1>3, <2>2, <2>5 DEF Calm, WarmSame
  <2>7. \A x \in Listed : Primary(warm[x].who) # Primary(d)
    BY <2>2 DEF Early
  <2>8. \A g \in Tracked : Primary(d) \notin Pool(conn[g].who)
    BY <2>2 DEF Warmable
  <2> QED BY <1>2, <2>2, <2>3, <2>4, <2>6, <2>7, <2>8 DEF ApartInv
<1>6. CASE \E c \in Clients : Create(c)
  <2>1. PICK c \in Clients : Create(c)
    BY <1>6
  <2>2. PICK d, g : d = client[c].who /\ g = 1 + Cardinality(Used)
    OBVIOUS
  <2>3. /\ Tracked' = Tracked \cup {g} /\ g \notin Tracked
        /\ \A h \in Tracked : conn'[h] = conn[h]
        /\ conn'[g].who = d
        /\ \A h \in Tracked : Pool(d) \cap Pool(conn[h].who) = {}
    BY <2>1, <2>2, CreateApart
  <2>4. /\ Listed' \subseteq Listed
        /\ \A w \in Warms : warm'[w].who = warm[w].who
        /\ \A w \in Listed' : Primary(warm[w].who) \notin Pool(d)
    BY <2>1, <2>2, CreateApart
  <2>5. \A w \in Listed : warm'[w].who = warm[w].who
    BY <1>3, <2>4
  <2>6. \A h, k \in Tracked' : Pool(conn'[h].who) \cap Pool(conn'[k].who) # {} => h = k
    BY <1>2, <2>3
  <2>7. \A w, x \in Listed' : Primary(warm'[w].who) = Primary(warm'[x].who) => w = x
    BY <1>2, <2>4, <2>5
  <2>8. \A w \in Listed', h \in Tracked' : Primary(warm'[w].who) \notin Pool(conn'[h].who)
    BY <1>2, <2>3, <2>4, <2>5
  <2> QED BY <2>6, <2>7, <2>8 DEF ApartInv
<1> QED BY <1>4, <1>5, <1>6, TableCases

\* Everything that holds an endpoint for an identity is in a table.
LEMMA HolderTracked ==
  ASSUME LeaseInv, SlotInv, NEW g \in Conns, NEW a \in Addresses,
         Holding(conn[g].slot[a])
  PROVE  /\ g \in Tracked /\ a \in Pool(conn[g].who)
         /\ conn[g].stage \notin {"start", "warming"}
<1>1. TypeOK /\ TableInv /\ SlotOK(g)
  BY DEF LeaseInv, SlotInv
<1> QED BY <1>1, TrackedIs DEF SlotOK, Live

LEMMA OwnerTracked ==
  ASSUME LeaseInv, WarmInv, SlotInv, NEW w \in Warms, Holding(warm[w].endpoint),
         w \notin Listed
  PROVE  \E g \in Conns : /\ Owns(g, w) /\ g \in Tracked
                          /\ Primary(warm[w].who) \in Pool(conn[g].who)
                          /\ Primary(warm[w].who) = Primary(conn[g].who)
                          /\ conn[g].who.id = warm[w].who.id
                          /\ conn[g].who.id # Observer
<1>1. TypeOK /\ TableInv /\ WarmOK(w)
  BY DEF LeaseInv, WarmInv
<1>2. warm[w].claimed /\ warm[w].stage # "unused" /\ warm[w].endpoint # "none"
  BY <1>1 DEF WarmOK, Listed, Holding
<1>3. PICK g \in Conns : Owns(g, w)
  BY <1>1, <1>2 DEF WarmOK
<1>4. g \in Tracked
  BY <1>1, <1>3, TrackedIs DEF Owns, Live
<1>5. SlotOK(g) /\ conn[g].warm # 0
  BY <1>3 DEF SlotInv, Owns, Warms
<1>6. Primary(conn[g].who) \in Pool(conn[g].who)
  BY <1>1, ConnFields, DescriptorFields DEF TypeOK
<1> QED BY <1>1, <1>2, <1>3, <1>4, <1>5, <1>6 DEF SlotOK, Owns, WarmOK

LEMMA AtMostOne ==
  ASSUME NEW S, \A x, y \in S : x = y
  PROVE  IsFiniteSet(S) /\ Cardinality(S) <= 1 /\ Cardinality(S) \in Nat
         /\ (S = {} => Cardinality(S) = 0)
<1>1. CASE S = {}
  BY <1>1, FS_EmptySet
<1>2. CASE S # {}
  <2>1. PICK x \in S : TRUE
    BY <1>2
  <2>2. S = {x}
    BY <2>1
  <2>3. IsFiniteSet({x}) /\ Cardinality({x}) = 1
    BY FS_Singleton
  <2> QED BY <1>2, <2>2, <2>3
<1> QED BY <1>1, <1>2

LEMMA OnePerIdentity ==
  ASSUME LeaseInv, WarmInv, SlotInv, ApartInv
  PROVE  OneEndpointPerIdentity
<1>1. SUFFICES ASSUME NEW a \in Addresses
               PROVE  EndpointsOf(a) <= 1
  BY DEF OneEndpointPerIdentity
<1> DEFINE A == {g \in Conns : Holding(conn[g].slot[a])}
           B == {w \in Warms : /\ Primary(warm[w].who) = a
                               /\ Holding(warm[w].endpoint)}
<1>2. /\ \A g, h \in Tracked : Pool(conn[g].who) \cap Pool(conn[h].who) # {} => g = h
      /\ \A w, x \in Listed : Primary(warm[w].who) = Primary(warm[x].who) => w = x
      /\ \A w \in Listed, g \in Tracked : Primary(warm[w].who) \notin Pool(conn[g].who)
  BY DEF ApartInv
<1>3. \A g \in A : /\ g \in Tracked /\ a \in Pool(conn[g].who)
                   /\ conn[g].stage \notin {"start", "warming"}
  BY HolderTracked
<1>4. \A w \in B : \/ w \in Listed
                   \/ \E g \in Conns : Owns(g, w) /\ g \in Tracked
                                       /\ a \in Pool(conn[g].who)
  BY OwnerTracked
<1>5. \A g, h \in A : g = h
  BY <1>2, <1>3
<1>6. \A w, x \in B : w = x
  <2>1. SUFFICES ASSUME NEW w \in B, NEW x \in B PROVE w = x
    OBVIOUS
  <2>2. CASE w \in Listed
    BY <1>2, <1>4, <2>2
  <2>3. CASE x \in Listed
    BY <1>2, <1>4, <2>3
  <2>4. CASE w \notin Listed /\ x \notin Listed
    <3>1. PICK g \in Tracked : Owns(g, w) /\ a \in Pool(conn[g].who)
      BY <1>4, <2>4
    <3>2. PICK h \in Tracked : Owns(h, x) /\ a \in Pool(conn[h].who)
      BY <1>4, <2>4
    <3> QED BY <1>2, <3>1, <3>2 DEF Owns
  <2> QED BY <2>2, <2>3, <2>4
<1>7. A = {} \/ B = {}
  <2>1. SUFFICES ASSUME NEW g \in A, NEW w \in B PROVE FALSE
    OBVIOUS
  <2>2. w \notin Listed
    BY <1>2, <1>3
  <2>3. PICK h \in Tracked : Owns(h, w) /\ a \in Pool(conn[h].who)
    BY <1>4, <2>2
  <2> QED BY <1>2, <1>3, <2>3 DEF Owns
<1>8. /\ Cardinality(A) \in Nat /\ Cardinality(A) <= 1
      /\ A = {} => Cardinality(A) = 0
  BY <1>5, AtMostOne
<1>9. /\ Cardinality(B) \in Nat /\ Cardinality(B) <= 1
      /\ B = {} => Cardinality(B) = 0
  BY <1>6, AtMostOne
<1>10. EndpointsOf(a) = Cardinality(A) + Cardinality(B)
  BY DEF EndpointsOf
<1> HIDE DEF A, B
<1> QED BY <1>7, <1>8, <1>9, <1>10

-----------------------------------------------------------------------------
(* The capacity of the router.                                             *)

Registered == {i \in Users : accounts[i] # 0}

LEMMA RegisteredFinite ==
  /\ IsFiniteSet(Registered) /\ Cardinality(Registered) \in Nat
  /\ IsFiniteSet(Listed) /\ Cardinality(Listed) \in Nat
  /\ IsFiniteSet(Listed') /\ Cardinality(Listed') \in Nat
  /\ IsFiniteSet(Registered') /\ Cardinality(Registered') \in Nat
<1>1. IsFiniteSet(Ids) /\ IsFiniteSet(Warms)
  BY AccountAssumption, FS_Interval DEF AccountAssumption, Warms
<1>2. Registered \in SUBSET Ids /\ Listed \in SUBSET Warms
      /\ Listed' \in SUBSET Warms /\ Registered' \in SUBSET Ids
  BY DEF Registered, Listed, Users
<1>3. /\ IsFiniteSet(Registered) /\ IsFiniteSet(Listed) /\ IsFiniteSet(Listed')
      /\ IsFiniteSet(Registered')
  BY <1>1, <1>2, FS_Subset
<1> QED BY <1>3, FS_CardinalityType

LEMMA RoomStep ==
  ASSUME LeaseInv, LeaseInv', ApartInv, WarmInv, RoomInv, [Next]_vars
  PROVE  RoomInv'
<1>1. TypeOK /\ TypeOK' /\ \A w \in Warms : WarmOK(w)
  BY DEF LeaseInv, WarmInv
<1>2. Cardinality(Registered) <= MaxAccounts /\ Cardinality(Listed) <= PrewarmCapacity
  BY DEF RoomInv, Registered
<1>3. MaxAccounts \in Nat /\ PrewarmCapacity \in Nat
  BY AccountAssumption DEF AccountAssumption
<1>4. ASSUME Registered' \subseteq Registered
      PROVE  Cardinality(Registered') <= MaxAccounts
  <2>1. Cardinality(Registered') <= Cardinality(Registered)
    BY <1>4, RegisteredFinite, FS_Subset
  <2> QED BY <1>2, <1>3, <2>1, RegisteredFinite
<1>5. ASSUME Listed' \subseteq Listed
      PROVE  Cardinality(Listed') <= PrewarmCapacity
  <2>1. Cardinality(Listed') <= Cardinality(Listed)
    BY <1>5, RegisteredFinite, FS_Subset
  <2> QED BY <1>2, <1>3, <2>1, RegisteredFinite
<1>6. SUFFICES /\ Cardinality(Registered') <= MaxAccounts
               /\ Cardinality(Listed') <= PrewarmCapacity
  BY DEF RoomInv, Registered
<1>7. CASE Shrink
  <2>1. Registered' \subseteq Registered
    BY <1>7 DEF Shrink, Registered, Users
  <2>2. Listed' \subseteq Listed
    BY <1>1, <1>7, ShrinkTables
  <2> QED BY <1>4, <1>5, <2>1, <2>2
<1>8. CASE \E d \in Descriptors, w \in Warms : Warmed(d, w)
  <2>1. PICK d \in Descriptors, w \in Warms : Warmed(d, w)
    BY <1>8
  <2>2. /\ UNCHANGED accounts /\ Cardinality(Listed) < PrewarmCapacity
        /\ \A x \in Warms : x # w => Calm(warm[x], warm'[x])
    BY <2>1 DEF Warmed
  <2>3. w \notin Listed
    <3>1. w \notin Begun
      BY <1>1, <2>1, NextWarm DEF Warmed
    <3> QED BY <1>1, <3>1 DEF WarmOK, Begun, Listed
  <2>4. Listed' \subseteq Listed \cup {w}
    BY <2>2 DEF Listed, Calm
  <2>5. /\ IsFiniteSet(Listed \cup {w})
        /\ Cardinality(Listed \cup {w}) = Cardinality(Listed) + 1
    BY <2>3, RegisteredFinite, FS_AddElement
  <2>6. Cardinality(Listed') <= Cardinality(Listed \cup {w})
    BY <2>4, <2>5, FS_Subset
  <2>7. Cardinality(Listed') <= PrewarmCapacity
    BY <1>3, <2>2, <2>5, <2>6, RegisteredFinite
  <2>8. Registered' \subseteq Registered
    BY <2>2 DEF Registered
  <2> QED BY <1>4, <2>7, <2>8
<1>9. CASE \E c \in Clients : Create(c)
  <2>1. PICK c \in Clients : Create(c)
    BY <1>9
  <2>2. PICK d, g : d = client[c].who /\ g = 1 + Cardinality(Used)
    OBVIOUS
  <2>3. Listed' \subseteq Listed
    BY <2>1, <2>2, CreateApart
  <2>4. accounts' = [accounts EXCEPT ![d.id] = g] /\ Admissible(d)
    BY <2>1, <2>2 DEF Create
  <2>5. Registered' \subseteq Registered \cup {d.id}
    BY <1>1, <2>4 DEF Registered, TypeOK, Users
  <2>6. CASE d.id = Observer
    <3>1. Registered' \subseteq Registered
      BY <2>5, <2>6 DEF Registered, Users
    <3> QED BY <1>4, <1>5, <2>3, <3>1
  <2>7. CASE d.id # Observer
    <3>1. d.id \notin Registered
      BY <2>4 DEF Registered, Admissible
    <3>2. ~(Cardinality(Registered) >= MaxAccounts)
      BY <2>4, <2>7 DEF Admissible, Crowded, Registered
    <3>3. /\ IsFiniteSet(Registered \cup {d.id})
          /\ Cardinality(Registered \cup {d.id}) = Cardinality(Registered) + 1
      BY <3>1, RegisteredFinite, FS_AddElement
    <3>4. Cardinality(Registered') <= Cardinality(Registered \cup {d.id})
      BY <2>5, <3>3, FS_Subset
    <3>5. Cardinality(Registered') <= MaxAccounts
      BY <1>3, <3>2, <3>3, <3>4, RegisteredFinite
    <3> QED BY <1>5, <2>3, <3>5
  <2> QED BY <2>6, <2>7
<1> QED BY <1>7, <1>8, <1>9, TableCases

\* The identities of the registered accounts' connections.
Pooled == {x \in Tracked \X Addresses :
             conn[x[1]].who.id \in Users /\ x[2] \in Pool(conn[x[1]].who)}

\* Where an identity is in its pool.
Place(x) == CHOOSE n \in 1..Len(conn[x[1]].who.pool) :
              conn[x[1]].who.pool[n] = x[2]

\* They are no more than the accounts have places for.
LEMMA PooledBound ==
  ASSUME LeaseInv, RoomInv
  PROVE  /\ IsFiniteSet(Pooled) /\ Cardinality(Pooled) \in Nat
         /\ Cardinality(Pooled) <= MaxAccounts * PoolSize
<1>1. TypeOK /\ TableInv
  BY DEF LeaseInv
<1>2. MaxAccounts \in Nat /\ PoolSize \in Nat
  BY AccountAssumption DEF AccountAssumption
<1> DEFINE T == Registered \X (1..PoolSize)
           f == [x \in Pooled |-> <<conn[x[1]].who.id, Place(x)>>]
<1>3. \A x \in Pooled :
        /\ x[1] \in Conns /\ Live(x[1]) /\ x[2] \in Addresses
        /\ conn[x[1]].who \in Descriptors /\ conn[x[1]].who.id \in Users
        /\ x[2] \in Pool(conn[x[1]].who) /\ x = <<x[1], x[2]>>
  BY <1>1, TrackedIs, ConnFields DEF Pooled, TypeOK
<1>4. \A x \in Pooled : /\ Place(x) \in 1..Len(conn[x[1]].who.pool)
                        /\ conn[x[1]].who.pool[Place(x)] = x[2]
  BY <1>3 DEF Place, Pool
<1>5. \A x \in Pooled : f[x] \in T
  <2>1. SUFFICES ASSUME NEW x \in Pooled
                 PROVE  conn[x[1]].who.id \in Registered /\ Place(x) \in 1..PoolSize
    OBVIOUS
  <2>2. accounts[conn[x[1]].who.id] = x[1] /\ x[1] # 0
    BY <1>1, <1>3 DEF TableInv, Conns
  <2>3. Len(conn[x[1]].who.pool) \in Nat /\ Len(conn[x[1]].who.pool) <= PoolSize
    BY <1>3, DescriptorFields
  <2>4. Place(x) \in 1..Len(conn[x[1]].who.pool)
    BY <1>4
  <2> QED BY <1>2, <1>3, <2>2, <2>3, <2>4 DEF Registered
<1>6. \A x, y \in Pooled : f[x] = f[y] => x = y
  <2>1. SUFFICES ASSUME NEW x \in Pooled, NEW y \in Pooled,
                        conn[x[1]].who.id = conn[y[1]].who.id,
                        Place(x) = Place(y)
                 PROVE  x = y
    OBVIOUS
  <2>2. x[1] = y[1]
    BY <1>1, <1>3, <2>1 DEF TableInv
  <2>3. x[2] = y[2]
    BY <1>4, <2>1, <2>2
  <2> QED BY <1>3, <2>2, <2>3
<1>7. f \in Injection(Pooled, T)
  BY <1>5, <1>6 DEF Injection, IsInjective
<1>8. IsFiniteSet(1..PoolSize) /\ Cardinality(1..PoolSize) = PoolSize
  BY <1>2, FS_Interval
<1>9. IsFiniteSet(T) /\ Cardinality(T) = Cardinality(Registered) * PoolSize
  BY <1>8, RegisteredFinite, FS_Product
<1>10. IsFiniteSet(Pooled) /\ Cardinality(Pooled) <= Cardinality(T)
  BY <1>7, <1>9, FS_Injection
<1>11. Cardinality(Registered) <= MaxAccounts
  BY DEF RoomInv, Registered
<1>12. ASSUME NEW m \in Nat, m <= MaxAccounts PROVE m * PoolSize <= MaxAccounts * PoolSize
  BY <1>2, <1>12
<1>13. Cardinality(Registered) * PoolSize <= MaxAccounts * PoolSize
  BY <1>11, <1>12, RegisteredFinite
<1>14. Cardinality(Pooled) \in Nat
  BY <1>10, FS_CardinalityType
<1>15. Cardinality(Registered) * PoolSize \in Nat /\ MaxAccounts * PoolSize \in Nat
  BY <1>2, RegisteredFinite
<1> HIDE DEF T
<1> QED BY <1>9, <1>10, <1>13, <1>14, <1>15

\* A finite set is counted in two parts.
LEMMA CountInParts ==
  ASSUME NEW B, NEW S, IsFiniteSet(B)
  PROVE  /\ Cardinality(B) = Cardinality(B \cap S) + Cardinality(B \ S)
         /\ Cardinality(B \cap S) \in Nat
         /\ Cardinality(B \ S) \in Nat
<1>1. IsFiniteSet(B \cap S) /\ IsFiniteSet(B \ S)
  BY FS_Subset
<1>2. Cardinality(B \ S) = Cardinality(B) - Cardinality(B \cap S)
  BY FS_Difference
<1>3. /\ Cardinality(B) \in Nat /\ Cardinality(B \cap S) \in Nat
      /\ Cardinality(B \ S) \in Nat
  BY <1>1, FS_CardinalityType
<1> QED BY <1>2, <1>3

LEMMA EndpointsFit ==
  ASSUME LeaseInv, WarmInv, SlotInv, RoomInv
  PROVE  EndpointsWithinCapacity
<1>1. TypeOK /\ TableInv
  BY DEF LeaseInv
<1>2. MaxAccounts \in Nat /\ PoolSize \in Nat /\ PrewarmCapacity \in Nat
  BY AccountAssumption DEF AccountAssumption
<1> DEFINE A == {x \in Conns \X Addresses :
                   conn[x[1]].who.id \in Users /\ Holding(conn[x[1]].slot[x[2]])}
           B == {w \in Warms : Holding(warm[w].endpoint)}
           L == B \cap Listed
           C == B \ Listed
           owner(w) == CHOOSE g \in Conns :
              /\ Owns(g, w) /\ g \in Tracked
              /\ Primary(warm[w].who) \in Pool(conn[g].who)
              /\ Primary(warm[w].who) = Primary(conn[g].who)
              /\ conn[g].who.id = warm[w].who.id
              /\ conn[g].who.id # Observer
           f == [w \in C |-> <<owner(w), Primary(warm[w].who)>>]
           D == Pooled \ A
<1>3. A \subseteq Pooled
  <2>1. SUFFICES ASSUME NEW g \in Conns, NEW a \in Addresses,
                        conn[g].who.id \in Users, Holding(conn[g].slot[a])
                 PROVE  g \in Tracked /\ a \in Pool(conn[g].who)
    BY DEF Pooled
  <2> QED BY <2>1, HolderTracked
<1>4. \A w \in C : LET g == owner(w)
                   IN /\ g \in Conns /\ Owns(g, w) /\ g \in Tracked
                      /\ Primary(warm[w].who) \in Pool(conn[g].who)
                      /\ conn[g].who.id # Observer
  <2>1. SUFFICES ASSUME NEW w \in C
                 PROVE LET g == owner(w)
                       IN /\ g \in Conns /\ Owns(g, w) /\ g \in Tracked
                          /\ Primary(warm[w].who) \in Pool(conn[g].who)
                          /\ conn[g].who.id # Observer
    OBVIOUS
  <2>2. \E g \in Conns : /\ Owns(g, w) /\ g \in Tracked
                         /\ Primary(warm[w].who) \in Pool(conn[g].who)
                         /\ Primary(warm[w].who) = Primary(conn[g].who)
                         /\ conn[g].who.id = warm[w].who.id
                         /\ conn[g].who.id # Observer
    BY OwnerTracked
  <2> QED BY <2>2
<1> HIDE DEF owner
<1>5. \A w \in C : f[w] \in D
  <2>1. SUFFICES ASSUME NEW w \in C
                 PROVE  <<owner(w), Primary(warm[w].who)>> \in D
    OBVIOUS
  <2>2. PICK g, a : g = owner(w) /\ a = Primary(warm[w].who)
    OBVIOUS
  <2>3. /\ g \in Conns /\ Owns(g, w) /\ g \in Tracked
        /\ a \in Pool(conn[g].who) /\ conn[g].who.id # Observer
    BY <1>4, <2>2
  <2>4. conn[g].who \in Descriptors
    BY <1>1, <2>3, ConnFields DEF TypeOK
  <2>5. a \in Addresses /\ conn[g].who.id \in Users
    BY <2>3, <2>4, DescriptorFields DEF Users
  <2>6. ~Holding(conn[g].slot[a])
    BY <2>3, <2>5, HolderTracked DEF Owns
  <2> QED BY <2>2, <2>3, <2>5, <2>6 DEF Pooled
<1>6. \A w, x \in C : f[w] = f[x] => w = x
  <2>1. SUFFICES ASSUME NEW w \in C, NEW x \in C, owner(w) = owner(x)
                 PROVE  w = x
    OBVIOUS
  <2> QED BY <1>4, <2>1 DEF Owns
<1>7. f \in Injection(C, D)
  BY <1>5, <1>6 DEF Injection, IsInjective
<1>8. /\ IsFiniteSet(Pooled) /\ Cardinality(Pooled) \in Nat
      /\ Cardinality(Pooled) <= MaxAccounts * PoolSize
  BY PooledBound
<1>9. /\ IsFiniteSet(D)
      /\ Cardinality(D) = Cardinality(Pooled) - Cardinality(Pooled \cap A)
  BY <1>8, FS_Difference
<1>10. Pooled \cap A = A
  BY <1>3
<1>11. IsFiniteSet(A) /\ Cardinality(A) \in Nat
  BY <1>3, <1>8, FS_Subset, FS_CardinalityType
<1>12. IsFiniteSet(C) /\ Cardinality(C) <= Cardinality(D)
  BY <1>7, <1>9, FS_Injection
<1>13. IsFiniteSet(L) /\ Cardinality(L) <= Cardinality(Listed)
  BY RegisteredFinite, FS_Subset
<1>14. Cardinality(Listed) <= PrewarmCapacity
  BY DEF RoomInv
<1>15. Cardinality(B) = Cardinality(L) + Cardinality(C)
  <2>1. IsFiniteSet(Warms) /\ B \subseteq Warms
    BY AccountAssumption, FS_Interval DEF AccountAssumption, Warms
  <2>2. IsFiniteSet(B)
    BY <2>1, FS_Subset
  <2> QED BY <2>2, CountInParts
<1>16. Cardinality(L) \in Nat /\ Cardinality(C) \in Nat /\ Cardinality(D) \in Nat
  BY <1>9, <1>12, <1>13, FS_CardinalityType
<1>18. DestinationCapacity - PoolSize = MaxAccounts * PoolSize + PrewarmCapacity
  <2>1. (MaxAccounts + 1) * PoolSize = MaxAccounts * PoolSize + PoolSize
    BY <1>2
  <2>2. MaxAccounts * PoolSize \in Nat
    BY <1>2
  <2> QED BY <1>2, <2>1, <2>2 DEF DestinationCapacity
<1>19. MaxAccounts * PoolSize \in Nat
  BY <1>2
<1>20. EndpointsWithinCapacity <=>
         Cardinality(A) + Cardinality(B) <= DestinationCapacity - PoolSize
  BY DEF EndpointsWithinCapacity
<1>21. Cardinality(D) = Cardinality(Pooled) - Cardinality(A)
  BY <1>9, <1>10
<1> HIDE DEF A, B, C, D, L
<1>22. Cardinality(A) + Cardinality(C) <= Cardinality(Pooled)
  BY <1>8, <1>11, <1>12, <1>16, <1>21
<1>23. PICK m \in Nat : m = MaxAccounts * PoolSize
  BY <1>19
<1>24. Cardinality(A) + Cardinality(C) <= m
  BY <1>8, <1>11, <1>16, <1>22, <1>23
<1>25. Cardinality(Listed) \in Nat
  BY RegisteredFinite
<1>26. Cardinality(L) <= PrewarmCapacity
  BY <1>2, <1>13, <1>14, <1>16, <1>25
<1>27. Cardinality(A) + Cardinality(B) <= m + PrewarmCapacity
  BY <1>2, <1>11, <1>15, <1>16, <1>24, <1>26
<1> QED BY <1>18, <1>20, <1>23, <1>27

LEMMA TableInit ==
  ASSUME Init
  PROVE  ApartInv /\ RoomInv
<1>1. PICK d \in Descriptors : d = CHOOSE x \in Descriptors : TRUE
  BY AccountAssumption DEF AccountAssumption
<1>2. /\ accounts = [i \in Ids |-> 0]
      /\ warm = [w \in Warms |-> [NewWarm(d) EXCEPT !.stage = "unused",
                                                    !.listed = FALSE]]
  BY <1>1 DEF Init
<1>3. \A w \in Warms : ~warm[w].listed
  BY <1>2 DEF NewWarm
<1>4. Tracked = {} /\ Listed = {} /\ {i \in Users : accounts[i] # 0} = {}
  BY <1>2, <1>3 DEF Tracked, Listed, Users
<1>5. ApartInv
  BY <1>4 DEF ApartInv
<1>6. Cardinality({}) = 0
  BY FS_EmptySet
<1>7. MaxAccounts \in Nat /\ PrewarmCapacity \in Nat
  BY AccountAssumption DEF AccountAssumption
<1> QED BY <1>4, <1>5, <1>6, <1>7 DEF RoomInv

\* The tables, the warmups and the endpoints agree in every reachable state:
\* what an account may hold is fixed by the descriptors the tables list, and no
\* two of them share an identity (manager.go:183-342, 443-647, prewarm.go:36-246).
THEOREM EndpointInvariant == Spec => []EndpointInv
<1>1. Init => EndpointInv
  BY LeaseInit, WarmSlotInit, TableInit DEF EndpointInv
<1>2. EndpointInv /\ LeaseInv' /\ [Next]_vars => EndpointInv'
  <2>1. SUFFICES ASSUME EndpointInv, LeaseInv', [Next]_vars
                 PROVE  EndpointInv'
    OBVIOUS
  <2>2. LeaseInv /\ WarmInv /\ SlotInv /\ ApartInv /\ RoomInv
    BY <2>1 DEF EndpointInv
  <2>3. WarmInv' /\ SlotInv'
    BY <2>1, <2>2, WarmInvStep, SlotInvStep
  <2>4. ApartInv'
    BY <2>1, <2>2, ApartStep
  <2>5. RoomInv'
    BY <2>1, <2>2, RoomStep
  <2> QED BY <2>1, <2>3, <2>4, <2>5 DEF EndpointInv
<1> QED BY <1>1, <1>2, LeaseInvariant, PTL DEF Spec

\* One I2P identity never has two endpoints at once, whatever the pools, the
\* claims, the replacements and the failures (prewarm.go:36-84, manager.go:244-282).
THEOREM IdentitiesAreExclusive == Spec => []OneEndpointPerIdentity
<1>1. EndpointInv => OneEndpointPerIdentity
  BY OnePerIdentity DEF EndpointInv
<1> QED BY <1>1, EndpointInvariant, PTL

\* The books of the manager are right, and the endpoints it admits fit the
\* router's capacity for every pool size and every limit on the accounts
\* (manager.go:258-265, 364-387, prewarm.go:56-71).
THEOREM BooksAreRight == Spec => []ManagerInv
<1>1. EndpointInv => ManagerInv
  <2>1. SUFFICES ASSUME EndpointInv PROVE ManagerInv
    OBVIOUS
  <2>2. EndpointsWithinCapacity
    BY <2>1, EndpointsFit DEF EndpointInv
  <2> QED BY <2>1, <2>2 DEF EndpointInv, LeaseInv, ManagerInv
<1> QED BY <1>1, EndpointInvariant, PTL

=============================================================================
