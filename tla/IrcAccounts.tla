---------------------------- MODULE IrcAccounts ----------------------------
(***************************************************************************)
(* The account connections of the IRC manager (internal/irc/manager.go),   *)
(* the prewarmed destinations they may take over (prewarm.go), the slots   *)
(* of their destination pools (destination_pool.go) and the embedded I2P   *)
(* router whose readiness all of them wait for (router_runtime.go).        *)
(*                                                                         *)
(* What is said on a connection (registration, joins, messages) is left    *)
(* out: a connection is "serving" until it ends.  Everything a critical    *)
(* section of Manager.mu does is one step; whatever the code does outside  *)
(* the mutex is a step of its own.                                         *)
(***************************************************************************)
EXTENDS Integers, Sequences, FiniteSets

CONSTANTS
  Clients,         \* callers of Acquire and Retain: sockets, send handlers
  Ids,             \* account numbers
  Observer,        \* account zero, the shared reader
  Addresses,       \* I2P identities
  Nicks,
  Descriptors,     \* the accounts callers may pass to Acquire and Prewarm
  MaxAccounts,     \* cfg.MaxAccounts
  PoolSize,        \* DestinationPoolSize
  PrewarmCapacity, \* prewarmCapacity
  Grace,           \* cfg.AccountIdleGrace, in ticks
  MaxConns,        \* bound: connections ever created
  MaxWarms,        \* bound: warmups ever created
  MaxCalls,        \* bound: calls of Acquire and Retain per client
  MaxChannels      \* bound: ready channels, one per start of the router

Users == Ids \ {Observer}
Conns == 1..MaxConns
Warms == 1..MaxWarms

Pool(d) == {d.pool[i] : i \in 1..Len(d.pool)}
Primary(d) == d.pool[1]

\* validateIdentityPool accepts pools of distinct identities only.
ASSUME AccountAssumption ==
  /\ IsFiniteSet(Clients) /\ IsFiniteSet(Ids) /\ IsFiniteSet(Addresses)
  /\ Observer \in Ids /\ Descriptors # {}
  /\ Descriptors \subseteq [id : Ids, nick : Nicks, pool : Seq(Addresses)]
  /\ \A d \in Descriptors :
       /\ Len(d.pool) \in 1..PoolSize
       /\ \A i, j \in 1..Len(d.pool) : d.pool[i] = d.pool[j] => i = j
  /\ MaxAccounts \in Nat /\ PoolSize \in Nat \ {0} /\ PrewarmCapacity \in Nat
  /\ Grace \in Nat /\ MaxConns \in Nat /\ MaxWarms \in Nat
  /\ MaxCalls \in Nat /\ MaxChannels \in Nat

VARIABLES
  life,      \* of the manager: "new", "running", "cancelled" or "closed"
  accounts,  \* Manager.accounts: the connection of an account, 0 if none
  conn,      \* accountConnection, by order of creation
  warm,      \* warmDestination, by order of creation
  router,    \* Manager.routerReady and the ready channel
  client,    \* what each caller is doing
  spoke      \* history: the last connection of an account to emit a status

vars == <<life, accounts, conn, warm, router, client, spoke>>

-----------------------------------------------------------------------------
(* State.                                                                  *)

Stages == {"unused", "start", "warming", "waiting", "loop", "serving",
           "leaving", "closing", "reporting", "removing", "gone"}
WarmStages == {"unused", "await", "creating", "readying", "parked", "ending",
               "closing", "unlisting", "done"}
Endpoint == {"none", "creating", "live", "failed"}

Conn == [who : Descriptors, leases : Nat, closing : BOOLEAN,
         cancelled : BOOLEAN, epoch : Nat, timer : Nat, left : Nat,
         fired : SUBSET Nat, rest : Nat, stage : Stages, warm : Nat,
         channel : Nat, selected : Nat, slot : [Addresses -> Endpoint]]

Warm == [who : Descriptors, cancelled : BOOLEAN, claimed : BOOLEAN,
         closing : BOOLEAN, listed : BOOLEAN, channel : Nat, failed : BOOLEAN,
         handed : BOOLEAN, released : BOOLEAN, stage : WarmStages,
         endpoint : Endpoint]

Caller == [pc : {"idle", "trying", "waiting", "waitingWarm", "holding"},
           who : Descriptors, on : Nat, calls : Nat]

NewConn(d, w) ==
  [who |-> d, leases |-> 0, closing |-> FALSE, cancelled |-> FALSE,
   epoch |-> 0, timer |-> 0, left |-> 0, fired |-> {}, rest |-> 0,
   stage |-> "start", warm |-> w, channel |-> 0, selected |-> 1,
   slot |-> [a \in Addresses |-> "none"]]

NewWarm(d) ==
  [who |-> d, cancelled |-> FALSE, claimed |-> FALSE, closing |-> FALSE,
   listed |-> TRUE, channel |-> router.channel, failed |-> FALSE,
   handed |-> FALSE, released |-> FALSE, stage |-> "await",
   endpoint |-> "none"]

Running == life = "running"
CtxDone == life \in {"cancelled", "closed"}

Used == {g \in Conns : conn[g].stage # "unused"}
Tracked == {accounts[i] : i \in Ids} \ {0}
Listed == {w \in Warms : warm[w].listed}
Begun == {w \in Warms : warm[w].stage # "unused"}

\* A context derived from the manager's.
Cancelled(g) == conn[g].cancelled \/ CtxDone

\* Deviation: the warmup's context is its own.
WarmCancelledAlone(w) == warm[w].cancelled

WarmCancelled(w) == warm[w].cancelled \/ CtxDone

Ready(channel) == channel \in router.opened

\* Status events are sent outside the mutex, in the order of these steps.
Speak(g) == spoke' = [spoke EXCEPT ![conn[g].who.id] = g]

-----------------------------------------------------------------------------
(* Leases.                                                                 *)

\* leaseLocked; the observer is never leased.
Leased(k) ==
  IF k.who.id = Observer THEN k
  ELSE [k EXCEPT !.leases = k.leases + 1, !.epoch = k.epoch + 1,
                 !.timer = 0, !.left = 0, !.rest = 0]

\* Deviation: the connection's context is not cancelled.
StoppedOnlyMarked(k) ==
  [k EXCEPT !.closing = TRUE, !.epoch = k.epoch + 1, !.timer = 0, !.left = 0]

\* stopAccountLocked.
Stopped(k) ==
  [k EXCEPT !.closing = TRUE, !.epoch = k.epoch + 1, !.timer = 0,
            !.left = 0, !.cancelled = TRUE]

\* Deviation: the timer remembers the epoch before the release.
ReleasedEarlierEpoch(k) ==
  IF k.leases > 1 THEN [k EXCEPT !.leases = k.leases - 1]
  ELSE [k EXCEPT !.leases = k.leases - 1, !.epoch = k.epoch + 1,
                 !.timer = k.epoch, !.left = Grace, !.rest = 0]

\* The release function under the mutex; the last one arms the idle timer.
Released(k) ==
  IF k.leases > 1 THEN [k EXCEPT !.leases = k.leases - 1]
  ELSE [k EXCEPT !.leases = k.leases - 1, !.epoch = k.epoch + 1,
                 !.timer = k.epoch + 1, !.left = Grace, !.rest = 0]

\* Deviation: a callback that lost the race for the mutex still counts.
IdleAnyEpoch(g, e) ==
  accounts[conn[g].who.id] = g /\ conn[g].leases = 0

\* The condition of the idle timer's callback.
Idle(g, e) ==
  accounts[conn[g].who.id] = g /\ conn[g].epoch = e /\ conn[g].leases = 0

Hold(c, g) ==
  client' = [client EXCEPT
    ![c].pc = IF conn'[g].who.id = Observer THEN "idle" ELSE "holding",
    ![c].on = IF conn'[g].who.id = Observer THEN 0 ELSE g]

Quit(c) == client' = [client EXCEPT ![c].pc = "idle", ![c].on = 0]

\* A caller enters Acquire, or ConnectObserver.
Call(c, d) ==
  /\ client[c].pc = "idle"
  /\ client[c].calls < MaxCalls
  /\ client' = [client EXCEPT ![c].pc = "trying", ![c].who = d,
                              ![c].calls = client[c].calls + 1]
  /\ UNCHANGED <<life, accounts, conn, warm, router, spoke>>

\* The caller's context ends, or the identities cannot be restored.
CallerGone(c) ==
  /\ client[c].pc \in {"trying", "waiting", "waitingWarm"}
  /\ Quit(c)
  /\ UNCHANGED <<life, accounts, conn, warm, router, spoke>>

\* Deviation: the capacity counts open accounts only.
CrowdedByOpen(d) ==
  /\ d.id # Observer
  /\ Cardinality({i \in Users : accounts[i] # 0
                                /\ ~conn[accounts[i]].closing}) >= MaxAccounts

\* Lines 258-265: accounts that are closing still count.
Crowded(d) ==
  /\ d.id # Observer
  /\ Cardinality({i \in Users : accounts[i] # 0}) >= MaxAccounts

\* Lines 266-271: sharedIdentity or the same nickname.
ClashesWith(d, e) == Pool(d) \cap Pool(e) # {} \/ d.nick = e.nick

Clashes(d) == \E g \in Tracked : ClashesWith(conn[g].who, d)

\* reservedDestinationsLocked.
Reserved ==
  Cardinality(Listed)
    + Cardinality({x \in Tracked \X Addresses : x[2] \in Pool(conn[x[1]].who)})

DestinationCapacity == (MaxAccounts + 1) * PoolSize + PrewarmCapacity

\* matchWarmDestinationLocked walks the warmups in any order; these make it
\* return early.
Foreign(d) ==
  {w \in Listed : warm[w].who.id # d.id /\ Primary(warm[w].who) \in Pool(d)}
Outdated(d) ==
  {w \in Listed : warm[w].who.id = d.id /\ Primary(warm[w].who) # Primary(d)}

\* Deviation: a warmup that is being discarded can still be claimed.
NoneEnding(d) == {}

Ending(d) ==
  {w \in Listed : /\ warm[w].who.id = d.id
                  /\ Primary(warm[w].who) = Primary(d)
                  /\ warm[w].closing \/ WarmCancelled(w)}

Matching(d) ==
  {w \in Listed : /\ warm[w].who.id = d.id
                  /\ Primary(warm[w].who) = Primary(d)} \ Ending(d)

\* Warmups evicted when the pool of d would not fit.
Evictable(d) ==
  IF Reserved + Len(d.pool) - Cardinality(Matching(d)) > DestinationCapacity
  THEN Listed \ Matching(d) ELSE {}

Blocking(d) ==
  IF Foreign(d) \cup Outdated(d) \cup Ending(d) # {}
  THEN Outdated(d) \cup Ending(d) ELSE Evictable(d)

\* Acquire joins the account's connection.
Join(c) ==
  LET d == client[c].who
      g == accounts[d.id]
  IN /\ client[c].pc = "trying"
     /\ Running
     /\ g # 0
     /\ ~conn[g].closing /\ ~conn[g].cancelled
     /\ conn[g].who = d
     /\ conn' = [conn EXCEPT ![g] = Leased(conn[g])]
     /\ Hold(c, g)
     /\ UNCHANGED <<life, accounts, warm, router, spoke>>

\* Acquire waits for a connection that is closing, ...
AwaitClosing(c) ==
  LET g == accounts[client[c].who.id]
  IN /\ client[c].pc = "trying"
     /\ Running
     /\ g # 0
     /\ conn[g].closing \/ conn[g].cancelled
     /\ client' = [client EXCEPT ![c].pc = "waiting", ![c].on = g]
     /\ UNCHANGED <<life, accounts, conn, warm, router, spoke>>

\* Whether matchWarmDestinationLocked cancels the warmup it waits for.
Discards(w, d) == w \notin Ending(d)

Admissible(d) == accounts[d.id] = 0 /\ ~Crowded(d) /\ ~Clashes(d)

\* ... or for a warmup it cannot use, which it cancels unless it ends anyway.
AwaitWarm(c) ==
  LET d == client[c].who
  IN /\ client[c].pc = "trying"
     /\ Running
     /\ Admissible(d)
     /\ \E w \in Blocking(d) :
          /\ client' = [client EXCEPT ![c].pc = "waitingWarm", ![c].on = w]
          /\ warm' = [warm EXCEPT ![w].cancelled =
                        warm[w].cancelled \/ Discards(w, d)]
     /\ UNCHANGED <<life, accounts, conn, router, spoke>>

\* Acquire creates the connection, and claims the account's warmup if it has
\* one: claimWarmDestinationLocked.
Create(c) ==
  LET d == client[c].who
      g == 1 + Cardinality(Used)
      match == Matching(d)
      w == IF match = {} THEN 0 ELSE CHOOSE x \in match : TRUE
  IN /\ client[c].pc = "trying"
     /\ Running
     /\ g <= MaxConns
     /\ Admissible(d)
     /\ Foreign(d) = {} /\ Blocking(d) = {}
     /\ conn' = [conn EXCEPT ![g] = Leased(NewConn(d, w))]
     /\ accounts' = [accounts EXCEPT ![d.id] = g]
     /\ warm' = [x \in Warms |-> IF x # w THEN warm[x] ELSE
                   [warm[x] EXCEPT !.claimed = TRUE, !.listed = FALSE]]
     /\ Hold(c, g)
     /\ UNCHANGED <<life, router, spoke>>

\* Acquire returns an error.
Refuse(c) ==
  LET d == client[c].who
      g == accounts[d.id]
  IN /\ client[c].pc = "trying"
     /\ \/ ~Running
        \/ g # 0 /\ ~conn[g].closing /\ ~conn[g].cancelled /\ conn[g].who # d
        \/ g = 0 /\ (Crowded(d) \/ Clashes(d) \/ Foreign(d) # {})
     /\ Quit(c)
     /\ UNCHANGED <<life, accounts, conn, warm, router, spoke>>

\* What an acquirer waits for is done: it starts over, or finds the manager's
\* context done.
WakeUp(c) ==
  /\ \/ /\ \/ client[c].pc = "waiting" /\ conn[client[c].on].stage = "gone"
           \/ client[c].pc = "waitingWarm" /\ warm[client[c].on].stage = "done"
        /\ client' = [client EXCEPT ![c].pc = "trying", ![c].on = 0]
     \/ /\ client[c].pc \in {"waiting", "waitingWarm"}
        /\ CtxDone
        /\ Quit(c)
  /\ UNCHANGED <<life, accounts, conn, warm, router, spoke>>

AcquireStep(c) ==
  \/ Join(c) \/ AwaitClosing(c) \/ AwaitWarm(c) \/ Create(c) \/ Refuse(c)
  \/ WakeUp(c)

\* Retain: only a registered account that is up.
Retain(c, i) ==
  LET g == accounts[i]
  IN /\ client[c].pc = "idle"
     /\ client[c].calls < MaxCalls
     /\ Running
     /\ i # Observer /\ g # 0
     /\ ~conn[g].closing /\ ~conn[g].cancelled
     /\ conn' = [conn EXCEPT ![g] = Leased(conn[g])]
     /\ client' = [client EXCEPT ![c].pc = "holding", ![c].on = g,
                                 ![c].calls = client[c].calls + 1]
     /\ UNCHANGED <<life, accounts, warm, router, spoke>>

\* The first call of a release function; later ones do nothing.
Release(c) ==
  LET g == client[c].on
  IN /\ client[c].pc = "holding"
     /\ Quit(c)
     /\ conn' = IF /\ accounts[conn[g].who.id] = g
                   /\ ~conn[g].closing
                   /\ life # "closed"
                THEN [conn EXCEPT ![g] = Released(conn[g])] ELSE conn
     /\ UNCHANGED <<life, accounts, warm, router, spoke>>

\* The timer fires: its callback now waits for the mutex and can no longer
\* be stopped.
TimerFires(g) ==
  /\ conn[g].timer # 0 /\ conn[g].left = 0
  /\ conn' = [conn EXCEPT ![g].fired = conn[g].fired \cup {conn[g].timer},
                          ![g].timer = 0]
  /\ UNCHANGED <<life, accounts, warm, router, client, spoke>>

IdleCallback(g) ==
  \E e \in conn[g].fired :
    LET k == [conn[g] EXCEPT !.fired = conn[g].fired \ {e}]
    IN /\ conn' = [conn EXCEPT ![g] = IF Idle(g, e) THEN Stopped(k) ELSE k]
       /\ UNCHANGED <<life, accounts, warm, router, client, spoke>>

\* A tick of the clock for the armed timer, and for the time without a lease.
Aged(k) ==
  [k EXCEPT !.left = IF k.left > 0 THEN k.left - 1 ELSE 0,
            !.rest = IF k.leases = 0 /\ k.rest < Grace THEN k.rest + 1
                                                       ELSE k.rest]

Tick ==
  /\ conn' = [g \in Conns |->
                IF g \in Used /\ conn[g].who.id # Observer /\ ~conn[g].closing
                THEN Aged(conn[g]) ELSE conn[g]]
  /\ conn' # conn
  /\ UNCHANGED <<life, accounts, warm, router, client, spoke>>

-----------------------------------------------------------------------------
(* Warmups.                                                                *)

\* Prewarm's loop over the warmups, in any order, returns early at one of
\* these; those of the same account it has passed by then are cancelled.
Same(d) == {w \in Listed : warm[w].who.id = d.id}
Early(d) ==
  (Same(d) \cap Matching(d))
    \cup {w \in Listed \ Same(d) : Primary(warm[w].who) = Primary(d)}

CancelWarms(S) ==
  [w \in Warms |-> IF w \in S THEN [warm[w] EXCEPT !.cancelled = TRUE]
                              ELSE warm[w]]

\* The account has no connection and no other one uses the identity.
Warmable(d) ==
  /\ accounts[d.id] = 0
  /\ \A g \in Tracked : Primary(d) \notin Pool(conn[g].who)

\* Prewarm replaces the warmups of other identities of the account and may
\* find no room for the new one.
Prewarm(d) ==
  LET w == 1 + Cardinality(Begun)
      room == /\ Cardinality(Listed) < PrewarmCapacity
              /\ \A x \in Same(d) : Primary(warm[x].who) # Primary(d)
              /\ Reserved < DestinationCapacity
  IN /\ Running
     /\ d.id # Observer
     /\ Warmable(d)
     /\ \/ /\ Early(d) = {} /\ room
           /\ w <= MaxWarms
           /\ warm' = [CancelWarms(Same(d)) EXCEPT ![w] = NewWarm(d)]
        \/ /\ Early(d) = {} /\ ~room
           /\ warm' = CancelWarms(Same(d))
           /\ warm' # warm
        \/ /\ Early(d) # {}
           /\ \E S \in SUBSET (Same(d) \ Early(d)) : warm' = CancelWarms(S)
           /\ warm' # warm
     /\ UNCHANGED <<life, accounts, conn, router, client, spoke>>

\* The context Prewarm was called with ends; it may be too late to undo a
\* claim made at the same time.
WarmCallerGone(w) ==
  /\ warm[w].stage \notin {"unused", "done"}
  /\ ~warm[w].cancelled
  /\ warm' = CancelWarms({w})
  /\ UNCHANGED <<life, accounts, conn, router, client, spoke>>

Move(w, stage, failed) ==
  warm' = [warm EXCEPT ![w].stage = stage,
                       ![w].failed = warm[w].failed \/ failed]

\* runPrewarm, line by line; a select whose two cases are ready takes either.
WarmRun(w) ==
  /\ \/ /\ warm[w].stage \in {"await", "parked"}
        /\ WarmCancelled(w)
        /\ Move(w, "ending", TRUE)
     \/ /\ warm[w].stage = "await"
        /\ Ready(warm[w].channel)
        /\ warm' = [warm EXCEPT ![w].stage = "creating",
                                ![w].endpoint = "creating"]
     \/ /\ warm[w].stage = "creating"
        /\ \/ /\ router.ready
              /\ warm' = [warm EXCEPT ![w].stage = "readying",
                                      ![w].endpoint = "live"]
           \/ warm' = [warm EXCEPT ![w].stage = "ending", ![w].failed = TRUE,
                                   ![w].endpoint = "none"]
     \/ /\ warm[w].stage = "readying"
        /\ Move(w, "parked", FALSE) \/ Move(w, "ending", TRUE)
     \/ /\ warm[w].stage = "parked"
        /\ warm[w].claimed
        /\ Move(w, "ending", FALSE)
  /\ UNCHANGED <<life, accounts, conn, router, client, spoke>>

\* Deviation: the table forgets the warmup before its endpoint is closed.
UnlistedEarly(w) == FALSE

\* Whether the first critical section of finishPrewarm keeps it in the table.
StillListed(w) == warm[w].listed

\* finishPrewarm: it closes the door to claims under the mutex, ...
WarmClose(w) ==
  /\ warm[w].stage = "ending"
  /\ warm' = [warm EXCEPT ![w].stage = "closing", ![w].closing = TRUE,
                          ![w].handed = warm[w].claimed,
                          ![w].listed = StillListed(w)]
  /\ UNCHANGED <<life, accounts, conn, router, client, spoke>>

\* ... drops what nobody claimed outside of it, ...
WarmDrop(w) ==
  LET keep == warm[w].handed /\ ~warm[w].failed
  IN /\ warm[w].stage = "closing"
     /\ warm' = [warm EXCEPT ![w].stage = "unlisting", ![w].cancelled = TRUE,
                             ![w].endpoint = IF keep THEN warm[w].endpoint
                                                     ELSE "none",
                             ![w].released = ~warm[w].handed]
     /\ UNCHANGED <<life, accounts, conn, router, client, spoke>>

\* ... and leaves the table.
WarmUnlist(w) ==
  /\ warm[w].stage = "unlisting"
  /\ warm' = [warm EXCEPT ![w].stage = "done", ![w].listed = FALSE]
  /\ UNCHANGED <<life, accounts, conn, router, client, spoke>>

WarmStep(w) == WarmRun(w) \/ WarmClose(w) \/ WarmDrop(w) \/ WarmUnlist(w)

-----------------------------------------------------------------------------
(* The worker of a connection: runAccount and finishAccount.               *)

Enter(g, stage) == conn' = [conn EXCEPT ![g].stage = stage]

WorkerStarts(g) ==
  /\ conn[g].stage = "start"
  /\ conn' = [conn EXCEPT ![g].stage = IF conn[g].warm # 0 THEN "warming"
                                                           ELSE "waiting",
                          ![g].channel = router.channel]
  /\ Speak(g)
  /\ UNCHANGED <<life, accounts, warm, router, client>>

\* context.AfterFunc: the end of the connection ends its warmup.
WarmingCancelled(g) ==
  LET w == conn[g].warm
  IN /\ conn[g].stage = "warming"
     /\ Cancelled(g)
     /\ ~warm[w].cancelled
     /\ warm' = CancelWarms({w})
     /\ UNCHANGED <<life, accounts, conn, router, client, spoke>>

TakeWarm(g) ==
  LET w == conn[g].warm
  IN /\ conn[g].stage = "warming"
     /\ warm[w].stage = "done"
     /\ conn' = [conn EXCEPT ![g].slot[Primary(conn[g].who)] = warm[w].endpoint,
                             ![g].warm = 0, ![g].stage = "waiting",
                             ![g].channel = router.channel]
     /\ warm' = [warm EXCEPT ![w].endpoint = "none"]
     /\ Speak(g)
     /\ UNCHANGED <<life, accounts, router, client>>

\* All slots that have no endpoint are created at once.
StartSlots(g) ==
  /\ conn[g].stage = "waiting"
  /\ Ready(conn[g].channel)
  /\ conn' = [conn EXCEPT ![g].stage = "loop",
       ![g].slot = [a \in Addresses |->
          IF a \in Pool(conn[g].who) /\ conn[g].slot[a] = "none"
          THEN "creating" ELSE conn[g].slot[a]]]
  /\ Speak(g)
  /\ UNCHANGED <<life, accounts, warm, router, client>>

\* createDestination returns, with an endpoint only if there is a router.
SlotCreated(g, a) ==
  /\ conn[g].slot[a] = "creating"
  /\ \/ /\ router.ready
        /\ conn' = [conn EXCEPT ![g].slot[a] = "live"]
     \/ conn' = [conn EXCEPT ![g].slot[a] = "failed"]
  /\ UNCHANGED <<life, accounts, warm, router, client, spoke>>

Selected(g) == conn[g].who.pool[conn[g].selected]

\* Round robin.
Following(g) == 1 + (conn[g].selected % Len(conn[g].who.pool))

\* An attempt fails: the endpoint may be replaced, and the next slot is tried.
NextSlot(g, endpoint) ==
  /\ conn' = [conn EXCEPT
       ![g].stage = "loop",
       ![g].slot[Selected(g)] = endpoint,
       ![g].selected = Following(g)]
  /\ Speak(g)
  /\ UNCHANGED <<life, accounts, warm, router, client>>

\* The loop of runAccount.  A slot without an endpoint is created first.
Attempt(g) ==
  /\ conn[g].stage = "loop"
  /\ ~Cancelled(g)
  /\ \/ /\ conn[g].slot[Selected(g)] = "none"
        /\ conn' = [conn EXCEPT ![g].slot[Selected(g)] = "creating"]
        /\ Speak(g)
        /\ UNCHANGED <<life, accounts, warm, router, client>>
     \/ /\ conn[g].slot[Selected(g)] = "failed"
        /\ NextSlot(g, "none")
     \/ /\ conn[g].slot[Selected(g)] = "live"
        /\ \/ \E endpoint \in {"live", "none"} : NextSlot(g, endpoint)
           \/ /\ Enter(g, "serving")
              /\ Speak(g)
              /\ UNCHANGED <<life, accounts, warm, router, client>>

\* serveConnection returns, and must when the connection's context is done.
SessionEnds(g) ==
  /\ conn[g].stage = "serving"
  /\ ~Cancelled(g)
  /\ \E endpoint \in {"live", "none"} : NextSlot(g, endpoint)

\* Every select of runAccount watches the context; the loop and the session
\* end with it.
WorkerLeaves(g) ==
  /\ conn[g].stage \in {"waiting", "loop", "serving"}
  /\ Cancelled(g)
  /\ Enter(g, "leaving")
  /\ UNCHANGED <<life, accounts, warm, router, client, spoke>>

\* creating.Wait, deferred.
Created(g) == \A a \in Addresses : conn[g].slot[a] # "creating"

\* Deviation: the account leaves the table before its "stopped" event.
RemovedAtOnce(g) ==
  /\ conn[g].stage = "leaving"
  /\ Created(g)
  /\ conn' = [conn EXCEPT ![g] = [Stopped(conn[g]) EXCEPT !.stage = "closing"]]
  /\ accounts' = [accounts EXCEPT ![conn[g].who.id] = 0]
  /\ UNCHANGED <<life, warm, router, client, spoke>>

\* finishAccount: under the mutex, ...
FinishStops(g) ==
  /\ conn[g].stage = "leaving"
  /\ Created(g)
  /\ conn' = [conn EXCEPT ![g] = [Stopped(conn[g]) EXCEPT !.stage = "closing"]]
  /\ UNCHANGED <<life, accounts, warm, router, client, spoke>>

\* ... then without it: the endpoints, ...
FinishCloses(g) ==
  /\ conn[g].stage = "closing"
  /\ conn' = [conn EXCEPT ![g].stage = "reporting",
                          ![g].slot = [a \in Addresses |->
                             IF conn[g].slot[a] = "creating" THEN "creating"
                                                             ELSE "none"]]
  /\ UNCHANGED <<life, accounts, warm, router, client, spoke>>

\* ... the "stopped" event, before a replacement can publish its status, ...
FinishReports(g) ==
  /\ conn[g].stage = "reporting"
  /\ Enter(g, "removing")
  /\ Speak(g)
  /\ UNCHANGED <<life, accounts, warm, router, client>>

\* ... and the account's slot, again under the mutex.
FinishRemoves(g) ==
  LET i == conn[g].who.id
  IN /\ conn[g].stage = "removing"
     /\ Enter(g, "gone")
     /\ accounts' = IF accounts[i] = g THEN [accounts EXCEPT ![i] = 0]
                                       ELSE accounts
     /\ UNCHANGED <<life, warm, router, client, spoke>>

WorkerStep(g) ==
  \/ WorkerStarts(g) \/ WarmingCancelled(g) \/ TakeWarm(g) \/ StartSlots(g)
  \/ Attempt(g) \/ WorkerLeaves(g)
  \/ FinishStops(g) \/ FinishCloses(g) \/ FinishReports(g) \/ FinishRemoves(g)
  \/ \E a \in Addresses : SlotCreated(g, a)

-----------------------------------------------------------------------------
(* The router and the manager as a whole.                                  *)

StopAll ==
  [g \in Conns |-> IF g \in Tracked THEN Stopped(conn[g]) ELSE conn[g]]

Start ==
  /\ life = "new"
  /\ life' = "running"
  /\ router' = [router EXCEPT !.stage = "starting"]
  /\ UNCHANGED <<accounts, conn, warm, client, spoke>>

RouterReady ==
  /\ router.stage = "starting"
  /\ Running
  /\ router' = [router EXCEPT !.stage = "up", !.ready = TRUE,
                              !.opened = router.opened \cup {router.channel}]
  /\ UNCHANGED <<life, accounts, conn, warm, client, spoke>>

\* Deviation: a router that fails before it was ready gets a new channel too.
ReplacesAlways == TRUE

\* Waiters of a channel that was never closed keep waiting for it.
Replaces == router.ready

\* closeRuntime: the channel and the unclaimed warmups of a router that was
\* ready are discarded with it; a new one starts when these are done.
RouterFails ==
  /\ router.stage \in {"starting", "up"}
  /\ Running
  /\ router.channel < MaxChannels
  /\ router' = [router EXCEPT
       !.stage = "draining", !.ready = FALSE,
       !.channel = IF Replaces THEN router.channel + 1 ELSE router.channel,
       !.drain = IF router.ready THEN Listed ELSE {}]
  /\ warm' = IF router.ready THEN CancelWarms(Listed) ELSE warm
  /\ UNCHANGED <<life, accounts, conn, client, spoke>>

RouterDrained ==
  /\ router.stage = "draining"
  /\ \A w \in router.drain : warm[w].stage = "done"
  /\ router' = [router EXCEPT !.stage = "starting", !.drain = {}]
  /\ UNCHANGED <<life, accounts, conn, warm, client, spoke>>

\* The deferred part of runRouter.
RouterStops ==
  /\ router.stage \in {"starting", "up"}
  /\ CtxDone
  /\ router' = [router EXCEPT !.stage = "stopping", !.ready = FALSE]
  /\ conn' = StopAll
  /\ UNCHANGED <<life, accounts, warm, client, spoke>>

RouterStopped ==
  /\ router.stage = "stopping"
  /\ \A g \in Used : conn[g].stage = "gone"
  /\ router' = [router EXCEPT !.stage = "stopped"]
  /\ UNCHANGED <<life, accounts, conn, warm, client, spoke>>

RouterStep == RouterReady \/ RouterDrained \/ RouterStops \/ RouterStopped

\* The context the manager was started with ends.
Cancel ==
  /\ life = "running"
  /\ life' = "cancelled"
  /\ UNCHANGED <<accounts, conn, warm, router, client, spoke>>

Close ==
  /\ life # "closed"
  /\ life' = "closed"
  /\ conn' = StopAll
  /\ UNCHANGED <<accounts, warm, router, client, spoke>>

-----------------------------------------------------------------------------
Init ==
  LET d == CHOOSE d \in Descriptors : TRUE
  IN /\ life = "new"
     /\ accounts = [i \in Ids |-> 0]
     /\ router = [stage |-> "off", ready |-> FALSE, channel |-> 1,
                  opened |-> {}, drain |-> {}]
     /\ conn = [g \in Conns |-> [NewConn(d, 0) EXCEPT !.stage = "unused"]]
     /\ warm = [w \in Warms |-> [NewWarm(d) EXCEPT !.stage = "unused",
                                                   !.listed = FALSE]]
     /\ client = [c \in Clients |-> [pc |-> "idle", who |-> d, on |-> 0,
                                     calls |-> 0]]
     /\ spoke = [i \in Ids |-> 0]

Next ==
  \/ \E c \in Clients :
       \/ \E d \in Descriptors : Call(c, d)
       \/ \E i \in Ids : Retain(c, i)
       \/ AcquireStep(c) \/ CallerGone(c) \/ Release(c)
  \/ \E d \in Descriptors : Prewarm(d)
  \/ \E g \in Conns : TimerFires(g) \/ IdleCallback(g)
                        \/ WorkerStep(g) \/ SessionEnds(g)
  \/ \E w \in Warms : WarmCallerGone(w) \/ WarmStep(w)
  \/ RouterStep \/ RouterFails
  \/ Start \/ Cancel \/ Close \/ Tick

Spec == Init /\ [][Next]_vars

\* Goroutines run, calls into the I2P library return, timers fire, and a
\* router is ready again some time after it failed.
Fairness ==
  /\ \A c \in Clients : WF_vars(AcquireStep(c))
  /\ \A g \in Conns : /\ WF_vars(WorkerStep(g))
                      /\ WF_vars(TimerFires(g)) /\ WF_vars(IdleCallback(g))
  /\ \A w \in Warms : WF_vars(WarmStep(w))
  /\ WF_vars(RouterStep)
  /\ WF_vars(Tick)

FairSpec == Spec /\ Fairness

-----------------------------------------------------------------------------
(* Properties.                                                             *)

\* Types.
TypeOK ==
  /\ life \in {"new", "running", "cancelled", "closed"}
  /\ accounts \in [Ids -> {0} \cup Conns]
  /\ conn \in [Conns -> Conn]
  /\ \A g \in Conns : conn[g].selected \in 1..Len(conn[g].who.pool)
                        /\ conn[g].warm \in {0} \cup Warms
  /\ warm \in [Warms -> Warm]
  /\ router \in [stage : {"off", "starting", "up", "draining", "stopping",
                          "stopped"},
                 ready : BOOLEAN, channel : Nat, opened : SUBSET Nat,
                 drain : SUBSET Warms]
  /\ client \in [Clients -> Caller]
  /\ spoke \in [Ids -> {0} \cup Conns]

Holders(g) == {c \in Clients : client[c].pc = "holding" /\ client[c].on = g}

\* The lease count of a connection that is up is the number of callers that
\* have not released it: no release is lost or counted twice, whatever joins,
\* expiries and replacements happen around it.
LeasesCounted ==
  \A g \in Tracked : ~conn[g].closing /\ conn[g].who.id # Observer =>
    conn[g].leases = Cardinality(Holders(g))

\* Nobody but the end of the manager stops the connection of the shared reader,
\* one that a caller holds, or one that was not without leases for the whole
\* grace period, even when an older timer fired while it was leased again
\* (manager.go:197-208, 380-387).
StopsJustified ==
  [][\A g \in Used : conn'[g].closing /\ ~conn[g].closing =>
       \/ CtxDone'
       \/ /\ conn[g].who.id # Observer
          /\ Holders(g) = {} /\ conn[g].rest = Grace]_vars

Holding(slot) == slot \in {"creating", "live"}

EndpointsOf(a) ==
  Cardinality({g \in Conns : Holding(conn[g].slot[a])})
    + Cardinality({w \in Warms : /\ Primary(warm[w].who) = a
                                 /\ Holding(warm[w].endpoint)})

\* No identity is ever published by two endpoints at a time: not by a warmup
\* and a connection, nor by a closing connection and its replacement.
OneEndpointPerIdentity == \A a \in Addresses : EndpointsOf(a) <= 1

\* The registered accounts and the warmups leave room for the reader's pool:
\* their endpoints, the ones being discarded included, fit the capacity the
\* router was opened with (README.md:147).
EndpointsWithinCapacity ==
  Cardinality({x \in Conns \X Addresses :
                 conn[x[1]].who.id \in Users /\ Holding(conn[x[1]].slot[x[2]])})
    + Cardinality({w \in Warms : Holding(warm[w].endpoint)})
    <= DestinationCapacity - PoolSize

\* The books of the manager are right: the leases it counts are the leases that
\* callers hold, and the endpoints it admits fit the router, through every
\* expiry, claim, late release and replacement (manager.go:258-265, 364-387).
ManagerInv == TypeOK /\ LeasesCounted /\ EndpointsWithinCapacity

\* What a warmup made has one owner at any time: every endpoint has a worker
\* that will close it, the warmup hands its own over once and a connection
\* leaves none behind; and the private keys of a claimed warmup are the
\* connection's, even when the claim and the warmup's end coincide.
HandedOver ==
  /\ \A g \in Conns : conn[g].stage \in {"reporting", "removing", "gone"} =>
       \A a \in Addresses : ~Holding(conn[g].slot[a])
  /\ \A w \in Warms : warm[w].stage = "done" /\ Holding(warm[w].endpoint) =>
       \E g \in Conns : conn[g].warm = w /\ conn[g].stage \in {"start", "warming"}
  /\ \A w \in Warms : warm[w].claimed => ~warm[w].released

\* Nobody waits for a readiness channel that no router will ever close.
ChannelsReachable ==
  LET reachable(channel) == Ready(channel) \/ channel = router.channel
  IN /\ \A g \in Conns : conn[g].stage = "waiting" => reachable(conn[g].channel)
     /\ \A w \in Warms : warm[w].stage = "await" => reachable(warm[w].channel)

\* The statuses of an account's connections reach the server in the order of
\* the connections: "stopped" never overwrites the status of a replacement.
StatusInOrder == [][\A i \in Ids : spoke'[i] >= spoke[i]]_vars

\* An Acquire that waits for a closing connection or for a warmup returns.
AcquireReturns ==
  \A c \in Clients : client[c].pc # "idle" ~> client[c].pc \in {"idle", "holding"}

\* An account nobody leases is stopped, or leased again.
UnleasedStops ==
  \A g \in Conns :
    g \in Tracked /\ conn[g].who.id # Observer /\ conn[g].leases = 0
      ~> conn[g].leases > 0 \/ g \notin Tracked

\* Close returns: every worker ends, and no endpoint is left.
CloseCompletes ==
  life = "closed" ~> /\ router.stage \in {"off", "stopped"}
                     /\ \A g \in Used : conn[g].stage = "gone"
                     /\ \A w \in Begun : /\ warm[w].stage = "done"
                                         /\ ~Holding(warm[w].endpoint)

-----------------------------------------------------------------------------
(* What the proofs rest on.                                                *)

Live(g) == conn[g].stage \notin {"unused", "gone"}
Owns(g, w) == conn[g].warm = w /\ conn[g].stage \in {"start", "warming"}

\* Connections are created in order, the table holds those that are live, and a
\* worker that waits for a warmup has one.
TableInv ==
  /\ \E n \in 0..MaxConns : Used = 1..n
  /\ \A i \in Ids : accounts[i] # 0 =>
       conn[accounts[i]].who.id = i /\ Live(accounts[i])
  /\ \A g \in Conns : Live(g) => accounts[conn[g].who.id] = g
  /\ \A g \in Conns : conn[g].stage = "warming" => conn[g].warm # 0

\* Only the latest connection of an account has spoken last.
SpokenInv ==
  \A i \in Ids : /\ spoke[i] = 0 \/ spoke[i] \in Used
                 /\ accounts[i] # 0 => spoke[i] <= accounts[i]

\* A worker only leaves after a stop, a closed manager has stopped everything,
\* and the reader is never leased.
StopInv ==
  /\ \A c \in Clients : client[c].pc = "holding" =>
       client[c].on \in Used /\ conn[client[c].on].who.id # Observer
  /\ \A g \in Conns :
       /\ conn[g].cancelled => conn[g].closing
       /\ conn[g].stage = "leaving" => conn[g].closing \/ CtxDone
       /\ conn[g].stage \in {"closing", "reporting", "removing", "gone"} =>
            conn[g].closing
       /\ life = "closed" => conn[g].closing \/ conn[g].stage = "unused"
       /\ conn[g].who.id = Observer => conn[g].timer = 0 /\ conn[g].fired = {}

\* An armed timer, or a callback that may still stop its connection, belongs to
\* the time since the last lease ended.
TimerInv ==
  \A g \in Used : ~conn[g].closing =>
    /\ conn[g].timer # 0 => /\ conn[g].timer = conn[g].epoch
                            /\ conn[g].leases = 0
                            /\ conn[g].rest + conn[g].left = Grace
    /\ \A e \in conn[g].fired : e <= conn[g].epoch
    /\ conn[g].epoch \in conn[g].fired =>
         conn[g].leases = 0 /\ conn[g].rest = Grace

LeaseInv == TypeOK /\ TableInv /\ SpokenInv /\ StopInv /\ TimerInv /\ LeasesCounted

ChannelInv ==
  /\ router.ready => router.channel \in router.opened
  /\ ChannelsReachable

\* The life of a warmup: it is listed until it is claimed or done, claimed
\* before it is closed, and what it made goes to the connection that claimed it.
WarmOK(w) ==
  /\ warm[w].listed => /\ warm[w].stage \notin {"unused", "done"}
                       /\ ~warm[w].claimed
  /\ warm[w].stage \notin {"unused", "done"} => warm[w].listed \/ warm[w].claimed
  /\ warm[w].stage = "unused" => ~warm[w].claimed
  /\ warm[w].stage \in {"unused", "await"} => warm[w].endpoint = "none"
  /\ warm[w].stage \in {"closing", "unlisting", "done"} =>
       warm[w].closing /\ (warm[w].handed <=> warm[w].claimed)
  /\ warm[w].stage \in {"unlisting", "done"} /\ Holding(warm[w].endpoint) =>
       warm[w].claimed
  /\ warm[w].released => /\ warm[w].stage \in {"unlisting", "done"}
                         /\ ~warm[w].handed
  /\ warm[w].claimed => \/ \E g \in Conns : Owns(g, w)
                        \/ warm[w].stage = "done" /\ warm[w].endpoint = "none"
  /\ warm[w].stage # "unused" => warm[w].who.id # Observer

WarmInv ==
  /\ \E n \in 0..MaxWarms : Begun = 1..n
  /\ \A w \in Warms : WarmOK(w)

\* The endpoints of a connection belong to its pool and to its live worker, and
\* its warmup has its account and its first identity.
SlotOK(g) ==
  /\ conn[g].warm # 0 => /\ conn[g].stage \in {"start", "warming"}
                         /\ warm[conn[g].warm].claimed
                         /\ warm[conn[g].warm].who.id = conn[g].who.id
                         /\ Primary(warm[conn[g].warm].who) = Primary(conn[g].who)
  /\ \A a \in Addresses : Holding(conn[g].slot[a]) =>
       /\ a \in Pool(conn[g].who)
       /\ conn[g].stage \in {"waiting", "loop", "serving", "leaving", "closing"}
       /\ conn[g].stage = "closing" => conn[g].slot[a] = "live"

SlotInv == \A g \in Conns : SlotOK(g)

\* No two entries of the tables share an identity.
ApartInv ==
  /\ \A g, h \in Tracked : Pool(conn[g].who) \cap Pool(conn[h].who) # {} => g = h
  /\ \A w, x \in Listed : Primary(warm[w].who) = Primary(warm[x].who) => w = x
  /\ \A w \in Listed, g \in Tracked : Primary(warm[w].who) \notin Pool(conn[g].who)

RoomInv ==
  /\ Cardinality({i \in Users : accounts[i] # 0}) <= MaxAccounts
  /\ Cardinality(Listed) <= PrewarmCapacity

EndpointInv == LeaseInv /\ WarmInv /\ SlotInv /\ ApartInv /\ RoomInv

=============================================================================
