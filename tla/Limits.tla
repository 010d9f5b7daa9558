------------------------------ MODULE Limits ------------------------------
(***************************************************************************)
(* The request limiter of security.go: token buckets by key, in a table of *)
(* bounded size that forgets idle buckets.  A caller reads the clock first *)
(* and takes the mutex later, so that calls reach the table with stamps    *)
(* that are old and out of order.                                          *)
(*                                                                         *)
(* The unit of time is the time in which a bucket gains one unit, and a    *)
(* request costs Cost units: perMinute requests per minute are one request *)
(* per Cost ticks, and an empty bucket is full again after full ticks,     *)
(* which is more than a minute when the burst exceeds the requests per     *)
(* minute.                                                                 *)
(***************************************************************************)
EXTENDS Integers, FiniteSets

CONSTANTS
  Keys,                     \* client addresses or accounts
  Callers,                  \* goroutines that serve requests
  Cost,                     \* ticks in which a bucket gains one request
  Fulls,                    \* burst * Cost of the limiters there are
  Minute,                   \* perMinute * Cost: the time between sweeps
  TableSize,                \* 4096 buckets
  Lag,                      \* longest time between the clock and the mutex
  MaxTime

ASSUME CostAssumption == Cost \in Nat \ {0}
ASSUME FullAssumption == Fulls \subseteq Nat
ASSUME TimeAssumption == Minute \in Nat /\ MaxTime \in Nat /\ Lag \in Nat
ASSUME TableAssumption == TableSize \in Nat

VARIABLES
  full,                     \* what a full bucket of this limiter holds
  now,
  stamp,                    \* what a caller read from the clock, or none
  table,                    \* the keys that have a bucket
  bucket,                   \* tokens and time of the last request
  nextSweep,
  spent,                    \* history: units a key was admitted for since a time
  lapses,                   \* history: how often it was forgotten with these
  refused                   \* history: the last call found the table full

limiterVars ==
  <<full, now, stamp, table, bucket, nextSweep, spent, lapses, refused>>

Times == 0 .. MaxTime
NoStamp == -1

Least(a, b) == IF a <= b THEN a ELSE b
Most(a, b) == IF a >= b THEN a ELSE b

\* Deviation: a minute is enough.
IdleMinute == Minute

\* The age at which a sweep forgets a bucket: no less than a full one takes.
Idle == Most(Minute, full)

\* Deviation: the sweep never forgets a bucket.
SweptNever(at) == table

\* requestLimiter.allow, the sweep: what is left of the table.
Swept(at) == IF at < nextSweep THEN table
             ELSE {k \in table : at - bucket[k].updated < Idle}

\* tokenBucket.allow before the request is paid: a new bucket is full.
Level(k, kept, at) ==
  IF k \in kept THEN Least(full, bucket[k].tokens + (at - bucket[k].updated))
                ELSE full

Admits(k, kept, at) == Level(k, kept, at) >= Cost

\* time.Now() at the call site.
ReadClock(c) ==
  /\ stamp[c] = NoStamp
  /\ stamp' = [stamp EXCEPT ![c] = now]
  /\ UNCHANGED <<full, now, table, bucket, nextSweep, spent, lapses, refused>>

\* requestLimiter.allow, under its mutex, for the caller's key.
Allow(c, k) ==
  LET at == stamp[c]
      kept == Swept(at)
      pays == Admits(k, kept, at)
      level == Level(k, kept, at)
  IN /\ at # NoStamp
     /\ stamp' = [stamp EXCEPT ![c] = NoStamp]
     /\ nextSweep' = IF at < nextSweep THEN nextSweep ELSE at + Minute
     /\ lapses' = [i \in Keys |-> [s \in Times |->
                     IF i \in table \ kept /\ spent[i][s] > 0
                     THEN lapses[i][s] + 1 ELSE lapses[i][s]]]
     /\ \/ /\ k \notin kept /\ Cardinality(kept) >= TableSize
           /\ table' = kept
           /\ refused' = TRUE
           /\ UNCHANGED <<bucket, spent>>
        \/ /\ k \in kept \/ Cardinality(kept) < TableSize
           /\ table' = kept \cup {k}
           /\ bucket' = [bucket EXCEPT ![k] =
                           [tokens |-> IF pays THEN level - Cost ELSE level,
                            updated |-> at]]
           /\ spent' = [spent EXCEPT ![k] =
                          [s \in Times |-> IF pays /\ s <= now
                                           THEN @[s] + Cost ELSE @[s]]]
           /\ refused' = FALSE
     /\ UNCHANGED <<full, now>>

\* Nobody takes longer than Lag from the clock to the table.
Tick ==
  /\ now < MaxTime
  /\ \A c \in Callers : stamp[c] = NoStamp \/ now < stamp[c] + Lag
  /\ now' = now + 1
  /\ UNCHANGED <<full, stamp, table, bucket, nextSweep, spent, lapses, refused>>

LimiterInit ==
  /\ full \in Fulls
  /\ now = 0
  /\ stamp = [c \in Callers |-> NoStamp]
  /\ table = {}
  /\ bucket = [k \in Keys |-> [tokens |-> 0, updated |-> 0]]
  /\ nextSweep = 0
  /\ spent = [k \in Keys |-> [s \in Times |-> 0]]
  /\ lapses = [k \in Keys |-> [s \in Times |-> 0]]
  /\ refused = FALSE

LimiterNext ==
  \/ \E c \in Callers : ReadClock(c)
  \/ \E c \in Callers, k \in Keys : Allow(c, k)
  \/ Tick

LimiterSpec == LimiterInit /\ [][LimiterNext]_limiterVars

-----------------------------------------------------------------------------
(* Properties.                                                             *)

LimiterTypeOK ==
  /\ full \in Fulls
  /\ now \in Times
  /\ stamp \in [Callers -> Times \cup {NoStamp}]
  /\ table \subseteq Keys
  /\ bucket \in [Keys -> [tokens : Int, updated : Times]]
  /\ nextSweep \in Nat
  /\ spent \in [Keys -> [Times -> Nat]]
  /\ lapses \in [Keys -> [Times -> Nat]]
  /\ refused \in BOOLEAN

\* The time after which a bucket is full again and swept: what forgetting it
\* may cost is how far this falls short of a full bucket and twice the lag,
\* nothing with the rates of the defaults.
Recovery == Most(Minute, full)
Excess == Most(0, full + 2 * Lag - Recovery)

\* Whatever is swept, refused for want of room, or reaches the table late and
\* out of order, and whatever the rate: in the time from s to now a key is
\* admitted no more than a burst, the refill of that time and the lag of the
\* clock.  A sweep adds no more than the excess, and not more often than once
\* in the time a bucket takes to recover.
LimitKept ==
  \A k \in Keys, s \in Times :
    s <= now =>
      /\ spent[k][s] <= full + (now - s) + Lag + lapses[k][s] * Excess
      /\ lapses[k][s] * (Recovery - Lag) <= now - s

\* A new client is refused for want of room only while the table is full of
\* clients that were active when the last sweep looked or since, not for ever.
RefusedWhenBusy ==
  [][\A c \in Callers :
       stamp[c] # NoStamp /\ stamp'[c] = NoStamp /\ refused'
         => \A k \in table' : stamp[c] - bucket[k].updated < Minute + Most(Recovery, Lag)]_limiterVars

-----------------------------------------------------------------------------
(* The inductive invariant behind both.                                    *)

\* Stamps are no older than the lag, and no bucket is younger than the clock.
StampsFresh ==
  /\ \A c \in Callers : stamp[c] = NoStamp \/ (stamp[c] <= now /\ now <= stamp[c] + Lag)
  /\ \A k \in Keys : bucket[k].updated <= now

\* What the last sweep left was active then or has been since.
SweptRecently ==
  /\ nextSweep <= now + Minute
  /\ \A k \in table : \/ bucket[k].updated > nextSweep - Minute - Recovery
                       \/ bucket[k].updated >= nextSweep - Minute - Lag

\* Nothing was admitted after now, and a bucket was used no earlier than Lag
\* before whatever was admitted last.
SpentFollows ==
  \A k \in Keys, s \in Times :
    spent[k][s] > 0 => s <= now /\ s <= bucket[k].updated + Lag

\* A key was forgotten only after it spent, and then took its time.
LapsesRare ==
  \A k \in Keys, s \in Times :
    /\ lapses[k][s] > 0 => spent[k][s] > 0
    /\ s <= now => lapses[k][s] * (Recovery - Lag) + s <= now
    /\ k \in table /\ spent[k][s] > 0 =>
         lapses[k][s] * (Recovery - Lag) + s <= bucket[k].updated + Lag

\* What a key was admitted and may still spend never exceeds a burst and the
\* refill up to the stamp of its last request, but for what sweeps have added.
\* A call that overtook another may leave less than nothing in the bucket, but
\* no less than the lag.
Solvent ==
  \A k \in table :
    /\ bucket[k].tokens <= full
    /\ bucket[k].tokens >= 0 - Lag
    /\ bucket[k].tokens >= bucket[k].updated - now
    /\ \A s \in Times :
         s <= bucket[k].updated + Lag
           => spent[k][s] + bucket[k].tokens
                <= full + (bucket[k].updated + Lag - s) + lapses[k][s] * Excess

\* A key without a bucket has been idle for so long that a full bucket gives
\* it nothing it had not regained, but for what sweeps have added.
Forgotten ==
  \A k \in Keys \ table, s \in Times :
    s <= now => spent[k][s] <= now - s + lapses[k][s] * Excess

LimitInv ==
  /\ LimiterTypeOK
  /\ StampsFresh
  /\ SweptRecently
  /\ SpentFollows
  /\ LapsesRare
  /\ Solvent
  /\ Forgotten
=============================================================================
