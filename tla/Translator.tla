----------------------------- MODULE Translator -----------------------------
(***************************************************************************)
(* The translator (internal/translate): callers that ask for the same text *)
(* share one flight (translate.go), flights take turns at the provider,    *)
(* whose models are paced and cooled down (provider.go).                   *)
(*                                                                         *)
(* A key stands for a text and its target language.  Times are counted     *)
(* down in ticks: a countdown of zero is a time that has been reached.     *)
(***************************************************************************)
EXTENDS Integers, FiniteSets

CONSTANTS
  Callers,          \* goroutines that call Translate
  Keys,             \* texts with their target language
  NumModels,        \* len(cfg.Models)
  Interval,         \* cfg.Interval
  Cooldown,         \* cfg.Cooldown
  FailureThreshold, \* cfg.FailureThreshold
  FailureTTL,       \* failureTTL
  MaxFailures,      \* maxFailures
  OperationTimeout, \* operationTimeout
  RetryAfters,      \* Retry-After headers of the provider
  MaxFlights,       \* bound: flights ever started
  MaxCalls          \* bound: calls of Translate per caller

ASSUME TranslatorAssumption ==
  /\ IsFiniteSet(Callers) /\ IsFiniteSet(Keys) /\ Keys # {}
  /\ NumModels \in Nat \ {0} /\ FailureThreshold \in Nat \ {0}
  /\ Interval \in Nat \ {0} /\ Cooldown \in Nat \ {0}
  /\ FailureTTL \in Nat \ {0} /\ MaxFailures \in Nat \ {0}
  /\ OperationTimeout \in Nat \ {0}
  /\ RetryAfters \subseteq Nat
  /\ MaxFlights \in Nat /\ MaxCalls \in Nat

Flights == 1..MaxFlights
Models == 0..(NumModels - 1)

Errors == {"cancelled", "deadline", "unavailable", "provider", "cache"}

VARIABLES
  caller,   \* what each caller waits for, and its last answer
  flight,   \* flights, by order of creation
  current,  \* Translator.flights: the flight of a key, 0 if none
  failed,   \* Translator.failed: recent failures and how long they count
  cache,    \* keys whose translation is stored
  gate,     \* Translator.gate: the flight that holds it, 0 if none
  model,    \* Translator.models
  cursor,   \* Translator.cursor
  next,     \* Translator.next
  rest,     \* history: how long the provider is owed a pause
  hush      \* history: how long since a 429 without a Retry-After it is owed one

vars == <<caller, flight, current, failed, cache, gate, model, cursor, next,
          rest, hush>>

-----------------------------------------------------------------------------
Stages == {"unused", "lookup", "gate", "pacing", "calling", "storing",
           "landing", "landed"}

Caller == [pc : {"idle", "waiting"}, on : Nat, calls : Nat,
           got : Errors \cup {"nothing", "value", "left"}]

Flight == [stage : Stages, key : Keys, waiters : Int,
           ctx : {"live", "cancelled", "deadline"}, left : Nat,
           tried : SUBSET Models, on : Models,
           result : Errors \cup {"value"}]

NewFlight(k) ==
  [stage |-> "lookup", key |-> k, waiters |-> 0, ctx |-> "live",
   left |-> OperationTimeout, tried |-> {}, on |-> 0, result |-> "unavailable"]

Used == {f \in Flights : flight[f].stage # "unused"}
Aloft(f) == flight[f].stage \notin {"unused", "landed"}
Dead(f) == flight[f].ctx # "live"

\* No Retry-After header.
None == -1

Larger(a, b) == IF a > b THEN a ELSE b

Answer(c, got) ==
  caller' = [caller EXCEPT ![c].pc = "idle", ![c].on = 0, ![c].got = got]

-----------------------------------------------------------------------------
(* Translate, as its callers see it.                                       *)

\* A recent failure of the same text is the answer.
Recall(c, k) ==
  /\ caller[c].pc = "idle" /\ caller[c].calls < MaxCalls
  /\ failed[k].left > 0
  /\ caller' = [caller EXCEPT ![c].got = failed[k].err,
                              ![c].calls = caller[c].calls + 1]
  /\ UNCHANGED <<flight, current, failed, cache, gate, model, cursor, next,
                 rest, hush>>

\* The caller joins the flight of its text, or starts one.
Join(c, k) ==
  LET new == 1 + Cardinality(Used)
      f == IF current[k] = 0 THEN new ELSE current[k]
      boarded == IF current[k] = 0 THEN NewFlight(k) ELSE flight[f]
  IN /\ caller[c].pc = "idle" /\ caller[c].calls < MaxCalls
     /\ failed[k].left = 0
     /\ f \in Flights
     /\ flight' = [flight EXCEPT
                     ![f] = [boarded EXCEPT !.waiters = boarded.waiters + 1]]
     /\ current' = [current EXCEPT ![k] = f]
     /\ caller' = [caller EXCEPT ![c] = [pc |-> "waiting", on |-> f,
                                         calls |-> caller[c].calls + 1,
                                         got |-> "nothing"]]
     /\ UNCHANGED <<failed, cache, gate, model, cursor, next, rest, hush>>

\* Whether the flight ends with the caller that leaves.
Deserted(w) == w = 0

\* Deviation: a deserted flight can still be joined.
Withdrawn(f) == current

\* A flight without waiters is no longer offered to others.
Retired(f) ==
  IF current[flight[f].key] = f
  THEN [current EXCEPT ![flight[f].key] = 0] ELSE current

\* The caller's own context ends while it waits.
Leave(c) ==
  LET f == caller[c].on
      w == flight[f].waiters - 1
      over == Deserted(w)
  IN /\ caller[c].pc = "waiting"
     /\ Answer(c, "left")
     /\ flight' = [flight EXCEPT
          ![f].waiters = w,
          ![f].ctx = IF over /\ flight[f].ctx = "live" THEN "cancelled"
                                                       ELSE flight[f].ctx]
     /\ current' = IF over THEN Retired(f) ELSE current
     /\ UNCHANGED <<failed, cache, gate, model, cursor, next, rest, hush>>

\* The flight has landed.
Collect(c) ==
  LET f == caller[c].on
  IN /\ caller[c].pc = "waiting"
     /\ flight[f].stage = "landed"
     /\ Answer(c, flight[f].result)
     /\ UNCHANGED <<flight, current, failed, cache, gate, model, cursor, next,
                    rest, hush>>

-----------------------------------------------------------------------------
(* The flight: run and cachedTranslate.                                    *)

Approach(f, result) ==
  flight' = [flight EXCEPT ![f].stage = "landing", ![f].result = result]

\* safeContextError.
CtxErrorOr(f, error) == IF Dead(f) THEN flight[f].ctx ELSE error

\* GetTranslation: a hit, a miss or an error of the store.
Lookup(f) ==
  /\ flight[f].stage = "lookup"
  /\ \/ flight[f].key \in cache /\ Approach(f, "value")
     \/ /\ flight[f].key \notin cache
        /\ flight' = [flight EXCEPT ![f].stage = "gate"]
     \/ Approach(f, CtxErrorOr(f, "cache"))
  /\ UNCHANGED <<caller, current, failed, cache, gate, model, cursor, next,
                 rest, hush>>

\* PutTranslation, which may fail.
Store(f) ==
  /\ flight[f].stage = "storing"
  /\ \/ /\ cache' = cache \cup {flight[f].key}
        /\ Approach(f, "value")
     \/ /\ Approach(f, CtxErrorOr(f, "cache"))
        /\ UNCHANGED cache
  /\ UNCHANGED <<caller, current, failed, gate, model, cursor, next,
                 rest, hush>>

Owns(f) == current[flight[f].key] = f

\* cacheFailure; the failure that would expire first makes room.
Remembered(k, error) ==
  LET live == {x \in Keys : failed[x].left > 0}
      oldest == {x \in live : \A y \in live : failed[x].left <= failed[y].left}
      new == [left |-> FailureTTL, err |-> error]
  IN IF Cardinality(live) < MaxFailures
     THEN {[failed EXCEPT ![k] = new]}
     ELSE {[failed EXCEPT ![x].left = 0, ![k] = new] : x \in oldest}

\* The end of run.
Land(f) ==
  LET k == flight[f].key
      error == flight[f].result
  IN /\ flight[f].stage = "landing"
     /\ flight' = [flight EXCEPT ![f].stage = "landed"]
     /\ current' = IF Owns(f) THEN [current EXCEPT ![k] = 0] ELSE current
     /\ IF Owns(f) /\ error \notin {"value", "cancelled"}
        THEN failed' \in Remembered(k, error)
        ELSE UNCHANGED failed
     /\ UNCHANGED <<caller, cache, gate, model, cursor, next, rest, hush>>

-----------------------------------------------------------------------------
(* generate and attempt.                                                   *)

\* The gate is a channel of one; a flight whose context is done by the time it
\* gets through gives the gate back at once.
TakeGate(f) ==
  /\ flight[f].stage = "gate"
  /\ \/ /\ gate = 0 /\ ~Dead(f)
        /\ gate' = f
        /\ flight' = [flight EXCEPT ![f].stage = "pacing"]
     \/ /\ Dead(f)
        /\ Approach(f, flight[f].ctx)
        /\ UNCHANGED gate
  /\ UNCHANGED <<caller, current, failed, cache, model, cursor, next,
                 rest, hush>>

\* The model after the cursor that is neither tried nor cooling down.
Turn(i) == (cursor + i) % NumModels

Available(f) ==
  {i \in 0..(NumModels - 1) : /\ Turn(i) \notin flight[f].tried
                              /\ model[Turn(i)].left = 0}

First(S) == CHOOSE i \in S : \A j \in S : i <= j

\* waitUntil is over: a model is called, or there is none.
Begin(f) ==
  /\ flight[f].stage = "pacing"
  /\ next = 0
  /\ \/ /\ Available(f) = {}
        /\ Approach(f, flight[f].result)
        /\ gate' = 0
        /\ UNCHANGED <<cursor, next, rest>>
     \/ /\ Available(f) # {}
        /\ LET i == Turn(First(Available(f)))
           IN /\ flight' = [flight EXCEPT ![f].stage = "calling", ![f].on = i]
              /\ cursor' = (i + 1) % NumModels
        /\ next' = Interval
        /\ rest' = Interval
        /\ UNCHANGED gate
  /\ UNCHANGED <<caller, current, failed, cache, model, hush>>

\* Deviation: the gate is not given back.
GiveUpAtGate(f) ==
  /\ flight[f].stage = "pacing"
  /\ Dead(f)
  /\ Approach(f, flight[f].ctx)
  /\ UNCHANGED <<caller, current, failed, cache, gate, model, cursor, next,
                 rest, hush>>

\* The context ends while the flight waits for its turn.
GiveUp(f) ==
  /\ flight[f].stage = "pacing"
  /\ Dead(f)
  /\ Approach(f, flight[f].ctx)
  /\ gate' = 0
  /\ UNCHANGED <<caller, current, failed, cache, model, cursor, next,
                 rest, hush>>

\* Deviation: a Retry-After only cools down the model that was called.
PostponedNever(r) == next

\* The pause a Retry-After asks for holds for every model (provider.go:90).
Postponed(r) == Larger(next, r)

\* A valid translation.
Succeed(f, r) ==
  /\ flight[f].stage = "calling"
  /\ flight' = [flight EXCEPT ![f].stage = "storing",
                  ![f].tried = flight[f].tried \cup {flight[f].on}]
  /\ model' = [model EXCEPT ![flight[f].on] = [failures |-> 0, left |-> 0]]
  /\ gate' = 0
  /\ next' = Postponed(r)
  /\ rest' = Larger(rest, r)
  /\ UNCHANGED <<caller, current, failed, cache, cursor, hush>>

\* What a failed call costs its model (provider.go:101).
Blamed(m, quota, r) ==
  LET n == m.failures + 1
  IN [failures |-> n,
      left |-> IF quota \/ n >= FailureThreshold THEN Larger(Cooldown, r)
                                                 ELSE m.left]

\* Any other end of the call, the client's own timeout included.  The model is not blamed when the flight's
\* context is done: then the error may be the context's.
Fail(f, quota, r) ==
  LET m == Blamed(model[flight[f].on], quota, r)
      tried == flight[f].tried \cup {flight[f].on}
      more == tried # Models
  IN /\ flight[f].stage = "calling"
     /\ gate' = 0
     /\ rest' = Larger(rest, r)
     /\ hush' = IF quota /\ r = None THEN Cooldown ELSE hush
     /\ IF Dead(f)
        THEN /\ Approach(f, flight[f].ctx)
             /\ next' = Postponed(r)
             /\ UNCHANGED model
        ELSE /\ flight' = [flight EXCEPT
                  ![f].stage = IF more THEN "gate" ELSE "landing",
                  ![f].tried = tried, ![f].result = "provider"]
             /\ model' = [model EXCEPT ![flight[f].on] = m]
             /\ next' = IF quota /\ r = None THEN m.left ELSE Postponed(r)
     /\ UNCHANGED <<caller, current, failed, cache, cursor>>

-----------------------------------------------------------------------------
(* Time, and the whole.                                                    *)

Less(n) == IF n = 0 THEN 0 ELSE n - 1

Timing == {f \in Flights : Aloft(f) /\ flight[f].left > 0}

\* Flights have a deadline of their own.
Aged(x) ==
  [x EXCEPT !.left = x.left - 1,
            !.ctx = IF x.left = 1 /\ x.ctx = "live" THEN "deadline" ELSE x.ctx]

Tick ==
  /\ \/ Timing # {}
     \/ next > 0 \/ rest > 0 \/ hush > 0
     \/ \E k \in Keys : failed[k].left > 0
     \/ \E i \in Models : model[i].left > 0
  /\ flight' = [f \in Flights |-> IF f \in Timing THEN Aged(flight[f])
                                                  ELSE flight[f]]
  /\ failed' = [k \in Keys |-> [failed[k] EXCEPT !.left = Less(failed[k].left)]]
  /\ model' = [i \in Models |-> [model[i] EXCEPT !.left = Less(model[i].left)]]
  /\ next' = Less(next) /\ rest' = Less(rest) /\ hush' = Less(hush)
  /\ UNCHANGED <<caller, current, cache, gate, cursor>>

Init ==
  LET k == CHOOSE k \in Keys : TRUE
  IN /\ caller = [c \in Callers |-> [pc |-> "idle", on |-> 0, calls |-> 0,
                                     got |-> "nothing"]]
     /\ flight = [f \in Flights |-> [NewFlight(k) EXCEPT !.stage = "unused"]]
     /\ current = [x \in Keys |-> 0]
     /\ failed = [x \in Keys |-> [left |-> 0, err |-> "unavailable"]]
     /\ cache = {}
     /\ gate = 0
     /\ model = [i \in Models |-> [failures |-> 0, left |-> 0]]
     /\ cursor = 0 /\ next = 0 /\ rest = 0 /\ hush = 0

CallEnds(f) ==
  \E r \in RetryAfters \cup {None} :
    Succeed(f, r) \/ \E quota \in BOOLEAN : Fail(f, quota, r)

FlightStep(f) ==
  \/ Lookup(f) \/ TakeGate(f) \/ Begin(f) \/ GiveUp(f) \/ CallEnds(f)
  \/ Store(f) \/ Land(f)

Next ==
  \/ \E c \in Callers : \/ Leave(c) \/ Collect(c)
                        \/ \E k \in Keys : Recall(c, k) \/ Join(c, k)
  \/ \E f \in Flights : FlightStep(f)
  \/ Tick

Spec == Init /\ [][Next]_vars

\* Goroutines run, the store answers, time passes, and the HTTP client ends
\* every call after its timeout.
Fairness ==
  /\ \A c \in Callers : WF_vars(Collect(c))
  /\ \A f \in Flights : WF_vars(FlightStep(f))
  /\ WF_vars(Tick)

FairSpec == Spec /\ Fairness

-----------------------------------------------------------------------------
(* Properties.                                                             *)

\* Types; failures are remembered for a bounded number of texts.
TypeOK ==
  /\ caller \in [Callers -> Caller]
  /\ flight \in [Flights -> Flight]
  /\ current \in [Keys -> {0} \cup Flights]
  /\ failed \in [Keys -> [left : 0..FailureTTL, err : Errors]]
  /\ Cardinality({k \in Keys : failed[k].left > 0}) <= MaxFailures
  /\ cache \subseteq Keys
  /\ gate \in {0} \cup Flights
  /\ model \in [Models -> [failures : Nat, left : Nat]]
  /\ cursor \in Models
  /\ next \in Nat /\ rest \in Nat /\ hush \in Nat

\* Whoever waits, waits for a flight that will answer: it has landed, or it is
\* the one newcomers join and nobody cancelled it.  Its waiters are counted.  So
\* no text is worked on twice for callers that wait: neither a late landing nor
\* a caller that leaves takes a running flight out of the table.
WaitersServed ==
  /\ \A c \in Callers : caller[c].pc = "waiting" =>
       LET f == caller[c].on
       IN \/ flight[f].stage = "landed"
          \/ current[flight[f].key] = f /\ flight[f].ctx # "cancelled"
  /\ \A f \in Used : flight[f].stage # "landed" =>
       flight[f].waiters =
         Cardinality({c \in Callers : caller[c].pc = "waiting"
                                      /\ caller[c].on = f})

\* Nobody is answered with the cancellation of somebody else, neither through
\* a shared flight nor through a remembered failure (translate.go:169, 202).
NotDisturbed == \A c \in Callers : caller[c].got # "cancelled"

\* Sharing is safe: within the bound of its failure table the translator serves
\* whoever waits, and what one caller does disturbs no other.
FlightInv == TypeOK /\ WaitersServed /\ NotDisturbed

Begins(f) == flight[f].stage # "calling" /\ flight'[f].stage = "calling"

\* The provider gets one call at a time, an interval apart, and none before
\* the time it asked for, whichever flight was told so (translate.go:76).
CallsPaced ==
  [][\A f \in Flights : Begins(f) =>
       rest = 0 /\ \A g \in Flights : flight[g].stage # "calling"]_vars

\* A comment of the code (provider.go:109): quota failures without guidance
\* must not immediately hit another model.
QuotaHeeded == [][\A f \in Flights : Begins(f) => hush = 0]_vars

\* Whichever way a call ends, with a translation, an error, no model to call or
\* the end of its context, the gate is handed on (provider.go:50).
GateHandedOn == \A f \in Flights : gate = f ~> gate # f

-----------------------------------------------------------------------------
(* The inductive invariants behind FlightInv and CallsPaced.               *)

Waiting(f) == {c \in Callers : caller[c].pc = "waiting" /\ caller[c].on = f}

\* Flights are numbered as they are started.
FlightsNumbered == \E n \in 0..MaxFlights : Used = 1..n

\* A flight that is offered to callers is under way, and nobody cancelled it.
CurrentAloft ==
  \A k \in Keys : current[k] # 0 =>
    LET f == current[k]
    IN Aloft(f) /\ flight[f].key = k /\ flight[f].ctx # "cancelled"

\* A flight is cancelled only when nobody waits for it, landed or not: those
\* who collect an answer stay counted, so the count is never too low.
WaitersKept ==
  /\ \A c \in Callers : caller[c].pc = "waiting" =>
       caller[c].on \in Used /\ flight[caller[c].on].ctx # "cancelled"
  /\ \A f \in Flights : Cardinality(Waiting(f)) <= flight[f].waiters

\* A cancellation is the result of a cancelled flight only, and is forgotten.
CancellationsOwn ==
  /\ \A f \in Flights : flight[f].result = "cancelled" => flight[f].ctx = "cancelled"
  /\ \A k \in Keys : failed[k].err # "cancelled"

ShareInv ==
  /\ FlightInv
  /\ FlightsNumbered /\ CurrentAloft /\ WaitersKept /\ CancellationsOwn

\* The gate is held by the flight that waits for its turn or calls.
GateHeld ==
  \A f \in Flights : flight[f].stage \in {"pacing", "calling"} <=> gate = f

\* What the provider is owed is what the translator waits for.
PauseKept ==
  /\ rest <= next
  /\ (\E f \in Flights : flight[f].stage = "calling") => rest <= Interval

PaceInv == TypeOK /\ GateHeld /\ PauseKept

=============================================================================
