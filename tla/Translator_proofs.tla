-------------------------- MODULE Translator_proofs --------------------------
(***************************************************************************)
(* Proofs about the translator, for every number of callers, texts, models *)
(* and flights and for every setting of its times.                         *)
(***************************************************************************)
EXTENDS Translator, FiniteSetTheorems, WellFoundedInduction, TLAPS

-----------------------------------------------------------------------------
(* Types.                                                                  *)

LEMMA Least ==
  ASSUME NEW T \in SUBSET Nat, T # {}
  PROVE  \E x \in T : \A y \in T : x <= y
<1> DEFINE R == {ss \in Nat \X Nat : ss[1] < ss[2]}
<1>1. IsWellFoundedOn(R, Nat)
  BY NatLessThanWellFounded DEF OpToRel
<1>2. \A x \in T : \A y \in T : ~(<<y, x>> \in R) => x <= y
  OBVIOUS
<1> HIDE DEF R
<1>3. \E x \in T : \A y \in T : ~(<<y, x>> \in R)
  BY <1>1, WFMin
<1> QED BY <1>2, <1>3

LEMMA OneMore ==
  ASSUME NEW S, IsFiniteSet(S), NEW x
  PROVE  /\ IsFiniteSet(S \cup {x})
         /\ Cardinality(S) \in Nat /\ Cardinality(S \cup {x}) \in Nat
         /\ Cardinality(S \cup {x}) <= Cardinality(S) + 1
         /\ x \notin S => Cardinality(S \cup {x}) = Cardinality(S) + 1
<1>1. IsFiniteSet(S \cup {x}) /\ Cardinality(S) \in Nat
  BY FS_AddElement, FS_CardinalityType
<1>2. CASE x \in S
  <2>1. S \cup {x} = S
    BY <1>2
  <2> QED BY <1>1, <1>2, <2>1
<1>3. CASE x \notin S
  <2>1. Cardinality(S \cup {x}) = Cardinality(S) + 1
    BY <1>3, FS_AddElement
  <2> QED BY <1>1, <2>1
<1> QED BY <1>2, <1>3

LEMMA Turns == ASSUME TypeOK, NEW i \in Nat PROVE Turn(i) \in Models
  BY TranslatorAssumption DEF TypeOK, Turn, Models, TranslatorAssumption

LEMMA LargerType ==
  ASSUME NEW m \in Nat, NEW r \in RetryAfters \cup {None}
  PROVE  Larger(m, r) \in Nat /\ m <= Larger(m, r)
  BY TranslatorAssumption DEF Larger, None, TranslatorAssumption

Live(g) == {k \in Keys : g[k].left > 0}

FailureTable == [Keys -> [left : 0..FailureTTL, err : Errors]]

\* The failure table stays within its bound.
LEMMA RememberedBounded ==
  ASSUME TypeOK, NEW k \in Keys, NEW error \in Errors,
         NEW g \in Remembered(k, error)
  PROVE  /\ g \in FailureTable /\ Cardinality(Live(g)) <= MaxFailures
         /\ \A x \in Keys : g[x].err \in {failed[x].err, error}
<1> DEFINE new == [left |-> FailureTTL, err |-> error]
<1>1. /\ failed \in FailureTable /\ FailureTTL \in Nat \ {0} /\ MaxFailures \in Nat \ {0}
      /\ IsFiniteSet(Keys) /\ Cardinality(Live(failed)) <= MaxFailures
  BY TranslatorAssumption DEF TypeOK, FailureTable, Live, TranslatorAssumption
<1>2. IsFiniteSet(Live(failed)) /\ Cardinality(Live(failed)) \in Nat
  BY <1>1, FS_Subset, FS_CardinalityType DEF Live
<1>3. CASE Cardinality(Live(failed)) < MaxFailures /\ g = [failed EXCEPT ![k] = new]
  <2>1. g \in FailureTable /\ \A x \in Keys : g[x].err \in {failed[x].err, error}
    BY <1>1, <1>3 DEF FailureTable
  <2>2. Live(g) = Live(failed) \cup {k}
    BY <1>1, <1>3 DEF FailureTable, Live
  <2>3. Cardinality(Live(g)) <= Cardinality(Live(failed)) + 1
    BY <1>2, <2>2, OneMore
  <2>4. Cardinality(Live(g)) \in Nat
    BY <1>2, <2>2, OneMore
  <2> QED BY <1>1, <1>2, <1>3, <2>1, <2>3, <2>4
<1>4. ASSUME NEW x \in Live(failed), g = [failed EXCEPT ![x].left = 0, ![k] = new]
      PROVE  /\ g \in FailureTable /\ Cardinality(Live(g)) <= MaxFailures
             /\ \A y \in Keys : g[y].err \in {failed[y].err, error}
  <2>1. x \in Keys
    BY DEF Live
  <2>2. \A y \in Keys : /\ y = k => g[y] = new
                        /\ y = x /\ y # k => g[y] = [failed[x] EXCEPT !.left = 0]
                        /\ y # x /\ y # k => g[y] = failed[y]
    BY <1>1, <1>4, <2>1 DEF FailureTable
  <2>3. DOMAIN g = Keys /\ g = [y \in Keys |-> g[y]]
    BY <1>1, <1>4 DEF FailureTable
  <2>4. \A y \in Keys : /\ g[y] \in [left : 0..FailureTTL, err : Errors]
                        /\ g[y].err \in {failed[y].err, error}
    BY <1>1, <2>1, <2>2 DEF FailureTable
  <2>5. g \in FailureTable
    BY <2>3, <2>4 DEF FailureTable
  <2>6. Live(g) \subseteq (Live(failed) \ {x}) \cup {k}
    BY <1>1, <2>1, <2>2 DEF Live, FailureTable
  <2>7. /\ IsFiniteSet(Live(failed) \ {x})
        /\ Cardinality(Live(failed) \ {x}) = Cardinality(Live(failed)) - 1
    BY <1>2, FS_RemoveElement
  <2>8. /\ IsFiniteSet((Live(failed) \ {x}) \cup {k})
        /\ Cardinality((Live(failed) \ {x}) \cup {k}) <= Cardinality(Live(failed))
    <3> DEFINE S == Live(failed) \ {x}
    <3>1. IsFiniteSet(S) /\ Cardinality(S) + 1 = Cardinality(Live(failed))
      BY <1>2, <2>7
    <3> HIDE DEF S
    <3>2. IsFiniteSet(S \cup {k}) /\ Cardinality(S \cup {k}) <= Cardinality(Live(failed))
      BY <3>1, OneMore
    <3> QED BY <3>2 DEF S
  <2>9. Cardinality(Live(g)) <= Cardinality((Live(failed) \ {x}) \cup {k})
    BY <2>6, <2>8, FS_Subset
  <2>10. /\ Cardinality(Live(g)) \in Nat
         /\ Cardinality((Live(failed) \ {x}) \cup {k}) \in Nat
    BY <2>6, <2>8, FS_Subset, FS_CardinalityType
  <2> QED BY <1>1, <1>2, <2>4, <2>5, <2>8, <2>9, <2>10
<1>5. \/ Cardinality(Live(failed)) < MaxFailures /\ g = [failed EXCEPT ![k] = new]
      \/ \E x \in Live(failed) : g = [failed EXCEPT ![x].left = 0, ![k] = new]
  BY DEF Remembered, Live
<1> QED BY <1>3, <1>4, <1>5

LEMMA InitType == Init => TypeOK
<1> SUFFICES ASSUME Init PROVE TypeOK
  OBVIOUS
<1>1. TranslatorAssumption
  BY TranslatorAssumption
<1>2. PICK k \in Keys : flight = [f \in Flights |-> [NewFlight(k) EXCEPT !.stage = "unused"]]
  BY TranslatorAssumption DEF Init, TranslatorAssumption
<1>3. flight \in [Flights -> Flight]
  BY <1>2, TranslatorAssumption DEF NewFlight, Flight, Stages, Models, Errors,
     TranslatorAssumption
<1>4. Cardinality({x \in Keys : failed[x].left > 0}) <= MaxFailures
  <2>1. {x \in Keys : failed[x].left > 0} = {}
    BY DEF Init
  <2>2. Cardinality({x \in Keys : failed[x].left > 0}) = 0
    BY <2>1, FS_EmptySet
  <2> QED BY <2>2, TranslatorAssumption DEF TranslatorAssumption
<1>5. /\ caller \in [Callers -> Caller] /\ current \in [Keys -> {0} \cup Flights]
      /\ failed \in [Keys -> [left : 0..FailureTTL, err : Errors]]
      /\ cache \subseteq Keys /\ gate \in {0} \cup Flights
      /\ model \in [Models -> [failures : Nat, left : Nat]]
      /\ cursor \in Models /\ next \in Nat /\ rest \in Nat /\ hush \in Nat
  BY TranslatorAssumption DEF Init, Caller, Errors, Models, TranslatorAssumption
<1> QED BY <1>3, <1>4, <1>5 DEF TypeOK

\* Another stage of the same flight.
SameFlight(v, w) ==
  w.key = v.key /\ w.waiters = v.waiters /\ w.ctx = v.ctx /\ w.left = v.left

Continues(f) ==
  /\ flight' \in [Flights -> Flight]
  /\ \A g \in Flights \ {f} : flight'[g] = flight[g]
  /\ SameFlight(flight[f], flight'[f])
  /\ flight'[f].result = "cancelled" =>
       flight[f].result = "cancelled" \/ flight[f].ctx = "cancelled"

LEMMA FlightRecords ==
  ASSUME NEW v \in Flight
  PROVE  /\ \A i \in Models : LET x == [v EXCEPT !.stage = "calling", !.on = i]
           IN x \in Flight /\ x.stage = "calling" /\ x.result = v.result /\ SameFlight(v, x)
         /\ \A S \in SUBSET Models : LET x == [v EXCEPT !.stage = "storing", !.tried = S]
           IN x \in Flight /\ x.stage = "storing" /\ x.result = v.result /\ SameFlight(v, x)
         /\ \A S \in SUBSET Models, t \in {"gate", "landing"} :
           LET x == [v EXCEPT !.stage = t, !.tried = S, !.result = "provider"]
           IN x \in Flight /\ x.stage = t /\ x.result = "provider" /\ SameFlight(v, x)
<1>1. ASSUME NEW i \in Models
      PROVE  LET x == [v EXCEPT !.stage = "calling", !.on = i]
             IN x \in Flight /\ x.stage = "calling" /\ x.result = v.result /\ SameFlight(v, x)
  BY DEF Flight, Stages, SameFlight
<1>2. ASSUME NEW S \in SUBSET Models
      PROVE  LET x == [v EXCEPT !.stage = "storing", !.tried = S]
             IN x \in Flight /\ x.stage = "storing" /\ x.result = v.result /\ SameFlight(v, x)
  BY DEF Flight, Stages, SameFlight
<1>3. ASSUME NEW S \in SUBSET Models, NEW t \in {"gate", "landing"}
      PROVE  LET x == [v EXCEPT !.stage = t, !.tried = S, !.result = "provider"]
             IN x \in Flight /\ x.stage = t /\ x.result = "provider" /\ SameFlight(v, x)
  <2> DEFINE x == [v EXCEPT !.stage = t, !.tried = S, !.result = "provider"]
  <2>1. x.stage = t /\ x.result = "provider" /\ SameFlight(v, x)
    BY DEF Flight, SameFlight
  <2>2. x \in Flight
    BY DEF Flight, Stages, Errors
  <2> QED BY <2>1, <2>2
<1> QED BY <1>1, <1>2, <1>3, Zenon

LEMMA StagedFlight ==
  ASSUME NEW v \in Flight, NEW stage \in Stages, NEW x, x = [v EXCEPT !.stage = stage]
  PROVE  x \in Flight /\ x.stage = stage /\ x.result = v.result /\ SameFlight(v, x)
<1>1. x.stage = stage /\ x.result = v.result /\ SameFlight(v, x)
  BY DEF Flight, SameFlight
<1>2. x \in Flight
  BY DEF Flight
<1> QED BY <1>1, <1>2

LEMMA Replaced ==
  ASSUME TypeOK, NEW f \in Flights, NEW x \in Flight, SameFlight(flight[f], x),
         x.result = "cancelled" =>
           flight[f].result = "cancelled" \/ flight[f].ctx = "cancelled",
         flight' = [flight EXCEPT ![f] = x]
  PROVE  Continues(f) /\ flight'[f] = x
<1>1. flight \in [Flights -> Flight]
  BY DEF TypeOK
<1>2. flight' \in [Flights -> Flight] /\ flight'[f] = x
  BY <1>1
<1>3. \A g \in Flights \ {f} : flight'[g] = flight[g]
  BY <1>1
<1> QED BY <1>2, <1>3 DEF Continues

LEMMA ApproachContinues ==
  ASSUME TypeOK, NEW f \in Flights, NEW result \in Errors \cup {"value"},
         result = "cancelled" =>
           flight[f].result = "cancelled" \/ flight[f].ctx = "cancelled",
         Approach(f, result)
  PROVE  Continues(f) /\ flight'[f].stage = "landing"
<1> DEFINE x == [flight[f] EXCEPT !.stage = "landing", !.result = result]
<1>1. x \in Flight /\ x.stage = "landing" /\ x.result = result /\ SameFlight(flight[f], x)
  <2>1. PICK v \in Flight : v = flight[f]
    BY DEF TypeOK
  <2>2. PICK y : y = [v EXCEPT !.stage = "landing", !.result = result]
    OBVIOUS
  <2>3. y.stage = "landing" /\ y.result = result /\ SameFlight(v, y)
    BY <2>2 DEF Flight, SameFlight
  <2>4. y \in Flight
    BY <2>2 DEF Flight, Stages
  <2> QED BY <2>1, <2>2, <2>3, <2>4
<1>2. flight' = [flight EXCEPT ![f] = x]
  BY DEF Approach, TypeOK
<1> HIDE DEF x
<1> QED BY <1>1, <1>2, Replaced

LEMMA StageContinues ==
  ASSUME TypeOK, NEW f \in Flights, NEW stage \in Stages,
         flight' = [flight EXCEPT ![f].stage = stage]
  PROVE  Continues(f) /\ flight'[f].stage = stage
<1> DEFINE x == [flight[f] EXCEPT !.stage = stage]
<1>1. /\ x \in Flight /\ x.stage = stage /\ x.result = flight[f].result
      /\ SameFlight(flight[f], x)
  <2>1. flight[f] \in Flight
    BY DEF TypeOK
  <2> QED BY <2>1, StagedFlight
<1>2. flight' = [flight EXCEPT ![f] = x]
  BY DEF TypeOK
<1> HIDE DEF x
<1> QED BY <1>1, <1>2, Replaced

LEMMA DeadContext ==
  ASSUME TypeOK, NEW f \in Flights, Dead(f)
  PROVE  flight[f].ctx \in Errors
  BY DEF TypeOK, Dead, Flight, Errors

\* A flight that is under way goes on to another stage; only its landing is
\* seen outside.
LEMMA FlightContinues ==
  ASSUME TypeOK, NEW f \in Flights, FlightStep(f)
  PROVE  /\ Continues(f) /\ Aloft(f) /\ flight'[f].stage # "unused"
         /\ caller' = caller
         /\ flight'[f].stage = "landed" <=> Land(f)
         /\ ~Land(f) => current' = current /\ failed' = failed
<1>1. CtxErrorOr(f, "cache") \in Errors
      /\ (CtxErrorOr(f, "cache") = "cancelled" => flight[f].ctx = "cancelled")
  BY DeadContext DEF CtxErrorOr, Errors
<1>2. Dead(f) => flight[f].ctx \in Errors
  BY DeadContext
<1>3. flight[f].result \in Errors \cup {"value"} /\ "value" \in Errors \cup {"value"}
      /\ "provider" \in Errors /\ flight[f].on \in Models
      /\ flight[f] \in Flight /\ flight[f].tried \cup {flight[f].on} \in SUBSET Models
  BY DEF TypeOK, Flight, Errors
<1>4. CASE Lookup(f)
  <2>1. CASE Approach(f, "value")
    BY <1>3, <1>4, <2>1, ApproachContinues DEF Lookup, Aloft, Land
  <2>2. CASE flight' = [flight EXCEPT ![f].stage = "gate"]
    <3>1. "gate" \in Stages
      BY DEF Stages
    <3> QED BY <1>4, <2>2, <3>1, StageContinues DEF Lookup, Aloft, Land
  <2>3. CASE Approach(f, CtxErrorOr(f, "cache"))
    BY <1>1, <1>4, <2>3, ApproachContinues DEF Lookup, Aloft, Land
  <2> QED BY <1>4, <2>1, <2>2, <2>3 DEF Lookup
<1>5. CASE TakeGate(f)
  <2>1. CASE flight' = [flight EXCEPT ![f].stage = "pacing"]
    <3>1. "pacing" \in Stages
      BY DEF Stages
    <3> QED BY <1>5, <2>1, <3>1, StageContinues DEF TakeGate, Aloft, Land
  <2>2. CASE Dead(f) /\ Approach(f, flight[f].ctx)
    BY <1>2, <1>5, <2>2, ApproachContinues DEF TakeGate, Aloft, Land
  <2> QED BY <1>5, <2>1, <2>2 DEF TakeGate
<1>6. CASE Begin(f)
  <2>1. CASE Approach(f, flight[f].result)
    BY <1>3, <1>6, <2>1, ApproachContinues DEF Begin, Aloft, Land
  <2>2. ASSUME NEW i \in Models,
               flight' = [flight EXCEPT ![f].stage = "calling", ![f].on = i]
        PROVE  Continues(f) /\ flight'[f].stage = "calling"
    <3> DEFINE x == [flight[f] EXCEPT !.stage = "calling", !.on = i]
    <3>1. /\ x \in Flight /\ x.stage = "calling" /\ x.result = flight[f].result
          /\ SameFlight(flight[f], x)
      BY <1>3, FlightRecords
    <3>2. flight' = [flight EXCEPT ![f] = x]
      BY <2>2 DEF TypeOK
    <3> HIDE DEF x
    <3> QED BY <3>1, <3>2, Replaced
  <2>3. ASSUME Available(f) # {}
        PROVE  Turn(First(Available(f))) \in Models
    <3>1. Available(f) \in SUBSET Nat
      BY TranslatorAssumption DEF Available, TranslatorAssumption
    <3>2. First(Available(f)) \in Nat
      BY <2>3, <3>1, Least DEF First
    <3> QED BY <3>2, Turns
  <2> QED BY <1>6, <2>1, <2>2, <2>3 DEF Begin, Aloft, Land
<1>7. CASE GiveUp(f)
  BY <1>2, <1>7, ApproachContinues DEF GiveUp, Aloft, Land
<1>8. ASSUME NEW r, Succeed(f, r)
      PROVE  Continues(f) /\ flight'[f].stage = "storing" /\ ~Land(f)
  <2> DEFINE x == [flight[f] EXCEPT !.stage = "storing",
                                    !.tried = flight[f].tried \cup {flight[f].on}]
  <2>1. /\ x \in Flight /\ x.stage = "storing" /\ x.result = flight[f].result
        /\ SameFlight(flight[f], x)
    BY <1>3, FlightRecords
  <2>2. flight' = [flight EXCEPT ![f] = x] /\ ~Land(f)
    BY <1>8 DEF TypeOK, Succeed, Land
  <2> HIDE DEF x
  <2> QED BY <2>1, <2>2, Replaced
<1>9. ASSUME NEW r, NEW quota, Fail(f, quota, r)
      PROVE  Continues(f) /\ flight'[f].stage \in {"gate", "landing"} /\ ~Land(f)
  <2>1. CASE Dead(f)
    BY <1>2, <1>9, <2>1, ApproachContinues DEF Fail, Land
  <2>2. CASE ~Dead(f)
    <3> DEFINE tried == flight[f].tried \cup {flight[f].on}
               stage == IF tried # Models THEN "gate" ELSE "landing"
               x == [flight[f] EXCEPT !.stage = stage, !.tried = tried,
                                      !.result = "provider"]
    <3>1. tried \in SUBSET Models /\ stage \in {"gate", "landing"}
      BY DEF TypeOK, Flight
    <3>2. flight' = [flight EXCEPT ![f] = x]
      BY <1>9, <2>2 DEF TypeOK, Fail
    <3> HIDE DEF tried, stage
    <3>3. /\ x \in Flight /\ x.stage = stage /\ x.result = "provider"
          /\ SameFlight(flight[f], x)
      <4>1. \A S \in SUBSET Models, t \in {"gate", "landing"} :
              LET y == [flight[f] EXCEPT !.stage = t, !.tried = S, !.result = "provider"]
              IN /\ y \in Flight /\ y.stage = t /\ y.result = "provider"
                 /\ SameFlight(flight[f], y)
        BY <1>3, FlightRecords
      <4> QED BY <3>1, <4>1
    <3> HIDE DEF x
    <3>4. Continues(f) /\ flight'[f].stage = stage
      BY <3>2, <3>3, Replaced
    <3> QED BY <1>9, <3>1, <3>4 DEF Fail, Land
  <2> QED BY <2>1, <2>2
<1>10. CASE CallEnds(f)
  BY <1>8, <1>9, <1>10 DEF CallEnds, Succeed, Fail, Aloft
<1>11. CASE Store(f)
  <2>1. CASE Approach(f, "value")
    BY <1>3, <1>11, <2>1, ApproachContinues DEF Store, Aloft, Land
  <2>2. CASE Approach(f, CtxErrorOr(f, "cache"))
    BY <1>1, <1>11, <2>2, ApproachContinues DEF Store, Aloft, Land
  <2> QED BY <1>11, <2>1, <2>2 DEF Store
<1>12. CASE Land(f)
  <2>1. "landed" \in Stages
    BY DEF Stages
  <2> QED BY <1>12, <2>1, StageContinues DEF Land, Aloft
<1> QED BY <1>4, <1>5, <1>6, <1>7, <1>10, <1>11, <1>12 DEF FlightStep

\* What a flight does to the cache, the gate, the models and the pacing.
LEMMA FlightTypes ==
  ASSUME TypeOK, NEW f \in Flights, FlightStep(f)
  PROVE  /\ cache' \subseteq Keys /\ gate' \in {0} \cup Flights
         /\ model' \in [Models -> [failures : Nat, left : Nat]]
         /\ cursor' \in Models
         /\ next' \in Nat /\ rest' \in Nat /\ hush' \in Nat
<1>1. /\ flight[f].key \in Keys /\ flight[f].on \in Models
      /\ Interval \in Nat /\ Cooldown \in Nat /\ NumModels \in Nat \ {0}
  BY TranslatorAssumption DEF TypeOK, Flight, TranslatorAssumption
<1>2. CASE Lookup(f) \/ TakeGate(f) \/ GiveUp(f) \/ Store(f) \/ Land(f)
  BY <1>1, <1>2 DEF TypeOK, Lookup, TakeGate, GiveUp, Store, Land
<1>3. CASE Begin(f)
  <2>1. cursor' \in Models
    <3>1. ASSUME Available(f) # {}
          PROVE  Turn(First(Available(f))) \in Models
      <4>1. Available(f) \in SUBSET Nat
        BY TranslatorAssumption DEF Available, TranslatorAssumption
      <4>2. First(Available(f)) \in Nat
        BY <3>1, <4>1, Least DEF First
      <4> QED BY <4>2, Turns
    <3>2. \A i \in Models : (i + 1) % NumModels \in Models
      BY <1>1 DEF Models
    <3>3. cursor' = cursor \/ /\ Available(f) # {}
                              /\ cursor' = (Turn(First(Available(f))) + 1) % NumModels
      BY <1>3 DEF Begin
    <3> QED BY <3>1, <3>2, <3>3 DEF TypeOK
  <2> QED BY <1>1, <1>3, <2>1 DEF TypeOK, Begin
<1>4. ASSUME NEW r \in RetryAfters \cup {None}, Succeed(f, r)
      PROVE  /\ cache' = cache /\ gate' = 0 /\ cursor' = cursor /\ hush' = hush
             /\ model' \in [Models -> [failures : Nat, left : Nat]]
             /\ next' \in Nat /\ rest' \in Nat
  BY <1>1, <1>4, LargerType DEF TypeOK, Succeed, Postponed
<1>5. ASSUME NEW r \in RetryAfters \cup {None}, NEW quota \in BOOLEAN, Fail(f, quota, r)
      PROVE  /\ cache' = cache /\ gate' = 0 /\ cursor' = cursor
             /\ model' \in [Models -> [failures : Nat, left : Nat]]
             /\ next' \in Nat /\ rest' \in Nat /\ hush' \in Nat
  <2> DEFINE m == Blamed(model[flight[f].on], quota, r)
  <2>1. m \in [failures : Nat, left : Nat]
    BY <1>1, LargerType DEF TypeOK, Blamed
  <2>2. rest' \in Nat /\ hush' \in Nat /\ Postponed(r) \in Nat
    BY <1>1, <1>5, LargerType DEF TypeOK, Fail, Postponed
  <2>3. /\ model' \in {model, [model EXCEPT ![flight[f].on] = m]}
        /\ next' \in {Postponed(r), m.left}
        /\ cache' = cache /\ gate' = 0 /\ cursor' = cursor
    BY <1>5 DEF Fail
  <2> HIDE DEF m
  <2>4. m.left \in Nat /\ [model EXCEPT ![flight[f].on] = m] \in [Models -> [failures : Nat, left : Nat]]
    BY <1>1, <2>1 DEF TypeOK
  <2>5. model \in [Models -> [failures : Nat, left : Nat]]
    BY DEF TypeOK
  <2> QED BY <2>2, <2>3, <2>4, <2>5
<1>6. CASE CallEnds(f)
  BY <1>4, <1>5, <1>6 DEF CallEnds, TypeOK
<1> QED BY <1>2, <1>3, <1>6 DEF FlightStep

-----------------------------------------------------------------------------
(* The callers.                                                            *)

LEMMA Answered ==
  ASSUME TypeOK, NEW c \in Callers, NEW got \in Errors \cup {"value", "left"},
         Answer(c, got)
  PROVE  /\ caller' \in [Callers -> Caller]
         /\ \A d \in Callers \ {c} : caller'[d] = caller[d]
         /\ caller'[c].pc = "idle" /\ caller'[c].got = got
         /\ \A f : Waiting(f)' = Waiting(f) \ {c}
<1> DEFINE x == [caller[c] EXCEPT !.pc = "idle", !.on = 0, !.got = got]
<1>1. x \in Caller /\ x.pc = "idle" /\ x.got = got
  BY DEF TypeOK, Caller
<1>2. caller' = [caller EXCEPT ![c] = x]
  BY DEF Answer, TypeOK
<1> HIDE DEF x
<1>3. /\ caller' \in [Callers -> Caller] /\ caller'[c] = x
      /\ \A d \in Callers \ {c} : caller'[d] = caller[d]
  BY <1>1, <1>2 DEF TypeOK
<1>4. \A f : Waiting(f)' = Waiting(f) \ {c}
  BY <1>1, <1>3 DEF Waiting
<1> QED BY <1>1, <1>3, <1>4

LEMMA WaitingFinite ==
  ASSUME NEW f
  PROVE  IsFiniteSet(Waiting(f)) /\ Cardinality(Waiting(f)) \in Nat
<1>1. Waiting(f) \subseteq Callers /\ IsFiniteSet(Callers)
  BY TranslatorAssumption DEF Waiting, TranslatorAssumption
<1> QED BY <1>1, FS_Subset, FS_CardinalityType

\* What ShareInv says of one flight.
LEMMA FlightFacts ==
  ASSUME ShareInv, NEW f \in Flights
  PROVE  /\ flight[f] \in Flight
         /\ flight[f].key \in Keys /\ flight[f].waiters \in Int
         /\ Cardinality(Waiting(f)) <= flight[f].waiters
         /\ Aloft(f) => flight[f].waiters = Cardinality(Waiting(f))
         /\ flight[f].result = "cancelled" => flight[f].ctx = "cancelled"
         /\ Waiting(f) # {} => flight[f].ctx # "cancelled" /\ f \in Used
  BY DEF ShareInv, FlightInv, TypeOK, WaitersServed, WaitersKept, CancellationsOwn,
     Flight, Used, Aloft, Waiting

\* What ShareInv says of one caller.
LEMMA CallerFacts ==
  ASSUME ShareInv, NEW c \in Callers, caller[c].pc = "waiting"
  PROVE  LET f == caller[c].on
         IN /\ f \in Flights /\ f \in Used /\ c \in Waiting(f)
            /\ flight[f].ctx # "cancelled"
            /\ flight[f].stage = "landed" \/ current[flight[f].key] = f
  BY DEF ShareInv, FlightInv, WaitersServed, WaitersKept, Used, Waiting

\* WaitersServed and WaitersKept flight by flight.
WaitersOf(f) ==
  /\ Cardinality(Waiting(f)) <= flight[f].waiters
  /\ Aloft(f) => flight[f].waiters = Cardinality(Waiting(f))
  /\ Waiting(f) # {} => /\ flight[f].ctx # "cancelled" /\ f \in Used
                        /\ flight[f].stage = "landed" \/ current[flight[f].key] = f

OnFlights == \A c \in Callers : caller[c].pc = "waiting" => caller[c].on \in Flights

LEMMA WaitersTogether ==
  ASSUME OnFlights', \A f \in Flights : WaitersOf(f)'
  PROVE  WaitersServed' /\ WaitersKept'
<1>1. ASSUME NEW c \in Callers, caller'[c].pc = "waiting"
      PROVE  LET f == caller'[c].on
             IN /\ f \in Used' /\ flight'[f].ctx # "cancelled"
                /\ flight'[f].stage = "landed" \/ current'[flight'[f].key] = f
  <2>1. PICK f \in Flights : f = caller'[c].on
    BY <1>1 DEF OnFlights
  <2>2. c \in Waiting(f)'
    BY <1>1, <2>1 DEF Waiting
  <2> QED BY <2>1, <2>2 DEF WaitersOf
<1>2. ASSUME NEW f \in Used', flight'[f].stage # "landed"
      PROVE  flight'[f].waiters = Cardinality({c \in Callers : caller'[c].pc = "waiting"
                                                               /\ caller'[c].on = f})
  <2>1. f \in Flights /\ Aloft(f)'
    BY <1>2 DEF Used, Aloft
  <2> QED BY <2>1 DEF WaitersOf, Waiting
<1>3. WaitersServed'
  BY <1>1, <1>2 DEF WaitersServed
<1>4. WaitersKept'
  BY <1>1 DEF WaitersKept, WaitersOf
<1> QED BY <1>3, <1>4

LEMMA WaitersApart ==
  ASSUME ShareInv, NEW f \in Flights PROVE WaitersOf(f)
<1>1. ASSUME Waiting(f) # {}
      PROVE  /\ flight[f].ctx # "cancelled" /\ f \in Used
             /\ flight[f].stage = "landed" \/ current[flight[f].key] = f
  <2>1. PICK c \in Callers : caller[c].pc = "waiting" /\ caller[c].on = f
    BY <1>1 DEF Waiting
  <2> QED BY <2>1, CallerFacts
<1> QED BY <1>1, FlightFacts DEF WaitersOf

\* A step that changes no flight and no table leaves them as they are.
LEMMA TablesStay ==
  ASSUME ShareInv, flight' = flight, current' = current, failed' = failed
  PROVE  FlightsNumbered' /\ CurrentAloft' /\ CancellationsOwn'
  BY DEF ShareInv, FlightsNumbered, Used, CurrentAloft, Aloft, CancellationsOwn

LEMMA RecallShares ==
  ASSUME ShareInv, NEW c \in Callers, NEW k \in Keys, Recall(c, k)
  PROVE  ShareInv'
<1> DEFINE x == [caller[c] EXCEPT !.got = failed[k].err, !.calls = caller[c].calls + 1]
<1>1. TypeOK /\ failed[k].err \in Errors \ {"cancelled"}
  BY DEF ShareInv, FlightInv, TypeOK, CancellationsOwn
<1>2. /\ x \in Caller /\ x.pc = "idle" /\ x.got = failed[k].err /\ caller[c].pc = "idle"
      /\ caller' = [caller EXCEPT ![c] = x]
  BY <1>1 DEF Recall, TypeOK, Caller
<1> HIDE DEF x
<1>3. /\ caller' \in [Callers -> Caller] /\ caller'[c] = x
      /\ \A d \in Callers \ {c} : caller'[d] = caller[d]
  BY <1>1, <1>2 DEF TypeOK
<1>4. flight' = flight /\ current' = current /\ failed' = failed
  BY DEF Recall
<1>5. TypeOK'
  BY <1>1, <1>3 DEF Recall, TypeOK
<1>6. NotDisturbed'
  BY <1>1, <1>2, <1>3 DEF NotDisturbed, ShareInv, FlightInv
<1>7. \A f : Waiting(f)' = Waiting(f)
  BY <1>2, <1>3 DEF Waiting
<1>8. OnFlights'
  BY <1>2, <1>3, CallerFacts DEF OnFlights
<1>9. ASSUME NEW f \in Flights PROVE WaitersOf(f)'
  BY <1>4, <1>7, WaitersApart DEF WaitersOf, Aloft, Used
<1>10. WaitersServed' /\ WaitersKept'
  BY <1>8, <1>9, WaitersTogether
<1> QED BY <1>4, <1>5, <1>6, <1>10, TablesStay DEF ShareInv, FlightInv

LEMMA CollectShares ==
  ASSUME ShareInv, NEW c \in Callers, Collect(c)
  PROVE  ShareInv'
<1> DEFINE f == caller[c].on
<1>1. /\ TypeOK /\ f \in Flights /\ c \in Waiting(f) /\ flight[f].stage = "landed"
      /\ flight[f].result \in Errors \cup {"value", "left"} /\ flight[f].result # "cancelled"
      /\ Answer(c, flight[f].result)
      /\ flight' = flight /\ current' = current /\ failed' = failed
  BY CallerFacts, FlightFacts DEF Collect, ShareInv, FlightInv, Flight
<1>2. /\ caller' \in [Callers -> Caller]
      /\ \A d \in Callers \ {c} : caller'[d] = caller[d]
      /\ caller'[c].pc = "idle" /\ caller'[c].got = flight[f].result
      /\ \A g : Waiting(g)' = Waiting(g) \ {c}
  BY <1>1, Answered
<1>3. TypeOK'
  BY <1>1, <1>2 DEF Collect, TypeOK
<1>4. NotDisturbed'
  BY <1>1, <1>2 DEF NotDisturbed, ShareInv, FlightInv
<1>5. OnFlights'
  BY <1>2, CallerFacts DEF OnFlights
<1>6. ASSUME NEW g \in Flights PROVE WaitersOf(g)'
  <2>1. WaitersOf(g)
    BY WaitersApart
  <2>2. CASE c \in Waiting(g)
    <3>1. g = f
      BY <1>1, <2>2 DEF Waiting
    <3>2. Cardinality(Waiting(g) \ {c}) = Cardinality(Waiting(g)) - 1
      BY <2>2, WaitingFinite, FS_RemoveElement
    <3>3. Waiting(g)' = Waiting(g) \ {c} /\ ~Aloft(g)
      BY <1>1, <1>2, <3>1 DEF Aloft
    <3>4. Cardinality(Waiting(g)) \in Nat /\ flight[g].waiters \in Int
      BY WaitingFinite, FlightFacts
    <3> QED BY <1>1, <2>1, <2>2, <3>2, <3>3, <3>4 DEF WaitersOf, Aloft, Used
  <2>3. CASE c \notin Waiting(g)
    <3>1. Waiting(g)' = Waiting(g)
      BY <1>2, <2>3
    <3> QED BY <1>1, <2>1, <3>1 DEF WaitersOf, Aloft, Used
  <2> QED BY <2>2, <2>3
<1>7. WaitersServed' /\ WaitersKept'
  BY <1>5, <1>6, WaitersTogether
<1> QED BY <1>1, <1>3, <1>4, <1>7, TablesStay DEF ShareInv, FlightInv

LEMMA LeaveShares ==
  ASSUME ShareInv, NEW c \in Callers, Leave(c)
  PROVE  ShareInv'
<1>1. PICK f \in Flights : f = caller[c].on /\ f \in Used /\ c \in Waiting(f)
  BY CallerFacts DEF Leave
<1> DEFINE w == flight[f].waiters - 1
           ctx == IF w = 0 /\ flight[f].ctx = "live" THEN "cancelled" ELSE flight[f].ctx
           x == [flight[f] EXCEPT !.waiters = w, !.ctx = ctx]
<1>2. /\ TypeOK /\ Answer(c, "left") /\ failed' = failed
      /\ current' = IF w = 0 THEN Retired(f) ELSE current
  BY <1>1 DEF Leave, Deserted, ShareInv, FlightInv
<1>3. /\ x \in Flight /\ x.waiters = w /\ x.stage = flight[f].stage
      /\ x.key = flight[f].key /\ x.result = flight[f].result /\ x.ctx = ctx
  <2>1. flight[f] \in Flight /\ w \in Int
    BY FlightFacts
  <2> HIDE DEF w
  <2> QED BY <2>1 DEF Flight
<1>4. flight' = [flight EXCEPT ![f] = x]
  BY <1>1, <1>2 DEF Leave, Deserted, TypeOK
<1> HIDE DEF x
<1>5. /\ flight' \in [Flights -> Flight] /\ flight'[f] = x
      /\ \A g \in Flights \ {f} : flight'[g] = flight[g]
  BY <1>2, <1>3, <1>4 DEF TypeOK
<1>6. /\ caller' \in [Callers -> Caller]
      /\ \A d \in Callers \ {c} : caller'[d] = caller[d]
      /\ caller'[c].pc = "idle" /\ caller'[c].got = "left"
      /\ \A g : Waiting(g)' = Waiting(g) \ {c}
  BY <1>2, Answered
<1>7. Cardinality(Waiting(f) \ {c}) = Cardinality(Waiting(f)) - 1
      /\ Cardinality(Waiting(f)) \in Nat
  BY <1>1, WaitingFinite, FS_RemoveElement
\* Who else waits for the flight keeps it from being deserted.
<1>8. w = 0 => Waiting(f) \ {c} = {}
  <2>1. SUFFICES ASSUME w = 0, NEW d \in Waiting(f) \ {c} PROVE FALSE
    OBVIOUS
  <2>2. Cardinality(Waiting(f) \ {c}) <= 0
    BY <1>7, <2>1, FlightFacts
  <2>3. IsFiniteSet(Waiting(f) \ {c})
    BY WaitingFinite, FS_RemoveElement
  <2>4. Cardinality(Waiting(f) \ {c}) \in Nat /\ Cardinality(Waiting(f) \ {c}) # 0
    BY <2>1, <2>3, FS_EmptySet, FS_CardinalityType
  <2> QED BY <2>2, <2>4
<1>9. /\ \A k \in Keys : current'[k] = current[k] \/ (w = 0 /\ current[k] = f /\ current'[k] = 0)
      /\ w = 0 => \A k \in Keys : current'[k] # f
      /\ current' \in [Keys -> {0} \cup Flights]
  <2>1. /\ flight[f].key \in Keys /\ current \in [Keys -> {0} \cup Flights]
        /\ \A k \in Keys : current[k] = f => flight[f].key = k
    BY FlightFacts, <1>2 DEF TypeOK, ShareInv, CurrentAloft, Flights
  <2>2. f # 0
    BY DEF Flights
  <2> QED BY <1>2, <2>1, <2>2 DEF Retired
<1>10. TypeOK'
  BY <1>2, <1>5, <1>6, <1>9 DEF TypeOK, Leave
<1>11. NotDisturbed'
  BY <1>6 DEF NotDisturbed, ShareInv, FlightInv
<1>12. Used' = Used
  BY <1>3, <1>5 DEF Used
<1>13. CurrentAloft'
  <2>1. ASSUME NEW k \in Keys, NEW g \in Flights, current'[k] = g
        PROVE  Aloft(g)' /\ flight'[g].key = k /\ flight'[g].ctx # "cancelled"
    <3>1. g # 0 /\ current[k] = g
      BY <1>9, <2>1 DEF Flights
    <3>2. Aloft(g) /\ flight[g].key = k /\ flight[g].ctx # "cancelled"
      BY <3>1 DEF ShareInv, CurrentAloft
    <3>3. g = f => w # 0
      BY <1>9, <2>1
    <3> QED BY <1>3, <1>5, <2>1, <3>2, <3>3 DEF Aloft
  <2> QED BY <1>9, <2>1 DEF CurrentAloft
<1>14. CancellationsOwn'
  BY <1>2, <1>3, <1>5, FlightFacts DEF CancellationsOwn, ShareInv
<1>15. OnFlights'
  BY <1>6, CallerFacts DEF OnFlights
<1>16. ASSUME NEW g \in Flights PROVE WaitersOf(g)'
  <2>1. WaitersOf(g)
    BY WaitersApart
  <2>2. CASE g = f
    <3>1. flight[f].waiters \in Int /\ Waiting(f)' = Waiting(f) \ {c}
      BY <1>6, FlightFacts
    <3>2. Cardinality(Waiting(f)') <= w
      BY <1>7, <2>1, <2>2, <3>1 DEF WaitersOf
    <3>3. Aloft(f)' => w = Cardinality(Waiting(f)')
      BY <1>3, <1>5, <1>7, <2>1, <2>2, <3>1 DEF WaitersOf, Aloft
    <3>4. Waiting(f)' # {} => w # 0 /\ current' = current /\ ctx = flight[f].ctx
      BY <1>2, <1>8, <3>1
    <3> QED BY <1>3, <1>5, <1>12, <2>1, <2>2, <3>1, <3>2, <3>3, <3>4 DEF WaitersOf
  <2>3. CASE g # f
    <3>1. Waiting(g)' = Waiting(g) /\ flight'[g] = flight[g]
      BY <1>1, <1>5, <1>6, <2>3 DEF Waiting
    <3>2. flight[g].key \in Keys
      BY FlightFacts
    <3>3. current[flight[g].key] = g => current'[flight[g].key] = g
      BY <1>9, <2>3, <3>2
    <3> QED BY <1>12, <2>1, <3>1, <3>3 DEF WaitersOf, Aloft
  <2> QED BY <2>2, <2>3
<1>17. WaitersServed' /\ WaitersKept'
  BY <1>15, <1>16, WaitersTogether
<1>18. FlightsNumbered'
  BY <1>12 DEF FlightsNumbered, ShareInv
<1> QED BY <1>10, <1>11, <1>13, <1>14, <1>17, <1>18 DEF ShareInv, FlightInv

\* The flight a caller gets on is new, or is offered to everybody.
LEMMA Boarding ==
  ASSUME ShareInv, NEW c \in Callers, NEW k \in Keys, Join(c, k)
  PROVE  \E f \in Flights, x \in Flight :
           /\ flight' = [flight EXCEPT ![f] = x]
           /\ current' = [current EXCEPT ![k] = f] /\ current[k] \in {0, f}
           /\ caller' = [caller EXCEPT ![c] = [pc |-> "waiting", on |-> f,
                           calls |-> caller[c].calls + 1, got |-> "nothing"]]
           /\ x.stage \notin {"unused", "landed"} /\ x.key = k /\ x.ctx # "cancelled"
           /\ x.result # "cancelled" /\ x.waiters = Cardinality(Waiting(f)) + 1
           /\ \/ f \in Used /\ current[k] = f /\ x.stage = flight[f].stage
              \/ x.stage = "lookup" /\ \E n \in 0..MaxFlights : f = n + 1 /\ Used = 1..n
<1>1. /\ TypeOK /\ MaxFlights \in Nat /\ OperationTimeout \in Nat
      /\ k \in Keys /\ NumModels \in Nat \ {0}
  BY TranslatorAssumption DEF ShareInv, FlightInv, TranslatorAssumption
<1>2. CASE current[k] = 0
  <2>1. PICK n \in 0..MaxFlights : Used = 1..n
    BY DEF ShareInv, FlightsNumbered
  <2>2. Cardinality(Used) = n
    <3>1. n \in Nat /\ Cardinality(1..n) = IF 1 > n THEN 0 ELSE n - 1 + 1
      BY <1>1, <2>1, FS_Interval
    <3> QED BY <2>1, <3>1
  <2> DEFINE f == n + 1
             x == [NewFlight(k) EXCEPT !.waiters = NewFlight(k).waiters + 1]
  <2>3. 1 + Cardinality(Used) = f
    BY <2>2
  <2>4. f \in Flights /\ flight' = [flight EXCEPT ![f] = x]
        /\ current' = [current EXCEPT ![k] = f]
        /\ caller' = [caller EXCEPT ![c] = [pc |-> "waiting", on |-> f,
                           calls |-> caller[c].calls + 1, got |-> "nothing"]]
    BY <1>2, <2>3 DEF Join
  <2>5. /\ x \in Flight /\ x.stage = "lookup" /\ x.key = k /\ x.ctx = "live"
        /\ x.result = "unavailable" /\ x.waiters = 1
    BY <1>1 DEF NewFlight, Flight, Stages, Errors, Models
  <2>6. f \notin Used
    BY <2>1
  <2>7. Waiting(f) = {}
    BY <2>4, <2>6, FlightFacts
  <2>8. Cardinality(Waiting(f)) = 0
    BY <2>7, FS_EmptySet
  <2>9. f = n + 1
    OBVIOUS
  <2> HIDE DEF f, x
  <2>10. \E m \in 0..MaxFlights : f = m + 1 /\ Used = 1..m
    BY <2>1, <2>9
  <2>11. x.waiters = Cardinality(Waiting(f)) + 1
    BY <2>5, <2>8
  <2> QED BY <1>2, <2>4, <2>5, <2>10, <2>11
<1>3. CASE current[k] # 0
  <2>1. PICK f \in Flights : f = current[k]
    BY <1>1, <1>3 DEF TypeOK
  <2> DEFINE x == [flight[f] EXCEPT !.waiters = flight[f].waiters + 1]
  <2>2. /\ flight' = [flight EXCEPT ![f] = x] /\ current' = [current EXCEPT ![k] = f]
        /\ caller' = [caller EXCEPT ![c] = [pc |-> "waiting", on |-> f,
                           calls |-> caller[c].calls + 1, got |-> "nothing"]]
    BY <1>3, <2>1 DEF Join
  <2>3. /\ Aloft(f) /\ flight[f].key = k /\ flight[f].ctx # "cancelled"
        /\ flight[f].waiters = Cardinality(Waiting(f)) /\ flight[f].result # "cancelled"
        /\ flight[f] \in Flight
    BY <1>3, <2>1, FlightFacts DEF ShareInv, CurrentAloft
  <2>4. /\ x \in Flight /\ x.stage = flight[f].stage /\ x.key = k
        /\ x.ctx # "cancelled" /\ x.result # "cancelled"
        /\ x.waiters = Cardinality(Waiting(f)) + 1
    BY <2>3 DEF Flight
  <2>5. f \in Used
    BY <2>3 DEF Used, Aloft
  <2> HIDE DEF x
  <2> QED BY <2>1, <2>2, <2>3, <2>4, <2>5 DEF Aloft
<1> QED BY <1>2, <1>3

LEMMA JoinShares ==
  ASSUME ShareInv, NEW c \in Callers, NEW k \in Keys, Join(c, k)
  PROVE  ShareInv'
<1>1. PICK f \in Flights, x \in Flight :
           /\ flight' = [flight EXCEPT ![f] = x]
           /\ current' = [current EXCEPT ![k] = f] /\ current[k] \in {0, f}
           /\ caller' = [caller EXCEPT ![c] = [pc |-> "waiting", on |-> f,
                           calls |-> caller[c].calls + 1, got |-> "nothing"]]
           /\ x.stage \notin {"unused", "landed"} /\ x.key = k /\ x.ctx # "cancelled"
           /\ x.result # "cancelled" /\ x.waiters = Cardinality(Waiting(f)) + 1
           /\ \/ f \in Used /\ current[k] = f /\ x.stage = flight[f].stage
              \/ x.stage = "lookup" /\ \E n \in 0..MaxFlights : f = n + 1 /\ Used = 1..n
  BY Boarding
<1> DEFINE y == [pc |-> "waiting", on |-> f, calls |-> caller[c].calls + 1,
                 got |-> "nothing"]
<1>2. TypeOK /\ caller[c].pc = "idle" /\ failed' = failed
  BY DEF Join, ShareInv, FlightInv
<1>3. y \in Caller /\ y.pc = "waiting" /\ y.on = f /\ y.got = "nothing"
  BY <1>2 DEF TypeOK, Caller, Flights
<1>4. caller' = [caller EXCEPT ![c] = y]
  BY <1>1
<1> HIDE DEF y
<1>5. /\ flight' \in [Flights -> Flight] /\ flight'[f] = x
      /\ \A g \in Flights \ {f} : flight'[g] = flight[g]
      /\ caller' \in [Callers -> Caller] /\ caller'[c] = y
      /\ \A d \in Callers \ {c} : caller'[d] = caller[d]
      /\ current' \in [Keys -> {0} \cup Flights] /\ current'[k] = f
      /\ \A q \in Keys \ {k} : current'[q] = current[q]
  BY <1>1, <1>2, <1>3, <1>4 DEF TypeOK
<1>6. TypeOK'
  BY <1>2, <1>5 DEF TypeOK, Join
<1>7. NotDisturbed'
  BY <1>3, <1>5 DEF NotDisturbed, ShareInv, FlightInv
<1>8. Used' = Used \cup {f}
  BY <1>1, <1>5 DEF Used
<1>9. FlightsNumbered'
  <2>1. CASE f \in Used
    <3>1. Used' = Used
      BY <1>8, <2>1
    <3> QED BY <3>1 DEF FlightsNumbered, ShareInv
  <2>2. ASSUME NEW n \in 0..MaxFlights, f = n + 1, Used = 1..n
        PROVE  FlightsNumbered'
    <3>1. MaxFlights \in Nat /\ n + 1 \in 0..MaxFlights
      BY <2>2, TranslatorAssumption DEF Flights, TranslatorAssumption
    <3>2. Used' = 1..(n + 1)
      BY <1>8, <2>2, <3>1
    <3> QED BY <3>1, <3>2 DEF FlightsNumbered
  <2> QED BY <1>1, <2>1, <2>2
<1>10. CurrentAloft'
  <2>1. ASSUME NEW q \in Keys, NEW g \in Flights, current'[q] = g
        PROVE  Aloft(g)' /\ flight'[g].key = q /\ flight'[g].ctx # "cancelled"
    <3>1. CASE q = k
      BY <1>1, <1>5, <2>1, <3>1 DEF Aloft
    <3>2. CASE q # k
      <4>1. g # 0 /\ current[q] = g
        BY <1>5, <2>1, <3>2 DEF Flights
      <4>2. Aloft(g) /\ flight[g].key = q /\ flight[g].ctx # "cancelled"
        BY <4>1 DEF ShareInv, CurrentAloft
      <4>3. g # f
        <5>1. CASE f \notin Used
          BY <4>2, <5>1 DEF Used, Aloft
        <5>2. CASE f \in Used /\ current[k] = f
          <6>1. flight[f].key = k
            BY <5>2 DEF ShareInv, CurrentAloft, Flights
          <6> QED BY <3>2, <4>2, <6>1
        <5>3. f \in Used => current[k] = f
          BY <1>1
        <5> QED BY <5>1, <5>2, <5>3
      <4> QED BY <1>5, <4>2, <4>3 DEF Aloft
    <3> QED BY <3>1, <3>2
  <2> QED BY <1>5, <2>1 DEF CurrentAloft
<1>11. CancellationsOwn'
  BY <1>1, <1>2, <1>5 DEF CancellationsOwn, ShareInv
<1>12. OnFlights'
  BY <1>3, <1>5, CallerFacts DEF OnFlights
<1>13. ASSUME NEW g \in Flights PROVE WaitersOf(g)'
  <2>1. WaitersOf(g)
    BY WaitersApart
  <2>2. CASE g = f
    <3>1. Waiting(f)' = Waiting(f) \cup {c} /\ c \notin Waiting(f)
      BY <1>2, <1>3, <1>5 DEF Waiting
    <3>2. Cardinality(Waiting(f)') = Cardinality(Waiting(f)) + 1
          /\ Cardinality(Waiting(f)) \in Nat
      BY <3>1, WaitingFinite, OneMore
    <3>3. f \in Used'
      BY <1>8
    <3> QED BY <1>1, <1>5, <2>2, <3>2, <3>3 DEF WaitersOf
  <2>3. CASE g # f
    <3>1. Waiting(g)' = Waiting(g) /\ flight'[g] = flight[g]
      BY <1>2, <1>3, <1>5, <2>3 DEF Waiting
    <3>2. flight[g].key \in Keys /\ g # 0
      BY FlightFacts DEF Flights
    <3>3. current[flight[g].key] = g => current'[flight[g].key] = g
      BY <1>1, <1>5, <2>3, <3>2
    <3>4. g \in Used => g \in Used'
      BY <1>8
    <3> QED BY <2>1, <3>1, <3>3, <3>4 DEF WaitersOf, Aloft
  <2> QED BY <2>2, <2>3
<1>14. WaitersServed' /\ WaitersKept'
  BY <1>12, <1>13, WaitersTogether
<1> QED BY <1>6, <1>7, <1>9, <1>10, <1>11, <1>14 DEF ShareInv, FlightInv

-----------------------------------------------------------------------------
(* The flights, and time.                                                  *)

\* A flight that does not land yet is seen by nobody else.
LEMMA FlightShares ==
  ASSUME ShareInv, NEW f \in Flights, FlightStep(f), ~Land(f)
  PROVE  ShareInv'
<1>1. /\ TypeOK /\ Continues(f) /\ Aloft(f)
      /\ flight'[f].stage \notin {"unused", "landed"}
      /\ caller' = caller /\ current' = current /\ failed' = failed
  BY FlightContinues DEF ShareInv, FlightInv
<1>2. /\ \A g \in Flights \ {f} : flight'[g] = flight[g]
      /\ SameFlight(flight[f], flight'[f])
      /\ flight'[f].result = "cancelled" => flight[f].ctx = "cancelled"
  BY <1>1, FlightFacts DEF Continues
<1>3. TypeOK'
  BY <1>1, FlightTypes DEF TypeOK, Continues
<1>4. NotDisturbed'
  BY <1>1 DEF NotDisturbed, ShareInv, FlightInv
<1>5. \A g \in Flights : /\ Aloft(g)' <=> Aloft(g)
                         /\ flight'[g].stage = "unused" <=> flight[g].stage = "unused"
                         /\ flight'[g].stage = "landed" <=> flight[g].stage = "landed"
                         /\ SameFlight(flight[g], flight'[g])
  BY <1>1, <1>2 DEF Aloft, SameFlight
<1>6. Used' = Used
  BY <1>5 DEF Used
<1>7. FlightsNumbered'
  BY <1>6 DEF FlightsNumbered, ShareInv
<1>8. CurrentAloft'
  <2>1. ASSUME NEW k \in Keys, NEW g \in Flights, current'[k] = g
        PROVE  Aloft(g)' /\ flight'[g].key = k /\ flight'[g].ctx # "cancelled"
    <3>1. current[k] = g /\ g # 0
      BY <1>1, <2>1 DEF Flights
    <3> QED BY <1>5, <3>1 DEF ShareInv, CurrentAloft, SameFlight
  <2> QED BY <1>3, <2>1 DEF CurrentAloft, TypeOK
<1>9. CancellationsOwn'
  BY <1>1, <1>2 DEF CancellationsOwn, ShareInv, SameFlight
<1>10. OnFlights' /\ \A g : Waiting(g)' = Waiting(g)
  BY <1>1, CallerFacts DEF OnFlights, Waiting
<1>11. ASSUME NEW g \in Flights PROVE WaitersOf(g)'
  BY <1>1, <1>5, <1>6, <1>10, WaitersApart DEF WaitersOf, SameFlight
<1>12. WaitersServed' /\ WaitersKept'
  BY <1>10, <1>11, WaitersTogether
<1> QED BY <1>3, <1>4, <1>7, <1>8, <1>9, <1>12 DEF ShareInv, FlightInv

\* A flight that lands leaves the table and is remembered when it failed.
LEMMA LandShares ==
  ASSUME ShareInv, NEW f \in Flights, Land(f)
  PROVE  ShareInv'
<1>1. /\ TypeOK /\ Continues(f) /\ Aloft(f) /\ flight'[f].stage = "landed"
      /\ caller' = caller /\ FlightStep(f) /\ flight[f].key \in Keys
      /\ flight[f].result \in Errors \cup {"value"}
  BY FlightContinues, FlightFacts DEF ShareInv, FlightInv, FlightStep, Flight
<1>2. /\ \A g \in Flights \ {f} : flight'[g] = flight[g]
      /\ SameFlight(flight[f], flight'[f])
      /\ flight'[f].result = "cancelled" => flight[f].ctx = "cancelled"
  BY <1>1, FlightFacts DEF Continues
<1>3. /\ \A k \in Keys : \/ current'[k] = current[k] /\ current[k] # f
                         \/ current[k] = f /\ current'[k] = 0
      /\ current' \in [Keys -> {0} \cup Flights]
  <2>1. /\ current \in [Keys -> {0} \cup Flights]
        /\ \A k \in Keys : current[k] = f => flight[f].key = k
    BY <1>1 DEF TypeOK, ShareInv, CurrentAloft, Flights
  <2> QED BY <1>1, <2>1 DEF Land, Owns
<1>4. /\ failed' \in FailureTable /\ Cardinality(Live(failed')) <= MaxFailures
      /\ \A k \in Keys : failed'[k].err # "cancelled"
  <2>1. CASE Owns(f) /\ flight[f].result \notin {"value", "cancelled"}
    <3>1. flight[f].result \in Errors /\ failed' \in Remembered(flight[f].key, flight[f].result)
      BY <1>1, <2>1 DEF Land
    <3>2. \A k \in Keys : failed'[k].err \in {failed[k].err, flight[f].result}
      BY <1>1, <3>1, RememberedBounded
    <3> QED BY <1>1, <2>1, <3>1, <3>2, RememberedBounded DEF ShareInv, CancellationsOwn
  <2>2. CASE failed' = failed
    BY <1>1, <2>2 DEF TypeOK, FailureTable, Live, ShareInv, CancellationsOwn
  <2> QED BY <2>1, <2>2 DEF Land
<1>5. TypeOK'
  <2>1. Cardinality({k \in Keys : failed'[k].left > 0}) <= MaxFailures
    BY <1>4 DEF Live
  <2> QED BY <1>1, <1>3, <1>4, <2>1, FlightTypes DEF TypeOK, Continues, FailureTable
<1>6. NotDisturbed'
  BY <1>1 DEF NotDisturbed, ShareInv, FlightInv
<1>7. Used' = Used
  BY <1>1, <1>2 DEF Used, Aloft
<1>8. FlightsNumbered'
  BY <1>7 DEF FlightsNumbered, ShareInv
<1>9. CurrentAloft'
  <2>1. ASSUME NEW k \in Keys, NEW g \in Flights, current'[k] = g
        PROVE  Aloft(g)' /\ flight'[g].key = k /\ flight'[g].ctx # "cancelled"
    <3>1. current[k] = g /\ g # 0 /\ g # f
      BY <1>3, <2>1 DEF Flights
    <3> QED BY <1>2, <3>1 DEF ShareInv, CurrentAloft, Aloft
  <2> QED BY <1>3, <2>1 DEF CurrentAloft
<1>10. CancellationsOwn'
  BY <1>2, <1>4 DEF CancellationsOwn, ShareInv, SameFlight
<1>11. OnFlights' /\ \A g : Waiting(g)' = Waiting(g)
  BY <1>1, CallerFacts DEF OnFlights, Waiting
<1>12. ASSUME NEW g \in Flights PROVE WaitersOf(g)'
  <2>1. WaitersOf(g)
    BY WaitersApart
  <2>2. CASE g = f
    BY <1>1, <1>2, <1>7, <1>11, <2>1, <2>2 DEF WaitersOf, SameFlight, Aloft
  <2>3. CASE g # f
    <3>1. flight'[g] = flight[g] /\ flight[g].key \in Keys /\ Waiting(g)' = Waiting(g)
      BY <1>2, <1>11, <2>3, FlightFacts
    <3>2. current[flight[g].key] = g => current'[flight[g].key] = g
      BY <1>3, <2>3, <3>1
    <3> QED BY <1>7, <2>1, <3>1, <3>2 DEF WaitersOf, Aloft
  <2> QED BY <2>2, <2>3
<1>13. WaitersServed' /\ WaitersKept'
  BY <1>11, <1>12, WaitersTogether
<1> QED BY <1>5, <1>6, <1>8, <1>9, <1>10, <1>13 DEF ShareInv, FlightInv

\* Time may end a flight by its deadline, but cancels nothing.
LEMMA TickFlights ==
  ASSUME TypeOK, Tick
  PROVE  /\ flight' \in [Flights -> Flight]
         /\ \A f \in Flights : /\ flight'[f].stage = flight[f].stage
                               /\ flight'[f].key = flight[f].key
                               /\ flight'[f].waiters = flight[f].waiters
                               /\ flight'[f].result = flight[f].result
                               /\ flight'[f].ctx = "cancelled" <=> flight[f].ctx = "cancelled"
<1>1. ASSUME NEW v \in Flight, v.left > 0
      PROVE  /\ Aged(v) \in Flight /\ Aged(v).stage = v.stage /\ Aged(v).key = v.key
             /\ Aged(v).waiters = v.waiters /\ Aged(v).result = v.result
             /\ Aged(v).ctx = "cancelled" <=> v.ctx = "cancelled"
  <2> DEFINE ctx == IF v.left = 1 /\ v.ctx = "live" THEN "deadline" ELSE v.ctx
             left == v.left - 1
  <2>1. /\ ctx \in {"live", "cancelled", "deadline"} /\ left \in Nat
        /\ ctx = "cancelled" <=> v.ctx = "cancelled"
    BY <1>1 DEF Flight
  <2>2. Aged(v) = [v EXCEPT !.left = left, !.ctx = ctx]
    BY DEF Aged
  <2> HIDE DEF ctx, left
  <2> QED BY <2>1, <2>2 DEF Flight
<1>2. ASSUME NEW f \in Flights
      PROVE  /\ flight'[f] \in Flight
             /\ flight'[f].stage = flight[f].stage
             /\ flight'[f].key = flight[f].key
             /\ flight'[f].waiters = flight[f].waiters
             /\ flight'[f].result = flight[f].result
             /\ flight'[f].ctx = "cancelled" <=> flight[f].ctx = "cancelled"
  <2>1. flight[f] \in Flight
    BY DEF TypeOK
  <2>2. \/ flight'[f] = flight[f]
        \/ flight'[f] = Aged(flight[f]) /\ flight[f].left > 0
    BY DEF Tick, Timing
  <2> QED BY <1>1, <2>1, <2>2
<1>3. flight' = [f \in Flights |-> flight'[f]]
  BY DEF Tick
<1> QED BY <1>2, <1>3

LEMMA TickTypes ==
  ASSUME TypeOK, Tick
  PROVE  TypeOK' /\ \A k \in Keys : failed'[k].err = failed[k].err
<1>1. \A n \in Nat : Less(n) \in Nat /\ Less(n) <= n
  BY DEF Less
<1>2. /\ failed \in FailureTable /\ FailureTTL \in Nat /\ MaxFailures \in Nat
      /\ IsFiniteSet(Keys) /\ Cardinality(Live(failed)) <= MaxFailures
  BY TranslatorAssumption DEF TypeOK, FailureTable, Live, TranslatorAssumption
<1>3. \A k \in Keys : /\ failed'[k] \in [left : 0..FailureTTL, err : Errors]
                      /\ failed'[k].left <= failed[k].left
                      /\ failed'[k].err = failed[k].err
  BY <1>2 DEF Tick, FailureTable, Less
<1>4. failed' \in FailureTable
  BY <1>3 DEF Tick, FailureTable
<1>5. Cardinality(Live(failed')) <= MaxFailures
  <2>1. Live(failed') \subseteq Live(failed) /\ IsFiniteSet(Live(failed))
    BY <1>2, <1>3, FS_Subset DEF Live, FailureTable
  <2>2. /\ Cardinality(Live(failed')) <= Cardinality(Live(failed))
        /\ Cardinality(Live(failed')) \in Nat /\ Cardinality(Live(failed)) \in Nat
    BY <2>1, FS_Subset, FS_CardinalityType
  <2> QED BY <1>2, <2>2
<1>6. model' \in [Models -> [failures : Nat, left : Nat]]
  BY <1>1 DEF Tick, TypeOK
<1>7. Cardinality({k \in Keys : failed'[k].left > 0}) <= MaxFailures
  BY <1>5 DEF Live
<1>8. failed' \in [Keys -> [left : 0..FailureTTL, err : Errors]]
  BY <1>4 DEF FailureTable
<1>9. next' \in Nat /\ rest' \in Nat /\ hush' \in Nat
  BY <1>1 DEF Tick, TypeOK
<1> QED BY <1>3, <1>6, <1>7, <1>8, <1>9, TickFlights DEF Tick, TypeOK

LEMMA TickShares == ASSUME ShareInv, Tick PROVE ShareInv'
<1>1. TypeOK /\ caller' = caller /\ current' = current
  BY DEF ShareInv, FlightInv, Tick
<1>2. \A f \in Flights : /\ flight'[f].stage = flight[f].stage
                         /\ flight'[f].key = flight[f].key
                         /\ flight'[f].waiters = flight[f].waiters
                         /\ flight'[f].result = flight[f].result
                         /\ flight'[f].ctx = "cancelled" <=> flight[f].ctx = "cancelled"
  BY <1>1, TickFlights
<1>3. TypeOK' /\ \A k \in Keys : failed'[k].err = failed[k].err
  BY <1>1, TickTypes
<1>4. NotDisturbed'
  BY <1>1 DEF NotDisturbed, ShareInv, FlightInv
<1>5. Used' = Used /\ \A f \in Flights : Aloft(f)' <=> Aloft(f)
  BY <1>2 DEF Used, Aloft
<1>6. FlightsNumbered'
  BY <1>5 DEF FlightsNumbered, ShareInv
<1>7. CurrentAloft'
  <2>1. ASSUME NEW k \in Keys, NEW g \in Flights, current'[k] = g
        PROVE  Aloft(g)' /\ flight'[g].key = k /\ flight'[g].ctx # "cancelled"
    <3>1. current[k] = g /\ g # 0
      BY <1>1, <2>1 DEF Flights
    <3> QED BY <1>2, <1>5, <3>1 DEF ShareInv, CurrentAloft
  <2> QED BY <1>3, <2>1 DEF CurrentAloft, TypeOK
<1>8. CancellationsOwn'
  BY <1>2, <1>3 DEF CancellationsOwn, ShareInv
<1>9. OnFlights' /\ \A g : Waiting(g)' = Waiting(g)
  BY <1>1, CallerFacts DEF OnFlights, Waiting
<1>10. ASSUME NEW g \in Flights PROVE WaitersOf(g)'
  BY <1>1, <1>2, <1>5, <1>9, WaitersApart DEF WaitersOf
<1>11. WaitersServed' /\ WaitersKept'
  BY <1>9, <1>10, WaitersTogether
<1> QED BY <1>3, <1>4, <1>6, <1>7, <1>8, <1>11 DEF ShareInv, FlightInv

LEMMA ShareInit == Init => ShareInv
<1> SUFFICES ASSUME Init PROVE ShareInv
  OBVIOUS
<1>1. TypeOK
  BY InitType
<1>2. /\ \A c \in Callers : caller[c].pc = "idle" /\ caller[c].got = "nothing"
      /\ \A f \in Flights : /\ flight[f].stage = "unused" /\ flight[f].waiters = 0
                            /\ flight[f].result = "unavailable"
      /\ \A k \in Keys : current[k] = 0 /\ failed[k].err = "unavailable"
  BY DEF Init, NewFlight
<1>3. \A f : Waiting(f) = {}
  BY <1>2 DEF Waiting
<1>4. \A f : Cardinality(Waiting(f)) = 0
  BY <1>3, FS_EmptySet
<1>5. Used = {} /\ 0 \in 0..MaxFlights
  BY <1>2, TranslatorAssumption DEF Used, TranslatorAssumption
<1>6. FlightsNumbered
  <2>1. Used = 1..0
    BY <1>5
  <2> QED BY <1>5, <2>1 DEF FlightsNumbered
<1>7. WaitersServed /\ NotDisturbed /\ CurrentAloft /\ CancellationsOwn
  BY <1>2, <1>5 DEF WaitersServed, NotDisturbed, CurrentAloft, CancellationsOwn
<1>8. WaitersKept
  BY <1>2, <1>4 DEF WaitersKept
<1> QED BY <1>1, <1>6, <1>7, <1>8 DEF ShareInv, FlightInv

LEMMA ShareStep == ShareInv /\ [Next]_vars => ShareInv'
<1> SUFFICES ASSUME ShareInv, [Next]_vars PROVE ShareInv'
  OBVIOUS
<1>1. CASE UNCHANGED vars
  <2>1. TypeOK' /\ NotDisturbed' /\ WaitersServed'
    BY <1>1 DEF vars, ShareInv, FlightInv, TypeOK, NotDisturbed, WaitersServed, Used
  <2>2. FlightsNumbered' /\ CurrentAloft' /\ CancellationsOwn' /\ WaitersKept'
    BY <1>1, TablesStay DEF vars, ShareInv, WaitersKept, Waiting, Used
  <2> QED BY <2>1, <2>2 DEF ShareInv, FlightInv
<1>2. CASE Next
  BY <1>2, RecallShares, JoinShares, LeaveShares, CollectShares, FlightShares,
     LandShares, TickShares DEF Next
<1> QED BY <1>1, <1>2

\* Callers and flights agree in all states: flights are numbered as they start,
\* the one in the table is under way and not cancelled, and nobody who waits is
\* left out of the count (Translate, run and cacheFailure of translate.go).
THEOREM ShareInvariant == Spec => []ShareInv
  BY ShareInit, ShareStep, PTL DEF Spec

\* Whoever waits is served, by a flight nobody else's leaving cancels, and no
\* caller is answered with the cancellation of another; the failure table stays
\* within its bound (translate.go).
THEOREM FlightsShared == Spec => []FlightInv
<1>1. ShareInv => FlightInv
  BY DEF ShareInv
<1> QED BY ShareInvariant, <1>1, PTL

-----------------------------------------------------------------------------
(* The gate and the pauses of the provider.                                *)

Busy(f) == flight[f].stage \in {"pacing", "calling"}

\* The stages, one action at a time.
LEMMA Stagings ==
  ASSUME TypeOK, NEW f \in Flights
  PROVE  /\ \A result : Approach(f, result) => flight'[f].stage = "landing"
         /\ \A stage : flight' = [flight EXCEPT ![f].stage = stage]
                        => flight'[f].stage = stage
         /\ \A i : flight' = [flight EXCEPT ![f].stage = "calling", ![f].on = i]
                    => flight'[f].stage = "calling"
         /\ \A r : Succeed(f, r) => flight'[f].stage = "storing"
         /\ \A r, quota : Fail(f, quota, r) => flight'[f].stage \in {"gate", "landing"}
<1>2. \A result : Approach(f, result) => flight'[f].stage = "landing"
  BY DEF Approach, TypeOK, Flight
<1>3. \A stage : flight' = [flight EXCEPT ![f].stage = stage] => flight'[f].stage = stage
  BY DEF TypeOK, Flight
<1>4. \A i : flight' = [flight EXCEPT ![f].stage = "calling", ![f].on = i]
             => flight'[f].stage = "calling"
  BY DEF TypeOK, Flight
<1>5. \A r : Succeed(f, r) => flight'[f].stage = "storing"
  BY DEF Succeed, TypeOK, Flight
<1>6. ASSUME NEW r, NEW quota, Fail(f, quota, r)
      PROVE  flight'[f].stage \in {"gate", "landing"}
  <2>1. CASE Dead(f)
    BY <1>2, <1>6, <2>1 DEF Fail
  <2>2. CASE ~Dead(f)
    <3> DEFINE tried == flight[f].tried \cup {flight[f].on}
               x == [flight[f] EXCEPT !.stage = IF tried # Models THEN "gate"
                                                                 ELSE "landing",
                                      !.tried = tried, !.result = "provider"]
    <3>1. flight' = [flight EXCEPT ![f] = x]
      BY <1>6, <2>2 DEF TypeOK, Fail
    <3> HIDE DEF tried
    <3>2. x.stage \in {"gate", "landing"}
      BY DEF TypeOK, Flight
    <3> HIDE DEF x
    <3> QED BY <3>1, <3>2 DEF TypeOK
  <2> QED BY <2>1, <2>2
<1> QED BY <1>2, <1>3, <1>4, <1>5, <1>6

LEMMA StepAtGate ==
  ASSUME TypeOK, NEW f \in Flights, FlightStep(f)
  PROVE  \/ gate' = gate /\ (Busy(f)' <=> Busy(f))
         \/ gate = 0 /\ gate' = f /\ Busy(f)' /\ ~Busy(f)
         \/ gate' = 0 /\ Busy(f) /\ ~Busy(f)'
<1>1. flight \in [Flights -> Flight]
  BY DEF TypeOK
<1>2. CASE Lookup(f)
  BY <1>1, <1>2, Stagings DEF Lookup, Busy
<1>3. CASE TakeGate(f)
  BY <1>1, <1>3, Stagings DEF TakeGate, Busy
<1>4. CASE Begin(f)
  BY <1>1, <1>4, Stagings DEF Begin, Busy
<1>5. CASE GiveUp(f)
  BY <1>1, <1>5, Stagings DEF GiveUp, Busy
<1>6. ASSUME NEW r, Succeed(f, r)
      PROVE  gate' = 0 /\ Busy(f) /\ ~Busy(f)'
  BY <1>1, <1>6, Stagings DEF Succeed, Busy
<1>7. ASSUME NEW r, NEW quota, Fail(f, quota, r)
      PROVE  gate' = 0 /\ Busy(f) /\ ~Busy(f)'
  BY <1>1, <1>7, Stagings DEF Fail, Busy
<1>8. CASE CallEnds(f)
  BY <1>6, <1>7, <1>8 DEF CallEnds
<1>9. CASE Store(f)
  BY <1>1, <1>9, Stagings DEF Store, Busy
<1>10. CASE Land(f)
  BY <1>1, <1>10, Stagings DEF Land, Busy
<1> QED BY <1>2, <1>3, <1>4, <1>5, <1>8, <1>9, <1>10 DEF FlightStep

\* The end of a call never makes the wait shorter than what is owed.
LEMMA CallEndPauses ==
  ASSUME TypeOK, PauseKept, Interval <= Cooldown, NEW f \in Flights, CallEnds(f)
  PROVE  flight[f].stage = "calling" /\ flight'[f].stage # "calling" /\ rest' <= next'
<1>1. /\ flight \in [Flights -> Flight] /\ next \in Nat /\ rest \in Nat
      /\ Interval \in Nat /\ Cooldown \in Nat
      /\ model \in [Models -> [failures : Nat, left : Nat]] /\ flight[f].on \in Models
  BY TranslatorAssumption DEF TypeOK, Flight, TranslatorAssumption
<1>2. ASSUME NEW r \in RetryAfters \cup {None}
      PROVE  r \in Int /\ Larger(rest, r) <= Larger(next, r)
  BY <1>1, TranslatorAssumption DEF Larger, None, PauseKept, TranslatorAssumption
<1>3. ASSUME NEW r \in RetryAfters \cup {None}, Succeed(f, r)
      PROVE  flight[f].stage = "calling" /\ flight'[f].stage # "calling" /\ rest' <= next'
  BY <1>1, <1>2, <1>3, Stagings DEF Succeed, Postponed
<1>4. ASSUME NEW r \in RetryAfters \cup {None}, NEW quota \in BOOLEAN, Fail(f, quota, r)
      PROVE  flight[f].stage = "calling" /\ flight'[f].stage # "calling" /\ rest' <= next'
  <2>1. flight[f].stage = "calling" /\ flight'[f].stage # "calling"
    BY <1>4, Stagings DEF Fail
  <2>2. CASE next' = Postponed(r)
    BY <1>2, <1>4, <2>1, <2>2 DEF Fail, Postponed
  <2>3. CASE quota /\ r = None /\ next' = Blamed(model[flight[f].on], quota, r).left
    <3>1. next' = Cooldown
      BY <1>1, <2>3 DEF Blamed, Larger, None
    <3>2. rest' = rest
      <4>1. rest' = Larger(rest, r)
        BY <1>4 DEF Fail
      <4> QED BY <1>1, <2>3, <4>1 DEF Larger, None
    <3>3. rest <= Interval
      BY <2>1 DEF PauseKept
    <3> QED BY <1>1, <2>1, <3>1, <3>2, <3>3
  <2> QED BY <1>4, <2>1, <2>2, <2>3 DEF Fail
<1> QED BY <1>3, <1>4 DEF CallEnds

LEMMA StepPauses ==
  ASSUME TypeOK, PauseKept, Interval <= Cooldown, NEW f \in Flights, FlightStep(f)
  PROVE  \/ next' = next /\ rest' = rest /\ flight'[f].stage # "calling"
         \/ /\ flight[f].stage = "pacing" /\ flight'[f].stage = "calling"
            /\ next = 0 /\ next' = Interval /\ rest' = Interval
         \/ /\ flight[f].stage = "calling" /\ flight'[f].stage # "calling"
            /\ rest' <= next'
<1>1. flight \in [Flights -> Flight]
  BY DEF TypeOK
<1>2. CASE Lookup(f) \/ TakeGate(f) \/ GiveUp(f) \/ Store(f) \/ Land(f)
  BY <1>1, <1>2, Stagings DEF Lookup, TakeGate, GiveUp, Store, Land
<1>3. CASE Begin(f)
  BY <1>1, <1>3, Stagings DEF Begin
<1>4. CASE CallEnds(f)
  BY <1>4, CallEndPauses
<1> QED BY <1>2, <1>3, <1>4 DEF FlightStep

\* Callers never move a flight to or from the gate.
LEMMA CallersKeepGate ==
  ASSUME ShareInv, NEW c \in Callers,
         Leave(c) \/ Collect(c) \/ \E k \in Keys : Recall(c, k) \/ Join(c, k)
  PROVE  /\ \A f \in Flights : \/ flight'[f].stage = flight[f].stage
                               \/ ~Busy(f) /\ ~Busy(f)'
         /\ gate' = gate /\ next' = next /\ rest' = rest
<1>1. flight \in [Flights -> Flight]
  BY DEF ShareInv, FlightInv, TypeOK
<1>2. CASE Collect(c) \/ \E k \in Keys : Recall(c, k)
  BY <1>2 DEF Collect, Recall
<1>3. CASE Leave(c)
  BY <1>1, <1>3 DEF Leave
<1>4. ASSUME NEW k \in Keys, Join(c, k)
      PROVE  \A f \in Flights : \/ flight'[f].stage = flight[f].stage
                                \/ ~Busy(f) /\ ~Busy(f)'
  <2>1. PICK f \in Flights, x \in Flight :
          /\ flight' = [flight EXCEPT ![f] = x]
          /\ \/ f \in Used /\ x.stage = flight[f].stage
             \/ x.stage = "lookup" /\ \E n \in 0..MaxFlights : f = n + 1 /\ Used = 1..n
    BY <1>4, Boarding
  <2>2. CASE x.stage = flight[f].stage
    BY <1>1, <2>1, <2>2
  <2>3. CASE x.stage = "lookup" /\ f \notin Used
    BY <1>1, <2>1, <2>3 DEF Used, Busy
  <2>4. ASSUME NEW n \in 0..MaxFlights, f = n + 1, Used = 1..n PROVE f \notin Used
    <3>1. n \in Nat
      BY TranslatorAssumption DEF TranslatorAssumption
    <3> QED BY <2>4, <3>1
  <2> QED BY <2>1, <2>2, <2>3, <2>4
<1>5. CASE \E k \in Keys : Join(c, k)
  <2>1. gate' = gate /\ next' = next /\ rest' = rest
    BY <1>5 DEF Join
  <2> QED BY <1>4, <1>5, <2>1
<1> QED BY <1>2, <1>3, <1>5

LEMMA TickKeepsGate ==
  ASSUME TypeOK, PauseKept, Tick
  PROVE  /\ \A f \in Flights : flight'[f].stage = flight[f].stage
         /\ gate' = gate /\ rest' <= next' /\ rest' <= rest /\ rest' \in Nat
<1>1. rest \in Nat /\ next \in Nat
  BY DEF TypeOK
<1>2. \A f \in Flights : flight'[f].stage = flight[f].stage
  BY TickFlights
<1>3. gate' = gate /\ rest' = Less(rest) /\ next' = Less(next)
  BY DEF Tick
<1> QED BY <1>1, <1>2, <1>3 DEF Less, PauseKept

LEMMA GateStep ==
  ASSUME ShareInv, GateHeld, PauseKept, [Next]_vars PROVE GateHeld'
<1>1. TypeOK /\ 0 \notin Flights
  BY DEF ShareInv, FlightInv, Flights
<1>2. CASE UNCHANGED vars
  BY <1>2 DEF vars, GateHeld
<1>3. ASSUME NEW c \in Callers,
             Leave(c) \/ Collect(c) \/ \E k \in Keys : Recall(c, k) \/ Join(c, k)
      PROVE  GateHeld'
  BY <1>3, CallersKeepGate DEF GateHeld, Busy
<1>4. ASSUME NEW f \in Flights, FlightStep(f) PROVE GateHeld'
  <2>1. \A g \in Flights \ {f} : Busy(g)' <=> Busy(g)
    BY <1>1, <1>4, FlightContinues DEF Continues, Busy
  <2>2. \A g \in Flights : Busy(g) <=> gate = g
    BY DEF GateHeld, Busy
  <2>3. \A g \in Flights : Busy(g)' <=> gate' = g
    BY <1>1, <1>4, <2>1, <2>2, StepAtGate
  <2> QED BY <2>3 DEF GateHeld, Busy
<1>5. CASE Tick
  BY <1>1, <1>5, TickKeepsGate DEF GateHeld
<1> QED BY <1>2, <1>3, <1>4, <1>5 DEF Next

LEMMA PauseStep ==
  ASSUME ShareInv, GateHeld, PauseKept, Interval <= Cooldown, [Next]_vars
  PROVE  PauseKept'
<1>1. TypeOK /\ rest \in Nat /\ next \in Nat /\ Interval \in Nat
  BY TranslatorAssumption DEF ShareInv, FlightInv, TypeOK, TranslatorAssumption
<1>2. CASE UNCHANGED vars
  BY <1>2 DEF vars, PauseKept
<1>3. ASSUME NEW c \in Callers,
             Leave(c) \/ Collect(c) \/ \E k \in Keys : Recall(c, k) \/ Join(c, k)
      PROVE  PauseKept'
  BY <1>3, CallersKeepGate DEF PauseKept, Busy
<1>4. ASSUME NEW f \in Flights, FlightStep(f) PROVE PauseKept'
  <2>1. \A g \in Flights \ {f} : flight'[g] = flight[g]
    BY <1>1, <1>4, FlightContinues DEF Continues
  <2>2. \A g \in Flights : flight[g].stage = "calling" => gate = g
    BY DEF GateHeld
  <2>3. CASE next' = next /\ rest' = rest /\ flight'[f].stage # "calling"
    BY <2>1, <2>3 DEF PauseKept
  <2>4. CASE next' = Interval /\ rest' = Interval
    BY <1>1, <2>4 DEF PauseKept
  <2>5. CASE /\ flight[f].stage = "calling" /\ flight'[f].stage # "calling"
             /\ rest' <= next'
    <3>1. \A g \in Flights : flight'[g].stage # "calling"
      BY <2>1, <2>2, <2>5
    <3> QED BY <2>5, <3>1 DEF PauseKept
  <2> QED BY <1>1, <1>4, <2>3, <2>4, <2>5, StepPauses
<1>5. CASE Tick
  BY <1>1, <1>5, TickKeepsGate DEF PauseKept
<1> QED BY <1>2, <1>3, <1>4, <1>5 DEF Next

LEMMA PaceInit == Init => GateHeld /\ PauseKept
  BY TranslatorAssumption DEF Init, GateHeld, PauseKept, NewFlight, Flights,
     TranslatorAssumption

\* The flight that waits for its turn or calls is the one that holds the gate,
\* and the translator waits at least as long as it owes the provider, provided
\* that a cooldown is no shorter than an interval (generate and attempt).
THEOREM PaceInvariant == ASSUME Interval <= Cooldown PROVE Spec => []PaceInv
<1>1. ShareInv /\ GateHeld /\ PauseKept /\ [Next]_vars => GateHeld' /\ PauseKept'
  BY GateStep, PauseStep
<1>2. ShareInv => TypeOK
  BY DEF ShareInv, FlightInv
<1> QED BY ShareInvariant, PaceInit, <1>1, <1>2, PTL DEF Spec, PaceInv

\* One call at a time, an interval apart, and none before the time the provider
\* asked for (provider.go and the comment at translate.go:76); a cooldown that
\* is shorter than the interval would cut the pause short (provider.go:110).
THEOREM CallsArePaced == ASSUME Interval <= Cooldown PROVE Spec => CallsPaced
<1> DEFINE Paced == \A f \in Flights : Begins(f) =>
              rest = 0 /\ \A g \in Flights : flight[g].stage # "calling"
<1>1. ShareInv /\ PaceInv /\ [Next]_vars => [Paced]_vars
  <2> SUFFICES ASSUME ShareInv, PaceInv, [Next]_vars, NEW f \in Flights, Begins(f)
               PROVE  rest = 0 /\ \A g \in Flights : flight[g].stage # "calling"
    OBVIOUS
  <2>1. TypeOK /\ GateHeld /\ PauseKept /\ rest \in Nat
    BY DEF PaceInv, TypeOK
  <2>2. PICK x \in Flights : FlightStep(x)
    <3>1. CASE UNCHANGED vars
      BY <3>1 DEF vars, Begins
    <3>2. ASSUME NEW c \in Callers,
             Leave(c) \/ Collect(c) \/ \E k \in Keys : Recall(c, k) \/ Join(c, k)
          PROVE  FALSE
      BY <3>2, CallersKeepGate DEF Begins, Busy
    <3>3. CASE Tick
      BY <2>1, <3>3, TickKeepsGate DEF Begins
    <3> QED BY <3>1, <3>2, <3>3 DEF Next
  <2>3. f = x
    BY <2>1, <2>2, FlightContinues DEF Continues, Begins
  <2>4. flight[f].stage = "pacing" /\ next = 0
    BY <2>1, <2>2, <2>3, StepPauses DEF Begins
  <2>5. rest = 0
    BY <2>1, <2>4 DEF PauseKept
  <2> QED BY <2>1, <2>4, <2>5 DEF GateHeld
<1> QED BY ShareInvariant, PaceInvariant, <1>1, PTL DEF Spec, CallsPaced

=============================================================================
