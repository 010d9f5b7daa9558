------------------------ MODULE SendRequests_proofs ------------------------
(***************************************************************************)
(* Proofs about the outgoing-message pipeline, for every number of         *)
(* handlers, requests, bodies and texts, every length of the windows and   *)
(* any failure of the store.                                               *)
(***************************************************************************)
EXTENDS SendRequests, FiniteSetTheorems, WellFoundedInduction, TLAPS

-----------------------------------------------------------------------------
(* The statements of the store map rows to rows.                           *)

LEMMA ClaimedRow ==
  ASSUME NEW b \in Bodies, NEW stamp \in Nat
  PROVE  /\ Claimed(b, stamp) \in Row
         /\ Claimed(b, stamp).state \in Finishable
         /\ Claimed(b, stamp).wire = NoText
         /\ ~Claimed(b, stamp).dismissed
<1>1. NextRowId \in Nat
  <2>1. IsFiniteSet({r \in Requests : Exists(r)})
    BY FS_Subset, SendAssumption DEF SendAssumption
  <2>2. QED
    BY <2>1, FS_CardinalityType DEF NextRowId
<1>2. stamp + SendWindow \in Nat
  BY SendAssumption DEF SendAssumption
<1>3. QED
  BY <1>1, <1>2 DEF Claimed, NoRow, Row, States, Finishable

LEMMA RowUpdates ==
  ASSUME NEW w \in Row, now \in Nat
  PROVE  /\ \A t \in Texts : Prepared(w, t) \in Row
         /\ \A result \in Results \ {"none"}, stamp \in Nat :
              Finished(w, result, stamp) \in Row
         /\ \A id \in Nat : Confirmed(w, id) \in Row
         /\ Expired(w) \in Row
         /\ Recovered(w) \in Row
         /\ Purged(w) \in Row
<1> USE SendAssumption DEF SendAssumption, Row, States
<1>1. \A t \in Texts : Prepared(w, t) \in Row
  BY DEF Prepared
<1>2. \A result \in Results \ {"none"}, stamp \in Nat :
        Finished(w, result, stamp) \in Row
  <2> TAKE result \in Results \ {"none"}, stamp \in Nat
  <2>1. SendWindow + (IF result = "awaiting_echo" THEN now ELSE stamp) \in Nat
    OBVIOUS
  <2>2. result \in States
    BY DEF Results
  <2>3. QED
    BY <2>1, <2>2 DEF Finished
<1>3. \A id \in Nat : Confirmed(w, id) \in Row
  BY DEF Confirmed
<1>4. Expired(w) \in Row
  BY DEF Expired
<1>5. Recovered(w) \in Row
  BY DEF Recovered
<1>6. Purged(w) \in Row
  BY DEF Purged
<1>7. QED
  BY <1>1, <1>2, <1>3, <1>4, <1>5, <1>6

-----------------------------------------------------------------------------
(* Type correctness.                                                       *)

LEMMA CallUpdates ==
  ASSUME NEW c \in Call
  PROVE  /\ \A answer \in Answers : Ended(c, answer) \in Call
         /\ \A n \in Nat : [c EXCEPT !.stamp = n] \in Call
         /\ \A v \in BOOLEAN : [c EXCEPT !.claimed = v] \in Call
         /\ \A t \in Texts : [c EXCEPT !.text = t] \in Call
         /\ \A result \in Results : [c EXCEPT !.result = result] \in Call
<1>1. \A answer \in Answers : Ended(c, answer) \in Call
  BY DEF Ended, Call, Results
<1>2. QED
  BY <1>1 DEF Call

LEMMA InitType == Init => TypeOK
<1>1. NoRow \in Row
  BY DEF NoRow, Row, States
<1>2. NoCall \in Call
  BY DEF NoCall, Call, Results, Answers
<1>3. QED
  BY <1>1, <1>2 DEF Init, TypeOK, PCs

LEMMA AnswerType ==
  ASSUME TypeOK, NEW h \in Handlers, NEW answer \in Answers,
         Answer(h, answer)
  PROVE  pc' \in [Handlers -> PCs] /\ call' \in [Handlers -> Call]
<1>1. Ended(call[h], answer) \in Call
  BY CallUpdates DEF TypeOK
<1>2. QED
  BY <1>1 DEF TypeOK, Answer, Goto, PCs

LEMMA GiveUpType ==
  ASSUME TypeOK, NEW h \in Handlers, NEW result \in Results,
         GiveUp(h, result)
  PROVE  pc' \in [Handlers -> PCs] /\ call' \in [Handlers -> Call]
<1>1. [call[h] EXCEPT !.result = result] \in Call
  BY CallUpdates DEF TypeOK
<1>2. QED
  BY <1>1 DEF TypeOK, GiveUp, Goto, PCs, Running

LEMMA AnswerForType ==
  ASSUME NEW w, NEW b
  PROVE  AnswerFor(w, b) \in Answers
BY DEF AnswerFor, Answers

LEMMA ExistsIsBoolean ==
  ASSUME NEW r
  PROVE  (~Exists(r)) \in BOOLEAN
OBVIOUS

LEMMA HandlerType ==
  ASSUME TypeOK, LocalsSet, NEW h \in Handlers, HandlerStep(h)
  PROVE  TypeOK'
<1> USE DEF TypeOK
<1> DEFINE r == call[h].req
<1>0. call[h] \in Call /\ (pc[h] # "idle" => r \in Requests /\ row[r] \in Row)
  BY DEF LocalsSet
<1>1. CASE Lookup(h)
  <2>1. pc' \in [Handlers -> PCs] /\ call' \in [Handlers -> Call]
    <3>1. CASE Goto(h, "check") /\ UNCHANGED call
      BY <3>1 DEF Goto, PCs, Running
    <3>2. CASE Answer(h, "unavailable")
      BY <3>2, AnswerType DEF Answers
    <3>3. CASE Answer(h, AnswerFor(row[r], call[h].body))
      BY <3>3, AnswerType, AnswerForType
    <3>4. QED
      BY <1>1, <3>1, <3>2, <3>3 DEF Lookup
  <2>2. QED
    BY <1>1, <2>1 DEF Lookup
<1>2. CASE Check(h)
  <2>1. pc' \in [Handlers -> PCs] /\ call' \in [Handlers -> Call]
    <3>1. CASE Answer(h, "refused")
      BY <3>1, AnswerType DEF Answers
    <3>2. CASE Goto(h, "claim") /\ call' = [call EXCEPT ![h].stamp = now]
      <4>1. [call[h] EXCEPT !.stamp = now] \in Call
        BY <1>0, CallUpdates
      <4>2. QED
        BY <3>2, <4>1 DEF Goto, PCs, Running
    <3>3. QED
      BY <1>2, <3>1, <3>2 DEF Check
  <2>2. QED
    BY <1>2, <2>1 DEF Check
<1>3. CASE Claim(h)
  <2>1. pc' \in [Handlers -> PCs] /\ call' \in [Handlers -> Call]
    <3>1. CASE Answer(h, "unavailable")
      BY <3>1, AnswerType DEF Answers
    <3>2. CASE Goto(h, "load") /\ call' = [call EXCEPT ![h].claimed = ~Exists(r)]
      <4>1. (~Exists(r)) \in BOOLEAN
        BY ExistsIsBoolean
      <4>2. [call[h] EXCEPT !.claimed = ~Exists(r)] \in Call
        BY <1>0, <4>1, CallUpdates
      <4>3. QED
        BY <3>2, <4>2 DEF Goto, PCs, Running
    <3>3. QED
      BY <1>3, <3>1, <3>2 DEF Claim
  <2>2. Claimed(call[h].body, call[h].stamp) \in Row
    BY <1>0, <1>3, ClaimedRow DEF Claim, LocalsSet, Call
  <2>3. row' \in [Requests -> Row]
    BY <1>0, <1>3, <2>2 DEF Claim, Insert
  <2>4. QED
    BY <1>3, <2>1, <2>3 DEF Claim
<1>4. CASE Load(h)
  <2>1. pc' \in [Handlers -> PCs] /\ call' \in [Handlers -> Call]
    <3>1. CASE Goto(h, "translate") /\ UNCHANGED call
      BY <3>1 DEF Goto, PCs, Running
    <3>2. CASE Answer(h, "unavailable")
      BY <3>2, AnswerType DEF Answers
    <3>3. CASE Answer(h, AnswerFor(row[r], call[h].body))
      BY <3>3, AnswerType, AnswerForType
    <3>4. QED
      BY <1>4, <3>1, <3>2, <3>3 DEF Load
  <2>2. QED
    BY <1>4, <2>1 DEF Load
<1>5. CASE Translate(h)
  <2>1. pc' \in [Handlers -> PCs] /\ call' \in [Handlers -> Call]
    <3>1. CASE GiveUp(h, "failed")
      BY <3>1, GiveUpType DEF Results
    <3>2. ASSUME NEW t \in WireForms[call[h].body],
                 Goto(h, "prepare"), call' = [call EXCEPT ![h].text = t]
          PROVE  pc' \in [Handlers -> PCs] /\ call' \in [Handlers -> Call]
      <4>1. t \in Texts
        BY <1>5, <3>2, SendAssumption DEF SendAssumption, LocalsSet, Translate
      <4>2. [call[h] EXCEPT !.text = t] \in Call
        BY <1>0, <4>1, CallUpdates
      <4>3. QED
        BY <3>2, <4>2 DEF Goto, PCs, Running
    <3>3. QED
      BY <1>5, <3>1, <3>2 DEF Translate
  <2>2. QED
    BY <1>5, <2>1 DEF Translate
<1>6. CASE Prepare(h)
  <2>1. pc' \in [Handlers -> PCs] /\ call' \in [Handlers -> Call]
    <3>1. CASE Goto(h, "recheck") /\ UNCHANGED call
      BY <3>1 DEF Goto, PCs, Running
    <3>2. CASE GiveUp(h, "failed")
      BY <3>2, GiveUpType DEF Results
    <3>3. QED
      BY <1>6, <3>1, <3>2 DEF Prepare
  <2>2. Prepared(row[r], call[h].text) \in Row
    BY <1>0, <1>6, RowUpdates DEF Prepare, LocalsSet
  <2>3. row' \in [Requests -> Row]
    BY <1>0, <1>6, <2>2 DEF Prepare
  <2>4. QED
    BY <1>6, <2>1, <2>3 DEF Prepare
<1>7. CASE Recheck(h)
  <2>1. pc' \in [Handlers -> PCs] /\ call' \in [Handlers -> Call]
    <3>1. CASE GiveUp(h, "failed")
      BY <3>1, GiveUpType DEF Results
    <3>2. CASE Goto(h, "write") /\ UNCHANGED call
      BY <3>2 DEF Goto, PCs, Running
    <3>3. QED
      BY <1>7, <3>1, <3>2 DEF Recheck
  <2>2. QED
    BY <1>7, <2>1 DEF Recheck
<1>8. CASE Write(h)
  <2> DEFINE line == [by |-> h, req |-> r, text |-> call[h].text]
  <2>1. pc' \in [Handlers -> PCs] /\ call' \in [Handlers -> Call]
    <3>1. PICK result \in {"failed", "awaiting_echo", "unconfirmed"} :
            GiveUp(h, result)
      BY <1>8 DEF Write
    <3>2. QED
      BY <3>1, GiveUpType DEF Results
  <2>2. line \in Line
    BY <1>0, <1>8 DEF Write, LocalsSet, Line
  <2>3. inflight' \subseteq Line /\ sent' \subseteq Line
    BY <1>8, <2>2 DEF Write
  <2>4. QED
    BY <1>8, <2>1, <2>3 DEF Write
<1>9. CASE Finish(h)
  <2>1. pc' \in [Handlers -> PCs] /\ call' \in [Handlers -> Call]
    <3>1. PICK answer \in {"send", "refused", "unavailable"} : Answer(h, answer)
      BY <1>9 DEF Finish
    <3>2. QED
      BY <3>1, AnswerType DEF Answers
  <2>2. FinishedRow(h) \in Row
    <3>1. call[h].result \in Results \ {"none"} /\ call[h].stamp \in Nat
      BY <1>0, <1>9 DEF Finish, LocalsSet, Call
    <3>2. Finished(row[r], call[h].result, call[h].stamp) \in Row
      BY <1>0, <1>9, <3>1, RowUpdates DEF Finish
    <3>3. QED
      BY <1>0, <1>9, <3>2 DEF Finish, FinishedRow
  <2>3. row' \in [Requests -> Row]
    BY <1>0, <1>9, <2>2 DEF Finish
  <2>4. QED
    BY <1>9, <2>1, <2>3 DEF Finish
<1>10. QED
  BY <1>1, <1>2, <1>3, <1>4, <1>5, <1>6, <1>7, <1>8, <1>9 DEF HandlerStep

LEMMA EnvironmentType ==
  ASSUME TypeOK, LocalsSet, Next, ~ \E h \in Handlers : HandlerStep(h)
  PROVE  TypeOK'
<1> USE DEF TypeOK
<1>1. ASSUME NEW h \in Handlers, NEW r \in Requests, NEW b \in Bodies,
             Admit(h, r, b)
      PROVE  TypeOK'
  <2>1. [NoCall EXCEPT !.req = r, !.body = b, !.started = now] \in Call
    BY DEF NoCall, Call, Results, Answers
  <2>2. QED
    BY <1>1, <2>1 DEF Admit, Goto, PCs, Running
<1>2. ASSUME NEW line \in inflight, Receive(line)
      PROVE  TypeOK'
  <2>1. line.text \in Texts
    BY DEF Line
  <2>2. messages' \in Seq([text : Texts, sender : Requests \cup {NoReq}])
    <3>1. PICK sender \in Requests \cup {NoReq} :
            messages' = Append(messages, [text |-> line.text, sender |-> sender])
      BY <1>2 DEF Receive, PendingEcho
    <3>2. [text |-> line.text, sender |-> sender]
             \in [text : Texts, sender : Requests \cup {NoReq}]
      BY <2>1
    <3>3. QED
      BY <3>1, <3>2
  <2>3. ASSUME NEW r \in Requests,
               row' = [row EXCEPT ![r] = Confirmed(row[r], Len(messages) + 1)]
        PROVE  row' \in [Requests -> Row]
    <3>1. Len(messages) + 1 \in Nat
      OBVIOUS
    <3>2. Confirmed(row[r], Len(messages) + 1) \in Row
      BY <3>1, RowUpdates
    <3>3. QED
      BY <2>3, <3>2
  <2>4. QED
    BY <1>2, <2>2, <2>3 DEF Receive, PendingEcho
<1>3. ASSUME NEW line \in inflight, Lose(line)
      PROVE  TypeOK'
  BY <1>3 DEF Lose
<1>4. CASE ExpireSends
  <2>1. \A r \in Requests : Expired(row[r]) \in Row
    BY RowUpdates
  <2>2. QED
    BY <1>4, <2>1 DEF ExpireSends
<1>5. ASSUME NEW r \in Requests, DismissSend(r)
      PROVE  TypeOK'
  <2>1. [row[r] EXCEPT !.dismissed = TRUE] \in Row
    BY DEF Row
  <2>2. QED
    BY <1>5, <2>1 DEF DismissSend
<1>6. ASSUME NEW r \in Requests, Prune(r)
      PROVE  TypeOK'
  <2>1. Purged(row[r]) \in Row
    BY RowUpdates
  <2>2. QED
    BY <1>6, <2>1 DEF Prune
<1>7. CASE Stop
  BY <1>7 DEF Stop
<1>8. \A r \in Requests : Recovered(row[r]) \in Row
  BY RowUpdates
<1>9. CASE Restart
  BY <1>8, <1>9 DEF Restart
<1>10. CASE Crash
  <2>1. \A h \in Handlers : Ended(call[h], "none") \in Call
    BY CallUpdates DEF Answers
  <2>2. QED
    BY <1>8, <1>10, <2>1 DEF Crash, PCs
<1>11. CASE Tick
  BY <1>11 DEF Tick
<1>12. QED
  BY <1>1, <1>2, <1>3, <1>4, <1>5, <1>6, <1>7, <1>9, <1>10, <1>11 DEF Next

-----------------------------------------------------------------------------
(* The claim of a request.                                                 *)

\* What a handler's step leaves of its local variables.
SameCall(c, d) == c.req = d.req /\ c.body = d.body

LEMMA AnswerEffect ==
  ASSUME TypeOK, NEW h \in Handlers, NEW answer, Answer(h, answer)
  PROVE  /\ pc'[h] = "done"
         /\ \A g \in Handlers \ {h} : pc'[g] = pc[g] /\ call'[g] = call[g]
         /\ SameCall(call'[h], call[h])
         /\ call'[h].claimed = call[h].claimed
         /\ call'[h].text = call[h].text
         /\ call'[h].answer = answer
BY DEF TypeOK, Call, Answer, Ended, Goto, SameCall

LEMMA GiveUpEffect ==
  ASSUME TypeOK, NEW h \in Handlers, NEW result, GiveUp(h, result)
  PROVE  /\ pc'[h] = "finish"
         /\ \A g \in Handlers \ {h} : pc'[g] = pc[g] /\ call'[g] = call[g]
         /\ SameCall(call'[h], call[h])
         /\ call'[h].claimed = call[h].claimed
         /\ call'[h].text = call[h].text
         /\ call'[h].result = result
BY DEF TypeOK, Call, GiveUp, Goto, SameCall

\* What every step of a handler does to the local variables of all handlers.
LEMMA HandlerFrame ==
  ASSUME TypeOK, LocalsSet, NEW h \in Handlers, HandlerStep(h)
  PROVE  /\ pc[h] \in Running /\ pc'[h] # "idle"
         /\ \A g \in Handlers \ {h} : pc'[g] = pc[g] /\ call'[g] = call[g]
         /\ SameCall(call'[h], call[h])
         /\ pc'[h] \in {"prepare", "recheck", "write"} => call'[h].text \in Texts
         /\ pc'[h] = "finish" => call'[h].result # "none"
<1> DEFINE Frame ==
      /\ pc'[h] # "idle"
      /\ \A g \in Handlers \ {h} : pc'[g] = pc[g] /\ call'[g] = call[g]
      /\ SameCall(call'[h], call[h])
      /\ pc'[h] \in {"prepare", "recheck", "write"} => call'[h].text \in Texts
      /\ pc'[h] = "finish" => call'[h].result # "none"
<1>1. pc[h] \in Running
  BY DEF HandlerStep, Lookup, Check, Claim, Load, Translate, Prepare, Recheck,
         Write, Finish, Running
<1> SUFFICES Frame
  BY <1>1
<1>2. ASSUME NEW answer, Answer(h, answer) PROVE Frame
  BY <1>2, AnswerEffect
<1>3. ASSUME GiveUp(h, "failed") \/ GiveUp(h, "awaiting_echo")
               \/ GiveUp(h, "unconfirmed")
      PROVE Frame
  <2>1. PICK result \in {"failed", "awaiting_echo", "unconfirmed"} :
          GiveUp(h, result)
    BY <1>3
  <2>2. QED
    BY <2>1, GiveUpEffect
<1>4. ASSUME NEW label \in {"check", "translate"},
             Goto(h, label), UNCHANGED call
      PROVE Frame
  BY <1>4 DEF TypeOK, Goto, SameCall
<1>5. ASSUME NEW label \in {"recheck", "write"}, pc[h] \in {"prepare", "recheck"},
             Goto(h, label), UNCHANGED call
      PROVE Frame
  BY <1>5 DEF TypeOK, LocalsSet, Goto, SameCall
<1> HIDE DEF Frame
<1>6. CASE Lookup(h)
  BY <1>2, <1>4, <1>6 DEF Lookup
<1>7. CASE Check(h)
  <2>1. CASE Goto(h, "claim") /\ call' = [call EXCEPT ![h].stamp = now]
    BY <2>1 DEF Frame, TypeOK, Call, Goto, SameCall
  <2>2. QED
    BY <1>2, <1>7, <2>1 DEF Check
<1>8. CASE Claim(h)
  <2>1. ASSUME NEW v, Goto(h, "load"), call' = [call EXCEPT ![h].claimed = v]
        PROVE Frame
    BY <2>1 DEF Frame, TypeOK, Call, Goto, SameCall
  <2>2. QED
    BY <1>2, <1>8, <2>1 DEF Claim
<1>9. CASE Load(h)
  BY <1>2, <1>4, <1>9 DEF Load
<1>10. CASE Translate(h)
  <2>1. ASSUME NEW t \in WireForms[call[h].body],
               Goto(h, "prepare"), call' = [call EXCEPT ![h].text = t]
        PROVE Frame
    <3>1. t \in Texts
      BY <1>1, <2>1, SendAssumption DEF SendAssumption, LocalsSet, Running
    <3>2. QED
      BY <2>1, <3>1 DEF Frame, TypeOK, Call, Goto, SameCall
  <2>2. QED
    BY <1>3, <1>10, <2>1 DEF Translate
<1>11. CASE Prepare(h)
  BY <1>3, <1>5, <1>11 DEF Prepare
<1>12. CASE Recheck(h)
  BY <1>3, <1>5, <1>12 DEF Recheck
<1>13. CASE Write(h)
  BY <1>3, <1>13 DEF Write
<1>14. CASE Finish(h)
  BY <1>2, <1>14 DEF Finish
<1>15. QED
  BY <1>1, <1>6, <1>7, <1>8, <1>9, <1>10, <1>11, <1>12, <1>13, <1>14
     DEF Frame, HandlerStep

LEMMA HandlerLocals ==
  ASSUME TypeOK, LocalsSet, NEW h \in Handlers, HandlerStep(h)
  PROVE  LocalsSet'
BY HandlerFrame DEF LocalsSet, SameCall, Running

LEMMA EnvironmentLocals ==
  ASSUME TypeOK, LocalsSet, Next, ~ \E h \in Handlers : HandlerStep(h)
  PROVE  LocalsSet'
<1>1. ASSUME NEW h \in Handlers, NEW r \in Requests, NEW b \in Bodies,
             Admit(h, r, b)
      PROVE  LocalsSet'
  BY <1>1 DEF Admit, LocalsSet, TypeOK, Goto, NoCall
<1>2. CASE Crash
  BY <1>2 DEF Crash, LocalsSet, TypeOK, Ended, Call, Running, Active
<1>3. CASE UNCHANGED <<pc, call>>
  BY <1>3 DEF LocalsSet
<1>4. QED
  BY <1>1, <1>2, <1>3 DEF Next, Receive, Lose, ExpireSends, DismissSend, Prune,
     Stop, Restart, Tick

\* What every step of a handler does to the table.
LEMMA HandlerRows ==
  ASSUME TypeOK, LocalsSet, NEW h \in Handlers, HandlerStep(h)
  PROVE  LET r == call[h].req
         IN /\ \A q \in Requests \ {r} : row'[q] = row[q]
            /\ pc[h] \notin {"claim", "prepare", "finish"} => row' = row
            /\ Exists(r) => row'[r].state # "none" /\ row'[r].dismissed = row[r].dismissed
            /\ pc[h] = "claim" => \/ row'[r] = row[r]
                                  \/ /\ ~Exists(r)
                                     /\ row'[r].state \in Finishable
                                     /\ row'[r].wire = NoText
                                     /\ ~row'[r].dismissed
            /\ pc[h] = "prepare" =>
                 row'[r] = row[r] \/ row'[r].state = "sending"
            /\ pc[h] = "finish" =>
                 \/ row'[r] = row[r]
                 \/ row[r].state \in Finishable /\ row'[r].state = call[h].result
<1> DEFINE r == call[h].req
<1>0. /\ r \in Requests /\ row[r] \in Row /\ call[h] \in Call
      /\ call[h].body \in Bodies
  BY HandlerFrame DEF TypeOK, LocalsSet, Running
<1>1. CASE Claim(h)
  <2>1. /\ Claimed(call[h].body, call[h].stamp).state \in Finishable
        /\ Claimed(call[h].body, call[h].stamp).wire = NoText
        /\ ~Claimed(call[h].body, call[h].stamp).dismissed
    BY <1>0, ClaimedRow DEF Call
  <2>2. row' = row \/ (~Exists(r) /\ row' = [row EXCEPT ![r] =
                            Claimed(call[h].body, call[h].stamp)])
    BY <1>1 DEF Claim, Insert
  <2>3. pc[h] = "claim"
    BY <1>1 DEF Claim
  <2>4. QED
    BY <1>0, <2>1, <2>2, <2>3 DEF TypeOK, Exists
<1>2. CASE Prepare(h)
  <2>1. row' = row \/ row' = [row EXCEPT ![r] = Prepared(row[r], call[h].text)]
    BY <1>2 DEF Prepare
  <2>2. /\ Prepared(row[r], call[h].text).state = "sending"
        /\ Prepared(row[r], call[h].text).dismissed = row[r].dismissed
    BY <1>0 DEF Prepared, Row
  <2>3. pc[h] = "prepare"
    BY <1>2 DEF Prepare
  <2>4. QED
    BY <1>0, <2>1, <2>2, <2>3 DEF TypeOK, Exists
<1>3. CASE Finish(h)
  <2> DEFINE w == Finished(row[r], call[h].result, call[h].stamp)
  <2>1. row' = row \/ row' = [row EXCEPT ![r] = FinishedRow(h)]
    BY <1>3 DEF Finish
  <2>2. w.state = call[h].result /\ w.dismissed = row[r].dismissed
    <3> DEFINE e == SendWindow + (IF call[h].result = "awaiting_echo"
                                  THEN now ELSE call[h].stamp)
    <3>1. w = [row[r] EXCEPT !.state = call[h].result, !.updated = now,
                             !.expires = e]
      BY Zenon DEF Finished
    <3> HIDE DEF e, w
    <3>2. QED
      BY <1>0, <3>1 DEF Row
  <2>3. \/ FinishedRow(h) = row[r]
        \/ row[r].state \in Finishable /\ FinishedRow(h) = w
    BY DEF FinishedRow, CanFinish
  <2>4. pc[h] = "finish" /\ call[h].result # "none"
    BY <1>3 DEF Finish, LocalsSet
  <2> HIDE DEF w
  <2>5. QED
    BY <1>0, <2>1, <2>2, <2>3, <2>4 DEF TypeOK, Exists
<1>4. CASE UNCHANGED row
  BY <1>0, <1>4 DEF Exists
<1>5. QED
  BY <1>1, <1>2, <1>3, <1>4
     DEF HandlerStep, Lookup, Check, Load, Translate, Recheck, Write

\* Only "claim" acquires the claim, and only "load" lets its holder go on.
LEMMA HandlerClaims ==
  ASSUME TypeOK, LocalsSet, OneClaim, NEW h \in Handlers, HandlerStep(h)
  PROVE  /\ pc'[h] \in {"translate", "prepare", "recheck", "write", "finish"} =>
              call'[h].claimed
         /\ call'[h].claimed => pc'[h] \notin {"idle", "lookup", "check", "claim"}
         /\ call[h].claimed => call'[h].claimed
         /\ call'[h].claimed /\ ~call[h].claimed =>
              /\ pc[h] = "claim" /\ pc'[h] = "load"
              /\ ~Exists(call[h].req)
              /\ row'[call[h].req].state \in Finishable
<1> DEFINE r == call[h].req
<1>0. call[h] \in Call /\ r \in Requests /\ call[h].body \in Bodies /\ row[r] \in Row
  BY HandlerFrame DEF TypeOK, LocalsSet, Running
<1> DEFINE Kept == call'[h].claimed = call[h].claimed
<1>1. ASSUME NEW answer, Answer(h, answer) PROVE Kept /\ pc'[h] = "done"
  BY <1>1, AnswerEffect
<1>2. ASSUME NEW result, GiveUp(h, result) PROVE Kept /\ pc'[h] = "finish"
  BY <1>2, GiveUpEffect
<1>3. ASSUME NEW label, Goto(h, label) PROVE pc'[h] = label
  BY <1>3 DEF TypeOK, Goto
<1>4. ASSUME NEW n, call' = [call EXCEPT ![h].stamp = n]
                      \/ call' = [call EXCEPT ![h].text = n] \/ UNCHANGED call
      PROVE Kept
  BY <1>0, <1>4 DEF TypeOK, Call
<1> HIDE DEF Kept
<1>5. CASE Claim(h)
  <2>1. CASE Answer(h, "unavailable")
    BY <1>1, <1>5, <2>1 DEF Claim, OneClaim, Kept
  <2>2. CASE Insert(h) /\ Goto(h, "load")
             /\ call' = [call EXCEPT ![h].claimed = ~Exists(call[h].req)]
    <3>1. call'[h].claimed = ~Exists(r)
      BY <1>0, <2>2 DEF TypeOK, Call
    <3>2. ~Exists(r) => row'[r].state \in Finishable
      BY <1>0, <2>2, ClaimedRow DEF Insert, Call, TypeOK
    <3>3. ~call[h].claimed
      BY <1>5 DEF OneClaim, Claim
    <3>4. pc[h] = "claim" /\ pc'[h] = "load"
      BY <1>3, <1>5, <2>2 DEF Claim
    <3>5. QED
      BY <3>1, <3>2, <3>3, <3>4
  <2>3. QED
    BY <1>5, <2>1, <2>2 DEF Claim
<1>6. CASE Lookup(h)
  BY <1>1, <1>3, <1>4, <1>6 DEF Lookup, OneClaim, Kept
<1>7. CASE Check(h)
  BY <1>1, <1>3, <1>4, <1>7 DEF Check, OneClaim, Kept
<1>8. CASE Load(h)
  BY <1>1, <1>3, <1>4, <1>8 DEF Load, Kept
<1>9. CASE Translate(h)
  BY <1>2, <1>3, <1>4, <1>9 DEF Translate, OneClaim, Kept
<1>10. CASE Prepare(h)
  BY <1>2, <1>3, <1>4, <1>10 DEF Prepare, OneClaim, Kept
<1>11. CASE Recheck(h)
  BY <1>2, <1>3, <1>4, <1>11 DEF Recheck, OneClaim, Kept
<1>12. CASE Write(h)
  BY <1>2, <1>12 DEF Write, OneClaim, Kept
<1>13. CASE Finish(h)
  BY <1>1, <1>13 DEF Finish, OneClaim, Kept
<1>14. QED
  BY <1>5, <1>6, <1>7, <1>8, <1>9, <1>10, <1>11, <1>12, <1>13 DEF HandlerStep

LEMMA ClaimStep ==
  ASSUME TypeOK, LocalsSet, OneClaim, NEW h \in Handlers, HandlerStep(h)
  PROVE  OneClaim'
<1> DEFINE r == call[h].req
<1>1. /\ \A g \in Handlers \ {h} : pc'[g] = pc[g] /\ call'[g] = call[g]
      /\ call'[h].req = r
  BY HandlerFrame DEF SameCall
<1>2. \A g \in Handlers : call[g].claimed => row'[call[g].req].state # "none"
  <2>1. ASSUME NEW g \in Handlers, call[g].claimed
        PROVE  row'[call[g].req].state # "none"
    <3>1. call[g].req \in Requests /\ Exists(call[g].req)
      BY <2>1 DEF OneClaim, LocalsSet
    <3>2. QED
      BY <3>1, HandlerRows DEF Exists
  <2>2. QED
    BY <2>1
<1>3. call'[h].claimed => row'[r].state # "none"
  BY <1>2, HandlerClaims DEF Finishable
<1>4. \A g, k \in Handlers :
        call'[g].claimed /\ call'[k].claimed /\ call'[g].req = call'[k].req => g = k
  BY <1>1, HandlerClaims DEF OneClaim
<1>5. \A g \in Handlers :
        /\ call'[g].claimed => /\ row'[call'[g].req].state # "none"
                               /\ pc'[g] \notin {"idle", "lookup", "check", "claim"}
        /\ pc'[g] \in {"translate", "prepare", "recheck", "write", "finish"} =>
             call'[g].claimed
  BY <1>1, <1>2, <1>3, HandlerClaims DEF OneClaim
<1>6. QED
  BY <1>4, <1>5 DEF OneClaim, Exists

LEMMA HolderStep ==
  ASSUME TypeOK, LocalsSet, OneClaim, HolderKeepsRow,
         NEW h \in Handlers, HandlerStep(h)
  PROVE  HolderKeepsRow'
<1> DEFINE r == call[h].req
           Kept(g) == LET w == row'[call'[g].req]
                      IN /\ w.state \in {"translating", "sending", "confirmed"}
                         /\ ~w.dismissed
                         /\ pc'[g] \in {"load", "translate", "prepare"} =>
                              w.wire = NoText /\ w.state \in Finishable
                         /\ pc'[g] \in {"recheck", "write"} =>
                              w.state # "translating"
<1>1. SUFFICES ASSUME NEW g \in Handlers, pc'[g] \in Running, call'[g].claimed
               PROVE  Kept(g)
  BY DEF HolderKeepsRow
<1>2. CASE g # h
  <2>1. pc'[g] = pc[g] /\ call'[g] = call[g]
    BY <1>2, HandlerFrame
  <2>2. call[g].req \in Requests /\ Exists(call[g].req)
    BY <1>1, <2>1 DEF OneClaim, LocalsSet
  <2>3. CASE call[g].req # r
    BY <1>1, <2>1, <2>2, <2>3, HandlerRows DEF HolderKeepsRow
  <2>4. CASE call[g].req = r
    <3>1. ~call[h].claimed
      BY <1>1, <1>2, <2>1, <2>4 DEF OneClaim
    <3>2. pc[h] \notin {"prepare", "finish"}
      BY <3>1 DEF OneClaim
    <3>3. row'[r] = row[r]
      BY <2>2, <2>4, <3>2, HandlerRows
    <3>4. QED
      BY <1>1, <2>1, <2>4, <3>3 DEF HolderKeepsRow
  <2>5. QED
    BY <2>3, <2>4
<1>3. CASE g = h /\ ~call[h].claimed
  <2>1. /\ pc[h] = "claim" /\ pc'[h] = "load"
        /\ ~Exists(r) /\ row'[r].state \in Finishable
    BY <1>1, <1>3, HandlerClaims
  <2>2. row'[r].wire = NoText /\ ~row'[r].dismissed
    BY <2>1, HandlerRows DEF Exists, Finishable
  <2>3. call'[h].req = r
    BY HandlerFrame DEF SameCall
  <2>4. QED
    BY <1>3, <2>1, <2>2, <2>3 DEF Finishable
<1>4. CASE g = h /\ call[h].claimed
  <2>1. call'[h].req = r /\ pc[h] \in Running
    BY HandlerFrame DEF SameCall
  <2>2. /\ row[r].state \in {"translating", "sending", "confirmed"}
        /\ ~row[r].dismissed
        /\ pc[h] \in {"load", "translate", "prepare"} =>
             row[r].wire = NoText /\ row[r].state \in Finishable
        /\ pc[h] \in {"recheck", "write"} => row[r].state # "translating"
    BY <1>4, <2>1 DEF HolderKeepsRow
  <2>3. pc[h] \notin {"lookup", "check", "claim"} /\ r \in Requests
    BY <1>4, <2>1 DEF OneClaim, LocalsSet, Running
  <2>4. CASE Prepare(h)
    <3>1. /\ pc'[h] \in {"recheck", "finish"}
          /\ pc'[h] = "recheck" => row'[r].state = "sending"
      <4>1. CASE GiveUp(h, "failed")
        BY <4>1, GiveUpEffect
      <4>2. CASE /\ Goto(h, "recheck")
                 /\ row' = [row EXCEPT ![r] = Prepared(row[r], call[h].text)]
        <5>1. Prepared(row[r], call[h].text).state = "sending"
          BY <2>3 DEF TypeOK, Prepared, Row
        <5>2. QED
          BY <2>3, <4>2, <5>1 DEF TypeOK, Goto
      <4>3. QED
        BY <2>4, <4>1, <4>2 DEF Prepare
    <3>2. /\ row'[r] = row[r] \/ row'[r].state = "sending"
          /\ row'[r].dismissed = row[r].dismissed
      BY <2>2, <2>4, HandlerRows DEF Prepare, Exists
    <3>3. QED
      BY <1>4, <2>1, <2>2, <3>1, <3>2
  <2>5. CASE Finish(h)
    BY <1>1, <1>4, <2>5, AnswerEffect DEF Finish, Running
  <2>6. CASE ~Prepare(h) /\ ~Finish(h)
    <3>1. row' = row
      BY <2>3, <2>6, HandlerRows DEF HandlerStep, Lookup, Check, Claim, Load,
         Translate, Recheck, Write, Running
    <3>2. /\ pc'[h] \in {"load", "translate", "prepare"} =>
               pc[h] \in {"load", "translate", "prepare"}
          /\ pc'[h] \in {"recheck", "write"} => pc[h] \in {"recheck", "write"}
      BY <2>3, <2>6 DEF TypeOK, HandlerStep, Lookup, Check, Claim, Load,
         Translate, Recheck, Write, Goto, GiveUp, Answer
    <3>3. QED
      BY <1>4, <2>1, <2>2, <3>1, <3>2
  <2>7. QED
    BY <2>4, <2>5, <2>6
<1>5. QED
  BY <1>2, <1>3, <1>4

\* The step of an unclaimed handler leaves a claimed row alone.
LEMMA OthersKeepRow ==
  ASSUME TypeOK, LocalsSet, OneClaim, NEW h \in Handlers, HandlerStep(h),
         NEW g \in Handlers \ {h}, call[g].claimed
  PROVE  row'[call[g].req] = row[call[g].req]
<1>1. call[g].req \in Requests /\ Exists(call[g].req)
  BY DEF OneClaim, LocalsSet
<1>2. CASE call[g].req # call[h].req
  BY <1>1, <1>2, HandlerRows
<1>3. CASE call[g].req = call[h].req
  <2>1. ~call[h].claimed
    BY <1>3 DEF OneClaim
  <2>2. pc[h] \notin {"prepare", "finish"}
    BY <2>1 DEF OneClaim
  <2>3. QED
    BY <1>1, <1>3, <2>2, HandlerRows
<1>4. QED
  BY <1>2, <1>3

LEMMA SentStep ==
  ASSUME TypeOK, LocalsSet, OneClaim, HolderKeepsRow, SentByHolder,
         NEW h \in Handlers, HandlerStep(h)
  PROVE  SentByHolder'
<1> DEFINE r == call[h].req
           Good(line) ==
             LET c == call'[line.by]
             IN /\ c.claimed /\ c.req = line.req /\ c.text = line.text
                /\ pc'[line.by] \in {"finish", "done", "dead"}
                /\ pc'[line.by] = "finish" =>
                     c.result \in {"awaiting_echo", "unconfirmed"}
                /\ row'[line.req].state \notin {"none", "translating", "failed"}
<1> SUFFICES ASSUME NEW line \in sent' PROVE Good(line)
  BY DEF SentByHolder
<1>1. CASE line \in sent
  <2>0. /\ line.by \in Handlers
        /\ call[line.by].claimed /\ call[line.by].req = line.req
        /\ call[line.by].text = line.text
        /\ pc[line.by] \in {"finish", "done", "dead"}
        /\ pc[line.by] = "finish" =>
             call[line.by].result \in {"awaiting_echo", "unconfirmed"}
        /\ row[line.req].state \notin {"none", "translating", "failed"}
    BY <1>1 DEF SentByHolder, TypeOK, Line
  <2>1. CASE line.by # h
    BY <2>0, <2>1, HandlerFrame, OthersKeepRow
  <2>2. CASE line.by = h
    <3>1. Finish(h)
      BY <2>0, <2>2 DEF HandlerStep, Lookup, Check, Claim, Load, Translate,
         Prepare, Recheck, Write
    <3>2. /\ pc'[h] = "done" /\ call'[h].claimed = call[h].claimed
          /\ call'[h].req = call[h].req /\ call'[h].text = call[h].text
      BY <3>1, AnswerEffect DEF Finish, SameCall
    <3>3. row'[line.req] = row[line.req] \/ row'[line.req].state = call[h].result
      BY <2>0, <2>2, <3>1, HandlerRows DEF Finish
    <3>4. call[h].result \in {"awaiting_echo", "unconfirmed"}
      BY <2>0, <2>2, <3>1 DEF Finish
    <3>5. QED
      BY <2>0, <2>2, <3>2, <3>3, <3>4
  <2>3. QED
    BY <2>1, <2>2
<1>2. CASE line \notin sent
  <2>1. Write(h) /\ line = [by |-> h, req |-> r, text |-> call[h].text]
    BY <1>2 DEF HandlerStep, Lookup, Check, Claim, Load, Translate, Prepare,
       Recheck, Write, Finish
  <2>2. PICK result \in {"awaiting_echo", "unconfirmed"} : GiveUp(h, result)
    BY <1>2, <2>1 DEF Write
  <2>3. /\ pc'[h] = "finish" /\ call'[h].result = result
        /\ call'[h].claimed = call[h].claimed
        /\ call'[h].req = r /\ call'[h].text = call[h].text
    BY <2>2, GiveUpEffect DEF SameCall
  <2>4. call[h].claimed /\ row[r].state \in {"sending", "confirmed"}
    BY <2>1 DEF Write, OneClaim, HolderKeepsRow, Running
  <2>5. row' = row
    BY <2>1 DEF Write
  <2>6. QED
    BY <2>1, <2>2, <2>3, <2>4, <2>5
<1>3. QED
  BY <1>1, <1>2

-----------------------------------------------------------------------------
(* The steps outside the handlers.                                         *)

\* What a step outside the handlers may do to a row.
Moves(v, w) ==
  \/ w = v
  \/ /\ v.state \in {"sending", "awaiting_echo", "unconfirmed"}
     /\ v.wire # NoText
     /\ w.state = "confirmed" /\ w.dismissed = v.dismissed
  \/ v.state = "awaiting_echo" /\ w.state = "unconfirmed"
  \/ v.state \in {"failed", "unconfirmed"} /\ w.state = v.state
  \/ v.state \in Settled /\ w.state = v.state /\ w.dismissed = v.dismissed

LEMMA EnvironmentRows ==
  ASSUME TypeOK, Next, ~ \E h \in Handlers : HandlerStep(h)
  PROVE  \/ Restart \/ Crash
         \/ \A r \in Requests : Moves(row[r], row'[r])
<1> USE DEF TypeOK, Moves
<1>1. ASSUME NEW line \in inflight, Receive(line)
      PROVE  \A r \in Requests : Moves(row[r], row'[r])
  <2>1. ASSUME NEW q \in PendingEcho(line.text),
               row' = [row EXCEPT ![q] = Confirmed(row[q], Len(messages) + 1)]
        PROVE  \A r \in Requests : Moves(row[r], row'[r])
    <3>1. /\ q \in Requests /\ row[q].wire = line.text
          /\ row[q].state \in {"sending", "awaiting_echo", "unconfirmed"}
      BY DEF PendingEcho, EchoMatches, Carries, AwaitsEcho
    <3>2. row[q].wire # NoText
      BY <3>1, SendAssumption DEF SendAssumption, Line
    <3>3. /\ Confirmed(row[q], Len(messages) + 1).state = "confirmed"
          /\ Confirmed(row[q], Len(messages) + 1).dismissed = row[q].dismissed
      BY <3>1 DEF Confirmed, Row
    <3>4. QED
      BY <2>1, <3>1, <3>2, <3>3
  <2>2. QED
    BY <1>1, <2>1 DEF Receive
<1>2. CASE ExpireSends
  <2>1. \A r \in Requests : Expirable(row[r]) =>
          row[r].state = "awaiting_echo" /\ Expired(row[r]).state = "unconfirmed"
    BY DEF Expirable, Expired, Row
  <2>2. QED
    BY <1>2, <2>1 DEF ExpireSends
<1>3. ASSUME NEW q \in Requests, DismissSend(q)
      PROVE  \A r \in Requests : Moves(row[r], row'[r])
  <2>1. row[q].state \in {"failed", "unconfirmed"} /\ row'[q].state = row[q].state
    BY <1>3 DEF DismissSend, Dismissible, Row
  <2>2. QED
    BY <1>3, <2>1 DEF DismissSend
<1>4. ASSUME NEW q \in Requests, Prune(q)
      PROVE  \A r \in Requests : Moves(row[r], row'[r])
  <2>1. /\ row[q].state \in Settled /\ Purged(row[q]).state = row[q].state
        /\ Purged(row[q]).dismissed = row[q].dismissed
    BY <1>4 DEF Prune, Purgeable, Purged, Row
  <2>2. QED
    BY <1>4, <2>1 DEF Prune
<1>5. CASE UNCHANGED row
  BY <1>5
<1>6. QED
  BY <1>1, <1>2, <1>3, <1>4, <1>5 DEF Next, Admit, Lose, Stop, Tick

LEMMA RecoveredState ==
  ASSUME NEW w \in Row
  PROVE  /\ w.state = "none" <=> Recovered(w).state = "none"
         /\ Recovered(w).state = "failed" => w.state \in {"failed", "translating"}
         /\ Recovered(w).state # "translating"
         /\ w.state = "confirmed" => Recovered(w) = w
         /\ Recovered(w).message = w.message
BY DEF Recovered, Row, States

\* What a step outside the handlers does to the local variables.
LEMMA EnvironmentCalls ==
  ASSUME TypeOK, LocalsSet, OneClaim, Next,
         ~ \E h \in Handlers : HandlerStep(h), NEW g \in Handlers
  PROVE  /\ \/ call'[g].claimed = FALSE /\ call[g].claimed = FALSE
               /\ pc'[g] \in {"idle", "lookup"}
            \/ /\ call'[g].claimed = call[g].claimed
               /\ SameCall(call'[g], call[g]) /\ call'[g].text = call[g].text
               /\ \/ pc'[g] = pc[g] /\ call'[g] = call[g]
                  \/ pc'[g] = "dead"
         /\ Crash => pc'[g] \notin Running
<1>1. ASSUME NEW h \in Handlers, NEW r \in Requests, NEW b \in Bodies,
             Admit(h, r, b), g = h
      PROVE  call'[g].claimed = FALSE /\ call[g].claimed = FALSE /\ pc'[g] = "lookup"
  <2>1. call'[g] = [NoCall EXCEPT !.req = r, !.body = b, !.started = now]
    BY <1>1 DEF Admit, TypeOK
  <2>2. call'[g].claimed = FALSE
    BY <2>1 DEF NoCall
  <2>3. call[g].claimed = FALSE
    BY <1>1 DEF Admit, OneClaim, TypeOK, Call
  <2>4. QED
    BY <1>1, <2>2, <2>3 DEF Admit, Goto, TypeOK
<1>2. ASSUME NEW h \in Handlers, NEW r \in Requests, NEW b \in Bodies,
             Admit(h, r, b), g # h
      PROVE  pc'[g] = pc[g] /\ call'[g] = call[g]
  BY <1>2 DEF Admit, Goto, TypeOK
<1>3. CASE Crash
  <2>1. call[g] \in Call
    BY DEF TypeOK
  <2>2. CASE g \in Active
    BY <1>3, <2>1, <2>2 DEF Crash, Ended, Call, SameCall, Running
  <2>3. CASE g \notin Active
    BY <1>3, <2>1, <2>3 DEF Crash, SameCall, Active
  <2>4. QED
    BY <2>2, <2>3
<1>4. CASE UNCHANGED <<pc, call>> /\ ~Crash
  BY <1>4 DEF SameCall
<1>5. ASSUME NEW h \in Handlers, NEW r \in Requests, NEW b \in Bodies,
             Admit(h, r, b)
      PROVE  ~Crash
  BY <1>5 DEF Admit, Crash, TypeOK
<1>6. CASE \E h \in Handlers, r \in Requests, b \in Bodies : Admit(h, r, b)
  BY <1>1, <1>2, <1>5, <1>6 DEF SameCall
<1>7. QED
  BY <1>3, <1>4, <1>6 DEF Next, Receive, Lose, ExpireSends, DismissSend, Prune,
     Stop, Restart, Tick

LEMMA EnvironmentStep ==
  ASSUME ClaimInv, Next, ~ \E h \in Handlers : HandlerStep(h)
  PROVE  OneClaim' /\ HolderKeepsRow' /\ SentByHolder'
<1> USE DEF ClaimInv
<1>1. \A g \in Handlers : call'[g].claimed =>
        /\ call[g].claimed /\ call'[g].req = call[g].req
        /\ call'[g].text = call[g].text /\ call[g].req \in Requests
        /\ Exists(call[g].req)
        /\ \/ pc'[g] = pc[g] /\ call'[g] = call[g]
           \/ pc'[g] = "dead"
  BY EnvironmentCalls DEF SameCall, LocalsSet, OneClaim
<1>2. \A g \in Handlers : call[g].claimed => call'[g].claimed
  BY EnvironmentCalls
<1>3. \A r \in Requests : row[r] \in Row
  BY DEF TypeOK
<1>4. \A r \in Requests : Exists(r) => row'[r].state # "none"
  <2>1. CASE Restart \/ Crash
    BY <1>3, <2>1, RecoveredState DEF Restart, Crash, Exists
  <2>2. CASE \A r \in Requests : Moves(row[r], row'[r])
    BY <2>2 DEF Moves, Exists, Settled
  <2>3. QED
    BY <2>1, <2>2, EnvironmentRows
<1>5. OneClaim'
  <2>1. \A g \in Handlers :
          pc'[g] \in {"translate", "prepare", "recheck", "write", "finish"} =>
            call'[g].claimed
    BY EnvironmentCalls DEF OneClaim
  <2>2. \A g \in Handlers : call'[g].claimed =>
          /\ row'[call'[g].req].state # "none"
          /\ pc'[g] \notin {"idle", "lookup", "check", "claim"}
    BY <1>1, <1>4 DEF OneClaim
  <2>3. QED
    BY <1>1, <2>1, <2>2 DEF OneClaim, Exists
<1>6. HolderKeepsRow'
  <2> SUFFICES ASSUME NEW g \in Handlers, pc'[g] \in Running, call'[g].claimed
               PROVE  LET w == row'[call'[g].req]
                      IN /\ w.state \in {"translating", "sending", "confirmed"}
                         /\ ~w.dismissed
                         /\ pc'[g] \in {"load", "translate", "prepare"} =>
                              w.wire = NoText /\ w.state \in Finishable
                         /\ pc'[g] \in {"recheck", "write"} =>
                              w.state # "translating"
    BY DEF HolderKeepsRow
  <2>1. /\ pc'[g] = pc[g] /\ call'[g] = call[g] /\ call[g].claimed
        /\ call[g].req \in Requests
    BY <1>1 DEF Running
  <2>2. ~Crash
    BY EnvironmentCalls
  <2>3. ~Restart
    BY <2>1 DEF Restart, Quiet, Active
  <2>4. Moves(row[call[g].req], row'[call[g].req])
    BY <2>1, <2>2, <2>3, EnvironmentRows
  <2>5. QED
    BY <2>1, <2>4 DEF HolderKeepsRow, Moves, Settled, Finishable
<1>7. SentByHolder'
  <2> SUFFICES ASSUME NEW line \in sent'
               PROVE  LET c == call'[line.by]
                      IN /\ c.claimed /\ c.req = line.req /\ c.text = line.text
                         /\ pc'[line.by] \in {"finish", "done", "dead"}
                         /\ pc'[line.by] = "finish" =>
                              c.result \in {"awaiting_echo", "unconfirmed"}
                         /\ row'[line.req].state
                              \notin {"none", "translating", "failed"}
    BY DEF SentByHolder
  <2>1. /\ line \in sent /\ line.by \in Handlers /\ line.req \in Requests
    <3>1. sent' = sent
      BY DEF Next, Admit, Receive, Lose, ExpireSends, DismissSend, Prune, Stop,
         Restart, Crash, Tick
    <3>2. QED
      BY <3>1 DEF TypeOK, Line
  <2>2. /\ call[line.by].claimed /\ call[line.by].req = line.req
        /\ call[line.by].text = line.text
        /\ pc[line.by] \in {"finish", "done", "dead"}
        /\ pc[line.by] = "finish" =>
             call[line.by].result \in {"awaiting_echo", "unconfirmed"}
        /\ row[line.req].state \notin {"none", "translating", "failed"}
    BY <2>1 DEF SentByHolder
  <2>3. row'[line.req].state \notin {"none", "translating", "failed"}
    <3>1. CASE Restart \/ Crash
      BY <1>3, <2>1, <2>2, <3>1, RecoveredState DEF Restart, Crash
    <3>2. CASE Moves(row[line.req], row'[line.req])
      BY <2>2, <3>2 DEF Moves, Settled
    <3>3. QED
      BY <2>1, <3>1, <3>2, EnvironmentRows
  <2>4. QED
    BY <1>1, <1>2, <2>1, <2>2, <2>3
<1>8. QED
  BY <1>5, <1>6, <1>7

-----------------------------------------------------------------------------
(* The theorems.                                                           *)

LEMMA ClaimInvInit == Init => ClaimInv
BY InitType
   DEF Init, ClaimInv, LocalsSet, OneClaim, HolderKeepsRow, SentByHolder, NoCall,
       Running

LEMMA ClaimInvStep == ClaimInv /\ [Next]_vars => ClaimInv'
<1> SUFFICES ASSUME ClaimInv, [Next]_vars PROVE ClaimInv'
  OBVIOUS
<1>1. CASE \E h \in Handlers : HandlerStep(h)
  BY <1>1, HandlerType, HandlerLocals, ClaimStep, HolderStep, SentStep
     DEF ClaimInv
<1>2. CASE Next /\ ~ \E h \in Handlers : HandlerStep(h)
  BY <1>2, EnvironmentType, EnvironmentLocals, EnvironmentStep DEF ClaimInv
<1>3. CASE UNCHANGED vars
  BY <1>3 DEF vars, ClaimInv, TypeOK, LocalsSet, OneClaim, HolderKeepsRow,
     SentByHolder, Exists
<1>4. QED
  BY <1>1, <1>2, <1>3

\* The inductive invariant of the claim holds in every reachable state.
THEOREM ClaimInvariant == Spec => []ClaimInv
<1>1. QED
  BY ClaimInvInit, ClaimInvStep, PTL DEF Spec

\* Type correctness, for all constants.
THEOREM TypeCorrect == Spec => []TypeOK
<1>1. ClaimInv => TypeOK
  BY DEF ClaimInv
<1>2. QED
  BY <1>1, ClaimInvariant, PTL

LEMMA OneWrite == ClaimInv => SentOnce
<1> SUFFICES ASSUME ClaimInv, NEW l \in sent, NEW m \in sent, l.req = m.req
             PROVE  l = m
  BY DEF SentOnce
<1>1. l.by = m.by
  BY DEF ClaimInv, SentByHolder, OneClaim, TypeOK, Line
<1>2. l.text = m.text
  BY <1>1 DEF ClaimInv, SentByHolder
<1>3. QED
  BY <1>1, <1>2 DEF ClaimInv, TypeOK, Line

\* No request is ever written to IRC twice: two recorded writes of a request
\* come from the one handler that ever claimed it, and that handler writes the
\* one text it prepared.
THEOREM NeverSentTwice == Spec => []SentOnce
<1>1. QED
  BY OneWrite, ClaimInvariant, PTL

\* A request reported as failed was never written to IRC.
THEOREM FailedMeansNotSent == Spec => []FailedNeverSent
<1>1. ClaimInv => FailedNeverSent
  BY DEF ClaimInv, SentByHolder, FailedNeverSent
<1>2. QED
  BY <1>1, ClaimInvariant, PTL

\* A confirmation is never taken back.
THEOREM ConfirmationIsFinal == Spec => ConfirmedFinal
<1> DEFINE Final == \A r \in Requests : row[r].state = "confirmed" =>
                      row'[r].state = "confirmed" /\ row'[r].message = row[r].message
<1>1. ClaimInv /\ [Next]_vars => [Final]_vars
  <2> SUFFICES ASSUME ClaimInv, Next, NEW r \in Requests,
                      row[r].state = "confirmed"
               PROVE  /\ row'[r].state = "confirmed"
                      /\ row'[r].message = row[r].message
    BY DEF vars
  <2> USE DEF ClaimInv
  <2>0. row[r] \in Row
    BY DEF TypeOK
  <2>1. CASE \E h \in Handlers : HandlerStep(h)
    <3>1. PICK h \in Handlers : HandlerStep(h)
      BY <2>1
    <3>2. row'[r] = row[r]
      <4>1. CASE r # call[h].req
        BY <3>1, <4>1, HandlerRows
      <4>2. CASE r = call[h].req /\ pc[h] # "prepare"
        BY <3>1, <4>2, HandlerRows DEF Exists, Finishable
      <4>3. CASE r = call[h].req /\ pc[h] = "prepare"
        BY <4>3 DEF HolderKeepsRow, OneClaim, Running, Finishable
      <4>4. QED
        BY <4>1, <4>2, <4>3
    <3>3. QED
      BY <3>2
  <2>2. CASE Restart \/ Crash
    BY <2>0, <2>2, RecoveredState DEF Restart, Crash
  <2>3. ASSUME NEW line \in inflight, Receive(line) PROVE row'[r] = row[r]
    BY <2>0, <2>3 DEF Receive, PendingEcho, EchoMatches, AwaitsEcho, TypeOK
  <2>4. CASE ExpireSends
    BY <2>4 DEF ExpireSends, Expirable
  <2>5. ASSUME NEW q \in Requests, DismissSend(q) PROVE row'[r] = row[r]
    BY <2>5 DEF DismissSend, Dismissible, TypeOK
  <2>6. ASSUME NEW q \in Requests, Prune(q)
        PROVE  row'[r].state = "confirmed" /\ row'[r].message = row[r].message
    <3>1. Purged(row[r]).state = row[r].state /\ Purged(row[r]).message = row[r].message
      BY <2>0 DEF Purged, Row
    <3>2. QED
      BY <2>6, <3>1 DEF Prune, TypeOK
  <2>7. CASE UNCHANGED row
    BY <2>7
  <2>8. QED
    BY <2>1, <2>2, <2>3, <2>4, <2>5, <2>6, <2>7 DEF Next, Admit, Lose, Stop, Tick
<1>2. QED
  BY <1>1, ClaimInvariant, PTL DEF Spec, ConfirmedFinal

\* Nothing is written for a request after it was reported failed or
\* unconfirmed, or was deleted.
THEOREM SettledStaysSilent == Spec => SettledIsSilent
<1> DEFINE Silent == \A r \in Requests :
             row[r].state \in {"failed", "unconfirmed"} \/ row[r].dismissed =>
               SentFor(r)' = SentFor(r)
<1>1. ClaimInv /\ [Next]_vars => [Silent]_vars
  <2> SUFFICES ASSUME ClaimInv, Next, NEW r \in Requests,
                      row[r].state \in {"failed", "unconfirmed"} \/ row[r].dismissed
               PROVE  SentFor(r)' = SentFor(r)
    BY DEF vars
  <2>1. ASSUME NEW h \in Handlers, Write(h)
        PROVE  SentFor(r)' = SentFor(r)
    <3>1. call[h].req # r
      BY <2>1 DEF ClaimInv, Write, OneClaim, HolderKeepsRow, Running
    <3>2. QED
      BY <2>1, <3>1 DEF Write, SentFor
  <2>2. CASE UNCHANGED sent
    BY <2>2 DEF SentFor
  <2>3. QED
    BY <2>1, <2>2 DEF Next, HandlerStep, Lookup, Check, Claim, Load, Translate,
       Prepare, Recheck, Finish, Admit, Receive, Lose, ExpireSends, DismissSend,
       Prune, Stop, Restart, Crash, Tick
<1>2. QED
  BY <1>1, ClaimInvariant, PTL DEF Spec, SettledIsSilent

-----------------------------------------------------------------------------
(* What a step may do to a row, field by field.                            *)

\* All of a row but its state, its times and what its user hid.
SameRequest(v, w) ==
  /\ w.body = v.body /\ w.created = v.created /\ w.purged = v.purged
  /\ w.wire = v.wire /\ w.echoed = v.echoed /\ w.message = v.message

\* The statements of the store that neither insert a row nor prepare, confirm
\* or erase one.
LEMMA SameStatements ==
  ASSUME NEW w \in Row
  PROVE  /\ \A result, stamp : /\ SameRequest(w, Finished(w, result, stamp))
                               /\ Finished(w, result, stamp).state = result
         /\ SameRequest(w, Expired(w)) /\ Expired(w).state = "unconfirmed"
         /\ SameRequest(w, Recovered(w))
         /\ SameRequest(w, [w EXCEPT !.dismissed = TRUE])
         /\ [w EXCEPT !.dismissed = TRUE].state = w.state
<1>1. ASSUME NEW result, NEW stamp
      PROVE  /\ SameRequest(w, Finished(w, result, stamp))
             /\ Finished(w, result, stamp).state = result
  <2> DEFINE e == SendWindow + IF result = "awaiting_echo" THEN now ELSE stamp
  <2>1. Finished(w, result, stamp)
          = [w EXCEPT !.state = result, !.updated = now, !.expires = e]
    BY Zenon DEF Finished
  <2> HIDE DEF e
  <2> QED BY <2>1 DEF SameRequest, Row
<1>2. SameRequest(w, Expired(w)) /\ Expired(w).state = "unconfirmed"
  BY DEF SameRequest, Expired, Row
<1>3. SameRequest(w, Recovered(w))
  BY DEF SameRequest, Recovered, Row
<1>4. /\ SameRequest(w, [w EXCEPT !.dismissed = TRUE])
      /\ [w EXCEPT !.dismissed = TRUE].state = w.state
  BY DEF SameRequest, Row
<1> QED BY <1>1, <1>2, <1>3, <1>4

\* The four that do.
Inserts(w, b) ==
  /\ w.state \in Finishable /\ w.body = b /\ w.wire = NoText
  /\ w.message = 0 /\ ~w.echoed /\ ~w.purged

Prepares(v, w, t) ==
  /\ v.state \in Finishable /\ w.state = "sending" /\ w.wire = t
  /\ w.body = v.body /\ w.created = v.created /\ w.purged = v.purged
  /\ w.echoed = v.echoed /\ w.message = v.message

Confirms(v, w, id) ==
  /\ w.state = "confirmed" /\ w.echoed /\ w.message = id
  /\ w.body = v.body /\ w.created = v.created /\ w.purged = v.purged
  /\ w.wire = v.wire

Erases(v, w) ==
  /\ Purgeable(v) /\ w.state = v.state
  /\ w.purged /\ w.wire = NoText /\ w.created = v.created
  /\ w.echoed = v.echoed /\ w.message = v.message

LEMMA OtherStatements ==
  /\ \A b \in Bodies, stamp \in Nat : Inserts(Claimed(b, stamp), b)
  /\ \A w \in Row : \A t : w.state \in Finishable => Prepares(w, Prepared(w, t), t)
  /\ \A w \in Row : \A id : Confirms(w, Confirmed(w, id), id)
  /\ \A w \in Row : Purgeable(w) => Erases(w, Purged(w))
<1>1. ASSUME NEW b \in Bodies, NEW stamp \in Nat
      PROVE  Inserts(Claimed(b, stamp), b)
  BY DEF Inserts, Claimed, NoRow, Finishable
<1>2. ASSUME NEW w \in Row, NEW t, w.state \in Finishable
      PROVE  Prepares(w, Prepared(w, t), t)
  BY <1>2 DEF Prepares, Prepared, Row
<1>3. ASSUME NEW w \in Row, NEW id PROVE Confirms(w, Confirmed(w, id), id)
  BY DEF Confirms, Confirmed, Row
<1>4. ASSUME NEW w \in Row, Purgeable(w) PROVE Erases(w, Purged(w))
  BY <1>4 DEF Erases, Purged, Row
<1> QED BY <1>1, <1>2, <1>3, <1>4

\* What a step makes of the row of r.
RowKept(r) ==
  /\ SameRequest(row[r], row'[r])
  /\ Exists(r) <=> row'[r].state # "none"
  /\ row[r].state = "confirmed" <=> row'[r].state = "confirmed"

RowInserted(r) ==
  /\ ~Exists(r)
  /\ \E h \in Handlers : /\ pc[h] = "claim" /\ call[h].req = r
                         /\ Inserts(row'[r], call[h].body)

RowPrepared(r) ==
  \E h \in Handlers : /\ pc[h] = "prepare" /\ call[h].claimed
                      /\ call[h].req = r /\ call'[h].text = call[h].text
                      /\ call'[h].req = r /\ call'[h].claimed
                      /\ Prepares(row[r], row'[r], call[h].text)

RowConfirmed(r) ==
  \E line \in inflight : /\ Receive(line) /\ r \in PendingEcho(line.text)
                         /\ Confirms(row[r], row'[r], Len(messages) + 1)
                         /\ messages' = Append(messages, [text |-> line.text,
                                                          sender |-> r])

RowErased(r) == Erases(row[r], row'[r])

RowStep(r) ==
  RowKept(r) \/ RowInserted(r) \/ RowPrepared(r) \/ RowConfirmed(r) \/ RowErased(r)

LEMMA RowStays == ASSUME NEW r, row'[r] = row[r] PROVE RowKept(r)
  BY DEF RowKept, SameRequest, Exists

LEMMA HandlerRowStep ==
  ASSUME ClaimInv, NEW h \in Handlers, HandlerStep(h), NEW r \in Requests
  PROVE  RowKept(r) \/ RowInserted(r) \/ RowPrepared(r)
<1>1. /\ pc[h] \in Running /\ call[h].req \in Requests /\ row[r] \in Row
      /\ call[h] \in Call /\ call[h].body \in Bodies /\ row \in [Requests -> Row]
  BY HandlerFrame DEF ClaimInv, TypeOK, LocalsSet, Running
<1>2. CASE r # call[h].req \/ row' = row
  <2>1. row'[r] = row[r]
    BY <1>2, HandlerRows DEF ClaimInv
  <2> QED BY <2>1, RowStays
<1>3. CASE r = call[h].req /\ Claim(h)
  <2>1. CASE Exists(r)
    <3>1. row' = row
      BY <1>3, <2>1 DEF Claim, Insert
    <3> QED BY <1>2, <3>1
  <2>2. CASE ~Exists(r)
    <3>1. row' = row \/ row' = [row EXCEPT ![r] =
                                  Claimed(call[h].body, call[h].stamp)]
      BY <1>3 DEF Claim, Insert
    <3>2. Inserts(Claimed(call[h].body, call[h].stamp), call[h].body)
      BY <1>1, OtherStatements DEF Call
    <3>3. pc[h] = "claim"
      BY <1>3 DEF Claim
    <3> QED BY <1>1, <1>2, <1>3, <2>2, <3>1, <3>2, <3>3 DEF RowInserted
  <2> QED BY <2>1, <2>2
<1>4. CASE r = call[h].req /\ Prepare(h)
  <2>1. \/ row' = row
        \/ /\ row[r].state \in Finishable
           /\ row' = [row EXCEPT ![r] = Prepared(row[r], call[h].text)]
    BY <1>4 DEF Prepare
  <2>2. pc[h] = "prepare" /\ call[h].claimed
    BY <1>4 DEF Prepare, ClaimInv, OneClaim
  <2>3. call'[h].text = call[h].text /\ call'[h].req = r /\ call'[h].claimed
    <3>1. UNCHANGED call \/ GiveUp(h, "failed")
      BY <1>4 DEF Prepare
    <3> QED BY <1>4, <2>2, <3>1, GiveUpEffect DEF SameCall, ClaimInv
  <2>4. row[r].state \in Finishable =>
          Prepares(row[r], Prepared(row[r], call[h].text), call[h].text)
    BY <1>1, OtherStatements
  <2> QED BY <1>1, <1>2, <1>4, <2>1, <2>2, <2>3, <2>4 DEF RowPrepared
<1>5. CASE r = call[h].req /\ Finish(h)
  <2> DEFINE w == Finished(row[r], call[h].result, call[h].stamp)
  <2>1. \/ row' = row
        \/ row[r].state \in Finishable /\ row' = [row EXCEPT ![r] = w]
    <3>1. row' = row \/ row' = [row EXCEPT ![r] = FinishedRow(h)]
      BY <1>5 DEF Finish
    <3>2. FinishedRow(h) = row[r] \/ (row[r].state \in Finishable /\ FinishedRow(h) = w)
      BY <1>5, Zenon DEF FinishedRow, CanFinish
    <3>3. FinishedRow(h) = row[r] => [row EXCEPT ![r] = FinishedRow(h)] = row
      BY <1>1
    <3> HIDE DEF w
    <3> QED BY <3>1, <3>2, <3>3
  <2>2. SameRequest(row[r], w) /\ w.state = call[h].result
    <3>1. \A result, stamp : /\ SameRequest(row[r], Finished(row[r], result, stamp))
                             /\ Finished(row[r], result, stamp).state = result
      BY <1>1, SameStatements
    <3> QED BY <3>1
  <2>3. call[h].result \in {"failed", "unconfirmed", "awaiting_echo"}
    BY <1>1, <1>5 DEF Finish, ClaimInv, LocalsSet, Call, Results
  <2> HIDE DEF w
  <2>4. CASE row[r].state \in Finishable /\ row' = [row EXCEPT ![r] = w]
    BY <1>1, <2>2, <2>3, <2>4 DEF RowKept, Exists, Finishable
  <2> QED BY <1>2, <2>1, <2>4
<1>6. CASE row' = row
  BY <1>2, <1>6
<1> QED
  BY <1>2, <1>3, <1>4, <1>5, <1>6
     DEF HandlerStep, Lookup, Check, Load, Translate, Recheck, Write

LEMMA EnvironmentRowStep ==
  ASSUME ClaimInv, Next, ~ \E h \in Handlers : HandlerStep(h), NEW r \in Requests
  PROVE  RowKept(r) \/ RowConfirmed(r) \/ RowErased(r)
<1>1. row \in [Requests -> Row] /\ row[r] \in Row
  BY DEF ClaimInv, TypeOK
<1>2. ASSUME NEW line \in inflight, Receive(line)
      PROVE  RowKept(r) \/ RowConfirmed(r)
  <2> DEFINE w(q) == Confirmed(row[q], Len(messages) + 1)
  <2>1. \/ row' = row
        \/ \E q \in PendingEcho(line.text) :
             /\ row' = [row EXCEPT ![q] = w(q)]
             /\ messages' = Append(messages, [text |-> line.text, sender |-> q])
    BY <1>2 DEF Receive
  <2>2. Confirms(row[r], w(r), Len(messages) + 1)
    BY <1>1, OtherStatements
  <2> HIDE DEF w
  <2>3. CASE row' = row
    BY <2>3, RowStays
  <2>4. ASSUME NEW q \in PendingEcho(line.text), row' = [row EXCEPT ![q] = w(q)],
               messages' = Append(messages, [text |-> line.text, sender |-> q])
        PROVE  RowKept(r) \/ RowConfirmed(r)
    <3>1. CASE q # r
      BY <1>1, <2>4, <3>1, RowStays
    <3>2. CASE q = r
      <4>1. row'[r] = w(r)
        BY <1>1, <2>4, <3>2
      <4> QED BY <1>2, <2>2, <2>4, <3>2, <4>1 DEF RowConfirmed
    <3> QED BY <3>1, <3>2
  <2> QED BY <2>1, <2>3, <2>4
<1>3. CASE ExpireSends
  <2>1. SameRequest(row[r], Expired(row[r])) /\ Expired(row[r]).state = "unconfirmed"
    BY <1>1, SameStatements
  <2>2. CASE Expirable(row[r])
    <3>1. row'[r] = Expired(row[r]) /\ row[r].state = "awaiting_echo"
      BY <1>3, <2>2 DEF ExpireSends, Expirable
    <3> QED BY <2>1, <3>1 DEF RowKept, Exists
  <2>3. CASE ~Expirable(row[r])
    BY <1>3, <2>3, RowStays DEF ExpireSends
  <2> QED BY <2>2, <2>3
<1>4. ASSUME NEW q \in Requests, DismissSend(q) PROVE RowKept(r)
  <2> DEFINE w == [row[r] EXCEPT !.dismissed = TRUE]
  <2>1. SameRequest(row[r], w) /\ w.state = row[r].state
    BY <1>1, SameStatements
  <2>2. row'[r] = row[r] \/ row'[r] = w
    BY <1>1, <1>4 DEF DismissSend
  <2> HIDE DEF w
  <2> QED BY <2>1, <2>2, RowStays DEF RowKept, Exists
<1>5. ASSUME NEW q \in Requests, Prune(q) PROVE RowKept(r) \/ RowErased(r)
  <2>1. CASE q = r
    <3>1. row'[r] = Purged(row[r]) /\ Purgeable(row[r])
      BY <1>1, <1>5, <2>1 DEF Prune
    <3> QED BY <1>1, <3>1, OtherStatements DEF RowErased
  <2>2. CASE q # r
    BY <1>1, <1>5, <2>2, RowStays DEF Prune
  <2> QED BY <2>1, <2>2
<1>6. CASE Restart \/ Crash
  <2>1. row'[r] = Recovered(row[r])
    BY <1>6 DEF Restart, Crash
  <2>2. SameRequest(row[r], Recovered(row[r]))
    BY <1>1, SameStatements
  <2>3. /\ row[r].state = "none" <=> Recovered(row[r]).state = "none"
        /\ row[r].state = "confirmed" <=> Recovered(row[r]).state = "confirmed"
    BY <1>1 DEF Recovered, Row, States
  <2> QED BY <2>1, <2>2, <2>3 DEF RowKept, Exists
<1>7. CASE UNCHANGED row
  BY <1>7, RowStays
<1> QED
  BY <1>2, <1>3, <1>4, <1>5, <1>6, <1>7 DEF Next, Admit, Lose, Stop, Tick

LEMMA EveryRowSteps ==
  ASSUME ClaimInv, [Next]_vars, NEW r \in Requests PROVE RowStep(r)
<1>1. CASE UNCHANGED vars
  BY <1>1, RowStays DEF vars, RowStep
<1>2. CASE \E h \in Handlers : HandlerStep(h)
  BY <1>2, HandlerRowStep DEF RowStep
<1>3. CASE Next /\ ~ \E h \in Handlers : HandlerStep(h)
  BY <1>3, EnvironmentRowStep DEF RowStep
<1> QED BY <1>1, <1>2, <1>3

-----------------------------------------------------------------------------
(* What a step may do to the local variables of a handler.                 *)

LEMMA HandlerTexts ==
  ASSUME ClaimInv, NEW h \in Handlers, HandlerStep(h), pc[h] # "translate"
  PROVE  call'[h].text = call[h].text
<1>1. call \in [Handlers -> Call] /\ call[h] \in Call
  BY DEF ClaimInv, TypeOK
<1>2. ASSUME NEW answer, Answer(h, answer) PROVE call'[h].text = call[h].text
  BY <1>2, AnswerEffect DEF ClaimInv
<1>3. ASSUME NEW result, GiveUp(h, result) PROVE call'[h].text = call[h].text
  BY <1>3, GiveUpEffect DEF ClaimInv
<1>4. ASSUME NEW n, call' = [call EXCEPT ![h].stamp = n]
                      \/ call' = [call EXCEPT ![h].claimed = n] \/ UNCHANGED call
      PROVE  call'[h].text = call[h].text
  BY <1>1, <1>4 DEF Call
<1>5. ASSUME Lookup(h) \/ Check(h) \/ Claim(h) \/ Load(h)
      PROVE  call'[h].text = call[h].text
  BY <1>2, <1>4, <1>5 DEF Lookup, Check, Claim, Load
<1>6. ASSUME Prepare(h) \/ Recheck(h) \/ Write(h) \/ Finish(h)
      PROVE  call'[h].text = call[h].text
  BY <1>2, <1>3, <1>4, <1>6 DEF Prepare, Recheck, Write, Finish
<1> QED BY <1>5, <1>6 DEF HandlerStep, Translate

\* A handler answers with the request it finds with its own body, or that it
\* holds.
LEMMA HandlerAnswers ==
  ASSUME ClaimInv, BodiesKept, NEW h \in Handlers, HandlerStep(h),
         call'[h].answer = "send"
  PROVE  \/ call[h].answer = "send" \/ call[h].claimed
         \/ /\ Exists(call[h].req) /\ row[call[h].req].body = call[h].body
            /\ row' = row
<1>1. call \in [Handlers -> Call] /\ call[h] \in Call
  BY DEF ClaimInv, TypeOK
<1> DEFINE Owed == \/ call[h].answer = "send" \/ call[h].claimed
                   \/ /\ Exists(call[h].req)
                      /\ row[call[h].req].body = call[h].body
                      /\ row' = row
<1>2. ASSUME NEW answer, Answer(h, answer) PROVE answer = "send"
  BY <1>2, AnswerEffect DEF ClaimInv
<1>3. ASSUME NEW result, GiveUp(h, result) PROVE call[h].answer = "send"
  BY <1>1, <1>3 DEF GiveUp, Call
<1>4. ASSUME NEW n, \/ call' = [call EXCEPT ![h].stamp = n]
                    \/ call' = [call EXCEPT ![h].text = n]
                    \/ call' = [call EXCEPT ![h].claimed = n] \/ UNCHANGED call
      PROVE  call[h].answer = "send"
  BY <1>1, <1>4 DEF Call
<1>5. ASSUME NEW w, NEW b, AnswerFor(w, b) = "send" PROVE w.body = b
  BY <1>5 DEF AnswerFor
<1>6. CASE Lookup(h)
  BY <1>2, <1>4, <1>5, <1>6 DEF Lookup
<1>7. CASE Load(h)
  <2>1. Exists(call[h].req)
    BY <1>7 DEF Load, BodiesKept
  <2> QED BY <1>2, <1>4, <1>5, <1>7, <2>1 DEF Load
<1>8. CASE Check(h) \/ Claim(h)
  BY <1>2, <1>4, <1>8 DEF Check, Claim
<1>9. CASE Translate(h) \/ Prepare(h) \/ Recheck(h) \/ Write(h)
  BY <1>3, <1>4, <1>9 DEF Translate, Prepare, Recheck, Write
<1>10. CASE Finish(h)
  BY <1>10 DEF Finish, ClaimInv, OneClaim
<1> QED BY <1>6, <1>7, <1>8, <1>9, <1>10 DEF HandlerStep

\* A handler that goes on to write has prepared its text, or goes from one
\* check to the next.
LEMMA HandlerPrepares ==
  ASSUME ClaimInv, NEW h \in Handlers, HandlerStep(h),
         pc'[h] \in {"recheck", "write"}
  PROVE  LET r == call[h].req
         IN \/ pc[h] = "prepare" /\ row'[r].wire = call'[h].text
            \/ pc[h] = "recheck" /\ row' = row /\ call' = call
<1>1. /\ call \in [Handlers -> Call] /\ call[h] \in Call
      /\ pc \in [Handlers -> PCs] /\ row \in [Requests -> Row]
      /\ call[h].req \in Requests
  BY HandlerFrame DEF ClaimInv, TypeOK, LocalsSet, Running
<1>2. ASSUME NEW answer, Answer(h, answer) PROVE FALSE
  BY <1>2, AnswerEffect DEF ClaimInv
<1>3. ASSUME NEW result, GiveUp(h, result) PROVE FALSE
  BY <1>3, GiveUpEffect DEF ClaimInv
<1>4. ASSUME NEW label \in {"check", "claim", "load", "translate", "prepare"},
             Goto(h, label)
      PROVE  FALSE
  BY <1>1, <1>4 DEF Goto
<1>5. CASE Lookup(h) \/ Check(h) \/ Claim(h) \/ Load(h)
  BY <1>2, <1>4, <1>5 DEF Lookup, Check, Claim, Load
<1>6. CASE Translate(h) \/ Write(h) \/ Finish(h)
  BY <1>2, <1>3, <1>4, <1>6 DEF Translate, Write, Finish
<1>7. CASE Recheck(h)
  BY <1>3, <1>7 DEF Recheck
<1>8. CASE Prepare(h)
  <2> DEFINE r == call[h].req
  <2>1. /\ row' = [row EXCEPT ![r] = Prepared(row[r], call[h].text)]
        /\ row[r].state \in Finishable /\ pc[h] = "prepare" /\ UNCHANGED call
    BY <1>3, <1>8 DEF Prepare
  <2>2. Prepared(row[r], call[h].text).wire = call[h].text
    BY <1>1, <2>1, OtherStatements DEF Prepares
  <2> QED BY <1>1, <2>1, <2>2
<1> QED BY <1>5, <1>6, <1>7, <1>8 DEF HandlerStep

\* What every step leaves of a claim and of an answer.
LEMMA EveryCallSteps ==
  ASSUME ClaimInv, [Next]_vars, NEW g \in Handlers
  PROVE  /\ call[g].claimed =>
              /\ call'[g].claimed /\ SameCall(call'[g], call[g])
              /\ pc[g] # "translate" => call'[g].text = call[g].text
         /\ call'[g].claimed /\ ~call[g].claimed =>
              /\ pc[g] = "claim" /\ SameCall(call'[g], call[g])
              /\ ~Exists(call[g].req) /\ row'[call[g].req].state \in Finishable
         /\ \/ pc'[g] = pc[g] /\ call'[g] = call[g]
            \/ HandlerStep(g)
            \/ /\ pc'[g] \in {"lookup", "dead"} /\ call'[g].answer # "send"
<1>1. CASE \E h \in Handlers : HandlerStep(h)
  <2>1. PICK h \in Handlers : HandlerStep(h)
    BY <1>1
  <2>2. CASE g = h
    BY <2>1, <2>2, HandlerFrame, HandlerClaims, HandlerTexts DEF ClaimInv
  <2>3. CASE g # h
    BY <2>1, <2>3, HandlerFrame DEF ClaimInv, SameCall
  <2> QED BY <2>2, <2>3
<1>2. CASE Next /\ ~ \E h \in Handlers : HandlerStep(h)
  <2>1. \/ call'[g].claimed = FALSE /\ call[g].claimed = FALSE
        \/ /\ call'[g].claimed = call[g].claimed
           /\ SameCall(call'[g], call[g]) /\ call'[g].text = call[g].text
    BY <1>2, EnvironmentCalls DEF ClaimInv
  <2>2. \/ pc'[g] = pc[g] /\ call'[g] = call[g]
        \/ pc'[g] \in {"lookup", "dead"} /\ call'[g].answer # "send"
    <3>1. call \in [Handlers -> Call] /\ pc \in [Handlers -> PCs]
      BY DEF ClaimInv, TypeOK
    <3>2. ASSUME NEW h \in Handlers, NEW r \in Requests, NEW b \in Bodies,
                 Admit(h, r, b)
          PROVE  \/ pc'[g] = pc[g] /\ call'[g] = call[g]
                 \/ pc'[g] \in {"lookup", "dead"} /\ call'[g].answer # "send"
      BY <3>1, <3>2 DEF Admit, Goto, NoCall
    <3>3. CASE Crash
      BY <3>1, <3>3 DEF Crash, Ended, Call
    <3>4. CASE UNCHANGED <<pc, call>>
      BY <3>4
    <3> QED BY <1>2, <3>2, <3>3, <3>4 DEF Next, Receive, Lose, ExpireSends,
               DismissSend, Prune, Stop, Restart, Tick
  <2> QED BY <2>1, <2>2
<1>3. CASE UNCHANGED vars
  BY <1>3 DEF vars, SameCall
<1> QED BY <1>1, <1>2, <1>3

-----------------------------------------------------------------------------
(* Echoes and answers: every step keeps the inductive invariant.           *)

LEMMA RowTypes ==
  ASSUME ClaimInv, NEW r \in Requests
  PROVE  row[r] \in Row /\ row[r].message \in Nat /\ row[r].created \in Nat
  BY DEF ClaimInv, TypeOK, Row

\* Only what awaits an echo, and is not erased, is confirmed.
LEMMA WhatIsConfirmed ==
  ASSUME NEW t, NEW r \in PendingEcho(t)
  PROVE  /\ r \in Requests /\ row[r].wire = t /\ ~row[r].purged /\ ~row[r].echoed
         /\ row[r].state \in {"sending", "awaiting_echo", "unconfirmed"}
  BY DEF PendingEcho, EchoMatches, Carries, AwaitsEcho

LEMMA EchoedOnceStep ==
  ASSUME ClaimInv, EchoedOnce, [Next]_vars PROVE EchoedOnce'
<1> SUFFICES ASSUME NEW r \in Requests
             PROVE  /\ row'[r].echoed <=> row'[r].message # 0
                    /\ row'[r].echoed => row'[r].state = "confirmed"
  BY DEF EchoedOnce
<1>1. /\ row[r].echoed <=> row[r].message # 0
      /\ row[r].echoed => row[r].state = "confirmed"
  BY DEF EchoedOnce
<1>2. RowStep(r)
  BY EveryRowSteps
<1>3. CASE RowKept(r)
  BY <1>1, <1>3 DEF RowKept, SameRequest
<1>4. CASE RowInserted(r)
  BY <1>4 DEF RowInserted, Inserts
<1>5. CASE RowPrepared(r)
  BY <1>1, <1>5 DEF RowPrepared, Prepares, Finishable
<1>6. CASE RowConfirmed(r)
  <2>1. Len(messages) + 1 # 0
    BY DEF ClaimInv, TypeOK
  <2> QED BY <1>6, <2>1 DEF RowConfirmed, Confirms
<1>7. CASE RowErased(r)
  BY <1>1, <1>7 DEF RowErased, Erases
<1> QED BY <1>2, <1>3, <1>4, <1>5, <1>6, <1>7 DEF RowStep

\* Two handlers never hold the claim of one request.
LEMMA OneHolder ==
  ASSUME ClaimInv, NEW g \in Handlers, NEW h \in Handlers,
         call[g].claimed, call[h].claimed, call[g].req = call[h].req
  PROVE  g = h
  BY DEF ClaimInv, OneClaim

LEMMA ClaimedExists ==
  ASSUME ClaimInv, NEW h \in Handlers, call[h].claimed
  PROVE  call[h].req \in Requests /\ Exists(call[h].req)
  BY DEF ClaimInv, OneClaim, LocalsSet

\* A text that is carried stays, or is erased.
LEMMA WireStays ==
  ASSUME ClaimInv, [Next]_vars, NEW r \in Requests, NEW h \in Handlers,
         call[h].claimed, call[h].req = r, pc[h] # "prepare",
         NEW t, row[r].purged \/ row[r].wire = t
  PROVE  row'[r].purged \/ row'[r].wire = t
<1>1. RowStep(r)
  BY EveryRowSteps
<1>2. CASE RowKept(r)
  BY <1>2 DEF RowKept, SameRequest
<1>3. CASE RowInserted(r)
  BY <1>3, ClaimedExists DEF RowInserted
<1>4. CASE RowPrepared(r)
  BY <1>4, OneHolder DEF RowPrepared
<1>5. CASE RowConfirmed(r)
  BY <1>5 DEF RowConfirmed, Confirms
<1>6. CASE RowErased(r)
  BY <1>6 DEF RowErased, Erases
<1> QED BY <1>1, <1>2, <1>3, <1>4, <1>5, <1>6 DEF RowStep

LEMMA WiresStep ==
  ASSUME ClaimInv, WiresPrepared, [Next]_vars PROVE WiresPrepared'
<1>1. ASSUME NEW r \in Requests, row'[r].wire # NoText
      PROVE  \E h \in Handlers : /\ call'[h].claimed /\ call'[h].req = r
                                 /\ call'[h].text = row'[r].wire
  <2>1. CASE row'[r].wire = row[r].wire
    <3>1. PICK h \in Handlers : /\ call[h].claimed /\ call[h].req = r
                                /\ call[h].text = row[r].wire
      BY <1>1, <2>1 DEF WiresPrepared
    <3>2. pc[h] # "translate"
      BY <1>1, <2>1, <3>1 DEF ClaimInv, HolderKeepsRow, Running
    <3> QED BY <2>1, <3>1, <3>2, EveryCallSteps DEF SameCall
  <2>2. CASE RowPrepared(r)
    BY <2>2 DEF RowPrepared, Prepares
  <2>3. RowStep(r)
    BY EveryRowSteps
  <2> QED
    BY <1>1, <2>1, <2>2, <2>3 DEF RowStep, RowKept, SameRequest, RowInserted,
       Inserts, RowConfirmed, Confirms, RowErased, Erases
<1>2. ASSUME NEW h \in Handlers, pc'[h] \in {"recheck", "write"}
      PROVE  row'[call'[h].req].purged \/ row'[call'[h].req].wire = call'[h].text
  <2>1. CASE pc'[h] = pc[h] /\ call'[h] = call[h]
    <3>1. call[h].claimed /\ call[h].req \in Requests
      BY <1>2, <2>1 DEF ClaimInv, OneClaim, LocalsSet
    <3>2. row[call[h].req].purged \/ row[call[h].req].wire = call[h].text
      BY <1>2, <2>1 DEF WiresPrepared
    <3> QED BY <1>2, <2>1, <3>1, <3>2, WireStays
  <2>2. CASE HandlerStep(h)
    <3>1. call'[h].req = call[h].req
      BY <2>2, HandlerFrame DEF ClaimInv, SameCall
    <3>2. \/ pc[h] = "prepare" /\ row'[call[h].req].wire = call'[h].text
          \/ pc[h] = "recheck" /\ row' = row /\ call' = call
      BY <1>2, <2>2, HandlerPrepares
    <3> QED BY <3>1, <3>2 DEF WiresPrepared
  <2> QED BY <1>2, <2>1, <2>2, EveryCallSteps
<1>3. ASSUME NEW line \in sent'
      PROVE  row'[line.req].purged \/ row'[line.req].wire = line.text
  <2>1. CASE line \in sent
    <3>1. /\ line.by \in Handlers /\ line.req \in Requests
      BY <2>1 DEF ClaimInv, TypeOK, Line
    <3>2. /\ call[line.by].claimed /\ call[line.by].req = line.req
          /\ pc[line.by] # "prepare"
      BY <2>1 DEF ClaimInv, SentByHolder
    <3>3. row[line.req].purged \/ row[line.req].wire = line.text
      BY <2>1 DEF WiresPrepared
    <3> QED BY <3>1, <3>2, <3>3, WireStays
  <2>2. CASE line \notin sent
    <3>1. PICK h \in Handlers : Write(h)
      BY <1>3, <2>2 DEF Next, vars, HandlerStep, Lookup, Check, Claim, Load,
         Translate, Prepare, Recheck, Finish, Admit, Receive, Lose, ExpireSends,
         DismissSend, Prune, Stop, Restart, Crash, Tick
    <3>2. /\ line = [by |-> h, req |-> call[h].req, text |-> call[h].text]
          /\ row' = row /\ pc[h] = "write"
      BY <1>3, <2>2, <3>1 DEF Write
    <3> QED BY <3>2 DEF WiresPrepared
  <2> QED BY <2>1, <2>2
<1> QED BY <1>1, <1>2, <1>3 DEF WiresPrepared

\* A row stays, and its body too unless it is erased.
LEMMA BodyStays ==
  ASSUME ClaimInv, [Next]_vars, NEW r \in Requests, Exists(r)
  PROVE  /\ row'[r].state # "none"
         /\ \A b : row[r].purged \/ row[r].body = b
                     => row'[r].purged \/ row'[r].body = b
<1>1. RowStep(r)
  BY EveryRowSteps
<1>2. CASE RowKept(r)
  BY <1>2 DEF RowKept, SameRequest
<1>3. CASE RowInserted(r)
  BY <1>3 DEF RowInserted
<1>4. CASE RowPrepared(r)
  BY <1>4 DEF RowPrepared, Prepares
<1>5. CASE RowConfirmed(r)
  BY <1>5 DEF RowConfirmed, Confirms
<1>6. CASE RowErased(r)
  BY <1>6 DEF RowErased, Erases, Exists
<1> QED BY <1>1, <1>2, <1>3, <1>4, <1>5, <1>6 DEF RowStep

\* Who takes the claim inserts the row with its own body.
LEMMA ClaimantsBody ==
  ASSUME ClaimInv, [Next]_vars, NEW h \in Handlers, call'[h].claimed,
         ~call[h].claimed
  PROVE  row'[call[h].req].body = call[h].body /\ row'[call[h].req].state # "none"
<1> DEFINE r == call[h].req
<1>1. /\ pc[h] = "claim" /\ ~Exists(r) /\ row'[r].state \in Finishable
  BY EveryCallSteps
<1>2. r \in Requests
  BY <1>1 DEF ClaimInv, LocalsSet
<1>3. HandlerStep(h)
  <2>1. pc'[h] # pc[h] \/ call'[h] # call[h]
    OBVIOUS
  <2>2. pc'[h] \notin {"lookup", "dead"} \/ HandlerStep(h)
    <3>1. CASE \E g \in Handlers : HandlerStep(g)
      <4>1. PICK g \in Handlers : HandlerStep(g)
        BY <3>1
      <4> QED BY <4>1, <2>1, HandlerFrame DEF ClaimInv
    <3>2. CASE Next /\ ~ \E g \in Handlers : HandlerStep(g)
      BY <3>2, EnvironmentCalls DEF ClaimInv
    <3>3. CASE UNCHANGED vars
      BY <3>3 DEF vars
    <3> QED BY <3>1, <3>2, <3>3
  <2> QED BY <2>1, <2>2, EveryCallSteps
<1>4. Claim(h)
  BY <1>1, <1>3 DEF HandlerStep, Lookup, Check, Load, Translate, Prepare, Recheck,
     Write, Finish
<1>5. row' = row \/ row' = [row EXCEPT ![r] = Claimed(call[h].body, call[h].stamp)]
  BY <1>4 DEF Claim, Insert
<1>6. /\ call[h].body \in Bodies /\ call[h].stamp \in Nat
      /\ row \in [Requests -> Row]
  BY <1>1 DEF ClaimInv, LocalsSet, TypeOK, Call
<1>7. Inserts(Claimed(call[h].body, call[h].stamp), call[h].body)
  BY <1>6, OtherStatements
<1> QED BY <1>1, <1>2, <1>5, <1>6, <1>7 DEF Inserts, Exists, Finishable

LEMMA BodiesStep ==
  ASSUME ClaimInv, BodiesKept, [Next]_vars PROVE BodiesKept'
<1> SUFFICES ASSUME NEW h \in Handlers
             PROVE  /\ pc'[h] = "load" => row'[call'[h].req].state # "none"
                    /\ call'[h].claimed \/ call'[h].answer = "send" =>
                         /\ pc'[h] # "idle" /\ row'[call'[h].req].state # "none"
                         /\ \/ row'[call'[h].req].purged
                            \/ row'[call'[h].req].body = call'[h].body
  BY DEF BodiesKept, Exists
<1> DEFINE r == call[h].req
           Owned == /\ row'[r].state # "none"
                    /\ row'[r].purged \/ row'[r].body = call[h].body
<1>1. pc[h] # "idle" => r \in Requests
  BY DEF ClaimInv, LocalsSet
<1>2. ASSUME call[h].claimed \/ call[h].answer = "send", r \in Requests
      PROVE  Owned
  BY <1>2, BodyStays DEF BodiesKept
<1>3. CASE HandlerStep(h)
  <2>1. pc[h] \in Running /\ SameCall(call'[h], call[h]) /\ r \in Requests
    BY <1>1, <1>3, HandlerFrame DEF ClaimInv, Running
  <2>2. ASSUME call'[h].claimed PROVE Owned
    BY <1>2, <2>1, <2>2, ClaimantsBody
  <2>3. ASSUME call'[h].answer = "send" PROVE Owned
    <3>1. \/ call[h].answer = "send" \/ call[h].claimed
          \/ Exists(r) /\ row[r].body = call[h].body /\ row' = row
      BY <1>3, <2>3, HandlerAnswers
    <3> QED BY <1>2, <2>1, <3>1 DEF Exists
  <2>4. ASSUME pc'[h] = "load" PROVE row'[r].state # "none"
    <3>1. Claim(h)
      <4>1. ASSUME NEW answer, Answer(h, answer) PROVE FALSE
        BY <2>4, <4>1, AnswerEffect DEF ClaimInv
      <4>2. ASSUME NEW result, GiveUp(h, result) PROVE FALSE
        BY <2>4, <4>2, GiveUpEffect DEF ClaimInv
      <4>3. ASSUME NEW label, label # "load", Goto(h, label) PROVE FALSE
        BY <2>4, <4>3 DEF Goto, ClaimInv, TypeOK
      <4>4. ~Lookup(h) /\ ~Check(h) /\ ~Load(h) /\ ~Translate(h)
        BY <4>1, <4>2, <4>3 DEF Lookup, Check, Load, Translate
      <4>5. ~Prepare(h) /\ ~Recheck(h) /\ ~Write(h) /\ ~Finish(h)
        BY <4>1, <4>2, <4>3 DEF Prepare, Recheck, Write, Finish
      <4> QED BY <1>3, <4>4, <4>5 DEF HandlerStep
    <3>2. CASE Exists(r)
      BY <2>1, <3>2, BodyStays
    <3>3. CASE ~Exists(r)
      <4>1. Insert(h)
        <5>1. ~Answer(h, "unavailable")
          BY <2>4, AnswerEffect DEF ClaimInv
        <5> QED BY <3>1, <5>1 DEF Claim
      <4>2. row' = [row EXCEPT ![r] = Claimed(call[h].body, call[h].stamp)]
        BY <3>3, <4>1 DEF Insert
      <4>3. call[h].body \in Bodies /\ call[h].stamp \in Nat
            /\ row \in [Requests -> Row]
        BY <2>1 DEF ClaimInv, LocalsSet, TypeOK, Call, Running
      <4> QED BY <2>1, <4>2, <4>3, OtherStatements DEF Inserts, Finishable
    <3> QED BY <3>2, <3>3
  <2>5. pc'[h] # "idle"
    BY <1>3, HandlerFrame DEF ClaimInv
  <2> QED BY <2>1, <2>2, <2>3, <2>4, <2>5 DEF SameCall
<1>4. CASE pc'[h] = pc[h] /\ call'[h] = call[h]
  <2>1. ASSUME pc[h] = "load" PROVE row'[r].state # "none"
    BY <1>1, <2>1, BodyStays DEF BodiesKept
  <2>2. ASSUME call[h].claimed \/ call[h].answer = "send" PROVE Owned
    <3>1. pc[h] # "idle"
      BY <2>2 DEF BodiesKept
    <3> QED BY <1>1, <1>2, <2>2, <3>1
  <2>3. call[h].claimed \/ call[h].answer = "send" => pc[h] # "idle"
    BY DEF BodiesKept
  <2> QED BY <1>4, <2>1, <2>2, <2>3
<1>5. CASE pc'[h] \in {"lookup", "dead"} /\ call'[h].answer # "send"
  <2>1. ASSUME call'[h].claimed
        PROVE  call[h].claimed /\ SameCall(call'[h], call[h]) /\ r \in Requests
    <3>1. call[h].claimed
      <4>1. ASSUME ~call[h].claimed PROVE FALSE
        <5>1. CASE \E g \in Handlers : HandlerStep(g)
          <6>1. PICK g \in Handlers : HandlerStep(g)
            BY <5>1
          <6> QED BY <1>5, <2>1, <4>1, <6>1, HandlerFrame, HandlerClaims DEF ClaimInv
        <5>2. CASE Next /\ ~ \E g \in Handlers : HandlerStep(g)
          BY <2>1, <4>1, <5>2, EnvironmentCalls DEF ClaimInv
        <5>3. CASE UNCHANGED vars
          BY <2>1, <4>1, <5>3 DEF vars
        <5> QED BY <5>1, <5>2, <5>3
      <4> QED BY <4>1
    <3> QED BY <3>1, EveryCallSteps, ClaimedExists
  <2> QED BY <1>2, <1>5, <2>1 DEF SameCall
<1> QED BY <1>3, <1>4, <1>5, EveryCallSteps

LEMMA PurgedLateStep ==
  ASSUME ClaimInv, PurgedLate, [Next]_vars PROVE PurgedLate'
<1> SUFFICES ASSUME NEW r \in Requests, row'[r].purged
             PROVE  row'[r].created + Retention < now'
  BY DEF PurgedLate
<1>1. now \in Nat /\ Retention \in Nat /\ row[r].created \in Nat
  BY RowTypes, SendAssumption DEF ClaimInv, TypeOK, SendAssumption
<1>2. now' \in Nat /\ now' >= now
  <2>1. now' = now \/ now' = now + 1
    BY DEF Next, vars, HandlerStep, Lookup, Check, Claim, Load, Translate, Prepare,
       Recheck, Write, Finish, Admit, Receive, Lose, ExpireSends, DismissSend,
       Prune, Stop, Restart, Crash, Tick
  <2> QED BY <1>1, <2>1
<1>3. RowStep(r)
  BY EveryRowSteps
<1>4. CASE row'[r].created = row[r].created /\ row[r].purged
  BY <1>1, <1>2, <1>4 DEF PurgedLate
<1>5. CASE RowErased(r)
  <2>1. row'[r].created = row[r].created /\ row[r].created + Retention < now
    BY <1>5 DEF RowErased, Erases, Purgeable
  <2> QED BY <1>1, <1>2, <2>1
<1> QED
  BY <1>3, <1>4, <1>5 DEF RowStep, RowKept, SameRequest, RowInserted, Inserts,
     RowPrepared, Prepares, RowConfirmed, Confirms

\* The table of messages stays, or has one more for the line that was received.
LEMMA MessagesStep ==
  ASSUME ClaimInv, [Next]_vars
  PROVE  \/ messages' = messages
         \/ \E line \in inflight, sender \in Requests \cup {NoReq} :
              /\ Receive(line)
              /\ messages' = Append(messages, [text |-> line.text, sender |-> sender])
              /\ sender \in Requests =>
                   /\ sender \in PendingEcho(line.text)
                   /\ row'[sender].message = Len(messages) + 1
<1>1. row \in [Requests -> Row]
  BY DEF ClaimInv, TypeOK
<1>2. CASE \E line \in inflight : Receive(line)
  <2>1. PICK line \in inflight : Receive(line)
    BY <1>2
  <2>2. CASE messages' = Append(messages, [text |-> line.text, sender |-> NoReq])
    BY <2>1, <2>2, SendAssumption DEF SendAssumption
  <2>3. ASSUME NEW r \in PendingEcho(line.text),
               messages' = Append(messages, [text |-> line.text, sender |-> r]),
               row' = [row EXCEPT ![r] = Confirmed(row[r], Len(messages) + 1)]
        PROVE  /\ r \in Requests
               /\ row'[r].message = Len(messages) + 1
    BY <1>1, <2>3, WhatIsConfirmed, OtherStatements DEF Confirms
  <2> QED BY <2>1, <2>2, <2>3 DEF Receive
<1>3. CASE UNCHANGED messages
  BY <1>3
<1> QED
  BY <1>2, <1>3 DEF Next, vars, HandlerStep, Lookup, Check, Claim, Load, Translate,
     Prepare, Recheck, Write, Finish, Admit, Lose, ExpireSends, DismissSend,
     Prune, Stop, Restart, Crash, Tick

\* A row that points at a message points at it for good; one that does not
\* comes to point at the newest only.
LEMMA MessageStays ==
  ASSUME ClaimInv, EchoedOnce, [Next]_vars, NEW r \in Requests
  PROVE  \/ row'[r].message = row[r].message
         \/ row[r].message = 0 /\ RowConfirmed(r)
<1>1. /\ row[r].echoed <=> row[r].message # 0
      /\ row[r].echoed => row[r].state = "confirmed"
  BY DEF EchoedOnce
<1>2. RowStep(r)
  BY EveryRowSteps
<1>3. CASE RowInserted(r)
  BY <1>1, <1>3 DEF RowInserted, Inserts, Exists
<1>4. CASE RowConfirmed(r)
  BY <1>1, <1>4, WhatIsConfirmed DEF RowConfirmed
<1> QED
  BY <1>2, <1>3, <1>4 DEF RowStep, RowKept, SameRequest, RowPrepared, Prepares,
     RowErased, Erases

\* Who prepared the text of a message keeps it: nobody translates for a request
\* that was confirmed.
LEMMA PreparerStays ==
  ASSUME ClaimInv, [Next]_vars, NEW r, NEW t,
         row[r].wire # NoText \/ row[r].state \notin Finishable,
         \E h \in Handlers : call[h].claimed /\ call[h].req = r /\ call[h].text = t
  PROVE  \E h \in Handlers :
           call'[h].claimed /\ call'[h].req = r /\ call'[h].text = t
<1>1. PICK h \in Handlers : call[h].claimed /\ call[h].req = r /\ call[h].text = t
  OBVIOUS
<1>2. pc[h] # "translate"
  BY <1>1 DEF ClaimInv, HolderKeepsRow, Running
<1> QED BY <1>1, <1>2, EveryCallSteps DEF SameCall

LEMMA MatchedStep ==
  ASSUME ClaimInv, EchoedOnce, WiresPrepared, EchoesMatched, [Next]_vars
  PROVE  EchoesMatched'
<1>1. messages \in Seq([text : Texts, sender : Requests \cup {NoReq}])
  BY DEF ClaimInv, TypeOK
<1>2. Len(messages) \in Nat /\ DOMAIN messages = 1..Len(messages)
  BY <1>1
<1>3. \A i \in DOMAIN messages : i \in DOMAIN messages' /\ messages'[i] = messages[i]
  <2>1. CASE messages' = messages
    BY <2>1
  <2>2. ASSUME NEW line \in inflight, NEW sender \in Requests \cup {NoReq},
               messages' = Append(messages, [text |-> line.text, sender |-> sender])
        PROVE  \A i \in DOMAIN messages : i \in DOMAIN messages'
                                          /\ messages'[i] = messages[i]
    BY <1>1, <2>2
  <2> QED BY <2>1, <2>2, MessagesStep
<1>4. ASSUME NEW r \in Requests, row'[r].message # 0
      PROVE  row'[r].message \in DOMAIN messages'
             /\ messages'[row'[r].message].sender = r
  <2>1. CASE row'[r].message = row[r].message
    BY <1>3, <1>4, <2>1 DEF EchoesMatched
  <2>2. CASE RowConfirmed(r)
    <3>1. PICK line \in inflight :
            /\ messages' = Append(messages, [text |-> line.text, sender |-> r])
            /\ row'[r].message = Len(messages) + 1
      BY <2>2 DEF RowConfirmed, Confirms
    <3> QED BY <1>1, <3>1
  <2> QED BY <2>1, <2>2, MessageStays
<1>5. ASSUME NEW i \in DOMAIN messages', messages'[i].sender \in Requests
      PROVE  /\ row'[messages'[i].sender].message = i
             /\ \E h \in Handlers : /\ call'[h].claimed
                                    /\ call'[h].req = messages'[i].sender
                                    /\ call'[h].text = messages'[i].text
  <2> DEFINE r == messages'[i].sender
  <2>1. CASE i \in DOMAIN messages
    <3>1. /\ messages'[i] = messages[i] /\ row[r].message = i /\ i # 0
          /\ \E h \in Handlers : /\ call[h].claimed /\ call[h].req = r
                                 /\ call[h].text = messages[i].text
      BY <1>2, <1>3, <1>5, <2>1 DEF EchoesMatched
    <3>2. row[r].state \notin Finishable
      BY <1>5, <3>1 DEF EchoedOnce, Finishable
    <3>3. row'[r].message = i
      BY <1>5, <3>1, MessageStays
    <3> QED BY <3>1, <3>2, <3>3, PreparerStays
  <2>2. CASE i \notin DOMAIN messages
    <3>1. PICK line \in inflight, sender \in Requests \cup {NoReq} :
              /\ Receive(line)
              /\ messages' = Append(messages, [text |-> line.text, sender |-> sender])
              /\ sender \in Requests =>
                   /\ sender \in PendingEcho(line.text)
                   /\ row'[sender].message = Len(messages) + 1
      BY <1>5, <2>2, MessagesStep
    <3>2. i = Len(messages) + 1
          /\ messages'[i] = [text |-> line.text, sender |-> sender]
      BY <1>1, <1>2, <1>5, <2>2, <3>1
    <3>3. r = sender /\ messages'[i].text = line.text
      BY <3>2
    <3>4. row'[r].message = i /\ row[r].wire = line.text
      BY <1>5, <3>1, <3>2, <3>3, WhatIsConfirmed
    <3>5. line.text # NoText
      BY SendAssumption DEF SendAssumption, ClaimInv, TypeOK, Line
    <3>6. \E h \in Handlers : /\ call[h].claimed /\ call[h].req = r
                              /\ call[h].text = line.text
      BY <1>5, <3>4, <3>5 DEF WiresPrepared
    <3>7. \E h \in Handlers : /\ call'[h].claimed /\ call'[h].req = r
                              /\ call'[h].text = line.text
      BY <3>4, <3>5, <3>6, PreparerStays
    <3> QED BY <3>3, <3>4, <3>7
  <2> QED BY <2>1, <2>2
<1> QED BY <1>4, <1>5 DEF EchoesMatched

-----------------------------------------------------------------------------
(* There are no more confirmations than echoes.                            *)

ConfirmedRequests == {r \in Requests : row[r].state = "confirmed"}

\* The requests whose text was written and is no longer on its way.
Arrived == {line.req : line \in sent \ inflight}

LEMMA FiniteRequests ==
  ASSUME NEW S \in SUBSET Requests
  PROVE  /\ IsFiniteSet(S) /\ Cardinality(S) \in Nat
         /\ \A T \in SUBSET S : Cardinality(T) \in Nat /\ Cardinality(T) <= Cardinality(S)
         /\ \A r \in Requests :
              /\ Cardinality(S \cup {r}) \in Nat
              /\ Cardinality(S \cup {r}) <= Cardinality(S) + 1
              /\ r \notin S => Cardinality(S \cup {r}) = Cardinality(S) + 1
<1>1. IsFiniteSet(Requests)
  BY SendAssumption DEF SendAssumption
<1>2. IsFiniteSet(S)
  BY <1>1, FS_Subset
<1>3. Cardinality(S) \in Nat
  BY <1>2, FS_CardinalityType
<1>4. ASSUME NEW T \in SUBSET S
      PROVE  Cardinality(T) \in Nat /\ Cardinality(T) <= Cardinality(S)
  BY <1>2, FS_Subset, FS_CardinalityType
<1>5. ASSUME NEW r \in Requests
      PROVE  /\ Cardinality(S \cup {r}) \in Nat
             /\ Cardinality(S \cup {r}) <= Cardinality(S) + 1
             /\ r \notin S => Cardinality(S \cup {r}) = Cardinality(S) + 1
  <2>1. /\ r \in S => Cardinality(S \cup {r}) = Cardinality(S)
        /\ r \notin S => Cardinality(S \cup {r}) = Cardinality(S) + 1
    BY <1>2, FS_AddElement
  <2> QED BY <1>3, <2>1
<1> QED BY <1>2, <1>3, <1>4, <1>5

\* Only an echo confirms, and it confirms one request and uses up its line.
LEMMA EchoUsedUp ==
  ASSUME ClaimInv, inflight \subseteq sent, [Next]_vars
  PROVE  /\ inflight' \subseteq sent' /\ Arrived \subseteq Arrived'
         /\ \/ ConfirmedRequests' \subseteq ConfirmedRequests
            \/ \E line \in inflight :
                 /\ Receive(line)
                 /\ line.req \in Arrived' \ Arrived
                 /\ \E r \in PendingEcho(line.text) :
                      ConfirmedRequests' = ConfirmedRequests \cup {r}
<1>1. ASSUME NEW line \in inflight, Receive(line)
      PROVE  /\ inflight' \subseteq sent' /\ Arrived \subseteq Arrived'
             /\ line.req \in Arrived' \ Arrived
             /\ \/ ConfirmedRequests' \subseteq ConfirmedRequests
                \/ \E r \in PendingEcho(line.text) :
                     ConfirmedRequests' = ConfirmedRequests \cup {r}
  <2>1. inflight' = inflight \ {line} /\ sent' = sent
    BY <1>1 DEF Receive
  <2>2. line.req \notin Arrived
    BY OneWrite DEF Arrived, SentOnce
  <2>3. line.req \in Arrived' /\ Arrived \subseteq Arrived'
    BY <2>1 DEF Arrived
  <2>4. row' = row => ConfirmedRequests' \subseteq ConfirmedRequests
    BY DEF ConfirmedRequests
  <2>5. ASSUME NEW r \in PendingEcho(line.text),
               row' = [row EXCEPT ![r] = Confirmed(row[r], Len(messages) + 1)]
        PROVE  ConfirmedRequests' = ConfirmedRequests \cup {r}
    <3>1. r \in Requests /\ row \in [Requests -> Row]
      BY WhatIsConfirmed DEF ClaimInv, TypeOK
    <3>2. Confirmed(row[r], Len(messages) + 1).state = "confirmed"
      BY <3>1, OtherStatements DEF Confirms
    <3> QED BY <2>5, <3>1, <3>2 DEF ConfirmedRequests
  <2>6. \/ row' = row
        \/ \E r \in PendingEcho(line.text) :
             row' = [row EXCEPT ![r] = Confirmed(row[r], Len(messages) + 1)]
    BY <1>1 DEF Receive
  <2>7. \/ ConfirmedRequests' \subseteq ConfirmedRequests
        \/ \E r \in PendingEcho(line.text) :
             ConfirmedRequests' = ConfirmedRequests \cup {r}
    BY <2>4, <2>5, <2>6, Zenon
  <2>8. inflight' \subseteq sent'
    BY <2>1
  <2>9. line.req \in Arrived' \ Arrived
    BY <2>2, <2>3
  <2> QED BY <2>3, <2>7, <2>8, <2>9, Zenon
<1>2. ASSUME ~ \E line \in inflight : Receive(line)
      PROVE  /\ inflight' \subseteq sent' /\ Arrived \subseteq Arrived'
             /\ ConfirmedRequests' \subseteq ConfirmedRequests
  <2>1. ASSUME NEW r \in Requests, row'[r].state = "confirmed"
        PROVE  row[r].state = "confirmed"
    <3>1. RowStep(r)
      BY EveryRowSteps
    <3> QED BY <1>2, <2>1, <3>1 DEF RowStep, RowKept, RowInserted, Inserts,
               RowPrepared, Prepares, RowConfirmed, RowErased, Erases, Finishable
  <2>2. ASSUME NEW h \in Handlers, Write(h)
        PROVE  inflight' \subseteq sent' /\ Arrived \subseteq Arrived'
    <3> DEFINE new == [by |-> h, req |-> call[h].req, text |-> call[h].text]
    <3>1. \/ inflight' = inflight /\ sent' = sent
          \/ /\ inflight' = inflight \/ inflight' = inflight \cup {new}
             /\ sent' = sent \cup {new}
      BY <2>2 DEF Write
    <3>2. new \notin sent
      BY <2>2 DEF Write, ClaimInv, SentByHolder
    <3> HIDE DEF new
    <3>3. sent \ inflight \subseteq sent' \ inflight'
      BY <3>1, <3>2
    <3> QED BY <3>1, <3>3 DEF Arrived
  <2>3. ASSUME sent' = sent, inflight' \subseteq inflight
        PROVE  inflight' \subseteq sent' /\ Arrived \subseteq Arrived'
    BY <2>3 DEF Arrived
  <2>4. (\E h \in Handlers : Write(h)) \/ (sent' = sent /\ inflight' \subseteq inflight)
    BY <1>2 DEF Next, vars, HandlerStep, Lookup, Check, Claim, Load, Translate,
       Prepare, Recheck, Finish, Admit, Lose, ExpireSends, DismissSend, Prune,
       Stop, Restart, Crash, Tick
  <2>5. ConfirmedRequests' \subseteq ConfirmedRequests
    BY <2>1 DEF ConfirmedRequests
  <2>6. inflight' \subseteq sent' /\ Arrived \subseteq Arrived'
    BY <2>2, <2>3, <2>4
  <2> QED BY <2>5, <2>6, Zenon
<1> QED BY <1>1, <1>2

LEMMA CountedStep ==
  ASSUME ClaimInv, EchoesCounted, [Next]_vars, ClaimInv' PROVE EchoesCounted'
<1>1. /\ inflight \subseteq sent
      /\ Cardinality(ConfirmedRequests) <= Cardinality(Arrived)
  BY DEF EchoesCounted, ConfirmedRequests, Arrived
<1>2. /\ ConfirmedRequests \subseteq Requests /\ Arrived \subseteq Requests
      /\ ConfirmedRequests' \subseteq Requests /\ Arrived' \subseteq Requests
  <2>1. ConfirmedRequests \subseteq Requests /\ ConfirmedRequests' \subseteq Requests
    BY DEF ConfirmedRequests
  <2>2. Arrived \subseteq Requests /\ Arrived' \subseteq Requests
    BY DEF Arrived, ClaimInv, TypeOK, Line
  <2> QED BY <2>1, <2>2
<1>3. /\ inflight' \subseteq sent' /\ Arrived \subseteq Arrived'
      /\ \/ ConfirmedRequests' \subseteq ConfirmedRequests
         \/ \E q \in Arrived' \ Arrived, r \in Requests :
              ConfirmedRequests' = ConfirmedRequests \cup {r}
  BY <1>1, EchoUsedUp, WhatIsConfirmed
<1>4. /\ Cardinality(ConfirmedRequests) \in Nat /\ Cardinality(Arrived) \in Nat
      /\ Cardinality(ConfirmedRequests') \in Nat /\ Cardinality(Arrived') \in Nat
      /\ Cardinality(Arrived) <= Cardinality(Arrived')
  BY <1>2, <1>3, FiniteRequests
<1>5. Cardinality(ConfirmedRequests') <= Cardinality(Arrived')
  <2>1. CASE ConfirmedRequests' \subseteq ConfirmedRequests
    <3>1. Cardinality(ConfirmedRequests') <= Cardinality(ConfirmedRequests)
      BY <1>2, <2>1, FiniteRequests
    <3> QED BY <1>1, <1>4, <3>1
  <2>2. ASSUME NEW q \in Arrived' \ Arrived, NEW r \in Requests,
               ConfirmedRequests' = ConfirmedRequests \cup {r}
        PROVE  Cardinality(ConfirmedRequests') <= Cardinality(Arrived')
    <3>1. Cardinality(ConfirmedRequests') <= Cardinality(ConfirmedRequests) + 1
      BY <1>2, <2>2, FiniteRequests
    <3>2. Cardinality(Arrived \cup {q}) = Cardinality(Arrived) + 1
      BY <1>2, FiniteRequests
    <3>3. Arrived \cup {q} \subseteq Arrived'
      BY <1>3
    <3>4. Cardinality(Arrived \cup {q}) <= Cardinality(Arrived')
      BY <1>2, <3>3, FiniteRequests
    <3> QED BY <1>1, <1>4, <3>1, <3>2, <3>4
  <2> QED BY <1>3, <2>1, <2>2
<1> QED BY <1>3, <1>5 DEF EchoesCounted, ConfirmedRequests, Arrived

LEMMA EchoInvInit == Init => EchoInv
<1> SUFFICES ASSUME Init PROVE EchoInv
  OBVIOUS
<1>1. ClaimInv
  BY ClaimInvInit
<1>2. \A r \in Requests : row[r] = NoRow
  BY DEF Init
<1>3. EchoedOnce /\ PurgedLate
  BY <1>2 DEF EchoedOnce, PurgedLate, NoRow
<1>4. WiresPrepared
  BY <1>2 DEF Init, WiresPrepared, NoRow
<1>5. BodiesKept
  BY DEF Init, BodiesKept, NoCall
<1>6. EchoesMatched
  BY <1>2 DEF Init, EchoesMatched, NoRow
<1>7. EchoesCounted
  <2>1. ConfirmedRequests = {} /\ Arrived = {}
    BY <1>2 DEF Init, ConfirmedRequests, Arrived, NoRow
  <2>2. Cardinality(ConfirmedRequests) <= Cardinality(Arrived)
    BY <2>1, FS_EmptySet
  <2>3. inflight \subseteq sent
    BY DEF Init
  <2> QED BY <2>2, <2>3, Zenon DEF EchoesCounted, ConfirmedRequests, Arrived
<1> QED BY <1>1, <1>3, <1>4, <1>5, <1>6, <1>7 DEF EchoInv

LEMMA EchoInvStep == EchoInv /\ [Next]_vars => EchoInv'
  BY ClaimInvStep, EchoedOnceStep, WiresStep, BodiesStep, PurgedLateStep,
     CountedStep, MatchedStep DEF EchoInv

\* The facts behind the echoes and the answers hold in all states: what a row
\* carries was prepared by the holder of its claim, and every confirmation used
\* up an echo (PrepareSend, PendingEcho and ConsumeEcho of query.sql).
THEOREM EchoInvariant == Spec => []EchoInv
  BY EchoInvInit, EchoInvStep, PTL DEF Spec

\* A message and the request it confirms point at each other, for any number
\* of requests with the same text, and its text was prepared for that request.
THEOREM EchoesAreMatched == Spec => []EchoesMatched
<1>1. EchoInv => EchoesMatched
  BY DEF EchoInv
<1> QED BY EchoInvariant, <1>1, PTL

\* A caller that is answered with a request posted the body of that request,
\* whoever claimed it (server.send).
THEOREM AnswersAreForTheBody == Spec => []AnswersMatchBody
<1>1. EchoInv => AnswersMatchBody
  BY DEF EchoInv, BodiesKept, AnswersMatchBody
<1> QED BY EchoInvariant, <1>1, PTL

-----------------------------------------------------------------------------
(* The echo of a waiting request finds a request.                          *)

LEMMA Least ==
  ASSUME NEW T \in SUBSET Nat, T # {}
  PROVE  \E x \in T : \A y \in T : x <= y
<1> DEFINE R == {ss \in Nat \X Nat : ss[1] < ss[2]}
<1>1. IsWellFoundedOn(R, Nat)
  BY NatLessThanWellFounded DEF OpToRel
<1>2. \A x \in T : \A y \in T : ~(<<y, x>> \in R) => x <= y
  OBVIOUS
<1> HIDE DEF R
<1>3. \E x \in T : \A y \in T : ~(<<y, x>> \in R)
  BY <1>1, WFMin
<1> QED BY <1>2, <1>3

\* There is an oldest request among those that match.
LEMMA SomePending ==
  ASSUME ClaimInv, NEW t, NEW q \in Requests, EchoMatches(q, t)
  PROVE  PendingEcho(t) # {}
<1> DEFINE found == {r \in Requests : EchoMatches(r, t)}
           times == {row[r].created : r \in found}
<1>1. \A r \in Requests : row[r].created \in Nat /\ row[r].rowid \in Nat
  BY DEF ClaimInv, TypeOK, Row
<1>2. times \in SUBSET Nat /\ times # {}
  BY <1>1
<1>3. PICK first \in times : \A y \in times : first <= y
  BY <1>2, Least
<1> DEFINE early == {r \in found : row[r].created = first}
           ids == {row[r].rowid : r \in early}
<1>4. ids \in SUBSET Nat /\ ids # {}
  BY <1>1
<1>5. PICK id \in ids : \A y \in ids : id <= y
  BY <1>4, Least
<1>6. PICK r \in early : row[r].rowid = id
  OBVIOUS
<1>7. ASSUME NEW p \in found PROVE Older(r, p)
  <2>1. first <= row[p].created
    BY <1>3
  <2>2. row[p].created = first => id <= row[p].rowid
    BY <1>5
  <2>3. row[p].created \in Nat /\ first \in Nat /\ row[r].created = first
    BY <1>1, <1>2, <1>6
  <2> QED BY <1>6, <2>1, <2>2, <2>3 DEF Older
<1>8. r \in found
  OBVIOUS
<1> QED BY <1>7, <1>8 DEF PendingEcho

\* Within the echo window a line on its way matches the request it was written
\* for, unless another echo confirmed that.
LEMMA OwnRequestMatches ==
  ASSUME EchoInv, NEW line \in inflight, row[line.req].state # "confirmed",
         now <= row[line.req].created + EchoWindow
  PROVE  line.req \in Requests /\ EchoMatches(line.req, line.text)
<1> DEFINE r == line.req
<1>1. line \in sent /\ r \in Requests
  BY DEF EchoInv, EchoesCounted, ClaimInv, TypeOK, Line
<1>2. /\ row[r] \in Row /\ row[r].created \in Nat /\ now \in Nat
      /\ EchoWindow \in Nat /\ Retention \in Nat /\ EchoWindow < Retention
  BY <1>1, RowTypes, SendAssumption DEF EchoInv, ClaimInv, TypeOK, SendAssumption
<1>3. ~row[r].purged
  <2>1. row[r].purged => row[r].created + Retention < now
    BY <1>1 DEF EchoInv, PurgedLate
  <2> QED BY <1>2, <2>1
<1>4. row[r].wire = line.text
  BY <1>1, <1>3 DEF EchoInv, WiresPrepared
<1>5. ~row[r].echoed /\ row[r].state \in {"sending", "awaiting_echo", "unconfirmed"}
  <2>1. ~row[r].echoed
    BY <1>1 DEF EchoInv, EchoedOnce
  <2>2. row[r].state \notin {"none", "translating", "failed"}
    BY <1>1 DEF EchoInv, ClaimInv, SentByHolder
  <2>3. row[r].state \in States
    BY <1>2 DEF Row
  <2> QED BY <2>1, <2>2, <2>3 DEF States
<1>6. row[r].created + EchoWindow >= now
  BY <1>2
<1> QED BY <1>1, <1>3, <1>4, <1>5, <1>6 DEF EchoMatches, Carries, AwaitsEcho

\* The echo of an unconfirmed request that arrives in time is attributed to a
\* request, after an echo timeout, an unknown result, a deletion or a crash
\* (PendingEcho of query.sql and server.receive).
THEOREM EchoesAreAttributed == Spec => EchoAttributed
<1> DEFINE Attributed == \A line \in inflight \ inflight' :
             /\ messages' # messages
             /\ row[line.req].state # "confirmed"
             /\ now <= row[line.req].created + EchoWindow
             => messages'[Len(messages')].sender \in Requests
<1>1. EchoInv /\ [Next]_vars => [Attributed]_vars
  <2> SUFFICES ASSUME EchoInv, [Next]_vars, NEW line \in inflight \ inflight',
                      messages' # messages, row[line.req].state # "confirmed",
                      now <= row[line.req].created + EchoWindow
               PROVE  messages'[Len(messages')].sender \in Requests
    OBVIOUS
  <2>1. ClaimInv /\ messages \in Seq([text : Texts, sender : Requests \cup {NoReq}])
    BY DEF EchoInv, ClaimInv, TypeOK
  <2>2. PICK m \in inflight : Receive(m)
    BY <2>1, MessagesStep
  <2>3. m = line
    BY <2>2 DEF Receive
  <2>4. PendingEcho(line.text) # {}
    BY <2>1, OwnRequestMatches, SomePending
  <2>5. PICK r \in PendingEcho(line.text) :
          messages' = Append(messages, [text |-> line.text, sender |-> r])
    BY <2>2, <2>3, <2>4 DEF Receive
  <2>6. r \in Requests
    BY WhatIsConfirmed
  <2>7. messages'[Len(messages')] = [text |-> line.text, sender |-> r]
    BY <2>1, <2>5
  <2> QED BY <2>6, <2>7
<1>2. QED
  BY EchoInvariant, <1>1, PTL DEF Spec, EchoAttributed

-----------------------------------------------------------------------------
(* The pipeline implements its contract.                                   *)

Written == {line.req : line \in sent}

LEMMA StatusOfRow ==
  ASSUME ClaimInv, NEW r \in Requests
  PROVE  /\ row[r].state = "none" => Status(r) = "unknown"
         /\ row[r].state \in Settled => Status(r) = row[r].state
         /\ row[r].state \in {"translating", "sending", "awaiting_echo"} =>
              Status(r) = "working"
         /\ row'[r].state = row[r].state => Status(r)' = Status(r)
         /\ row'[r].state \in Settled => Status(r)' = row'[r].state
         /\ row'[r].state \in {"translating", "sending", "awaiting_echo"} =>
              Status(r)' = "working"
  BY DEF Status, Settled

\* The user is told nothing new about r, or that r is settled; it is reported
\* failed only when nothing of it was written.
ToldSettled(r) ==
  \/ Status(r)' = Status(r)
  \/ Status(r) = "working" /\ Status(r)' = "unconfirmed"
  \/ Status(r) = "working" /\ Status(r)' = "failed" /\ r \notin Written

\* Any number of requests settled in one step is one step of the contract.
LEMMA SettleOrStutter ==
  ASSUME sent' = sent, \A r \in Requests : ToldSettled(r)
  PROVE  [Contract!Next]_(Contract!vars)
<1> DEFINE F == {r \in Requests : Status(r) = "working" /\ Status(r)' = "failed"}
           U == {r \in Requests : Status(r) = "working" /\ Status(r)' = "unconfirmed"}
<1>1. F \in SUBSET Contract!Having("working") /\ U \in SUBSET Contract!Having("working")
  BY DEF Contract!Having
<1>2. F \cap U = {} /\ F \cap Written = {}
  BY DEF ToldSettled
<1>3. [r \in Requests |-> Status(r)'] =
        [r \in Requests |-> IF r \in F THEN "failed" ELSE IF r \in U THEN "unconfirmed"
                            ELSE [q \in Requests |-> Status(q)][r]]
  BY DEF ToldSettled
<1>4. Written' = Written
  BY DEF Written
<1>5. CASE F \cup U # {}
  <2>1. Contract!Settle(F, U)
    BY <1>2, <1>3, <1>4, <1>5, Zenon DEF Contract!Settle, Written
  <2> HIDE DEF F, U
  <2> QED BY <1>1, <2>1 DEF Contract!Next
<1>6. CASE F \cup U = {}
  <2>1. \A r \in Requests : Status(r)' = Status(r)
    BY <1>6 DEF ToldSettled
  <2>2. [r \in Requests |-> Status(r)'] = [r \in Requests |-> Status(r)]
    BY <2>1
  <2> QED BY <1>4, <2>2, Zenon DEF Contract!vars, Written
<1> QED BY <1>5, <1>6

LEMMA ContractInit == Init => Contract!Init
<1> SUFFICES ASSUME Init PROVE Contract!Init
  OBVIOUS
<1>1. \A r \in Requests : Status(r) = "unknown"
  <2>1. \A r \in Requests : row[r].state = "none"
    BY DEF Init, NoRow
  <2> QED BY <2>1, ClaimInvInit, StatusOfRow
<1>2. {line.req : line \in sent} = {}
  BY DEF Init
<1> QED BY <1>1, <1>2 DEF Contract!Init

\* A row that keeps its state tells nothing new.
LEMMA SameStateTold ==
  ASSUME ClaimInv, NEW r \in Requests, row'[r].state = row[r].state
  PROVE  ToldSettled(r)
  BY StatusOfRow DEF ToldSettled

\* ClaimSend accepts a request.
LEMMA ClaimRefines ==
  ASSUME ClaimInv, NEW h \in Handlers, Claim(h)
  PROVE  [Contract!Next]_(Contract!vars)
<1>1. HandlerStep(h) /\ pc[h] = "claim" /\ sent' = sent
  BY DEF HandlerStep, Claim
<1>2. PICK r \in Requests : r = call[h].req
  BY <1>1 DEF ClaimInv, LocalsSet
<1>3. \A q \in Requests \ {r} : row'[q] = row[q]
  BY <1>1, <1>2, HandlerRows DEF ClaimInv
<1>4. \/ row'[r] = row[r]
      \/ ~Exists(r) /\ row'[r].state \in Finishable
  BY <1>1, <1>2, HandlerRows DEF ClaimInv
<1>5. CASE row'[r] = row[r]
  <2>1. \A q \in Requests : ToldSettled(q)
    BY <1>3, <1>5, SameStateTold
  <2> QED BY <1>1, <2>1, SettleOrStutter
<1>6. CASE ~Exists(r) /\ row'[r].state \in Finishable
  <2>1. Status(r) = "unknown" /\ Status(r)' = "working"
    BY <1>2, <1>6, StatusOfRow DEF Exists, Finishable
  <2>2. \A q \in Requests \ {r} : Status(q)' = Status(q)
    BY <1>3, StatusOfRow
  <2>3. [q \in Requests |-> Status(q)'] =
          [[q \in Requests |-> Status(q)] EXCEPT ![r] = "working"]
    BY <1>2, <2>1, <2>2
  <2>4. Contract!Accept(r)
    BY <1>1, <1>2, <2>1, <2>3 DEF Contract!Accept
  <2> QED BY <1>2, <2>4 DEF Contract!Next
<1> QED BY <1>4, <1>5, <1>6

\* A write that may have reached IRC transmits a request that is not settled.
LEMMA WriteRefines ==
  ASSUME ClaimInv, NEW h \in Handlers, Write(h)
  PROVE  [Contract!Next]_(Contract!vars)
<1> DEFINE line == [by |-> h, req |-> call[h].req, text |-> call[h].text]
<1>1. pc[h] = "write" /\ row' = row /\ (sent' = sent \/ sent' = sent \cup {line})
  BY DEF Write
<1>2. PICK r \in Requests : r = call[h].req /\ call[h].claimed
  BY <1>1 DEF ClaimInv, LocalsSet, OneClaim
<1>3. \A q \in Requests : Status(q)' = Status(q)
  BY <1>1, StatusOfRow
<1>4. CASE sent' = sent
  <2>1. \A q \in Requests : ToldSettled(q)
    BY <1>3 DEF ToldSettled
  <2> QED BY <1>4, <2>1, SettleOrStutter
<1>5. CASE sent' = sent \cup {line}
  <2>1. Status(r) \in {"working", "confirmed"}
    <3>1. row[r].state \in {"translating", "sending", "confirmed"}
      BY <1>1, <1>2 DEF ClaimInv, HolderKeepsRow, Running
    <3> QED BY <1>2, <3>1, StatusOfRow DEF Settled
  <2>2. r \notin Written
    <3> SUFFICES ASSUME NEW m \in sent, m.req = r PROVE FALSE
      BY DEF Written
    <3>1. /\ m.by \in Handlers /\ call[m.by].claimed /\ call[m.by].req = r
          /\ pc[m.by] \in {"finish", "done", "dead"}
      BY DEF ClaimInv, SentByHolder, TypeOK, Line
    <3> QED BY <1>1, <1>2, <3>1, OneHolder
  <2>3. {m.req : m \in sent'} = {m.req : m \in sent} \cup {r}
    <3>1. line.req = r
      BY <1>2
    <3> HIDE DEF line
    <3> QED BY <1>5, <3>1
  <2>4. [q \in Requests |-> Status(q)'] = [q \in Requests |-> Status(q)]
    BY <1>3
  <2> HIDE DEF line
  <2>5. Contract!Transmit(r)
    BY <1>2, <2>1, <2>2, <2>3, <2>4 DEF Contract!Transmit, Written
  <2> QED BY <1>2, <2>5 DEF Contract!Next
<1> QED BY <1>1, <1>4, <1>5

\* Every other step of a handler settles its request or tells nothing.
LEMMA HandlerRefines ==
  ASSUME ClaimInv, NEW h \in Handlers, HandlerStep(h)
  PROVE  [Contract!Next]_(Contract!vars)
<1>2. PICK r \in Requests : r = call[h].req
  BY HandlerFrame DEF ClaimInv, LocalsSet, Running
<1>1. /\ \A q \in Requests \ {r} : row'[q] = row[q]
      /\ pc[h] \notin {"claim", "prepare", "finish"} => row' = row
      /\ pc[h] = "prepare" => row'[r] = row[r] \/ row'[r].state = "sending"
      /\ pc[h] = "finish" => \/ row'[r] = row[r]
                             \/ /\ row[r].state \in Finishable
                                /\ row'[r].state = call[h].result
  BY <1>2, HandlerRows DEF ClaimInv
<1>3. CASE Claim(h) \/ Write(h)
  BY <1>3, ClaimRefines, WriteRefines
<1>4. ASSUME ~Claim(h), ~Write(h)
      PROVE  [Contract!Next]_(Contract!vars)
  <2>1. sent' = sent /\ pc[h] # "claim"
    BY <1>4 DEF HandlerStep, Lookup, Check, Load, Translate, Prepare, Recheck, Finish
  <2>2. ASSUME pc[h] = "prepare" PROVE ToldSettled(r)
    <3>1. row[r].state \in {"translating", "sending"}
      BY <1>2, <2>2 DEF ClaimInv, OneClaim, HolderKeepsRow, Running, Finishable
    <3>2. row'[r] = row[r] \/ row'[r].state = "sending"
      BY <1>1, <2>2
    <3> QED BY <1>2, <3>1, <3>2, StatusOfRow DEF ToldSettled
  <2>3. ASSUME pc[h] = "finish" PROVE ToldSettled(r)
    <3>1. call[h].claimed /\ call[h].result \in {"failed", "unconfirmed", "awaiting_echo"}
      BY <2>3 DEF ClaimInv, OneClaim, LocalsSet, TypeOK, Call, Results
    <3>2. call[h].result = "failed" => r \notin Written
      <4> SUFFICES ASSUME call[h].result = "failed", NEW m \in sent, m.req = r
                   PROVE  FALSE
        BY DEF Written
      <4>1. /\ m.by \in Handlers /\ call[m.by].claimed /\ call[m.by].req = r
            /\ pc[m.by] = "finish" => call[m.by].result \in {"awaiting_echo", "unconfirmed"}
        BY DEF ClaimInv, SentByHolder, TypeOK, Line
      <4> QED BY <1>2, <2>3, <3>1, <4>1, OneHolder
    <3>3. CASE row'[r] = row[r]
      BY <1>2, <3>3, SameStateTold
    <3>4. CASE row[r].state \in Finishable /\ row'[r].state = call[h].result
      BY <1>2, <3>1, <3>2, <3>4, StatusOfRow DEF ToldSettled, Finishable, Settled
    <3> QED BY <1>1, <2>3, <3>3, <3>4
  <2>4. ASSUME pc[h] \notin {"claim", "prepare", "finish"} PROVE ToldSettled(r)
    BY <1>1, <1>2, <2>4, SameStateTold
  <2>5. \A q \in Requests \ {r} : ToldSettled(q)
    BY <1>1, SameStateTold
  <2>6. \A q \in Requests : ToldSettled(q)
    BY <2>1, <2>2, <2>3, <2>4, <2>5
  <2> QED BY <2>1, <2>6, SettleOrStutter
<1> QED BY <1>3, <1>4

\* An echo confirms one request, and there was one more written than confirmed.
LEMMA ReceiveRefines ==
  ASSUME EchoInv, NEW line \in inflight, Receive(line)
  PROVE  [Contract!Next]_(Contract!vars)
<1> DEFINE id == Len(messages) + 1
<1>1. ClaimInv /\ sent' = sent /\ line \in sent
  BY DEF EchoInv, EchoesCounted, Receive
<1>2. CASE row' = row
  <2>1. \A q \in Requests : ToldSettled(q)
    BY <1>1, <1>2, SameStateTold
  <2> QED BY <1>1, <2>1, SettleOrStutter
<1>3. ASSUME NEW r \in PendingEcho(line.text),
             row' = [row EXCEPT ![r] = Confirmed(row[r], id)]
      PROVE  [Contract!Next]_(Contract!vars)
  <2>1. /\ r \in Requests /\ row \in [Requests -> Row]
        /\ row[r].state \in {"sending", "awaiting_echo", "unconfirmed"}
    BY <1>1, WhatIsConfirmed DEF ClaimInv, TypeOK
  <2>2. row'[r].state = "confirmed" /\ \A q \in Requests \ {r} : row'[q] = row[q]
    BY <1>3, <2>1, OtherStatements DEF Confirms
  <2>3. Status(r) \in {"working", "unconfirmed"} /\ Status(r)' = "confirmed"
    BY <1>1, <2>1, <2>2, StatusOfRow DEF Settled
  <2>4. \A q \in Requests \ {r} : Status(q)' = Status(q)
    BY <1>1, <2>2, StatusOfRow
  <2>5. [q \in Requests |-> Status(q)'] =
          [[q \in Requests |-> Status(q)] EXCEPT ![r] = "confirmed"]
    BY <2>1, <2>3, <2>4
  <2>6. {q \in Requests : Status(q) = "confirmed"} = ConfirmedRequests
    <3>1. \A q \in Requests : row[q].state \in States
      BY <2>1 DEF Row
    <3> QED BY <3>1, Zenon DEF ConfirmedRequests, Status, Settled, States
  <2>7. Cardinality(ConfirmedRequests) < Cardinality(Written)
    <3>1. Arrived \subseteq Requests /\ Written \subseteq Requests
      BY <1>1 DEF Arrived, Written, ClaimInv, TypeOK, Line
    <3>2. line.req \in Written \ Arrived /\ Arrived \subseteq Written
      BY <1>1, OneWrite DEF Arrived, Written, SentOnce
    <3>3. Cardinality(Arrived \cup {line.req}) = Cardinality(Arrived) + 1
      BY <3>1, <3>2, FiniteRequests
    <3>4. Cardinality(Arrived \cup {line.req}) <= Cardinality(Written)
      BY <3>1, <3>2, FiniteRequests
    <3>5. Cardinality(ConfirmedRequests) <= Cardinality(Arrived)
      BY DEF EchoInv, EchoesCounted, ConfirmedRequests, Arrived
    <3>6. /\ Cardinality(Arrived) \in Nat /\ Cardinality(Written) \in Nat
          /\ Cardinality(ConfirmedRequests) \in Nat
      BY <3>1, FiniteRequests DEF ConfirmedRequests
    <3> QED BY <3>3, <3>4, <3>5, <3>6
  <2>8. Contract!Having("confirmed") = ConfirmedRequests
    BY <2>6 DEF Contract!Having
  <2>9. Contract!Confirm(r)
    <3>1. {m.req : m \in sent'} = {m.req : m \in sent}
      BY <1>1
    <3>2. [q \in Requests |-> Status(q)][r] \in {"working", "unconfirmed"}
      BY <2>1, <2>3
    <3>3. Cardinality(Contract!Having("confirmed")) < Cardinality({m.req : m \in sent})
      BY <2>7, <2>8, Zenon DEF Written
    <3>4. \A S : Contract!Cardinality(S) = Cardinality(S)
      BY DEF Contract!Cardinality, Cardinality
    <3> QED BY <2>5, <3>1, <3>2, <3>3, <3>4 DEF Contract!Confirm
  <2> QED BY <2>1, <2>9 DEF Contract!Next
<1>4. \/ row' = row
      \/ \E r \in PendingEcho(line.text) :
           row' = [row EXCEPT ![r] = Confirmed(row[r], id)]
  BY DEF Receive
<1> QED BY <1>2, <1>3, <1>4

\* Recovery after a crash or a shutdown fails what was never prepared.
LEMMA RecoveryRefines ==
  ASSUME ClaimInv, sent' = sent, row' = [r \in Requests |-> Recovered(row[r])]
  PROVE  [Contract!Next]_(Contract!vars)
<1>1. ASSUME NEW r \in Requests PROVE ToldSettled(r)
  <2>1. row[r] \in Row /\ row'[r] = Recovered(row[r])
    BY DEF ClaimInv, TypeOK
  <2>2. \/ row'[r] = row[r]
        \/ /\ row[r].state = "translating" /\ row'[r].state = "failed"
        \/ /\ row[r].state \in {"sending", "awaiting_echo"}
           /\ row'[r].state = "unconfirmed"
    BY <2>1 DEF Recovered, Row
  <2>3. row[r].state = "translating" => r \notin Written
    BY DEF ClaimInv, SentByHolder, Written
  <2> QED BY <2>2, <2>3, StatusOfRow, SameStateTold DEF ToldSettled, Settled
<1> QED BY <1>1, SettleOrStutter

LEMMA EnvironmentRefines ==
  ASSUME EchoInv, Next, ~ \E h \in Handlers : HandlerStep(h)
  PROVE  [Contract!Next]_(Contract!vars)
<1>1. ClaimInv
  BY DEF EchoInv
<1>2. CASE Restart \/ Crash
  BY <1>1, <1>2, RecoveryRefines DEF Restart, Crash
<1>3. CASE \E line \in inflight : Receive(line)
  BY <1>3, ReceiveRefines
<1>4. ASSUME ~Restart, ~Crash, ~ \E line \in inflight : Receive(line)
      PROVE  [Contract!Next]_(Contract!vars)
  <2>1. sent' = sent
    BY <1>4 DEF Next, Admit, Lose, ExpireSends, DismissSend, Prune, Stop, Tick
  <2>2. ASSUME NEW r \in Requests PROVE ToldSettled(r)
    <3>1. Moves(row[r], row'[r])
      BY <1>1, <1>4, EnvironmentRows DEF ClaimInv
    <3>2. row'[r].state = "confirmed" => row[r].state = "confirmed"
      <4>1. RowStep(r)
        BY <1>1, EveryRowSteps
      <4> QED BY <1>4, <4>1 DEF RowStep, RowKept, RowInserted, Inserts,
                 RowPrepared, Prepares, RowConfirmed, RowErased, Erases, Finishable
    <3>3. \/ row'[r].state = row[r].state
          \/ row[r].state = "awaiting_echo" /\ row'[r].state = "unconfirmed"
      BY <3>1, <3>2 DEF Moves
    <3> QED BY <1>1, <3>3, StatusOfRow, SameStateTold DEF ToldSettled, Settled
  <2> QED BY <2>1, <2>2, SettleOrStutter
<1> QED BY <1>2, <1>3, <1>4

LEMMA ContractStep == EchoInv /\ [Next]_vars => [Contract!Next]_(Contract!vars)
<1> SUFFICES ASSUME EchoInv, [Next]_vars PROVE [Contract!Next]_(Contract!vars)
  OBVIOUS
<1>1. ClaimInv
  BY DEF EchoInv
<1>2. CASE UNCHANGED vars
  <2>1. sent' = sent /\ row' = row
    BY <1>2 DEF vars
  <2>2. \A r \in Requests : ToldSettled(r)
    BY <1>1, <2>1, SameStateTold
  <2> QED BY <2>1, <2>2, SettleOrStutter
<1>3. CASE Next
  BY <1>1, <1>3, HandlerRefines, EnvironmentRefines
<1> QED BY <1>2, <1>3

\* The pipeline of handlers, statements, echoes, expiry and recovery implements
\* the contract its users rely on: a text goes out at most once and never after
\* its request was reported failed or unconfirmed, "failed" says that nothing
\* was sent, and there are no more confirmations than writes (server.send,
\* server.receive, server.expireSends, RecoverSends).
THEOREM ImplementsContract == Spec => ContractSpec
  BY EchoInvariant, ContractInit, ContractStep, PTL
     DEF Spec, ContractSpec, Contract!Spec

=============================================================================
