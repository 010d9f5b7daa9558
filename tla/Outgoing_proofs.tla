------------------------- MODULE Outgoing_proofs -------------------------
(***************************************************************************)
(* PageInv is inductive, for any set of requests and any number of clicks, *)
(* frames and troubles, and implies PageTruthful, CopiesWarned,            *)
(* DeletedStaysHidden and PageConverges.                                   *)
(*                                                                         *)
(* Every step is first summed up by what it does to each request           *)
(* (StepMoves), to what is under way (StepFrames, StepAnswers, StepAsked), *)
(* to what the page shows (StepShown) and to what the user does (StepActs);*)
(* the conjuncts of the invariant follow from these.                       *)
(***************************************************************************)
EXTENDS Outgoing, FiniteSetTheorems, TLAPS

-----------------------------------------------------------------------------
(* Entries.                                                                *)

LEMMA EntryFields ==
  ASSUME NEW e \in Entry
  PROVE /\ e.state \in {"working", "failed", "unconfirmed", "confirmed"}
        /\ e.dismissed \in BOOLEAN /\ e.clientOnly \in BOOLEAN
        /\ e # NoEntry
  BY DEF Entry, Settled, NoEntry

LEMMA NoEntryFields ==
  /\ NoEntry.state = "none" /\ NoEntry.dismissed = FALSE
  /\ NoEntry.clientOnly = FALSE
  BY DEF NoEntry

LEMMA RankOf ==
  /\ Rank("working") = 0 /\ Rank("failed") = 3 /\ Rank("unconfirmed") = 3
  /\ Rank("confirmed") = 4
  BY DEF Rank

\* What an entry of the page becomes when e arrives for it.
LEMMA MergeFacts ==
  ASSUME NEW p \in Entry \cup {NoEntry}, NEW e \in Entry, NEW m,
         m = mergeOutgoing(p, e)
  PROVE /\ m \in Entry
        /\ \/ p # NoEntry /\ m.state = p.state /\ m.clientOnly = p.clientOnly
           \/ m.state = e.state /\ m.clientOnly = e.clientOnly
        /\ p.dismissed => m.dismissed
        /\ p.state = "confirmed" \/ e.state = "confirmed" => m.state = "confirmed"
        /\ e.dismissed /\ e.state # "working" => m.dismissed \/ m.state = "confirmed"
        /\ p = NoEntry => m = e
        /\ p.state # "confirmed" /\ e.state # "working" => m.state = e.state
        /\ p.state \in Settled /\ e.state = "working" => m.state = p.state
<1>1. CASE p = NoEntry
  BY <1>1, NoEntryFields, EntryFields DEF mergeOutgoing, Settled
<1>2. CASE p # NoEntry
  <2>1. p \in Entry
    BY <1>2
  <2>2. CASE Rank(e.state) < Rank(p.state)
    <3>1. m = p
      BY <1>2, <2>2 DEF mergeOutgoing
    <3>. QED BY <1>2, <2>1, <2>2, <3>1, RankOf, EntryFields DEF Settled
  <2>3. CASE ~(Rank(e.state) < Rank(p.state))
    <3>1. m = [e EXCEPT !.dismissed = @ \/ p.dismissed]
      BY <1>2, <2>3 DEF mergeOutgoing
    <3>2. m \in Entry /\ m.state = e.state /\ m.clientOnly = e.clientOnly
          /\ m.dismissed = (e.dismissed \/ p.dismissed)
      BY <3>1, <2>1 DEF Entry
    <3>. QED BY <1>2, <2>1, <2>3, <3>2, RankOf, EntryFields DEF Settled
  <2>. QED BY <2>2, <2>3
<1>. QED BY <1>1, <1>2

-----------------------------------------------------------------------------
(* What is under way.                                                      *)

Typed == TypeOK /\ NetOK /\ PageOK

Calls == [kind : {"status", "check", "delete"}, req : Requests]
            \cup [kind : {"list"}, req : Nat]
Answers == [kind : {"post", "status", "check", "delete"}, req : Requests, body : Bodies]
            \cup [kind : {"list"}, req : Nat, body : Bodies]
Frames == [req : Requests \cup {"identity"}, entry : Entry \cup {NoEntry}]

LEMMA Unwrap ==
  ASSUME Typed
  PROVE /\ status \in [Requests -> {"unknown", "working"} \cup Settled]
        /\ transmitted \subseteq Requests /\ dismissed \subseteq Requests
        /\ post \in [Requests -> {"idle", "travelling", "handling", "over"}]
        /\ asked \subseteq Calls /\ answers \subseteq Answers
        /\ socket \in {"down", "open", "live"} /\ frames \in Seq(Frames)
        /\ shown \in [Requests -> Entry \cup {NoEntry}]
        /\ call \in [Requests -> {"idle", "posting", "recovering", "over"}]
        /\ act \in [Requests -> [kind : {"none", "checking", "deleting", "resending"},
                                 entry : Entry \cup {NoEntry}]]
        /\ listed \in BOOLEAN /\ ends \in Nat
        /\ warned \subseteq Requests /\ hid \subseteq Requests
  BY DEF Typed, TypeOK, NetOK, PageOK, Calls, Answers, Frames, Settled,
         Contract!ContractTypeOK, Contract!Statuses

LEMMA Wrap ==
  ASSUME (status \in [Requests -> {"unknown", "working"} \cup Settled])',
         (transmitted \subseteq Requests)', (dismissed \subseteq Requests)',
         (post \in [Requests -> {"idle", "travelling", "handling", "over"}])',
         (asked \subseteq Calls)', (answers \subseteq Answers)',
         (socket \in {"down", "open", "live"})', (frames \in Seq(Frames))',
         (shown \in [Requests -> Entry \cup {NoEntry}])',
         (call \in [Requests -> {"idle", "posting", "recovering", "over"}])',
         (act \in [Requests -> [kind : {"none", "checking", "deleting", "resending"},
                                entry : Entry \cup {NoEntry}]])',
         (listed \in BOOLEAN)', (ends \in Nat)',
         (warned \subseteq Requests)', (hid \subseteq Requests)'
  PROVE Typed'
  BY DEF Typed, TypeOK, NetOK, PageOK, Calls, Answers, Frames, Settled,
         Contract!ContractTypeOK, Contract!Statuses

\* The rows of an answer, by what they are of.
LEMMA BodyRows ==
  ASSUME NEW b \in Bodies
  PROVE /\ b.what \in {"rows", "missing", "conflict", "refused", "error"}
        /\ b.rows \in [DOMAIN b.rows -> Entry] /\ DOMAIN b.rows \subseteq Requests
<1>1. b.rows \in RowSets
  BY DEF Bodies
<1>2. PICK S \in SUBSET Requests : b.rows \in [S -> Entry]
  BY <1>1 DEF RowSets
<1>. QED BY <1>2 DEF Bodies

LEMMA RowsAreRows ==
  ASSUME Typed, NEW S \in SUBSET Requests, \A r \in S : status[r] # "unknown"
  PROVE /\ Rows(S) \in Bodies /\ Rows(S).what = "rows" /\ DOMAIN Rows(S).rows = S
        /\ \A r \in S : RowEntry(r) \in Entry /\ Rows(S).rows[r] = RowEntry(r)
<1>1. \A r \in S : RowEntry(r) \in Entry
  BY Unwrap DEF RowEntry, Entry
<1>2. [r \in S |-> RowEntry(r)] \in [S -> Entry]
  BY <1>1
<1>3. [r \in S |-> RowEntry(r)] \in RowSets
  BY <1>2 DEF RowSets
<1>. QED BY <1>1, <1>3 DEF Rows, Bodies

LEMMA WordsAreWords ==
  ASSUME NEW w \in {"missing", "conflict", "refused", "error"}
  PROVE Word(w) \in Bodies /\ Word(w).what = w /\ DOMAIN Word(w).rows = {}
<1>1. [r \in {} |-> NoEntry] \in [{} -> Entry]
  OBVIOUS
<1>2. [r \in {} |-> NoEntry] \in RowSets
  BY <1>1 DEF RowSets
<1>. QED BY <1>2 DEF Word, Bodies

\* What the page takes in.
LEMMA Taken ==
  ASSUME Typed, NEW S \in SUBSET Requests, NEW new \in [S -> Entry], Take(new)
  PROVE /\ shown' \in [Requests -> Entry \cup {NoEntry}]
        /\ \A r \in Requests : shown'[r] = IF r \in S THEN mergeOutgoing(shown[r], new[r])
                                                       ELSE shown[r]
<1>1. shown' = [r \in Requests |-> IF r \in S THEN mergeOutgoing(shown[r], new[r])
                                               ELSE shown[r]]
  BY DEF Take, Merged
<1>2. \A r \in Requests : shown[r] \in Entry \cup {NoEntry}
  BY Unwrap
<1>3. \A r \in S : mergeOutgoing(shown[r], new[r]) \in Entry
  BY <1>2, MergeFacts
<1>. QED BY <1>1, <1>2, <1>3

LEMMA OneEntry ==
  ASSUME NEW r \in Requests, NEW e \in Entry
  PROVE One(r, e) \in [{r} -> Entry] /\ One(r, e)[r] = e /\ {r} \in SUBSET Requests
  BY DEF One

LEMMA AskedLists ==
  ASSUME NEW new, NEW q \in Asks(new) \cup Refresh
  PROVE q = List /\ socket = "live"
  BY DEF Asks, Refresh

LEMMA ListCalls == ASSUME Typed PROVE List \in Calls /\ List.kind = "list" /\ List.req = ends
  BY Unwrap DEF List, Calls

-----------------------------------------------------------------------------
(* What a step does.                                                       *)

\* To a request: states only move on, and so does its POST.
Moves(r) ==
  /\ \/ status'[r] = status[r]
     \/ status[r] = "unknown" /\ status'[r] = "working" /\ post[r] = "travelling"
     \/ status[r] = "working" /\ status'[r] \in Settled
     \/ status[r] = "unconfirmed" /\ status'[r] = "confirmed"
  /\ r \in dismissed => r \in dismissed'
  /\ post[r] # "idle" => post'[r] # "idle"
  /\ post[r] = "over" => post'[r] = "over"
  /\ call[r] = "over" => call'[r] = "over"

StepMoves == \A r \in Requests : Moves(r)

\* To the frames: new ones are of the row as it is now.
Identity == [req |-> "identity", entry |-> NoEntry]
FramesKept == \A i \in DOMAIN frames : i \in DOMAIN frames' /\ frames'[i] = frames[i]
FrameTells(r) == \E i \in DOMAIN frames : frames[i].req = r /\ frames[i].entry.state = status[r]
StepFrames ==
  \A i \in DOMAIN frames' :
    \/ \E j \in DOMAIN frames : frames'[i] = frames[j]
    \/ frames'[i] = Identity
    \/ \E r \in Requests : /\ status'[r] # "unknown"
                           /\ frames'[i] = [req |-> r, entry |-> RowEntry(r)']

\* To the answers: the same.
NewAnswer(a) ==
  /\ \A r \in DOMAIN a.body.rows : /\ status'[r] # "unknown"
                                   /\ a.body.rows[r] = RowEntry(r)'
  /\ a.body.what = "refused" =>
       a.kind = "post" /\ status'[a.req] = "unknown" /\ post'[a.req] = "over"
  /\ a.kind = "delete" /\ a.body.what = "rows" =>
       DOMAIN a.body.rows = {a.req} /\ a.req \in dismissed'
StepAnswers == \A a \in answers' : a \in answers \/ NewAnswer(a)

LEMMA FrameFacts ==
  ASSUME Typed
  PROVE /\ DOMAIN frames = 1 .. Len(frames) /\ Len(frames) \in Nat
        /\ \A i \in DOMAIN frames : frames[i] \in Frames
  BY Unwrap

\* publishSend keeps what was under way and adds the row as it is now.
LEMMA Published ==
  ASSUME Typed, NEW r \in Requests, Publish(r), status'[r] # "unknown",
         status' \in [Requests -> {"unknown", "working"} \cup Settled]
  PROVE /\ frames' \in Seq(Frames)
        /\ StepFrames /\ FramesKept
        /\ socket # "down" => FrameTells(r)'
<1>1. CASE socket = "down" /\ UNCHANGED frames
  BY <1>1, Unwrap DEF StepFrames, FramesKept
<1>2. CASE frames' = Append(frames, [req |-> r, entry |-> RowEntry(r)'])
  <2>. DEFINE f == [req |-> r, entry |-> [state |-> status'[r], dismissed |-> r \in dismissed',
                                          clientOnly |-> FALSE]]
  <2>1. f = [req |-> r, entry |-> RowEntry(r)']
    BY DEF RowEntry
  <2>2. f \in Frames
    BY DEF Frames, Entry
  <2>3. frames' = Append(frames, f)
    BY <1>2, <2>1
  <2>4. /\ frames' \in Seq(Frames) /\ DOMAIN frames' = 1 .. Len(frames) + 1
        /\ \A i \in DOMAIN frames : frames'[i] = frames[i]
        /\ frames'[Len(frames) + 1] = f
    BY <2>2, <2>3, Unwrap
  <2>5. FramesKept
    BY <2>4, FrameFacts DEF FramesKept
  <2>6. StepFrames
    <3>. SUFFICES ASSUME NEW i \in DOMAIN frames'
                  PROVE \/ \E j \in DOMAIN frames : frames'[i] = frames[j]
                        \/ frames'[i] = f
      BY <2>1 DEF StepFrames
    <3>. QED BY <2>4, FrameFacts
  <2>7. f.req = r /\ f.entry.state = status'[r] /\ Len(frames) + 1 \in DOMAIN frames'
    BY <2>4, FrameFacts
  <2>8. FrameTells(r)'
    BY <2>4, <2>7 DEF FrameTells
  <2>. QED BY <2>4, <2>5, <2>6, <2>8
<1>. QED BY <1>1, <1>2 DEF Publish

-----------------------------------------------------------------------------
(* The server's steps.                                                     *)

\* Everything a step does but what the page makes of it.
Sums == Typed' /\ ServerSound' /\ StepMoves /\ StepFrames /\ StepAnswers

LEMMA FramesSame == ASSUME UNCHANGED frames PROVE StepFrames /\ FramesKept
  BY DEF StepFrames, FramesKept

\* An answer that is added.
LEMMA Replied ==
  ASSUME Typed, NEW kind, NEW r, NEW body, Reply(kind, r, body),
         [kind |-> kind, req |-> r, body |-> body] \in Answers,
         NewAnswer([kind |-> kind, req |-> r, body |-> body])
  PROVE answers' \subseteq Answers /\ StepAnswers
  BY Unwrap DEF Reply, StepAnswers

LEMMA RepliedWord ==
  ASSUME Typed, NEW kind \in {"post", "status", "check", "delete"}, NEW r \in Requests,
         NEW w \in {"missing", "conflict", "error"}, Reply(kind, r, Word(w))
  PROVE answers' \subseteq Answers /\ StepAnswers
<1>. DEFINE a == [kind |-> kind, req |-> r, body |-> Word(w)]
<1>1. a \in Answers
  BY WordsAreWords DEF Answers
<1>2. NewAnswer(a)
  BY WordsAreWords DEF NewAnswer
<1>. QED BY <1>1, <1>2, Replied

\* Rows that have been there before the step are sent as they are.
LEMMA RepliedRows ==
  ASSUME Typed, NEW kind \in {"post", "status", "check"}, NEW r \in Requests,
         status[r] # "unknown", UNCHANGED <<status, dismissed>>, Reply(kind, r, Rows({r}))
  PROVE answers' \subseteq Answers /\ StepAnswers
<1>. DEFINE a == [kind |-> kind, req |-> r, body |-> Rows({r})]
<1>1. /\ Rows({r}) \in Bodies /\ Rows({r}).what = "rows" /\ DOMAIN Rows({r}).rows = {r}
      /\ Rows({r}).rows[r] = RowEntry(r)
  BY RowsAreRows
<1>2. a \in Answers
  BY <1>1 DEF Answers
<1>3. RowEntry(r)' = RowEntry(r) /\ status'[r] # "unknown"
  BY DEF RowEntry
<1>4. NewAnswer(a)
  BY <1>1, <1>3 DEF NewAnswer
<1>. QED BY <1>2, <1>4, Replied

LEMMA AnswersSame == ASSUME UNCHANGED answers PROVE StepAnswers
  BY DEF StepAnswers

LEMMA PostArrivesSums ==
  ASSUME PageInv, NEW r \in Requests, PostArrives(r)
  PROVE Sums
<1>. Typed /\ ServerSound
  BY DEF PageInv, Typed
<1>0. post[r] = "travelling" /\ status[r] = "unknown" /\ call[r] # "idle"
  BY DEF PostArrives, ServerSound
<1>1. UNCHANGED <<asked, socket, page, history, counts, dismissed, transmitted>>
  BY DEF PostArrives, server, Contract!Accept
<1>2. CASE /\ post' = [post EXCEPT ![r] = "over"]
           /\ PostReply(r, Word("refused"))
           /\ UNCHANGED <<server, frames>>
  <2>1. answers' \subseteq Answers /\ StepAnswers
    <3>1. CASE UNCHANGED answers
      BY <3>1, AnswersSame, Unwrap
    <3>2. CASE Reply("post", r, Word("refused"))
      <4>. DEFINE a == [kind |-> "post", req |-> r, body |-> Word("refused")]
      <4>1. a \in Answers
        BY WordsAreWords DEF Answers
      <4>2. status'[r] = "unknown" /\ post'[r] = "over"
        BY <1>0, <1>2, Unwrap DEF server
      <4>3. NewAnswer(a)
        BY <4>2, WordsAreWords DEF NewAnswer
      <4>. QED BY <3>2, <4>1, <4>3, Replied
    <3>. QED BY <1>2, <3>1, <3>2 DEF PostReply
  <2>2. Typed'
    BY <1>1, <1>2, <2>1, Unwrap, Wrap DEF server, page, history, counts
  <2>3. ServerSound' /\ StepMoves
    BY <1>0, <1>1, <1>2, Unwrap DEF server, page, ServerSound, StepMoves, Moves
  <2>. QED BY <1>2, <2>1, <2>2, <2>3, FramesSame DEF Sums
<1>3. CASE /\ Contract!Accept(r)
           /\ post' = [post EXCEPT ![r] = "handling"]
           /\ Publish(r)
           /\ UNCHANGED answers
  <2>1. status' = [status EXCEPT ![r] = "working"]
    BY <1>3 DEF Contract!Accept
  <2>2. status' \in [Requests -> {"unknown", "working"} \cup Settled] /\ status'[r] # "unknown"
    BY <2>1, Unwrap
  <2>3. frames' \in Seq(Frames) /\ StepFrames
    BY <1>3, <2>2, Published
  <2>4. Typed'
    BY <1>1, <1>3, <2>2, <2>3, Unwrap, Wrap DEF page, history, counts
  <2>5. ServerSound' /\ StepMoves
    BY <1>0, <1>1, <1>3, <2>1, Unwrap DEF page, ServerSound, StepMoves, Moves, Settled
  <2>. QED BY <1>3, <2>3, <2>4, <2>5, AnswersSame DEF Sums
<1>4. CASE /\ Contract!Accept(r)
           /\ post' = [post EXCEPT ![r] = "over"]
           /\ PostReply(r, Word("error"))
           /\ UNCHANGED frames
  <2>1. status' = [status EXCEPT ![r] = "working"]
    BY <1>4 DEF Contract!Accept
  <2>2. answers' \subseteq Answers /\ StepAnswers
    BY <1>4, RepliedWord, AnswersSame, Unwrap DEF PostReply
  <2>3. Typed'
    BY <1>1, <1>4, <2>1, <2>2, Unwrap, Wrap DEF page, history, counts
  <2>4. ServerSound' /\ StepMoves
    BY <1>0, <1>1, <1>4, <2>1, Unwrap DEF page, ServerSound, StepMoves, Moves, Settled
  <2>. QED BY <1>4, <2>2, <2>3, <2>4, FramesSame DEF Sums
<1>5. CASE /\ post' = [post EXCEPT ![r] = "over"]
           /\ PostReply(r, Word("error"))
           /\ UNCHANGED <<server, frames>>
  <2>2. answers' \subseteq Answers /\ StepAnswers
    BY <1>5, RepliedWord, AnswersSame, Unwrap DEF PostReply
  <2>3. Typed'
    BY <1>1, <1>5, <2>2, Unwrap, Wrap DEF server, page, history, counts
  <2>4. ServerSound' /\ StepMoves
    BY <1>0, <1>1, <1>5, Unwrap DEF server, page, ServerSound, StepMoves, Moves
  <2>. QED BY <1>5, <2>2, <2>3, <2>4, FramesSame DEF Sums
<1>. QED BY <1>2, <1>3, <1>4, <1>5 DEF PostArrives

LEMMA TransmitsSums ==
  ASSUME PageInv, NEW r \in Requests, Transmits(r)
  PROVE Sums
<1>. Typed /\ ServerSound
  BY DEF PageInv, Typed
<1>1. /\ status[r] \in {"working", "confirmed"} /\ transmitted' = transmitted \cup {r}
      /\ UNCHANGED <<status, dismissed, post, net, page, history, counts>>
  BY DEF Transmits, Contract!Transmit
<1>2. Typed'
  BY <1>1, Unwrap, Wrap DEF net, page, history, counts
<1>3. ServerSound' /\ StepMoves
  BY <1>1, Unwrap DEF page, ServerSound, StepMoves, Moves
<1>. QED BY <1>1, <1>2, <1>3, FramesSame, AnswersSame DEF Sums, net

\* A request in progress, or unconfirmed, changes its state, and a frame says so.
LEMMA Progresses ==
  ASSUME PageInv, NEW r \in Requests, NEW s \in Settled, status[r] # "unknown",
         status[r] = "working" \/ (status[r] = "unconfirmed" /\ s = "confirmed"),
         s = "failed" => r \notin transmitted,
         status' = [status EXCEPT ![r] = s], Publish(r),
         UNCHANGED <<transmitted, dismissed, post, asked, answers, socket, page, history, counts>>
  PROVE Sums /\ FramesKept /\ (socket # "down" => FrameTells(r)')
<1>. Typed /\ ServerSound
  BY DEF PageInv, Typed
<1>1. status' \in [Requests -> {"unknown", "working"} \cup Settled] /\ status'[r] = s /\ s # "unknown"
  BY Unwrap DEF Settled
<1>2. frames' \in Seq(Frames) /\ StepFrames /\ FramesKept /\ (socket # "down" => FrameTells(r)')
  BY <1>1, Published
<1>3. Typed'
  BY <1>1, <1>2, Unwrap, Wrap DEF page, history, counts
<1>4. ServerSound' /\ StepMoves
  <2>. SUFFICES ASSUME NEW q \in Requests
                PROVE /\ status'[q] \in {"unknown", "failed"} => q \notin transmitted
                      /\ q \in dismissed => status'[q] \in Settled
                      /\ post[q] \in {"idle", "travelling"} => status'[q] = "unknown"
                      /\ post[q] = "handling" => status'[q] # "unknown"
                      /\ call[q] = "idle" <=> post[q] = "idle"
                      /\ \/ status'[q] = status[q]
                         \/ status[q] = "working" /\ status'[q] \in Settled
                         \/ status[q] = "unconfirmed" /\ status'[q] = "confirmed"
    BY DEF page, ServerSound, StepMoves, Moves
  <2>1. CASE q = r
    BY <1>1, <2>1 DEF ServerSound, Settled
  <2>2. CASE q # r
    <3>1. status'[q] = status[q]
      BY <2>2, Unwrap
    <3>. QED BY <3>1 DEF ServerSound
  <2>. QED BY <2>1, <2>2
<1>. QED BY <1>2, <1>3, <1>4, AnswersSame DEF Sums

LEMMA SettlesSums ==
  ASSUME PageInv, NEW r \in Requests, Settles(r)
  PROVE Sums /\ FramesKept /\ (socket # "down" => FrameTells(r)')
        /\ (\A q \in Requests : q # r => status'[q] = status[q])
<1>. Typed
  BY DEF PageInv, Typed
<1>1. /\ status[r] = "working" /\ Publish(r)
      /\ UNCHANGED <<transmitted, dismissed, post, asked, answers, socket, page, history, counts>>
  BY DEF Settles, Contract!Settle
<1>2. PICK s \in {"failed", "unconfirmed"} :
        (s = "failed" => r \notin transmitted) /\ status' = [status EXCEPT ![r] = s]
  <2>1. CASE Contract!Settle({r}, {})
    <3>1. r \notin transmitted
      BY <2>1 DEF Contract!Settle
    <3>2. status' = [q \in Requests |-> IF q \in {r} THEN "failed" ELSE status[q]]
      BY <2>1 DEF Contract!Settle
    <3>3. status' = [status EXCEPT ![r] = "failed"]
      BY <3>2, Unwrap
    <3>. QED BY <3>1, <3>3
  <2>2. CASE Contract!Settle({}, {r})
    <3>1. status' = [q \in Requests |-> IF q \in {r} THEN "unconfirmed" ELSE status[q]]
      BY <2>2 DEF Contract!Settle
    <3>2. status' = [status EXCEPT ![r] = "unconfirmed"]
      BY <3>1, Unwrap
    <3>. QED BY <3>2
  <2>. QED BY <2>1, <2>2 DEF Settles
<1>3. s \in Settled /\ status[r] # "unknown"
      /\ (status[r] = "working" \/ (status[r] = "unconfirmed" /\ s = "confirmed"))
  BY <1>1 DEF Settled
<1>4. Sums /\ FramesKept /\ (socket # "down" => FrameTells(r)')
  BY <1>1, <1>2, <1>3, Progresses
<1>. QED BY <1>2, <1>4, Unwrap

LEMMA ConfirmsSums ==
  ASSUME PageInv, NEW r \in Requests, Confirms(r)
  PROVE Sums /\ FramesKept /\ (socket # "down" => FrameTells(r)')
        /\ (\A q \in Requests : q # r => status'[q] = status[q])
<1>. Typed
  BY DEF PageInv, Typed
<1>1. /\ status[r] \in {"working", "unconfirmed"} /\ Publish(r)
      /\ status' = [status EXCEPT ![r] = "confirmed"]
      /\ UNCHANGED <<transmitted, dismissed, post, asked, answers, socket, page, history, counts>>
  BY DEF Confirms, Contract!Confirm
<1>2. Sums /\ FramesKept /\ (socket # "down" => FrameTells(r)')
  BY <1>1, Progresses DEF Settled
<1>. QED BY <1>1, <1>2, Unwrap

LEMMA PostAnswersSums ==
  ASSUME PageInv, NEW r \in Requests, PostAnswers(r)
  PROVE Sums
<1>. Typed /\ ServerSound
  BY DEF PageInv, Typed
<1>1. /\ post[r] = "handling" /\ status[r] # "unknown"
      /\ post' = [post EXCEPT ![r] = "over"] /\ PostReply(r, Rows({r}))
      /\ UNCHANGED <<server, asked, socket, frames, page, history, counts>>
  BY DEF PostAnswers, ServerSound
<1>2. answers' \subseteq Answers /\ StepAnswers
  BY <1>1, RepliedRows, AnswersSame, Unwrap DEF PostReply, server
<1>3. Typed'
  BY <1>1, <1>2, Unwrap, Wrap DEF server, page, history, counts
<1>4. ServerSound' /\ StepMoves
  BY <1>1, Unwrap DEF server, page, ServerSound, StepMoves, Moves
<1>. QED BY <1>1, <1>2, <1>3, <1>4, FramesSame DEF Sums

LEMMA AskedKinds ==
  ASSUME Typed, NEW q \in asked
  PROVE /\ q \in Calls
        /\ q.kind \in {"status", "check", "delete"} => q.req \in Requests
        /\ q.kind = "list" => q.req \in Nat
        /\ q.kind \in {"status", "check", "delete", "list"}
  BY Unwrap DEF Calls

LEMMA StatusAnswersSums ==
  ASSUME PageInv, NEW q, StatusAnswers(q)
  PROVE Sums
<1>. Typed /\ ServerSound
  BY DEF PageInv, Typed
<1>1. /\ q \in asked /\ q.kind \in {"status", "check"} /\ asked' = asked \ {q}
      /\ UNCHANGED <<server, post, socket, frames, page, history, counts>>
  BY DEF StatusAnswers
<1>2. answers' \subseteq Answers /\ StepAnswers
  <2>1. CASE status[q.req] = "unknown"
    BY <1>1, <2>1, AskedKinds, RepliedWord DEF StatusAnswers
  <2>2. CASE status[q.req] # "unknown"
    BY <1>1, <2>2, AskedKinds, RepliedRows DEF StatusAnswers, server
  <2>. QED BY <2>1, <2>2
<1>3. Typed'
  BY <1>1, <1>2, Unwrap, Wrap DEF server, page, history, counts
<1>4. ServerSound' /\ StepMoves
  BY <1>1, Unwrap DEF server, page, ServerSound, StepMoves, Moves
<1>. QED BY <1>1, <1>2, <1>3, <1>4, FramesSame DEF Sums

LEMMA ListAnswersSums ==
  ASSUME PageInv, NEW q, ListAnswers(q)
  PROVE /\ Sums
        /\ \A a \in answers' : a \in answers
                               \/ (a.req = q.req /\ \A r \in Due : Tells(a, r))
<1>. Typed /\ ServerSound
  BY DEF PageInv, Typed
<1>. DEFINE a == [kind |-> "list", req |-> q.req, body |-> Rows(Listing)]
<1>1. /\ q \in asked /\ q.kind = "list" /\ asked' = asked \ {q} /\ answers' = answers \cup {a}
      /\ UNCHANGED <<server, post, socket, frames, page, history, counts>>
  BY DEF ListAnswers, Reply
<1>2. Listing \in SUBSET Requests /\ \A r \in Listing : status[r] # "unknown"
  BY DEF Listing
<1>3. /\ Rows(Listing) \in Bodies /\ Rows(Listing).what = "rows"
      /\ DOMAIN Rows(Listing).rows = Listing
      /\ \A r \in Listing : RowEntry(r) \in Entry /\ Rows(Listing).rows[r] = RowEntry(r)
  BY <1>2, RowsAreRows
<1>4. a \in Answers
  BY <1>1, <1>3, AskedKinds DEF Answers
<1>5. \A r \in Listing : RowEntry(r)' = RowEntry(r) /\ status'[r] # "unknown"
  BY <1>1, <1>2 DEF RowEntry, server
<1>6. NewAnswer(a)
  BY <1>3, <1>5 DEF NewAnswer
<1>7. answers' \subseteq Answers /\ StepAnswers
  BY <1>1, <1>4, <1>6, Replied DEF Reply
<1>8. Typed'
  BY <1>1, <1>7, Unwrap, Wrap DEF server, page, history, counts
<1>9. ServerSound' /\ StepMoves
  BY <1>1, Unwrap DEF server, page, ServerSound, StepMoves, Moves
<1>10. \A r \in Due : Tells(a, r)
  <2>. SUFFICES ASSUME NEW r \in Due PROVE Tells(a, r)
    OBVIOUS
  <2>1. r \in Listing
    BY DEF Due, Listing, Settled
  <2>2. RowEntry(r).state = status[r]
    BY DEF RowEntry
  <2>. QED BY <1>3, <2>1, <2>2 DEF Tells
<1>. QED BY <1>1, <1>7, <1>8, <1>9, <1>10, FramesSame DEF Sums

LEMMA DismissAnswersSums ==
  ASSUME PageInv, NEW q, DismissAnswers(q)
  PROVE Sums /\ FramesKept
<1>. Typed /\ ServerSound
  BY DEF PageInv, Typed
<1>. DEFINE r == q.req
<1>1. /\ q \in asked /\ q.kind = "delete" /\ asked' = asked \ {q} /\ r \in Requests
      /\ UNCHANGED <<status, transmitted, post, socket, page, history, counts>>
  BY AskedKinds DEF DismissAnswers
<1>2. CASE /\ status[r] \in {"failed", "unconfirmed"}
           /\ dismissed' = dismissed \cup {r}
           /\ Publish(r)
           /\ Reply("delete", r, Rows({r})')
  <2>1. status'[r] # "unknown" /\ status' \in [Requests -> {"unknown", "working"} \cup Settled]
    BY <1>1, <1>2, Unwrap
  <2>2. frames' \in Seq(Frames) /\ StepFrames /\ FramesKept
    BY <1>1, <1>2, <2>1, Published
  <2>. DEFINE e == [state |-> status[r], dismissed |-> r \in dismissed', clientOnly |-> FALSE]
              b == [what |-> "rows", rows |-> [x \in {r} |-> e]]
              a == [kind |-> "delete", req |-> r, body |-> b]
  <2>3. RowEntry(r)' = e /\ e \in Entry
    BY <1>1, <1>2 DEF RowEntry, Entry, Settled
  <2>4. Rows({r})' = b
    <3>1. \A x \in {r} : RowEntry(x)' = e
      BY <2>3
    <3>2. Rows({r})' = [what |-> "rows", rows |-> [x \in {r} |-> RowEntry(x)']]
      BY DEF Rows
    <3>. QED BY <3>1, <3>2
  <2>5. b \in Bodies
    <3>1. [x \in {r} |-> e] \in [{r} -> Entry] /\ {r} \in SUBSET Requests
      BY <1>1, <2>3
    <3>2. [x \in {r} |-> e] \in RowSets
      BY <3>1 DEF RowSets
    <3>. QED BY <3>2 DEF Bodies
  <2>6. a \in Answers
    BY <1>1, <2>5 DEF Answers
  <2>7. NewAnswer(a)
    BY <1>2, <2>1, <2>3 DEF NewAnswer
  <2>8. answers' \subseteq Answers /\ StepAnswers
    <3>1. Reply("delete", r, b)
      BY <1>2, <2>4
    <3>. QED BY <2>6, <2>7, <3>1, Replied
  <2>9. Typed'
    BY <1>1, <1>2, <2>2, <2>8, Unwrap, Wrap DEF page, history, counts
  <2>10. ServerSound' /\ StepMoves
    BY <1>1, <1>2, Unwrap DEF page, ServerSound, StepMoves, Moves, Settled
  <2>. QED BY <2>2, <2>8, <2>9, <2>10 DEF Sums
<1>3. CASE /\ UNCHANGED <<dismissed, frames>>
           /\ Reply("delete", r, Word(IF status[r] = "unknown" THEN "missing" ELSE "conflict"))
  <2>1. answers' \subseteq Answers /\ StepAnswers
    BY <1>1, <1>3, RepliedWord
  <2>2. Typed'
    BY <1>1, <1>3, <2>1, Unwrap, Wrap DEF page, history, counts
  <2>3. ServerSound' /\ StepMoves
    BY <1>1, <1>3, Unwrap DEF page, ServerSound, StepMoves, Moves
  <2>. QED BY <1>3, <2>1, <2>2, <2>3, FramesSame DEF Sums
<1>. QED BY <1>2, <1>3 DEF DismissAnswers

-----------------------------------------------------------------------------
(* The page's steps.                                                       *)

\* What may arrive for a request: nothing that is not so, and nothing that
\* brings back what was deleted or settled.
Arrives(r, e) ==
  /\ e \in Entry /\ Believable(status[r], post[r], e) /\ post[r] # "idle"
  /\ Closed(r) /\ shown[r] = NoEntry => e.dismissed
  /\ status[r] \in Settled /\ shown[r].state = status[r] =>
       \/ e.state \in {"working", status[r]}
       \/ status[r] = "confirmed"
       \/ e.dismissed /\ e.state # "working"

\* To what the page shows.
StepShown ==
  \A r \in Requests :
    \/ shown'[r] = shown[r]
    \/ \E e \in Entry : Arrives(r, e) /\ shown'[r] = mergeOutgoing(shown[r], e)
    \/ shown'[r] = NoEntry /\ frames' = <<>> /\ answers' = {} /\ socket' = "down"

\* To what the user has asked for.
StepActs ==
  \A r \in Requests :
    \/ act'[r] = act[r]
    \/ act'[r].kind = "none"
    \/ /\ act'[r].entry = shown[r] /\ shown[r] # NoEntry /\ ~shown[r].dismissed
       /\ act'[r].kind \in {"deleting", "resending"} =>
            shown[r].state \in {"failed", "unconfirmed"} /\ call[r] \in {"idle", "over"}

PageSums == StepShown /\ StepActs

LEMMA ArrivingRow ==
  ASSUME PageInv, NEW r \in Requests, NEW e, Current(status[r], e),
         Closed(r) /\ shown[r] = NoEntry => e.dismissed
  PROVE e \in Entry /\ Arrives(r, e)
<1>1. e \in Entry /\ ~e.clientOnly /\ status[r] # "unknown"
  BY DEF Current
<1>2. Believable(status[r], post[r], e)
  BY EntryFields DEF Current, Believable
<1>3. post[r] # "idle"
  BY <1>1 DEF PageInv, ServerSound
<1>. QED BY <1>1, <1>2, <1>3 DEF Arrives, Current, Settled

LEMMA TakenSums ==
  ASSUME Typed, NEW S \in SUBSET Requests, NEW new \in [S -> Entry], Take(new),
         \A r \in S : Arrives(r, new[r])
  PROVE shown' \in [Requests -> Entry \cup {NoEntry}] /\ StepShown
<1>1. \A r \in Requests : shown'[r] = IF r \in S THEN mergeOutgoing(shown[r], new[r])
                                                 ELSE shown[r]
  BY Taken
<1>2. \A r \in S : new[r] \in Entry
  OBVIOUS
<1>. QED BY <1>1, <1>2, Taken DEF StepShown

LEMMA ShownSame == ASSUME UNCHANGED shown PROVE StepShown
  BY DEF StepShown

LEMMA ActsSame == ASSUME UNCHANGED act PROVE StepActs
  BY DEF StepActs

LEMMA ServerSame ==
  ASSUME ServerSound, UNCHANGED <<server, post, call>>
  PROVE ServerSound' /\ StepMoves
  BY DEF server, ServerSound, StepMoves, Moves

\* A request that the page has not used is posted.
LEMMA SubmitMoves ==
  ASSUME Typed, ServerSound, NEW q \in Unused, Submit(q), UNCHANGED server
  PROVE /\ post' \in [Requests -> {"idle", "travelling", "handling", "over"}]
        /\ call' \in [Requests -> {"idle", "posting", "recovering", "over"}]
        /\ ServerSound' /\ StepMoves
  BY Unwrap DEF Unused, Submit, server, ServerSound, StepMoves, Moves

LEMMA ComposeSums ==
  ASSUME PageInv, NEW r \in Requests, Compose(r)
  PROVE Sums /\ PageSums
<1>. Typed /\ ServerSound
  BY DEF PageInv, Typed
<1>1. r \in Unused /\ Submit(r)
      /\ UNCHANGED <<server, net, shown, act, listed, history, counts>>
  BY DEF Compose, Unused
<1>2. /\ post' \in [Requests -> {"idle", "travelling", "handling", "over"}]
      /\ call' \in [Requests -> {"idle", "posting", "recovering", "over"}]
      /\ ServerSound' /\ StepMoves
  BY <1>1, SubmitMoves
<1>3. Typed'
  BY <1>1, <1>2, Unwrap, Wrap DEF server, net, history, counts
<1>. QED BY <1>1, <1>2, <1>3, FramesSame, AnswersSame, ShownSame, ActsSame
         DEF Sums, PageSums, net

LEMMA ClickSums ==
  ASSUME PageInv, NEW r \in Requests, NEW kind \in {"checking", "deleting", "resending"},
         Click(r, kind)
  PROVE Sums /\ PageSums
<1>. Typed /\ ServerSound
  BY DEF PageInv, Typed
<1>1. UNCHANGED <<server, post, answers, socket, frames, shown, call, listed,
                  history, ends, losses>>
  BY DEF Click
<1>2. act' = [act EXCEPT ![r] = [kind |-> kind, entry |-> shown[r]]]
  BY DEF Click
<1>3. asked' \subseteq Calls
  BY Unwrap DEF Click, Calls
<1>4. act' \in [Requests -> [kind : {"none", "checking", "deleting", "resending"},
                             entry : Entry \cup {NoEntry}]]
  BY <1>2, Unwrap
<1>5. Typed'
  BY <1>1, <1>3, <1>4, Unwrap, Wrap DEF server, history
<1>6. ServerSound' /\ StepMoves
  BY <1>1, ServerSame
<1>7. StepActs
  <2>1. shown[r] # NoEntry /\ ~shown[r].dismissed
    BY NoEntryFields DEF Click
  <2>2. kind \in {"deleting", "resending"} =>
          shown[r].state \in {"failed", "unconfirmed"} /\ call[r] \in {"idle", "over"}
    BY Unwrap DEF Click, Submitting
  <2>. QED BY <1>2, <2>1, <2>2, Unwrap DEF StepActs
<1>. QED BY <1>1, <1>5, <1>6, <1>7, FramesSame, AnswersSame, ShownSame DEF Sums, PageSums

LEMMA HeadTail ==
  ASSUME Typed, frames # <<>>
  PROVE /\ Tail(frames) \in Seq(Frames) /\ 1 \in DOMAIN frames /\ Head(frames) = frames[1]
        /\ DOMAIN Tail(frames) = 1 .. Len(frames) - 1
        /\ \A i \in DOMAIN Tail(frames) : i + 1 \in DOMAIN frames
                                          /\ Tail(frames)[i] = frames[i + 1]
<1>1. frames \in Seq(Frames) /\ DOMAIN frames = 1 .. Len(frames) /\ Len(frames) \in Nat \ {0}
  BY Unwrap
<1>. QED BY <1>1

LEMMA FrameSums ==
  ASSUME PageInv, Frame
  PROVE Sums /\ PageSums
<1>. Typed /\ ServerSound
  BY DEF PageInv, Typed
<1>1. /\ frames # <<>> /\ frames' = Tail(frames)
      /\ UNCHANGED <<server, post, answers, call, act, listed, history, counts>>
  BY DEF Frame
<1>2. frames' \in Seq(Frames) /\ StepFrames
  BY <1>1, HeadTail DEF StepFrames
<1>3. /\ shown' \in [Requests -> Entry \cup {NoEntry}] /\ StepShown
      /\ asked' \subseteq Calls /\ socket' \in {"down", "open", "live"}
  <2>1. CASE /\ Head(frames).req = "identity" /\ socket' = "live"
             /\ asked' = asked \cup {List} /\ UNCHANGED shown
    BY <2>1, ShownSame, ListCalls, Unwrap
  <2>2. CASE /\ Head(frames).req # "identity" /\ UNCHANGED socket
             /\ Take(One(Head(frames).req, Head(frames).entry))
             /\ asked' = asked \cup Asks(One(Head(frames).req, Head(frames).entry))
    <3>. DEFINE r == Head(frames).req
                e == Head(frames).entry
    <3>1. r \in Requests /\ 1 \in DOMAIN frames /\ Head(frames) = frames[1]
      BY <1>1, <2>2, HeadTail, FrameFacts DEF Frames
    <3>2. Current(status[r], e)
      BY <2>2, <3>1 DEF PageInv, FramesCurrent
    <3>3. Closed(r) /\ shown[r] = NoEntry => e.dismissed
      BY <3>1 DEF Closed, Hidden
    <3>4. e \in Entry /\ Arrives(r, e)
      BY <3>1, <3>2, <3>3, ArrivingRow
    <3>5. One(r, e) \in [{r} -> Entry] /\ One(r, e)[r] = e /\ {r} \in SUBSET Requests
      BY <3>1, <3>4, OneEntry
    <3>6. shown' \in [Requests -> Entry \cup {NoEntry}] /\ StepShown
      BY <2>2, <3>4, <3>5, TakenSums
    <3>7. asked' \subseteq Calls
      BY <2>2, AskedLists, ListCalls, Unwrap
    <3>. QED BY <2>2, <3>6, <3>7, Unwrap
  <2>. QED BY <2>1, <2>2 DEF Frame
<1>4. Typed'
  BY <1>1, <1>2, <1>3, Unwrap, Wrap DEF server, history, counts
<1>. QED BY <1>1, <1>2, <1>3, <1>4, ServerSame, AnswersSame, ActsSame DEF Sums, PageSums

LEMMA FeedShowsSums ==
  ASSUME PageInv, NEW r \in Requests, FeedShows(r)
  PROVE Sums /\ PageSums
<1>. Typed /\ ServerSound
  BY DEF PageInv, Typed
<1>. DEFINE e == [shown[r] EXCEPT !.state = "confirmed"]
<1>1. /\ status[r] = "confirmed" /\ shown[r].state # "none"
      /\ Take(One(r, e)) /\ asked' = asked \cup Asks(One(r, e))
      /\ UNCHANGED <<server, post, answers, socket, frames, call, act, listed,
                     history, counts>>
  BY DEF FeedShows
<1>2. shown[r] \in Entry /\ shown[r] # NoEntry
  BY <1>1, NoEntryFields, Unwrap
<1>3. e \in Entry /\ e.state = "confirmed"
  BY <1>2 DEF Entry, Settled
<1>4. Believable(status[r], post[r], e) /\ post[r] # "idle"
  BY <1>1, <1>2, <1>3 DEF Believable, PageInv, ShownBelievable
<1>. HIDE DEF e
<1>5. Arrives(r, e)
  BY <1>1, <1>2, <1>3, <1>4 DEF Arrives
<1>6. One(r, e) \in [{r} -> Entry] /\ One(r, e)[r] = e /\ {r} \in SUBSET Requests
  BY <1>3, OneEntry
<1>7. shown' \in [Requests -> Entry \cup {NoEntry}] /\ StepShown
  BY <1>1, <1>5, <1>6, TakenSums
<1>8. asked' \subseteq Calls
  BY <1>1, AskedLists, ListCalls, Unwrap
<1>9. Typed'
  BY <1>1, <1>7, <1>8, Unwrap, Wrap DEF server, history, counts
<1>. QED BY <1>1, <1>7, <1>9, ServerSame, FramesSame, AnswersSame, ActsSame DEF Sums, PageSums

\* Every answer is one of these.
LEMMA AnswerKinds ==
  ASSUME Typed, NEW a \in answers
  PROVE /\ a.body \in Bodies
        /\ a.kind \in {"post", "status", "check", "delete"} => a.req \in Requests
        /\ a.kind = "list" => a.req \in Nat
        /\ a.kind \in {"post", "status", "check", "delete", "list"}
  BY Unwrap DEF Answers

\* The rows of an answer may arrive.
LEMMA ArrivingRows ==
  ASSUME PageInv, NEW a \in answers
  PROVE /\ DOMAIN a.body.rows \in SUBSET Requests
        /\ a.body.rows \in [DOMAIN a.body.rows -> Entry]
        /\ \A r \in DOMAIN a.body.rows : Arrives(r, a.body.rows[r])
<1>. Typed
  BY DEF PageInv, Typed
<1>1. DOMAIN a.body.rows \in SUBSET Requests /\ a.body.rows \in [DOMAIN a.body.rows -> Entry]
  BY AnswerKinds, BodyRows
<1>2. ASSUME NEW r \in DOMAIN a.body.rows
      PROVE Arrives(r, a.body.rows[r])
  <2>1. r \in Requests /\ Current(status[r], a.body.rows[r])
    BY <1>1 DEF PageInv, AnswersCurrent
  <2>2. Closed(r) /\ shown[r] = NoEntry => a.body.rows[r].dismissed
    BY DEF Closed, Hidden
  <2>. QED BY <2>1, <2>2, ArrivingRow
<1>. QED BY <1>1, <1>2

LEMMA RowsTaken ==
  ASSUME PageInv, NEW a \in answers, Take(a.body.rows),
         asked' = asked \cup Asks(a.body.rows)
  PROVE /\ shown' \in [Requests -> Entry \cup {NoEntry}] /\ StepShown
        /\ asked' \subseteq Calls
<1>. Typed
  BY DEF PageInv, Typed
<1>1. shown' \in [Requests -> Entry \cup {NoEntry}] /\ StepShown
  BY ArrivingRows, TakenSums
<1>. QED BY <1>1, AskedLists, ListCalls, Unwrap

LEMMA PostAnsweredSums ==
  ASSUME PageInv, NEW a \in answers, a.kind = "post", PostAnswered(a.req, a.body),
         answers' = answers \ {a}, UNCHANGED <<server, socket, frames, counts>>
  PROVE Sums /\ PageSums
<1>. Typed /\ ServerSound
  BY DEF PageInv, Typed
<1>. DEFINE r == a.req
<1>0. r \in Requests /\ call[r] = "posting" /\ UNCHANGED <<post, act, listed, history>>
  BY AnswerKinds DEF PostAnswered
<1>1. /\ call' \in [Requests -> {"idle", "posting", "recovering", "over"}]
      /\ ServerSound' /\ StepMoves
  BY <1>0, Unwrap DEF PostAnswered, server, ServerSound, StepMoves, Moves
<1>2. /\ shown' \in [Requests -> Entry \cup {NoEntry}] /\ StepShown
      /\ asked' \subseteq Calls
  <2>1. CASE Take(a.body.rows) /\ asked' = asked \cup Asks(a.body.rows)
    BY <2>1, RowsTaken
  <2>2. CASE /\ a.body.what = "refused" /\ UNCHANGED asked
             /\ Take(One(r, Provisional("failed")))
    <3>. DEFINE e == Provisional("failed")
    <3>1. e \in Entry /\ e.state = "failed" /\ e.clientOnly
      BY DEF Provisional, Entry, Settled
    <3>2. Refused(status[r], post[r])
      BY <2>2 DEF PageInv, AnswersCurrent
    <3>. HIDE DEF e
    <3>3. Arrives(r, e)
      BY <1>0, <3>1, <3>2 DEF Arrives, Believable, Refused, Closed, Settled
    <3>4. One(r, e) \in [{r} -> Entry] /\ One(r, e)[r] = e /\ {r} \in SUBSET Requests
      BY <1>0, <3>1, OneEntry
    <3>5. Take(One(r, e))
      BY <2>2 DEF e
    <3>6. shown' \in [Requests -> Entry \cup {NoEntry}] /\ StepShown
      BY <3>3, <3>4, <3>5, TakenSums
    <3>. QED BY <2>2, <3>6, Unwrap
  <2>3. CASE asked' = asked \cup {[kind |-> "status", req |-> r]} /\ UNCHANGED shown
    BY <1>0, <2>3, ShownSame, Unwrap DEF Calls
  <2>. QED BY <2>1, <2>2, <2>3 DEF PostAnswered
<1>3. Typed'
  BY <1>0, <1>1, <1>2, Unwrap, Wrap DEF server, history, counts
<1>4. StepAnswers
  BY DEF StepAnswers
<1>. QED BY <1>0, <1>1, <1>2, <1>3, <1>4, FramesSame, ActsSame DEF Sums, PageSums

LEMMA StatusAnsweredSums ==
  ASSUME PageInv, NEW a \in answers, a.kind = "status", StatusAnswered(a.req, a.body),
         answers' = answers \ {a}, UNCHANGED <<server, socket, frames, counts>>
  PROVE Sums /\ PageSums
<1>. Typed /\ ServerSound
  BY DEF PageInv, Typed
<1>. DEFINE r == a.req
<1>0. r \in Requests /\ call[r] = "recovering" /\ UNCHANGED <<post, act, listed, history>>
  BY AnswerKinds DEF StatusAnswered
<1>1. /\ call' \in [Requests -> {"idle", "posting", "recovering", "over"}]
      /\ ServerSound' /\ StepMoves
  BY <1>0, Unwrap DEF StatusAnswered, server, ServerSound, StepMoves, Moves
<1>2. /\ shown' \in [Requests -> Entry \cup {NoEntry}] /\ StepShown
      /\ asked' \subseteq Calls
  <2>1. CASE Take(a.body.rows) /\ asked' = asked \cup Asks(a.body.rows)
    BY <2>1, RowsTaken
  <2>2. CASE /\ shown[r] = NoEntry /\ UNCHANGED asked
             /\ Take(One(r, Provisional("unconfirmed")))
    <3>. DEFINE e == Provisional("unconfirmed")
    <3>1. e \in Entry /\ e.state = "unconfirmed"
      BY DEF Provisional, Entry, Settled
    <3>2. post[r] # "idle" /\ shown[r].state \notin Settled
      BY <1>0, <2>2, NoEntryFields DEF ServerSound, Settled
    <3>. HIDE DEF e
    <3>3. Arrives(r, e)
      BY <1>0, <3>1, <3>2 DEF Arrives, Believable, Closed
    <3>4. One(r, e) \in [{r} -> Entry] /\ One(r, e)[r] = e /\ {r} \in SUBSET Requests
      BY <1>0, <3>1, OneEntry
    <3>5. Take(One(r, e))
      BY <2>2 DEF e
    <3>6. shown' \in [Requests -> Entry \cup {NoEntry}] /\ StepShown
      BY <3>3, <3>4, <3>5, TakenSums
    <3>. QED BY <2>2, <3>6, Unwrap
  <2>3. CASE UNCHANGED <<shown, asked>>
    BY <2>3, ShownSame, Unwrap
  <2>. QED BY <2>1, <2>2, <2>3 DEF StatusAnswered
<1>3. Typed'
  BY <1>0, <1>1, <1>2, Unwrap, Wrap DEF server, history, counts
<1>4. StepAnswers
  BY DEF StepAnswers
<1>. QED BY <1>0, <1>1, <1>2, <1>3, <1>4, FramesSame, ActsSame DEF Sums, PageSums

\* What the user asked for is over.
LEMMA ActOver ==
  ASSUME Typed, NEW r \in Requests, act' = [act EXCEPT ![r] = NoAct]
  PROVE /\ act' \in [Requests -> [kind : {"none", "checking", "deleting", "resending"},
                                  entry : Entry \cup {NoEntry}]]
        /\ StepActs /\ act'[r].kind = "none"
        /\ \A q \in Requests : q # r => act'[q] = act[q]
  BY Unwrap DEF NoAct, StepActs

LEMMA CheckAnsweredSums ==
  ASSUME PageInv, NEW a \in answers, a.kind = "check", CheckAnswered(a.req, a.body),
         answers' = answers \ {a}, UNCHANGED <<server, socket, frames, counts>>
  PROVE Sums /\ PageSums
<1>. Typed /\ ServerSound
  BY DEF PageInv, Typed
<1>0. /\ a.req \in Requests /\ act' = [act EXCEPT ![a.req] = NoAct]
      /\ UNCHANGED <<post, call, listed, history>>
  BY AnswerKinds DEF CheckAnswered
<1>1. ServerSound' /\ StepMoves
  BY <1>0, ServerSame
<1>2. /\ shown' \in [Requests -> Entry \cup {NoEntry}] /\ StepShown
      /\ asked' \subseteq Calls
  <2>1. CASE Take(a.body.rows) /\ asked' = asked \cup Asks(a.body.rows)
    BY <2>1, RowsTaken
  <2>2. CASE UNCHANGED <<shown, asked>>
    BY <2>2, ShownSame, Unwrap
  <2>. QED BY <2>1, <2>2 DEF CheckAnswered
<1>3. Typed'
  BY <1>0, <1>2, ActOver, Unwrap, Wrap DEF server, history, counts
<1>4. StepAnswers
  BY DEF StepAnswers
<1>. QED BY <1>0, <1>1, <1>2, <1>3, <1>4, ActOver, FramesSame DEF Sums, PageSums

LEMMA ListAnsweredSums ==
  ASSUME PageInv, NEW a \in answers, a.kind = "list", ListAnswered(a.req, a.body),
         answers' = answers \ {a}, UNCHANGED <<server, socket, frames, counts>>
  PROVE Sums /\ PageSums
<1>. Typed /\ ServerSound
  BY DEF PageInv, Typed
<1>0. UNCHANGED <<post, call, act, history>> /\ listed' \in BOOLEAN
  BY Unwrap DEF ListAnswered
<1>1. ServerSound' /\ StepMoves
  BY <1>0, ServerSame
<1>2. /\ shown' \in [Requests -> Entry \cup {NoEntry}] /\ StepShown
      /\ asked' \subseteq Calls
  <2>1. CASE Take(a.body.rows) /\ asked' = asked \cup Asks(a.body.rows)
    BY <2>1, RowsTaken
  <2>2. CASE UNCHANGED <<shown, asked>>
    BY <2>2, ShownSame, Unwrap
  <2>. QED BY <2>1, <2>2 DEF ListAnswered
<1>3. Typed'
  BY <1>0, <1>2, Unwrap, Wrap DEF server, history, counts
<1>4. StepAnswers
  BY DEF StepAnswers
<1>. QED BY <1>0, <1>1, <1>2, <1>3, <1>4, ActsSame, FramesSame DEF Sums, PageSums

\* The answer of a DELETE that deleted the row, or found that there is none.
OwnGone(a) == act[a.req].entry.clientOnly /\ a.body.what = "missing"

\* The rows that it leaves, in either case: one that is dismissed.
LEMMA GoneRow ==
  ASSUME PageInv, NEW a \in answers, a.kind = "delete",
         act[a.req].kind \in {"deleting", "resending"},
         OwnGone(a) \/ a.body.what = "rows", NEW gone,
         gone = IF OwnGone(a) THEN One(a.req, [act[a.req].entry EXCEPT !.dismissed = TRUE])
                              ELSE a.body.rows
  PROVE /\ a.req \in Requests /\ {a.req} \in SUBSET Requests
        /\ gone \in [{a.req} -> Entry] /\ Arrives(a.req, gone[a.req])
        /\ gone[a.req].dismissed /\ gone[a.req].state # "working"
        /\ ~OwnGone(a) => a.req \in dismissed
<1>. Typed
  BY DEF PageInv, Typed
<1>. DEFINE r == a.req
<1>0. r \in Requests
  BY AnswerKinds
<1>1. /\ Believable(status[r], post[r], act[r].entry) /\ post[r] # "idle"
      /\ act[r].entry.state \in {"failed", "unconfirmed"} /\ act[r].entry \in Entry
  BY <1>0 DEF PageInv, ActsBelievable, Believable
<1>2. CASE OwnGone(a)
  <2>. DEFINE e == [act[r].entry EXCEPT !.dismissed = TRUE]
  <2>1. /\ e \in Entry /\ e.dismissed /\ e.state = act[r].entry.state
        /\ e.clientOnly = act[r].entry.clientOnly
    BY <1>1 DEF Entry
  <2>2. gone = One(r, e)
    BY <1>2
  <2>. HIDE DEF e
  <2>3. Arrives(r, e)
    <3>1. PICK k : k = act[r].entry
      OBVIOUS
    <3>2. /\ Believable(status[r], post[r], k) /\ post[r] # "idle" /\ e \in Entry /\ e.dismissed
          /\ e.state = k.state /\ e.clientOnly = k.clientOnly /\ e.state # "working"
      BY <1>1, <2>1, <3>1
    <3>3. Believable(status[r], post[r], e)
      BY <3>2 DEF Believable
    <3>. QED BY <3>2, <3>3 DEF Arrives
  <2>4. gone \in [{r} -> Entry] /\ gone[r] = e /\ {r} \in SUBSET Requests
    <3>1. e \in Entry
      BY <2>1
    <3>2. PICK f : f = One(r, e)
      OBVIOUS
    <3>3. f \in [{r} -> Entry] /\ f[r] = e /\ {r} \in SUBSET Requests
      BY <1>0, <3>1, <3>2, OneEntry
    <3>. QED BY <2>2, <3>2, <3>3
  <2>5. e.state # "working"
    BY <1>1, <2>1
  <2>. QED BY <1>0, <1>2, <2>1, <2>3, <2>4, <2>5
<1>3. CASE ~OwnGone(a)
  <2>1. /\ gone = a.body.rows /\ DOMAIN gone = {r} /\ gone[r].dismissed /\ r \in dismissed
        /\ Current(status[r], gone[r])
    BY <1>3 DEF PageInv, AnswersCurrent
  <2>2. gone \in [{r} -> Entry] /\ Arrives(r, gone[r])
    BY <2>1, ArrivingRows
  <2>. QED BY <1>0, <2>1, <2>2 DEF Current
<1>. QED BY <1>2, <1>3

\* What a DELETE that is answered comes to.
LEMMA DeleteCases ==
  ASSUME NEW a, DeleteAnswered(a.req, a.body)
  PROVE /\ act[a.req].kind \in {"deleting", "resending"}
        /\ act' = [act EXCEPT ![a.req] = NoAct] /\ UNCHANGED listed
        /\ \/ /\ OwnGone(a) \/ a.body.what = "rows"
              /\ \E gone :
                   /\ gone = IF OwnGone(a)
                             THEN One(a.req, [act[a.req].entry EXCEPT !.dismissed = TRUE])
                             ELSE a.body.rows
                   /\ Take(gone) /\ asked' = asked \cup Asks(gone)
              /\ hid' = IF OwnGone(a) THEN hid ELSE hid \cup {a.req}
              /\ \/ act[a.req].kind = "deleting" /\ UNCHANGED <<call, post, warned>>
                 \/ /\ act[a.req].kind = "resending"
                    /\ \E q \in Unused :
                         /\ Submit(q)
                         /\ warned' = IF act[a.req].entry.state = "unconfirmed"
                                      THEN warned \cup {q} ELSE warned
           \/ /\ ~OwnGone(a) /\ a.body.what # "rows"
              /\ asked' = asked \cup Refresh
              /\ UNCHANGED <<shown, call, post, warned, hid>>
  BY DEF DeleteAnswered, OwnGone

LEMMA DeleteAnsweredSums ==
  ASSUME PageInv, NEW a \in answers, a.kind = "delete", DeleteAnswered(a.req, a.body),
         answers' = answers \ {a}, UNCHANGED <<server, socket, frames, counts>>
  PROVE Sums /\ PageSums
<1>. Typed /\ ServerSound
  BY DEF PageInv, Typed
<1>. DEFINE r == a.req
<1>0. r \in Requests /\ act' = [act EXCEPT ![r] = NoAct] /\ UNCHANGED listed
  BY AnswerKinds, DeleteCases
<1>1. CASE OwnGone(a) \/ a.body.what = "rows"
  <2>1. PICK gone :
          /\ gone = IF OwnGone(a) THEN One(r, [act[r].entry EXCEPT !.dismissed = TRUE])
                                  ELSE a.body.rows
          /\ Take(gone) /\ asked' = asked \cup Asks(gone)
    BY <1>1, DeleteCases
  <2>2. /\ gone \in [{r} -> Entry] /\ {r} \in SUBSET Requests
        /\ \A q \in {r} : Arrives(q, gone[q])
    <3>1. act[r].kind \in {"deleting", "resending"}
      BY DeleteCases
    <3>2. gone \in [{r} -> Entry] /\ {r} \in SUBSET Requests /\ Arrives(r, gone[r])
      BY <1>1, <2>1, <3>1, GoneRow
    <3>. QED BY <3>2
  <2>3. shown' \in [Requests -> Entry \cup {NoEntry}] /\ StepShown
    BY <2>1, <2>2, TakenSums
  <2>4. asked' \subseteq Calls
    BY <2>1, AskedLists, ListCalls, Unwrap
  <2>5. hid' \subseteq Requests
    <3>1. hid' = IF OwnGone(a) THEN hid ELSE hid \cup {r}
      BY <1>1, DeleteCases
    <3>2. hid \subseteq Requests
      BY Unwrap
    <3>. QED BY <1>0, <3>1, <3>2
  <2>. DEFINE Posts == /\ post' \in [Requests -> {"idle", "travelling", "handling", "over"}]
                       /\ call' \in [Requests -> {"idle", "posting", "recovering", "over"}]
                       /\ ServerSound' /\ StepMoves /\ warned' \subseteq Requests
  <2>6. Posts
    <3>1. CASE UNCHANGED <<call, post, warned>>
      BY <3>1, ServerSame, Unwrap
    <3>2. ASSUME NEW q \in Unused, Submit(q), warned' \in {warned, warned \cup {q}}
          PROVE Posts
      BY <3>2, SubmitMoves, Unwrap DEF Unused
    <3>. QED BY <1>1, <3>1, <3>2, DeleteCases
  <2>7. Typed'
    BY <1>0, <2>3, <2>4, <2>5, <2>6, ActOver, Unwrap, Wrap DEF server, counts
  <2>8. StepAnswers
    BY DEF StepAnswers
  <2>. QED BY <1>0, <2>3, <2>6, <2>7, <2>8, ActOver, FramesSame DEF Sums, PageSums
<1>2. CASE ~(OwnGone(a) \/ a.body.what = "rows")
  <2>1. asked' = asked \cup Refresh /\ UNCHANGED <<shown, call, post, warned, hid>>
    BY <1>2, DeleteCases
  <2>2. asked' \subseteq Calls
    BY <2>1, ListCalls, Unwrap DEF Refresh
  <2>3. Typed'
    BY <1>0, <2>1, <2>2, ActOver, Unwrap, Wrap DEF server, counts
  <2>4. StepAnswers
    BY DEF StepAnswers
  <2>. QED BY <1>0, <2>1, <2>3, <2>4, ServerSame, ActOver, FramesSame, ShownSame
           DEF Sums, PageSums
<1>. QED BY <1>1, <1>2

LEMMA DeliveredSums ==
  ASSUME PageInv, NEW a \in answers, Delivered(a)
  PROVE Sums /\ PageSums
  BY PostAnsweredSums, StatusAnsweredSums, CheckAnsweredSums, DeleteAnsweredSums,
     ListAnsweredSums DEF Delivered

-----------------------------------------------------------------------------
(* Troubles.                                                               *)

LEMMA LostSums ==
  ASSUME PageInv, Lost
  PROVE Sums /\ PageSums /\ (\A a \in answers' : a \in answers \/ a.body.what = "error")
<1>. Typed /\ ServerSound
  BY DEF PageInv, Typed
<1>1. UNCHANGED <<server, post, socket, frames, page, history, ends, clicks>>
  BY DEF Lost
<1>. DEFINE b == Word("error")
<1>2. b \in Bodies /\ b.what = "error" /\ DOMAIN b.rows = {}
  BY WordsAreWords
<1>. HIDE DEF b
<1>. DEFINE Under == /\ asked' \subseteq Calls /\ answers' \subseteq Answers
                     /\ \A a \in answers' : a \in answers \/ a.body = b
<1>3. Under
  <2>1. ASSUME NEW r \in Requests, Reply("post", r, b), UNCHANGED asked
        PROVE Under
    BY <1>2, <2>1, Unwrap DEF Reply, Answers
  <2>2. ASSUME NEW q \in asked, asked' = asked \ {q}, Reply(q.kind, q.req, b)
        PROVE Under
    <3>1. [kind |-> q.kind, req |-> q.req, body |-> b] \in Answers
      BY <1>2, Unwrap DEF Calls, Answers
    <3>. QED BY <2>2, <3>1, Unwrap DEF Reply
  <2>3. ASSUME NEW a \in answers, a.kind = "delete", UNCHANGED asked,
               answers' = (answers \ {a}) \cup {[a EXCEPT !.body = b]}
        PROVE Under
    <3>1. [a EXCEPT !.body = b] \in Answers /\ [a EXCEPT !.body = b].body = b
      BY <1>2, <2>3, Unwrap DEF Answers
    <3>. QED BY <2>3, <3>1, Unwrap
  <2>. QED BY <2>1, <2>2, <2>3 DEF Lost, b
<1>4. \A a \in answers' : a \in answers \/ a.body.what = "error"
  BY <1>2, <1>3
<1>5. StepAnswers
  BY <1>2, <1>3 DEF StepAnswers, NewAnswer
<1>6. Typed'
  BY <1>1, <1>3, Unwrap, Wrap DEF server, page, history
<1>. QED BY <1>1, <1>4, <1>5, <1>6, ServerSame, FramesSame, ShownSame, ActsSame
         DEF Sums, PageSums, page

LEMMA ConnectSums ==
  ASSUME PageInv, Connect
  PROVE Sums /\ PageSums
<1>. Typed /\ ServerSound
  BY DEF PageInv, Typed
<1>1. /\ frames' = <<Identity>> /\ socket' = "open"
      /\ UNCHANGED <<server, post, asked, answers, page, history, counts>>
  BY DEF Connect, Identity
<1>2. Identity \in Frames
  BY DEF Identity, Frames
<1>3. frames' \in Seq(Frames) /\ DOMAIN frames' = {1} /\ frames'[1] = Identity
  BY <1>1, <1>2
<1>4. StepFrames
  BY <1>3 DEF StepFrames
<1>5. Typed'
  BY <1>1, <1>3, Unwrap, Wrap DEF server, page, history, counts
<1>. QED BY <1>1, <1>4, <1>5, ServerSame, AnswersSame, ShownSame, ActsSame
         DEF Sums, PageSums, page

LEMMA NoFrames == ASSUME frames' = <<>> PROVE frames' \in Seq(Frames) /\ StepFrames
  BY DEF StepFrames

LEMMA BreakSums ==
  ASSUME PageInv, Break
  PROVE Sums /\ PageSums
<1>. Typed /\ ServerSound
  BY DEF PageInv, Typed
<1>1. /\ socket' = "down" /\ frames' = <<>> /\ listed' = FALSE /\ ends' = ends + 1
      /\ UNCHANGED <<server, post, asked, answers, shown, call, act, history, losses, clicks>>
  BY DEF Break, Disconnect
<1>2. Typed'
  <2>1. frames' \in Seq(Frames) /\ ends' \in Nat /\ listed' \in BOOLEAN
    <3>1. ends \in Nat
      BY Unwrap
    <3>2. ends' \in Nat
      BY <1>1, <3>1
    <3>3. frames' \in Seq(Frames)
      BY <1>1, NoFrames
    <3>4. listed' \in BOOLEAN
      BY <1>1
    <3>. QED BY <3>2, <3>3, <3>4
  <2>. QED BY <1>1, <2>1, Unwrap, Wrap DEF server, history
<1>. QED BY <1>1, <1>2, NoFrames, ServerSame, AnswersSame, ShownSame, ActsSame
         DEF Sums, PageSums

LEMMA ReloadSums ==
  ASSUME PageInv, Reload
  PROVE Sums /\ PageSums
<1>. Typed /\ ServerSound
  BY DEF PageInv, Typed
<1>1. /\ socket' = "down" /\ frames' = <<>> /\ listed' = FALSE /\ ends' = ends + 1
      /\ shown' = [r \in Requests |-> NoEntry]
      /\ call' = [r \in Requests |-> IF call[r] = "idle" THEN "idle" ELSE "over"]
      /\ act' = [r \in Requests |-> NoAct]
      /\ asked' = {} /\ answers' = {}
      /\ UNCHANGED <<server, post, history, losses, clicks>>
  BY DEF Reload, Disconnect
<1>2. Typed'
  <2>1. frames' \in Seq(Frames) /\ ends' \in Nat /\ listed' \in BOOLEAN
    <3>1. ends \in Nat
      BY Unwrap
    <3>2. ends' \in Nat
      BY <1>1, <3>1
    <3>3. frames' \in Seq(Frames)
      BY <1>1, NoFrames
    <3>4. listed' \in BOOLEAN
      BY <1>1
    <3>. QED BY <3>2, <3>3, <3>4
  <2>. QED BY <1>1, <2>1, Unwrap, Wrap DEF server, history, NoAct
<1>3. ServerSound' /\ StepMoves
  BY <1>1, Unwrap DEF server, ServerSound, StepMoves, Moves
<1>4. StepAnswers /\ StepShown /\ StepActs
  BY <1>1 DEF StepAnswers, StepShown, StepActs, NoAct
<1>. QED BY <1>2, <1>3, <1>4, <1>1, NoFrames DEF Sums, PageSums

LEMMA RestartSums ==
  ASSUME PageInv, Restart
  PROVE Sums /\ PageSums
<1>. Typed /\ ServerSound
  BY DEF PageInv, Typed
<1>1. /\ socket' = "down" /\ frames' = <<>> /\ listed' = FALSE /\ ends' = ends + 1
      /\ post' = [r \in Requests |-> IF post[r] = "handling" THEN "over" ELSE post[r]]
      /\ UNCHANGED <<transmitted, dismissed, asked, answers, shown, call, act, history,
                     losses, clicks>>
  BY DEF Restart, Disconnect, Contract!Settle
<1>. DEFINE Left ==
       /\ status' \in [Requests -> {"unknown", "working"} \cup Settled]
       /\ \A r \in Requests : \/ status'[r] = status[r]
                              \/ /\ status[r] = "working"
                                 /\ status'[r] = "failed" => r \notin transmitted
                                 /\ status'[r] \in Settled
<1>2. Left
  <2>1. CASE UNCHANGED <<status, transmitted>>
    BY <2>1, Unwrap
  <2>2. ASSUME NEW U \in SUBSET Contract!Having("working"),
               Contract!Settle(Contract!Having("working") \ U, U)
        PROVE Left
    <3>1. /\ status' = [r \in Requests |->
                          IF r \in Contract!Having("working") \ U THEN "failed"
                          ELSE IF r \in U THEN "unconfirmed" ELSE status[r]]
          /\ (Contract!Having("working") \ U) \cap transmitted = {}
      BY <2>2 DEF Contract!Settle
    <3>2. \A r \in Contract!Having("working") : status[r] = "working"
      BY DEF Contract!Having
    <3>. QED BY <3>1, <3>2, Unwrap DEF Settled
  <2>. QED BY <2>1, <2>2 DEF Restart
<1>3. Typed'
  <2>1. frames' \in Seq(Frames) /\ ends' \in Nat /\ listed' \in BOOLEAN
    <3>1. ends \in Nat
      BY Unwrap
    <3>2. ends' \in Nat
      BY <1>1, <3>1
    <3>3. frames' \in Seq(Frames)
      BY <1>1, NoFrames
    <3>4. listed' \in BOOLEAN
      BY <1>1
    <3>. QED BY <3>2, <3>3, <3>4
  <2>. QED BY <1>1, <1>2, <2>1, Unwrap, Wrap DEF history
<1>4. ServerSound' /\ StepMoves
  BY <1>1, <1>2, Unwrap DEF ServerSound, StepMoves, Moves, Settled
<1>. QED BY <1>1, <1>3, <1>4, NoFrames, AnswersSame, ShownSame, ActsSame
         DEF Sums, PageSums

-----------------------------------------------------------------------------
(* The sums of every step, and what follows from them.                     *)

LEMMA ServerStepPage ==
  ASSUME ServerStep
  PROVE UNCHANGED <<socket, page, history, counts>>
  BY DEF ServerStep, PostArrives, Transmits, Settles, Confirms, PostAnswers, StatusAnswers,
         DismissAnswers, ListAnswers, net

LEMMA StepSums ==
  ASSUME PageInv, Next
  PROVE Sums /\ PageSums
<1>1. CASE ServerStep
  <2>1. PageSums
    BY <1>1, ServerStepPage, ShownSame, ActsSame DEF page, PageSums
  <2>2. Sums
    BY <1>1, PostArrivesSums, TransmitsSums, SettlesSums, ConfirmsSums, PostAnswersSums,
       StatusAnswersSums, DismissAnswersSums, ListAnswersSums DEF ServerStep
  <2>. QED BY <2>1, <2>2
<1>2. CASE PageStep
  BY <1>2, FrameSums, DeliveredSums DEF PageStep
<1>3. CASE UserStep
  BY <1>3, ComposeSums, ClickSums DEF UserStep
<1>4. CASE \E r \in Requests : FeedShows(r)
  BY <1>4, FeedShowsSums
<1>5. CASE Lost \/ Connect \/ Break \/ Reload \/ Restart
  BY <1>5, LostSums, ConnectSums, BreakSums, ReloadSums, RestartSums
<1>. QED BY <1>1, <1>2, <1>3, <1>4, <1>5 DEF Next

LEMMA CurrentStays ==
  ASSUME NEW r \in Requests, Moves(r), NEW e, Current(status[r], e)
  PROVE Current(status'[r], e)
  BY DEF Moves, Current, Settled

LEMMA BelievableStays ==
  ASSUME NEW r \in Requests, Moves(r), NEW e, Believable(status[r], post[r], e)
  PROVE Believable(status'[r], post'[r], e)
  BY DEF Moves, Believable, Refused, Settled

LEMMA RefusedStays ==
  ASSUME NEW r \in Requests, Moves(r), Refused(status[r], post[r])
  PROVE Refused(status'[r], post'[r])
  BY DEF Moves, Refused

LEMMA DeadStays ==
  ASSUME NEW r \in Requests, Moves(r), Dead(status[r], post[r])
  PROVE Dead(status'[r], post'[r])
  BY RefusedStays DEF Moves, Dead, Refused, Settled

\* A row is sent as it is.
LEMMA RowNow ==
  ASSUME NEW r
  PROVE /\ RowEntry(r)'.state = status'[r] /\ ~RowEntry(r)'.clientOnly
        /\ RowEntry(r)'.dismissed <=> r \in dismissed'
<1>1. RowEntry(r)' = [state |-> status'[r], dismissed |-> r \in dismissed', clientOnly |-> FALSE]
  BY DEF RowEntry
<1>2. [state |-> status'[r], dismissed |-> r \in dismissed', clientOnly |-> FALSE].dismissed
        = (r \in dismissed')
  BY Zenon
<1>3. RowEntry(r)'.dismissed = (r \in dismissed')
  BY <1>1, <1>2
<1>4. RowEntry(r)'.dismissed <=> r \in dismissed'
  BY <1>3, Zenon
<1>5. RowEntry(r)'.state = status'[r] /\ ~RowEntry(r)'.clientOnly
  BY <1>1
<1>. QED BY <1>4, <1>5

LEMMA RowCurrent ==
  ASSUME Sums, NEW r \in Requests, status'[r] # "unknown"
  PROVE Current(status'[r], RowEntry(r)')
<1>1. status'[r] \in {"unknown", "working"} \cup Settled /\ (r \in dismissed' => status'[r] \in Settled)
  BY DEF Sums, Typed, TypeOK, Contract!ContractTypeOK, Contract!Statuses, ServerSound, Settled
<1>2. RowEntry(r)' \in Entry
  BY <1>1 DEF RowEntry, Entry
<1>. QED BY <1>1, <1>2, RowNow DEF Current, Settled

LEMMA StepFramesCurrent ==
  ASSUME PageInv, Sums
  PROVE FramesCurrent'
<1>. SUFFICES ASSUME NEW i \in DOMAIN frames', frames'[i].req # "identity"
              PROVE Current(status'[frames'[i].req], frames'[i].entry)
  BY DEF FramesCurrent
<1>. Typed
  BY DEF PageInv, Typed
<1>1. CASE \E j \in DOMAIN frames : frames'[i] = frames[j]
  <2>1. PICK j \in DOMAIN frames : frames'[i] = frames[j]
    BY <1>1
  <2>2. frames[j].req \in Requests
    BY <2>1, FrameFacts DEF Frames
  <2>3. Current(status[frames[j].req], frames[j].entry)
    BY <2>1 DEF PageInv, FramesCurrent
  <2>. QED BY <2>1, <2>2, <2>3, CurrentStays DEF Sums, StepMoves
<1>2. CASE frames'[i] = Identity
  BY <1>2 DEF Identity
<1>3. ASSUME NEW r \in Requests, status'[r] # "unknown",
             frames'[i] = [req |-> r, entry |-> RowEntry(r)']
      PROVE Current(status'[frames'[i].req], frames'[i].entry)
  BY <1>3, RowCurrent
<1>. QED BY <1>1, <1>2, <1>3 DEF Sums, StepFrames

LEMMA StepAnswersCurrent ==
  ASSUME PageInv, Sums
  PROVE AnswersCurrent'
<1>. Typed
  BY DEF PageInv, Typed
<1>. SUFFICES ASSUME NEW a \in answers'
              PROVE /\ \A r \in DOMAIN a.body.rows : Current(status'[r], a.body.rows[r])
                    /\ a.body.what = "refused" => Refused(status'[a.req], post'[a.req])
                    /\ a.kind # "post" => a.body.what # "refused"
                    /\ a.kind = "delete" /\ a.body.what = "rows" =>
                         /\ DOMAIN a.body.rows = {a.req} /\ a.body.rows[a.req].dismissed
                         /\ a.req \in dismissed'
  BY DEF AnswersCurrent
<1>1. CASE a \in answers
  <2>1. \A r \in DOMAIN a.body.rows : r \in Requests /\ Current(status[r], a.body.rows[r])
    BY <1>1, ArrivingRows DEF PageInv, AnswersCurrent
  <2>2. \A r \in DOMAIN a.body.rows : Current(status'[r], a.body.rows[r])
    BY <2>1, CurrentStays DEF Sums, StepMoves
  <2>3. a.body.what = "refused" =>
          a.kind = "post" /\ a.req \in Requests /\ Refused(status[a.req], post[a.req])
    BY <1>1, AnswerKinds DEF PageInv, AnswersCurrent
  <2>4. a.body.what = "refused" => Refused(status'[a.req], post'[a.req])
    BY <2>3, RefusedStays DEF Sums, StepMoves
  <2>5. a.kind = "delete" /\ a.body.what = "rows" =>
          /\ DOMAIN a.body.rows = {a.req} /\ a.body.rows[a.req].dismissed
          /\ a.req \in dismissed /\ a.req \in Requests
    BY <1>1, AnswerKinds DEF PageInv, AnswersCurrent
  <2>. QED BY <2>2, <2>3, <2>4, <2>5 DEF Sums, StepMoves, Moves
<1>2. CASE NewAnswer(a)
  <2>1. a \in Answers
    BY DEF Sums, Typed, NetOK, Answers
  <2>2. DOMAIN a.body.rows \subseteq Requests
    BY <2>1, BodyRows DEF Answers
  <2>3. \A r \in DOMAIN a.body.rows : Current(status'[r], a.body.rows[r])
    BY <1>2, <2>2, RowCurrent DEF NewAnswer
  <2>4. a.kind = "delete" /\ a.body.what = "rows" =>
          DOMAIN a.body.rows = {a.req} /\ a.req \in dismissed'
          /\ a.body.rows[a.req] = RowEntry(a.req)'
    BY <1>2 DEF NewAnswer
  <2>5. a.kind = "delete" /\ a.body.what = "rows" => a.body.rows[a.req].dismissed
    BY <2>4, RowNow
  <2>. QED BY <1>2, <2>3, <2>4, <2>5 DEF NewAnswer, Refused
<1>. QED BY <1>1, <1>2 DEF Sums, StepAnswers

LEMMA StepShownBelievable ==
  ASSUME PageInv, Sums, StepShown
  PROVE ShownBelievable'
<1>. Typed
  BY DEF PageInv, Typed
<1>. SUFFICES ASSUME NEW r \in Requests, shown'[r] # NoEntry
              PROVE Believable(status'[r], post'[r], shown'[r]) /\ post'[r] # "idle"
  BY DEF ShownBelievable
<1>0. Moves(r)
  BY DEF Sums, StepMoves
<1>1. CASE shown'[r] = shown[r]
  BY <1>0, <1>1, BelievableStays DEF PageInv, ShownBelievable, Moves
<1>2. ASSUME NEW e \in Entry, Arrives(r, e), shown'[r] = mergeOutgoing(shown[r], e)
      PROVE Believable(status'[r], post'[r], shown'[r]) /\ post'[r] # "idle"
  <2>1. Believable(status[r], post[r], e) /\ post[r] # "idle"
    BY <1>2 DEF Arrives
  <2>2. shown[r] \in Entry \cup {NoEntry}
    BY Unwrap
  <2>3. shown[r] # NoEntry => Believable(status[r], post[r], shown[r])
    BY DEF PageInv, ShownBelievable
  <2>4. /\ shown'[r] \in Entry
        /\ \/ /\ shown[r] # NoEntry /\ shown'[r].state = shown[r].state
              /\ shown'[r].clientOnly = shown[r].clientOnly
           \/ shown'[r].state = e.state /\ shown'[r].clientOnly = e.clientOnly
    BY <1>2, <2>2, MergeFacts
  <2>5. Believable(status[r], post[r], shown'[r])
    BY <2>1, <2>3, <2>4 DEF Believable
  <2>. QED BY <1>0, <2>1, <2>5, BelievableStays DEF Moves
<1>. QED BY <1>1, <1>2 DEF StepShown

LEMMA StepActsBelievable ==
  ASSUME PageInv, Sums, StepActs
  PROVE ActsBelievable'
<1>. Typed /\ ServerSound
  BY DEF PageInv, Typed
<1>. SUFFICES ASSUME NEW r \in Requests, act'[r].kind # "none"
              PROVE /\ Believable(status'[r], post'[r], act'[r].entry) /\ post'[r] # "idle"
                    /\ act'[r].kind \in {"deleting", "resending"} =>
                         act'[r].entry.state \in {"failed", "unconfirmed"} /\ call'[r] = "over"
  BY DEF ActsBelievable
<1>0. Moves(r)
  BY DEF Sums, StepMoves
<1>1. CASE act'[r] = act[r]
  BY <1>0, <1>1, BelievableStays DEF PageInv, ActsBelievable, Moves
<1>2. CASE /\ act'[r].entry = shown[r] /\ shown[r] # NoEntry /\ ~shown[r].dismissed
           /\ act'[r].kind \in {"deleting", "resending"} =>
                shown[r].state \in {"failed", "unconfirmed"} /\ call[r] \in {"idle", "over"}
  <2>1. Believable(status[r], post[r], shown[r]) /\ post[r] # "idle"
    BY <1>2 DEF PageInv, ShownBelievable
  <2>2. call[r] # "idle"
    BY <2>1 DEF ServerSound
  <2>. QED BY <1>0, <1>2, <2>1, <2>2, BelievableStays DEF Moves
<1>. QED BY <1>1, <1>2 DEF StepActs

-----------------------------------------------------------------------------
(* What is closed stays closed.                                            *)

\* Of a closed request only dismissed rows are sent.
LEMMA ClosedRows ==
  ASSUME PageInv, Sums, NEW r \in Requests, Closed(r), status'[r] # "unknown"
  PROVE RowEntry(r)'.dismissed
<1>1. Moves(r)
  BY DEF Sums, StepMoves
<1>2. r \in dismissed
  BY <1>1, RefusedStays DEF Closed, Refused
<1>. QED BY <1>1, <1>2, RowNow DEF Moves

LEMMA ClosedStays ==
  ASSUME PageInv, Sums, PageSums, NEW r \in Requests, Closed(r)
  PROVE Closed(r)'
<1>. Typed
  BY DEF PageInv, Typed
<1>0. Moves(r)
  BY DEF Sums, StepMoves
<1>1. call'[r] = "over" /\ (r \in dismissed' \/ Refused(status'[r], post'[r]))
  BY <1>0, RefusedStays DEF Closed, Moves
<1>2. act'[r].kind # "resending"
  <2>1. shown[r] # NoEntry => shown[r].dismissed \/ shown[r].state = "confirmed"
    BY DEF Closed, Hidden
  <2>. QED BY <2>1 DEF PageSums, StepActs, Closed
<1>3. CASE shown[r] # NoEntry
  <2>1. shown[r].dismissed \/ shown[r].state = "confirmed"
    BY <1>3 DEF Closed, Hidden
  <2>2. CASE shown'[r] = shown[r]
    BY <1>1, <1>2, <1>3, <2>1, <2>2 DEF Closed, Hidden
  <2>3. ASSUME NEW e \in Entry, shown'[r] = mergeOutgoing(shown[r], e)
        PROVE Closed(r)'
    <3>1. shown'[r] \in Entry /\ (shown'[r].dismissed \/ shown'[r].state = "confirmed")
      BY <2>1, <2>3, MergeFacts, Unwrap
    <3>2. shown'[r] # NoEntry
      BY <3>1, EntryFields
    <3>. QED BY <1>1, <1>2, <3>1, <3>2 DEF Closed, Hidden
  <2>4. CASE shown'[r] = NoEntry /\ frames' = <<>> /\ answers' = {}
    BY <1>1, <1>2, <2>4 DEF Closed, Hidden
  <2>. QED BY <2>2, <2>3, <2>4 DEF PageSums, StepShown
<1>4. CASE shown[r] = NoEntry
  <2>1. /\ \A i \in DOMAIN frames : frames[i].req = r => frames[i].entry.dismissed
        /\ \A a \in answers : r \in DOMAIN a.body.rows => a.body.rows[r].dismissed
    BY <1>4 DEF Closed, Hidden
  <2>2. CASE shown'[r] = shown[r]
    <3>1. ASSUME NEW i \in DOMAIN frames', frames'[i].req = r
          PROVE frames'[i].entry.dismissed
      <4>1. CASE \E j \in DOMAIN frames : frames'[i] = frames[j]
        BY <2>1, <3>1, <4>1
      <4>2. CASE frames'[i] = Identity
        BY <3>1, <4>2, RequestsAssumption DEF Identity
      <4>3. ASSUME NEW q \in Requests, status'[q] # "unknown",
                   frames'[i] = [req |-> q, entry |-> RowEntry(q)']
            PROVE frames'[i].entry.dismissed
        <5>1. q = r /\ frames'[i].entry = RowEntry(q)'
          BY <3>1, <4>3
        <5>. QED BY <4>3, <5>1, ClosedRows
      <4>. QED BY <4>1, <4>2, <4>3 DEF Sums, StepFrames
    <3>2. ASSUME NEW a \in answers', r \in DOMAIN a.body.rows
          PROVE a.body.rows[r].dismissed
      BY <2>1, <3>2, ClosedRows DEF Sums, StepAnswers, NewAnswer
    <3>. QED BY <1>1, <1>2, <1>4, <2>2, <3>1, <3>2 DEF Closed, Hidden
  <2>3. ASSUME NEW e \in Entry, Arrives(r, e), shown'[r] = mergeOutgoing(shown[r], e)
        PROVE Closed(r)'
    <3>1. shown'[r] = e /\ e.dismissed /\ e # NoEntry
      BY <1>4, <2>3, MergeFacts, EntryFields DEF Arrives
    <3>. QED BY <1>1, <1>2, <3>1 DEF Closed, Hidden
  <2>4. CASE shown'[r] = NoEntry /\ frames' = <<>> /\ answers' = {}
    BY <1>1, <1>2, <2>4 DEF Closed, Hidden
  <2>. QED BY <2>2, <2>3, <2>4 DEF PageSums, StepShown
<1>. QED BY <1>3, <1>4

\* A request whose row is deleted, or that was refused, is closed by that.
LEMMA DeleteCloses ==
  ASSUME PageInv, NEW a \in answers, a.kind = "delete", DeleteAnswered(a.req, a.body),
         answers' = answers \ {a}, UNCHANGED <<server, socket, frames, counts>>,
         OwnGone(a) \/ a.body.what = "rows",
         ~OwnGone(a) \/ Refused(status[a.req], post[a.req])
  PROVE a.req \in Requests /\ Closed(a.req)'
<1>. Typed
  BY DEF PageInv, Typed
<1>. DEFINE r == a.req
<1>0. Sums
  BY DeleteAnsweredSums
<1>1. PICK gone :
        /\ gone = IF OwnGone(a) THEN One(r, [act[r].entry EXCEPT !.dismissed = TRUE])
                                ELSE a.body.rows
        /\ Take(gone)
  BY DeleteCases
<1>2. /\ r \in Requests /\ {r} \in SUBSET Requests /\ gone \in [{r} -> Entry]
      /\ gone[r].dismissed /\ gone[r].state # "working"
      /\ ~OwnGone(a) => r \in dismissed
  BY <1>1, GoneRow, DeleteCases
<1>3. shown'[r] = mergeOutgoing(shown[r], gone[r])
  <2>1. PICK S \in SUBSET Requests : S = {r} /\ gone \in [S -> Entry]
    BY <1>2
  <2>2. \A q \in Requests : shown'[q] = IF q \in S THEN mergeOutgoing(shown[q], gone[q])
                                                   ELSE shown[q]
    <3>1. Take(gone)
      BY <1>1
    <3>. QED BY <2>1, <3>1, Taken
  <2>. QED BY <1>2, <2>1, <2>2
<1>4. shown'[r] \in Entry /\ (shown'[r].dismissed \/ shown'[r].state = "confirmed")
  <2>1. shown[r] \in Entry \cup {NoEntry} /\ gone[r] \in Entry
    BY <1>2, Unwrap
  <2>. QED BY <1>2, <1>3, <2>1, MergeFacts
<1>5. shown'[r] # NoEntry
  BY <1>4, EntryFields
<1>6. Moves(r) /\ call[r] = "over"
  BY <1>0, <1>2, DeleteCases DEF Sums, StepMoves, PageInv, ActsBelievable
<1>7. act'[r].kind = "none"
  BY <1>2, DeleteCases, ActOver
<1>. QED BY <1>2, <1>4, <1>5, <1>6, <1>7, RefusedStays DEF Closed, Hidden, Moves

\* What is posted and what is remembered of it change in two places only.
LEMMA OnlyThere ==
  ASSUME PageInv, Next, \A r \in Requests : ~Compose(r),
         \A a \in answers : ~(a.kind = "delete" /\ Delivered(a))
  PROVE UNCHANGED history /\ \A r \in Requests : post[r] = "idle" => post'[r] = "idle"
<1>. Typed
  BY DEF PageInv, Typed
<1>1. CASE ServerStep
  <2>1. UNCHANGED history
    BY <1>1, ServerStepPage
  <2>2. ASSUME NEW r \in Requests, post[r] = "idle" PROVE post'[r] = "idle"
    <3>1. CASE \E q \in Requests : PostArrives(q)
      BY <2>2, <3>1, Unwrap DEF PostArrives
    <3>2. CASE \E q \in Requests : PostAnswers(q)
      BY <2>2, <3>2, Unwrap DEF PostAnswers
    <3>3. CASE UNCHANGED post
      BY <2>2, <3>3
    <3>. QED BY <1>1, <3>1, <3>2, <3>3
             DEF ServerStep, Transmits, Settles, Confirms, StatusAnswers, DismissAnswers,
                 ListAnswers
  <2>. QED BY <2>1, <2>2
<1>2. CASE PageStep
  BY <1>2 DEF PageStep, Frame, Delivered, PostAnswered, StatusAnswered, CheckAnswered,
              ListAnswered
<1>3. CASE UserStep
  BY <1>3 DEF UserStep, Click
<1>4. CASE (\E r \in Requests : FeedShows(r)) \/ Lost \/ Connect \/ Break \/ Reload
  BY <1>4 DEF FeedShows, Lost, Connect, Break, Reload
<1>5. CASE Restart
  BY <1>5, Unwrap DEF Restart
<1>. QED BY <1>1, <1>2, <1>3, <1>4, <1>5 DEF Next

LEMMA OpenOnlyPosted ==
  ASSUME PageInv, Sums, PageSums
  PROVE \A r \in Open' : r \in Open \/ post[r] = "idle"
<1>. SUFFICES ASSUME NEW r \in Open', r \notin Open, post[r] # "idle" PROVE FALSE
  OBVIOUS
<1>1. r \in Requests /\ ~(Dead(status'[r], post'[r]) /\ Closed(r)')
  BY DEF Open, Posted
<1>2. Dead(status[r], post[r]) /\ Closed(r)
  BY <1>1 DEF Open, Posted
<1>. QED BY <1>1, <1>2, DeadStays, ClosedStays DEF Sums, StepMoves

LEMMA Postings ==
  ASSUME NEW r \in Requests, Submit(r), Typed
  PROVE Posted' = Posted \cup {r}
  BY Unwrap DEF Posted, Submit

LEMMA StepHidCounted ==
  ASSUME PageInv, Next
  PROVE HidClosed' /\ OpenCounted'
<1>. Typed
  BY DEF PageInv, Typed
<1>0. Sums /\ PageSums
  BY StepSums
<1>a. \A r \in hid : Closed(r)'
  BY <1>0, ClosedStays, Unwrap DEF PageInv, HidClosed
<1>b. IsFiniteSet(Posted) /\ warned \subseteq Posted /\ Cardinality(Open) <= 1 + Cardinality(warned)
  BY DEF PageInv, OpenCounted
<1>c. Open \subseteq Posted /\ IsFiniteSet(Open) /\ IsFiniteSet(warned)
      /\ Cardinality(Open) \in Nat /\ Cardinality(warned) \in Nat
  BY <1>b, FS_Subset, FS_CardinalityType DEF Open
<1>1. CASE /\ \A r \in Requests : ~Compose(r)
           /\ \A a \in answers : ~(a.kind = "delete" /\ Delivered(a))
  <2>1. UNCHANGED history /\ \A r \in Requests : post[r] = "idle" => post'[r] = "idle"
    BY <1>1, OnlyThere
  <2>2. Posted' = Posted
    BY <1>0, <2>1 DEF Posted, Sums, StepMoves, Moves
  <2>3. Open' \subseteq Open
    BY <1>0, <2>1, OpenOnlyPosted DEF Open, Posted
  <2>4. Cardinality(Open') <= Cardinality(Open) /\ Cardinality(Open') \in Nat
    BY <1>c, <2>3, FS_Subset, FS_CardinalityType
  <2>. QED BY <1>a, <1>b, <1>c, <2>1, <2>2, <2>4 DEF HidClosed, OpenCounted, history
<1>2. ASSUME NEW r \in Requests, Compose(r)
      PROVE HidClosed' /\ OpenCounted'
  <2>1. Submit(r) /\ UNCHANGED history /\ Posted = {}
    BY <1>2 DEF Compose, Posted
  <2>2. Posted' = {r} /\ warned = {}
    BY <1>b, <2>1, Postings
  <2>3. Open' \subseteq {r}
    BY <2>2 DEF Open
  <2>4. IsFiniteSet({r}) /\ Cardinality({r}) = 1 /\ IsFiniteSet({}) /\ Cardinality({}) = 0
    BY FS_Singleton, FS_EmptySet
  <2>5. Cardinality(Open') <= 1
    BY <2>3, <2>4, FS_Subset
  <2>. QED BY <1>a, <2>1, <2>2, <2>4, <2>5 DEF HidClosed, OpenCounted, history
<1>3. ASSUME NEW a \in answers, a.kind = "delete", Delivered(a)
      PROVE HidClosed' /\ OpenCounted'
  <2>. DEFINE r == a.req
  <2>1. /\ DeleteAnswered(r, a.body) /\ answers' = answers \ {a}
        /\ UNCHANGED <<server, socket, frames, counts>>
    BY <1>3 DEF Delivered
  <2>2. CASE UNCHANGED <<call, post, warned, hid>>
    <3>1. Posted' = Posted
      BY <2>2 DEF Posted
    <3>2. Open' \subseteq Open
      BY <1>0, <3>1, OpenOnlyPosted DEF Open, Posted
    <3>3. Cardinality(Open') <= Cardinality(Open) /\ Cardinality(Open') \in Nat
      BY <1>c, <3>2, FS_Subset, FS_CardinalityType
    <3>. QED BY <1>a, <1>b, <1>c, <2>2, <3>1, <3>3 DEF HidClosed, OpenCounted
  <2>3. CASE OwnGone(a) \/ a.body.what = "rows"
    <3>1. hid' = IF OwnGone(a) THEN hid ELSE hid \cup {r}
      BY <2>1, <2>3, DeleteCases
    <3>2. HidClosed'
      BY <1>3, <1>a, <2>1, <2>3, <3>1, DeleteCloses DEF HidClosed
    <3>3. CASE UNCHANGED <<call, post, warned>>
      <4>1. Posted' = Posted
        BY <3>3 DEF Posted
      <4>2. Open' \subseteq Open
        BY <1>0, <4>1, OpenOnlyPosted DEF Open, Posted
      <4>3. Cardinality(Open') <= Cardinality(Open) /\ Cardinality(Open') \in Nat
        BY <1>c, <4>2, FS_Subset, FS_CardinalityType
      <4>. QED BY <1>b, <1>c, <3>2, <3>3, <4>1, <4>3 DEF OpenCounted
    <3>4. ASSUME NEW q \in Unused, Submit(q), act[r].kind = "resending",
                 warned' = IF act[r].entry.state = "unconfirmed" THEN warned \cup {q}
                                                                 ELSE warned
          PROVE OpenCounted'
      <4>1. q \in Requests /\ q \notin Posted /\ q \notin warned /\ Posted' = Posted \cup {q}
        BY <1>b, <3>4, Postings DEF Unused, Posted
      <4>2. IsFiniteSet(Posted') /\ warned' \subseteq Posted'
        BY <1>b, <3>4, <4>1, FS_AddElement
      <4>3. Open' \subseteq Open \cup {q}
        BY <1>0, <4>1, OpenOnlyPosted DEF Open, Posted
      <4>4. CASE act[r].entry.state = "unconfirmed"
        <5>1. /\ IsFiniteSet(Open \cup {q})
              /\ Cardinality(Open \cup {q}) <= Cardinality(Open) + 1
              /\ Cardinality(warned') = Cardinality(warned) + 1
          <6>1. warned' = warned \cup {q}
            BY <3>4, <4>4
          <6>2. Cardinality(warned \cup {q}) = Cardinality(warned) + 1
            BY <1>c, <4>1, FS_AddElement
          <6>3. /\ IsFiniteSet(Open \cup {q})
                /\ Cardinality(Open \cup {q}) \in {Cardinality(Open), Cardinality(Open) + 1}
            BY <1>c, FS_AddElement
          <6>. QED BY <1>c, <6>1, <6>2, <6>3
        <5>2. Cardinality(Open') <= Cardinality(Open \cup {q}) /\ IsFiniteSet(Open')
          BY <4>3, <5>1, FS_Subset
        <5>. QED BY <1>b, <1>c, <4>2, <5>1, <5>2, FS_CardinalityType DEF OpenCounted
      <4>5. CASE act[r].entry.state = "failed"
        <5>1. r \in Requests
          BY <1>3, AnswerKinds
        <5>2. Believable(status[r], post[r], act[r].entry) /\ post[r] # "idle"
          BY <3>4, <5>1 DEF PageInv, ActsBelievable
        <5>3. Dead(status[r], post[r]) /\ (OwnGone(a) => Refused(status[r], post[r]))
          BY <4>5, <5>2 DEF Believable, Dead, OwnGone
        <5>4. Closed(r)'
          BY <1>3, <2>1, <2>3, <5>3, DeleteCloses
        <5>5. r \notin Open'
          BY <1>0, <5>1, <5>3, <5>4, DeadStays DEF Open, Sums, StepMoves
        <5>6. r \in Open
          BY <3>4, <5>1, <5>2 DEF Open, Posted, Closed
        <5>7. Open' \subseteq (Open \ {r}) \cup {q}
          BY <4>3, <5>5
        <5>8. /\ IsFiniteSet(Open \ {r}) /\ Cardinality(Open \ {r}) = Cardinality(Open) - 1
          BY <1>c, <5>6, FS_RemoveElement
        <5>9. /\ IsFiniteSet((Open \ {r}) \cup {q})
              /\ Cardinality((Open \ {r}) \cup {q}) <= Cardinality(Open)
          <6>1. /\ IsFiniteSet((Open \ {r}) \cup {q})
                /\ Cardinality((Open \ {r}) \cup {q})
                     \in {Cardinality(Open \ {r}), Cardinality(Open \ {r}) + 1}
            BY <5>8, FS_AddElement
          <6>. QED BY <1>c, <5>8, <6>1
        <5>10. Cardinality(Open') <= Cardinality((Open \ {r}) \cup {q}) /\ IsFiniteSet(Open')
          BY <5>7, <5>9, FS_Subset
        <5>. QED BY <1>b, <1>c, <3>4, <4>2, <4>5, <5>9, <5>10, FS_CardinalityType
                 DEF OpenCounted
      <4>. QED BY <1>3, <3>4, <4>4, <4>5, AnswerKinds DEF PageInv, ActsBelievable
    <3>. QED BY <2>1, <2>3, <3>2, <3>3, <3>4, DeleteCases
  <2>. QED BY <2>1, <2>2, <2>3, DeleteCases
<1>. QED BY <1>1, <1>2, <1>3

-----------------------------------------------------------------------------
(* What a connected page has been told.                                    *)

Seen(r) == shown[r].dismissed \/ shown[r].state = status[r]

\* What a step does to it while the connection lasts.
TellsStep ==
  /\ ends' = ends
  /\ socket' = "down" => socket = "down" /\ frames' = frames
  /\ socket = "down" => socket' = "down"
  /\ \A q \in asked' : q \in asked \/ q.kind # "list" \/ (q = List /\ socket # "down")
  /\ \A a \in answers' :
       \/ a \in answers
       \/ a.kind # "list"
       \/ /\ \E q \in asked : q.kind = "list" /\ a.req = q.req
          /\ a.body.what = "rows" => \A r \in Due' : Tells(a, r)'
  /\ socket # "down" =>
       \A r \in Due' : Told(r)' \/ (r \in Due /\ status'[r] = status[r] /\ ~Told(r))
  /\ listed' => listed \/ (socket # "down" /\ \A r \in Due' : Told(r)')

LEMMA TellsKept ==
  ASSUME PageInv, TellsStep
  PROVE ListsTell'
<1>. Typed
  BY DEF PageInv, Typed
<1>. ListsTell
  BY DEF PageInv
<1>1. (socket = "down" => frames = <<>>)'
  BY DEF TellsStep, ListsTell
<1>2. ASSUME NEW q \in asked', q.kind = "list"
      PROVE q.req <= ends' /\ (q.req = ends' => socket' # "down")
  <2>1. CASE q \in asked
    BY <1>2, <2>1 DEF TellsStep, ListsTell
  <2>2. CASE q = List /\ socket # "down"
    BY <2>2, ListCalls, Unwrap DEF TellsStep
  <2>. QED BY <1>2, <2>1, <2>2 DEF TellsStep
<1>3. ASSUME NEW a \in answers', a.kind = "list"
      PROVE /\ a.req <= ends' /\ (a.req = ends' => socket' # "down")
            /\ a.req = ends' /\ a.body.what = "rows" => \A r \in Due' : Told(r)' \/ Tells(a, r)'
  <2>1. CASE a \in answers
    <3>1. /\ a.req <= ends /\ (a.req = ends => socket # "down")
          /\ a.req = ends /\ a.body.what = "rows" => \A r \in Due : Told(r) \/ Tells(a, r)
      BY <1>3, <2>1 DEF ListsTell
    <3>2. ASSUME a.req = ends, a.body.what = "rows", NEW r \in Due'
          PROVE Told(r)' \/ Tells(a, r)'
      <4>1. Told(r)' \/ (r \in Due /\ status'[r] = status[r] /\ ~Told(r))
        BY <3>1, <3>2 DEF TellsStep
      <4>2. CASE r \in Due /\ status'[r] = status[r] /\ ~Told(r)
        BY <3>1, <3>2, <4>2 DEF Tells
      <4>. QED BY <4>1, <4>2
    <3>. QED BY <3>1, <3>2 DEF TellsStep
  <2>2. CASE /\ \E q \in asked : q.kind = "list" /\ a.req = q.req
             /\ a.body.what = "rows" => \A r \in Due' : Tells(a, r)'
    BY <2>2 DEF TellsStep, ListsTell
  <2>. QED BY <1>3, <2>1, <2>2 DEF TellsStep
<1>4. (listed => socket # "down" /\ \A r \in Due : Told(r))'
  BY DEF TellsStep, ListsTell
<1>. QED BY <1>1, <1>2, <1>3, <1>4 DEF ListsTell

\* Another connection begins: nothing of the last one is believed to tell all.
LEMMA TellsAnew ==
  ASSUME PageInv, ends' = ends + 1, socket' = "down", frames' = <<>>, listed' = FALSE,
         asked' \subseteq asked, answers' \subseteq answers
  PROVE ListsTell'
<1>. Typed
  BY DEF PageInv, Typed
<1>1. ends \in Nat
  BY Unwrap
<1>2. \A q \in asked : q.kind = "list" => q.req \in Nat /\ q.req <= ends
  BY AskedKinds DEF PageInv, ListsTell
<1>3. \A a \in answers : a.kind = "list" => a.req \in Nat /\ a.req <= ends
  BY AnswerKinds DEF PageInv, ListsTell
<1>. QED BY <1>1, <1>2, <1>3 DEF ListsTell

LEMMA ConnectTells == ASSUME PageInv, Connect PROVE ListsTell'
<1>1. /\ socket = "down" /\ socket' = "open"
      /\ UNCHANGED <<asked, answers, listed, ends>>
  BY DEF Connect, page, counts
<1>2. ~listed /\ (\A q \in asked : q.kind = "list" => q.req <= ends)
      /\ (\A a \in answers : a.kind = "list" => a.req <= ends /\ a.req # ends)
  BY <1>1 DEF PageInv, ListsTell
<1>. QED BY <1>1, <1>2 DEF ListsTell

\* A step of the server tells of every state that it changes.
LEMMA ServerTells ==
  ASSUME PageInv, Sums, FramesKept, UNCHANGED <<ends, socket, shown, listed>>,
         socket = "down" => UNCHANGED frames, asked' \subseteq asked,
         \A r \in Requests : \/ status'[r] = status[r] \/ status'[r] \notin Settled
                             \/ socket # "down" => FrameTells(r)',
         \A a \in answers' : \/ a \in answers \/ a.kind # "list"
                             \/ /\ \E q \in asked : q.kind = "list" /\ a.req = q.req
                                /\ a.body.what = "rows" => \A r \in Due' : Tells(a, r)'
  PROVE ListsTell'
<1>. Typed
  BY DEF PageInv, Typed
<1>1. ASSUME socket # "down", NEW r \in Due'
      PROVE Told(r)' \/ (r \in Due /\ status'[r] = status[r] /\ ~Told(r))
  <2>1. r \in Requests /\ status'[r] \in Settled /\ r \notin dismissed'
    BY DEF Due
  <2>2. CASE FrameTells(r)'
    BY <2>2 DEF FrameTells, Told
  <2>3. CASE status'[r] = status[r]
    <3>1. r \in Due
      BY <2>1, <2>3 DEF Due, Sums, StepMoves, Moves
    <3>2. Told(r) => Told(r)'
      BY <2>3 DEF Told, FramesKept
    <3>. QED BY <2>3, <3>1, <3>2
  <2>. QED BY <1>1, <2>1, <2>2, <2>3
<1>2. TellsStep
  BY <1>1 DEF TellsStep
<1>. QED BY <1>2, TellsKept

LEMMA PublishDown == ASSUME NEW r, Publish(r), socket = "down" PROVE UNCHANGED frames
  BY DEF Publish

LEMMA ServerStepTells ==
  ASSUME PageInv, ServerStep
  PROVE ListsTell'
<1>. Typed
  BY DEF PageInv, Typed
<1>0. Sums /\ UNCHANGED <<ends, socket, shown, listed>>
  BY ServerStepPage, StepSums DEF Next, page, counts
<1>1. ASSUME NEW r \in Requests, PostArrives(r) PROVE ListsTell'
  <2>1. /\ FramesKept /\ (socket = "down" => UNCHANGED frames)
        /\ asked' = asked /\ (\A a \in answers' : a \in answers \/ a.kind = "post")
        /\ \A q \in Requests : status'[q] = status[q] \/ status'[q] = "working"
    <3>1. CASE UNCHANGED <<server, frames>>
      BY <1>1, <3>1, FramesSame, Unwrap DEF PostArrives, PostReply, Reply, server
    <3>2. CASE Contract!Accept(r)
      <4>1. status' = [status EXCEPT ![r] = "working"]
        BY <3>2 DEF Contract!Accept
      <4>2. /\ \A q \in Requests : status'[q] = status[q] \/ status'[q] = "working"
            /\ status'[r] # "unknown" /\ status' \in [Requests -> {"unknown", "working"} \cup Settled]
        BY <4>1, Unwrap
      <4>3. asked' = asked /\ (\A a \in answers' : a \in answers \/ a.kind = "post")
        BY <1>1 DEF PostArrives, PostReply, Reply
      <4>4. CASE Publish(r)
        BY <4>2, <4>3, <4>4, Published, PublishDown
      <4>5. CASE UNCHANGED frames
        BY <4>2, <4>3, <4>5, FramesSame
      <4>. QED BY <1>1, <3>1, <4>4, <4>5 DEF PostArrives
    <3>. QED BY <1>1, <3>1, <3>2 DEF PostArrives
  <2>2. \A q \in Requests : status'[q] = status[q] \/ status'[q] \notin Settled
    BY <2>1 DEF Settled
  <2>3. \A a \in answers' : a \in answers \/ a.kind # "list"
    BY <2>1
  <2>. QED BY <1>0, <2>1, <2>2, <2>3, ServerTells
<1>2. ASSUME NEW r \in Requests, Transmits(r) PROVE ListsTell'
  BY <1>0, <1>2, FramesSame, ServerTells DEF Transmits, Contract!Transmit, net
<1>3. ASSUME NEW r \in Requests, Settles(r) \/ Confirms(r) PROVE ListsTell'
  <2>1. /\ FramesKept /\ (socket # "down" => FrameTells(r)')
        /\ \A q \in Requests : q # r => status'[q] = status[q]
    BY <1>3, SettlesSums, ConfirmsSums
  <2>2. asked' = asked /\ answers' = answers /\ Publish(r)
    BY <1>3 DEF Settles, Confirms
  <2>. QED BY <1>0, <2>1, <2>2, PublishDown, ServerTells
<1>4. ASSUME NEW r \in Requests, PostAnswers(r) PROVE ListsTell'
  <2>1. UNCHANGED <<status, frames, asked>>
    BY <1>4 DEF PostAnswers, server
  <2>2. \A a \in answers' : a \in answers \/ a.kind # "list"
    BY <1>4 DEF PostAnswers, PostReply, Reply
  <2>. QED BY <1>0, <2>1, <2>2, FramesSame, ServerTells
<1>5. ASSUME NEW q \in asked, StatusAnswers(q) PROVE ListsTell'
  <2>1. UNCHANGED <<status, frames>> /\ asked' \subseteq asked
    BY <1>5 DEF StatusAnswers, server
  <2>2. \A a \in answers' : a \in answers \/ a.kind # "list"
    BY <1>5 DEF StatusAnswers, Reply
  <2>. QED BY <1>0, <2>1, <2>2, FramesSame, ServerTells
<1>6. ASSUME NEW q \in asked, DismissAnswers(q) PROVE ListsTell'
  <2>1. UNCHANGED status /\ asked' \subseteq asked /\ FramesKept
        /\ (socket = "down" => UNCHANGED frames)
    BY <1>6, DismissAnswersSums, PublishDown DEF DismissAnswers
  <2>2. \A a \in answers' : a \in answers \/ a.kind # "list"
    BY <1>6 DEF DismissAnswers, Reply
  <2>. QED BY <1>0, <2>1, <2>2, ServerTells
<1>7. ASSUME NEW q \in asked, ListAnswers(q) PROVE ListsTell'
  <2>1. q.kind = "list" /\ UNCHANGED <<status, dismissed, frames>> /\ asked' \subseteq asked
    BY <1>7 DEF ListAnswers, server
  <2>2. \A a \in answers' : \/ a \in answers
                            \/ (a.req = q.req /\ \A r \in Due : Tells(a, r))
    BY <1>7, ListAnswersSums
  <2>3. Due' = Due /\ \A a, r : Tells(a, r)' <=> Tells(a, r)
    BY <2>1 DEF Due, Tells
  <2>4. \A a \in answers' : \/ a \in answers \/ a.kind # "list"
                            \/ /\ \E x \in asked : x.kind = "list" /\ a.req = x.req
                               /\ a.body.what = "rows" => \A r \in Due' : Tells(a, r)'
    BY <2>1, <2>2, <2>3
  <2>. QED BY <1>0, <2>1, <2>4, FramesSame, ServerTells
<1>. QED BY <1>1, <1>2, <1>3, <1>4, <1>5, <1>6, <1>7 DEF ServerStep

\* What the page has seen of a settled request stays, and what tells it shows.
LEMMA SeenStays ==
  ASSUME PageInv, UNCHANGED server, NEW r \in Due, StepShown, socket' # "down", Seen(r)
  PROVE Seen(r)'
<1>. Typed
  BY DEF PageInv, Typed
<1>1. r \in Requests /\ status[r] \in Settled /\ status'[r] = status[r]
  BY DEF Due, server
<1>2. CASE shown'[r] = shown[r]
  BY <1>1, <1>2 DEF Seen
<1>3. ASSUME NEW e \in Entry, Arrives(r, e), shown'[r] = mergeOutgoing(shown[r], e)
      PROVE Seen(r)'
  <2>1. shown[r] \in Entry \cup {NoEntry}
    BY <1>1, Unwrap
  <2>2. CASE shown[r].dismissed
    BY <1>3, <2>1, <2>2, MergeFacts DEF Seen
  <2>3. CASE shown[r].state = status[r]
    <3>1. shown[r].state \in Settled
      BY <1>1, <2>3
    <3>2. /\ shown[r].state = "confirmed" => shown'[r].state = "confirmed"
          /\ e.state = "working" => shown'[r].state = shown[r].state
          /\ shown[r].state # "confirmed" /\ e.state # "working" => shown'[r].state = e.state
          /\ e.dismissed /\ e.state # "working" =>
               shown'[r].dismissed \/ shown'[r].state = "confirmed"
      BY <1>3, <2>1, <3>1, MergeFacts
    <3>3. \/ e.state \in {"working", status[r]} \/ status[r] = "confirmed"
          \/ e.dismissed /\ e.state # "working"
      BY <1>1, <1>3, <2>3 DEF Arrives
    <3>4. CASE shown[r].state = "confirmed"
      BY <1>1, <2>3, <3>2, <3>4 DEF Seen
    <3>5. CASE shown[r].state # "confirmed" /\ e.state \in {"working", status[r]}
      BY <1>1, <2>3, <3>2, <3>5 DEF Seen
    <3>6. CASE shown[r].state # "confirmed" /\ e.dismissed /\ e.state # "working"
      <4>1. e.state # "confirmed" \/ status[r] = "confirmed"
        BY <1>3 DEF Arrives, Believable
      <4>2. shown'[r].state = e.state
        BY <3>2, <3>6
      <4>. QED BY <1>1, <2>3, <3>2, <3>6, <4>1, <4>2 DEF Seen
    <3>. QED BY <2>3, <3>3, <3>4, <3>5, <3>6
  <2>. QED BY <2>2, <2>3 DEF Seen
<1>. QED BY <1>1, <1>2, <1>3 DEF StepShown

\* A row with the state of a settled request shows when it is taken in.
LEMMA TellingTaken ==
  ASSUME PageInv, UNCHANGED server, NEW r \in Due, NEW e \in Entry, e.state = status[r],
         shown'[r] = mergeOutgoing(shown[r], e)
  PROVE Seen(r)'
<1>. Typed
  BY DEF PageInv, Typed
<1>1. r \in Requests /\ status[r] \in Settled /\ status'[r] = status[r]
  BY DEF Due, server
<1>2. shown[r] \in Entry \cup {NoEntry} /\ e.state # "working"
  BY <1>1, Unwrap DEF Settled
<1>3. CASE shown[r].state # "confirmed"
  BY <1>1, <1>2, <1>3, MergeFacts DEF Seen
<1>4. CASE shown[r].state = "confirmed"
  <2>1. status[r] = "confirmed"
    BY <1>1, <1>2, <1>4, NoEntryFields DEF PageInv, ShownBelievable, Believable
  <2>. QED BY <1>1, <1>2, <1>4, <2>1, MergeFacts DEF Seen
<1>. QED BY <1>3, <1>4

LEMMA ToldIs == \A r : Told(r) <=> Seen(r) \/ FrameTells(r)
  BY DEF Told, Seen, FrameTells

\* A step of the page in which no frame is taken out.
LEMMA PageTells ==
  ASSUME PageInv, UNCHANGED <<server, socket, frames, ends>>, StepShown,
         \A q \in asked' : q \in asked \/ q.kind # "list" \/ (q = List /\ socket # "down"),
         \A a \in answers' : \/ a \in answers \/ a.kind # "list"
                             \/ /\ \E q \in asked : q.kind = "list" /\ a.req = q.req
                                /\ a.body.what # "rows",
         listed' => listed \/ (socket # "down" /\ \A r \in Due' : Told(r)')
  PROVE ListsTell'
<1>1. Due' = Due /\ (\A r : status'[r] = status[r]) /\ (\A r : FrameTells(r)' <=> FrameTells(r))
  BY DEF Due, server, FrameTells
<1>2. ASSUME socket # "down", NEW r \in Due
      PROVE Told(r)' \/ ~Told(r)
  <2>1. Seen(r) => Seen(r)'
    BY <1>2, SeenStays
  <2>2. FrameTells(r) => FrameTells(r)'
    BY <1>1
  <2>. QED BY <2>1, <2>2 DEF Told, Seen, FrameTells
<1>3. TellsStep
  BY <1>1, <1>2 DEF TellsStep
<1>. QED BY <1>3, TellsKept

LEMMA FrameStepTells ==
  ASSUME PageInv, Frame
  PROVE ListsTell'
<1>. Typed
  BY DEF PageInv, Typed
<1>0. StepShown /\ Sums
  BY FrameSums DEF PageSums
<1>1. /\ frames # <<>> /\ frames' = Tail(frames) /\ socket # "down"
      /\ UNCHANGED <<server, answers, listed, ends>>
  BY DEF Frame, PageInv, ListsTell, counts
<1>2. socket' # "down" /\ (\A q \in asked' : q \in asked \/ (q = List /\ socket # "down"))
  BY <1>1 DEF Frame, Asks, Refresh
<1>3. Due' = Due /\ (\A r : status'[r] = status[r])
  BY <1>1 DEF Due, server
<1>4. ASSUME NEW r \in Due, Told(r)
      PROVE Told(r)'
  <2>1. r \in Requests
    BY DEF Due
  <2>2. CASE Seen(r)
    BY <1>0, <1>1, <1>2, <2>2, SeenStays DEF Seen, Told
  <2>3. CASE FrameTells(r)
    <3>1. PICK i \in DOMAIN frames : frames[i].req = r /\ frames[i].entry.state = status[r]
      BY <2>3 DEF FrameTells
    <3>2. CASE i = 1
      <4>. DEFINE e == frames[1].entry
      <4>1. /\ Head(frames).req = r /\ Head(frames).entry = e /\ e.state = status[r]
            /\ r # "identity"
        BY <1>1, <2>1, <3>1, <3>2, HeadTail, RequestsAssumption
      <4>2. e \in Entry
        BY <3>1, <3>2, <4>1 DEF PageInv, FramesCurrent, Current
      <4>3. Take(One(r, e))
        BY <4>1 DEF Frame
      <4>. HIDE DEF e
      <4>4. One(r, e) \in [{r} -> Entry] /\ One(r, e)[r] = e /\ {r} \in SUBSET Requests
        BY <2>1, <4>2, OneEntry
      <4>5. shown'[r] = mergeOutgoing(shown[r], e)
        <5>1. \A q \in Requests : shown'[q] = IF q \in {r}
                                              THEN mergeOutgoing(shown[q], One(r, e)[q])
                                              ELSE shown[q]
          BY <4>3, <4>4, Taken
        <5>. QED BY <2>1, <4>4, <5>1
      <4>. QED BY <1>1, <4>1, <4>2, <4>5, TellingTaken DEF Seen, Told
    <3>3. CASE i # 1
      <4>1. i - 1 \in DOMAIN frames' /\ frames'[i - 1] = frames[i]
        BY <1>1, <3>1, <3>3, HeadTail, FrameFacts
      <4>. QED BY <1>3, <3>1, <4>1 DEF Told
    <3>. QED BY <3>2, <3>3
  <2>. QED BY <1>4, <2>2, <2>3, ToldIs
<1>5. TellsStep
  BY <1>1, <1>2, <1>3, <1>4 DEF TellsStep
<1>. QED BY <1>5, TellsKept

LEMMA DeliveredTells ==
  ASSUME PageInv, NEW a \in answers, Delivered(a)
  PROVE ListsTell'
<1>. Typed
  BY DEF PageInv, Typed
<1>0. StepShown
  BY DeliveredSums DEF PageSums
<1>1. answers' = answers \ {a} /\ UNCHANGED <<server, socket, frames, ends>>
  BY DEF Delivered, counts
<1>2. \A q \in asked' : q \in asked \/ q.kind # "list" \/ (q = List /\ socket # "down")
  <2>1. CASE a.kind = "post"
    BY <2>1 DEF Delivered, PostAnswered, Asks, Refresh
  <2>2. CASE a.kind = "status"
    BY <2>2 DEF Delivered, StatusAnswered, Asks, Refresh
  <2>3. CASE a.kind = "check"
    BY <2>3 DEF Delivered, CheckAnswered, Asks, Refresh
  <2>4. CASE a.kind = "delete"
    <3>1. DeleteAnswered(a.req, a.body)
      BY <2>4 DEF Delivered
    <3>2. (\E gone : asked' = asked \cup Asks(gone)) \/ asked' = asked \cup Refresh
      BY <3>1, DeleteCases
    <3>. QED BY <3>2 DEF Asks, Refresh
  <2>5. CASE a.kind = "list"
    BY <2>5 DEF Delivered, ListAnswered, Asks, Refresh
  <2>. QED BY <2>1, <2>2, <2>3, <2>4, <2>5, AnswerKinds
<1>3. listed' => listed \/ (socket # "down" /\ \A r \in Due' : Told(r)')
  <2>1. CASE a.kind # "list"
    BY <2>1, DeleteCases DEF Delivered, PostAnswered, StatusAnswered, CheckAnswered
  <2>2. CASE a.kind = "list" /\ listed' /\ ~listed
    <3>1. a.req = ends /\ a.body.what = "rows" /\ Take(a.body.rows)
      BY <2>2 DEF Delivered, ListAnswered, List
    <3>2. socket # "down" /\ \A r \in Due : Told(r) \/ Tells(a, r)
      BY <2>2, <3>1 DEF PageInv, ListsTell
    <3>3. ASSUME NEW r \in Due
          PROVE Told(r)'
      <4>1. CASE Seen(r)
        BY <1>0, <1>1, <3>2, <4>1, SeenStays DEF Seen, Told
      <4>2. CASE FrameTells(r)
        BY <1>1, <4>2 DEF FrameTells, Told, server
      <4>3. CASE Tells(a, r)
        <5>1. /\ r \in DOMAIN a.body.rows /\ a.body.rows[r].state = status[r] /\ r \in Requests
          BY <4>3 DEF Tells, Due
        <5>2. PICK rows : rows = a.body.rows
          OBVIOUS
        <5>3. PICK S \in SUBSET Requests : S = DOMAIN rows /\ rows \in [S -> Entry]
          BY <5>2, ArrivingRows
        <5>4. r \in S /\ rows[r].state = status[r] /\ Take(rows)
          BY <3>1, <5>1, <5>2, <5>3
        <5>5. shown'[r] = mergeOutgoing(shown[r], rows[r])
          <6>1. \A q \in Requests : shown'[q] = IF q \in S THEN mergeOutgoing(shown[q], rows[q])
                                                            ELSE shown[q]
            BY <5>3, <5>4, Taken
          <6>. QED BY <5>1, <5>4, <6>1
        <5>6. rows[r] \in Entry
          BY <5>3, <5>4
        <5>. QED BY <1>1, <5>1, <5>4, <5>5, <5>6, TellingTaken DEF Seen, Told
      <4>. QED BY <3>2, <4>1, <4>2, <4>3, ToldIs
    <3>4. Due' = Due
      BY <1>1 DEF Due, server
    <3>. QED BY <3>2, <3>3, <3>4
  <2>. QED BY <2>1, <2>2
<1>. QED BY <1>0, <1>1, <1>2, <1>3, PageTells

LEMMA StepListsTell ==
  ASSUME PageInv, Next
  PROVE ListsTell'
<1>. Typed
  BY DEF PageInv, Typed
<1>1. CASE ServerStep
  BY <1>1, ServerStepTells
<1>2. CASE PageStep
  BY <1>2, FrameStepTells, DeliveredTells DEF PageStep
<1>3. CASE UserStep
  <2>1. ASSUME NEW r \in Requests, Compose(r) PROVE ListsTell'
    BY <2>1, ShownSame, PageTells DEF Compose, net, counts
  <2>2. ASSUME NEW r \in Requests, NEW kind \in {"checking", "deleting", "resending"},
               Click(r, kind)
        PROVE ListsTell'
    <3>1. \A q \in asked' : q \in asked \/ q.kind # "list"
      BY <2>2 DEF Click
    <3>2. UNCHANGED <<server, answers, socket, frames, shown, listed, ends>>
      BY <2>2 DEF Click
    <3>. QED BY <3>1, <3>2, ShownSame, PageTells
  <2>. QED BY <1>3, <2>1, <2>2 DEF UserStep
<1>4. ASSUME NEW r \in Requests, FeedShows(r) PROVE ListsTell'
  <2>1. StepShown
    BY <1>4, FeedShowsSums DEF PageSums
  <2>2. UNCHANGED <<server, answers, socket, frames, listed, ends>>
    BY <1>4 DEF FeedShows, counts
  <2>3. \A q \in asked' : q \in asked \/ (q = List /\ socket # "down")
    BY <1>4 DEF FeedShows, Asks, Refresh
  <2>. QED BY <2>1, <2>2, <2>3, PageTells
<1>5. CASE Lost
  <2>1. UNCHANGED <<server, socket, frames, shown, listed, ends>> /\ asked' \subseteq asked
    BY <1>5 DEF Lost, page
  <2>2. \A a \in answers' : \/ a \in answers \/ a.kind # "list"
                            \/ /\ \E q \in asked : q.kind = "list" /\ a.req = q.req
                               /\ a.body.what # "rows"
    <3>. DEFINE b == Word("error")
                Known == \A a \in answers' : \/ a \in answers \/ a.kind # "list"
                                             \/ /\ \E q \in asked : q.kind = "list" /\ a.req = q.req
                                                /\ a.body.what # "rows"
    <3>1. b.what # "rows"
      BY WordsAreWords
    <3>. HIDE DEF b
    <3>2. ASSUME NEW r \in Requests, Reply("post", r, b) PROVE Known
      BY <3>2 DEF Reply
    <3>3. ASSUME NEW q \in asked, Reply(q.kind, q.req, b) PROVE Known
      <4>1. answers' = answers \cup {[kind |-> q.kind, req |-> q.req, body |-> b]}
        BY <3>3 DEF Reply
      <4>. QED BY <3>1, <4>1
    <3>4. ASSUME NEW a \in answers, a.kind = "delete",
                 answers' = (answers \ {a}) \cup {[a EXCEPT !.body = b]}
          PROVE Known
      <4>1. a \in Answers
        BY Unwrap
      <4>2. [a EXCEPT !.body = b].kind = "delete"
        BY <3>4, <4>1 DEF Answers
      <4>. QED BY <3>4, <4>2
    <3>. QED BY <1>5, <3>2, <3>3, <3>4 DEF Lost, b
  <2>. QED BY <2>1, <2>2, ShownSame, PageTells
<1>6. CASE Connect
  BY <1>6, ConnectTells
<1>7. CASE Break \/ Reload \/ Restart
  BY <1>7, TellsAnew DEF Break, Reload, Restart, Disconnect
<1>. QED BY <1>1, <1>2, <1>3, <1>4, <1>5, <1>6, <1>7 DEF Next

-----------------------------------------------------------------------------
(* The theorems.                                                           *)

LEMMA InitInv == Init => PageInv
<1>. SUFFICES ASSUME Init PROVE PageInv
  OBVIOUS
<1>. USE DEF Init, Contract!Init
<1>1. TypeOK
  BY DEF TypeOK, Contract!ContractTypeOK, Contract!Statuses
<1>2. NetOK
  BY DEF NetOK
<1>3. PageOK
  BY DEF PageOK, NoAct
<1>4. ServerSound /\ FramesCurrent /\ AnswersCurrent /\ ShownBelievable /\ HidClosed
  BY DEF ServerSound, FramesCurrent, AnswersCurrent, ShownBelievable, HidClosed
<1>5. ActsBelievable
  BY DEF ActsBelievable, NoAct
<1>6. OpenCounted
  <2>1. Posted = {} /\ Open = {}
    BY DEF Posted, Open
  <2>. QED BY <2>1, FS_EmptySet DEF OpenCounted
<1>7. ListsTell
  BY DEF ListsTell
<1>. QED BY <1>1, <1>2, <1>3, <1>4, <1>5, <1>6, <1>7 DEF PageInv

LEMMA StepInv == PageInv /\ Next => PageInv'
<1>. SUFFICES ASSUME PageInv, Next PROVE PageInv'
  OBVIOUS
<1>1. Sums /\ PageSums
  BY StepSums
<1>2. TypeOK' /\ NetOK' /\ PageOK' /\ ServerSound'
  BY <1>1 DEF Sums, Typed
<1>3. FramesCurrent' /\ AnswersCurrent'
  BY <1>1, StepFramesCurrent, StepAnswersCurrent
<1>4. ShownBelievable' /\ ActsBelievable'
  BY <1>1, StepShownBelievable, StepActsBelievable DEF PageSums
<1>5. HidClosed' /\ OpenCounted'
  BY StepHidCounted
<1>6. ListsTell'
  BY StepListsTell
<1>. QED BY <1>2, <1>3, <1>4, <1>5, <1>6 DEF PageInv

LEMMA StutterInv == PageInv /\ UNCHANGED vars => PageInv'
<1>. SUFFICES ASSUME PageInv, UNCHANGED vars PROVE PageInv'
  OBVIOUS
<1>. USE DEF vars, server, net, page, history, counts
<1>1. TypeOK' /\ NetOK' /\ PageOK' /\ ServerSound'
  BY DEF PageInv, TypeOK, NetOK, PageOK, ServerSound, Contract!ContractTypeOK
<1>2. FramesCurrent' /\ AnswersCurrent' /\ ShownBelievable' /\ ActsBelievable'
  BY DEF PageInv, FramesCurrent, AnswersCurrent, ShownBelievable, ActsBelievable
<1>3. \A r : Closed(r)' <=> Closed(r)
  BY DEF Closed, Hidden
<1>4. Open' = Open /\ Posted' = Posted
  BY <1>3 DEF Open, Posted
<1>5. HidClosed' /\ OpenCounted'
  BY <1>3, <1>4 DEF PageInv, HidClosed, OpenCounted
<1>6. ListsTell'
  BY DEF PageInv, ListsTell, Due, Told, Tells
<1>. QED BY <1>1, <1>2, <1>5, <1>6 DEF PageInv

\* The invariant of the page, its list, its socket and its server (Outgoing,
\* PageInv): +page.svelte, api.ts and what SendContract promises.
THEOREM PageInvariant == Spec => []PageInv
<1>1. PageInv /\ [Next]_vars => PageInv'
  BY StepInv, StutterInv
<1>. QED BY InitInv, <1>1, PTL DEF Spec

\* Whatever overtook what, the page says "confirmed" only of a confirmed
\* request, and "failed" only of one that never reaches IRC.
THEOREM PageTruthfulTheorem == Spec => []PageTruthful
<1>1. PageInv => PageTruthful
  <2>. SUFFICES ASSUME PageInv, NEW r \in Requests
                PROVE /\ shown[r].state = "confirmed" => status[r] = "confirmed"
                      /\ shown[r].state = "failed" => r \notin transmitted
    BY DEF PageInv, PageTruthful
  <2>1. shown[r].state \in {"confirmed", "failed"} => Believable(status[r], post[r], shown[r])
    BY NoEntryFields DEF PageInv, ShownBelievable
  <2>. QED BY <2>1 DEF Believable, Refused, PageInv, ServerSound
<1>. QED BY <1>1, PageInvariant, PTL

\* The message is on IRC once, and once more for each warning that the user
\* accepted.
THEOREM CopiesWarnedTheorem == Spec => []CopiesWarned
<1>1. PageInv => CopiesWarned
  <2>. SUFFICES ASSUME PageInv PROVE CopiesWarned
    OBVIOUS
  <2>1. transmitted \subseteq Open
    BY DEF PageInv, TypeOK, Contract!ContractTypeOK, ServerSound, Open, Posted, Dead, Refused
  <2>2. /\ IsFiniteSet(Posted) /\ Open \subseteq Posted /\ warned \subseteq Posted
        /\ Cardinality(Open) <= 1 + Cardinality(warned)
    BY DEF PageInv, OpenCounted, Open
  <2>3. /\ IsFiniteSet(Open) /\ IsFiniteSet(warned) /\ Cardinality(transmitted) <= Cardinality(Open)
        /\ IsFiniteSet(transmitted)
    BY <2>1, <2>2, FS_Subset
  <2>4. /\ Cardinality(Open) \in Nat /\ Cardinality(warned) \in Nat
        /\ Cardinality(transmitted) \in Nat
    BY <2>3, FS_CardinalityType
  <2>. QED BY <2>2, <2>3, <2>4 DEF CopiesWarned
<1>. QED BY <1>1, PageInvariant, PTL

\* A deleted entry is not offered again, by this page or by a new one.
THEOREM DeletedStaysHiddenTheorem == Spec => []DeletedStaysHidden
<1>1. PageInv => DeletedStaysHidden
  BY DEF PageInv, HidClosed, Closed, Hidden, DeletedStaysHidden
<1>. QED BY <1>1, PageInvariant, PTL

\* A connected page with nothing under way agrees with the server about what is
\* settled and was not deleted.
THEOREM PageConvergesTheorem == Spec => []PageConverges
<1>1. PageInv => PageConverges
  <2>. SUFFICES ASSUME PageInv, listed, frames = <<>>,
                       NEW r \in Requests, status[r] \in Settled, r \notin dismissed
                PROVE shown[r].dismissed \/ shown[r].state = status[r]
    BY DEF PageConverges
  <2>1. Told(r)
    BY DEF PageInv, ListsTell, Due
  <2>. QED BY <2>1 DEF Told
<1>. QED BY <1>1, PageInvariant, PTL

=============================================================================
