------------------------------ MODULE NickServ ------------------------------
(***************************************************************************)
(* An account authenticates itself: the deadlines of serveConnection       *)
(* (internal/irc/session.go) and nickService.accept (nickserv.go), against *)
(* an IRC network whose service NickServ may be absent, slow or replaced   *)
(* by a user, and against other users who register the nickname.  Network  *)
(* and service are external.  The account has a password.                  *)
(*                                                                         *)
(* A line is who says what; a notice is its kind, as accept tells the      *)
(* kinds apart.  Rooms, senders and what ends a session otherwise are      *)
(* module IrcSession: here a session ends with Break.                      *)
(***************************************************************************)
EXTENDS Integers, Sequences, Functions

CONSTANT InboxSize \* bound: lines on their way to the reader

ASSUME NickServAssumption == InboxSize \in Nat \ {0}

VARIABLES
  reader,   \* serveConnection: welcomed, and whether the deadline has passed
  service,  \* nickService
  reported, \* whether the session reported the account as registered
  inbox,    \* lines on their way to the reader
  net,      \* the network's and NickServ's view of the session
  owner     \* who has registered the nickname

vars == <<reader, service, reported, inbox, net, owner>>

-----------------------------------------------------------------------------
Credentials == {"REGISTER", "IDENTIFY"}

Commands == Credentials \cup {"WHOIS", "INFO"}

\* accept: success of an identification and of a registration, a nickname
\* that is not registered or is, and refusals.
Notices == {"accepted", "created", "unknown", "taken", "refused"}

Owners == {"nobody", "account", "other"}

Line(cmd, arg, from) == [cmd |-> cmd, arg |-> arg, from |-> from]

Numeric(cmd) == Line(cmd, "", "server")

NewService ==
  [mask |-> FALSE, server |-> FALSE, operator |-> FALSE, verified |-> FALSE,
   queried |-> FALSE, sent |-> {}, done |-> FALSE]

NewNet ==
  [welcomed |-> FALSE, owes |-> {}, whois |-> <<>>, genuine |-> FALSE,
   spoken |-> FALSE, got |-> [c \in Credentials |-> 0]]

Away == [pc |-> "away", welcome |-> FALSE, late |-> FALSE]
Serving == [Away EXCEPT !.pc = "serving"]

-----------------------------------------------------------------------------
(* nickService.accept.                                                     *)

\* What is made of a line: the service, a command to write, if any, and
\* whether the nickname is reported as registered.
Reply(s, command, registered) ==
  [to |-> s, command |-> command, registered |-> registered]

Silence(s) == Reply(s, "", FALSE)
GivenUp(s) == Reply([s EXCEPT !.done = TRUE], "", FALSE)
Success(s) == Reply([s EXCEPT !.done = TRUE], "", TRUE)
Sends(s, credential) ==
  Reply([s EXCEPT !.sent = @ \cup {credential}], credential, FALSE)

\* The network's answer to WHOIS NickServ; its end decides.
Discover(s, cmd) ==
  CASE cmd = "311" -> Silence([s EXCEPT !.mask = TRUE])
    [] cmd = "312" -> Silence([s EXCEPT !.server = TRUE])
    [] cmd = "313" -> Silence([s EXCEPT !.operator = TRUE])
    [] cmd = "318" /\ ~(s.mask /\ s.server /\ s.operator) -> GivenUp(s)
    [] cmd = "318" /\ s.mask /\ s.server /\ s.operator ->
         Reply([s EXCEPT !.verified = TRUE, !.queried = TRUE],
               IF s.queried THEN "" ELSE "INFO", FALSE)

\* Deviation: a notice that the nickname is taken is always answered.
ListenAgain(s, text) == IF text = "taken" THEN Sends(s, "IDENTIFY") ELSE Silence(s)

\* A notice of the verified service.
Listen(s, text) ==
  CASE text = "accepted" -> IF s.sent # {} THEN Success(s) ELSE Silence(s)
    [] text = "created" ->
         IF "REGISTER" \in s.sent THEN Success(s) ELSE Silence(s)
    [] text = "unknown" ->
         IF "REGISTER" \in s.sent THEN GivenUp(s) ELSE Sends(s, "REGISTER")
    [] text = "refused" -> GivenUp(s)
    [] text = "taken" ->
         IF "IDENTIFY" \in s.sent THEN Silence(s) ELSE Sends(s, "IDENTIFY")

\* Deviation: whoever has the nickname NickServ is believed.
HeardFromAnybody(s, line) == s.verified

\* A notice counts if it comes from the mask that WHOIS showed.
Heard(s, line) == s.verified /\ line.from = "service"

\* Deviation: notices count after the service was given up.
Undaunted(s) == FALSE

Finished(s) == s.done

Accept(s, line) ==
  CASE Finished(s) -> Silence(s)
    [] ~Finished(s) /\ line.cmd = "NOTICE" ->
         IF Heard(s, line) THEN Listen(s, line.arg) ELSE Silence(s)
    [] ~Finished(s) /\ line.cmd # "NOTICE" -> Discover(s, line.cmd)

-----------------------------------------------------------------------------
(* The reader.                                                             *)

Connect ==
  /\ reader = Away
  /\ reader' = Serving
  /\ service' = NewService /\ reported' = FALSE
  /\ inbox' = <<>> /\ net' = NewNet
  /\ UNCHANGED owner

\* Before the welcome the deadline of all reads is the same.
InTime == reader.welcome \/ ~reader.late

\* Deviation: only a read that times out notices that NickServ is late.
OverdueUnnoticed == FALSE

\* The time to verify NickServ is over.
Overdue == reader.welcome /\ reader.late /\ ~service.done

ServiceNow == IF Overdue THEN [service EXCEPT !.done = TRUE] ELSE service

\* The next line.  Past the deadline only what was received before is left.
Read(line) ==
  /\ reader.pc = "serving"
  /\ inbox # <<>> /\ Head(inbox) = line
  /\ inbox' = Tail(inbox)

\* What the network makes of a command.
Received(command) ==
  CASE command \in Credentials ->
         [net EXCEPT !.owes = @ \cup {command}, !.got[command] = @ + 1]
    [] command \in {"WHOIS", "INFO"} -> [net EXCEPT !.owes = @ \cup {command}]
    [] command \in {"PONG", ""} -> net

\* A command is written, or cannot be and ends the session.  A registration
\* may have got through all the same.
Writes(command, then) ==
  \/ /\ net' = Received(command)
     /\ reader' = then
     /\ UNCHANGED owner
  \/ /\ command # ""
     /\ reader' = Away
     /\ UNCHANGED net
     /\ \/ UNCHANGED owner
        \/ command = "REGISTER" /\ owner = "nobody" /\ owner' = "account"

ReadPing ==
  /\ Read(Numeric("PING"))
  /\ service' = ServiceNow
  /\ Writes("PONG", reader)
  /\ UNCHANGED reported

\* The welcome, and joinAndDiscoverServices; the time for NickServ begins.
ReadWelcome ==
  /\ Read(Numeric("001"))
  /\ Writes("WHOIS", [reader EXCEPT !.welcome = TRUE, !.late = FALSE])
  /\ UNCHANGED <<service, reported>>

\* A line for nickService.
ReadService(line) ==
  LET reply == Accept(ServiceNow, line)
  IN /\ Read(line)
     /\ service' = reply.to
     /\ Writes(reply.command, reader)
     /\ reported' = (reported \/ reply.registered)

\* A read is interrupted by the deadline of NickServ only.
ServiceExpires ==
  /\ reader.pc = "serving" /\ inbox = <<>>
  /\ reader.welcome /\ reader.late /\ ~service.done
  /\ service' = [service EXCEPT !.done = TRUE]
  /\ UNCHANGED <<reader, reported, inbox, net, owner>>

\* The server did not register the account in time.
ReadTimesOut ==
  /\ reader.pc = "serving" /\ ~InTime
  /\ reader' = Away
  /\ UNCHANGED <<service, reported, inbox, net, owner>>

Answers == {"311", "312", "313", "318"}

Lines ==
  {Numeric(cmd) : cmd \in Answers}
  \cup {Line("NOTICE", text, from) : text \in Notices, from \in {"service", "user"}}

AnyLine == Lines \cup {Numeric("PING"), Numeric("001")}

ReaderStep ==
  \/ ReadPing \/ ReadWelcome
  \/ \E line \in Lines : ReadService(line)
  \/ ServiceExpires \/ ReadTimesOut

\* A deadline passes: of the registration, or of NickServ.
Late ==
  /\ reader.pc = "serving" /\ ~reader.late
  /\ ~reader.welcome \/ ~service.done
  /\ reader' = [reader EXCEPT !.late = TRUE]
  /\ UNCHANGED <<service, reported, inbox, net, owner>>

-----------------------------------------------------------------------------
(* The network and NickServ.                                               *)

Tells(line, after) ==
  /\ reader.pc = "serving" /\ InTime
  /\ Len(inbox) < InboxSize
  /\ inbox' = Append(inbox, line)
  /\ net' = after
  /\ UNCHANGED <<reader, service, reported>>

Ping == Tells(Numeric("PING"), net) /\ UNCHANGED owner

Welcome ==
  /\ ~net.welcomed
  /\ Tells(Numeric("001"), [net EXCEPT !.welcomed = TRUE])
  /\ UNCHANGED owner

\* Who has the nickname NickServ: a service, a user, or nobody.
Identities ==
  {<<"311", "312", "313", "318">>, <<"311", "312", "318">>, <<"318">>}

AnswerWhois ==
  /\ "WHOIS" \in net.owes
  /\ \E answer \in Identities :
       Tells(Numeric(Head(answer)),
             [net EXCEPT !.owes = @ \ {"WHOIS"}, !.whois = Tail(answer),
                         !.genuine = "313" \in Range(answer)])
  /\ UNCHANGED owner

ContinueWhois ==
  /\ net.whois # <<>>
  /\ Tells(Numeric(Head(net.whois)), [net EXCEPT !.whois = Tail(@)])
  /\ UNCHANGED owner

\* The service answers a command.
Answer(command, text) ==
  /\ command \in net.owes
  /\ Tells(Line("NOTICE", text, "service"), [net EXCEPT !.owes = @ \ {command}])

Inform ==
  /\ Answer("INFO", IF owner = "nobody" THEN "unknown" ELSE "taken")
  /\ UNCHANGED owner

Register ==
  \/ owner # "nobody" /\ Answer("REGISTER", "taken") /\ UNCHANGED owner
  \/ owner = "nobody" /\ Answer("REGISTER", "created") /\ owner' = "account"
  \/ owner = "nobody" /\ Answer("REGISTER", "refused") /\ UNCHANGED owner

Identify ==
  /\ \/ owner = "account" /\ Answer("IDENTIFY", "accepted")
     \/ owner # "nobody" /\ Answer("IDENTIFY", "refused")
     \/ owner = "nobody" /\ Answer("IDENTIFY", "unknown")
  /\ UNCHANGED owner

\* The service speaks first, as it does to users of a registered nickname, or
\* a user speaks who has the nickname NickServ; either once in a session.
Interject ==
  /\ net.welcomed /\ ~net.spoken
  /\ \E text \in Notices, from \in {"service", "user"} :
       /\ from = "service" => text = "taken" /\ owner # "nobody"
       /\ Tells(Line("NOTICE", text, from), [net EXCEPT !.spoken = TRUE])
  /\ UNCHANGED owner

\* Another user registers the nickname.
Grab ==
  /\ owner = "nobody"
  /\ owner' = "other"
  /\ UNCHANGED <<reader, service, reported, inbox, net>>

\* NickServ drops a nickname that is not in use.
Lapse ==
  /\ reader = Away /\ owner # "nobody"
  /\ owner' = "nobody"
  /\ UNCHANGED <<reader, service, reported, inbox, net>>

\* The session ends; NickServ may still do what it was told to.
Break ==
  /\ reader.pc = "serving"
  /\ reader' = Away
  /\ \/ UNCHANGED owner
     \/ "REGISTER" \in net.owes /\ owner = "nobody" /\ owner' = "account"
  /\ UNCHANGED <<service, reported, inbox, net>>

Network ==
  \/ Ping \/ Welcome \/ AnswerWhois \/ ContinueWhois
  \/ Inform \/ Register \/ Identify \/ Interject
  \/ Grab \/ Lapse \/ Break

-----------------------------------------------------------------------------
Init ==
  /\ reader = Away
  /\ service = NewService
  /\ reported = FALSE
  /\ inbox = <<>>
  /\ net = NewNet
  /\ owner \in Owners

Next == Connect \/ ReaderStep \/ Late \/ Network

Spec == Init /\ [][Next]_vars

\* The reader runs and time passes; nothing is assumed of the network.
FairSpec == Spec /\ WF_vars(ReaderStep) /\ WF_vars(Late)

-----------------------------------------------------------------------------
(* Properties.                                                             *)

\* A service is verified by all that WHOIS shows, and only then sent
\* credentials.
Service ==
  {s \in [mask: BOOLEAN, server: BOOLEAN, operator: BOOLEAN, verified: BOOLEAN,
          queried: BOOLEAN, sent: SUBSET Credentials, done: BOOLEAN] :
     /\ s.verified => s.mask /\ s.server /\ s.operator
     /\ s.sent # {} => s.verified}

\* The types.  Only a verified service has been sent credentials.
TypeOK ==
  /\ reader \in [pc: {"away", "serving"}, welcome: BOOLEAN, late: BOOLEAN]
  /\ service \in Service
  /\ reported \in BOOLEAN
  /\ inbox \in Seq(AnyLine)
  /\ Len(inbox) <= InboxSize
  /\ net \in [welcomed: BOOLEAN, owes: SUBSET Commands, whois: Seq(Answers),
              genuine: BOOLEAN, spoken: BOOLEAN, got: [Credentials -> Nat]]
  /\ owner \in Owners

\* In a session each of the two commands that carry the password is received
\* at most once, and only if the network vouched for NickServ as a service
\* (nickService.accept, whatever notices come in whatever order).
CredentialsOnce ==
  \A c \in Credentials : net.got[c] <= 1 /\ (net.got[c] > 0 => net.genuine)

\* A session that reports the account as registered has made it, or found it,
\* the owner of its nickname at NickServ (the success notices of accept and
\* the "registered" event of serveConnection), though others may register
\* the nickname, or speak under the name of NickServ, meanwhile.
RegisteredOwned == reader.pc = "serving" /\ reported => owner = "account"

\* Once the authentication is over, by an answer or because time ran out, no
\* credentials are sent in the session ("no further credentials sent").
NoFurtherCredentials ==
  [][reader.pc = "serving" /\ service.done /\ reader'.pc = "serving"
       => net'.got = net.got]_vars

\* A network that is silent, or that keeps talking of other things, neither
\* keeps the session waiting for the welcome nor the authentication open for
\* ever (welcomeDeadline and serviceDeadline of serveConnection).
DeadlinesHold ==
  /\ reader.pc = "serving" /\ ~reader.welcome
       ~> reader.welcome \/ reader.pc = "away"
  /\ reader.pc = "serving" /\ reader.welcome
       ~> service.done \/ reader.pc = "away"

-----------------------------------------------------------------------------
(* The inductive invariant behind CredentialsOnce.                         *)

\* A line with this command is on its way.
Coming(cmd) == \E i \in DOMAIN inbox : inbox[i].cmd = cmd

\* What shows NickServ as a service comes from the network alone.
Vouched ==
  reader.pc = "serving" =>
    (service.operator \/ Coming("313") \/ "313" \in Range(net.whois)
       => net.genuine)

\* Until the network has answered for NickServ nothing is known and no
\* credentials are sent.
Uninformed ==
  reader.pc = "serving" =>
    (~net.welcomed \/ Coming("001") \/ "WHOIS" \in net.owes
       => ~net.genuine /\ service.sent = {})

\* The network welcomes once, and is asked for NickServ after that.
OneWelcome ==
  reader.pc = "serving" =>
    /\ ~net.welcomed => ~Coming("001") /\ "WHOIS" \notin net.owes
    /\ \A i, j \in DOMAIN inbox :
         inbox[i].cmd = "001" /\ inbox[j].cmd = "001" => i = j
    /\ Coming("001") => "WHOIS" \notin net.owes

\* What was received was sent.
ReceivedIsSent ==
  reader.pc = "serving" =>
    \A c \in Credentials : net.got[c] > 0 => c \in service.sent

ServiceInv ==
  TypeOK /\ Vouched /\ Uninformed /\ OneWelcome /\ ReceivedIsSent /\ CredentialsOnce

-----------------------------------------------------------------------------
(* The inductive invariant behind RegisteredOwned.                         *)

\* A success of the service.
Confirms(line) ==
  line.cmd = "NOTICE" /\ line.from = "service" /\ line.arg \in {"accepted", "created"}

\* A success that is still on its way is as true as when it was told.
ConfirmedOwned ==
  reader.pc = "serving" /\ (\E i \in DOMAIN inbox : Confirms(inbox[i]))
    => owner = "account"

OwnerInv == TypeOK /\ ConfirmedOwned /\ RegisteredOwned

=============================================================================
