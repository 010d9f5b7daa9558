--------------------------- MODULE NickServ_proofs ---------------------------
(***************************************************************************)
(* Theorems about NickServ, for every length of the inbox and any number   *)
(* of sessions.                                                            *)
(***************************************************************************)
EXTENDS NickServ, TLAPS

-----------------------------------------------------------------------------
(* Sequences: the line that comes last, and what is left of the first.     *)

LEMMA Appended ==
  ASSUME NEW S, NEW q \in Seq(S), NEW x \in S
  PROVE  /\ Append(q, x) \in Seq(S)
         /\ Len(Append(q, x)) = Len(q) + 1
         /\ DOMAIN Append(q, x) = 1..(Len(q) + 1)
         /\ DOMAIN q = 1..Len(q)
         /\ \A i \in 1..Len(q) : Append(q, x)[i] = q[i]
         /\ Append(q, x)[Len(q) + 1] = x
  OBVIOUS

LEMMA Shifted ==
  ASSUME NEW S, NEW q \in Seq(S), q # <<>>
  PROVE  /\ Tail(q) \in Seq(S)
         /\ Head(q) \in S /\ Head(q) = q[1] /\ 1 \in DOMAIN q
         /\ Len(Tail(q)) = Len(q) - 1
         /\ DOMAIN Tail(q) = 1..(Len(q) - 1)
         /\ DOMAIN q = 1..Len(q)
         /\ \A i \in 1..(Len(q) - 1) : Tail(q)[i] = q[i + 1]
  OBVIOUS

\* Counting stays in the naturals.
LEMMA Successor == ASSUME NEW n \in Nat PROVE n + 1 \in Nat
  OBVIOUS

-----------------------------------------------------------------------------
(* What nickService.accept may do.                                         *)

\* A reply of the service s to a line: it is a service again; credentials are
\* sent at most once, and only by a verified one; what shows an operator is
\* the numeric 313 alone.
Proper(s, line, reply) ==
  /\ reply.to \in Service
  /\ reply.command \in Credentials \cup {"INFO", ""}
  /\ reply.registered \in BOOLEAN
  /\ reply.to.sent = s.sent \cup ({reply.command} \cap Credentials)
  /\ reply.command \in Credentials => s.verified /\ reply.command \notin s.sent
  /\ reply.to.operator => s.operator \/ line.cmd = "313"

LEMMA SilenceProper ==
  ASSUME NEW s \in Service, NEW line PROVE Proper(s, line, Silence(s))
  BY DEF Proper, Silence, Reply, Service, Credentials

LEMMA GivenUpProper ==
  ASSUME NEW s \in Service, NEW line PROVE Proper(s, line, GivenUp(s))
  BY DEF Proper, GivenUp, Reply, Service, Credentials

LEMMA SuccessProper ==
  ASSUME NEW s \in Service, NEW line PROVE Proper(s, line, Success(s))
  BY DEF Proper, Success, Reply, Service, Credentials

LEMMA SendsProper ==
  ASSUME NEW s \in Service, NEW line, NEW c \in Credentials, s.verified,
         c \notin s.sent
  PROVE  Proper(s, line, Sends(s, c))
  BY DEF Proper, Sends, Reply, Service, Credentials

LEMMA DiscoverProper ==
  ASSUME NEW s \in Service, NEW line, line.cmd \in Answers
  PROVE  Proper(s, line, Discover(s, line.cmd))
<1>1. CASE line.cmd = "311"
  BY <1>1 DEF Discover, Proper, Silence, Reply, Service, Credentials
<1>2. CASE line.cmd = "312"
  BY <1>2 DEF Discover, Proper, Silence, Reply, Service, Credentials
<1>3. CASE line.cmd = "313"
  BY <1>3 DEF Discover, Proper, Silence, Reply, Service, Credentials
<1>4. CASE line.cmd = "318" /\ ~(s.mask /\ s.server /\ s.operator)
  BY <1>4, GivenUpProper DEF Discover
<1>5. CASE line.cmd = "318" /\ s.mask /\ s.server /\ s.operator
  BY <1>5 DEF Discover, Proper, Reply, Service, Credentials
<1> QED BY <1>1, <1>2, <1>3, <1>4, <1>5 DEF Answers

LEMMA ListenProper ==
  ASSUME NEW s \in Service, NEW line, line.arg \in Notices, s.verified
  PROVE  Proper(s, line, Listen(s, line.arg))
<1>1. CASE line.arg = "accepted"
  BY <1>1, SilenceProper, SuccessProper DEF Listen
<1>2. CASE line.arg = "created"
  BY <1>2, SilenceProper, SuccessProper DEF Listen
<1>3. CASE line.arg = "unknown"
  BY <1>3, GivenUpProper, SendsProper DEF Listen, Credentials
<1>4. CASE line.arg = "refused"
  BY <1>4, GivenUpProper DEF Listen
<1>5. CASE line.arg = "taken"
  BY <1>5, SilenceProper, SendsProper DEF Listen, Credentials
<1> QED BY <1>1, <1>2, <1>3, <1>4, <1>5 DEF Notices

\* A line for nickService is a numeric or a notice.
LEMMA LineKinds ==
  ASSUME NEW line \in Lines
  PROVE  \/ line.cmd \in Answers /\ line.cmd # "NOTICE"
         \/ line.cmd = "NOTICE" /\ line.arg \in Notices
<1>1. CASE \E cmd \in Answers : line = Numeric(cmd)
  <2>1. PICK cmd \in Answers : line = Numeric(cmd)
    BY <1>1
  <2>2. line.cmd = cmd
    BY <2>1 DEF Numeric, Line
  <2> QED BY <2>2 DEF Answers
<1>2. CASE \E text \in Notices, from \in {"service", "user"} :
             line = Line("NOTICE", text, from)
  BY <1>2 DEF Line
<1> QED BY <1>1, <1>2 DEF Lines

LEMMA AcceptProper ==
  ASSUME NEW s \in Service, NEW line \in Lines
  PROVE  Proper(s, line, Accept(s, line))
<1>1. \/ line.cmd \in Answers /\ line.cmd # "NOTICE"
      \/ line.cmd = "NOTICE" /\ line.arg \in Notices
  BY LineKinds
<1>2. CASE Finished(s)
  BY <1>2, SilenceProper DEF Accept
<1>3. CASE ~Finished(s) /\ line.cmd = "NOTICE"
  BY <1>1, <1>3, SilenceProper, ListenProper DEF Accept, Heard, Answers
<1>4. CASE ~Finished(s) /\ line.cmd # "NOTICE"
  BY <1>1, <1>4, DiscoverProper DEF Accept
<1> QED BY <1>2, <1>3, <1>4

LEMMA ServiceNowType ==
  ASSUME service \in Service
  PROVE  /\ ServiceNow \in Service
         /\ ServiceNow.sent = service.sent
         /\ ServiceNow.operator = service.operator
  BY DEF ServiceNow, Service

-----------------------------------------------------------------------------
(* The parts of a step.                                                    *)

\* Reading takes a line off the inbox: nothing new is coming.
LEMMA ReadTakes ==
  ASSUME TypeOK, NEW line, Read(line)
  PROVE  /\ reader.pc = "serving"
         /\ line \in AnyLine /\ Coming(line.cmd)
         /\ inbox' \in Seq(AnyLine) /\ Len(inbox') <= InboxSize
         /\ \A cmd : Coming(cmd)' => Coming(cmd)
         /\ OneWelcome =>
              /\ \A i, j \in DOMAIN inbox' :
                   inbox'[i].cmd = "001" /\ inbox'[j].cmd = "001" => i = j
              /\ line.cmd = "001" => ~Coming("001")'
<1> DEFINE rest == Tail(inbox)
<1>1. /\ inbox \in Seq(AnyLine) /\ inbox # <<>> /\ Head(inbox) = line
      /\ inbox' = rest /\ reader.pc = "serving"
  BY DEF TypeOK, Read
<1>2. /\ rest \in Seq(AnyLine)
      /\ line \in AnyLine /\ line = inbox[1] /\ 1 \in DOMAIN inbox
      /\ Len(rest) = Len(inbox) - 1
      /\ DOMAIN rest = 1..(Len(inbox) - 1)
      /\ DOMAIN inbox = 1..Len(inbox)
      /\ \A i \in 1..(Len(inbox) - 1) : rest[i] = inbox[i + 1]
  BY <1>1, Shifted
<1>3. Len(inbox) \in Nat /\ Len(inbox) <= InboxSize
  BY <1>1 DEF TypeOK
<1> HIDE DEF rest
<1>4. Len(rest) <= InboxSize
  BY <1>2, <1>3, NickServAssumption
<1>5. \A i \in DOMAIN rest : i + 1 \in DOMAIN inbox /\ rest[i] = inbox[i + 1]
  BY <1>2, <1>3
<1>6. Coming(line.cmd)
  BY <1>2 DEF Coming
<1>7. ASSUME NEW cmd, Coming(cmd)' PROVE Coming(cmd)
  BY <1>1, <1>5, <1>7 DEF Coming
<1>8. ASSUME OneWelcome, NEW i \in DOMAIN rest, NEW j \in DOMAIN rest,
             rest[i].cmd = "001", rest[j].cmd = "001"
      PROVE  i = j
  <2>1. i + 1 = j + 1
    BY <1>1, <1>5, <1>8 DEF OneWelcome
  <2>2. i \in Int /\ j \in Int
    BY <1>2, <1>3
  <2> QED BY <2>1, <2>2
<1>9. ASSUME OneWelcome, line.cmd = "001" PROVE ~Coming("001")'
  <2>1. ASSUME NEW i \in DOMAIN rest, rest[i].cmd = "001" PROVE FALSE
    <3>1. i + 1 = 1
      BY <1>1, <1>2, <1>5, <1>9, <2>1 DEF OneWelcome
    <3>2. i \in Int /\ i >= 1
      BY <1>2, <1>3
    <3> QED BY <3>1, <3>2
  <2> QED BY <1>1, <2>1 DEF Coming
<1> QED BY <1>1, <1>2, <1>4, <1>6, <1>7, <1>8, <1>9

\* A line that arrives is the only new one, and the last.
LEMMA TellAdds ==
  ASSUME TypeOK, NEW line \in AnyLine, NEW after, Tells(line, after)
  PROVE  /\ reader.pc = "serving" /\ reader' = reader /\ net' = after
         /\ service' = service /\ reported' = reported
         /\ inbox' \in Seq(AnyLine) /\ Len(inbox') <= InboxSize
         /\ \A cmd : Coming(cmd)' => Coming(cmd) \/ cmd = line.cmd
         /\ OneWelcome /\ (line.cmd = "001" => ~Coming("001")) =>
              \A i, j \in DOMAIN inbox' :
                inbox'[i].cmd = "001" /\ inbox'[j].cmd = "001" => i = j
<1> DEFINE longer == Append(inbox, line)
<1>1. /\ inbox \in Seq(AnyLine) /\ inbox' = longer
      /\ Len(inbox) \in Nat /\ Len(inbox) < InboxSize
      /\ reader.pc = "serving" /\ reader' = reader /\ net' = after
      /\ service' = service /\ reported' = reported
  BY DEF TypeOK, Tells
<1>2. /\ longer \in Seq(AnyLine)
      /\ Len(longer) = Len(inbox) + 1
      /\ DOMAIN longer = 1..(Len(inbox) + 1)
      /\ DOMAIN inbox = 1..Len(inbox)
      /\ \A i \in 1..Len(inbox) : longer[i] = inbox[i]
      /\ longer[Len(inbox) + 1] = line
  BY <1>1, Appended
<1> HIDE DEF longer
<1>3. Len(longer) <= InboxSize
  BY <1>1, <1>2, NickServAssumption
<1>4. \A i \in DOMAIN longer :
        \/ i \in DOMAIN inbox /\ longer[i] = inbox[i]
        \/ i = Len(inbox) + 1 /\ longer[i] = line
  BY <1>1, <1>2
<1>5. ASSUME NEW cmd, Coming(cmd)' PROVE Coming(cmd) \/ cmd = line.cmd
  BY <1>1, <1>4, <1>5 DEF Coming
<1>6. ASSUME OneWelcome, line.cmd = "001" => ~Coming("001"),
             NEW i \in DOMAIN longer, NEW j \in DOMAIN longer,
             longer[i].cmd = "001", longer[j].cmd = "001"
      PROVE  i = j
  BY <1>1, <1>4, <1>6 DEF OneWelcome, Coming
<1> QED BY <1>1, <1>2, <1>3, <1>5, <1>6

\* A line that says nothing of the welcome or of NickServ's operator leaves
\* what the invariant says of the inbox.
LEMMA Unsuspected ==
  ASSUME ServiceInv, NEW line \in AnyLine, NEW after, Tells(line, after),
         line.cmd \notin {"001", "313"},
         after.genuine = net.genuine, after.welcomed = net.welcomed,
         after.whois = net.whois, after.got = net.got,
         after.owes \subseteq net.owes, TypeOK'
  PROVE  ServiceInv'
<1>1. /\ reader.pc = "serving" /\ reader' = reader /\ net' = after
      /\ service' = service
      /\ Coming("001")' => Coming("001")
      /\ Coming("313")' => Coming("313")
      /\ \A i, j \in DOMAIN inbox' :
           inbox'[i].cmd = "001" /\ inbox'[j].cmd = "001" => i = j
  BY TellAdds DEF ServiceInv
<1> HIDE DEF Coming
<1>2. Vouched'
  BY <1>1 DEF ServiceInv, Vouched
<1>3. Uninformed'
  BY <1>1 DEF ServiceInv, Uninformed
<1>4. OneWelcome'
  BY <1>1 DEF ServiceInv, OneWelcome
<1>5. ReceivedIsSent' /\ CredentialsOnce'
  BY <1>1 DEF ServiceInv, ReceivedIsSent, CredentialsOnce
<1> QED BY <1>2, <1>3, <1>4, <1>5 DEF ServiceInv

\* A command is written, or the session ends.
LEMMA Written ==
  ASSUME TypeOK, NEW command \in Commands \cup {"PONG", ""}, NEW then,
         Writes(command, then)
  PROVE  /\ owner' \in Owners
         /\ \/ net' = Received(command) /\ reader' = then
            \/ net' = net /\ reader' = Away
         /\ net' \in [welcomed: BOOLEAN, owes: SUBSET Commands,
                      whois: Seq(Answers), genuine: BOOLEAN, spoken: BOOLEAN,
                      got: [Credentials -> Nat]]
         /\ net'.genuine = net.genuine /\ net'.welcomed = net.welcomed
         /\ net'.whois = net.whois
         /\ net'.owes \subseteq net.owes \cup ({command} \cap Commands)
         /\ \A c \in Credentials :
              net'.got[c] = net.got[c]
                \/ (c = command /\ net'.got[c] = net.got[c] + 1)
<1>1. net \in [welcomed: BOOLEAN, owes: SUBSET Commands, whois: Seq(Answers),
              genuine: BOOLEAN, spoken: BOOLEAN, got: [Credentials -> Nat]]
      /\ owner \in Owners
  BY DEF TypeOK
<1>2. owner' \in Owners
  BY <1>1 DEF Writes, Owners
<1>3. CASE net' = net /\ reader' = Away
  BY <1>1, <1>2, <1>3
<1>4. CASE net' = Received(command) /\ reader' = then
  <2>1. CASE command \in Credentials
    <3>1. /\ command \notin {"WHOIS", "INFO"} /\ command \notin {"PONG", ""}
          /\ command \in Commands
      BY <2>1 DEF Credentials, Commands
    <3>2. net' = [net EXCEPT !.owes = @ \cup {command}, !.got[command] = @ + 1]
      BY <1>4, <2>1, <3>1, Zenon DEF Received
    <3>3. net.got \in [Credentials -> Nat]
      BY <1>1
    <3>4. net.got[command] \in Nat
      BY <3>3, <2>1, Zenon
    <3>5. net.got[command] + 1 \in Nat
      BY <3>4, Successor, Zenon
    <3> DEFINE more == [net.got EXCEPT ![command] = @ + 1]
    <3>6. net' = [welcomed |-> net.welcomed, owes |-> net.owes \cup {command},
                  whois |-> net.whois, genuine |-> net.genuine,
                  spoken |-> net.spoken, got |-> more]
      BY <1>1, <3>2
    <3>7. more \in [Credentials -> Nat]
      BY <3>3, <3>5
    <3>8. \A c \in Credentials :
            more[c] = net.got[c] \/ (c = command /\ more[c] = net.got[c] + 1)
      BY <1>1, <2>1
    <3> HIDE DEF more
    <3>9. net.owes \cup {command} \in SUBSET Commands
      BY <1>1, <3>1
    <3>10. net' \in [welcomed: BOOLEAN, owes: SUBSET Commands,
                   whois: Seq(Answers), genuine: BOOLEAN, spoken: BOOLEAN,
                   got: [Credentials -> Nat]]
      BY <1>1, <3>6, <3>7, <3>9
    <3>11. /\ net'.genuine = net.genuine /\ net'.welcomed = net.welcomed
          /\ net'.whois = net.whois /\ net'.got = more
          /\ net'.owes = net.owes \cup {command}
      BY <3>6
    <3> QED BY <1>2, <1>4, <3>1, <3>8, <3>10, <3>11
  <2>2. CASE command \in {"WHOIS", "INFO"}
    BY <1>1, <1>2, <1>4, <2>2 DEF Received, Credentials, Commands
  <2>3. CASE command \in {"PONG", ""}
    BY <1>1, <1>2, <1>4, <2>3 DEF Received, Credentials, Commands
  <2> QED BY <2>1, <2>2, <2>3 DEF Commands
<1> QED BY <1>3, <1>4 DEF Writes

-----------------------------------------------------------------------------
(* Every step keeps the types.                                             *)

\* A session that ended, and the service and the network of a new one.
LEMMA FreshTypes ==
  /\ Away \in [pc: {"away", "serving"}, welcome: BOOLEAN, late: BOOLEAN]
  /\ Serving \in [pc: {"away", "serving"}, welcome: BOOLEAN, late: BOOLEAN]
  /\ NewService \in Service
  /\ NewNet \in [welcomed: BOOLEAN, owes: SUBSET Commands, whois: Seq(Answers),
                 genuine: BOOLEAN, spoken: BOOLEAN, got: [Credentials -> Nat]]
  /\ <<>> \in Seq(AnyLine) /\ Len(<<>>) <= InboxSize
<1>1. Away \in [pc: {"away", "serving"}, welcome: BOOLEAN, late: BOOLEAN]
  BY DEF Away
<1>2. Serving \in [pc: {"away", "serving"}, welcome: BOOLEAN, late: BOOLEAN]
  BY DEF Away, Serving
<1>3. NewService \in Service
  BY DEF NewService, Service
<1>4. <<>> \in Seq(Answers) /\ [c \in Credentials |-> 0] \in [Credentials -> Nat]
  OBVIOUS
<1>5. NewNet \in [welcomed: BOOLEAN, owes: SUBSET Commands, whois: Seq(Answers),
                 genuine: BOOLEAN, spoken: BOOLEAN, got: [Credentials -> Nat]]
  BY <1>4 DEF NewNet
<1>6. <<>> \in Seq(AnyLine) /\ Len(<<>>) <= InboxSize
  BY NickServAssumption
<1> QED BY <1>1, <1>2, <1>3, <1>5, <1>6

\* What the reader makes of a line keeps the types, if what it makes of the
\* service and of itself does.
LEMMA ReadType ==
  ASSUME TypeOK, NEW line, Read(line),
         NEW command \in Commands \cup {"PONG", ""},
         NEW then \in [pc: {"away", "serving"}, welcome: BOOLEAN, late: BOOLEAN],
         Writes(command, then), service' \in Service, reported' \in BOOLEAN
  PROVE  TypeOK'
<1>1. inbox' \in Seq(AnyLine) /\ Len(inbox') <= InboxSize
  BY ReadTakes
<1>2. /\ owner' \in Owners /\ (reader' = then \/ reader' = Away)
      /\ net' \in [welcomed: BOOLEAN, owes: SUBSET Commands,
                   whois: Seq(Answers), genuine: BOOLEAN, spoken: BOOLEAN,
                   got: [Credentials -> Nat]]
  BY Written, Zenon
<1>3. reader' \in [pc: {"away", "serving"}, welcome: BOOLEAN, late: BOOLEAN]
  BY <1>2, FreshTypes, Zenon
<1> QED BY <1>1, <1>2, <1>3, Zenon DEF TypeOK

\* So does what the network tells.
LEMMA TellType ==
  ASSUME TypeOK, NEW line \in AnyLine, owner' \in Owners,
         NEW after \in [welcomed: BOOLEAN, owes: SUBSET Commands,
                        whois: Seq(Answers), genuine: BOOLEAN, spoken: BOOLEAN,
                        got: [Credentials -> Nat]],
         Tells(line, after)
  PROVE  TypeOK'
<1>1. /\ reader' = reader /\ net' = after /\ service' = service
      /\ reported' = reported
      /\ inbox' \in Seq(AnyLine) /\ Len(inbox') <= InboxSize
  BY TellAdds, Zenon
<1> QED BY <1>1, Zenon DEF TypeOK

LEMMA LinesAreLines ==
  /\ \A cmd \in Answers \cup {"PING", "001"} : Numeric(cmd) \in AnyLine
  /\ \A text \in Notices, from \in {"service", "user"} :
       Line("NOTICE", text, from) \in AnyLine
  BY DEF AnyLine, Lines

LEMMA ReadPingType == ASSUME TypeOK, ReadPing PROVE TypeOK'
<1>1. service' \in Service /\ reported' \in BOOLEAN
  BY ServiceNowType DEF TypeOK, ReadPing
<1> QED BY <1>1, ReadType DEF TypeOK, ReadPing

LEMMA ReadWelcomeType == ASSUME TypeOK, ReadWelcome PROVE TypeOK'
<1>1. service' \in Service /\ reported' \in BOOLEAN
  BY DEF TypeOK, ReadWelcome
<1>2. [reader EXCEPT !.welcome = TRUE, !.late = FALSE]
        \in [pc: {"away", "serving"}, welcome: BOOLEAN, late: BOOLEAN]
  BY DEF TypeOK
<1> QED BY <1>1, <1>2, ReadType, Zenon DEF ReadWelcome, Commands

LEMMA ReadServiceType ==
  ASSUME TypeOK, NEW line \in Lines, ReadService(line) PROVE TypeOK'
<1> DEFINE reply == Accept(ServiceNow, line)
<1>1. Proper(ServiceNow, line, reply)
  BY AcceptProper, ServiceNowType DEF TypeOK
<1>2. /\ Read(line) /\ service' = reply.to /\ Writes(reply.command, reader)
      /\ reported' = (reported \/ reply.registered)
  BY DEF ReadService
<1> HIDE DEF reply
<1>3. service' \in Service /\ reply.command \in Commands \cup {"PONG", ""}
  BY <1>1, <1>2, Zenon DEF Proper, Commands
<1>4. reported' \in BOOLEAN
  BY <1>1, <1>2, Zenon DEF Proper, TypeOK
<1>5. reader \in [pc: {"away", "serving"}, welcome: BOOLEAN, late: BOOLEAN]
  BY Zenon DEF TypeOK
<1> QED BY <1>2, <1>3, <1>4, <1>5, ReadType, Zenon

LEMMA TypeInit == Init => TypeOK
  BY FreshTypes, Zenon DEF Init, TypeOK

\* The network's view is a record of these fields; what an action makes of it.
LEMMA NetType ==
  ASSUME TypeOK
  PROVE  LET Nets == [welcomed: BOOLEAN, owes: SUBSET Commands,
                      whois: Seq(Answers), genuine: BOOLEAN, spoken: BOOLEAN,
                      got: [Credentials -> Nat]]
         IN /\ [net EXCEPT !.welcomed = TRUE] \in Nets
            /\ [net EXCEPT !.spoken = TRUE] \in Nets
            /\ \A c : [net EXCEPT !.owes = @ \ {c}] \in Nets
            /\ net.whois # <<>> =>
                 /\ [net EXCEPT !.whois = Tail(@)] \in Nets
                 /\ Head(net.whois) \in Answers
            /\ \A w \in Seq(Answers), g \in BOOLEAN :
                 [net EXCEPT !.owes = @ \ {"WHOIS"}, !.whois = w, !.genuine = g]
                   \in Nets
<1>1. net \in [welcomed: BOOLEAN, owes: SUBSET Commands,
               whois: Seq(Answers), genuine: BOOLEAN, spoken: BOOLEAN,
               got: [Credentials -> Nat]]
  BY DEF TypeOK
<1>2. net.whois \in Seq(Answers)
  BY <1>1
<1>3. net.whois # <<>> =>
        Tail(net.whois) \in Seq(Answers) /\ Head(net.whois) \in Answers
  BY <1>2, Shifted, Zenon
<1> QED BY <1>1, <1>3

\* What the network shows of NickServ, line by line.
LEMMA IdentityType ==
  \A answer \in Identities :
    /\ Head(answer) \in Answers \ {"313"}
    /\ Tail(answer) \in Seq(Answers)
    /\ "313" \in Range(Tail(answer)) => "313" \in Range(answer)
<1>1. \A answer \in Identities : Head(answer) \in Answers \ {"313"}
  BY DEF Identities, Answers
<1>2. \A answer \in Identities : answer \in Seq(Answers) /\ answer # <<>>
  <2>1. "311" \in Answers /\ "312" \in Answers /\ "313" \in Answers /\ "318" \in Answers
    BY DEF Answers
  <2>2. /\ <<"311", "312", "313", "318">> \in Seq(Answers)
        /\ <<"311", "312", "313", "318">> # <<>>
    BY <2>1
  <2>3. <<"311", "312", "318">> \in Seq(Answers) /\ <<"311", "312", "318">> # <<>>
    BY <2>1
  <2>4. <<"318">> \in Seq(Answers) /\ <<"318">> # <<>>
    BY <2>1
  <2> QED BY <2>2, <2>3, <2>4, Zenon DEF Identities
<1>3. ASSUME NEW answer \in Identities
      PROVE  /\ Tail(answer) \in Seq(Answers)
             /\ \A i \in DOMAIN Tail(answer) :
                  i + 1 \in DOMAIN answer /\ Tail(answer)[i] = answer[i + 1]
  BY <1>2, Shifted
<1> QED BY <1>1, <1>3 DEF Range

LEMMA TypeStep == ASSUME TypeOK, [Next]_vars PROVE TypeOK'
<1>1. ASSUME Connect PROVE TypeOK'
  BY <1>1, FreshTypes, Zenon DEF Connect, TypeOK
<1>2. ASSUME ServiceExpires PROVE TypeOK'
  <2>1. [service EXCEPT !.done = TRUE] \in Service
    BY DEF TypeOK, Service
  <2> QED BY <1>2, <2>1, Zenon DEF ServiceExpires, TypeOK
<1>3. ASSUME ReadTimesOut PROVE TypeOK'
  BY <1>3, FreshTypes, Zenon DEF ReadTimesOut, TypeOK
<1>4. ASSUME ReaderStep PROVE TypeOK'
  BY <1>2, <1>3, <1>4, ReadPingType, ReadWelcomeType, ReadServiceType, Zenon
     DEF ReaderStep
<1>5. ASSUME Late PROVE TypeOK'
  <2>1. [reader EXCEPT !.late = TRUE]
          \in [pc: {"away", "serving"}, welcome: BOOLEAN, late: BOOLEAN]
    BY DEF TypeOK
  <2> QED BY <1>5, <2>1, Zenon DEF Late, TypeOK
<1>6. owner \in Owners /\ {"nobody", "account", "other"} = Owners
  BY DEF TypeOK, Owners
<1>7. ASSUME Ping PROVE TypeOK'
  <2>1. /\ Numeric("PING") \in AnyLine /\ Tells(Numeric("PING"), net)
        /\ owner' \in Owners
        /\ net \in [welcomed: BOOLEAN, owes: SUBSET Commands,
                    whois: Seq(Answers), genuine: BOOLEAN, spoken: BOOLEAN,
                    got: [Credentials -> Nat]]
    BY <1>6, <1>7, LinesAreLines DEF Ping, TypeOK
  <2> QED BY <2>1, TellType, Zenon
<1>8. ASSUME Welcome PROVE TypeOK'
  <2>1. Numeric("001") \in AnyLine /\ owner' \in Owners
    BY <1>6, <1>8, LinesAreLines DEF Welcome
  <2> QED BY <1>8, <2>1, NetType, TellType, Zenon DEF Welcome
<1>9. ASSUME AnswerWhois PROVE TypeOK'
  <2>1. PICK answer \in Identities :
          Tells(Numeric(Head(answer)),
                [net EXCEPT !.owes = @ \ {"WHOIS"}, !.whois = Tail(answer),
                            !.genuine = "313" \in Range(answer)])
    BY <1>9, Zenon DEF AnswerWhois
  <2>2. /\ Numeric(Head(answer)) \in AnyLine
        /\ Tail(answer) \in Seq(Answers) /\ owner' \in Owners
    BY <1>6, <1>9, IdentityType, LinesAreLines, Zenon DEF AnswerWhois
  <2>3. ("313" \in Range(answer)) \in BOOLEAN
    OBVIOUS
  <2>4. PICK w \in Seq(Answers) : w = Tail(answer)
    BY <2>2, Zenon
  <2>5. PICK after :
          after = [net EXCEPT !.owes = @ \ {"WHOIS"}, !.whois = w,
                              !.genuine = "313" \in Range(answer)]
    OBVIOUS
  <2>6. after \in [welcomed: BOOLEAN, owes: SUBSET Commands,
                   whois: Seq(Answers), genuine: BOOLEAN, spoken: BOOLEAN,
                   got: [Credentials -> Nat]]
    BY <2>3, <2>5, NetType, Zenon
  <2>7. Tells(Numeric(Head(answer)), after)
    BY <2>1, <2>4, <2>5, Zenon
  <2> QED BY <2>2, <2>6, <2>7, TellType, Zenon
<1>10. ASSUME ContinueWhois PROVE TypeOK'
  <2>1. Numeric(Head(net.whois)) \in AnyLine /\ owner' \in Owners
    BY <1>6, <1>10, NetType, LinesAreLines, Zenon DEF ContinueWhois
  <2> QED BY <1>10, <2>1, NetType, TellType, Zenon DEF ContinueWhois
<1>11. ASSUME NEW command, NEW text \in Notices, Answer(command, text),
              owner' \in Owners
       PROVE  TypeOK'
  BY <1>11, LinesAreLines, NetType, TellType, Zenon DEF Answer
<1>12. ASSUME Inform PROVE TypeOK'
  <2>1. (IF owner = "nobody" THEN "unknown" ELSE "taken") \in Notices
    BY DEF Notices
  <2> QED BY <1>6, <1>11, <1>12, <2>1, Zenon DEF Inform
<1>13. {"taken", "created", "refused", "accepted", "unknown"} \subseteq Notices
  BY DEF Notices
<1>14. ASSUME Register PROVE TypeOK'
  BY <1>6, <1>11, <1>13, <1>14, Zenon DEF Register
<1>15. ASSUME Identify PROVE TypeOK'
  BY <1>6, <1>11, <1>13, <1>15, Zenon DEF Identify
<1>16. ASSUME Interject PROVE TypeOK'
  BY <1>6, <1>16, LinesAreLines, NetType, TellType, Zenon DEF Interject
<1>17. ASSUME Grab \/ Lapse PROVE TypeOK'
  BY <1>6, <1>17, Zenon DEF Grab, Lapse, TypeOK
<1>18. ASSUME Break PROVE TypeOK'
  BY <1>6, <1>18, FreshTypes, Zenon DEF Break, TypeOK
<1>19. ASSUME UNCHANGED vars PROVE TypeOK'
  BY <1>19 DEF vars, TypeOK
<1> QED
  BY <1>1, <1>4, <1>5, <1>7, <1>8, <1>9, <1>10, <1>12, <1>14, <1>15, <1>16,
     <1>17, <1>18, <1>19, Zenon DEF Next, Network

\* The account's authentication has only states of its types, and only a
\* verified service has been sent credentials (nickService.accept).
THEOREM TypeCorrect == Spec => []TypeOK
  BY TypeInit, TypeStep, PTL DEF Spec

-----------------------------------------------------------------------------
(* Every step keeps the inductive invariant.                               *)

LEMMA ServiceInit == Init => ServiceInv
<1>1. SUFFICES ASSUME Init PROVE ServiceInv
  OBVIOUS
<1>2. reader.pc # "serving"
  BY <1>1 DEF Init, Away
<1>3. CredentialsOnce
  BY <1>1 DEF Init, NewNet, CredentialsOnce
<1> QED BY <1>1, <1>2, <1>3, TypeInit, Zenon
        DEF ServiceInv, Vouched, Uninformed, OneWelcome, ReceivedIsSent

\* A session that is over has nothing to say but what was received.
LEMMA Ended ==
  ASSUME ServiceInv, TypeOK', reader' = Away, net' = net PROVE ServiceInv'
<1>1. reader'.pc # "serving"
  BY DEF Away
<1>2. CredentialsOnce'
  BY Zenon DEF ServiceInv, CredentialsOnce
<1> QED BY <1>1, <1>2, Zenon
        DEF ServiceInv, Vouched, Uninformed, OneWelcome, ReceivedIsSent

LEMMA ConnectInv == ASSUME ServiceInv, TypeOK', Connect PROVE ServiceInv'
<1>1. /\ ~service'.operator /\ service'.sent = {} /\ inbox' = <<>>
      /\ net'.whois = <<>> /\ ~net'.genuine /\ net'.owes = {}
      /\ net'.got = [c \in Credentials |-> 0]
  BY DEF Connect, NewService, NewNet
<1>2. \A cmd : ~Coming(cmd)'
  BY <1>1 DEF Coming
<1>3. "313" \notin Range(net'.whois)
  BY <1>1 DEF Range
<1>4. \A c \in Credentials : net'.got[c] = 0
  BY <1>1
<1> HIDE DEF Coming
<1>5. Vouched'
  BY <1>1, <1>2, <1>3 DEF Vouched
<1>6. Uninformed'
  BY <1>1 DEF Uninformed
<1>7. OneWelcome'
  BY <1>1, <1>2 DEF OneWelcome
<1>8. ReceivedIsSent' /\ CredentialsOnce'
  BY <1>4 DEF ReceivedIsSent, CredentialsOnce
<1> QED BY <1>5, <1>6, <1>7, <1>8 DEF ServiceInv

\* The reader sends no credentials, and learns of no operator.
LEMMA ReadPlainly ==
  ASSUME ServiceInv, TypeOK', NEW line, Read(line),
         NEW command \in {"PONG", "INFO", ""}, NEW then,
         Writes(command, then),
         service'.sent = service.sent,
         service'.operator => service.operator \/ line.cmd = "313"
  PROVE  ServiceInv'
<1>1. CASE net' = net /\ reader' = Away
  BY <1>1, Ended
<1>2. CASE net' = Received(command) /\ reader' = then
  <2>1. /\ reader.pc = "serving" /\ Coming(line.cmd)
        /\ \A cmd : Coming(cmd)' => Coming(cmd)
        /\ \A i, j \in DOMAIN inbox' :
             inbox'[i].cmd = "001" /\ inbox'[j].cmd = "001" => i = j
    BY ReadTakes, Zenon DEF ServiceInv
  <2>2. /\ net'.genuine = net.genuine /\ net'.welcomed = net.welcomed
        /\ net'.whois = net.whois
        /\ "WHOIS" \in net'.owes => "WHOIS" \in net.owes
        /\ \A c \in Credentials : net'.got[c] = net.got[c]
    <3>1. command \in Commands \cup {"PONG", ""} /\ command \notin Credentials
          /\ command # "WHOIS"
      BY DEF Commands, Credentials
    <3> QED BY <3>1, Written DEF ServiceInv
  <2> HIDE DEF Coming
  <2>3. service.operator \/ service'.operator => service.operator \/ Coming("313")
    BY <2>1
  <2>4. Vouched'
    BY <2>1, <2>2, <2>3 DEF ServiceInv, Vouched
  <2>5. Uninformed'
    BY <2>1, <2>2 DEF ServiceInv, Uninformed
  <2>6. OneWelcome'
    BY <2>1, <2>2 DEF ServiceInv, OneWelcome
  <2>7. ReceivedIsSent' /\ CredentialsOnce'
    BY <2>1, <2>2 DEF ServiceInv, ReceivedIsSent, CredentialsOnce
  <2> QED BY <2>4, <2>5, <2>6, <2>7 DEF ServiceInv
<1> QED BY <1>1, <1>2 DEF Writes

\* NickServ is verified, so the network vouched for it; the command has not
\* been sent in this session.
LEMMA ReadAndAuthenticate ==
  ASSUME ServiceInv, TypeOK', NEW line, Read(line),
         NEW command \in Credentials, NEW then,
         Writes(command, then),
         service.operator, command \notin service.sent,
         service'.sent = service.sent \cup {command}
  PROVE  ServiceInv'
<1>1. CASE net' = net /\ reader' = Away
  BY <1>1, Ended
<1>2. CASE net' = Received(command) /\ reader' = then
  <2>1. /\ reader.pc = "serving"
        /\ \A cmd : Coming(cmd)' => Coming(cmd)
        /\ \A i, j \in DOMAIN inbox' :
             inbox'[i].cmd = "001" /\ inbox'[j].cmd = "001" => i = j
    BY ReadTakes, Zenon DEF ServiceInv
  <2>2. /\ net'.genuine = net.genuine /\ net'.welcomed = net.welcomed
        /\ net'.whois = net.whois
        /\ "WHOIS" \in net'.owes => "WHOIS" \in net.owes
        /\ \A c \in Credentials :
             net'.got[c] = net.got[c]
               \/ (c = command /\ net'.got[c] = net.got[c] + 1)
    <3>1. command \in Commands \cup {"PONG", ""} /\ command # "WHOIS"
      BY DEF Commands, Credentials
    <3> QED BY <3>1, Written DEF ServiceInv
  <2> HIDE DEF Coming
  <2>3. net.genuine /\ net'.genuine
    BY <2>1, <2>2 DEF ServiceInv, Vouched
  <2>4. Vouched'
    BY <2>3 DEF Vouched
  <2>5. Uninformed'
    BY <2>1, <2>2, <2>3 DEF ServiceInv, Uninformed
  <2>6. OneWelcome'
    BY <2>1, <2>2 DEF ServiceInv, OneWelcome
  <2>7. \A c \in Credentials : net.got[c] \in Nat
    BY DEF ServiceInv, TypeOK
  <2>8. net.got[command] = 0
    BY <2>1, <2>7 DEF ServiceInv, ReceivedIsSent
  <2>9. ReceivedIsSent'
    BY <2>1, <2>2 DEF ServiceInv, ReceivedIsSent
  <2>10. CredentialsOnce'
    BY <2>2, <2>3, <2>8 DEF ServiceInv, CredentialsOnce
  <2> QED BY <2>4, <2>5, <2>6, <2>9, <2>10 DEF ServiceInv
<1> QED BY <1>1, <1>2 DEF Writes

LEMMA ReadServiceInv ==
  ASSUME ServiceInv, TypeOK', NEW line \in Lines, ReadService(line)
  PROVE  ServiceInv'
<1> DEFINE reply == Accept(ServiceNow, line)
<1>1. /\ ServiceNow \in Service /\ ServiceNow.sent = service.sent
      /\ ServiceNow.operator = service.operator
  BY ServiceNowType DEF ServiceInv, TypeOK
<1>2. Proper(ServiceNow, line, reply)
  BY <1>1, AcceptProper
<1>3. Read(line) /\ service' = reply.to /\ Writes(reply.command, reader)
  BY DEF ReadService
<1> HIDE DEF reply
<1>4. CASE reply.command \in Credentials
  <2>1. /\ ServiceNow.verified /\ reply.command \notin service.sent
        /\ service'.sent = service.sent \cup {reply.command}
    BY <1>1, <1>2, <1>3, <1>4 DEF Proper
  <2>2. service.operator
    BY <1>1, <2>1 DEF Service
  <2> QED BY <1>3, <1>4, <2>1, <2>2, ReadAndAuthenticate
<1>5. CASE reply.command \in {"INFO", ""}
  <2>1. /\ service'.sent = service.sent
        /\ service'.operator => service.operator \/ line.cmd = "313"
    BY <1>1, <1>2, <1>3, <1>5 DEF Proper, Credentials
  <2> QED BY <1>3, <1>5, <2>1, ReadPlainly
<1> QED BY <1>2, <1>4, <1>5 DEF Proper

LEMMA ReadPingInv == ASSUME ServiceInv, TypeOK', ReadPing PROVE ServiceInv'
<1>1. service'.sent = service.sent /\ service'.operator = service.operator
  BY ServiceNowType DEF ReadPing, ServiceInv, TypeOK
<1> QED BY <1>1, ReadPlainly DEF ReadPing

LEMMA ReadWelcomeInv == ASSUME ServiceInv, TypeOK', ReadWelcome PROVE ServiceInv'
<1> DEFINE then == [reader EXCEPT !.welcome = TRUE, !.late = FALSE]
<1>1. Read(Numeric("001")) /\ Writes("WHOIS", then) /\ service' = service
  BY DEF ReadWelcome
<1> HIDE DEF then
<1>2. CASE net' = net /\ reader' = Away
  BY <1>2, Ended
<1>3. CASE net' = Received("WHOIS") /\ reader' = then
  <2>1. Numeric("001").cmd = "001"
    BY DEF Numeric, Line
  <2>2. /\ reader.pc = "serving" /\ Coming("001") /\ ~Coming("001")'
        /\ \A cmd : Coming(cmd)' => Coming(cmd)
        /\ \A i, j \in DOMAIN inbox' :
             inbox'[i].cmd = "001" /\ inbox'[j].cmd = "001" => i = j
    BY <1>1, <2>1, ReadTakes DEF ServiceInv
  <2>3. /\ net'.genuine = net.genuine /\ net'.welcomed = net.welcomed
        /\ net'.whois = net.whois
        /\ \A c \in Credentials : net'.got[c] = net.got[c]
    <3>1. "WHOIS" \in Commands \cup {"PONG", ""} /\ "WHOIS" \notin Credentials
      BY DEF Commands, Credentials
    <3> QED BY <1>1, <3>1, Written DEF ServiceInv
  <2> HIDE DEF Coming
  <2>4. Vouched'
    BY <1>1, <2>2, <2>3 DEF ServiceInv, Vouched
  <2>5. Uninformed'
    BY <1>1, <2>2, <2>3 DEF ServiceInv, Uninformed
  <2>6. OneWelcome'
    BY <2>2, <2>3 DEF ServiceInv, OneWelcome
  <2>7. ReceivedIsSent' /\ CredentialsOnce'
    BY <1>1, <2>2, <2>3 DEF ServiceInv, ReceivedIsSent, CredentialsOnce
  <2> QED BY <2>4, <2>5, <2>6, <2>7 DEF ServiceInv
<1> QED BY <1>1, <1>2, <1>3 DEF Writes

\* The reader's flags do not matter, nor who owns the nickname.
LEMMA SameSession ==
  ASSUME ServiceInv, TypeOK', reader'.pc = reader.pc, inbox' = inbox, net' = net,
         service'.sent = service.sent, service'.operator = service.operator
  PROVE  ServiceInv'
<1>1. \A cmd : Coming(cmd)' <=> Coming(cmd)
  BY DEF Coming
<1> HIDE DEF Coming
<1>2. Vouched'
  BY <1>1 DEF ServiceInv, Vouched
<1>3. Uninformed'
  BY <1>1 DEF ServiceInv, Uninformed
<1>4. OneWelcome'
  BY <1>1 DEF ServiceInv, OneWelcome
<1>5. ReceivedIsSent' /\ CredentialsOnce'
  BY DEF ServiceInv, ReceivedIsSent, CredentialsOnce
<1> QED BY <1>2, <1>3, <1>4, <1>5 DEF ServiceInv

LEMMA WelcomeInv == ASSUME ServiceInv, TypeOK', Welcome PROVE ServiceInv'
<1> DEFINE after == [net EXCEPT !.welcomed = TRUE]
<1>1. ~net.welcomed /\ Tells(Numeric("001"), after)
  BY DEF Welcome
<1>2. /\ after.genuine = net.genuine /\ after.whois = net.whois
      /\ after.owes = net.owes /\ after.got = net.got /\ after.welcomed
  BY DEF ServiceInv, TypeOK
<1> HIDE DEF after
<1>3. Numeric("001").cmd = "001" /\ Numeric("001") \in AnyLine
  BY LinesAreLines DEF Numeric, Line
<1>4. reader.pc = "serving" /\ ~Coming("001") /\ "WHOIS" \notin net.owes
  BY <1>1 DEF Tells, ServiceInv, OneWelcome
<1>5. /\ reader' = reader /\ net' = after /\ service' = service
      /\ \A cmd : Coming(cmd)' => Coming(cmd) \/ cmd = "001"
      /\ \A i, j \in DOMAIN inbox' :
           inbox'[i].cmd = "001" /\ inbox'[j].cmd = "001" => i = j
  BY <1>1, <1>3, <1>4, TellAdds DEF ServiceInv
<1> HIDE DEF Coming
<1>6. Vouched'
  BY <1>2, <1>5 DEF ServiceInv, Vouched
<1>7. Uninformed'
  BY <1>1, <1>2, <1>4, <1>5 DEF ServiceInv, Uninformed
<1>8. OneWelcome'
  BY <1>2, <1>4, <1>5 DEF ServiceInv, OneWelcome
<1>9. ReceivedIsSent' /\ CredentialsOnce'
  BY <1>2, <1>5 DEF ServiceInv, ReceivedIsSent, CredentialsOnce
<1> QED BY <1>6, <1>7, <1>8, <1>9 DEF ServiceInv

\* Nothing is known before the answer, so it alone decides who vouches.
LEMMA AnswerWhoisInv == ASSUME ServiceInv, TypeOK', AnswerWhois PROVE ServiceInv'
<1>1. "WHOIS" \in net.owes
  BY DEF AnswerWhois
<1>2. PICK answer \in Identities :
        Tells(Numeric(Head(answer)),
              [net EXCEPT !.owes = @ \ {"WHOIS"}, !.whois = Tail(answer),
                          !.genuine = "313" \in Range(answer)])
  BY Zenon DEF AnswerWhois
<1> DEFINE after == [net EXCEPT !.owes = @ \ {"WHOIS"}, !.whois = Tail(answer),
                                !.genuine = "313" \in Range(answer)]
           first == Head(answer)
<1>3. /\ after.genuine = ("313" \in Range(answer)) /\ after.whois = Tail(answer)
      /\ after.owes = net.owes \ {"WHOIS"} /\ after.got = net.got
      /\ after.welcomed = net.welcomed
  BY DEF ServiceInv, TypeOK
<1>4. /\ first \in Answers /\ first # "313" /\ first # "001"
      /\ "313" \in Range(after.whois) => after.genuine
  BY <1>3, IdentityType DEF Answers
<1>5. Tells(Numeric(first), after)
  BY <1>2
<1> HIDE DEF after, first
<1>6. Numeric(first).cmd = first /\ Numeric(first) \in AnyLine
  BY <1>4, LinesAreLines DEF Numeric, Line
<1>7. /\ reader.pc = "serving" /\ reader' = reader /\ net' = after
      /\ service' = service
      /\ Coming("001")' => Coming("001")
      /\ Coming("313")' => Coming("313")
      /\ \A i, j \in DOMAIN inbox' :
           inbox'[i].cmd = "001" /\ inbox'[j].cmd = "001" => i = j
  BY <1>4, <1>5, <1>6, TellAdds DEF ServiceInv
<1> HIDE DEF Coming
<1>8. /\ ~net.genuine /\ service.sent = {} /\ ~service.operator
      /\ ~Coming("313") /\ ~Coming("001") /\ net.welcomed
  BY <1>1, <1>7 DEF ServiceInv, Uninformed, Vouched, OneWelcome
<1>9. Vouched'
  BY <1>4, <1>7, <1>8 DEF Vouched
<1>10. Uninformed'
  BY <1>3, <1>7, <1>8 DEF Uninformed
<1>11. OneWelcome'
  BY <1>3, <1>7, <1>8 DEF OneWelcome
<1>12. ReceivedIsSent'
  BY <1>3, <1>7 DEF ServiceInv, ReceivedIsSent
<1>13. CredentialsOnce'
  BY <1>3, <1>7, <1>8 DEF ServiceInv, CredentialsOnce
<1> QED BY <1>9, <1>10, <1>11, <1>12, <1>13 DEF ServiceInv

LEMMA ContinueWhoisInv ==
  ASSUME ServiceInv, TypeOK', ContinueWhois PROVE ServiceInv'
<1> DEFINE after == [net EXCEPT !.whois = Tail(@)]
           next == Head(net.whois)
<1>1. net.whois # <<>> /\ Tells(Numeric(next), after)
  BY DEF ContinueWhois
<1>2. /\ after.genuine = net.genuine /\ after.whois = Tail(net.whois)
      /\ after.owes = net.owes /\ after.got = net.got
      /\ after.welcomed = net.welcomed
  BY DEF ServiceInv, TypeOK
<1>3. net.whois \in Seq(Answers)
  BY DEF ServiceInv, TypeOK
<1>4. /\ next \in Answers /\ next = net.whois[1] /\ 1 \in DOMAIN net.whois
      /\ \A i \in DOMAIN Tail(net.whois) :
           i + 1 \in DOMAIN net.whois /\ Tail(net.whois)[i] = net.whois[i + 1]
  BY <1>1, <1>3, Shifted
<1>5. /\ next # "001"
      /\ next = "313" => "313" \in Range(net.whois)
  BY <1>4 DEF Answers, Range
<1>6. "313" \in Range(Tail(net.whois)) => "313" \in Range(net.whois)
  BY <1>4 DEF Range
<1> HIDE DEF after, next
<1>7. Numeric(next).cmd = next /\ Numeric(next) \in AnyLine
  BY <1>4, LinesAreLines DEF Numeric, Line
<1>8. /\ reader.pc = "serving" /\ reader' = reader /\ net' = after
      /\ service' = service
      /\ Coming("001")' => Coming("001")
      /\ Coming("313")' => Coming("313") \/ "313" \in Range(net.whois)
      /\ \A i, j \in DOMAIN inbox' :
           inbox'[i].cmd = "001" /\ inbox'[j].cmd = "001" => i = j
  BY <1>1, <1>5, <1>7, TellAdds DEF ServiceInv
<1> HIDE DEF Coming
<1>9. Vouched'
  BY <1>2, <1>6, <1>8 DEF ServiceInv, Vouched
<1>10. Uninformed'
  BY <1>2, <1>8 DEF ServiceInv, Uninformed
<1>11. OneWelcome'
  BY <1>2, <1>8 DEF ServiceInv, OneWelcome
<1>12. ReceivedIsSent' /\ CredentialsOnce'
  BY <1>2, <1>8 DEF ServiceInv, ReceivedIsSent, CredentialsOnce
<1> QED BY <1>9, <1>10, <1>11, <1>12 DEF ServiceInv

LEMMA AnswerInv ==
  ASSUME ServiceInv, TypeOK', NEW command, NEW text \in Notices,
         Answer(command, text)
  PROVE  ServiceInv'
<1> DEFINE after == [net EXCEPT !.owes = @ \ {command}]
           line == Line("NOTICE", text, "service")
<1>1. Tells(line, after)
  BY DEF Answer
<1>2. /\ after.genuine = net.genuine /\ after.whois = net.whois
      /\ after.owes \subseteq net.owes /\ after.got = net.got
      /\ after.welcomed = net.welcomed
  BY DEF ServiceInv, TypeOK
<1>3. line \in AnyLine /\ line.cmd \notin {"001", "313"}
  BY LinesAreLines DEF Line
<1> QED BY <1>1, <1>2, <1>3, Unsuspected

LEMMA InterjectInv == ASSUME ServiceInv, TypeOK', Interject PROVE ServiceInv'
<1> DEFINE after == [net EXCEPT !.spoken = TRUE]
<1>1. PICK text \in Notices, from \in {"service", "user"} :
        Tells(Line("NOTICE", text, from), after)
  BY DEF Interject
<1>2. /\ after.genuine = net.genuine /\ after.whois = net.whois
      /\ after.owes \subseteq net.owes /\ after.got = net.got
      /\ after.welcomed = net.welcomed
  BY DEF ServiceInv, TypeOK
<1>3. Line("NOTICE", text, from) \in AnyLine
      /\ Line("NOTICE", text, from).cmd \notin {"001", "313"}
  BY LinesAreLines DEF Line
<1> HIDE DEF after
<1> QED BY <1>1, <1>2, <1>3, Unsuspected

LEMMA PingInv == ASSUME ServiceInv, TypeOK', Ping PROVE ServiceInv'
<1>1. Numeric("PING") \in AnyLine /\ Numeric("PING").cmd \notin {"001", "313"}
  BY LinesAreLines DEF Numeric, Line
<1> QED BY <1>1, Unsuspected DEF Ping

LEMMA ServiceStep == ASSUME ServiceInv, [Next]_vars PROVE ServiceInv'
<1>1. TypeOK'
  BY TypeStep DEF ServiceInv
<1>2. ASSUME ServiceExpires PROVE ServiceInv'
  <2>1. service'.sent = service.sent /\ service'.operator = service.operator
    BY <1>2 DEF ServiceExpires, ServiceInv, TypeOK, Service
  <2> QED BY <1>1, <1>2, <2>1, SameSession DEF ServiceExpires
<1>3. ASSUME ReadTimesOut PROVE ServiceInv'
  BY <1>1, <1>3, Ended DEF ReadTimesOut
<1>4. ASSUME ReaderStep PROVE ServiceInv'
  BY <1>1, <1>2, <1>3, <1>4, ReadPingInv, ReadWelcomeInv, ReadServiceInv, Zenon
     DEF ReaderStep
<1>5. ASSUME Late PROVE ServiceInv'
  <2>1. reader'.pc = reader.pc
    BY <1>5 DEF Late, ServiceInv, TypeOK
  <2> QED BY <1>1, <1>5, <2>1, SameSession DEF Late
<1>6. ASSUME Inform \/ Register \/ Identify PROVE ServiceInv'
  <2>1. \A command : \A text \in Notices : Answer(command, text) => ServiceInv'
    BY <1>1, AnswerInv, Zenon
  <2>2. {"taken", "created", "refused", "accepted", "unknown"} \subseteq Notices
        /\ (IF owner = "nobody" THEN "unknown" ELSE "taken") \in Notices
    BY DEF Notices
  <2> QED BY <1>6, <2>1, <2>2, Zenon DEF Inform, Register, Identify
<1>7. ASSUME Grab \/ Lapse PROVE ServiceInv'
  BY <1>1, <1>7, SameSession, Zenon DEF Grab, Lapse
<1>8. ASSUME Break PROVE ServiceInv'
  BY <1>1, <1>8, Ended, Zenon DEF Break
<1>9. ASSUME UNCHANGED vars PROVE ServiceInv'
  BY <1>1, <1>9, SameSession DEF vars
<1> QED
  BY <1>1, <1>4, <1>5, <1>6, <1>7, <1>8, <1>9, ConnectInv, PingInv, WelcomeInv,
     AnswerWhoisInv, ContinueWhoisInv, InterjectInv, Zenon DEF Next, Network

\* The facts behind the authentication hold in all states: what shows NickServ
\* as a service comes from the network, and before the network has answered
\* nothing is known and no credentials are sent (joinAndDiscoverServices and
\* nickService.accept).
THEOREM ServiceInvariant == Spec => []ServiceInv
  BY ServiceInit, ServiceStep, PTL DEF Spec

\* In every session the account sends each credential command at most once,
\* and only to a service that the network showed as an operator, whatever
\* lines come from whom in whatever order (nickService.accept).
THEOREM CredentialsCorrect == Spec => []CredentialsOnce
<1>1. ServiceInv => CredentialsOnce
  BY DEF ServiceInv
<1> QED BY ServiceInvariant, <1>1, PTL

-----------------------------------------------------------------------------
(* Silence after the verdict.                                              *)

LEMMA DoneStaysDone ==
  ASSUME service \in Service, service.done PROVE ServiceNow.done
  BY DEF ServiceNow

LEMMA SilenceIsSilent == \A s : Silence(s).command = ""
  BY DEF Silence, Reply

\* What is written of a line, if it is no credentials, is not counted.
LEMMA NotCounted ==
  ASSUME TypeOK, NEW command \in {"PONG", "INFO", "WHOIS", ""}, NEW then,
         Writes(command, then)
  PROVE  net'.got = net.got
<1>1. command \notin Credentials
  BY DEF Credentials
<1>2. net.got = Received(command).got
  <2>1. CASE command \in {"WHOIS", "INFO"}
    BY <1>1, <2>1 DEF Received, TypeOK
  <2>2. CASE command \in {"PONG", ""}
    BY <1>1, <2>2 DEF Received
  <2> QED BY <2>1, <2>2
<1> QED BY <1>2, Zenon DEF Writes

LEMMA SilentStep ==
  ASSUME TypeOK, [Next]_vars, reader.pc = "serving", service.done
  PROVE  net'.got = net.got
<1>1. service \in Service
  BY DEF TypeOK
<1>2. ASSUME NEW line \in Lines, ReadService(line) PROVE net'.got = net.got
  <2>1. Accept(ServiceNow, line) = Silence(ServiceNow)
    BY <1>1, DoneStaysDone DEF Accept, Finished
  <2>2. Accept(ServiceNow, line).command = ""
    BY <2>1, SilenceIsSilent, Zenon
  <2>3. Writes("", reader)
    BY <1>2, <2>2 DEF ReadService
  <2> QED BY <2>3, NotCounted
<1>3. ASSUME ReadPing \/ ReadWelcome PROVE net'.got = net.got
  BY <1>3, NotCounted DEF ReadPing, ReadWelcome
<1>4. ~Connect
  BY DEF Connect, Away
<1>5. ASSUME NEW line, NEW after, after.got = net.got, Tells(line, after)
      PROVE  net'.got = net.got
  BY <1>5 DEF Tells
<1>6. ASSUME Network PROVE net'.got = net.got
  <2>1. /\ [net EXCEPT !.welcomed = TRUE].got = net.got
        /\ [net EXCEPT !.spoken = TRUE].got = net.got
        /\ [net EXCEPT !.whois = Tail(@)].got = net.got
        /\ \A c : [net EXCEPT !.owes = @ \ {c}].got = net.got
        /\ \A w, g : [net EXCEPT !.owes = @ \ {"WHOIS"}, !.whois = w,
                                 !.genuine = g].got = net.got
    BY DEF TypeOK
  <2>2. ASSUME Ping \/ Welcome \/ ContinueWhois PROVE net'.got = net.got
    BY <1>5, <2>1, <2>2, Zenon DEF Ping, Welcome, ContinueWhois
  <2>3. ASSUME AnswerWhois \/ Interject PROVE net'.got = net.got
    BY <1>5, <2>1, <2>3, Zenon DEF AnswerWhois, Interject
  <2>4. ASSUME NEW command, NEW text, Answer(command, text)
        PROVE  net'.got = net.got
    BY <1>5, <2>1, <2>4, Zenon DEF Answer
  <2>5. ASSUME Inform \/ Register \/ Identify PROVE net'.got = net.got
    BY <2>4, <2>5, Zenon DEF Inform, Register, Identify
  <2>6. ASSUME Grab \/ Lapse \/ Break PROVE net'.got = net.got
    BY <2>6, Zenon DEF Grab, Lapse, Break
  <2> QED BY <1>6, <2>2, <2>3, <2>5, <2>6, Zenon DEF Network
<1>7. ASSUME ServiceExpires \/ ReadTimesOut \/ Late \/ UNCHANGED vars
      PROVE  net'.got = net.got
  BY <1>7 DEF ServiceExpires, ReadTimesOut, Late, vars
<1> QED BY <1>2, <1>3, <1>4, <1>6, <1>7, Zenon DEF Next, ReaderStep

\* Once the authentication is over, by an answer or because time ran out, the
\* session sends no credentials (nickService.accept, which ignores all lines
\* once done, and the expiry in serveConnection).
THEOREM VerdictIsFinal == Spec => NoFurtherCredentials
<1>1. TypeOK /\ [Next]_vars
        => [reader.pc = "serving" /\ service.done /\ reader'.pc = "serving"
              => net'.got = net.got]_vars
  BY SilentStep
<1> QED BY TypeCorrect, <1>1, PTL DEF Spec, NoFurtherCredentials

-----------------------------------------------------------------------------
(* A session reports the truth about the nickname.                         *)

\* The nickname is reported as registered for a success of the service alone.
LEMMA RegisteredByConfirmation ==
  ASSUME NEW s, NEW line \in Lines, Accept(s, line).registered
  PROVE  Confirms(line)
<1>1. \A t : /\ ~Silence(t).registered /\ ~GivenUp(t).registered
             /\ \A c : ~Sends(t, c).registered /\ ~Reply(t, c, FALSE).registered
  BY DEF Silence, GivenUp, Sends, Reply
<1>2. \/ line.cmd \in Answers
      \/ line.cmd = "NOTICE" /\ line.arg \in Notices
  BY LineKinds
<1>3. ~Finished(s)
  BY <1>1, Zenon DEF Accept
<1>4. \A cmd \in Answers : ~Discover(s, cmd).registered
  BY <1>1 DEF Discover, Answers
<1>5. line.cmd = "NOTICE" /\ line.arg \in Notices
  BY <1>2, <1>3, <1>4 DEF Accept, Answers
<1>6. Heard(s, line) /\ Listen(s, line.arg).registered
  BY <1>1, <1>3, <1>5 DEF Accept
<1>7. line.arg \in {"accepted", "created"}
  BY <1>1, <1>5, <1>6 DEF Listen, Notices
<1> QED BY <1>5, <1>6, <1>7 DEF Confirms, Heard

\* What is on its way after a read was on its way before.
LEMMA ReadLeaves ==
  ASSUME TypeOK, NEW line, Read(line)
  PROVE  /\ reader.pc = "serving" /\ line \in AnyLine
         /\ \E i \in DOMAIN inbox : inbox[i] = line
         /\ \A j \in DOMAIN inbox' : \E i \in DOMAIN inbox : inbox[i] = inbox'[j]
<1>1. /\ inbox \in Seq(AnyLine) /\ inbox # <<>> /\ Head(inbox) = line
      /\ inbox' = Tail(inbox) /\ reader.pc = "serving"
  BY DEF TypeOK, Read
<1>2. /\ line \in AnyLine /\ line = inbox[1] /\ 1 \in DOMAIN inbox
      /\ DOMAIN inbox' = 1..(Len(inbox) - 1)
      /\ DOMAIN inbox = 1..Len(inbox)
      /\ \A i \in 1..(Len(inbox) - 1) : inbox'[i] = inbox[i + 1]
  BY <1>1, Shifted
<1>3. \A j \in DOMAIN inbox' : j + 1 \in DOMAIN inbox /\ inbox'[j] = inbox[j + 1]
  BY <1>1, <1>2
<1> QED BY <1>1, <1>2, <1>3, Zenon

\* The reader takes what it is told for no more than it says; what it writes
\* takes the nickname from nobody.
LEMMA ReadOwner ==
  ASSUME OwnerInv, NEW line, Read(line), NEW command, NEW then,
         Writes(command, then), reported' => reported \/ Confirms(line)
  PROVE  ConfirmedOwned' /\ RegisteredOwned'
<1>1. /\ reader.pc = "serving"
      /\ \E i \in DOMAIN inbox : inbox[i] = line
      /\ \A j \in DOMAIN inbox' : \E i \in DOMAIN inbox : inbox[i] = inbox'[j]
  BY ReadLeaves, Zenon DEF OwnerInv
<1>2. owner = "account" => owner' = "account"
  BY DEF Writes
<1>3. Confirms(line) \/ reported => owner = "account"
  BY <1>1, Zenon DEF OwnerInv, ConfirmedOwned, RegisteredOwned
<1>4. RegisteredOwned'
  BY <1>2, <1>3, Zenon DEF RegisteredOwned
<1>5. ASSUME NEW j \in DOMAIN inbox', Confirms(inbox'[j]) PROVE owner' = "account"
  <2>1. PICK i \in DOMAIN inbox : inbox[i] = inbox'[j]
    BY <1>1, <1>5
  <2> QED BY <1>1, <1>2, <1>5, <2>1, Zenon DEF OwnerInv, ConfirmedOwned
<1> QED BY <1>4, <1>5, Zenon DEF ConfirmedOwned

\* What the service confirms is so when it is told.
LEMMA TellOwner ==
  ASSUME OwnerInv, NEW line \in AnyLine, NEW after, Tells(line, after),
         Confirms(line) => owner' = "account",
         owner = "account" => owner' = "account"
  PROVE  ConfirmedOwned' /\ RegisteredOwned'
<1>1. /\ inbox \in Seq(AnyLine) /\ inbox' = Append(inbox, line)
      /\ reader.pc = "serving" /\ reader' = reader /\ reported' = reported
  BY DEF OwnerInv, TypeOK, Tells
<1>2. /\ DOMAIN inbox' = 1..(Len(inbox) + 1)
      /\ DOMAIN inbox = 1..Len(inbox) /\ Len(inbox) \in Nat
      /\ \A i \in 1..Len(inbox) : inbox'[i] = inbox[i]
      /\ inbox'[Len(inbox) + 1] = line
  BY <1>1, Appended
<1>3. \A j \in DOMAIN inbox' :
        inbox'[j] = line \/ (j \in DOMAIN inbox /\ inbox'[j] = inbox[j])
  BY <1>2
<1>4. RegisteredOwned'
  BY <1>1, Zenon DEF OwnerInv, RegisteredOwned
<1>5. ASSUME NEW j \in DOMAIN inbox', Confirms(inbox'[j]) PROVE owner' = "account"
  BY <1>1, <1>3, <1>5, Zenon DEF OwnerInv, ConfirmedOwned
<1> QED BY <1>4, <1>5, Zenon DEF ConfirmedOwned

LEMMA AwayOwner ==
  ASSUME reader' = Away PROVE ConfirmedOwned' /\ RegisteredOwned'
  BY DEF Away, ConfirmedOwned, RegisteredOwned

LEMMA PlainOwner ==
  ASSUME OwnerInv, reader'.pc = reader.pc, inbox' = inbox, reported' = reported,
         owner = "account" => owner' = "account"
  PROVE  ConfirmedOwned' /\ RegisteredOwned'
  BY Zenon DEF OwnerInv, ConfirmedOwned, RegisteredOwned

LEMMA ReaderOwner ==
  ASSUME OwnerInv, ReaderStep PROVE ConfirmedOwned' /\ RegisteredOwned'
<1>1. ASSUME ReadPing PROVE ConfirmedOwned' /\ RegisteredOwned'
  BY <1>1, ReadOwner, Zenon DEF ReadPing
<1>2. ASSUME ReadWelcome PROVE ConfirmedOwned' /\ RegisteredOwned'
  BY <1>2, ReadOwner, Zenon DEF ReadWelcome
<1>3. ASSUME NEW line \in Lines, ReadService(line)
      PROVE  ConfirmedOwned' /\ RegisteredOwned'
  <2> DEFINE reply == Accept(ServiceNow, line)
  <2>1. /\ Read(line) /\ Writes(reply.command, reader)
        /\ reported' = (reported \/ reply.registered)
    BY <1>3 DEF ReadService
  <2>2. reply.registered => Confirms(line)
    BY RegisteredByConfirmation
  <2> HIDE DEF reply
  <2>3. reported' => reported \/ Confirms(line)
    BY <2>1, <2>2, Zenon
  <2> QED BY <2>1, <2>3, ReadOwner, Zenon
<1>4. ASSUME ServiceExpires PROVE ConfirmedOwned' /\ RegisteredOwned'
  BY <1>4, PlainOwner, Zenon DEF ServiceExpires
<1>5. ASSUME ReadTimesOut PROVE ConfirmedOwned' /\ RegisteredOwned'
  BY <1>5, AwayOwner, Zenon DEF ReadTimesOut
<1> QED BY <1>1, <1>2, <1>3, <1>4, <1>5, Zenon DEF ReaderStep

LEMMA NetworkOwner ==
  ASSUME OwnerInv, Network PROVE ConfirmedOwned' /\ RegisteredOwned'
<1> DEFINE Kept == ConfirmedOwned' /\ RegisteredOwned'
<1>1. \A cmd : ~Confirms(Numeric(cmd))
  BY DEF Confirms, Numeric, Line
<1>2. \A text, from : Confirms(Line("NOTICE", text, from))
                        => from = "service" /\ text \in {"accepted", "created"}
  BY DEF Confirms, Line
<1>3. ASSUME Ping \/ Welcome PROVE Kept
  BY <1>1, <1>3, LinesAreLines, TellOwner DEF Ping, Welcome
<1>4. ASSUME AnswerWhois PROVE Kept
  <2>1. PICK answer \in Identities :
          \E after : Tells(Numeric(Head(answer)), after)
    BY <1>4, Zenon DEF AnswerWhois
  <2>2. Numeric(Head(answer)) \in AnyLine
    BY IdentityType, LinesAreLines, Zenon
  <2>3. owner' = owner
    BY <1>4, Zenon DEF AnswerWhois
  <2> QED BY <1>1, <2>1, <2>2, <2>3, TellOwner, Zenon
<1>5. ASSUME ContinueWhois PROVE Kept
  <2>1. Numeric(Head(net.whois)) \in AnyLine
    BY <1>5, NetType, LinesAreLines, Zenon DEF ContinueWhois, OwnerInv
  <2> QED BY <1>1, <1>5, <2>1, TellOwner, Zenon DEF ContinueWhois
<1>6. ASSUME NEW command, NEW text \in Notices, Answer(command, text),
             text \in {"accepted", "created"} => owner' = "account",
             owner = "account" => owner' = "account"
      PROVE  Kept
  <2>1. /\ Line("NOTICE", text, "service") \in AnyLine
        /\ \E after : Tells(Line("NOTICE", text, "service"), after)
    BY <1>6, LinesAreLines, Zenon DEF Answer
  <2>2. Confirms(Line("NOTICE", text, "service")) => owner' = "account"
    BY <1>2, <1>6, Zenon
  <2> QED BY <1>6, <2>1, <2>2, TellOwner, Zenon
<1>7. {"taken", "created", "refused", "accepted", "unknown"} \subseteq Notices
  BY DEF Notices
<1>8. ASSUME Inform PROVE Kept
  <2>1. (IF owner = "nobody" THEN "unknown" ELSE "taken") \in {"unknown", "taken"}
    OBVIOUS
  <2>2. "unknown" \notin {"accepted", "created"} /\ "taken" \notin {"accepted", "created"}
    OBVIOUS
  <2> QED BY <1>6, <1>7, <1>8, <2>1, <2>2 DEF Inform
<1>9. ASSUME Register PROVE Kept
  <2>1. CASE owner # "nobody" /\ Answer("REGISTER", "taken") /\ UNCHANGED owner
    BY <1>6, <1>7, <2>1
  <2>2. CASE owner = "nobody" /\ Answer("REGISTER", "created") /\ owner' = "account"
    BY <1>6, <1>7, <2>2
  <2>3. CASE owner = "nobody" /\ Answer("REGISTER", "refused") /\ UNCHANGED owner
    BY <1>6, <1>7, <2>3
  <2> QED BY <1>9, <2>1, <2>2, <2>3, Zenon DEF Register
<1>10. ASSUME Identify PROVE Kept
  <2>1. CASE owner = "account" /\ Answer("IDENTIFY", "accepted") /\ UNCHANGED owner
    BY <1>6, <1>7, <2>1
  <2>2. CASE Answer("IDENTIFY", "refused") /\ UNCHANGED owner
    BY <1>6, <1>7, <2>2
  <2>3. CASE Answer("IDENTIFY", "unknown") /\ UNCHANGED owner
    BY <1>6, <1>7, <2>3
  <2> QED BY <1>10, <2>1, <2>2, <2>3, Zenon DEF Identify
<1>11. ASSUME Interject PROVE Kept
  <2>1. PICK text \in Notices, from \in {"service", "user"} :
          /\ from = "service" => text = "taken"
          /\ \E after : Tells(Line("NOTICE", text, from), after)
    BY <1>11, Zenon DEF Interject
  <2>2. ~Confirms(Line("NOTICE", text, from))
    BY <1>2, <2>1
  <2>3. Line("NOTICE", text, from) \in AnyLine
    BY LinesAreLines, Zenon
  <2>4. owner' = owner
    BY <1>11, Zenon DEF Interject
  <2> QED BY <2>1, <2>2, <2>3, <2>4, TellOwner, Zenon
<1>12. ASSUME Grab PROVE Kept
  <2>1. owner = "account" => owner' = "account"
    BY <1>12 DEF Grab
  <2> QED BY <1>12, <2>1, PlainOwner, Zenon DEF Grab
<1>13. ASSUME Lapse \/ Break PROVE Kept
  BY <1>13, AwayOwner, Zenon DEF Lapse, Break
<1> QED BY <1>3, <1>4, <1>5, <1>8, <1>9, <1>10, <1>11, <1>12, <1>13, Zenon
        DEF Network

LEMMA OwnerStep == ASSUME OwnerInv, [Next]_vars PROVE OwnerInv'
<1>1. TypeOK'
  BY TypeStep DEF OwnerInv
<1>2. ASSUME Connect PROVE ConfirmedOwned' /\ RegisteredOwned'
  <2>1. inbox' = <<>> /\ reported' = FALSE
    BY <1>2 DEF Connect
  <2> QED BY <2>1 DEF ConfirmedOwned, RegisteredOwned
<1>3. ASSUME Late PROVE ConfirmedOwned' /\ RegisteredOwned'
  <2>1. reader'.pc = reader.pc
    BY <1>3 DEF Late, OwnerInv, TypeOK
  <2> QED BY <1>3, <2>1, PlainOwner, Zenon DEF Late
<1>4. ASSUME UNCHANGED vars PROVE ConfirmedOwned' /\ RegisteredOwned'
  BY <1>4, PlainOwner, Zenon DEF vars
<1> QED BY <1>1, <1>2, <1>3, <1>4, ReaderOwner, NetworkOwner, Zenon
        DEF Next, OwnerInv

\* A success that is on its way to the session is true, and stays true until
\* it is read: others register only a nickname that nobody has, and the
\* service drops none that is in use (accept, serveConnection).
THEOREM OwnerInvariant == Spec => []OwnerInv
<1>1. Init => OwnerInv
  BY TypeInit DEF Init, Away, OwnerInv, ConfirmedOwned, RegisteredOwned
<1> QED BY <1>1, OwnerStep, PTL DEF Spec

\* A session that reports the account as registered has made it, or found it,
\* the owner of its nickname, however many lines are on their way and whoever
\* else speaks or registers meanwhile (nickService.accept and the "registered"
\* event of serveConnection).
THEOREM ReportsOwner == Spec => []RegisteredOwned
<1>1. OwnerInv => RegisteredOwned
  BY DEF OwnerInv
<1> QED BY OwnerInvariant, <1>1, PTL

=============================================================================
