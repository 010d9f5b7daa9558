\* Two posts of one request; the statements of the store work.
CONSTANTS
  h1 = h1  h2 = h2  r1 = r1  r2 = r2
  plain = plain  korean = korean  hello = hello  annyeong = annyeong
  Handlers = {h1, h2}
  Requests = {r1}
  Bodies = {plain, korean}
  Texts = {hello, annyeong}
  MaxPending = 2
  SendWindow = 1
  EchoWindow = 2
  Retention = 3
  StoreMayFail = FALSE
  MaxTime = 7
  LastAdmission = 4
  MaxRestarts = 1
  WireForms <- MCWireForms
  Translated = {korean}
  NoReq = NoReq  NoBody = NoBody  NoText = NoText
SPECIFICATION FairSpec
CHECK_DEADLOCK FALSE
INVARIANTS AnswersMatchBody
PROPERTIES SettledIsSilent RequestsSettle
