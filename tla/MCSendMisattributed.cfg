\* The echo of one request confirms another that was never sent.
CONSTANTS
  h1 = h1  h2 = h2  r1 = r1  r2 = r2
  plain = plain  korean = korean  hello = hello  annyeong = annyeong
  Handlers = {h1, h2}
  Requests = {r1, r2}
  Bodies = {korean}
  Texts = {hello, annyeong}
  MaxPending = 2
  SendWindow = 1
  EchoWindow = 2
  Retention = 3
  StoreMayFail = FALSE
  MaxTime = 1
  LastAdmission = 1
  MaxRestarts = 0
  WireForms <- MCTwoForms
  Translated = {korean}
  NoReq = NoReq  NoBody = NoBody  NoText = NoText
SPECIFICATION Spec
SYMMETRY Symmetric
CHECK_DEADLOCK FALSE
INVARIANTS ConfirmedWasSent
