\* Two requests that may carry the same text; any statement of the store may fail.
CONSTANTS
  h1 = h1  h2 = h2  r1 = r1  r2 = r2
  plain = plain  korean = korean  hello = hello  annyeong = annyeong
  Handlers = {h1, h2}
  Requests = {r1, r2}
  Bodies = {korean}
  Texts = {hello, annyeong}
  MaxPending = 2
  SendWindow = 1
  EchoWindow = 2
  Retention = 3
  StoreMayFail = TRUE
  MaxTime = 3
  LastAdmission = 1
  MaxRestarts = 1
  WireForms <- MCTwoForms
  Translated = {korean}
  NoReq = NoReq  NoBody = NoBody  NoText = NoText
SPECIFICATION Spec
SYMMETRY Symmetric
CHECK_DEADLOCK FALSE
INVARIANTS SentOnce FailedNeverSent EchoesMatched
PROPERTIES EchoAttributed ContractSpec
