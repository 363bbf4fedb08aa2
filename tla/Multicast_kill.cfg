CONSTANTS
  n1 = n1 n2 = n2 n3 = n3 n4 = n4 c1 = c1 c2 = c2
  Node = {n1, n2}
  Chat = {c1}
  Origin <- OriginOf
  Neighbours <- Pair
  MAXMSGS = 1
  SeenCap = 3
  ALWAYS_FORWARD = 1
  MSG_RESEND_TIMES = 2
  Draws = {0, 99}
  WaitAck = TRUE
  Lossy = TRUE
  SendErrors = TRUE
  MaxCopies = 1
  MaxVictims = 1
  MaxRestarts = 1
  Early = {n1, n2}
  Idle = Idle
SPECIFICATION Spec
INVARIANTS TypeOK ShownIsAcked ShownOnce
PROPERTY KeepsPromise
CONSTRAINT Calm
CHECK_DEADLOCK FALSE
