CONSTANTS
  n1 = n1 n2 = n2 n3 = n3 n4 = n4 c1 = c1 c2 = c2
  Node = {n1, n2}
  Chat = {c1}
  Origin <- OriginOf
  Neighbours <- Pair
  MAXMSGS = 2
  SeenCap = 4
  ALWAYS_FORWARD = 2
  MSG_RESEND_TIMES = 3
  Draws = {0, 99}
  WaitAck = TRUE
  Lossy = TRUE
  SendErrors = TRUE
  MaxCopies = 2
  MaxVictims = 0
  MaxRestarts = 0
  Early = {n1, n2}
  Idle = Idle
SPECIFICATION FairSpec
INVARIANTS AckSound 
PROPERTIES SendReturns FloodDies
CHECK_DEADLOCK FALSE
