CONSTANTS
  n1 = n1 n2 = n2 n3 = n3 n4 = n4 c1 = c1 c2 = c2
  Node = {n1, n2}
  Chat = {}
  Origin <- OriginOf
  Neighbours <- Pair
  MAXMSGS = 3
  SeenCap = 3
  ALWAYS_FORWARD = 1
  MSG_RESEND_TIMES = 1
  Draws = {0, 99}
  WaitAck = TRUE
  Lossy = FALSE
  SendErrors = FALSE
  MaxCopies = 1
  MaxVictims = 0
  MaxRestarts = 0
  Early = {n1}
  Idle = Idle
SPECIFICATION FairSpec
 
PROPERTY Discovery
CHECK_DEADLOCK FALSE
