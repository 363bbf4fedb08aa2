CONSTANTS
  n1 = n1 n2 = n2 n3 = n3 n4 = n4 c1 = c1 c2 = c2
  Node = {n1, n2, n3, n4}
  Chat = {c1}
  Origin <- OriginOf
  Neighbours <- Line
  MAXMSGS = 1
  SeenCap = 3
  ALWAYS_FORWARD = 1
  MSG_RESEND_TIMES = 1
  Draws = {0, 99}
  WaitAck = FALSE
  Lossy = FALSE
  SendErrors = FALSE
  MaxCopies = 1
  MaxVictims = 0
  MaxRestarts = 0
  Early = {n1, n2, n3, n4}
  Idle = Idle
SPECIFICATION FairSpec
INVARIANTS ListsNeighbours
PROPERTY EveryoneHears
CHECK_DEADLOCK FALSE
