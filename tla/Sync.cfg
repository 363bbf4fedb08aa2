CONSTANTS
  m1 = m1 m2 = m2 m3 = m3
  Peer = {1, 2, 3}
  Stranger = 4
  Msg = {m1, m2, m3}
  Hello = m1
  Dumps <- DumpsOf
  MAXMSGS = 3
  SeenCap = 3
  Vanish = TRUE
  MaxLive = 2
  Idle = Idle
SPECIFICATION Spec
INVARIANTS TypeOK NoneSkipped Complete AtMostTwice
PROPERTY Ends
CHECK_DEADLOCK FALSE
