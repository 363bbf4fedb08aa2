CONSTANTS
  ALWAYS_FORWARD = 5
  MSG_RESEND_TIMES = 10
  Draws <- AllDraws
  MaxSeen = 16
SPECIFICATION RelaySpec
 
PROPERTIES OriginAnswered FallsSilent
CHECK_DEADLOCK FALSE
