SPECIFICATION Spec
CONSTANTS
  s1 = s1
  s2 = s2
  r1 = r1
  Conn = {s1, s2, r1}
  NoConn = NoConn
  Token <- Reconnecting
  Capacity = 2
  Unreliable = {s1, s2, r1}
  IdleTTL = 1
  ActiveTTL = 1
  MaxMessages <- Silent
PROPERTY NoFalseDeparture
CHECK_DEADLOCK FALSE
