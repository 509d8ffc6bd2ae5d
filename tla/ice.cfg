SPECIFICATION FairSpec
CONSTANTS
  p1 = p1
  p2 = p2
  p3 = p3
  Pages = {p1, p2, p3}
  Ttl = 8
  Timeout = 1
  Horizon = 8
PROPERTIES AliveWhenServed MintedOnce EveryoneAnswered
CHECK_DEADLOCK FALSE
