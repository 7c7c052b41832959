CONSTANTS
  p1 = p1
  p2 = p2
  s1 = s1
  s2 = s2
  k1 = k1
  k2 = k2
  Nobody = Nobody
  Publishers = {p1, p2}
  Subscribers = {s1, s2}
  Closers = {k1, k2}
  Buffer = 2
  MaxPublish = 2

SPECIFICATION FairSpec
CHECK_DEADLOCK FALSE

INVARIANTS
  TypeOK
  NoSendOnClosedChannel
  OrderOfPublisherKept
  

PROPERTY CloseReturns
