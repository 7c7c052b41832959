CONSTANTS
  c1 = c1
  c2 = c2
  b1 = b1
  Clients = {c1, c2}
  Callers = {b1}
  SendBuffer = 1
  HubBuffer = 1
  MaxMessages = 3

SPECIFICATION FairSpec
CHECK_DEADLOCK FALSE

INVARIANTS
  TypeOK
  MapMatchesChannels
  NoGaps

PROPERTY DroppedClientEnds
