CONSTANTS
  e1 = e1
  e2 = e2
  w1 = w1
  w2 = w2
  v1 = v1
  v2 = v2
  NoJob = NoJob
  Events = {v1, v2}
  Endpoints = {e1, e2}
  Workers = {w1, w2}
  JobBuffer = 1
  Codes <- MCCodes
  MaxRetries <- MCMaxRetries
  MaxBoots = 1
  Threshold = 1
  DefaultThreshold = 10

SPECIFICATION Spec
CONSTRAINT MCWorkload
SYMMETRY MCSymmetry
CHECK_DEADLOCK FALSE

INVARIANTS
  TypeOK
  OneOwner
  AtMostOnceAndLogged
  
  OrphanRowsAreExplained
  AckMeansDispatched
  NoSenderWhenClosed
  FeedMatchesLogs
  ErrorMeansNothingSent
  FailingEndpointIsSpared

PROPERTIES
  LedgerSpec
  BreakerSpec
  CutOffUntilRestart
