CONSTANTS
  e1 = e1
  e2 = e2
  e3 = e3
  w1 = w1
  v1 = v1
  NoJob = NoJob
  Events = {v1}
  Endpoints = {e1, e2, e3}
  Workers = {w1}
  JobBuffer = 1
  Codes <- MCLiveCodes
  MaxRetries <- MCMaxRetries
  MaxBoots = 0
  Threshold = 1
  DefaultThreshold = 10

SPECIFICATION FairSpec
CONSTRAINT MCOneOrder
CHECK_DEADLOCK FALSE

INVARIANT LossIsBounded

PROPERTIES
  RequestIsAnswered
  AcceptedIsSettled
  ShutdownCompletes
