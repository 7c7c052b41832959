CONSTANTS
  e1 = e1
  e2 = e2
  w1 = w1
  v1 = v1
  NoJob = NoJob
  Events = {v1}
  Endpoints = {e2}
  Workers = {w1}
  JobBuffer = 1
  Codes <- MCCodes
  MaxRetries <- MCMaxRetries
  MaxBoots = 0
  Threshold = 1
  DefaultThreshold = 10

SPECIFICATION FairSpec
CHECK_DEADLOCK FALSE

PROPERTY RetryHappens
