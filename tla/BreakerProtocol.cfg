CONSTANTS
  c1 = c1
  c2 = c2
  c3 = c3
  e1 = e1
  e2 = e2
  Callers = {c1, c2, c3}
  Endpoints = {e1, e2}
  NoCall = NoCall
  MaxResets = 1
  Threshold = 0
  DefaultThreshold = 2

SPECIFICATION Spec

INVARIANTS
  StateMatchesFailures
  OvershootBounded

PROPERTIES
  OpenIsLeftOnlyByLateSuccessOrReset
