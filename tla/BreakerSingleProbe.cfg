CONSTANTS
  c1 = c1
  c2 = c2
  e1 = e1
  Callers = {c1, c2}
  Endpoints = {e1}
  NoCall = NoCall
  MaxResets = 1
  Threshold = 0
  DefaultThreshold = 2

SPECIFICATION Spec

INVARIANT SingleProbe

