CONSTANTS
  i1 = i1
  r1 = r1
  r2 = r2
  r3 = r3
  u = u
  v = v
  NoRow = NoRow
  Ids = {i1}
  Requests = {r1, r2, r3}
  Settings = {"url"}
  Values = {u, v}

SPECIFICATION Spec
CHECK_DEADLOCK FALSE

PROPERTY OnlyNamedColumnsChange
