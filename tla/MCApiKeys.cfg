CONSTANTS
  i1 = i1
  i2 = i2
  m1 = m1
  m2 = m2
  u1 = u1
  u2 = u2
  l1 = l1
  l2 = l2
  l3 = l3
  k1 = k1
  r1 = r1
  r2 = r2
  NoUser = NoUser
  NoRow = NoRow
  NoKey = NoKey
  Identities = {i1, i2}
  Emails = {m1, m2}
  Users = {u1, u2}
  Logins = {l1, l2, l3}
  Keys = {k1}
  Requests = {r1, r2}

SPECIFICATION Spec
SYMMETRY MCSymmetry
CHECK_DEADLOCK FALSE

INVARIANTS
  TypeOK
  OneAccountUnlessMoved
  SessionIsOwn
  RevokedKeyIsRefused
  EventsReachTheirOwner
