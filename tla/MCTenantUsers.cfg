SPECIFICATION Spec
CONSTANTS
  u1 = u1
  u2 = u2
  u3 = u3
  r1 = r1
  r2 = r2
  User = {u1, u2, u3}
  Request = {r1, r2}
  NoRequest = NoRequest
  NoUser = NoUser
SYMMETRY Symmetry
PROPERTIES AuditTellsTruth LockoutNeedsRace OverlapsMerge
