SPECIFICATION Spec
CONSTANTS
  u1 = u1
  u2 = u2
  r1 = r1
  r2 = r2
  User = {u1, u2}
  Request = {r1, r2}
  NoRequest = NoRequest
  NoUser = NoUser
SYMMETRY Symmetry
INVARIANTS Administrable
