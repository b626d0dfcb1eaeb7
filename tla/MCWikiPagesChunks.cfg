SPECIFICATION Spec
CONSTANTS
  r1 = r1
  r2 = r2
  t0 = t0
  t1 = t1
  t2 = t2
  Request = {r1, r2}
  NoRequest = NoRequest
  Text = {t0, t1, t2}
  NoText = NoText
  Parts <- PartsOf
  MaxWrites = 3
  Faults = {}
CHECK_DEADLOCK FALSE
INVARIANT ChunksReplaced
