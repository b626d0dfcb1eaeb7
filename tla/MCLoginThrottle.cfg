SPECIFICATION FairSpec
CONSTANTS
  a1 = a1
  a2 = a2
  a3 = a3
  Attempt = {a1, a2, a3}
  MaxFailures = 2
  Window = 2
  CountBound = 5
  Faults = {"crash", "redis"}
INVARIANTS GuessBound CounterExpires
PROPERTIES LockoutLifts
