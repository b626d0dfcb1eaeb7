SPECIFICATION Spec
CONSTANTS
  p1 = p1
  w1 = w1
  w2 = w2
  u1 = u1
  Report = {p1}
  Worker = {w1, w2}
  User = {u1}
  NoActor = NoActor
  Frequency = {"hourly", "daily"}
  Hourly = {"hourly"}
  Period <- PeriodOf
  Limit = 1
  MaxTime = 2
  MaxRows = 2
  MaxFaults = 1
  Faults = {"llm", "db", "crash"}
SYMMETRY Symmetry
CHECK_DEADLOCK FALSE
INVARIANT AlwaysPunctual
