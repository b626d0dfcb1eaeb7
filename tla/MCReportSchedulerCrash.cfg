SPECIFICATION FairSpec
CONSTANTS
  p1 = p1
  p2 = p2
  w1 = w1
  Report = {p1, p2}
  Worker = {w1}
  User = {}
  NoActor = NoActor
  Frequency = {"hourly"}
  Hourly = {"hourly"}
  Period <- PeriodOf
  Limit = 1
  MaxTime = 2
  MaxRows = 2
  MaxFaults = 1
  Faults = {"llm", "db", "crash"}
CHECK_DEADLOCK FALSE
PROPERTY DueIsHandled
