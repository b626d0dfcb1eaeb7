SPECIFICATION FairSpec
CONSTANTS
  p1 = p1
  p2 = p2
  p3 = p3
  w1 = w1
  Report = {p1, p2, p3}
  Worker = {w1}
  User = {}
  NoActor = NoActor
  Frequency = {"hourly"}
  Hourly = {"hourly"}
  Period <- PeriodOf
  Limit = 2
  MaxTime = 1
  MaxRows = 3
  MaxFaults = 1
  Faults = {"llm"}
CHECK_DEADLOCK FALSE
PROPERTY DueIsHandled
