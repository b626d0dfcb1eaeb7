SPECIFICATION Spec
CONSTANTS
  Request = {r1, r2}
  Metric = {m1, m2}
  MaxSections = 2
  MaxPins = 2
  Faults = {"db", "graph"}

CHECK_DEADLOCK FALSE
PROPERTIES PinsKeepMetric
