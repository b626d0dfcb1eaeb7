SPECIFICATION Spec
CONSTANTS
  Request = {r1, r2}
  Metric = {m1, m2}
  MaxSections = 2
  MaxPins = 2
  Faults = {"db", "graph"}
SYMMETRY Same
CHECK_DEADLOCK FALSE
INVARIANTS TypeOK PlacesDistinct AnswersTrue EdgesFollowPins
