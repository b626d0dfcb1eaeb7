SPECIFICATION FairSpec
CONSTANTS
  o1 = o1
  o2 = o2
  w1 = w1
  w2 = w2
  Op = {o1, o2}
  Worker = {w1, w2}
  NoWorker = NoWorker
  MaxWrites = 2
  CanDelete = FALSE
  Faults = {}
PROPERTIES AnswersSettle
