SPECIFICATION FairSpec
CONSTANTS
  o1 = o1
  w1 = w1
  w2 = w2
  Op = {o1}
  Worker = {w1, w2}
  NoWorker = NoWorker
  MaxWrites = 3
  CanDelete = TRUE
  Faults = {}
PROPERTIES AnswersSettle
