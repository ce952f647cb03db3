SPECIFICATION FairSpec
CONSTANTS
  Tasks = {a, b}
  Capacity = 5
  MaxOps = 2
INVARIANTS SendingOrder AnswerFirst
PROPERTIES BlockReturns Delivered
CHECK_DEADLOCK FALSE
