SPECIFICATION FairSpec
CONSTANTS
  w1 = w1
  w2 = w2
  Workers = {w1, w2}
  Types = {"balance"}
  Callers = {}
PROPERTIES
  PaymentSettles
  DueOrderLeavesPending
CHECK_DEADLOCK FALSE
