SPECIFICATION Spec
CONSTANTS
  w1 = w1
  w2 = w2
  Workers = {w1, w2}
  Types = {"balance", "subscription"}
  Callers = {"verify", "cancel", "retry", "repeat"}
SYMMETRY WorkerSymmetry
INVARIANTS
  DeliveredAtMostOnce
  NoDeliveryWithoutPayment
  CompletedIsDelivered
  PaidOrderStaysPaid
PROPERTY
  CompletedIsFinal
CHECK_DEADLOCK FALSE
