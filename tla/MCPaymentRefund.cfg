SPECIFICATION Spec
CONSTANTS
  Admins = {w1, w2}
  Amount = 2
  Wealth = 3
  Otypes = {"balance", "subscription"}
  Deducts = {TRUE, FALSE}
  Scenarios = {{"deduct", "timeout", "audit"}, {"deduct", "timeout", "save", "audit", "crash"}, {"deduct", "rollback", "audit"}, {"rollback", "revoke", "decline"}}
SYMMETRY AdminSymmetry
INVARIANTS
  NoRefundWithoutGateway
  NeverGivesBackMore
  RefundingHasOwner
  OneExecutor
  NothingHeldWhenOpen
  RefundedTakesOnce
PROPERTIES
  RefundedIsFinal
CHECK_DEADLOCK FALSE
