SPECIFICATION Spec
CONSTANTS
  r1 = r1
  r2 = r2
  s1 = s1
  s2 = s2
  Req <- Handler1
  Stores <- TwoStores
  MaxAttempts = 2
  CheckoutMethods = {"promptpay", "credit_card", "bank_transfer"}
  Handlers <- AllHandlers
  AdminTargets = {"cancelled", "refunded"}
  MaxFaults = 1
INVARIANTS PaidIsFunded PendingChargeIsReferenced PaidMatchesTotal ReturnedStockIsNotOwed
PROPERTIES ImplementsContract
CHECK_DEADLOCK FALSE
