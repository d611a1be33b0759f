SPECIFICATION FairSpec
CONSTANTS
  r1 = r1
  r2 = r2
  s1 = s1
  s2 = s2
  Req <- Handlers2
  Stores <- OneStore
  MaxAttempts = 3
  CheckoutMethods = {"promptpay", "bank_transfer"}
  Handlers = {"createCharge"}
  AdminTargets = {}
  MaxFaults = 1
INVARIANTS PendingChargeIsReferenced
PROPERTIES HandlersEnd
CHECK_DEADLOCK FALSE
