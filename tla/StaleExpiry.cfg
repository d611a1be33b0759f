SPECIFICATION Spec
CONSTANTS
  r1 = r1
  r2 = r2
  s1 = s1
  s2 = s2
  Req <- Handlers2
  Stores <- OneStore
  MaxAttempts = 1
  CheckoutMethods = {"promptpay"}
  Handlers = {"createCharge", "webhook", "expiry"}
  AdminTargets = {}
  MaxFaults = 0
SYMMETRY MCSymmetry
PROPERTIES ExpiryFailsPaymentOnly
CHECK_DEADLOCK FALSE
