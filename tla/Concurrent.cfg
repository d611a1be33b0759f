SPECIFICATION Spec
CONSTANTS
  r1 = r1
  r2 = r2
  s1 = s1
  s2 = s2
  Req <- Handlers2
  Stores <- OneStore
  MaxAttempts = 2
  CheckoutMethods = {"promptpay", "credit_card", "bank_transfer"}
  Handlers = {"createCharge", "webhook", "expiry", "stale", "bankTransfer", "vendorCancel"}
  AdminTargets = {}
  MaxFaults = 1
SYMMETRY MCSymmetry
INVARIANTS IndInv TypeOK PendingIsLatest PaidHasEvidence
CHECK_DEADLOCK FALSE
