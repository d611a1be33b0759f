SPECIFICATION Spec
CONSTANTS
  r1 = r1
  r2 = r2
  s1 = s1
  s2 = s2
  Req <- Handlers2
  Stores <- TwoStores
  MaxAttempts = 0
  CheckoutMethods = {"cod"}
  Handlers = {"vendorPaid", "acknowledge", "ship", "tracking", "deliver", "applyHold", "restoreHold", "holdSla", "admin"}
  AdminTargets = {"cancelled", "refunded"}
  MaxFaults = 0
SYMMETRY MCSymmetry
INVARIANTS HeldLineHasSnapshot PaidOrderHasPaidAt
CHECK_DEADLOCK FALSE
