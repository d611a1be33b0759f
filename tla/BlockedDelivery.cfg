SPECIFICATION DeliverySpec
CONSTANTS
  r1 = r1
  r2 = r2
  s1 = s1
  s2 = s2
  Req <- Handler1
  Stores <- TwoStores
  MaxAttempts = 0
  CheckoutMethods = {"cod"}
  Handlers = {"vendorPaid", "acknowledge", "ship", "deliver", "applyHold", "holdSla"}
  AdminTargets = {}
  MaxFaults = 0
PROPERTIES ShippedGetsDelivered
CHECK_DEADLOCK FALSE
