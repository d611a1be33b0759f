SPECIFICATION FairSpec
CONSTANTS
  r1 = r1
  r2 = r2
  s1 = s1
  s2 = s2
  Req <- Handler1
  Stores <- OneStore
  MaxAttempts = 2
  CheckoutMethods = {"promptpay", "credit_card", "bank_transfer"}
  Handlers <- AllHandlers
  AdminTargets = {"cancelled", "refunded"}
  MaxFaults = 1
PROPERTIES UnpaidOrderEnds HeardIsRecorded
CHECK_DEADLOCK FALSE
