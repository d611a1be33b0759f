SPECIFICATION Spec
CONSTANTS
  Req = {r1, r2}
  Handlers = {"request", "trigger"}
  MinPayout = 1
  MaxEarned = 1
  MaxPayouts = 2
  MaxTransfers = 2
  MaxFaults = 0
INVARIANTS OneTransferPerPayout
CHECK_DEADLOCK FALSE
