SPECIFICATION AdapterFairSpec
CONSTANTS
  Callers = {c1, c2}
  LocalCalls = {"merchant_accepted", "merchant_declined"}
  CheckoutIds = FALSE
  MaxHistory = 6
  MaxFaults = 1
  Histories = {}
PROPERTIES
  RecordKept
  WebhooksApplied
CHECK_DEADLOCK FALSE
