SPECIFICATION JobSpec
CONSTANTS
  o1 = o1
  a = a
  b = b
  c = c
  r1 = r1
  r2 = r2
  t1 = t1
  t2 = t2
  Jobs = {j1}
  NoOffer = NoOffer
  Offers = {o1}
  Orders = {a, b, c}
  Refunds = {r1, r2}
  Returns = {t1, t2}
  OrderOffer <- MCOrderOffer
  Body <- MCBody
  Currencies = {"USD", "EUR"}
  Malformed = Malformed
  RefundOrder <- MCRefundOrder
  RefundAmount <- MCRefundAmount
  ReturnOrder <- MCReturnOrder
  OrderMessages <- JobOrderMessages
  RefundMessages <- OneRefundMessage
  ReturnMessages <- JobReturnMessages
  MaxCrashes = 0
CHECK_DEADLOCK FALSE
INVARIANTS
  StaleMatureExcluded
