SPECIFICATION Spec
CONSTANTS
  o1 = o1
  a = a
  b = b
  c = c
  r1 = r1
  r2 = r2
  t1 = t1
  t2 = t2
  NoOffer = NoOffer
  Offers = {o1}
  Orders = {a, b, c}
  Refunds = {r1, r2}
  Returns = {t1, t2}
  OrderOffer <- MCOrderOffer
  Body <- MCBody
  Currencies = {"USD", "EUR"}
  Malformed = Malformed
  RefundOrder <- MCRefundOrder
  RefundAmount <- MCRefundAmount
  ReturnOrder <- MCReturnOrder
  OrderMessages <- MCOrderMessages
  RefundMessages <- MCRefundMessages
  ReturnMessages <- MCReturnMessages
  MaxCrashes = 1
CHECK_DEADLOCK FALSE
INVARIANTS
  OnceInOrder
  RefundCountedOnce
  AcknowledgedIsDone
  PaymentStateFollowsRefunds
