-------------------------- MODULE ShopifyPayloads --------------------------
(***************************************************************************)
(* What the webhook handlers take from the body of a delivery              *)
(* (shopify-order-webhooks.mjs, shopify-refund-webhooks.mjs and            *)
(* shopify-return-webhooks.mjs).  The signature, the headers and the JSON  *)
(* of a delivery are in order; its fields may be absent or unreadable.     *)
(*                                                                         *)
(* A field of a body is {} when it is absent or null, and {v} when it is   *)
(* v.  An amount is in minor units, and negative when the code's pattern   *)
(* for money refuses it: a sign, or a text that is no amount.              *)
(***************************************************************************)
EXTENDS Integers, FiniteSetsExt, SequencesExt

CONSTANTS Currencies,  \* three capital letters
          Malformed    \* the value of an attribute that is no transaction id

\* The ?? operator.
Else(field, other) == IF field # {} THEN field ELSE other

\* The value of a field that is there.
The(field) == CHOOSE v \in field : TRUE

Unreadable(amount) == \E n \in amount : n < 0

----------------------------------------------------------------------------
\* transactionIdFromAttributes: the first attribute with the name of the transaction id,
\* malformed or not.  `values' are those attributes.
FromAttributes(values) == IF values = <<>> THEN {} ELSE {Head(values)}

\* transactionIdFromTags: the first tag with a transaction id that is well formed.
FromTags(tags) == FromAttributes(SelectSeq(tags, LAMBDA tag : tag # Malformed))

\* extractTransactionId
NamedTransaction(body) ==
  Else(FromAttributes(body.note_attributes),
       Else(FromAttributes(body.customAttributes), FromTags(body.tags)))

\* normalizeCurrency, of an order.
OrderCurrency(body) == Else(body.presentment_currency, Else(body.currency, {"USD"}))

PaidObserved(body) == body.topic = "orders/paid" \/ body.financial_status = {"paid"}

\* normalizeShopifyOrderWebhook.  It throws, and the delivery is answered 400, at a malformed
\* transaction id or currency and at a total that is missing or no amount.
NormalizedOrder(body) ==
  LET named == NamedTransaction(body)
      currency == OrderCurrency(body)
      total == body.current_total_price
  IN  IF Malformed \in named \/ ~(currency \subseteq Currencies) \/ total = {} \/ Unreadable(total)
      THEN [readable |-> FALSE]
      ELSE [readable |-> TRUE, transaction |-> named, paid |-> PaidObserved(body),
            total |-> The(total), currency |-> The(currency)]

----------------------------------------------------------------------------
\* What a refund amounts to: an amount in a currency, or a person has to look into it, or the
\* body is refused.
Reconcile == [reading |-> "needs_reconciliation"]
Refused   == [reading |-> "refused"]
Known(amount, currency) == [reading |-> "amount", amount |-> amount, currency |-> currency]

\* A currency that is no code is none.
CurrencyCode(currency) == currency \cap Currencies

\* Mutant of SuccessfulRefunds: whatever its status.
AnyRefunds(transactions) == SelectSeq(transactions, LAMBDA t : t.kind = "refund")

\* successfulRefundTransactions
SuccessfulRefunds(transactions) ==
  SelectSeq(transactions, LAMBDA t : t.kind = "refund" /\ t.status = "success")

\* The sum both functions take: the first part that lacks its amount or its currency, or whose
\* amount cannot be read, settles it; then the currencies must agree.
SumOf(parts) ==
  LET lacking == {i \in DOMAIN parts :
                    \/ parts[i].amount = {} \/ Unreadable(parts[i].amount)
                    \/ CurrencyCode(parts[i].currency) = {}}
      currencies == UNION {CurrencyCode(parts[i].currency) : i \in DOMAIN parts}
  IN  IF lacking # {} THEN IF Unreadable(parts[Min(lacking)].amount) THEN Refused ELSE Reconcile
      ELSE IF Cardinality(currencies) # 1 THEN Reconcile
      ELSE Known(MapThenSumSet(LAMBDA i : The(parts[i].amount), DOMAIN parts), The(currencies))

\* moneyFromSet: shop_money, or else presentment_money.
FromSet(set) == Else(set.shop_money, set.presentment_money)

\* One part of the fallback, or none; an amount that is missing counts as zero.
Part(money) == SetToSeq({[m EXCEPT !.amount = Else(@, {0})] : m \in money})

\* sumFallbackRefundAmount: the lines in their order, for each its subtotal and its tax; then
\* shipping and adjustments, for each the first set there is.
FallbackParts(body) ==
  FlattenSeq([i \in DOMAIN body.refund_line_items |->
                LET item == body.refund_line_items[i]
                IN  Part(FromSet(item.subtotal_set)) \o Part(FromSet(item.total_tax_set))])
  \o FlattenSeq([i \in DOMAIN body.other_lines |->
                LET line == body.other_lines[i]
                IN  Part(Else(FromSet(line.first_set), FromSet(line.second_set)))])

\* refundAmount
RefundReading(body) ==
  LET own == SuccessfulRefunds(body.transactions)
  IN  IF own # <<>> THEN SumOf(own) ELSE SumOf(FallbackParts(body))

\* normalizeShopifyRefundWebhook.  The amount of a refund of no order is not looked at.
NormalizedRefund(body) ==
  LET reading == IF body.order_id = {} THEN Reconcile ELSE RefundReading(body)
  IN  [readable |-> reading # Refused, order |-> body.order_id # {}, amount |-> reading]

----------------------------------------------------------------------------
\* TOPIC_EXPOSURE_STATES
TopicExposure ==
  [t \in {"returns/request", "returns/approve", "returns/reopen"} |-> "open"]
    @@ [t \in {"returns/close", "returns/decline", "returns/cancel"} |-> "closed"]

\* normalizeShopifyReturnWebhook
NormalizedReturn(body) == [status |-> body.status, exposure |-> TopicExposure[body.topic]]
=============================================================================
