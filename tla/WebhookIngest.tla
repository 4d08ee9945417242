--------------------------- MODULE WebhookIngest ---------------------------
(***************************************************************************)
(* From the Shopify order to refunds and returns: the three webhook        *)
(* handlers of counterpilot-server.mjs and the five files they append to.  *)
(*                                                                         *)
(* Shopify delivers a webhook at any time, in any order, and again until   *)
(* it is answered with success.  A handler holds the write queue: it reads *)
(* every file, decides, and appends its lines one at a time, the delivery  *)
(* id last.  `todo' is what is left of those lines.  A crash, or a write   *)
(* that fails, loses the rest, and the delivery comes again.               *)
(*                                                                         *)
(* MaturityJob adds the second process that writes to the offer log.       *)
(***************************************************************************)
EXTENDS OfferEvents, ShopifyPayloads

CONSTANTS Offers,          \* transactions whose buyer was sent to a checkout
          NoOffer,         \* no transaction
          Orders, Refunds, Returns,   \* what exists in Shopify
          OrderOffer,      \* the transaction an order was made for
          RefundOrder, RefundAmount, ReturnOrder,
          OrderMessages, RefundMessages, ReturnMessages,
                           \* the deliveries Shopify makes, by webhook id
          Body,            \* the body of a delivery, by webhook id
          MaxCrashes       \* bound: crashes and failed writes

Messages == OrderMessages \cup RefundMessages \cup ReturnMessages

ASSUME NoOfferAssumption == NoOffer \notin Offers
ASSUME ShopifyAssumption ==
  /\ OrderOffer   \in [Orders -> Offers \cup {NoOffer}]
  /\ RefundOrder  \in [Refunds -> Orders]
  /\ RefundAmount \in [Refunds -> Nat]
  /\ ReturnOrder  \in [Returns -> Orders]
\* `id' is X-Shopify-Webhook-Id; `local' that the shop is the store of the transaction.
ASSUME MessagesAssumption ==
  /\ OrderMessages  \subseteq [order : Orders, id : Nat, local : BOOLEAN]
  /\ RefundMessages \subseteq [refund : Refunds, id : Nat, local : BOOLEAN]
  /\ ReturnMessages \subseteq [return : Returns, id : Nat, local : BOOLEAN]

\* The deliveries as the handlers get them.
OrderWebhook  == [m \in OrderMessages  |-> NormalizedOrder(Body[m.id])]
RefundWebhook == [m \in RefundMessages |-> NormalizedRefund(Body[m.id])]
ReturnWebhook == [m \in ReturnMessages |-> NormalizedReturn(Body[m.id])]

\* An order that names a transaction names the one it was made for.
ASSUME BodyAssumption ==
  \A m \in OrderMessages : OrderWebhook[m].readable =>
    OrderWebhook[m].transaction \subseteq {OrderOffer[m.order]}

\* A sum of amounts that can be read, none of them negative (SumOf).
ASSUME AmountAssumption ==
  \A m \in RefundMessages : RefundWebhook[m].amount.reading = "amount" =>
    RefundWebhook[m].amount.amount \in Nat
ASSUME CrashesAssumption == MaxCrashes \in Nat

VARIABLES log,         \* offers.jsonl, the events after the checkout
          snap,        \* the replay of the whole of offers.jsonl
          orderRefs,   \* order_refs.jsonl
          refundRefs,  \* refund_refs.jsonl, the lines of each refund
          returnRefs,  \* return_refs.jsonl, the lines of each return
          deliveries,  \* shopify_webhook_deliveries.jsonl
          todo,        \* the appends the running handler has still to make
          crashes

files == <<log, snap, orderRefs, refundRefs, returnRefs, deliveries>>
ingestVars == <<files, todo, crashes>>

\* A transaction is either known to have a checkout, or Shopify made the
\* draft order and the server never wrote that down (Negotiation: a crash
\* after the draft order).  The amounts of the negotiation are not read here.
Checkout == [Blank EXCEPT !.state = "checkout_created", !.checkout = "created"]
Forgotten == [Blank EXCEPT !.state = "buyer_accepted", !.checkout = "started"]

Init ==
  /\ log        = [o \in Offers |-> <<>>]
  /\ snap      \in [Offers -> {Checkout, Forgotten}]
  /\ orderRefs  = {}
  /\ refundRefs = [r \in Refunds |-> <<>>]
  /\ returnRefs = [r \in Returns |-> <<>>]
  /\ deliveries = {}
  /\ todo       = <<>>
  /\ crashes    = 0

----------------------------------------------------------------------------
\* The appends of a handler: the file, and the line.
OrderLine(order)    == [to |-> "order_refs", line |-> order]
RefundLine(r, line) == [to |-> "refund_refs", ref |-> r, line |-> line]
ReturnLine(r, line) == [to |-> "return_refs", ref |-> r, line |-> line]
Event(o, e)         == [to |-> "offers", offer |-> o, line |-> e]
Delivery(m)         == [to |-> "deliveries", line |-> m]
When(condition, append) == IF condition THEN <<append>> ELSE <<>>

\* The transaction of an order's delivery, if the server knows it.
Named(m) ==
  LET own == OrderWebhook[m].transaction \cap Offers
  IN  IF own = {} THEN NoOffer ELSE The(own)

\* The order reference of a delivery is in order_refs.jsonl (hasOrderRef, findOrderRefByHash).
KnownOrder(order) == order \in orderRefs

\* createOrderCreatedEvent
OrderCreated == [type |-> "order_created", state |-> "order_created"]

\* createPaidEvent: the total and the currency are those of the delivery.
PaidEvent(m) ==
  [type |-> "paid", state |-> "paid", amount |-> OrderWebhook[m].total,
   currency |-> OrderWebhook[m].currency]

\* Mutants of OrderAppends: the paid event not looked for in the log, the
\* delivery id appended first.
OrderAppendsPaidAgain(m) ==
  LET o == Named(m)
  IN  IF o = NoOffer THEN <<Delivery(m)>>
      ELSE IF ~m.local \/ snap[o].state \notin OrderReadyStates THEN <<>>
      ELSE When(~KnownOrder(m.order), OrderLine(m.order))
           \o When(~HasEvent(log[o], "order_created"), Event(o, OrderCreated))
           \o When(OrderWebhook[m].paid, Event(o, PaidEvent(m)))
           \o <<Delivery(m)>>
OrderAppendsAckFirst(m) ==
  LET o == Named(m)
  IN  IF o = NoOffer THEN <<Delivery(m)>>
      ELSE IF ~m.local \/ snap[o].state \notin OrderReadyStates THEN <<>>
      ELSE <<Delivery(m)>>
           \o When(~KnownOrder(m.order), OrderLine(m.order))
           \o When(~HasEvent(log[o], "order_created"), Event(o, OrderCreated))
           \o When(OrderWebhook[m].paid /\ ~HasEvent(log[o], "paid"),
                   Event(o, PaidEvent(m)))

\* handleShopifyOrderWebhookPost.  No appends: answered 403 or 409, and
\* delivered again.
OrderAppends(m) ==
  LET o == Named(m)
  IN  IF o = NoOffer THEN <<Delivery(m)>>
      ELSE IF ~m.local \/ snap[o].state \notin OrderReadyStates THEN <<>>
      ELSE When(~KnownOrder(m.order), OrderLine(m.order))
           \o When(~HasEvent(log[o], "order_created"), Event(o, OrderCreated))
           \o When(OrderWebhook[m].paid /\ ~HasEvent(log[o], "paid"),
                   Event(o, PaidEvent(m)))
           \o <<Delivery(m)>>

----------------------------------------------------------------------------
\* hasProcessedRefundRef
ProcessedBefore(o, r) ==
  \E i \in DOMAIN refundRefs[r] :
     refundRefs[r][i] = [offer |-> o, status |-> "processed"]

\* The guards the refund and the return handler share, in the order they are
\* tested; "accepted" when the object belongs to a paid transaction.
Binding(order, local) ==
  IF ~KnownOrder(order) THEN "ignored_unknown_order"
  ELSE IF ~local THEN "ignored_order_binding_mismatch"
  ELSE IF snap[OrderOffer[order]].state \notin SettledStates THEN "held_before_paid"
  ELSE "accepted"

\* paid_currency
PaidCurrency(o) ==
  {log[o][i].currency : i \in {k \in DOMAIN log[o] : log[o][k].type = "paid"}}

\* The amount is known, in the currency the order was paid in.
AmountKnown(m) ==
  LET reading == RefundWebhook[m].amount
  IN  /\ reading.reading = "amount"
      /\ reading.currency \in PaidCurrency(OrderOffer[RefundOrder[m.refund]])

RefundOutcome(m) ==
  LET order   == RefundOrder[m.refund]
      binding == IF ~RefundWebhook[m].order THEN "ignored_unknown_order"
                 ELSE Binding(order, m.local)
  IN  IF binding # "accepted" THEN binding
      ELSE IF ~AmountKnown(m) THEN "needs_reconciliation"
      ELSE IF ProcessedBefore(OrderOffer[order], m.refund) THEN "duplicate_refund"
      ELSE "processed"

\* priorRefundTotalMinor
PriorRefundTotal(o) ==
  LET recorded == {i \in DOMAIN log[o] : log[o][i].type = "refund_recorded"}
  IN  SumFunction([i \in recorded |-> log[o][i].amount])

\* createRefundRecordedEvent
RefundRecorded(o, m) ==
  LET amount == RefundWebhook[m].amount.amount
      total  == PriorRefundTotal(o) + amount
  IN  [type |-> "refund_recorded", refund |-> m.refund,
       state |-> IF total >= snap[o].paid THEN "refunded" ELSE "partially_refunded",
       amount |-> amount, total |-> total]

\* The reference line names a transaction unless the order is unknown.
LineOffer(order, outcome) ==
  IF outcome = "ignored_unknown_order" THEN NoOffer ELSE OrderOffer[order]

\* handleShopifyRefundWebhookPost
RefundAppends(m) ==
  LET order   == RefundOrder[m.refund]
      outcome == RefundOutcome(m)
      o       == LineOffer(order, outcome)
  IN  When(outcome # "duplicate_refund",
           RefundLine(m.refund, [offer |-> o, status |-> outcome]))
      \o When(outcome = "processed", Event(o, RefundRecorded(o, m)))
      \o <<Delivery(m)>>

----------------------------------------------------------------------------
\* latestProcessedReturnStatusRef: the status in that line, if there is one.
LatestProcessedStatus(o, r) ==
  LET processed == {i \in DOMAIN returnRefs[r] :
                      /\ returnRefs[r][i].offer = o
                      /\ returnRefs[r][i].status = "processed"}
  IN  IF processed = {} THEN {} ELSE {returnRefs[r][Max(processed)].return_status}

ReturnOutcome(m) ==
  LET order   == ReturnOrder[m.return]
      binding == Binding(order, m.local)
  IN  IF binding # "accepted" THEN binding
      ELSE IF ReturnWebhook[m].status \in LatestProcessedStatus(OrderOffer[order], m.return)
           THEN "duplicate_return_status"
      ELSE "processed"

\* Mutant of ReturnRecorded: the payment state a return is assumed to find.
ReturnRecordedPaid(o, m) ==
  [type |-> "return_status_recorded", return |-> m.return, state |-> "paid",
   exposure |-> ReturnWebhook[m].exposure]

\* createReturnStatusRecordedEvent, with the lifecycle state the handler read.
ReturnRecorded(o, m) ==
  [type |-> "return_status_recorded", return |-> m.return, state |-> snap[o].state,
   exposure |-> ReturnWebhook[m].exposure]

\* handleShopifyReturnWebhookPost
ReturnAppends(m) ==
  LET order   == ReturnOrder[m.return]
      outcome == ReturnOutcome(m)
      o       == LineOffer(order, outcome)
  IN  When(outcome # "duplicate_return_status",
           ReturnLine(m.return, [offer |-> o, status |-> outcome,
                                 return_status |-> ReturnWebhook[m].status]))
      \o When(outcome = "processed", Event(o, ReturnRecorded(o, m)))
      \o <<Delivery(m)>>

----------------------------------------------------------------------------
\* latestWebhookDeliveryFor finds a record of the delivery id.
DeliveredBefore(m) == m \in deliveries

\* A delivery reaches the head of the write queue.  One that is recorded, or
\* that is refused, writes nothing and is not an action.
Receive(m, appends) ==
  /\ todo = <<>>
  /\ ~DeliveredBefore(m)
  /\ appends # <<>>
  /\ todo' = appends
  /\ UNCHANGED <<files, crashes>>

\* A body that cannot be read is answered 400, and delivered again.
ReceiveOrder(m)  == OrderWebhook[m].readable /\ Receive(m, OrderAppends(m))
ReceiveRefund(m) == RefundWebhook[m].readable /\ Receive(m, RefundAppends(m))
ReceiveReturn(m) == Receive(m, ReturnAppends(m))

\* The next append of the running handler goes to this file.
NextAppend(file) ==
  /\ todo # <<>>
  /\ Head(todo).to = file
  /\ todo' = Tail(todo)
  /\ UNCHANGED crashes

AppendEvent ==
  /\ NextAppend("offers")
  /\ LET o == Head(todo).offer
         e == Head(todo).line
     IN  /\ log'  = [log EXCEPT ![o] = Append(@, e)]
         /\ snap' = [snap EXCEPT ![o] = Replay(@, e)]
  /\ UNCHANGED <<orderRefs, refundRefs, returnRefs, deliveries>>

AppendOrderRef ==
  /\ NextAppend("order_refs")
  /\ orderRefs' = orderRefs \cup {Head(todo).line}
  /\ UNCHANGED <<log, snap, refundRefs, returnRefs, deliveries>>

AppendRefundRef ==
  /\ NextAppend("refund_refs")
  /\ refundRefs' = [refundRefs EXCEPT ![Head(todo).ref] = Append(@, Head(todo).line)]
  /\ UNCHANGED <<log, snap, orderRefs, returnRefs, deliveries>>

AppendReturnRef ==
  /\ NextAppend("return_refs")
  /\ returnRefs' = [returnRefs EXCEPT ![Head(todo).ref] = Append(@, Head(todo).line)]
  /\ UNCHANGED <<log, snap, orderRefs, refundRefs, deliveries>>

AppendWebhookDelivery ==
  /\ NextAppend("deliveries")
  /\ deliveries' = deliveries \cup {Head(todo).line}
  /\ UNCHANGED <<log, snap, orderRefs, refundRefs, returnRefs>>

\* The server dies inside a handler, or an appendFile is rejected: no answer,
\* and the lines already written stay.
Crash ==
  /\ todo # <<>> /\ crashes < MaxCrashes
  /\ todo' = <<>>
  /\ crashes' = crashes + 1
  /\ UNCHANGED files

HandlerStep ==
  AppendEvent \/ AppendOrderRef \/ AppendRefundRef \/ AppendReturnRef
    \/ AppendWebhookDelivery

Next ==
  \/ \E m \in OrderMessages  : ReceiveOrder(m)
  \/ \E m \in RefundMessages : ReceiveRefund(m)
  \/ \E m \in ReturnMessages : ReceiveReturn(m)
  \/ HandlerStep
  \/ Crash

Spec == Init /\ [][Next]_ingestVars

\* A handler that began goes on unless the process dies, and Shopify repeats
\* a delivery until it is answered (more often than MaxCrashes).
IngestFairness ==
  /\ WF_ingestVars(HandlerStep)
  /\ \A m \in OrderMessages  : WF_ingestVars(ReceiveOrder(m))
  /\ \A m \in RefundMessages : WF_ingestVars(ReceiveRefund(m))
  /\ \A m \in ReturnMessages : WF_ingestVars(ReceiveReturn(m))

FairSpec == Spec /\ IngestFairness

----------------------------------------------------------------------------
\* However deliveries are repeated, reordered and cut short by a crash, the
\* log of a transaction holds order_created before paid, each once, and
\* nothing of a refund or a return before paid.
OnceInOrder ==
  \A o \in Offers : \A j \in DOMAIN log[o] :
    LET before == {log[o][i].type : i \in 1..(j - 1)}
    IN  CASE log[o][j].type = "order_created" -> before = {}
          [] log[o][j].type = "paid"          -> before = {"order_created"}
          [] OTHER                            -> "paid" \in before

\* No refund is counted twice, whatever was repeated or cut short, and the
\* cumulative total the margin is computed from is the sum of what Shopify paid
\* back in the refunds recorded, in whatever part of the body it is found
\* (hasProcessedRefundRef, priorRefundTotalMinor, refundAmount).
RefundCountedOnce ==
  \A o \in Offers :
    LET recorded == {i \in DOMAIN log[o] : log[o][i].type = "refund_recorded"}
    IN  /\ \A i, j \in recorded : log[o][i].refund = log[o][j].refund => i = j
        /\ snap[o].refunded = SumFunctionOnSet(RefundAmount, {log[o][i].refund : i \in recorded})

\* A delivery is recorded, and so never handled again, only when its work is
\* in the files: the payment of a known transaction in the log, and a line
\* for the refund or the return.
AcknowledgedIsDone ==
  \A m \in deliveries :
    /\ m \in OrderMessages /\ Named(m) # NoOffer =>
         /\ m.order \in orderRefs
         /\ OrderWebhook[m].paid => HasEvent(log[OrderOffer[m.order]], "paid")
    /\ m \in RefundMessages => refundRefs[m.refund] # <<>>
    /\ m \in ReturnMessages => returnRefs[m.return] # <<>>

\* Once paid, the lifecycle state is the payment state that the refunds
\* recorded so far imply: returns do not overwrite it.
PaymentStateFollowsRefunds ==
  \A o \in Offers : snap[o].state \in SettledStates =>
    /\ snap[o].state = snap[o].pay
    /\ snap[o].pay =
         IF ~HasEvent(log[o], "refund_recorded") THEN "paid"
         ELSE IF snap[o].refunded >= snap[o].paid THEN "refunded"
         ELSE "partially_refunded"

\* A paid order of a transaction whose checkout is on record is recorded as
\* paid sooner or later, although handlers crash and deliveries race.
PaymentEventuallyRecorded ==
  \A m \in {n \in OrderMessages : OrderWebhook[n].readable} :
    LET o == Named(m)
    IN  o # NoOffer /\ m.local /\ OrderWebhook[m].paid =>
          (snap[o].checkout = "created" => <>HasEvent(log[o], "paid"))

----------------------------------------------------------------------------
RefundEvent(o, r) ==
  \E i \in DOMAIN log[o] :
     log[o][i].type = "refund_recorded" /\ log[o][i].refund = r

\* README.md of the app: the refund route "appends sanitized refund_recorded
\* events after paid".  Not so when the handler dies after the processed
\* reference: the delivery repeated is taken for a duplicate.
RefundEventuallyRecorded ==
  \A o \in Offers, r \in Refunds : ProcessedBefore(o, r) ~> RefundEvent(o, r)
=============================================================================
