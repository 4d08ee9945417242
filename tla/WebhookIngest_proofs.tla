------------------------ MODULE WebhookIngest_proofs ------------------------
(***************************************************************************)
(* Theorems about the webhook handlers of the offer server, and about the  *)
(* maturity job beside them, for any shop, any deliveries and any number   *)
(* of crashes.                                                             *)
(*                                                                         *)
(* The inductive invariant says of the files what the handlers rely on,    *)
(* and of every append a handler has still to make that it will fit when   *)
(* its turn comes, whether those before it were made or not.               *)
(***************************************************************************)
EXTENDS MaturityJob, FoldFacts

\* What the deliveries can bring.
ReadableOrders == {m \in OrderMessages : OrderWebhook[m].readable}
PaidTotals == {0} \cup {OrderWebhook[m].total : m \in ReadableOrders}
Reported == {"none"} \cup {ReturnWebhook[m].exposure : m \in ReturnMessages}
Inputs == [paid : PaidTotals, refunded : Nat, exposure : Reported]

\* The events in the log of an offer, and its snapshots.
PaidEvents   == {PaidEvent(m) : m \in ReadableOrders}
RefundEvents == [type : {"refund_recorded"}, refund : Refunds,
                 state : {"partially_refunded", "refunded"}, amount : Nat, total : Nat]
ReturnEvents == [type : {"return_status_recorded"}, return : Returns, state : SettledStates,
                 exposure : Reported]
MaturedEvents == [type : {"mature"}, state : {"mature"}, pay : PaymentStates \ {"none"},
                 input : Inputs]
LogEvents == {OrderCreated} \cup PaidEvents \cup RefundEvents \cup ReturnEvents \cup MaturedEvents
Snapshots == [state : LifecycleStates, offer : {0}, terms : {0}, accepted : {0},
              variant : {FALSE}, checkout : {"none", "started", "created"},
              pay : PaymentStates, paid : PaidTotals, refunded : Nat, exposure : Reported,
              matured : SUBSET Inputs]

\* The lines of the other files, and the appends.
Outcomes == {"ignored_unknown_order", "ignored_order_binding_mismatch", "held_before_paid",
             "needs_reconciliation", "processed"}
RefundLines == [offer : Offers \cup {NoOffer}, status : Outcomes]
ReturnLines == [offer : Offers \cup {NoOffer}, status : Outcomes,
                return_status : {ReturnWebhook[m].status : m \in ReturnMessages}]
OrderAppendSet  == [to : {"order_refs"}, line : Orders]
RefundAppendSet == [to : {"refund_refs"}, ref : Refunds, line : RefundLines]
ReturnAppendSet == [to : {"return_refs"}, ref : Returns, line : ReturnLines]
EventAppendSet  == [to : {"offers"}, offer : Offers, line : LogEvents]
DeliverySet     == [to : {"deliveries"}, line : Messages]
Appends == OrderAppendSet \cup RefundAppendSet \cup ReturnAppendSet \cup EventAppendSet
             \cup DeliverySet

FilesTypeOK ==
  /\ log \in [Offers -> Seq(LogEvents)]
  /\ snap \in [Offers -> Snapshots]
  /\ orderRefs \subseteq Orders
  /\ refundRefs \in [Refunds -> Seq(RefundLines)]
  /\ returnRefs \in [Returns -> Seq(ReturnLines)]
  /\ deliveries \subseteq Messages

----------------------------------------------------------------------------
\* The snapshot and the log agree on whether the offer is paid.
PaidOnRecord == \A o \in Offers :
  \/ HasEvent(log[o], "paid") /\ snap[o].state \in SettledStates /\ snap[o].pay # "none"
  \/ ~HasEvent(log[o], "paid") /\ snap[o].state \notin SettledStates /\ snap[o].pay = "none"

\* The orders on record are of known transactions.
OrdersOfOffers == \A order \in orderRefs : OrderOffer[order] \in Offers

\* A refund in the log has its line in refund_refs.jsonl.
RefundsOnRecord == \A o \in Offers : \A r \in Refunds : RefundEvent(o, r) => ProcessedBefore(o, r)

\* No two events of one refund.
RefundOnce == \A o \in Offers : \A i, j \in DOMAIN log[o] :
  /\ log[o][i].type = "refund_recorded" /\ log[o][j].type = "refund_recorded"
  /\ log[o][i].refund = log[o][j].refund
  => i = j

TotalIsPrior == \A o \in Offers : snap[o].refunded = PriorRefundTotal(o)
NothingForgotten == \A o \in Offers : log[o] # <<>> => snap[o].state # "buyer_accepted"
DeliveriesRead == \A m \in deliveries : m \in OrderMessages => OrderWebhook[m].readable

FilesInv ==
  /\ FilesTypeOK /\ OnceInOrder /\ PaidOnRecord /\ OrdersOfOffers /\ RefundsOnRecord
  /\ RefundOnce /\ TotalIsPrior /\ NothingForgotten /\ DeliveriesRead /\ AcknowledgedIsDone

----------------------------------------------------------------------------
\* What is to be appended before position k.
Before(k, a) == \E i \in 1..(k - 1) : todo[i] = a

\* An event that is still to be appended will fit the log.
EventOK(k, o, e) ==
  /\ \A i \in 1..(k - 1) : todo[i].to = "offers" =>
       todo[i] = Event(o, OrderCreated) /\ e.type = "paid"
  /\ snap[o].state # "buyer_accepted"
  /\ e.type # "mature"
  /\ e.type = "order_created" => log[o] = <<>>
  /\ e.type = "paid" =>
       /\ ~HasEvent(log[o], "paid")
       /\ HasEvent(log[o], "order_created") \/ Before(k, Event(o, OrderCreated))
  /\ e.type \in {"refund_recorded", "return_status_recorded"} => HasEvent(log[o], "paid")
  /\ e.type = "refund_recorded" =>
       /\ ~RefundEvent(o, e.refund)
       /\ \/ ProcessedBefore(o, e.refund)
          \/ Before(k, RefundLine(e.refund, [offer |-> o, status |-> "processed"]))
       /\ e.total = PriorRefundTotal(o) + e.amount

\* A line that holds an offer goes in before the payment of the offer does.
LineOK(k, line) ==
  /\ \A i \in 1..(k - 1) : todo[i].to # "offers"
  /\ line.status = "held_before_paid" /\ line.offer \in Offers => ~HasEvent(log[line.offer], "paid")

\* The delivery id is appended after what it acknowledges.
DeliveryOK(k, m) ==
  /\ m \in OrderMessages => OrderWebhook[m].readable
  /\ m \in OrderMessages /\ Named(m) # NoOffer =>
       /\ m.order \in orderRefs \/ Before(k, OrderLine(m.order))
       /\ OrderWebhook[m].paid =>
            \/ HasEvent(log[OrderOffer[m.order]], "paid")
            \/ Before(k, Event(OrderOffer[m.order], PaidEvent(m)))
  /\ m \in RefundMessages =>
       refundRefs[m.refund] # <<>> \/ \E line \in RefundLines : Before(k, RefundLine(m.refund, line))
  /\ m \in ReturnMessages =>
       returnRefs[m.return] # <<>> \/ \E line \in ReturnLines : Before(k, ReturnLine(m.return, line))

AppendOK(k) ==
  /\ todo[k].to = "order_refs" => OrderOffer[todo[k].line] \in Offers
  /\ todo[k].to \in {"refund_refs", "return_refs"} => LineOK(k, todo[k].line)
  /\ todo[k].to = "offers" => EventOK(k, todo[k].offer, todo[k].line)
  /\ todo[k].to = "deliveries" => DeliveryOK(k, todo[k].line)

TodoInv == todo \in Seq(Appends) /\ \A k \in DOMAIN todo : AppendOK(k)

IngestInv == FilesInv /\ TodoInv

----------------------------------------------------------------------------
\* The transaction that a delivery names is that of its order.
LEMMA NamedOffer ==
  ASSUME NEW m \in ReadableOrders, Named(m) # NoOffer
  PROVE  Named(m) = OrderOffer[m.order] /\ Named(m) \in Offers
<1> DEFINE own == OrderWebhook[m].transaction \cap Offers
<1>1. own # {} /\ Named(m) = The(own)
  BY DEF Named
<1>2. own \subseteq {OrderOffer[m.order]}
  BY BodyAssumption DEF ReadableOrders
<1>3. The(own) \in own
  BY <1>1 DEF The
<1> QED
  BY <1>1, <1>2, <1>3

\* A delivery is of one kind.
LEMMA Kinds ==
  ASSUME NEW m \in Messages
  PROVE  /\ m \in OrderMessages => m \notin RefundMessages /\ m \notin ReturnMessages /\ m.order \in Orders
         /\ m \in RefundMessages => m \notin ReturnMessages /\ m \notin OrderMessages /\ m.refund \in Refunds
         /\ m \in ReturnMessages => m \notin RefundMessages /\ m \notin OrderMessages /\ m.return \in Returns
<1>1. m \in OrderMessages => DOMAIN m = {"order", "id", "local"} /\ m.order \in Orders
  BY MessagesAssumption
<1>2. m \in RefundMessages => DOMAIN m = {"refund", "id", "local"} /\ m.refund \in Refunds
  BY MessagesAssumption
<1>3. m \in ReturnMessages => DOMAIN m = {"return", "id", "local"} /\ m.return \in Returns
  BY MessagesAssumption
<1> QED
  BY <1>1, <1>2, <1>3

----------------------------------------------------------------------------
\* One event replayed, for each of the events that this part of the log holds.
LEMMA ReplayOrderCreated ==
  ASSUME NEW s \in Snapshots
  PROVE  Replay(s, OrderCreated) = [s EXCEPT !.state = "order_created"]
BY DEF Replay, OrderCreated

LEMMA ReplayPaid ==
  ASSUME NEW s \in Snapshots, NEW e \in PaidEvents
  PROVE  Replay(s, e) = [s EXCEPT !.state = "paid", !.pay = "paid", !.paid = e.amount]
<1>1. e.type = "paid" /\ e.state = "paid"
  BY DEF PaidEvents, PaidEvent
<1> QED
  BY <1>1 DEF Replay, Snapshots

LEMMA ReplayRefund ==
  ASSUME NEW s \in Snapshots, NEW e \in RefundEvents
  PROVE  Replay(s, e) = [s EXCEPT !.state = e.state, !.pay = e.state, !.refunded = e.total]
BY DEF Replay, RefundEvents, Snapshots

LEMMA ReplayReturn ==
  ASSUME NEW s \in Snapshots, NEW e \in ReturnEvents
  PROVE  Replay(s, e) = IF e.state = "mature"
                        THEN [s EXCEPT !.state = IF s.pay = "none" THEN "paid" ELSE s.pay,
                                       !.exposure = e.exposure, !.matured = {}]
                        ELSE [s EXCEPT !.state = e.state, !.exposure = e.exposure]
BY DEF Replay, AfterReturn, ReturnEvents, Snapshots

LEMMA ReplayMature ==
  ASSUME NEW s \in Snapshots, NEW e \in MaturedEvents
  PROVE  Replay(s, e) = [s EXCEPT !.state = "mature", !.pay = e.pay, !.matured = {e.input},
                                  !.exposure = e.input.exposure]
BY DEF Replay, MaturedEvents, Snapshots

\* A replayed event keeps a snapshot a snapshot.
LEMMA ReplayType ==
  ASSUME NEW s \in Snapshots, NEW e \in LogEvents
  PROVE  Replay(s, e) \in Snapshots
<1>1. CASE e = OrderCreated
  <2>1. Replay(s, e) = [s EXCEPT !.state = "order_created"]
    BY <1>1, ReplayOrderCreated
  <2>2. "order_created" \in LifecycleStates
    BY DEF LifecycleStates, OrderReadyStates
  <2> QED
    BY <2>1, <2>2 DEF Snapshots
<1>2. CASE e \in PaidEvents
  <2>1. Replay(s, e) = [s EXCEPT !.state = "paid", !.pay = "paid", !.paid = e.amount]
    BY <1>2, ReplayPaid
  <2>2. "paid" \in LifecycleStates /\ "paid" \in PaymentStates /\ e.amount \in PaidTotals
    BY <1>2 DEF LifecycleStates, OrderReadyStates, PaymentStates, PaidEvents, PaidEvent, PaidTotals
  <2> QED
    BY <2>1, <2>2 DEF Snapshots
<1>3. CASE e \in RefundEvents
  <2>1. Replay(s, e) = [s EXCEPT !.state = e.state, !.pay = e.state, !.refunded = e.total]
    BY <1>3, ReplayRefund
  <2>2. e.state \in LifecycleStates /\ e.state \in PaymentStates /\ e.total \in Nat
    BY <1>3 DEF LifecycleStates, SettledStates, PaymentStates, RefundEvents
  <2> QED
    BY <2>1, <2>2 DEF Snapshots
<1>4. CASE e \in ReturnEvents
  <2>1. e.state \in LifecycleStates /\ e.exposure \in Reported /\ "paid" \in LifecycleStates
        /\ s.pay \in PaymentStates /\ (s.pay # "none" => s.pay \in LifecycleStates)
    BY <1>4 DEF LifecycleStates, SettledStates, OrderReadyStates, PaymentStates, ReturnEvents, Snapshots
  <2>2. CASE e.state = "mature"
    <3>1. Replay(s, e) = [s EXCEPT !.state = IF s.pay = "none" THEN "paid" ELSE s.pay,
                                   !.exposure = e.exposure, !.matured = {}]
      BY <1>4, <2>2, ReplayReturn
    <3> QED
      BY <2>1, <3>1 DEF Snapshots
  <2>3. CASE e.state # "mature"
    <3>1. Replay(s, e) = [s EXCEPT !.state = e.state, !.exposure = e.exposure]
      BY <1>4, <2>3, ReplayReturn
    <3> QED
      BY <2>1, <3>1 DEF Snapshots
  <2> QED
    BY <2>2, <2>3
<1>5. CASE e \in MaturedEvents
  <2> DEFINE matured == {e.input}
             exposure == e.input.exposure
  <2>1. Replay(s, e) = [s EXCEPT !.state = "mature", !.pay = e.pay, !.matured = matured,
                                 !.exposure = exposure]
    BY <1>5, ReplayMature
  <2>2. "mature" \in LifecycleStates /\ e.pay \in PaymentStates /\ e.input \in Inputs
    BY <1>5 DEF LifecycleStates, SettledStates, MaturedEvents
  <2>3. exposure \in Reported /\ matured \in SUBSET Inputs
    BY <2>2 DEF Inputs
  <2> HIDE DEF matured, exposure
  <2> QED
    BY <2>1, <2>2, <2>3 DEF Snapshots
<1> QED
  BY <1>1, <1>2, <1>3, <1>4, <1>5 DEF LogEvents

----------------------------------------------------------------------------
\* The type of an event tells which it is.
LEMMA EventTypes ==
  ASSUME NEW e \in LogEvents
  PROVE  /\ e.type \in {"order_created", "paid", "refund_recorded", "return_status_recorded", "mature"}
         /\ e.type = "order_created" <=> e = OrderCreated
         /\ e.type = "paid" <=> e \in PaidEvents
         /\ e.type = "refund_recorded" <=> e \in RefundEvents
         /\ e.type = "return_status_recorded" <=> e \in ReturnEvents
         /\ e.type = "mature" <=> e \in MaturedEvents
<1>1. OrderCreated.type = "order_created"
  BY DEF OrderCreated
<1>2. \A x \in PaidEvents : x.type = "paid"
  BY DEF PaidEvents, PaidEvent
<1>3. \A x \in RefundEvents : x.type = "refund_recorded"
  BY DEF RefundEvents
<1>4. \A x \in ReturnEvents : x.type = "return_status_recorded"
  BY DEF ReturnEvents
<1>5. \A x \in MaturedEvents : x.type = "mature"
  BY DEF MaturedEvents
<1> QED
  BY <1>1, <1>2, <1>3, <1>4, <1>5 DEF LogEvents

\* A log with one event more.
LEMMA OneEventMore ==
  ASSUME NEW S, NEW s \in Seq(S), NEW e \in S
  PROVE  /\ Append(s, e) \in Seq(S)
         /\ Len(s) \in Nat
         /\ DOMAIN s = 1..Len(s)
         /\ DOMAIN Append(s, e) = 1..(Len(s) + 1)
         /\ Len(Append(s, e)) = Len(s) + 1
         /\ \A i \in DOMAIN s : Append(s, e)[i] = s[i]
         /\ Append(s, e)[Len(s) + 1] = e
         /\ Append(s, e) # <<>>
OBVIOUS

LEMMA HasOneMore ==
  ASSUME NEW s \in Seq(LogEvents), NEW e \in LogEvents, NEW type
  PROVE  HasEvent(Append(s, e), type) <=> HasEvent(s, type) \/ e.type = type
<1>1. /\ Len(s) \in Nat /\ DOMAIN s = 1..Len(s) /\ DOMAIN Append(s, e) = 1..(Len(s) + 1)
      /\ \A i \in DOMAIN s : Append(s, e)[i] = s[i]
      /\ Append(s, e)[Len(s) + 1] = e
  BY OneEventMore
<1> QED
  BY <1>1 DEF HasEvent

----------------------------------------------------------------------------
\* The sum of the refunds in a log.
RefundsIn(events) == {i \in DOMAIN events : events[i].type = "refund_recorded"}
RefundTotal(events) == SumFunction([i \in RefundsIn(events) |-> events[i].amount])

LEMMA RefundsInFinite ==
  ASSUME NEW s \in Seq(LogEvents)
  PROVE  /\ IsFiniteSet(RefundsIn(s)) /\ RefundsIn(s) \subseteq 1..Len(s)
         /\ \A i \in RefundsIn(s) : s[i] \in RefundEvents /\ s[i].amount \in Nat
<1>1. Len(s) \in Nat /\ DOMAIN s = 1..Len(s)
  OBVIOUS
<1>2. IsFiniteSet(1..Len(s))
  BY <1>1, FS_Interval
<1>3. RefundsIn(s) \subseteq 1..Len(s)
  BY <1>1 DEF RefundsIn
<1>4. IsFiniteSet(RefundsIn(s))
  BY <1>2, <1>3, FS_Subset
<1>5. \A i \in RefundsIn(s) : s[i] \in RefundEvents
  BY EventTypes DEF RefundsIn
<1>6. \A i \in RefundsIn(s) : s[i].amount \in Nat
  BY <1>5 DEF RefundEvents
<1> QED
  BY <1>3, <1>4, <1>5, <1>6

LEMMA NoRefunds ==
  ASSUME NEW s, RefundsIn(s) = {}
  PROVE  RefundTotal(s) = 0
<1> DEFINE f == [i \in RefundsIn(s) |-> s[i].amount]
<1>1. DOMAIN f = {}
  OBVIOUS
<1>2. RefundTotal(s) = SumFunctionOnSet(f, DOMAIN f)
  BY DEF RefundTotal, SumFunction, FoldFunction, SumFunctionOnSet
<1> HIDE DEF f
<1> QED
  BY <1>1, <1>2, SumOfNone

\* It is a number, and grows by the amount of a refund.
LEMMA TotalOneMore ==
  ASSUME NEW s \in Seq(LogEvents), NEW e \in LogEvents
  PROVE  /\ RefundTotal(s) \in Int
         /\ RefundTotal(Append(s, e)) =
              IF e.type = "refund_recorded" THEN RefundTotal(s) + e.amount ELSE RefundTotal(s)
<1> DEFINE more == Append(s, e)
           n == Len(s) + 1
           f == [i \in RefundsIn(s) |-> s[i].amount]
           g == [i \in RefundsIn(more) |-> more[i].amount]
<1>1. /\ more \in Seq(LogEvents) /\ Len(s) \in Nat /\ DOMAIN s = 1..Len(s) /\ DOMAIN more = 1..n
      /\ \A i \in DOMAIN s : more[i] = s[i]
      /\ more[n] = e
  BY OneEventMore
<1>2. RefundTotal(s) = SumFunctionOnSet(f, RefundsIn(s)) /\ RefundTotal(more) = SumFunctionOnSet(g, RefundsIn(more))
  BY DEF RefundTotal, SumFunction, FoldFunction, SumFunctionOnSet
<1>3. RefundsIn(more) = IF e.type = "refund_recorded" THEN RefundsIn(s) \cup {n} ELSE RefundsIn(s)
  BY <1>1 DEF RefundsIn
<1>4. IsFiniteSet(RefundsIn(s)) /\ n \notin RefundsIn(s) /\ \A i \in RefundsIn(s) : s[i].amount \in Nat
  BY <1>1, RefundsInFinite
<1>5. \A i \in RefundsIn(more) : g[i] = more[i].amount /\ g[i] \in Int
  <2>1. \A i \in RefundsIn(more) : g[i] = more[i].amount
    OBVIOUS
  <2> HIDE DEF g, more
  <2>2. \A i \in RefundsIn(more) : more[i].amount \in Nat
    BY <1>1, RefundsInFinite
  <2> QED
    BY <2>1, <2>2
<1>6. \A i \in RefundsIn(s) : f[i] \in Int /\ f[i] = g[i]
  <2>1. \A i \in RefundsIn(s) : f[i] = s[i].amount /\ f[i] \in Int
    BY <1>4
  <2>2. \A i \in RefundsIn(s) : i \in RefundsIn(more) /\ i \in DOMAIN s
    BY <1>3 DEF RefundsIn
  <2>3. \A i \in RefundsIn(s) : g[i] = more[i].amount /\ more[i] = s[i]
    BY <1>1, <1>5, <2>2
  <2> HIDE DEF f, g, more
  <2> QED
    BY <2>1, <2>3
<1>7. e.type = "refund_recorded" => g[n] = e.amount
  BY <1>1, <1>3
<1> HIDE DEF f, g, more, n
<1>8. SumFunctionOnSet(f, RefundsIn(s)) = SumFunctionOnSet(g, RefundsIn(s)) /\ SumFunctionOnSet(f, RefundsIn(s)) \in Int
  BY <1>4, <1>6, SumAgrees, SumType
<1>9. CASE e.type = "refund_recorded"
  <2>1. SumFunctionOnSet(g, RefundsIn(s) \cup {n}) = g[n] + SumFunctionOnSet(g, RefundsIn(s))
    BY <1>3, <1>4, <1>5, <1>9, SumOfOneMore
  <2>2. g[n] \in Int
    BY <1>3, <1>5, <1>9
  <2> QED
    BY <1>2, <1>3, <1>7, <1>8, <1>9, <2>1, <2>2 DEF more
<1>10. CASE e.type # "refund_recorded"
  BY <1>2, <1>3, <1>8, <1>10 DEF more
<1> QED
  BY <1>9, <1>10

\* priorRefundTotalMinor is that sum.
LEMMA PriorIsTotal ==
  ASSUME NEW o
  PROVE  PriorRefundTotal(o) = RefundTotal(log[o])
BY DEF PriorRefundTotal, RefundTotal, RefundsIn

----------------------------------------------------------------------------
\* t is s, and after it a when c holds.
After(t, s, c, a) ==
  /\ c => Len(t) = Len(s) + 1 /\ t[Len(s) + 1] = a
  /\ ~c => Len(t) = Len(s)
  /\ \A i \in 1..Len(s) : t[i] = s[i]

LEMMA OneAfter ==
  ASSUME NEW S, NEW s \in Seq(S), NEW a \in S
  PROVE  s \o <<a>> \in Seq(S) /\ After(s \o <<a>>, s, TRUE, a)
<1> DEFINE t == <<a>>
<1>1. t \in Seq(S) /\ Len(t) = 1 /\ t[1] = a
  OBVIOUS
<1> HIDE DEF t
<1>2. /\ s \o t \in Seq(S) /\ Len(s \o t) = Len(s) + Len(t)
      /\ \A i \in 1..Len(s) + Len(t) : (s \o t)[i] = IF i <= Len(s) THEN s[i] ELSE t[i - Len(s)]
  BY <1>1, ConcatProperties, Zenon
<1> DEFINE more == s \o t
<1> HIDE DEF more
<1>3. Len(s) \in Nat
  OBVIOUS
<1>4. Len(more) = Len(s) + 1 /\ more[Len(s) + 1] = a /\ \A i \in 1..Len(s) : more[i] = s[i]
  BY <1>1, <1>2, <1>3 DEF more
<1>5. s \o t \in Seq(S) /\ After(s \o t, s, TRUE, a)
  BY <1>2, <1>4 DEF After, more
<1> QED
  BY <1>5 DEF t

LEMMA WhenAfter ==
  ASSUME NEW S, NEW s \in Seq(S), NEW c \in BOOLEAN, NEW a, c => a \in S
  PROVE  s \o When(c, a) \in Seq(S) /\ After(s \o When(c, a), s, c, a)
<1>1. CASE c
  <2>1. When(c, a) = <<a>> /\ a \in S /\ c = TRUE
    BY <1>1 DEF When
  <2> QED
    BY <2>1, OneAfter, Zenon
<1>2. CASE ~c
  <2>1. When(c, a) = <<>>
    BY <1>2 DEF When
  <2>2. s \o <<>> = s
    BY ConcatEmptySeq, Zenon
  <2>3. After(s, s, c, a)
    BY <1>2 DEF After
  <2> QED
    BY <2>1, <2>2, <2>3, Zenon
<1> QED
  BY <1>1, <1>2

LEMMA WhenAlone ==
  ASSUME NEW S, NEW c \in BOOLEAN, NEW a, c => a \in S
  PROVE  When(c, a) \in Seq(S) /\ After(When(c, a), <<>>, c, a)
<1>1. CASE c
  <2>1. When(c, a) = <<a>> /\ a \in S
    BY <1>1 DEF When
  <2> DEFINE t == <<a>>
  <2>2. t \in Seq(S) /\ Len(t) = 1 /\ t[1] = a /\ Len(<<>>) = 0
    BY <2>1
  <2> HIDE DEF t
  <2>3. After(t, <<>>, c, a)
    BY <1>1, <2>2 DEF After
  <2> QED
    BY <2>1, <2>2, <2>3 DEF t
<1>2. CASE ~c
  BY <1>2 DEF When, After
<1> QED
  BY <1>1, <1>2

\* What stands at each place of a handler's appends, and what is before it.
TwoPlaces(s, c1, a1, c2, a2, a3) == \A k \in DOMAIN s :
  \/ s[k] = a1 /\ c1 /\ k = 1
  \/ /\ s[k] = a2 /\ c2
     /\ \A i \in 1..(k - 1) : c1 /\ s[i] = a1
     /\ c1 => \E i \in 1..(k - 1) : s[i] = a1
  \/ /\ s[k] = a3
     /\ c1 => \E i \in 1..(k - 1) : s[i] = a1
     /\ c2 => \E i \in 1..(k - 1) : s[i] = a2

ThreePlaces(s, c1, a1, c2, a2, c3, a3, a4) == \A k \in DOMAIN s :
  \/ s[k] = a1 /\ c1 /\ k = 1
  \/ /\ s[k] = a2 /\ c2
     /\ \A i \in 1..(k - 1) : c1 /\ s[i] = a1
  \/ /\ s[k] = a3 /\ c3
     /\ \A i \in 1..(k - 1) : s[i] \in {a1, a2}
     /\ c2 => \E i \in 1..(k - 1) : s[i] = a2
  \/ /\ s[k] = a4
     /\ c1 => \E i \in 1..(k - 1) : s[i] = a1
     /\ c3 => \E i \in 1..(k - 1) : s[i] = a3

LEMMA TwoPlacesHold ==
  ASSUME NEW c1 \in BOOLEAN, NEW c2 \in BOOLEAN, NEW a1, NEW a2, NEW a3,
         NEW t1, NEW t2, NEW s, DOMAIN s = 1..Len(s),
         After(t1, <<>>, c1, a1), After(t2, t1, c2, a2), After(s, t2, TRUE, a3)
  PROVE  TwoPlaces(s, c1, a1, c2, a2, a3)
<1>0. Len(s) = Len(t2) + 1 /\ s[Len(t2) + 1] = a3 /\ \A i \in 1..Len(t2) : s[i] = t2[i]
  BY DEF After
<1>1. CASE c1 /\ c2
  <2>1. Len(t1) = 1 /\ t1[1] = a1
    BY <1>1 DEF After
  <2>2. Len(t2) = 2 /\ t2[1] = a1 /\ t2[2] = a2
    BY <1>1, <2>1 DEF After
  <2>3. Len(s) = 3 /\ s[1] = a1 /\ s[2] = a2 /\ s[3] = a3
    BY <1>0, <1>1, <2>2 DEF After
  <2>4. \A k \in DOMAIN s : k \in {1, 2, 3}
    BY <2>3
  <2> QED
    BY <1>1, <2>3, <2>4 DEF TwoPlaces
<1>2. CASE c1 /\ ~c2
  <2>1. Len(t1) = 1 /\ t1[1] = a1
    BY <1>2 DEF After
  <2>2. Len(t2) = 1 /\ t2[1] = a1
    BY <1>2, <2>1 DEF After
  <2>3. Len(s) = 2 /\ s[1] = a1 /\ s[2] = a3
    BY <1>0, <1>2, <2>2 DEF After
  <2>4. \A k \in DOMAIN s : k \in {1, 2}
    BY <2>3
  <2> QED
    BY <1>2, <2>3, <2>4 DEF TwoPlaces
<1>3. CASE ~c1 /\ c2
  <2>1. Len(t1) = 0
    BY <1>3 DEF After
  <2>2. Len(t2) = 1 /\ t2[1] = a2
    BY <1>3, <2>1 DEF After
  <2>3. Len(s) = 2 /\ s[1] = a2 /\ s[2] = a3
    BY <1>0, <1>3, <2>2 DEF After
  <2>4. \A k \in DOMAIN s : k \in {1, 2}
    BY <2>3
  <2> QED
    BY <1>3, <2>3, <2>4 DEF TwoPlaces
<1>4. CASE ~c1 /\ ~c2
  <2>1. Len(t1) = 0
    BY <1>4 DEF After
  <2>2. Len(t2) = 0
    BY <1>4, <2>1 DEF After
  <2>3. Len(s) = 1 /\ s[1] = a3
    BY <1>0, <1>4, <2>2 DEF After
  <2>4. \A k \in DOMAIN s : k \in {1}
    BY <2>3
  <2> QED
    BY <1>4, <2>3, <2>4 DEF TwoPlaces
<1>5. (c1 /\ c2) \/ (c1 /\ ~c2) \/ (~c1 /\ c2) \/ (~c1 /\ ~c2)
  BY Zenon
<1> QED
  BY <1>1, <1>2, <1>3, <1>4, <1>5, Zenon

LEMMA ThreePlacesHold ==
  ASSUME NEW c1 \in BOOLEAN, NEW c2 \in BOOLEAN, NEW c3 \in BOOLEAN,
         NEW a1, NEW a2, NEW a3, NEW a4,
         NEW t1, NEW t2, NEW t3, NEW s, DOMAIN s = 1..Len(s),
         After(t1, <<>>, c1, a1), After(t2, t1, c2, a2), After(t3, t2, c3, a3), After(s, t3, TRUE, a4)
  PROVE  ThreePlaces(s, c1, a1, c2, a2, c3, a3, a4)
<1>0. Len(s) = Len(t3) + 1 /\ s[Len(t3) + 1] = a4 /\ \A i \in 1..Len(t3) : s[i] = t3[i]
  BY DEF After
<1>1. CASE c1 /\ c2 /\ c3
  <2>1. Len(t1) = 1 /\ t1[1] = a1
    BY <1>1 DEF After
  <2>2. Len(t2) = 2 /\ t2[1] = a1 /\ t2[2] = a2
    BY <1>1, <2>1 DEF After
  <2>3. Len(t3) = 3 /\ t3[1] = a1 /\ t3[2] = a2 /\ t3[3] = a3
    BY <1>1, <2>2 DEF After
  <2>4. Len(s) = 4 /\ s[1] = a1 /\ s[2] = a2 /\ s[3] = a3 /\ s[4] = a4
    BY <1>0, <1>1, <2>3 DEF After
  <2>5. \A k \in DOMAIN s : k \in {1, 2, 3, 4}
    BY <2>4
  <2> QED
    BY <1>1, <2>4, <2>5 DEF ThreePlaces
<1>2. CASE c1 /\ c2 /\ ~c3
  <2>1. Len(t1) = 1 /\ t1[1] = a1
    BY <1>2 DEF After
  <2>2. Len(t2) = 2 /\ t2[1] = a1 /\ t2[2] = a2
    BY <1>2, <2>1 DEF After
  <2>3. Len(t3) = 2 /\ t3[1] = a1 /\ t3[2] = a2
    BY <1>2, <2>2 DEF After
  <2>4. Len(s) = 3 /\ s[1] = a1 /\ s[2] = a2 /\ s[3] = a4
    BY <1>0, <1>2, <2>3 DEF After
  <2>5. \A k \in DOMAIN s : k \in {1, 2, 3}
    BY <2>4
  <2> QED
    BY <1>2, <2>4, <2>5 DEF ThreePlaces
<1>3. CASE c1 /\ ~c2 /\ c3
  <2>1. Len(t1) = 1 /\ t1[1] = a1
    BY <1>3 DEF After
  <2>2. Len(t2) = 1 /\ t2[1] = a1
    BY <1>3, <2>1 DEF After
  <2>3. Len(t3) = 2 /\ t3[1] = a1 /\ t3[2] = a3
    BY <1>3, <2>2 DEF After
  <2>4. Len(s) = 3 /\ s[1] = a1 /\ s[2] = a3 /\ s[3] = a4
    BY <1>0, <1>3, <2>3 DEF After
  <2>5. \A k \in DOMAIN s : k \in {1, 2, 3}
    BY <2>4
  <2> QED
    BY <1>3, <2>4, <2>5 DEF ThreePlaces
<1>4. CASE c1 /\ ~c2 /\ ~c3
  <2>1. Len(t1) = 1 /\ t1[1] = a1
    BY <1>4 DEF After
  <2>2. Len(t2) = 1 /\ t2[1] = a1
    BY <1>4, <2>1 DEF After
  <2>3. Len(t3) = 1 /\ t3[1] = a1
    BY <1>4, <2>2 DEF After
  <2>4. Len(s) = 2 /\ s[1] = a1 /\ s[2] = a4
    BY <1>0, <1>4, <2>3 DEF After
  <2>5. \A k \in DOMAIN s : k \in {1, 2}
    BY <2>4
  <2> QED
    BY <1>4, <2>4, <2>5 DEF ThreePlaces
<1>5. CASE ~c1 /\ c2 /\ c3
  <2>1. Len(t1) = 0
    BY <1>5 DEF After
  <2>2. Len(t2) = 1 /\ t2[1] = a2
    BY <1>5, <2>1 DEF After
  <2>3. Len(t3) = 2 /\ t3[1] = a2 /\ t3[2] = a3
    BY <1>5, <2>2 DEF After
  <2>4. Len(s) = 3 /\ s[1] = a2 /\ s[2] = a3 /\ s[3] = a4
    BY <1>0, <1>5, <2>3 DEF After
  <2>5. \A k \in DOMAIN s : k \in {1, 2, 3}
    BY <2>4
  <2> QED
    BY <1>5, <2>4, <2>5 DEF ThreePlaces
<1>6. CASE ~c1 /\ c2 /\ ~c3
  <2>1. Len(t1) = 0
    BY <1>6 DEF After
  <2>2. Len(t2) = 1 /\ t2[1] = a2
    BY <1>6, <2>1 DEF After
  <2>3. Len(t3) = 1 /\ t3[1] = a2
    BY <1>6, <2>2 DEF After
  <2>4. Len(s) = 2 /\ s[1] = a2 /\ s[2] = a4
    BY <1>0, <1>6, <2>3 DEF After
  <2>5. \A k \in DOMAIN s : k \in {1, 2}
    BY <2>4
  <2> QED
    BY <1>6, <2>4, <2>5 DEF ThreePlaces
<1>7. CASE ~c1 /\ ~c2 /\ c3
  <2>1. Len(t1) = 0
    BY <1>7 DEF After
  <2>2. Len(t2) = 0
    BY <1>7, <2>1 DEF After
  <2>3. Len(t3) = 1 /\ t3[1] = a3
    BY <1>7, <2>2 DEF After
  <2>4. Len(s) = 2 /\ s[1] = a3 /\ s[2] = a4
    BY <1>0, <1>7, <2>3 DEF After
  <2>5. \A k \in DOMAIN s : k \in {1, 2}
    BY <2>4
  <2> QED
    BY <1>7, <2>4, <2>5 DEF ThreePlaces
<1>8. CASE ~c1 /\ ~c2 /\ ~c3
  <2>1. Len(t1) = 0
    BY <1>8 DEF After
  <2>2. Len(t2) = 0
    BY <1>8, <2>1 DEF After
  <2>3. Len(t3) = 0
    BY <1>8, <2>2 DEF After
  <2>4. Len(s) = 1 /\ s[1] = a4
    BY <1>0, <1>8, <2>3 DEF After
  <2>5. \A k \in DOMAIN s : k \in {1}
    BY <2>4
  <2> QED
    BY <1>8, <2>4, <2>5 DEF ThreePlaces
<1>9. \/ (c1 /\ c2 /\ c3) \/ (c1 /\ c2 /\ ~c3) \/ (c1 /\ ~c2 /\ c3) \/ (c1 /\ ~c2 /\ ~c3)
      \/ (~c1 /\ c2 /\ c3) \/ (~c1 /\ c2 /\ ~c3) \/ (~c1 /\ ~c2 /\ c3) \/ (~c1 /\ ~c2 /\ ~c3)
  BY Zenon
<1> QED
  BY <1>1, <1>2, <1>3, <1>4, <1>5, <1>6, <1>7, <1>8, <1>9, Zenon

\* The appends of a handler: a reference and an event when they are new, and the delivery.
LEMMA TwoAndLast ==
  ASSUME NEW c1 \in BOOLEAN, NEW c2 \in BOOLEAN, NEW a1, NEW a2, NEW a3
  PROVE  LET s == When(c1, a1) \o When(c2, a2) \o <<a3>>
         IN  /\ s \in Seq({a3} \cup {a \in {a1} : c1} \cup {a \in {a2} : c2})
             /\ TwoPlaces(s, c1, a1, c2, a2, a3)
<1> DEFINE S == {a3} \cup {a \in {a1} : c1} \cup {a \in {a2} : c2}
           t1 == When(c1, a1)
           t2 == t1 \o When(c2, a2)
           s == t2 \o <<a3>>
<1>0. (c1 => a1 \in S) /\ (c2 => a2 \in S) /\ a3 \in S
  OBVIOUS
<1> HIDE DEF S
<1>1. t1 \in Seq(S) /\ After(t1, <<>>, c1, a1)
  BY <1>0, WhenAlone, Zenon
<1> HIDE DEF t1
<1>2. t2 \in Seq(S) /\ After(t2, t1, c2, a2)
  BY <1>0, <1>1, WhenAfter, Zenon
<1> HIDE DEF t2
<1>3. s \in Seq(S) /\ After(s, t2, TRUE, a3)
  BY <1>0, <1>2, OneAfter, Zenon
<1> HIDE DEF s
<1>4. DOMAIN s = 1..Len(s)
  BY <1>3
<1>5. TwoPlaces(s, c1, a1, c2, a2, a3)
  BY <1>1, <1>2, <1>3, <1>4, TwoPlacesHold
<1> QED
  BY <1>3, <1>5, Zenon DEF s, t2, t1, S

LEMMA ThreeAndLast ==
  ASSUME NEW c1 \in BOOLEAN, NEW c2 \in BOOLEAN, NEW c3 \in BOOLEAN,
         NEW a1, NEW a2, NEW a3, NEW a4
  PROVE  LET s == When(c1, a1) \o When(c2, a2) \o When(c3, a3) \o <<a4>>
         IN  /\ s \in Seq({a4} \cup {a \in {a1} : c1} \cup {a \in {a2} : c2} \cup {a \in {a3} : c3})
             /\ ThreePlaces(s, c1, a1, c2, a2, c3, a3, a4)
<1> DEFINE S == {a4} \cup {a \in {a1} : c1} \cup {a \in {a2} : c2} \cup {a \in {a3} : c3}
           t1 == When(c1, a1)
           t2 == t1 \o When(c2, a2)
           t3 == t2 \o When(c3, a3)
           s == t3 \o <<a4>>
<1>0. (c1 => a1 \in S) /\ (c2 => a2 \in S) /\ (c3 => a3 \in S) /\ a4 \in S
  OBVIOUS
<1> HIDE DEF S
<1>1. t1 \in Seq(S) /\ After(t1, <<>>, c1, a1)
  BY <1>0, WhenAlone, Zenon
<1> HIDE DEF t1
<1>2. t2 \in Seq(S) /\ After(t2, t1, c2, a2)
  BY <1>0, <1>1, WhenAfter, Zenon
<1> HIDE DEF t2
<1>3. t3 \in Seq(S) /\ After(t3, t2, c3, a3)
  BY <1>0, <1>2, WhenAfter, Zenon
<1> HIDE DEF t3
<1>4. s \in Seq(S) /\ After(s, t3, TRUE, a4)
  BY <1>0, <1>3, OneAfter, Zenon
<1> HIDE DEF s
<1>5. DOMAIN s = 1..Len(s)
  BY <1>4
<1>6. ThreePlaces(s, c1, a1, c2, a2, c3, a3, a4)
  BY <1>1, <1>2, <1>3, <1>4, <1>5, ThreePlacesHold
<1> QED
  BY <1>4, <1>6, Zenon DEF s, t3, t2, t1, S

LEMMA SeqMonotone ==
  ASSUME NEW S, NEW T, S \subseteq T, NEW s \in Seq(S) PROVE s \in Seq(T)
OBVIOUS

LEMMA SeqElements ==
  ASSUME NEW S, NEW s \in Seq(S) PROVE /\ Len(s) \in Nat /\ DOMAIN s = 1..Len(s)
                                       /\ \A k \in DOMAIN s : s[k] \in S
OBVIOUS

----------------------------------------------------------------------------
\* The log of an offer begins with order_created, and goes on with paid.
LEMMA NothingBeforeCreated ==
  ASSUME FilesInv, NEW o \in Offers, ~HasEvent(log[o], "order_created")
  PROVE  log[o] = <<>>
<1> SUFFICES ASSUME log[o] # <<>> PROVE FALSE
  OBVIOUS
<1>1. log[o] \in Seq(LogEvents) /\ 1 \in DOMAIN log[o]
  BY DEF FilesInv, FilesTypeOK
<1>2. log[o][1].type # "order_created"
  BY <1>1 DEF HasEvent
<1>3. {log[o][i].type : i \in 1..(1 - 1)} = {}
  OBVIOUS
<1> QED
  BY <1>1, <1>2, <1>3 DEF FilesInv, OnceInOrder

LEMMA OnlyCreatedBeforePaid ==
  ASSUME FilesInv, NEW o \in Offers, ~HasEvent(log[o], "paid"), NEW i \in DOMAIN log[o]
  PROVE  log[o][i].type = "order_created"
<1>1. log[o] \in Seq(LogEvents)
  BY DEF FilesInv, FilesTypeOK
<1>2. \A k \in 1..(i - 1) : k \in DOMAIN log[o]
  BY <1>1
<1>3. "paid" \notin {log[o][k].type : k \in 1..(i - 1)}
  BY <1>2 DEF HasEvent
<1>4. log[o][i].type # "paid"
  BY DEF HasEvent
<1> QED
  BY <1>3, <1>4 DEF FilesInv, OnceInOrder

\* The order of one log, with what stands before an entry.
TypesBefore(s, j) == {s[i].type : i \in 1..(j - 1)}
EntryInOrder(s, j) ==
  CASE s[j].type = "order_created" -> TypesBefore(s, j) = {}
    [] s[j].type = "paid"          -> TypesBefore(s, j) = {"order_created"}
    [] OTHER                       -> "paid" \in TypesBefore(s, j)
InOrder(s) == \A j \in DOMAIN s : EntryInOrder(s, j)

LEMMA OrderedLogs ==
  /\ OnceInOrder <=> \A o \in Offers : InOrder(log[o])
  /\ OnceInOrder' <=> \A o \in Offers : InOrder(log'[o])
<1>1. OnceInOrder <=> \A o \in Offers : InOrder(log[o])
  BY DEF OnceInOrder, InOrder, EntryInOrder, TypesBefore
<1>2. OnceInOrder' <=> \A o \in Offers : InOrder(log'[o])
  BY DEF OnceInOrder, InOrder, EntryInOrder, TypesBefore
<1> QED
  BY <1>1, <1>2

\* What only reads the files keeps the invariant of the files.
LEMMA SameLog ==
  ASSUME OnceInOrder, UNCHANGED log
  PROVE  OnceInOrder'
BY OrderedLogs

LEMMA FilesUnchanged ==
  ASSUME FilesInv, UNCHANGED files
  PROVE  FilesInv'
<1>1. /\ UNCHANGED log /\ UNCHANGED snap /\ UNCHANGED orderRefs
      /\ UNCHANGED refundRefs /\ UNCHANGED returnRefs /\ UNCHANGED deliveries
  BY DEF files
<1>2. FilesTypeOK'
  BY <1>1 DEF FilesInv, FilesTypeOK
<1>3. OnceInOrder'
  BY <1>1, SameLog DEF FilesInv
<1>4. PaidOnRecord'
  BY <1>1 DEF FilesInv, PaidOnRecord
<1>5. OrdersOfOffers'
  BY <1>1 DEF FilesInv, OrdersOfOffers
<1>6. RefundsOnRecord'
  BY <1>1 DEF FilesInv, RefundsOnRecord, RefundEvent, ProcessedBefore
<1>7. RefundOnce'
  BY <1>1 DEF FilesInv, RefundOnce
<1>8. TotalIsPrior'
  BY <1>1 DEF FilesInv, TotalIsPrior, PriorRefundTotal
<1>9. NothingForgotten'
  BY <1>1 DEF FilesInv, NothingForgotten
<1>10. DeliveriesRead'
  BY <1>1 DEF FilesInv, DeliveriesRead
<1>11. AcknowledgedIsDone'
  BY <1>1 DEF FilesInv, AcknowledgedIsDone
<1> QED
  BY <1>2, <1>3, <1>4, <1>5, <1>6, <1>7, <1>8, <1>9, <1>10, <1>11 DEF FilesInv

\* The appends of the order handler will fit.
LEMMA ReceiveOrderOK ==
  ASSUME IngestInv, NEW m \in OrderMessages, ReceiveOrder(m)
  PROVE  IngestInv'
<1> DEFINE o == Named(m)
           c1 == ~KnownOrder(m.order)
           c2 == ~HasEvent(log[o], "order_created")
           c3 == OrderWebhook[m].paid /\ ~HasEvent(log[o], "paid")
           a1 == OrderLine(m.order)
           a2 == Event(o, OrderCreated)
           a3 == Event(o, PaidEvent(m))
           a4 == Delivery(m)
<1>1. /\ m \in ReadableOrders /\ OrderAppends(m) # <<>> /\ todo' = OrderAppends(m)
      /\ UNCHANGED files
  BY DEF ReceiveOrder, Receive, ReadableOrders
<1>2. FilesInv'
  BY <1>1, FilesUnchanged DEF IngestInv
<1>3. /\ log' = log /\ snap' = snap /\ orderRefs' = orderRefs /\ refundRefs' = refundRefs
      /\ returnRefs' = returnRefs
  BY <1>1 DEF files
<1>4. m \in Messages /\ m \notin RefundMessages /\ m \notin ReturnMessages /\ m.order \in Orders
  BY Kinds DEF Messages
<1>5. a4 \in Appends /\ a4.to = "deliveries" /\ a4.line = m
  BY <1>4 DEF Appends, DeliverySet, Delivery
<1>6. CASE Named(m) = NoOffer
  <2>1. todo' = <<a4>>
    BY <1>1, <1>6 DEF OrderAppends
  <2> HIDE DEF a4
  <2>2. todo' \in Seq(Appends) /\ DOMAIN todo' = {1} /\ todo'[1] = a4
    BY <1>5, <2>1
  <2>3. DeliveryOK(1, m)'
    BY <1>1, <1>4, <1>6 DEF DeliveryOK, ReadableOrders
  <2>4. AppendOK(1)'
    BY <1>5, <2>2, <2>3 DEF AppendOK
  <2> QED
    BY <1>2, <2>2, <2>4 DEF IngestInv, TodoInv
<1>7. CASE Named(m) # NoOffer
  <2>1. o = OrderOffer[m.order] /\ o \in Offers
    BY <1>1, <1>7, NamedOffer
  <2>2. /\ snap[o].state \in OrderReadyStates
        /\ todo' = When(c1, a1) \o When(c2, a2) \o When(c3, a3) \o <<a4>>
    BY <1>1, <1>7 DEF OrderAppends
  <2>3. c1 \in BOOLEAN /\ c2 \in BOOLEAN /\ c3 \in BOOLEAN
    BY DEF HasEvent, KnownOrder
  <2>4. /\ a1 \in Appends /\ a1.to = "order_refs" /\ a1.line = m.order
        /\ a2 \in Appends /\ a2.to = "offers" /\ a2.offer = o /\ a2.line = OrderCreated
        /\ a3 \in Appends /\ a3.to = "offers" /\ a3.offer = o /\ a3.line = PaidEvent(m)
    <3>1. OrderCreated \in LogEvents /\ PaidEvent(m) \in LogEvents
      BY <1>1 DEF LogEvents, PaidEvents
    <3> QED
      BY <1>4, <2>1, <3>1 DEF Appends, OrderAppendSet, EventAppendSet, OrderLine, Event
  <2>5. /\ OrderCreated.type = "order_created" /\ PaidEvent(m).type = "paid"
    BY DEF OrderCreated, PaidEvent
  <2>6. c2 => log[o] = <<>>
    BY <2>1, NothingBeforeCreated DEF IngestInv
  <2>7. snap[o].state # "buyer_accepted"
    BY <2>2 DEF OrderReadyStates
  <2>8. /\ ~c1 => m.order \in orderRefs'
        /\ c3 => ~HasEvent(log'[o], "paid")
        /\ OrderWebhook[m].paid /\ ~c3 => HasEvent(log'[o], "paid")
        /\ ~c2 => HasEvent(log'[o], "order_created")
    BY <1>3 DEF KnownOrder
  <2> HIDE DEF c1, c2, c3, a1, a2, a3, a4, o
  <2>9. /\ todo' \in Seq({a4} \cup {a \in {a1} : c1} \cup {a \in {a2} : c2} \cup {a \in {a3} : c3})
        /\ ThreePlaces(todo', c1, a1, c2, a2, c3, a3, a4)
    <3> DEFINE s == When(c1, a1) \o When(c2, a2) \o When(c3, a3) \o <<a4>>
    <3>1. /\ s \in Seq({a4} \cup {a \in {a1} : c1} \cup {a \in {a2} : c2} \cup {a \in {a3} : c3})
          /\ ThreePlaces(s, c1, a1, c2, a2, c3, a3, a4)
      BY <2>3, ThreeAndLast, Zenon
    <3>2. todo' = s
      BY <2>2, Zenon
    <3> HIDE DEF s
    <3> QED
      BY <3>1, <3>2
  <2>10. todo' \in Seq(Appends)
    <3>1. {a4} \cup {a \in {a1} : c1} \cup {a \in {a2} : c2} \cup {a \in {a3} : c3} \subseteq Appends
      BY <1>5, <2>4
    <3> QED
      BY <2>9, <3>1, SeqMonotone, Zenon
  <2>11. ASSUME NEW k \in DOMAIN todo' PROVE AppendOK(k)'
    <3>1. CASE todo'[k] = a1
      BY <2>1, <2>4, <3>1 DEF AppendOK, o
    <3>2. CASE todo'[k] = a2 /\ c2 /\ \A i \in 1..(k - 1) : c1 /\ todo'[i] = a1
      <4>1. EventOK(k, o, OrderCreated)'
        BY <1>3, <2>4, <2>5, <2>6, <2>7, <3>2 DEF EventOK
      <4> QED
        BY <2>4, <3>2, <4>1 DEF AppendOK
    <3>3. CASE /\ todo'[k] = a3 /\ c3
               /\ \A i \in 1..(k - 1) : todo'[i] \in {a1, a2}
               /\ c2 => \E i \in 1..(k - 1) : todo'[i] = a2
      <4>1. \A i \in 1..(k - 1) : todo'[i].to = "offers" => todo'[i] = Event(o, OrderCreated)
        BY <2>4, <3>3 DEF a2
      <4>2. HasEvent(log'[o], "order_created") \/ Before(k, Event(o, OrderCreated))'
        BY <2>8, <3>3 DEF Before, a2
      <4>3. EventOK(k, o, PaidEvent(m))'
        BY <1>3, <2>5, <2>7, <2>8, <3>3, <4>1, <4>2 DEF EventOK
      <4> QED
        BY <2>4, <3>3, <4>3 DEF AppendOK
    <3>4. CASE /\ todo'[k] = a4
               /\ c1 => \E i \in 1..(k - 1) : todo'[i] = a1
               /\ c3 => \E i \in 1..(k - 1) : todo'[i] = a3
      <4>1. m.order \in orderRefs' \/ Before(k, OrderLine(m.order))'
        BY <2>8, <3>4 DEF Before, a1
      <4>2. OrderWebhook[m].paid => \/ HasEvent(log'[OrderOffer[m.order]], "paid")
                                    \/ Before(k, Event(OrderOffer[m.order], PaidEvent(m)))'
        BY <2>1, <2>8, <3>4 DEF Before, a3
      <4>3. DeliveryOK(k, m)'
        BY <1>1, <1>4, <4>1, <4>2 DEF DeliveryOK, ReadableOrders
      <4> QED
        BY <1>5, <3>4, <4>3 DEF AppendOK
    <3> QED
      BY <2>9, <3>1, <3>2, <3>3, <3>4 DEF ThreePlaces
  <2> QED
    BY <1>2, <2>10, <2>11 DEF IngestInv, TodoInv
<1> QED
  BY <1>6, <1>7

----------------------------------------------------------------------------
\* What the guards of the refund and the return handler establish.
LEMMA BindingFacts ==
  ASSUME FilesInv, NEW order \in Orders, NEW local
  PROVE  /\ Binding(order, local) \in {"ignored_unknown_order", "ignored_order_binding_mismatch",
                                       "held_before_paid", "accepted"}
         /\ Binding(order, local) # "ignored_unknown_order" => OrderOffer[order] \in Offers
         /\ Binding(order, local) = "held_before_paid" => ~HasEvent(log[OrderOffer[order]], "paid")
         /\ Binding(order, local) = "accepted" =>
              /\ HasEvent(log[OrderOffer[order]], "paid")
              /\ snap[OrderOffer[order]].state \in SettledStates
<1>1. Binding(order, local) # "ignored_unknown_order" => OrderOffer[order] \in Offers
  BY DEF Binding, KnownOrder, FilesInv, OrdersOfOffers
<1>2. \A o \in Offers : HasEvent(log[o], "paid") <=> snap[o].state \in SettledStates
  BY DEF FilesInv, PaidOnRecord
<1> QED
  BY <1>1, <1>2 DEF Binding

\* The appends of a handler that writes a reference line, an event and the delivery will fit.
LEMMA HandlerOK ==
  ASSUME IngestInv, UNCHANGED files, NEW m \in Messages, m \notin OrderMessages,
         NEW c1 \in BOOLEAN, NEW c2 \in BOOLEAN, NEW a1, NEW o, NEW e,
         todo' = When(c1, a1) \o When(c2, Event(o, e)) \o <<Delivery(m)>>,
         c1 => /\ a1 \in RefundAppendSet \cup ReturnAppendSet
               /\ a1.line.status = "held_before_paid" /\ a1.line.offer \in Offers =>
                    ~HasEvent(log[a1.line.offer], "paid"),
         m \in RefundMessages => \/ c1 /\ \E line \in RefundLines : a1 = RefundLine(m.refund, line)
                                 \/ refundRefs[m.refund] # <<>>,
         m \in ReturnMessages => \/ c1 /\ \E line \in ReturnLines : a1 = ReturnLine(m.return, line)
                                 \/ returnRefs[m.return] # <<>>,
         c2 => /\ o \in Offers /\ e \in LogEvents
               /\ e.type \in {"refund_recorded", "return_status_recorded"}
               /\ HasEvent(log[o], "paid") /\ snap[o].state # "buyer_accepted"
               /\ e.type = "refund_recorded" =>
                    /\ ~RefundEvent(o, e.refund)
                    /\ c1 /\ a1 = RefundLine(e.refund, [offer |-> o, status |-> "processed"])
                    /\ e.total = PriorRefundTotal(o) + e.amount
  PROVE  IngestInv'
<1> DEFINE a2 == Event(o, e)
           a3 == Delivery(m)
<1>1. FilesInv'
  BY FilesUnchanged DEF IngestInv
<1>2. /\ log' = log /\ snap' = snap /\ orderRefs' = orderRefs /\ refundRefs' = refundRefs
      /\ returnRefs' = returnRefs
  BY DEF files
<1>3. /\ a3 \in Appends /\ a3.to = "deliveries" /\ a3.line = m
      /\ c1 => a1 \in Appends /\ a1.to \in {"refund_refs", "return_refs"}
      /\ c2 => a2 \in Appends
      /\ a2.to = "offers" /\ a2.offer = o /\ a2.line = e
  BY DEF Appends, DeliverySet, Delivery, EventAppendSet, Event, RefundAppendSet, ReturnAppendSet
<1> HIDE DEF a2, a3
<1>4. /\ todo' \in Seq({a3} \cup {a \in {a1} : c1} \cup {a \in {a2} : c2})
      /\ TwoPlaces(todo', c1, a1, c2, a2, a3)
  <2> DEFINE s == When(c1, a1) \o When(c2, a2) \o <<a3>>
  <2>1. /\ s \in Seq({a3} \cup {a \in {a1} : c1} \cup {a \in {a2} : c2})
        /\ TwoPlaces(s, c1, a1, c2, a2, a3)
    BY TwoAndLast, Zenon
  <2>2. todo' = s
    BY Zenon DEF a2, a3
  <2> HIDE DEF s
  <2> QED
    BY <2>1, <2>2
<1>5. todo' \in Seq(Appends)
  <2> DEFINE S == {a3} \cup {a \in {a1} : c1} \cup {a \in {a2} : c2}
  <2>1. S \subseteq Appends
    BY <1>3
  <2>2. todo' \in Seq(S)
    BY <1>4
  <2> HIDE DEF S
  <2> QED
    BY <2>1, <2>2, SeqMonotone
<1>6. ASSUME NEW k \in DOMAIN todo' PROVE AppendOK(k)'
  <2>1. CASE todo'[k] = a1 /\ c1 /\ k = 1
    <3>1. LineOK(k, a1.line)'
      <4>1. \A i \in 1..(k - 1) : FALSE
        BY <2>1
      <4> QED
        BY <1>2, <2>1, <4>1 DEF LineOK
    <3> QED
      BY <1>3, <2>1, <3>1 DEF AppendOK
  <2>2. CASE /\ todo'[k] = a2 /\ c2
             /\ \A i \in 1..(k - 1) : c1 /\ todo'[i] = a1
             /\ c1 => \E i \in 1..(k - 1) : todo'[i] = a1
    <3>1. \A i \in 1..(k - 1) : todo'[i].to # "offers"
      BY <1>3, <2>2
    <3>2. e.type = "refund_recorded" =>
            /\ ~RefundEvent(o, e.refund)'
            /\ Before(k, RefundLine(e.refund, [offer |-> o, status |-> "processed"]))'
            /\ e.total = PriorRefundTotal(o)' + e.amount
      BY <1>2, <2>2 DEF RefundEvent, Before, PriorRefundTotal
    <3>3. EventOK(k, o, e)'
      BY <1>2, <2>2, <3>1, <3>2 DEF EventOK
    <3> QED
      BY <1>3, <2>2, <3>3 DEF AppendOK
  <2>3. CASE /\ todo'[k] = a3
             /\ c1 => \E i \in 1..(k - 1) : todo'[i] = a1
    <3>1. m \in RefundMessages => \/ refundRefs'[m.refund] # <<>>
                                  \/ \E line \in RefundLines : Before(k, RefundLine(m.refund, line))'
      BY <1>2, <2>3 DEF Before
    <3>2. m \in ReturnMessages => \/ returnRefs'[m.return] # <<>>
                                  \/ \E line \in ReturnLines : Before(k, ReturnLine(m.return, line))'
      BY <1>2, <2>3 DEF Before
    <3>3. DeliveryOK(k, m)'
      BY <3>1, <3>2 DEF DeliveryOK
    <3> QED
      BY <1>3, <2>3, <3>3 DEF AppendOK
  <2> QED
    BY <1>4, <2>1, <2>2, <2>3 DEF TwoPlaces
<1> QED
  BY <1>1, <1>5, <1>6 DEF IngestInv, TodoInv

\* The appends of the refund handler will fit.
LEMMA ReceiveRefundOK ==
  ASSUME IngestInv, NEW m \in RefundMessages, ReceiveRefund(m)
  PROVE  IngestInv'
<1>1. PICK outcome : outcome = RefundOutcome(m)
  OBVIOUS
<1>2. PICK o : o = LineOffer(RefundOrder[m.refund], outcome)
  OBVIOUS
<1>3. PICK e : e = RefundRecorded(o, m)
  OBVIOUS
<1> DEFINE c1 == outcome # "duplicate_refund"
           c2 == outcome = "processed"
           line == [offer |-> o, status |-> outcome]
           a1 == RefundLine(m.refund, line)
<1>4. /\ todo' = When(c1, a1) \o When(c2, Event(o, e)) \o <<Delivery(m)>>
      /\ UNCHANGED files
  BY <1>1, <1>2, <1>3 DEF ReceiveRefund, Receive, RefundAppends
<1>5. /\ m \in Messages /\ m \notin OrderMessages /\ m \notin ReturnMessages /\ m.refund \in Refunds
      /\ RefundOrder[m.refund] \in Orders
  BY Kinds, ShopifyAssumption DEF Messages
<1>6. /\ Binding(RefundOrder[m.refund], m.local) \in {"ignored_unknown_order", "ignored_order_binding_mismatch",
                                       "held_before_paid", "accepted"}
      /\ outcome \in Outcomes \cup {"duplicate_refund"}
      /\ outcome # "ignored_unknown_order" => o \in Offers /\ o = OrderOffer[RefundOrder[m.refund]]
      /\ outcome = "ignored_unknown_order" => o = NoOffer
      /\ outcome = "held_before_paid" => ~HasEvent(log[o], "paid")
      /\ outcome \in {"processed", "duplicate_refund"} =>
           /\ HasEvent(log[o], "paid") /\ snap[o].state \in SettledStates
           /\ AmountKnown(m)
           /\ outcome = "processed" <=> ~ProcessedBefore(o, m.refund)
  BY <1>1, <1>2, <1>5, BindingFacts DEF IngestInv, RefundOutcome, LineOffer, Outcomes
<1>7. outcome = "duplicate_refund" => refundRefs[m.refund] # <<>>
  BY <1>6 DEF ProcessedBefore
<1>8. c1 => line \in RefundLines /\ a1 \in RefundAppendSet /\ a1.line = line
  BY <1>5, <1>6 DEF RefundLines, RefundAppendSet, RefundLine
<1>9. c2 => /\ e \in RefundEvents /\ e.type = "refund_recorded" /\ e.refund = m.refund
            /\ e.total = PriorRefundTotal(o) + e.amount
  <2> SUFFICES ASSUME c2
               PROVE  /\ e \in RefundEvents /\ e.type = "refund_recorded" /\ e.refund = m.refund
                      /\ e.total = PriorRefundTotal(o) + e.amount
    OBVIOUS
  <2>1. PICK amount : amount = RefundWebhook[m].amount.amount
    OBVIOUS
  <2>2. amount \in Nat
    BY <1>6, <2>1, AmountAssumption DEF AmountKnown
  <2>3. PICK prior : prior = PriorRefundTotal(o)
    OBVIOUS
  <2>4. prior \in Nat
    BY <1>6, <2>3 DEF IngestInv, FilesInv, FilesTypeOK, TotalIsPrior, Snapshots
  <2>5. e = [type |-> "refund_recorded", refund |-> m.refund,
             state |-> IF prior + amount >= snap[o].paid THEN "refunded" ELSE "partially_refunded",
             amount |-> amount, total |-> prior + amount]
    BY <1>3, <2>1, <2>3 DEF RefundRecorded
  <2> QED
    BY <1>5, <2>2, <2>3, <2>4, <2>5 DEF RefundEvents
<1>10. c2 => e \in LogEvents /\ ~RefundEvent(o, e.refund)
  BY <1>5, <1>6, <1>9 DEF LogEvents, IngestInv, FilesInv, RefundsOnRecord
<1>11. c2 => snap[o].state # "buyer_accepted"
  BY <1>6 DEF SettledStates
<1>12. c2 => c1 /\ a1 = RefundLine(e.refund, [offer |-> o, status |-> "processed"])
  BY <1>9
<1>13. c1 /\ line.status = "held_before_paid" => ~HasEvent(log[line.offer], "paid")
  BY <1>6
<1>14. c1 \in BOOLEAN /\ c2 \in BOOLEAN /\ (c2 => o \in Offers /\ HasEvent(log[o], "paid"))
  BY <1>6
<1> HIDE DEF c1, c2, line, a1
<1> QED
  BY <1>4, <1>5, <1>7, <1>8, <1>9, <1>10, <1>11, <1>12, <1>13, <1>14, HandlerOK DEF a1, c1

\* The appends of the return handler will fit.
LEMMA ReceiveReturnOK ==
  ASSUME IngestInv, NEW m \in ReturnMessages, ReceiveReturn(m)
  PROVE  IngestInv'
<1>1. PICK outcome : outcome = ReturnOutcome(m)
  OBVIOUS
<1>2. PICK o : o = LineOffer(ReturnOrder[m.return], outcome)
  OBVIOUS
<1>3. PICK e : e = ReturnRecorded(o, m)
  OBVIOUS
<1> DEFINE c1 == outcome # "duplicate_return_status"
           c2 == outcome = "processed"
           line == [offer |-> o, status |-> outcome, return_status |-> ReturnWebhook[m].status]
           a1 == ReturnLine(m.return, line)
<1>4. /\ todo' = When(c1, a1) \o When(c2, Event(o, e)) \o <<Delivery(m)>>
      /\ UNCHANGED files
  BY <1>1, <1>2, <1>3 DEF ReceiveReturn, Receive, ReturnAppends
<1>5. /\ m \in Messages /\ m \notin OrderMessages /\ m \notin RefundMessages /\ m.return \in Returns
      /\ ReturnOrder[m.return] \in Orders
  BY Kinds, ShopifyAssumption DEF Messages
<1>6. /\ outcome \in Outcomes \cup {"duplicate_return_status"}
      /\ outcome # "ignored_unknown_order" => o \in Offers /\ o = OrderOffer[ReturnOrder[m.return]]
      /\ outcome = "ignored_unknown_order" => o = NoOffer
      /\ outcome = "held_before_paid" => ~HasEvent(log[o], "paid")
      /\ outcome \in {"processed", "duplicate_return_status"} =>
           HasEvent(log[o], "paid") /\ snap[o].state \in SettledStates
      /\ outcome = "duplicate_return_status" => LatestProcessedStatus(o, m.return) # {}
  BY <1>1, <1>2, <1>5, BindingFacts DEF IngestInv, ReturnOutcome, LineOffer, Outcomes
<1>7. outcome = "duplicate_return_status" => returnRefs[m.return] # <<>>
  <2> SUFFICES ASSUME returnRefs[m.return] = <<>> PROVE LatestProcessedStatus(o, m.return) = {}
    BY <1>6
  <2>1. DOMAIN returnRefs[m.return] = {}
    OBVIOUS
  <2> QED
    BY <2>1 DEF LatestProcessedStatus
<1>8. c1 => line \in ReturnLines /\ a1 \in ReturnAppendSet /\ a1.line = line
  BY <1>5, <1>6 DEF ReturnLines, ReturnAppendSet, ReturnLine
<1>9. c2 => e \in ReturnEvents /\ e.type = "return_status_recorded"
  BY <1>3, <1>5, <1>6 DEF ReturnRecorded, ReturnEvents, Reported
<1>10. c2 => e \in LogEvents
  BY <1>9 DEF LogEvents
<1>11. c2 => snap[o].state # "buyer_accepted"
  BY <1>6 DEF SettledStates
<1>12. c1 /\ line.status = "held_before_paid" => ~HasEvent(log[line.offer], "paid")
  BY <1>6
<1>13. c1 \in BOOLEAN /\ c2 \in BOOLEAN /\ (c2 => o \in Offers /\ HasEvent(log[o], "paid"))
  BY <1>6
<1> HIDE DEF c1, c2, line, a1
<1> QED
  BY <1>4, <1>5, <1>7, <1>8, <1>9, <1>10, <1>11, <1>12, <1>13, HandlerOK DEF a1, c1

----------------------------------------------------------------------------
\* An event appended, by the server or by the maturity job.
Logged(o, e) ==
  /\ log'  = [log EXCEPT ![o] = Append(@, e)]
  /\ snap' = [snap EXCEPT ![o] = Replay(@, e)]
  /\ UNCHANGED <<orderRefs, refundRefs, returnRefs, deliveries>>

\* An event that fits the log now.
Fits(o, e) ==
  /\ snap[o].state # "buyer_accepted"
  /\ e.type = "order_created" => log[o] = <<>>
  /\ e.type = "paid" => ~HasEvent(log[o], "paid") /\ HasEvent(log[o], "order_created")
  /\ e.type \notin {"order_created", "paid"} => HasEvent(log[o], "paid")
  /\ e.type = "refund_recorded" =>
       ~RefundEvent(o, e.refund) /\ ProcessedBefore(o, e.refund) /\ e.total = PriorRefundTotal(o) + e.amount

\* What it does to the log and to the snapshot.
LEMMA LogFrame ==
  ASSUME FilesTypeOK, NEW o \in Offers, NEW e \in LogEvents, Logged(o, e)
  PROVE  /\ log' \in [Offers -> Seq(LogEvents)] /\ snap' \in [Offers -> Snapshots]
         /\ log'[o] = Append(log[o], e) /\ snap'[o] = Replay(snap[o], e)
         /\ \A p \in Offers \ {o} : log'[p] = log[p] /\ snap'[p] = snap[p]
<1>1. log \in [Offers -> Seq(LogEvents)] /\ snap \in [Offers -> Snapshots]
  BY DEF FilesTypeOK
<1>2. Append(log[o], e) \in Seq(LogEvents) /\ Replay(snap[o], e) \in Snapshots
  BY <1>1, OneEventMore, ReplayType
<1>3. log' = [log EXCEPT ![o] = Append(log[o], e)] /\ snap' = [snap EXCEPT ![o] = Replay(snap[o], e)]
  BY DEF Logged
<1> QED
  BY <1>1, <1>2, <1>3

\* What it does to what is read in the log.
LEMMA LogFacts ==
  ASSUME FilesTypeOK, NEW o \in Offers, NEW e \in LogEvents, Logged(o, e)
  PROVE  /\ \A p \in Offers : \A type :
              HasEvent(log'[p], type) <=> HasEvent(log[p], type) \/ (p = o /\ e.type = type)
         /\ \A p \in Offers : \A r :
              RefundEvent(p, r)' <=> RefundEvent(p, r) \/ (p = o /\ e.type = "refund_recorded" /\ e.refund = r)
         /\ \A p \in Offers :
              PriorRefundTotal(p)' = IF p = o /\ e.type = "refund_recorded"
                                     THEN PriorRefundTotal(p) + e.amount ELSE PriorRefundTotal(p)
         /\ \A p, r : ProcessedBefore(p, r)' <=> ProcessedBefore(p, r)
<1>1. log[o] \in Seq(LogEvents) /\ snap[o] \in Snapshots
  BY DEF FilesTypeOK
<1>2. log'[o] = Append(log[o], e) /\ snap'[o] = Replay(snap[o], e)
  BY LogFrame
<1>3. \A p \in Offers \ {o} : log'[p] = log[p] /\ snap'[p] = snap[p]
  BY LogFrame
<1>4. ASSUME NEW p \in Offers, NEW type
      PROVE  HasEvent(log'[p], type) <=> HasEvent(log[p], type) \/ (p = o /\ e.type = type)
  <2>1. CASE p = o
    <3>1. HasEvent(Append(log[o], e), type) <=> HasEvent(log[o], type) \/ e.type = type
      BY <1>1, HasOneMore
    <3> QED
      BY <1>2, <2>1, <3>1
  <2>2. CASE p # o
    BY <1>3, <2>2
  <2> QED
    BY <2>1, <2>2
<1>5. ASSUME NEW p \in Offers, NEW r
      PROVE  RefundEvent(p, r)' <=> RefundEvent(p, r) \/ (p = o /\ e.type = "refund_recorded" /\ e.refund = r)
  <2>1. CASE p = o
    <3>1. /\ DOMAIN log[o] = 1..Len(log[o]) /\ DOMAIN log'[o] = 1..(Len(log[o]) + 1) /\ Len(log[o]) \in Nat
          /\ \A i \in DOMAIN log[o] : log'[o][i] = log[o][i]
          /\ log'[o][Len(log[o]) + 1] = e
      BY <1>1, <1>2, OneEventMore
    <3> QED
      BY <2>1, <3>1 DEF RefundEvent
  <2>2. CASE p # o
    BY <1>3, <2>2 DEF RefundEvent
  <2> QED
    BY <2>1, <2>2
<1>6. ASSUME NEW p \in Offers
      PROVE  PriorRefundTotal(p)' = IF p = o /\ e.type = "refund_recorded"
                                    THEN PriorRefundTotal(p) + e.amount ELSE PriorRefundTotal(p)
  <2>1. PriorRefundTotal(p) = RefundTotal(log[p]) /\ PriorRefundTotal(p)' = RefundTotal(log'[p])
    BY PriorIsTotal DEF PriorRefundTotal, RefundTotal, RefundsIn
  <2>2. CASE p = o
    BY <1>1, <1>2, <2>1, <2>2, TotalOneMore
  <2>3. CASE p # o
    BY <1>3, <2>1, <2>3
  <2> QED
    BY <2>2, <2>3
<1>7. \A p, r : ProcessedBefore(p, r)' <=> ProcessedBefore(p, r)
  BY DEF Logged, ProcessedBefore
<1> QED
  BY <1>4, <1>5, <1>6, <1>7

\* What it does to the snapshot, field by field.
LEMMA ReplayFacts ==
  ASSUME NEW s \in Snapshots, NEW e \in LogEvents
  PROVE  /\ e.type = "order_created" =>
              /\ Replay(s, e).state = "order_created" /\ Replay(s, e).pay = s.pay
              /\ Replay(s, e).paid = s.paid /\ Replay(s, e).refunded = s.refunded
              /\ Replay(s, e).exposure = s.exposure
         /\ e.type = "paid" =>
              /\ Replay(s, e).state = "paid" /\ Replay(s, e).pay = "paid"
              /\ Replay(s, e).refunded = s.refunded /\ Replay(s, e).exposure = s.exposure
         /\ e.type = "refund_recorded" =>
              /\ Replay(s, e).state = e.state /\ Replay(s, e).pay = e.state
              /\ Replay(s, e).paid = s.paid /\ Replay(s, e).refunded = e.total
              /\ Replay(s, e).exposure = s.exposure
              /\ e.state \in {"partially_refunded", "refunded"} /\ e.amount \in Nat
         /\ e.type = "return_status_recorded" =>
              /\ Replay(s, e).state = IF e.state = "mature" THEN IF s.pay = "none" THEN "paid" ELSE s.pay
                                      ELSE e.state
              /\ Replay(s, e).pay = s.pay /\ Replay(s, e).paid = s.paid
              /\ Replay(s, e).refunded = s.refunded /\ Replay(s, e).exposure = e.exposure
              /\ e.state \in SettledStates
         /\ e.type = "mature" =>
              /\ Replay(s, e).state = "mature" /\ Replay(s, e).pay = e.pay
              /\ Replay(s, e).paid = s.paid /\ Replay(s, e).refunded = s.refunded
              /\ Replay(s, e).exposure = e.input.exposure /\ e.pay \in PaymentStates \ {"none"}
<1>1. CASE e.type = "order_created"
  <2>1. Replay(s, e) = [s EXCEPT !.state = "order_created"]
    BY <1>1, EventTypes, ReplayOrderCreated
  <2> QED
    BY <1>1, <2>1 DEF Snapshots
<1>2. CASE e.type = "paid"
  <2>1. Replay(s, e) = [s EXCEPT !.state = "paid", !.pay = "paid", !.paid = e.amount]
    BY <1>2, EventTypes, ReplayPaid
  <2> QED
    BY <1>2, <2>1 DEF Snapshots
<1>3. CASE e.type = "refund_recorded"
  <2>1. e \in RefundEvents
    BY <1>3, EventTypes
  <2>2. Replay(s, e) = [s EXCEPT !.state = e.state, !.pay = e.state, !.refunded = e.total]
    BY <2>1, ReplayRefund
  <2> QED
    BY <1>3, <2>1, <2>2 DEF Snapshots, RefundEvents
<1>4. CASE e.type = "return_status_recorded"
  <2>1. e \in ReturnEvents
    BY <1>4, EventTypes
  <2>2. Replay(s, e) = IF e.state = "mature"
                       THEN [s EXCEPT !.state = IF s.pay = "none" THEN "paid" ELSE s.pay,
                                      !.exposure = e.exposure, !.matured = {}]
                       ELSE [s EXCEPT !.state = e.state, !.exposure = e.exposure]
    BY <2>1, ReplayReturn
  <2>3. e.state \in SettledStates
    BY <2>1 DEF ReturnEvents
  <2>4. CASE e.state = "mature"
    BY <1>4, <2>2, <2>3, <2>4 DEF Snapshots
  <2>5. CASE e.state # "mature"
    BY <1>4, <2>2, <2>3, <2>5 DEF Snapshots
  <2> QED
    BY <2>4, <2>5
<1>5. CASE e.type = "mature"
  <2> DEFINE matured == {e.input}
             exposure == e.input.exposure
  <2>1. e \in MaturedEvents
    BY <1>5, EventTypes
  <2>2. Replay(s, e) = [s EXCEPT !.state = "mature", !.pay = e.pay, !.matured = matured,
                                 !.exposure = exposure]
    BY <2>1, ReplayMature
  <2>3. e.pay \in PaymentStates \ {"none"}
    BY <2>1 DEF MaturedEvents
  <2>4. exposure = e.input.exposure
    OBVIOUS
  <2> HIDE DEF matured, exposure
  <2> QED
    BY <1>5, <2>2, <2>3, <2>4 DEF Snapshots
<1> QED
  BY <1>1, <1>2, <1>3, <1>4, <1>5, EventTypes

\* An event that fits keeps the invariant of the files.
LEMMA LogExtended ==
  ASSUME FilesInv, NEW o \in Offers, NEW e \in LogEvents, Fits(o, e), Logged(o, e)
  PROVE  FilesInv'
<1>1. FilesTypeOK
  BY DEF FilesInv
<1>2. /\ log' \in [Offers -> Seq(LogEvents)] /\ snap' \in [Offers -> Snapshots]
      /\ log'[o] = Append(log[o], e) /\ snap'[o] = Replay(snap[o], e)
      /\ \A p \in Offers \ {o} : log'[p] = log[p] /\ snap'[p] = snap[p]
  BY <1>1, LogFrame
<1>3. \A p \in Offers : \A type :
        HasEvent(log'[p], type) <=> HasEvent(log[p], type) \/ (p = o /\ e.type = type)
  BY <1>1, LogFacts
<1>4. \A p \in Offers : \A r :
        RefundEvent(p, r)' <=> RefundEvent(p, r) \/ (p = o /\ e.type = "refund_recorded" /\ e.refund = r)
  BY <1>1, LogFacts
<1>5. \A p \in Offers :
        PriorRefundTotal(p)' = IF p = o /\ e.type = "refund_recorded"
                               THEN PriorRefundTotal(p) + e.amount ELSE PriorRefundTotal(p)
  BY <1>1, LogFacts
<1>6. \A p, r : ProcessedBefore(p, r)' <=> ProcessedBefore(p, r)
  BY <1>1, LogFacts
<1>7. /\ orderRefs' = orderRefs /\ refundRefs' = refundRefs /\ returnRefs' = returnRefs
      /\ deliveries' = deliveries
  BY DEF Logged
<1>8. log[o] \in Seq(LogEvents) /\ snap[o] \in Snapshots
  BY <1>1 DEF FilesTypeOK
<1>9. /\ Len(log[o]) \in Nat /\ DOMAIN log[o] = 1..Len(log[o]) /\ DOMAIN log'[o] = 1..(Len(log[o]) + 1)
      /\ \A i \in DOMAIN log[o] : log'[o][i] = log[o][i]
      /\ log'[o][Len(log[o]) + 1] = e
  BY <1>2, <1>8, OneEventMore
<1>10. FilesTypeOK'
  BY <1>1, <1>2, <1>7 DEF FilesTypeOK
<1>11. OnceInOrder'
  <2> DEFINE n == Len(log[o]) + 1
  <2>1. \A j \in DOMAIN log[o] : TypesBefore(log'[o], j) = TypesBefore(log[o], j)
    <3>1. \A j \in DOMAIN log[o] : \A i \in 1..(j - 1) : i \in DOMAIN log[o]
      BY <1>9
    <3> QED
      BY <1>9, <3>1 DEF TypesBefore
  <2>2. TypesBefore(log'[o], n) = {log[o][i].type : i \in DOMAIN log[o]}
    <3>1. 1..(n - 1) = DOMAIN log[o]
      BY <1>9
    <3> QED
      BY <1>9, <3>1 DEF TypesBefore
  <2>3. e.type = "order_created" => TypesBefore(log'[o], n) = {}
    BY <2>2 DEF Fits
  <2>4. e.type = "paid" => TypesBefore(log'[o], n) = {"order_created"}
    <3>1. e.type = "paid" => \A i \in DOMAIN log[o] : log[o][i].type = "order_created"
      BY OnlyCreatedBeforePaid DEF Fits
    <3>2. e.type = "paid" => \E i \in DOMAIN log[o] : log[o][i].type = "order_created"
      BY DEF Fits, HasEvent
    <3> QED
      BY <2>2, <3>1, <3>2
  <2>5. e.type \notin {"order_created", "paid"} => "paid" \in TypesBefore(log'[o], n)
    BY <2>2 DEF Fits, HasEvent
  <2>6. \A p \in Offers : InOrder(log[p])
    BY OrderedLogs DEF FilesInv
  <2>7. InOrder(log'[o])
    <3> SUFFICES ASSUME NEW j \in DOMAIN log'[o]
                 PROVE  EntryInOrder(log'[o], j)
      BY DEF InOrder
    <3>1. CASE j \in DOMAIN log[o]
      <4>1. EntryInOrder(log[o], j)
        BY <2>6, <3>1 DEF InOrder
      <4>2. log'[o][j] = log[o][j] /\ TypesBefore(log'[o], j) = TypesBefore(log[o], j)
        BY <1>9, <2>1, <3>1
      <4> QED
        BY <4>1, <4>2 DEF EntryInOrder
    <3>2. CASE j = n
      <4>1. log'[o][n] = e
        BY <1>9
      <4> QED
        BY <2>3, <2>4, <2>5, <3>2, <4>1 DEF EntryInOrder
    <3> QED
      BY <1>9, <3>1, <3>2
  <2>8. \A p \in Offers : InOrder(log'[p])
    BY <1>2, <2>6, <2>7
  <2> QED
    BY <2>8, OrderedLogs
<1>12. PaidOnRecord'
  <2> SUFFICES ASSUME NEW p \in Offers
               PROVE  \/ HasEvent(log'[p], "paid") /\ snap'[p].state \in SettledStates /\ snap'[p].pay # "none"
                      \/ ~HasEvent(log'[p], "paid") /\ snap'[p].state \notin SettledStates /\ snap'[p].pay = "none"
    BY DEF PaidOnRecord
  <2>1. CASE p # o
    BY <1>2, <2>1 DEF FilesInv, PaidOnRecord
  <2>2. CASE p = o /\ e.type = "order_created"
    <3>1. ~HasEvent(log[o], "paid")
      BY <2>2 DEF Fits, HasEvent
    <3>2. snap[o].pay = "none"
      BY <3>1 DEF FilesInv, PaidOnRecord
    <3> QED
      BY <1>2, <1>3, <1>8, <2>2, <3>1, <3>2, ReplayFacts DEF SettledStates
  <2>3. CASE p = o /\ e.type # "order_created"
    <3>1. HasEvent(log'[o], "paid")
      BY <1>3, <2>3 DEF Fits
    <3>2. e.type # "paid" => snap[o].pay # "none" /\ snap[o].pay \in PaymentStates
      BY <1>8, <2>3 DEF Fits, FilesInv, PaidOnRecord, Snapshots
    <3>3. snap'[o].state \in SettledStates /\ snap'[o].pay # "none"
      BY <1>2, <1>8, <2>3, <3>2, EventTypes, ReplayFacts DEF SettledStates, PaymentStates
    <3> QED
      BY <2>3, <3>1, <3>3
  <2> QED
    BY <2>1, <2>2, <2>3
<1>13. OrdersOfOffers'
  BY <1>7 DEF FilesInv, OrdersOfOffers
<1>14. RefundsOnRecord'
  BY <1>4, <1>6 DEF FilesInv, RefundsOnRecord, Fits
<1>15. RefundOnce'
  <2> SUFFICES ASSUME NEW p \in Offers, NEW i \in DOMAIN log'[p], NEW j \in DOMAIN log'[p],
                      log'[p][i].type = "refund_recorded", log'[p][j].type = "refund_recorded",
                      log'[p][i].refund = log'[p][j].refund
               PROVE  i = j
    BY DEF RefundOnce
  <2>1. CASE p # o
    BY <1>2, <2>1 DEF FilesInv, RefundOnce
  <2>2. CASE p = o
    <3>1. e.type = "refund_recorded" => \A k \in DOMAIN log[o] :
            ~(log[o][k].type = "refund_recorded" /\ log[o][k].refund = e.refund)
      BY DEF Fits, RefundEvent
    <3>2. CASE i \in DOMAIN log[o] /\ j \in DOMAIN log[o]
      BY <1>9, <2>2, <3>2 DEF FilesInv, RefundOnce
    <3>3. CASE i \notin DOMAIN log[o] /\ j \in DOMAIN log[o]
      <4>1. log'[o][i] = e /\ log'[o][j] = log[o][j]
        BY <1>9, <2>2, <3>3
      <4> QED
        BY <2>2, <3>1, <3>3, <4>1
    <3>4. CASE i \in DOMAIN log[o] /\ j \notin DOMAIN log[o]
      <4>1. log'[o][j] = e /\ log'[o][i] = log[o][i]
        BY <1>9, <2>2, <3>4
      <4> QED
        BY <2>2, <3>1, <3>4, <4>1
    <3>5. CASE i \notin DOMAIN log[o] /\ j \notin DOMAIN log[o]
      BY <1>9, <2>2, <3>5
    <3> QED
      BY <3>2, <3>3, <3>4, <3>5
  <2> QED
    BY <2>1, <2>2
<1>16. TotalIsPrior'
  <2> SUFFICES ASSUME NEW p \in Offers PROVE snap'[p].refunded = PriorRefundTotal(p)'
    BY DEF TotalIsPrior
  <2>1. snap[p].refunded = PriorRefundTotal(p)
    BY DEF FilesInv, TotalIsPrior
  <2>2. CASE p # o
    BY <1>2, <1>5, <2>1, <2>2
  <2>3. CASE p = o /\ e.type = "refund_recorded"
    BY <1>2, <1>5, <1>8, <2>3, ReplayFacts DEF Fits
  <2>4. CASE p = o /\ e.type # "refund_recorded"
    BY <1>2, <1>5, <1>8, <2>1, <2>4, EventTypes, ReplayFacts
  <2> QED
    BY <2>2, <2>3, <2>4
<1>17. NothingForgotten'
  <2> SUFFICES ASSUME NEW p \in Offers, log'[p] # <<>> PROVE snap'[p].state # "buyer_accepted"
    BY DEF NothingForgotten
  <2>1. CASE p # o
    BY <1>2, <2>1 DEF FilesInv, NothingForgotten
  <2>2. CASE p = o /\ e.type = "order_created"
    BY <1>2, <1>8, <2>2, ReplayFacts
  <2>3. CASE p = o /\ e.type # "order_created"
    <3>1. HasEvent(log'[o], "paid")
      BY <1>3, <2>3 DEF Fits
    <3> QED
      BY <1>12, <2>3, <3>1 DEF PaidOnRecord, SettledStates
  <2> QED
    BY <2>1, <2>2, <2>3
<1>18. DeliveriesRead'
  BY <1>7 DEF FilesInv, DeliveriesRead
<1>19. AcknowledgedIsDone'
  <2>1. \A m \in deliveries : m \in OrderMessages /\ Named(m) # NoOffer => OrderOffer[m.order] \in Offers
    BY NamedOffer DEF FilesInv, DeliveriesRead, ReadableOrders
  <2> QED
    BY <1>3, <1>7, <2>1 DEF FilesInv, AcknowledgedIsDone
<1> QED
  BY <1>10, <1>11, <1>12, <1>13, <1>14, <1>15, <1>16, <1>17, <1>18, <1>19 DEF FilesInv

----------------------------------------------------------------------------
\* The files only grow.
FilesGrow ==
  /\ \A o \in Offers : \A type : HasEvent(log[o], type) => HasEvent(log'[o], type)
  /\ orderRefs \subseteq orderRefs'
  /\ \A r \in Refunds : refundRefs[r] # <<>> => refundRefs'[r] # <<>>
  /\ \A r \in Returns : returnRefs[r] # <<>> => returnRefs'[r] # <<>>
  /\ \A o : \A r \in Refunds : ProcessedBefore(o, r) => ProcessedBefore(o, r)'

\* The next append is made.
HeadDone ==
  LET a == Head(todo)
  IN  /\ a.to = "order_refs" => a.line \in orderRefs'
      /\ a.to = "refund_refs" =>
           /\ refundRefs'[a.ref] # <<>>
           /\ \A o, r : a = RefundLine(r, [offer |-> o, status |-> "processed"]) => ProcessedBefore(o, r)'
      /\ a.to = "return_refs" => returnRefs'[a.ref] # <<>>
      /\ a.to = "offers" => Logged(a.offer, a.line) /\ HasEvent(log'[a.offer], a.line.type)
      /\ a.to # "offers" => UNCHANGED <<log, snap>>

LEMMA HeadFacts ==
  ASSUME NEW S, NEW s \in Seq(S), s # <<>>
  PROVE  /\ Len(s) \in Nat /\ 1 \in DOMAIN s /\ Head(s) = s[1] /\ Head(s) \in S
         /\ Tail(s) \in Seq(S) /\ DOMAIN Tail(s) = 1..(Len(s) - 1)
         /\ \A k \in DOMAIN Tail(s) : k \in Nat /\ k + 1 \in DOMAIN s /\ Tail(s)[k] = s[k + 1]
OBVIOUS

\* Each append goes to one file.
LEMMA AppendKinds ==
  ASSUME NEW a \in Appends
  PROVE  /\ a.to \in {"order_refs", "refund_refs", "return_refs", "offers", "deliveries"}
         /\ a.to = "order_refs" => a.line \in Orders
         /\ a.to = "refund_refs" => a.ref \in Refunds /\ a.line \in RefundLines
         /\ a.to = "return_refs" => a.ref \in Returns /\ a.line \in ReturnLines
         /\ a.to = "offers" => a.offer \in Offers /\ a.line \in LogEvents /\ a = Event(a.offer, a.line)
         /\ a.to = "deliveries" => a.line \in Messages
<1>1. CASE a \in OrderAppendSet
  BY <1>1 DEF OrderAppendSet
<1>2. CASE a \in RefundAppendSet
  BY <1>2 DEF RefundAppendSet
<1>3. CASE a \in ReturnAppendSet
  BY <1>3 DEF ReturnAppendSet
<1>4. CASE a \in EventAppendSet
  BY <1>4 DEF EventAppendSet, Event
<1>5. CASE a \in DeliverySet
  BY <1>5 DEF DeliverySet
<1> QED
  BY <1>1, <1>2, <1>3, <1>4, <1>5 DEF Appends

\* What is left to append moves up one place.
LEMMA Shifted ==
  ASSUME TodoInv, todo # <<>>, todo' = Tail(todo)
  PROVE  /\ todo' \in Seq(Appends)
         /\ \A k \in DOMAIN todo' :
              /\ k \in Nat /\ k + 1 \in DOMAIN todo /\ todo'[k] = todo[k + 1] /\ todo[k + 1] \in Appends
              /\ AppendOK(k + 1)
              /\ \A i \in 1..(k - 1) : todo'[i] = todo[i + 1] /\ i + 1 \in 1..k
              /\ 1 \in 1..k /\ todo[1] = Head(todo)
              /\ \A a : Before(k + 1, a) => a = Head(todo) \/ Before(k, a)'
         /\ Head(todo) \in Appends /\ AppendOK(1) /\ Head(todo) = todo[1]
<1>1. todo \in Seq(Appends) /\ \A k \in DOMAIN todo : AppendOK(k)
  BY DEF TodoInv
<1>2. /\ Len(todo) \in Nat /\ 1 \in DOMAIN todo /\ Head(todo) = todo[1] /\ Head(todo) \in Appends
      /\ todo' \in Seq(Appends) /\ DOMAIN todo' = 1..(Len(todo) - 1) /\ DOMAIN todo = 1..Len(todo)
      /\ \A k \in DOMAIN todo' : k \in Nat /\ k + 1 \in DOMAIN todo /\ todo'[k] = todo[k + 1]
  BY <1>1, HeadFacts
<1>3. ASSUME NEW k \in DOMAIN todo'
      PROVE  /\ k \in Nat /\ k + 1 \in DOMAIN todo /\ todo'[k] = todo[k + 1] /\ todo[k + 1] \in Appends
             /\ AppendOK(k + 1)
             /\ \A i \in 1..(k - 1) : todo'[i] = todo[i + 1] /\ i + 1 \in 1..k
             /\ 1 \in 1..k /\ todo[1] = Head(todo)
             /\ \A a : Before(k + 1, a) => a = Head(todo) \/ Before(k, a)'
  <2>1. k \in Nat /\ k >= 1 /\ k + 1 \in DOMAIN todo /\ todo'[k] = todo[k + 1] /\ todo[k + 1] \in Appends
    BY <1>1, <1>2
  <2>2. AppendOK(k + 1)
    BY <1>1, <2>1
  <2>3. \A i \in 1..(k - 1) : i \in DOMAIN todo' /\ todo'[i] = todo[i + 1] /\ i + 1 \in 1..k
    BY <1>2, <2>1
  <2>4. ASSUME NEW a, Before(k + 1, a) PROVE a = Head(todo) \/ Before(k, a)'
    <3>1. PICK i \in 1..((k + 1) - 1) : todo[i] = a
      BY <2>4 DEF Before
    <3>2. CASE i = 1
      BY <1>2, <3>1, <3>2
    <3>3. CASE i # 1
      <4>1. i - 1 \in 1..(k - 1) /\ (i - 1) + 1 = i
        BY <2>1, <3>1, <3>3
      <4>2. todo'[i - 1] = a
        BY <2>3, <3>1, <4>1
      <4> QED
        BY <4>1, <4>2 DEF Before
    <3> QED
      BY <3>2, <3>3
  <2> QED
    BY <1>2, <2>1, <2>2, <2>3, <2>4
<1> QED
  BY <1>1, <1>2, <1>3

\* What is left still fits, when the append was made.
LEMMA RestOK ==
  ASSUME IngestInv, FilesInv', todo # <<>>, todo' = Tail(todo), HeadDone, FilesGrow
  PROVE  IngestInv'
<1>1. TodoInv /\ FilesInv
  BY DEF IngestInv
<1>2. PICK h : h = Head(todo)
  OBVIOUS
<1>3. /\ todo' \in Seq(Appends) /\ h \in Appends /\ h = todo[1]
  BY <1>1, <1>2, Shifted
<1>4. /\ h.to = "order_refs" => h.line \in orderRefs'
      /\ h.to = "refund_refs" =>
           /\ refundRefs'[h.ref] # <<>>
           /\ \A o, r : h = RefundLine(r, [offer |-> o, status |-> "processed"]) => ProcessedBefore(o, r)'
      /\ h.to = "return_refs" => returnRefs'[h.ref] # <<>>
      /\ h.to = "offers" => Logged(h.offer, h.line) /\ HasEvent(log'[h.offer], h.line.type)
      /\ h.to # "offers" => log' = log /\ snap' = snap
  BY <1>2 DEF HeadDone
<1> SUFFICES ASSUME NEW k \in DOMAIN todo' PROVE AppendOK(k)'
  BY <1>3 DEF IngestInv, TodoInv
<1>5. PICK a : a = todo'[k]
  OBVIOUS
<1>6. /\ k \in Nat /\ a = todo[k + 1] /\ a \in Appends /\ AppendOK(k + 1)
      /\ \A i \in 1..(k - 1) : todo'[i] = todo[i + 1] /\ i + 1 \in 1..((k + 1) - 1)
      /\ 1 \in 1..((k + 1) - 1)
  <2>1. (k + 1) - 1 = k
    BY <1>1, Shifted
  <2> QED
    BY <1>1, <1>5, <2>1, Shifted
<1>7. \A x : Before(k + 1, x) => x = h \/ Before(k, x)'
  BY <1>1, <1>2, Shifted
<1>8. CASE a.to = "order_refs"
  BY <1>5, <1>6, <1>8 DEF AppendOK
<1>9. CASE a.to \in {"refund_refs", "return_refs"}
  <2>1. PICK line : line = a.line
    OBVIOUS
  <2>2. LineOK(k + 1, line)
    BY <1>6, <1>9, <2>1 DEF AppendOK
  <2>3. h.to # "offers"
    BY <1>3, <1>6, <2>2 DEF LineOK
  <2>4. LineOK(k, line)'
    BY <1>4, <1>6, <2>2, <2>3 DEF LineOK
  <2> QED
    BY <1>5, <1>9, <2>1, <2>4 DEF AppendOK
<1>10. CASE a.to = "offers"
  <2>1. PICK o, e : o = a.offer /\ e = a.line
    OBVIOUS
  <2>2. EventOK(k + 1, o, e)
    BY <1>6, <1>10, <2>1 DEF AppendOK
  <2>3. o \in Offers /\ e \in LogEvents
    BY <1>6, <1>10, <2>1, AppendKinds
  <2>4. \A i \in 1..(k - 1) : todo'[i].to = "offers" => todo'[i] = Event(o, OrderCreated) /\ e.type = "paid"
    BY <1>6, <2>2 DEF EventOK
  <2>5. CASE h.to # "offers"
    <3>1. log' = log /\ snap' = snap
      BY <1>4, <2>5
    <3>2. e.type = "paid" => HasEvent(log'[o], "order_created") \/ Before(k, Event(o, OrderCreated))'
      <4>1. h # Event(o, OrderCreated)
        BY <2>5 DEF Event
      <4> QED
        BY <1>7, <2>2, <3>1, <4>1 DEF EventOK
    <3>3. e.type = "refund_recorded" =>
            \/ ProcessedBefore(o, e.refund)'
            \/ Before(k, RefundLine(e.refund, [offer |-> o, status |-> "processed"]))'
      <4> SUFFICES ASSUME e.type = "refund_recorded"
                   PROVE  \/ ProcessedBefore(o, e.refund)'
                          \/ Before(k, RefundLine(e.refund, [offer |-> o, status |-> "processed"]))'
        OBVIOUS
      <4>1. e.refund \in Refunds
        BY <2>3, EventTypes DEF RefundEvents
      <4>2. CASE ProcessedBefore(o, e.refund)
        BY <4>1, <4>2 DEF FilesGrow
      <4>3. CASE Before(k + 1, RefundLine(e.refund, [offer |-> o, status |-> "processed"]))
        <5>1. CASE h = RefundLine(e.refund, [offer |-> o, status |-> "processed"])
          <6>1. h.to = "refund_refs"
            BY <5>1 DEF RefundLine
          <6> QED
            BY <1>4, <5>1, <6>1
        <5> QED
          BY <1>7, <4>3, <5>1
      <4> QED
        BY <2>2, <4>2, <4>3 DEF EventOK
    <3>4. e.type = "refund_recorded" => ~RefundEvent(o, e.refund)' /\ e.total = PriorRefundTotal(o)' + e.amount
      BY <2>2, <3>1 DEF EventOK, RefundEvent, PriorRefundTotal
    <3>5. EventOK(k, o, e)'
      BY <2>2, <2>4, <3>1, <3>2, <3>3, <3>4 DEF EventOK
    <3> QED
      BY <1>5, <1>10, <2>1, <3>5 DEF AppendOK
  <2>6. CASE h.to = "offers"
    <3>1. h = Event(o, OrderCreated) /\ e.type = "paid"
      BY <1>3, <1>6, <2>2, <2>6 DEF EventOK
    <3>2. Logged(o, OrderCreated) /\ HasEvent(log'[o], "order_created")
      <4>1. h.offer = o /\ h.line = OrderCreated /\ OrderCreated.type = "order_created"
        BY <3>1 DEF Event, OrderCreated
      <4> QED
        BY <1>4, <2>6, <4>1
    <3>3. FilesTypeOK /\ OrderCreated \in LogEvents /\ OrderCreated.type = "order_created"
      BY <1>1 DEF FilesInv, LogEvents, OrderCreated
    <3>4. ~HasEvent(log'[o], "paid") /\ snap'[o] = Replay(snap[o], OrderCreated)
      <4>1. ~HasEvent(log[o], "paid")
        BY <2>2, <3>1 DEF EventOK
      <4>2. HasEvent(log'[o], "paid") <=> HasEvent(log[o], "paid") \/ OrderCreated.type = "paid"
        BY <2>3, <3>2, <3>3, LogFacts
      <4>3. snap'[o] = Replay(snap[o], OrderCreated)
        BY <2>3, <3>2, <3>3, LogFrame
      <4> QED
        BY <3>3, <4>1, <4>2, <4>3
    <3>5. snap'[o].state = "order_created"
      BY <2>3, <3>3, <3>4, ReplayFacts DEF FilesTypeOK
    <3>6. EventOK(k, o, e)'
      BY <2>4, <3>1, <3>2, <3>4, <3>5 DEF EventOK
    <3> QED
      BY <1>5, <1>10, <2>1, <3>6 DEF AppendOK
  <2> QED
    BY <2>5, <2>6
<1>11. CASE a.to = "deliveries"
  <2>1. PICK m : m = a.line
    OBVIOUS
  <2>2. DeliveryOK(k + 1, m) /\ m \in Messages
    BY <1>6, <1>11, <2>1, AppendKinds DEF AppendOK
  <2>3. ASSUME m \in OrderMessages, Named(m) # NoOffer
        PROVE  /\ m.order \in orderRefs' \/ Before(k, OrderLine(m.order))'
               /\ OrderWebhook[m].paid => \/ HasEvent(log'[OrderOffer[m.order]], "paid")
                                          \/ Before(k, Event(OrderOffer[m.order], PaidEvent(m)))'
    <3>1. OrderOffer[m.order] \in Offers
      BY <2>2, <2>3, NamedOffer DEF DeliveryOK, ReadableOrders
    <3>2. h = OrderLine(m.order) => m.order \in orderRefs'
      <4>1. OrderLine(m.order).to = "order_refs" /\ OrderLine(m.order).line = m.order
        BY DEF OrderLine
      <4> QED
        BY <1>4, <4>1
    <3>3. h = Event(OrderOffer[m.order], PaidEvent(m)) => HasEvent(log'[OrderOffer[m.order]], "paid")
      <4> DEFINE x == Event(OrderOffer[m.order], PaidEvent(m))
      <4>1. x.to = "offers" /\ x.offer = OrderOffer[m.order] /\ x.line.type = "paid"
        BY DEF Event, PaidEvent
      <4> HIDE DEF x
      <4>2. h = x => HasEvent(log'[OrderOffer[m.order]], "paid")
        BY <1>4, <4>1
      <4> QED
        BY <4>2 DEF x
    <3>4. m.order \in orderRefs \/ Before(k + 1, OrderLine(m.order))
      BY <2>2, <2>3 DEF DeliveryOK
    <3>5. OrderWebhook[m].paid => \/ HasEvent(log[OrderOffer[m.order]], "paid")
                                  \/ Before(k + 1, Event(OrderOffer[m.order], PaidEvent(m)))
      BY <2>2, <2>3 DEF DeliveryOK
    <3>6. /\ m.order \in orderRefs => m.order \in orderRefs'
          /\ HasEvent(log[OrderOffer[m.order]], "paid") => HasEvent(log'[OrderOffer[m.order]], "paid")
      BY <3>1 DEF FilesGrow
    <3> QED
      BY <1>7, <3>2, <3>3, <3>4, <3>5, <3>6
  <2>4. m \in RefundMessages => \/ refundRefs'[m.refund] # <<>>
                                \/ \E line \in RefundLines : Before(k, RefundLine(m.refund, line))'
    <3> SUFFICES ASSUME m \in RefundMessages
                 PROVE  \/ refundRefs'[m.refund] # <<>>
                        \/ \E line \in RefundLines : Before(k, RefundLine(m.refund, line))'
      OBVIOUS
    <3>1. refundRefs[m.refund] # <<>> => refundRefs'[m.refund] # <<>>
      BY <2>2, Kinds DEF FilesGrow
    <3>2. \A line : h = RefundLine(m.refund, line) => refundRefs'[m.refund] # <<>>
      <4>1. \A line : RefundLine(m.refund, line).to = "refund_refs" /\ RefundLine(m.refund, line).ref = m.refund
        BY DEF RefundLine
      <4> QED
        BY <1>4, <4>1
    <3> QED
      BY <1>7, <2>2, <3>1, <3>2 DEF DeliveryOK
  <2>5. m \in ReturnMessages => \/ returnRefs'[m.return] # <<>>
                                \/ \E line \in ReturnLines : Before(k, ReturnLine(m.return, line))'
    <3> SUFFICES ASSUME m \in ReturnMessages
                 PROVE  \/ returnRefs'[m.return] # <<>>
                        \/ \E line \in ReturnLines : Before(k, ReturnLine(m.return, line))'
      OBVIOUS
    <3>1. returnRefs[m.return] # <<>> => returnRefs'[m.return] # <<>>
      BY <2>2, Kinds DEF FilesGrow
    <3>2. \A line : h = ReturnLine(m.return, line) => returnRefs'[m.return] # <<>>
      <4>1. \A line : ReturnLine(m.return, line).to = "return_refs" /\ ReturnLine(m.return, line).ref = m.return
        BY DEF ReturnLine
      <4> QED
        BY <1>4, <4>1
    <3> QED
      BY <1>7, <2>2, <3>1, <3>2 DEF DeliveryOK
  <2>6. DeliveryOK(k, m)'
    BY <2>2, <2>3, <2>4, <2>5 DEF DeliveryOK
  <2> QED
    BY <1>5, <1>11, <2>1, <2>6 DEF AppendOK
<1> QED
  BY <1>6, <1>8, <1>9, <1>10, <1>11, AppendKinds

----------------------------------------------------------------------------
\* A reference or a delivery appended keeps the invariant of the files.
LEMMA OnlyReferences ==
  ASSUME FilesInv, log' = log, snap' = snap, FilesTypeOK', FilesGrow, OrdersOfOffers',
         DeliveriesRead', AcknowledgedIsDone'
  PROVE  FilesInv'
<1>1. OnceInOrder'
  BY SameLog DEF FilesInv
<1>2. PaidOnRecord'
  BY DEF FilesInv, PaidOnRecord
<1>3. RefundsOnRecord'
  BY DEF FilesInv, RefundsOnRecord, RefundEvent, FilesGrow
<1>4. RefundOnce'
  BY DEF FilesInv, RefundOnce
<1>5. TotalIsPrior'
  BY DEF FilesInv, TotalIsPrior, PriorRefundTotal
<1>6. NothingForgotten'
  BY DEF FilesInv, NothingForgotten
<1> QED
  BY <1>1, <1>2, <1>3, <1>4, <1>5, <1>6 DEF FilesInv

LEMMA AcknowledgedStays ==
  ASSUME FilesInv, FilesGrow, deliveries' = deliveries
  PROVE  AcknowledgedIsDone' /\ DeliveriesRead'
<1>1. \A m \in deliveries : m \in OrderMessages /\ Named(m) # NoOffer => OrderOffer[m.order] \in Offers
  BY NamedOffer DEF FilesInv, DeliveriesRead, ReadableOrders
<1>2. \A m \in deliveries : /\ m \in RefundMessages => m.refund \in Refunds
                            /\ m \in ReturnMessages => m.return \in Returns
  BY Kinds DEF FilesInv, FilesTypeOK
<1>3. AcknowledgedIsDone'
  BY <1>1, <1>2 DEF FilesInv, FilesGrow, AcknowledgedIsDone
<1> QED
  BY <1>3 DEF FilesInv, DeliveriesRead

LEMMA NextAppendFacts ==
  ASSUME IngestInv, NEW file, NextAppend(file)
  PROVE  /\ todo # <<>> /\ todo' = Tail(todo) /\ Head(todo).to = file
         /\ Head(todo) \in Appends /\ AppendOK(1) /\ todo[1] = Head(todo)
         /\ \A a : ~Before(1, a)
BY Shifted DEF IngestInv, NextAppend, Before

LEMMA AppendEventOK ==
  ASSUME IngestInv, AppendEvent
  PROVE  IngestInv'
<1>1. NextAppend("offers")
  BY DEF AppendEvent
<1>2. PICK o, e : o = Head(todo).offer /\ e = Head(todo).line
  OBVIOUS
<1>3. /\ Logged(o, e) /\ o \in Offers /\ e \in LogEvents /\ Head(todo).to = "offers"
      /\ todo # <<>> /\ todo' = Tail(todo) /\ EventOK(1, o, e) /\ \A a : ~Before(1, a)
  BY <1>1, <1>2, NextAppendFacts, AppendKinds DEF AppendEvent, Logged, AppendOK
<1>4. Fits(o, e)
  BY <1>3, EventTypes DEF EventOK, Fits
<1>5. FilesInv'
  BY <1>3, <1>4, LogExtended DEF IngestInv
<1>6. \A p \in Offers : \A type :
        HasEvent(log'[p], type) <=> HasEvent(log[p], type) \/ (p = o /\ e.type = type)
  BY <1>3, LogFacts DEF IngestInv, FilesInv
<1>7. HasEvent(log'[o], e.type)
  BY <1>3, <1>6
<1>8. HeadDone
  BY <1>2, <1>3, <1>7 DEF HeadDone
<1>9. FilesGrow
  BY <1>3, <1>6 DEF FilesGrow, Logged, ProcessedBefore
<1> QED
  BY <1>3, <1>5, <1>8, <1>9, RestOK

LEMMA AppendOrderRefOK ==
  ASSUME IngestInv, AppendOrderRef
  PROVE  IngestInv'
<1>1. NextAppend("order_refs")
  BY DEF AppendOrderRef
<1>2. PICK order : order = Head(todo).line
  OBVIOUS
<1>3. /\ Head(todo).to = "order_refs" /\ order \in Orders /\ OrderOffer[order] \in Offers
      /\ todo # <<>> /\ todo' = Tail(todo)
  BY <1>1, <1>2, NextAppendFacts, AppendKinds DEF AppendOK
<1>4. /\ orderRefs' = orderRefs \cup {order} /\ log' = log /\ snap' = snap
      /\ refundRefs' = refundRefs /\ returnRefs' = returnRefs /\ deliveries' = deliveries
  BY <1>2 DEF AppendOrderRef
<1>5. FilesGrow
  BY <1>4 DEF FilesGrow, ProcessedBefore
<1>6. FilesTypeOK' /\ OrdersOfOffers'
  BY <1>3, <1>4 DEF IngestInv, FilesInv, FilesTypeOK, OrdersOfOffers
<1>7. FilesInv'
  BY <1>4, <1>5, <1>6, OnlyReferences, AcknowledgedStays DEF IngestInv
<1>8. HeadDone
  BY <1>2, <1>3, <1>4 DEF HeadDone
<1> QED
  BY <1>3, <1>5, <1>7, <1>8, RestOK

LEMMA AppendRefundRefOK ==
  ASSUME IngestInv, AppendRefundRef
  PROVE  IngestInv'
<1>1. NextAppend("refund_refs")
  BY DEF AppendRefundRef
<1>2. PICK r, line : r = Head(todo).ref /\ line = Head(todo).line
  OBVIOUS
<1>3. /\ Head(todo).to = "refund_refs" /\ r \in Refunds /\ line \in RefundLines
      /\ todo # <<>> /\ todo' = Tail(todo)
  BY <1>1, <1>2, NextAppendFacts, AppendKinds
<1>4. /\ refundRefs' = [refundRefs EXCEPT ![r] = Append(@, line)] /\ log' = log /\ snap' = snap
      /\ orderRefs' = orderRefs /\ returnRefs' = returnRefs /\ deliveries' = deliveries
  BY <1>2 DEF AppendRefundRef
<1>5. refundRefs \in [Refunds -> Seq(RefundLines)] /\ refundRefs[r] \in Seq(RefundLines)
  BY <1>3 DEF IngestInv, FilesInv, FilesTypeOK
<1>6. /\ Append(refundRefs[r], line) \in Seq(RefundLines) /\ Append(refundRefs[r], line) # <<>>
      /\ \A i \in DOMAIN refundRefs[r] : /\ i \in DOMAIN Append(refundRefs[r], line)
                                         /\ Append(refundRefs[r], line)[i] = refundRefs[r][i]
      /\ \E i \in DOMAIN Append(refundRefs[r], line) : Append(refundRefs[r], line)[i] = line
  <2>1. Len(refundRefs[r]) + 1 \in 1..(Len(refundRefs[r]) + 1)
    BY <1>5
  <2> QED
    BY <1>3, <1>5, <2>1, OneEventMore
<1>7. /\ refundRefs'[r] = Append(refundRefs[r], line)
      /\ \A x \in Refunds \ {r} : refundRefs'[x] = refundRefs[x]
  BY <1>3, <1>4, <1>5
<1>8. \A o : \A x \in Refunds : ProcessedBefore(o, x) => ProcessedBefore(o, x)'
  <2> SUFFICES ASSUME NEW o, NEW x \in Refunds, ProcessedBefore(o, x) PROVE ProcessedBefore(o, x)'
    OBVIOUS
  <2>1. CASE x = r
    BY <1>6, <1>7, <2>1 DEF ProcessedBefore
  <2>2. CASE x # r
    BY <1>7, <2>2 DEF ProcessedBefore
  <2> QED
    BY <2>1, <2>2
<1>9. \A o : line = [offer |-> o, status |-> "processed"] => ProcessedBefore(o, r)'
  BY <1>6, <1>7 DEF ProcessedBefore
<1>10. FilesGrow
  BY <1>4, <1>6, <1>7, <1>8 DEF FilesGrow
<1>11. FilesTypeOK' /\ OrdersOfOffers'
  BY <1>4, <1>5, <1>6 DEF IngestInv, FilesInv, FilesTypeOK, OrdersOfOffers
<1>12. FilesInv'
  BY <1>4, <1>10, <1>11, OnlyReferences, AcknowledgedStays DEF IngestInv
<1>13. HeadDone
  <2>1. \A o, x : Head(todo) = RefundLine(x, [offer |-> o, status |-> "processed"]) =>
          x = r /\ line = [offer |-> o, status |-> "processed"]
    BY <1>2 DEF RefundLine
  <2> QED
    BY <1>2, <1>3, <1>4, <1>6, <1>7, <1>9, <2>1 DEF HeadDone
<1> QED
  BY <1>3, <1>10, <1>12, <1>13, RestOK

LEMMA AppendReturnRefOK ==
  ASSUME IngestInv, AppendReturnRef
  PROVE  IngestInv'
<1>1. NextAppend("return_refs")
  BY DEF AppendReturnRef
<1>2. PICK r, line : r = Head(todo).ref /\ line = Head(todo).line
  OBVIOUS
<1>3. /\ Head(todo).to = "return_refs" /\ r \in Returns /\ line \in ReturnLines
      /\ todo # <<>> /\ todo' = Tail(todo)
  BY <1>1, <1>2, NextAppendFacts, AppendKinds
<1>4. /\ returnRefs' = [returnRefs EXCEPT ![r] = Append(@, line)] /\ log' = log /\ snap' = snap
      /\ orderRefs' = orderRefs /\ refundRefs' = refundRefs /\ deliveries' = deliveries
  BY <1>2 DEF AppendReturnRef
<1>5. returnRefs \in [Returns -> Seq(ReturnLines)] /\ returnRefs[r] \in Seq(ReturnLines)
  BY <1>3 DEF IngestInv, FilesInv, FilesTypeOK
<1>6. Append(returnRefs[r], line) \in Seq(ReturnLines) /\ Append(returnRefs[r], line) # <<>>
  BY <1>3, <1>5, OneEventMore
<1>7. /\ returnRefs'[r] = Append(returnRefs[r], line)
      /\ \A x \in Returns \ {r} : returnRefs'[x] = returnRefs[x]
  BY <1>3, <1>4, <1>5
<1>8. FilesGrow
  BY <1>4, <1>6, <1>7 DEF FilesGrow, ProcessedBefore
<1>9. FilesTypeOK' /\ OrdersOfOffers'
  BY <1>4, <1>5, <1>6 DEF IngestInv, FilesInv, FilesTypeOK, OrdersOfOffers
<1>10. FilesInv'
  BY <1>4, <1>8, <1>9, OnlyReferences, AcknowledgedStays DEF IngestInv
<1>11. HeadDone
  BY <1>2, <1>3, <1>4, <1>6, <1>7 DEF HeadDone
<1> QED
  BY <1>3, <1>8, <1>10, <1>11, RestOK

LEMMA AppendDeliveryOK ==
  ASSUME IngestInv, AppendWebhookDelivery
  PROVE  IngestInv'
<1>1. NextAppend("deliveries")
  BY DEF AppendWebhookDelivery
<1>2. PICK m : m = Head(todo).line
  OBVIOUS
<1>3. /\ Head(todo).to = "deliveries" /\ m \in Messages /\ DeliveryOK(1, m)
      /\ todo # <<>> /\ todo' = Tail(todo) /\ \A a : ~Before(1, a)
  BY <1>1, <1>2, NextAppendFacts, AppendKinds DEF AppendOK
<1>4. /\ deliveries' = deliveries \cup {m} /\ log' = log /\ snap' = snap
      /\ orderRefs' = orderRefs /\ refundRefs' = refundRefs /\ returnRefs' = returnRefs
  BY <1>2 DEF AppendWebhookDelivery
<1>5. FilesGrow
  BY <1>4 DEF FilesGrow, ProcessedBefore
<1>6. FilesTypeOK' /\ OrdersOfOffers'
  BY <1>3, <1>4 DEF IngestInv, FilesInv, FilesTypeOK, OrdersOfOffers
<1>7. DeliveriesRead' /\ AcknowledgedIsDone'
  BY <1>3, <1>4 DEF IngestInv, FilesInv, DeliveriesRead, AcknowledgedIsDone, DeliveryOK
<1>8. FilesInv'
  BY <1>4, <1>5, <1>6, <1>7, OnlyReferences DEF IngestInv
<1>9. HeadDone
  BY <1>3, <1>4 DEF HeadDone
<1> QED
  BY <1>3, <1>5, <1>8, <1>9, RestOK

\* A crash leaves the files, and nothing to append.
LEMMA CrashOK ==
  ASSUME IngestInv, todo' = <<>>, UNCHANGED files
  PROVE  IngestInv'
<1>1. FilesInv'
  BY FilesUnchanged DEF IngestInv
<1>2. todo' \in Seq(Appends) /\ DOMAIN todo' = {}
  OBVIOUS
<1> QED
  BY <1>1, <1>2 DEF IngestInv, TodoInv

\* Before the first delivery.
LEMMA IngestInit ==
  ASSUME Init
  PROVE  IngestInv
<1>1. /\ log = [o \in Offers |-> <<>>] /\ snap \in [Offers -> {Checkout, Forgotten}] /\ orderRefs = {}
      /\ refundRefs = [r \in Refunds |-> <<>>] /\ returnRefs = [r \in Returns |-> <<>>]
      /\ deliveries = {} /\ todo = <<>>
  BY DEF Init
<1>2. Checkout \in Snapshots /\ Forgotten \in Snapshots
  BY DEF Checkout, Forgotten, Blank, Snapshots, LifecycleStates, OrderReadyStates, PaymentStates,
         PaidTotals, Reported
<1>3. /\ Checkout.state = "checkout_created" /\ Checkout.pay = "none" /\ Checkout.refunded = 0
      /\ Forgotten.state = "buyer_accepted" /\ Forgotten.pay = "none" /\ Forgotten.refunded = 0
  BY DEF Checkout, Forgotten, Blank
<1>4. \A o \in Offers : log[o] = <<>> /\ DOMAIN log[o] = {} /\ snap[o].pay = "none" /\ snap[o].refunded = 0
                        /\ snap[o].state \in {"checkout_created", "buyer_accepted"}
  <2>1. \A o \in Offers : log[o] = <<>> /\ snap[o] \in {Checkout, Forgotten}
    BY <1>1
  <2>2. \A o \in Offers : DOMAIN log[o] = {}
    BY <2>1
  <2> QED
    BY <1>3, <2>1, <2>2
<1>5. FilesTypeOK
  BY <1>1, <1>2 DEF FilesTypeOK
<1>6. OnceInOrder /\ PaidOnRecord /\ RefundsOnRecord /\ RefundOnce /\ NothingForgotten
  BY <1>4 DEF OnceInOrder, PaidOnRecord, RefundsOnRecord, RefundOnce, NothingForgotten, HasEvent,
              RefundEvent, SettledStates
<1>7. OrdersOfOffers /\ DeliveriesRead /\ AcknowledgedIsDone
  BY <1>1 DEF OrdersOfOffers, DeliveriesRead, AcknowledgedIsDone
<1>8. TotalIsPrior
  <2>1. \A o \in Offers : PriorRefundTotal(o) = 0
    <3>1. \A o \in Offers : RefundsIn(log[o]) = {}
      BY <1>4 DEF RefundsIn
    <3> QED
      BY <3>1, NoRefunds, PriorIsTotal
  <2> QED
    BY <1>4, <2>1 DEF TotalIsPrior
<1>9. TodoInv
  BY <1>1 DEF TodoInv
<1> QED
  BY <1>5, <1>6, <1>7, <1>8, <1>9 DEF IngestInv, FilesInv

LEMMA IngestNext ==
  ASSUME IngestInv, Next
  PROVE  IngestInv'
<1>1. CASE \E m \in OrderMessages : ReceiveOrder(m)
  BY <1>1, ReceiveOrderOK
<1>2. CASE \E m \in RefundMessages : ReceiveRefund(m)
  BY <1>2, ReceiveRefundOK
<1>3. CASE \E m \in ReturnMessages : ReceiveReturn(m)
  BY <1>3, ReceiveReturnOK
<1>4. CASE HandlerStep
  BY <1>4, AppendEventOK, AppendOrderRefOK, AppendRefundRefOK, AppendReturnRefOK, AppendDeliveryOK
     DEF HandlerStep
<1>5. CASE Crash
  BY <1>5, CrashOK DEF Crash
<1> QED
  BY <1>1, <1>2, <1>3, <1>4, <1>5 DEF Next

\* What concerns neither the files nor the handler.
LEMMA IngestStutter ==
  ASSUME IngestInv, UNCHANGED files, todo' = todo
  PROVE  IngestInv'
<1>1. FilesInv'
  BY FilesUnchanged DEF IngestInv
<1>2. /\ log' = log /\ snap' = snap /\ orderRefs' = orderRefs /\ refundRefs' = refundRefs
      /\ returnRefs' = returnRefs
  BY DEF files
<1>3. ASSUME NEW k \in DOMAIN todo PROVE AppendOK(k)'
  <2>1. /\ \A a : Before(k, a)' <=> Before(k, a)
        /\ \A o, r : RefundEvent(o, r)' <=> RefundEvent(o, r)
        /\ \A o, r : ProcessedBefore(o, r)' <=> ProcessedBefore(o, r)
        /\ \A o : PriorRefundTotal(o)' = PriorRefundTotal(o)
    BY <1>2 DEF Before, RefundEvent, ProcessedBefore, PriorRefundTotal
  <2>2. \A line : LineOK(k, line) => LineOK(k, line)'
    BY <1>2 DEF LineOK
  <2>3. \A o, e : EventOK(k, o, e) => EventOK(k, o, e)'
    BY <1>2, <2>1 DEF EventOK
  <2>4. \A m : DeliveryOK(k, m) => DeliveryOK(k, m)'
    BY <1>2, <2>1 DEF DeliveryOK
  <2>5. AppendOK(k)
    BY DEF IngestInv, TodoInv
  <2>6. PICK a : a = todo[k]
    OBVIOUS
  <2>7. /\ a.to \in {"refund_refs", "return_refs"} => LineOK(k, a.line)'
        /\ a.to = "offers" => EventOK(k, a.offer, a.line)'
        /\ a.to = "deliveries" => DeliveryOK(k, a.line)'
        /\ a.to = "order_refs" => OrderOffer[a.line] \in Offers
    BY <2>2, <2>3, <2>4, <2>5, <2>6 DEF AppendOK
  <2>8. a = todo'[k]
    BY <2>6
  <2> QED
    BY <2>7, <2>8 DEF AppendOK
<1> QED
  BY <1>1, <1>3 DEF IngestInv, TodoInv

----------------------------------------------------------------------------
\* The invariant of the files and of what is left to append, in every state, for any shop and any
\* deliveries.
THEOREM IngestInvariant == Spec => []IngestInv
<1>1. Init => IngestInv
  BY IngestInit
<1>2. IngestInv /\ [Next]_ingestVars => IngestInv'
  BY IngestNext, IngestStutter DEF ingestVars
<1> QED
  BY <1>1, <1>2, PTL DEF Spec

\* order_created before paid, each once, and nothing of a refund or a return before paid, in
\* whatever order deliveries come, are repeated and are cut short (the handlers of
\* counterpilot-server.mjs).
THEOREM EventsOnceInOrder == Spec => []OnceInOrder
<1>1. IngestInv => OnceInOrder
  BY DEF IngestInv, FilesInv
<1> QED
  BY <1>1, IngestInvariant, PTL

\* A delivery is recorded only when its work is in the files.
THEOREM AcknowledgedWorkIsDone == Spec => []AcknowledgedIsDone
<1>1. IngestInv => AcknowledgedIsDone
  BY DEF IngestInv, FilesInv
<1> QED
  BY <1>1, IngestInvariant, PTL

----------------------------------------------------------------------------
\* The events among the appends of each handler.
OneEvent(s, c, o, e) == \A k \in DOMAIN s : s[k].to = "offers" => c /\ s[k].offer = o /\ s[k].line = e

LEMMA OrderEvents ==
  ASSUME NEW m \in OrderMessages, ReceiveOrder(m), NEW k \in DOMAIN todo', todo'[k].to = "offers"
  PROVE  todo'[k].line.type \in {"order_created", "paid"}
<1> DEFINE o == Named(m)
           c1 == ~KnownOrder(m.order)
           c2 == ~HasEvent(log[o], "order_created")
           c3 == OrderWebhook[m].paid /\ ~HasEvent(log[o], "paid")
           a1 == OrderLine(m.order)
           a2 == Event(o, OrderCreated)
           a3 == Event(o, PaidEvent(m))
           a4 == Delivery(m)
<1>1. OrderAppends(m) # <<>> /\ todo' = OrderAppends(m)
  BY DEF ReceiveOrder, Receive
<1>2. a1.to # "offers" /\ a4.to # "offers" /\ a2.line.type = "order_created" /\ a3.line.type = "paid"
  BY DEF OrderLine, Event, Delivery, OrderCreated, PaidEvent
<1>3. c1 \in BOOLEAN /\ c2 \in BOOLEAN /\ c3 \in BOOLEAN
  BY DEF HasEvent, KnownOrder
<1>4. CASE o = NoOffer
  <2>1. todo' = <<a4>>
    BY <1>1, <1>4 DEF OrderAppends
  <2> HIDE DEF a4
  <2> QED
    BY <1>2, <2>1
<1>5. CASE o # NoOffer
  <2> DEFINE s == When(c1, a1) \o When(c2, a2) \o When(c3, a3) \o <<a4>>
  <2>1. todo' = s
    BY <1>1, <1>5 DEF OrderAppends
  <2> HIDE DEF c1, c2, c3, a1, a2, a3, a4, o
  <2>2. ThreePlaces(s, c1, a1, c2, a2, c3, a3, a4)
    BY <1>3, ThreeAndLast, Zenon
  <2> HIDE DEF s
  <2> QED
    BY <1>2, <2>1, <2>2 DEF ThreePlaces
<1> QED
  BY <1>4, <1>5

LEMMA HandlerEvent ==
  ASSUME NEW c1 \in BOOLEAN, NEW c2 \in BOOLEAN, NEW a1, NEW o, NEW e, NEW m, a1.to # "offers"
  PROVE  OneEvent(When(c1, a1) \o When(c2, Event(o, e)) \o <<Delivery(m)>>, c2, o, e)
<1> DEFINE a2 == Event(o, e)
           a3 == Delivery(m)
           s == When(c1, a1) \o When(c2, a2) \o <<a3>>
<1>1. a2.offer = o /\ a2.line = e /\ a3.to # "offers"
  BY DEF Event, Delivery
<1> HIDE DEF a2, a3
<1>2. TwoPlaces(s, c1, a1, c2, a2, a3)
  BY TwoAndLast, Zenon
<1> HIDE DEF s
<1>3. OneEvent(s, c2, o, e)
  BY <1>1, <1>2 DEF TwoPlaces, OneEvent
<1> QED
  BY <1>3 DEF s, a2, a3

LEMMA RefundEventOf ==
  ASSUME NEW m \in RefundMessages, ReceiveRefund(m), NEW k \in DOMAIN todo', todo'[k].to = "offers"
  PROVE  AmountKnown(m) /\ todo'[k].line = RefundRecorded(todo'[k].offer, m)
<1>1. PICK outcome : outcome = RefundOutcome(m)
  OBVIOUS
<1>2. PICK o : o = LineOffer(RefundOrder[m.refund], outcome)
  OBVIOUS
<1>3. PICK e : e = RefundRecorded(o, m)
  OBVIOUS
<1> DEFINE c1 == outcome # "duplicate_refund"
           c2 == outcome = "processed"
           a1 == RefundLine(m.refund, [offer |-> o, status |-> outcome])
           s == When(c1, a1) \o When(c2, Event(o, e)) \o <<Delivery(m)>>
<1>4. todo' = s
  BY <1>1, <1>2, <1>3 DEF ReceiveRefund, Receive, RefundAppends
<1>5. a1.to # "offers" /\ c1 \in BOOLEAN /\ c2 \in BOOLEAN
  BY DEF RefundLine
<1> HIDE DEF c1, c2, a1
<1>6. OneEvent(s, c2, o, e)
  BY <1>5, HandlerEvent, Zenon
<1> HIDE DEF s
<1>7. c2 /\ todo'[k].offer = o /\ todo'[k].line = e
  BY <1>4, <1>6 DEF OneEvent
<1>8. c2 => AmountKnown(m)
  BY <1>1 DEF c2, RefundOutcome, Binding
<1> QED
  BY <1>3, <1>7, <1>8

LEMMA ReturnEventOf ==
  ASSUME NEW m \in ReturnMessages, ReceiveReturn(m), NEW k \in DOMAIN todo', todo'[k].to = "offers"
  PROVE  todo'[k].line = ReturnRecorded(todo'[k].offer, m)
<1>1. PICK outcome : outcome = ReturnOutcome(m)
  OBVIOUS
<1>2. PICK o : o = LineOffer(ReturnOrder[m.return], outcome)
  OBVIOUS
<1>3. PICK e : e = ReturnRecorded(o, m)
  OBVIOUS
<1> DEFINE c1 == outcome # "duplicate_return_status"
           c2 == outcome = "processed"
           a1 == ReturnLine(m.return, [offer |-> o, status |-> outcome,
                                       return_status |-> ReturnWebhook[m].status])
           s == When(c1, a1) \o When(c2, Event(o, e)) \o <<Delivery(m)>>
<1>4. todo' = s
  BY <1>1, <1>2, <1>3 DEF ReceiveReturn, Receive, ReturnAppends
<1>5. a1.to # "offers" /\ c1 \in BOOLEAN /\ c2 \in BOOLEAN
  BY DEF ReturnLine
<1> HIDE DEF c1, c2, a1
<1>6. OneEvent(s, c2, o, e)
  BY <1>5, HandlerEvent, Zenon
<1> HIDE DEF s
<1>7. todo'[k].offer = o /\ todo'[k].line = e
  BY <1>4, <1>6 DEF OneEvent
<1> QED
  BY <1>3, <1>7

\* What is left to append was there before.
LEMMA RestWasThere ==
  ASSUME IngestInv, NEW file, NextAppend(file), NEW k \in DOMAIN todo'
  PROVE  k + 1 \in DOMAIN todo /\ todo'[k] = todo[k + 1]
BY Shifted DEF IngestInv, NextAppend

----------------------------------------------------------------------------
\* The amount in the body of a refund's delivery, when it can be read, is what Shopify paid back.
BodiesTruthful ==
  \A m \in RefundMessages : RefundWebhook[m].amount.reading = "amount" =>
    RefundWebhook[m].amount.amount = RefundAmount[m.refund]

\* The refunds in the log of an offer, and their amounts.
RefundsOf(o) == {r \in Refunds : RefundEvent(o, r)}
AmountsTrue == \A k \in DOMAIN todo :
  todo[k].to = "offers" /\ todo[k].line.type = "refund_recorded" =>
    todo[k].line.amount = RefundAmount[todo[k].line.refund]
RefundsSummed == \A o \in Offers :
  IsFiniteSet(RefundsOf(o)) /\ snap[o].refunded = SumFunctionOnSet(RefundAmount, RefundsOf(o))
AmountsInv == AmountsTrue /\ RefundsSummed

LEMMA RefundsOneMore ==
  ASSUME FilesInv, RefundsSummed, NEW o \in Offers, NEW e \in LogEvents, Fits(o, e), Logged(o, e),
         e.type = "refund_recorded" => e.amount = RefundAmount[e.refund]
  PROVE  RefundsSummed'
<1> SUFFICES ASSUME NEW p \in Offers
             PROVE  /\ IsFiniteSet(RefundsOf(p)')
                    /\ snap'[p].refunded = SumFunctionOnSet(RefundAmount, RefundsOf(p)')
  BY DEF RefundsSummed
<1>1. FilesTypeOK /\ snap[o] \in Snapshots
  BY DEF FilesInv, FilesTypeOK
<1>2. RefundsOf(p)' = IF p = o /\ e.type = "refund_recorded" THEN RefundsOf(p) \cup {e.refund} ELSE RefundsOf(p)
  <2>1. e.type = "refund_recorded" => e.refund \in Refunds
    BY EventTypes DEF RefundEvents
  <2>2. \A r : RefundEvent(p, r)' <=> RefundEvent(p, r) \/ (p = o /\ e.type = "refund_recorded" /\ e.refund = r)
    BY <1>1, LogFacts
  <2> QED
    BY <2>1, <2>2 DEF RefundsOf
<1>3. snap'[o] = Replay(snap[o], e) /\ (p # o => snap'[p] = snap[p])
  BY <1>1, LogFrame
<1>4. IsFiniteSet(RefundsOf(p)) /\ snap[p].refunded = SumFunctionOnSet(RefundAmount, RefundsOf(p))
  BY DEF RefundsSummed
<1>5. CASE p = o /\ e.type = "refund_recorded"
  <2>1. e.refund \in Refunds /\ e.refund \notin RefundsOf(o) /\ e.total = snap[o].refunded + e.amount
    BY <1>5, EventTypes DEF RefundEvents, Fits, RefundsOf, FilesInv, TotalIsPrior
  <2>2. \A r \in RefundsOf(o) \cup {e.refund} : RefundAmount[r] \in Int
    BY <2>1, ShopifyAssumption DEF RefundsOf
  <2>3. SumFunctionOnSet(RefundAmount, RefundsOf(o) \cup {e.refund})
          = RefundAmount[e.refund] + SumFunctionOnSet(RefundAmount, RefundsOf(o))
    BY <1>4, <1>5, <2>1, <2>2, SumOfOneMore
  <2>4. snap'[o].refunded = e.total
    BY <1>1, <1>3, <1>5, ReplayFacts
  <2>5. IsFiniteSet(RefundsOf(o) \cup {e.refund})
    BY <1>4, <1>5, FS_AddElement
  <2>6. snap[o].refunded \in Nat /\ RefundAmount[e.refund] \in Nat
    BY <1>1, <2>1, ShopifyAssumption DEF Snapshots
  <2> QED
    BY <1>2, <1>4, <1>5, <2>1, <2>3, <2>4, <2>5, <2>6
<1>6. CASE p # o
  BY <1>2, <1>3, <1>4, <1>6
<1>7. CASE p = o /\ e.type # "refund_recorded"
  <2>1. snap'[o].refunded = snap[o].refunded
    BY <1>1, <1>3, <1>7, EventTypes, ReplayFacts
  <2> QED
    BY <1>2, <1>4, <1>7, <2>1
<1> QED
  BY <1>5, <1>6, <1>7

LEMMA SummedStays ==
  ASSUME RefundsSummed, log' = log, snap' = snap
  PROVE  RefundsSummed'
BY DEF RefundsSummed, RefundsOf, RefundEvent

LEMMA AmountsNext ==
  ASSUME BodiesTruthful, IngestInv, AmountsInv, Next
  PROVE  AmountsInv'
<1>1. CASE \E m \in OrderMessages : ReceiveOrder(m)
  <2>1. PICK m \in OrderMessages : ReceiveOrder(m)
    BY <1>1
  <2>2. AmountsTrue'
    BY <2>1, OrderEvents DEF AmountsTrue
  <2>3. RefundsSummed'
    BY <2>1, SummedStays DEF AmountsInv, ReceiveOrder, Receive, files
  <2> QED
    BY <2>2, <2>3 DEF AmountsInv
<1>2. CASE \E m \in RefundMessages : ReceiveRefund(m)
  <2>1. PICK m \in RefundMessages : ReceiveRefund(m)
    BY <1>2
  <2>2. ASSUME NEW k \in DOMAIN todo', todo'[k].to = "offers"
        PROVE  todo'[k].line.amount = RefundAmount[todo'[k].line.refund]
    <3>1. AmountKnown(m) /\ todo'[k].line = RefundRecorded(todo'[k].offer, m)
      BY <2>1, <2>2, RefundEventOf
    <3>2. \A o : RefundRecorded(o, m).amount = RefundWebhook[m].amount.amount /\ RefundRecorded(o, m).refund = m.refund
      BY DEF RefundRecorded
    <3> QED
      BY <3>1, <3>2 DEF BodiesTruthful, AmountKnown
  <2>3. AmountsTrue'
    BY <2>2 DEF AmountsTrue
  <2>4. RefundsSummed'
    BY <2>1, SummedStays DEF AmountsInv, ReceiveRefund, Receive, files
  <2> QED
    BY <2>3, <2>4 DEF AmountsInv
<1>3. CASE \E m \in ReturnMessages : ReceiveReturn(m)
  <2>1. PICK m \in ReturnMessages : ReceiveReturn(m)
    BY <1>3
  <2>2. ASSUME NEW k \in DOMAIN todo', todo'[k].to = "offers"
        PROVE  todo'[k].line.type # "refund_recorded"
    <3>1. \A o : ReturnRecorded(o, m).type = "return_status_recorded"
      BY DEF ReturnRecorded
    <3> QED
      BY <2>1, <2>2, <3>1, ReturnEventOf
  <2>3. AmountsTrue'
    BY <2>2 DEF AmountsTrue
  <2>4. RefundsSummed'
    BY <2>1, SummedStays DEF AmountsInv, ReceiveReturn, Receive, files
  <2> QED
    BY <2>3, <2>4 DEF AmountsInv
<1>4. CASE HandlerStep
  <2>1. PICK file : NextAppend(file)
    BY <1>4 DEF HandlerStep, AppendEvent, AppendOrderRef, AppendRefundRef, AppendReturnRef,
                AppendWebhookDelivery
  <2>2. AmountsTrue'
    <3>1. \A k \in DOMAIN todo' : k + 1 \in DOMAIN todo /\ todo'[k] = todo[k + 1]
      BY <2>1, RestWasThere
    <3> QED
      BY <3>1 DEF AmountsInv, AmountsTrue
  <2>3. CASE AppendEvent
    <3>1. PICK o, e : o = Head(todo).offer /\ e = Head(todo).line
      OBVIOUS
    <3>2. NextAppend("offers")
      BY <2>3 DEF AppendEvent
    <3>3. /\ Logged(o, e) /\ o \in Offers /\ e \in LogEvents /\ Head(todo) = todo[1]
          /\ Head(todo).to = "offers" /\ EventOK(1, o, e) /\ \A a : ~Before(1, a)
      BY <2>3, <3>1, <3>2, NextAppendFacts, AppendKinds DEF AppendEvent, Logged, AppendOK
    <3>4. Fits(o, e)
      BY <3>3, EventTypes DEF EventOK, Fits
    <3>5. 1 \in DOMAIN todo
      BY <3>2, HeadFacts DEF NextAppend, IngestInv, TodoInv
    <3>6. e.type = "refund_recorded" => e.amount = RefundAmount[e.refund]
      BY <3>1, <3>3, <3>5 DEF AmountsInv, AmountsTrue
    <3>7. RefundsSummed'
      BY <3>3, <3>4, <3>6, RefundsOneMore DEF IngestInv, AmountsInv
    <3> QED
      BY <2>2, <3>7 DEF AmountsInv
  <2>4. CASE ~AppendEvent
    <3>1. log' = log /\ snap' = snap
      BY <1>4, <2>4 DEF HandlerStep, AppendOrderRef, AppendRefundRef, AppendReturnRef,
                        AppendWebhookDelivery
    <3> QED
      BY <2>2, <3>1, SummedStays DEF AmountsInv
  <2> QED
    BY <2>3, <2>4
<1>5. CASE Crash
  <2>1. todo' = <<>> /\ log' = log /\ snap' = snap
    BY <1>5 DEF Crash, files
  <2>2. DOMAIN todo' = {}
    BY <2>1
  <2> QED
    BY <2>1, <2>2, SummedStays DEF AmountsInv, AmountsTrue
<1> QED
  BY <1>1, <1>2, <1>3, <1>4, <1>5 DEF Next

\* No refund is counted twice, and the total that the margin is computed from is the sum of what
\* Shopify paid back in the refunds recorded, however deliveries are repeated, reordered and cut
\* short (hasProcessedRefundRef, priorRefundTotalMinor), as long as the bodies state the amounts.
THEOREM RefundsCountedOnce ==
  ASSUME BodiesTruthful
  PROVE  Spec => []RefundCountedOnce
<1>1. Init => AmountsInv
  <2> SUFFICES ASSUME Init PROVE AmountsInv
    OBVIOUS
  <2>1. \A o \in Offers : RefundsOf(o) = {} /\ snap[o].refunded = 0
    <3>1. \A o \in Offers : log[o] = <<>> /\ snap[o] \in {Checkout, Forgotten}
      BY DEF Init
    <3>2. Checkout.refunded = 0 /\ Forgotten.refunded = 0
      BY DEF Checkout, Forgotten, Blank
    <3> QED
      BY <3>1, <3>2 DEF RefundsOf, RefundEvent
  <2>2. RefundsSummed
    BY <2>1, SumOfNone, FS_EmptySet DEF RefundsSummed
  <2>3. AmountsTrue
    BY DEF Init, AmountsTrue
  <2> QED
    BY <2>2, <2>3 DEF AmountsInv
<1>2. IngestInv /\ AmountsInv /\ [Next]_ingestVars => AmountsInv'
  <2>1. IngestInv /\ AmountsInv /\ UNCHANGED ingestVars => AmountsInv'
    BY SummedStays DEF ingestVars, files, AmountsInv, AmountsTrue
  <2> QED
    BY <2>1, AmountsNext
<1>3. IngestInv /\ AmountsInv => RefundCountedOnce
  <2> SUFFICES ASSUME IngestInv, AmountsInv, NEW o \in Offers
               PROVE  LET recorded == {i \in DOMAIN log[o] : log[o][i].type = "refund_recorded"}
                      IN  /\ \A i, j \in recorded : log[o][i].refund = log[o][j].refund => i = j
                          /\ snap[o].refunded = SumFunctionOnSet(RefundAmount, {log[o][i].refund : i \in recorded})
    BY DEF RefundCountedOnce
  <2> DEFINE recorded == {i \in DOMAIN log[o] : log[o][i].type = "refund_recorded"}
  <2>1. \A i \in recorded : log[o][i].refund \in Refunds
    <3>1. log[o] \in Seq(LogEvents) /\ recorded = RefundsIn(log[o])
      BY DEF IngestInv, FilesInv, FilesTypeOK, RefundsIn
    <3> QED
      BY <3>1, RefundsInFinite DEF RefundEvents
  <2>2. {log[o][i].refund : i \in recorded} = RefundsOf(o)
    BY <2>1 DEF RefundsOf, RefundEvent
  <2>3. \A i, j \in recorded : log[o][i].refund = log[o][j].refund => i = j
    BY DEF IngestInv, FilesInv, RefundOnce
  <2>4. snap[o].refunded = SumFunctionOnSet(RefundAmount, RefundsOf(o))
    BY DEF AmountsInv, RefundsSummed
  <2> QED
    BY <2>2, <2>3, <2>4
<1> QED
  BY <1>1, <1>2, <1>3, IngestInvariant, PTL DEF Spec

----------------------------------------------------------------------------
\* Without the maturity job: no offer is mature, and the events that are to be appended carry the
\* state that follows from the log.
NoMature == \A o \in Offers : snap[o].state # "mature"
StatesFollow == \A k \in DOMAIN todo : todo[k].to = "offers" =>
  /\ todo[k].line.type = "refund_recorded" =>
       todo[k].line.state = IF todo[k].line.total >= snap[todo[k].offer].paid
                            THEN "refunded" ELSE "partially_refunded"
  /\ todo[k].line.type = "return_status_recorded" =>
       todo[k].line.state = snap[todo[k].offer].state
PaymentInv == NoMature /\ StatesFollow /\ PaymentStateFollowsRefunds

LEMMA PaymentUnchanged ==
  ASSUME PaymentInv, log' = log, snap' = snap
  PROVE  NoMature' /\ PaymentStateFollowsRefunds'
<1>1. NoMature'
  BY DEF PaymentInv, NoMature
<1>2. PaymentStateFollowsRefunds'
  BY DEF PaymentInv, PaymentStateFollowsRefunds
<1> QED
  BY <1>1, <1>2

LEMMA PaymentEvent ==
  ASSUME IngestInv, PaymentInv, AppendEvent
  PROVE  PaymentInv'
<1>1. PICK o, e : o = Head(todo).offer /\ e = Head(todo).line
  OBVIOUS
<1>2. NextAppend("offers")
  BY DEF AppendEvent
<1>3. /\ Logged(o, e) /\ o \in Offers /\ e \in LogEvents /\ Head(todo) = todo[1]
      /\ Head(todo).to = "offers" /\ EventOK(1, o, e) /\ \A a : ~Before(1, a)
      /\ todo # <<>> /\ todo' = Tail(todo)
  BY <1>1, <1>2, NextAppendFacts, AppendKinds DEF AppendEvent, Logged, AppendOK
<1>4. Fits(o, e) /\ e.type # "mature"
  BY <1>3, EventTypes DEF EventOK, Fits
<1>5. 1 \in DOMAIN todo
  BY <1>2, HeadFacts DEF NextAppend, IngestInv, TodoInv
<1>6. /\ e.type = "refund_recorded" =>
           e.state = IF e.total >= snap[o].paid THEN "refunded" ELSE "partially_refunded"
      /\ e.type = "return_status_recorded" => e.state = snap[o].state
  BY <1>1, <1>3, <1>5 DEF PaymentInv, StatesFollow
<1>7. FilesTypeOK /\ snap[o] \in Snapshots
  BY <1>3 DEF IngestInv, FilesInv, FilesTypeOK
<1>8. /\ snap'[o] = Replay(snap[o], e)
      /\ \A p \in Offers \ {o} : log'[p] = log[p] /\ snap'[p] = snap[p]
      /\ \A p \in Offers : \A type :
           HasEvent(log'[p], type) <=> HasEvent(log[p], type) \/ (p = o /\ e.type = type)
  <2>1. snap'[o] = Replay(snap[o], e) /\ \A p \in Offers \ {o} : log'[p] = log[p] /\ snap'[p] = snap[p]
    BY <1>3, <1>7, LogFrame
  <2>2. \A p \in Offers : \A type :
          HasEvent(log'[p], type) <=> HasEvent(log[p], type) \/ (p = o /\ e.type = type)
    BY <1>3, <1>7, LogFacts
  <2> QED
    BY <2>1, <2>2
<1>9. snap[o].state # "mature"
  BY <1>3 DEF PaymentInv, NoMature
<1>10. NoMature'
  <2> SUFFICES ASSUME NEW p \in Offers PROVE snap'[p].state # "mature"
    BY DEF NoMature
  <2>1. CASE p # o
    BY <1>8, <2>1 DEF PaymentInv, NoMature
  <2>2. CASE p = o
    BY <1>3, <1>4, <1>6, <1>7, <1>8, <1>9, <2>2, EventTypes, ReplayFacts
  <2> QED
    BY <2>1, <2>2
<1>11. PaymentStateFollowsRefunds'
  <2> SUFFICES ASSUME NEW p \in Offers, snap'[p].state \in SettledStates
               PROVE  /\ snap'[p].state = snap'[p].pay
                      /\ snap'[p].pay = IF ~HasEvent(log'[p], "refund_recorded") THEN "paid"
                                        ELSE IF snap'[p].refunded >= snap'[p].paid THEN "refunded"
                                        ELSE "partially_refunded"
    BY DEF PaymentStateFollowsRefunds
  <2>1. CASE p # o
    BY <1>8, <2>1 DEF PaymentInv, PaymentStateFollowsRefunds
  <2>2. CASE p = o /\ e.type = "order_created"
    <3>1. snap'[o].state = "order_created"
      BY <1>3, <1>7, <1>8, <2>2, ReplayFacts
    <3> QED
      BY <2>2, <3>1 DEF SettledStates
  <2>3. CASE p = o /\ e.type = "paid"
    <3>1. ~HasEvent(log[o], "refund_recorded")
      BY <1>3, <1>4, <2>3, OnlyCreatedBeforePaid DEF Fits, HasEvent, IngestInv
    <3> QED
      BY <1>3, <1>7, <1>8, <2>3, <3>1, ReplayFacts
  <2>4. CASE p = o /\ e.type = "refund_recorded"
    <3>1. /\ snap'[o].state = e.state /\ snap'[o].pay = e.state
          /\ snap'[o].paid = snap[o].paid /\ snap'[o].refunded = e.total
      BY <1>3, <1>7, <1>8, <2>4, ReplayFacts
    <3>2. HasEvent(log'[o], "refund_recorded")
      BY <1>3, <1>8, <2>4
    <3> QED
      BY <1>6, <2>4, <3>1, <3>2
  <2>5. CASE p = o /\ e.type = "return_status_recorded"
    <3>1. /\ snap'[o].state = snap[o].state /\ snap'[o].pay = snap[o].pay
          /\ snap'[o].paid = snap[o].paid /\ snap'[o].refunded = snap[o].refunded
      BY <1>3, <1>6, <1>7, <1>8, <1>9, <2>5, ReplayFacts
    <3>2. HasEvent(log'[o], "refund_recorded") <=> HasEvent(log[o], "refund_recorded")
      BY <1>8, <2>5
    <3> QED
      BY <2>5, <3>1, <3>2 DEF PaymentInv, PaymentStateFollowsRefunds
  <2> QED
    BY <1>3, <1>4, <2>1, <2>2, <2>3, <2>4, <2>5, EventTypes
<1>12. StatesFollow'
  <2> SUFFICES ASSUME NEW k \in DOMAIN todo', todo'[k].to = "offers"
               PROVE  todo'[k].line.type = "paid"
    BY DEF StatesFollow
  <2>1. /\ AppendOK(k + 1) /\ todo'[k] = todo[k + 1] /\ k \in Nat /\ 1 \in 1..((k + 1) - 1)
    <3>1. (k + 1) - 1 = k
      BY <1>3, Shifted DEF IngestInv
    <3> QED
      BY <1>3, <3>1, Shifted DEF IngestInv
  <2>2. EventOK(k + 1, todo[k + 1].offer, todo[k + 1].line)
    BY <2>1 DEF AppendOK
  <2> QED
    BY <1>3, <2>1, <2>2 DEF EventOK
<1> QED
  BY <1>10, <1>11, <1>12 DEF PaymentInv

LEMMA PaymentNext ==
  ASSUME IngestInv, PaymentInv, Next
  PROVE  PaymentInv'
<1>1. CASE \E m \in OrderMessages : ReceiveOrder(m)
  <2>1. PICK m \in OrderMessages : ReceiveOrder(m)
    BY <1>1
  <2>2. StatesFollow'
    BY <2>1, OrderEvents DEF StatesFollow
  <2> QED
    BY <2>1, <2>2, PaymentUnchanged DEF PaymentInv, ReceiveOrder, Receive, files
<1>2. CASE \E m \in RefundMessages : ReceiveRefund(m)
  <2>1. PICK m \in RefundMessages : ReceiveRefund(m)
    BY <1>2
  <2>2. log' = log /\ snap' = snap
    BY <2>1 DEF ReceiveRefund, Receive, files
  <2>3. ASSUME NEW k \in DOMAIN todo', todo'[k].to = "offers"
        PROVE  /\ todo'[k].line.type = "refund_recorded"
               /\ todo'[k].line.state = IF todo'[k].line.total >= snap[todo'[k].offer].paid
                                        THEN "refunded" ELSE "partially_refunded"
    <3>1. todo'[k].line = RefundRecorded(todo'[k].offer, m)
      BY <2>1, <2>3, RefundEventOf
    <3>2. \A o : /\ RefundRecorded(o, m).type = "refund_recorded"
                 /\ RefundRecorded(o, m).state = IF RefundRecorded(o, m).total >= snap[o].paid
                                                 THEN "refunded" ELSE "partially_refunded"
      BY DEF RefundRecorded
    <3> QED
      BY <3>1, <3>2
  <2>4. StatesFollow'
    BY <2>2, <2>3 DEF StatesFollow
  <2> QED
    BY <2>2, <2>4, PaymentUnchanged DEF PaymentInv
<1>3. CASE \E m \in ReturnMessages : ReceiveReturn(m)
  <2>1. PICK m \in ReturnMessages : ReceiveReturn(m)
    BY <1>3
  <2>2. log' = log /\ snap' = snap
    BY <2>1 DEF ReceiveReturn, Receive, files
  <2>3. ASSUME NEW k \in DOMAIN todo', todo'[k].to = "offers"
        PROVE  /\ todo'[k].line.type = "return_status_recorded"
               /\ todo'[k].line.state = snap[todo'[k].offer].state
    <3>1. todo'[k].line = ReturnRecorded(todo'[k].offer, m)
      BY <2>1, <2>3, ReturnEventOf
    <3>2. \A o : /\ ReturnRecorded(o, m).type = "return_status_recorded"
                 /\ ReturnRecorded(o, m).state = snap[o].state
      BY DEF ReturnRecorded
    <3> QED
      BY <3>1, <3>2
  <2>4. StatesFollow'
    BY <2>2, <2>3 DEF StatesFollow
  <2> QED
    BY <2>2, <2>4, PaymentUnchanged DEF PaymentInv
<1>4. CASE HandlerStep
  <2>1. CASE AppendEvent
    BY <2>1, PaymentEvent
  <2>2. CASE ~AppendEvent
    <3>1. log' = log /\ snap' = snap
      BY <1>4, <2>2 DEF HandlerStep, AppendOrderRef, AppendRefundRef, AppendReturnRef,
                        AppendWebhookDelivery
    <3>2. PICK file : NextAppend(file)
      BY <1>4 DEF HandlerStep, AppendEvent, AppendOrderRef, AppendRefundRef, AppendReturnRef,
                  AppendWebhookDelivery
    <3>3. \A k \in DOMAIN todo' : k + 1 \in DOMAIN todo /\ todo'[k] = todo[k + 1]
      BY <3>2, RestWasThere
    <3>4. StatesFollow'
      BY <3>1, <3>3 DEF PaymentInv, StatesFollow
    <3> QED
      BY <3>1, <3>4, PaymentUnchanged DEF PaymentInv
  <2> QED
    BY <2>1, <2>2
<1>5. CASE Crash
  <2>1. todo' = <<>> /\ log' = log /\ snap' = snap
    BY <1>5 DEF Crash, files
  <2>2. DOMAIN todo' = {}
    BY <2>1
  <2> QED
    BY <2>1, <2>2, PaymentUnchanged DEF PaymentInv, StatesFollow
<1> QED
  BY <1>1, <1>2, <1>3, <1>4, <1>5 DEF Next

\* Once paid, the lifecycle state is the payment state that the refunds recorded imply: a return
\* does not overwrite it (createRefundRecordedEvent, createReturnStatusRecordedEvent).
THEOREM StateFollowsRefunds == Spec => []PaymentStateFollowsRefunds
<1>1. Init => PaymentInv
  <2> SUFFICES ASSUME Init PROVE PaymentInv
    OBVIOUS
  <2>1. \A o \in Offers : snap[o] \in {Checkout, Forgotten}
    BY DEF Init
  <2>2. Checkout.state = "checkout_created" /\ Forgotten.state = "buyer_accepted"
    BY DEF Checkout, Forgotten, Blank
  <2>3. \A o \in Offers : snap[o].state \in {"checkout_created", "buyer_accepted"}
    BY <2>1, <2>2
  <2> QED
    BY <2>3 DEF Init, PaymentInv, NoMature, StatesFollow, PaymentStateFollowsRefunds, SettledStates
<1>2. IngestInv /\ PaymentInv /\ [Next]_ingestVars => PaymentInv'
  <2>1. IngestInv /\ PaymentInv /\ UNCHANGED ingestVars => PaymentInv'
    BY PaymentUnchanged DEF ingestVars, files, PaymentInv, StatesFollow
  <2> QED
    BY <2>1, PaymentNext
<1>3. PaymentInv => PaymentStateFollowsRefunds
  BY DEF PaymentInv
<1> QED
  BY <1>1, <1>2, <1>3, IngestInvariant, PTL DEF Spec

----------------------------------------------------------------------------
(***************************************************************************)
(* The maturity job beside the server.  What it appends fits the log,      *)
(* although its snapshot may be old: it is of a paid offer, and paid offers*)
(* stay paid.                                                              *)
(***************************************************************************)
JobRecords == [step : {"idle", "refunds", "returns", "append"}, snap : [Offers -> Snapshots],
               inputs : [Offers -> SUBSET Inputs], aged : SUBSET Offers, held : SUBSET Offers,
               planned : SUBSET Offers]
JobTypeOK == job \in [Jobs -> JobRecords] /\ aged \subseteq Offers

\* An offer that was paid when the job read it is paid.
PaidWhenRead == \A j \in Jobs : \A o \in Offers : job[j].snap[o].pay # "none" => HasEvent(log[o], "paid")

\* What is planned was eligible.
PlannedEligible == \A j \in Jobs :
  /\ \A o \in job[j].planned : Eligible(job[j], o)
  /\ job[j].step # "append" => job[j].planned = {}

JobInv == IngestInv /\ JobTypeOK /\ PaidWhenRead /\ PlannedEligible

LEMMA IdleOK ==
  /\ JobIdle \in JobRecords /\ JobIdle.step = "idle" /\ JobIdle.planned = {}
  /\ \A o \in Offers : JobIdle.snap[o].pay = "none" /\ JobIdle.inputs[o] = {}
<1>1. Blank \in Snapshots /\ Blank.pay = "none"
  BY DEF Blank, Snapshots, LifecycleStates, PaymentStates, PaidTotals, Reported
<1> QED
  BY <1>1 DEF JobIdle, JobRecords

\* The inputs behind a snapshot, and behind the mature events of a log.
LEMMA InputsOf ==
  /\ \A s \in Snapshots : MaturityInput(s) \in Inputs
  /\ \A s \in Seq(LogEvents) : MatureInputs(s) \in SUBSET Inputs
<1>1. \A s \in Snapshots : MaturityInput(s) \in Inputs
  BY DEF Snapshots, MaturityInput, Inputs
<1>2. ASSUME NEW s \in Seq(LogEvents) PROVE MatureInputs(s) \in SUBSET Inputs
  <2>1. \A i \in DOMAIN s : s[i].type = "mature" => s[i] \in MaturedEvents
    BY EventTypes
  <2> QED
    BY <2>1 DEF MatureInputs, MaturedEvents
<1> QED
  BY <1>1, <1>2

\* A planned event is one, and fits.
LEMMA MatureEventOK ==
  ASSUME JobInv, NEW j \in Jobs, NEW o \in job[j].planned
  PROVE  /\ o \in Offers /\ MatureEvent(job[j], o) \in MaturedEvents /\ MatureEvent(job[j], o) \in LogEvents
         /\ MatureEvent(job[j], o).type = "mature" /\ MatureEvent(job[j], o).input = MaturityInput(job[j].snap[o])
         /\ MatureEvent(job[j], o).pay = job[j].snap[o].pay
         /\ Eligible(job[j], o) /\ HasEvent(log[o], "paid") /\ job[j].step = "append"
         /\ Fits(o, MatureEvent(job[j], o))
<1>1. job[j] \in JobRecords /\ o \in Offers /\ job[j].snap[o] \in Snapshots
  BY DEF JobInv, JobTypeOK, JobRecords
<1>2. Eligible(job[j], o) /\ job[j].step = "append"
  BY DEF JobInv, PlannedEligible
<1>3. job[j].snap[o].pay # "none" /\ job[j].snap[o].pay \in PaymentStates
  BY <1>1, <1>2 DEF Eligible, Snapshots
<1>4. HasEvent(log[o], "paid")
  BY <1>1, <1>3 DEF JobInv, PaidWhenRead
<1>5. MaturityInput(job[j].snap[o]) \in Inputs
  BY <1>1, InputsOf
<1>6. MatureEvent(job[j], o) \in MaturedEvents
  BY <1>3, <1>5 DEF MatureEvent, MaturedEvents
<1>7. /\ MatureEvent(job[j], o).type = "mature" /\ MatureEvent(job[j], o).input = MaturityInput(job[j].snap[o])
      /\ MatureEvent(job[j], o).pay = job[j].snap[o].pay
  BY DEF MatureEvent
<1>8. snap[o].state # "buyer_accepted"
  BY <1>1, <1>4 DEF JobInv, IngestInv, FilesInv, PaidOnRecord, SettledStates
<1>9. Fits(o, MatureEvent(job[j], o))
  BY <1>4, <1>7, <1>8 DEF Fits
<1> QED
  BY <1>1, <1>2, <1>4, <1>6, <1>7, <1>9 DEF LogEvents

\* A mature event leaves what the running handler has still to append fitting.
LEMMA HandlerKeepsOK ==
  ASSUME IngestInv, NEW o \in Offers, NEW e \in LogEvents, e.type = "mature", Fits(o, e), Logged(o, e),
         todo' = todo
  PROVE  TodoInv'
<1>1. FilesTypeOK /\ snap[o] \in Snapshots
  BY DEF IngestInv, FilesInv, FilesTypeOK
<1>2. /\ \A p \in Offers \ {o} : log'[p] = log[p] /\ snap'[p] = snap[p]
      /\ snap'[o] = Replay(snap[o], e)
  BY <1>1, LogFrame
<1>3. \A p \in Offers : \A type :
        HasEvent(log'[p], type) <=> HasEvent(log[p], type) \/ (p = o /\ type = "mature")
  <2>1. \A p \in Offers : \A type :
          HasEvent(log'[p], type) <=> HasEvent(log[p], type) \/ (p = o /\ e.type = type)
    BY <1>1, LogFacts
  <2> QED
    BY <2>1
<1>4. \A p \in Offers : \A r : RefundEvent(p, r)' <=> RefundEvent(p, r)
  BY <1>1, LogFacts
<1>5. \A p \in Offers : PriorRefundTotal(p)' = PriorRefundTotal(p)
  BY <1>1, LogFacts
<1>6. \A p, r : ProcessedBefore(p, r)' <=> ProcessedBefore(p, r)
  BY <1>1, LogFacts
<1>7. /\ orderRefs' = orderRefs /\ refundRefs' = refundRefs /\ returnRefs' = returnRefs
  BY DEF Logged
<1>8. \A p \in Offers : snap[p].state # "buyer_accepted" => snap'[p].state # "buyer_accepted"
  BY <1>1, <1>2, ReplayFacts
<1>9. HasEvent(log[o], "paid")
  BY DEF Fits
<1>10. \A p \in Offers : log[p] = <<>> => log'[p] = <<>>
  <2>1. log[o] # <<>>
    BY <1>9 DEF HasEvent
  <2> QED
    BY <1>2, <2>1
<1> SUFFICES ASSUME NEW k \in DOMAIN todo PROVE AppendOK(k)'
  BY DEF IngestInv, TodoInv
<1>11. AppendOK(k) /\ todo[k] \in Appends
  BY DEF IngestInv, TodoInv
<1>12. PICK a : a = todo[k]
  OBVIOUS
<1>13. \A x : Before(k, x)' <=> Before(k, x)
  BY DEF Before
<1>14. CASE a.to = "order_refs"
  BY <1>11, <1>12, <1>14 DEF AppendOK
<1>15. CASE a.to \in {"refund_refs", "return_refs"}
  <2>1. PICK line : line = a.line
    OBVIOUS
  <2>2. LineOK(k, line)
    BY <1>11, <1>12, <1>15, <2>1 DEF AppendOK
  <2>3. LineOK(k, line)'
    BY <1>3, <2>2 DEF LineOK
  <2> QED
    BY <1>12, <1>15, <2>1, <2>3 DEF AppendOK
<1>16. CASE a.to = "offers"
  <2>1. PICK p, f : p = a.offer /\ f = a.line
    OBVIOUS
  <2>2. EventOK(k, p, f) /\ p \in Offers
    BY <1>11, <1>12, <1>16, <2>1, AppendKinds DEF AppendOK
  <2>3. EventOK(k, p, f)'
    BY <1>3, <1>4, <1>5, <1>6, <1>8, <1>10, <1>13, <2>2 DEF EventOK
  <2> QED
    BY <1>12, <1>16, <2>1, <2>3 DEF AppendOK
<1>17. CASE a.to = "deliveries"
  <2>1. PICK m : m = a.line
    OBVIOUS
  <2>2. DeliveryOK(k, m)
    BY <1>11, <1>12, <1>17, <2>1 DEF AppendOK
  <2>3. m \in OrderMessages /\ Named(m) # NoOffer => OrderOffer[m.order] \in Offers
    BY <2>2, NamedOffer DEF DeliveryOK, ReadableOrders
  <2>4. DeliveryOK(k, m)'
    BY <1>3, <1>7, <1>13, <2>2, <2>3 DEF DeliveryOK
  <2> QED
    BY <1>12, <1>17, <2>1, <2>4 DEF AppendOK
<1> QED
  BY <1>11, <1>12, <1>14, <1>15, <1>16, <1>17, AppendKinds

\* The job appends a planned event.
LEMMA AppendMatureOK ==
  ASSUME JobInv, NEW j \in Jobs, AppendMature(j)
  PROVE  /\ IngestInv'
         /\ \E o \in job[j].planned :
              /\ Logged(o, MatureEvent(job[j], o))
              /\ job' = [job EXCEPT ![j] = IF job[j].planned \ {o} = {} THEN JobIdle
                                           ELSE [@ EXCEPT !.planned = job[j].planned \ {o}]]
         /\ todo' = todo /\ aged' = aged
<1>1. PICK o \in job[j].planned :
        /\ Logged(o, MatureEvent(job[j], o))
        /\ job' = [job EXCEPT ![j] = IF job[j].planned \ {o} = {} THEN JobIdle
                                     ELSE [@ EXCEPT !.planned = job[j].planned \ {o}]]
  BY DEF AppendMature, Logged
<1>2. PICK e : e = MatureEvent(job[j], o)
  OBVIOUS
<1>3. o \in Offers /\ e \in LogEvents /\ e.type = "mature" /\ Fits(o, e) /\ Logged(o, e)
  BY <1>1, <1>2, MatureEventOK
<1>4. todo' = todo /\ aged' = aged
  BY DEF AppendMature
<1>5. FilesInv'
  BY <1>3, LogExtended DEF JobInv, IngestInv
<1>6. TodoInv'
  BY <1>3, <1>4, HandlerKeepsOK DEF JobInv
<1> QED
  BY <1>1, <1>4, <1>5, <1>6 DEF IngestInv

\* What the server's steps do to the log.
LEMMA NextLog ==
  ASSUME IngestInv, Next
  PROVE  \/ log' = log /\ snap' = snap
         \/ \E o \in Offers, e \in LogEvents : Logged(o, e) /\ Fits(o, e) /\ e.type # "mature"
<1>1. CASE AppendEvent
  <2>1. PICK o, e : o = Head(todo).offer /\ e = Head(todo).line
    OBVIOUS
  <2>2. NextAppend("offers")
    BY <1>1 DEF AppendEvent
  <2>3. /\ Logged(o, e) /\ o \in Offers /\ e \in LogEvents /\ EventOK(1, o, e) /\ \A a : ~Before(1, a)
    BY <1>1, <2>1, <2>2, NextAppendFacts, AppendKinds DEF AppendEvent, Logged, AppendOK
  <2>4. Fits(o, e) /\ e.type # "mature"
    BY <2>3, EventTypes DEF EventOK, Fits
  <2> QED
    BY <2>3, <2>4
<1>2. CASE ~AppendEvent
  BY <1>2 DEF Next, HandlerStep, AppendOrderRef, AppendRefundRef, AppendReturnRef,
              AppendWebhookDelivery, ReceiveOrder, ReceiveRefund, ReceiveReturn, Receive, Crash, files
<1> QED
  BY <1>1, <1>2

\* A paid offer stays paid.
LEMMA PaidStays ==
  ASSUME FilesInv, \/ log' = log
                   \/ \E o \in Offers, e \in LogEvents : Logged(o, e)
  PROVE  \A p \in Offers : HasEvent(log[p], "paid") => HasEvent(log'[p], "paid")
<1>1. CASE log' = log
  BY <1>1
<1>2. CASE \E o \in Offers, e \in LogEvents : Logged(o, e)
  BY <1>2, LogFacts DEF FilesInv
<1> QED
  BY <1>1, <1>2

\* One process of the job goes on.
LEMMA JobReplaced ==
  ASSUME JobInv, NEW j \in Jobs, NEW v \in JobRecords, job' = [job EXCEPT ![j] = v], aged' = aged,
         IngestInv',
         \A o \in Offers : HasEvent(log[o], "paid") => HasEvent(log'[o], "paid"),
         \A o \in Offers : v.snap[o].pay # "none" => HasEvent(log'[o], "paid"),
         \A o \in v.planned : Eligible(v, o), v.step # "append" => v.planned = {}
  PROVE  JobInv'
<1>1. job'[j] = v /\ \A i \in Jobs \ {j} : job'[i] = job[i]
  BY DEF JobInv, JobTypeOK
<1>2. JobTypeOK'
  BY DEF JobInv, JobTypeOK
<1>3. PaidWhenRead'
  <2> SUFFICES ASSUME NEW i \in Jobs, NEW o \in Offers, job'[i].snap[o].pay # "none"
               PROVE  HasEvent(log'[o], "paid")
    BY DEF PaidWhenRead
  <2>1. CASE i = j
    BY <1>1, <2>1
  <2>2. CASE i # j
    BY <1>1, <2>2 DEF JobInv, PaidWhenRead
  <2> QED
    BY <2>1, <2>2
<1>4. PlannedEligible'
  <2> SUFFICES ASSUME NEW i \in Jobs
               PROVE  /\ \A o \in job'[i].planned : Eligible(job'[i], o)
                      /\ job'[i].step # "append" => job'[i].planned = {}
    BY DEF PlannedEligible
  <2>1. CASE i = j
    BY <1>1, <2>1
  <2>2. CASE i # j
    BY <1>1, <2>2 DEF JobInv, PlannedEligible
  <2> QED
    BY <2>1, <2>2
<1> QED
  BY <1>2, <1>3, <1>4 DEF JobInv

\* The job as it was, beside a step of the server or of time.
LEMMA JobsUnchanged ==
  ASSUME JobInv, IngestInv', job' = job, aged' \subseteq Offers,
         \A o \in Offers : HasEvent(log[o], "paid") => HasEvent(log'[o], "paid")
  PROVE  JobInv'
<1>1. JobTypeOK'
  BY DEF JobInv, JobTypeOK
<1>2. PaidWhenRead'
  BY DEF JobInv, PaidWhenRead
<1>3. PlannedEligible'
  BY DEF JobInv, PlannedEligible
<1> QED
  BY <1>1, <1>2, <1>3 DEF JobInv

\* What the steps of a process make of what it has read.
ViewOfEvents(j) == [job[j] EXCEPT !.step = "refunds", !.snap = snap, !.aged = aged,
                                  !.inputs = [o \in Offers |-> MatureInputs(log[o])]]
ViewOfRefunds(j) == [job[j] EXCEPT !.step = "returns", !.held = HeldOffers(refundRefs)]
ViewOfReturns(j) == [job[j] EXCEPT !.held = @ \cup HeldOffers(returnRefs)]
Plan(j) == {o \in Offers : Eligible(ViewOfReturns(j), o)}
Planned(j) == [ViewOfReturns(j) EXCEPT !.step = "append", !.planned = Plan(j)]

LEMMA Views ==
  ASSUME JobInv, NEW j \in Jobs
  PROVE  /\ ViewOfEvents(j) \in JobRecords /\ ViewOfEvents(j).step = "refunds"
         /\ ViewOfEvents(j).snap = snap /\ ViewOfEvents(j).planned = job[j].planned
         /\ \A o \in Offers : ViewOfEvents(j).inputs[o] = MatureInputs(log[o])
         /\ ViewOfRefunds(j) \in JobRecords /\ ViewOfRefunds(j).step = "returns"
         /\ ViewOfRefunds(j).snap = job[j].snap /\ ViewOfRefunds(j).planned = job[j].planned
         /\ ViewOfRefunds(j).inputs = job[j].inputs /\ ViewOfRefunds(j).held = HeldOffers(refundRefs)
         /\ Planned(j) \in JobRecords /\ Planned(j).step = "append"
         /\ Planned(j).snap = job[j].snap /\ Planned(j).planned = Plan(j)
         /\ Planned(j).inputs = job[j].inputs /\ Planned(j).held = job[j].held \cup HeldOffers(returnRefs)
         /\ \A o \in Plan(j) : Eligible(Planned(j), o)
<1>1. job[j] \in JobRecords /\ snap \in [Offers -> Snapshots] /\ aged \subseteq Offers
  BY DEF JobInv, JobTypeOK, IngestInv, FilesInv, FilesTypeOK
<1>2. [o \in Offers |-> MatureInputs(log[o])] \in [Offers -> SUBSET Inputs]
  BY InputsOf DEF JobInv, IngestInv, FilesInv, FilesTypeOK
<1>3. HeldOffers(refundRefs) \subseteq Offers /\ HeldOffers(returnRefs) \subseteq Offers
  BY DEF HeldOffers
<1>4. Plan(j) \subseteq Offers
  BY DEF Plan
<1>5. /\ ViewOfEvents(j) \in JobRecords /\ ViewOfEvents(j).step = "refunds"
      /\ ViewOfEvents(j).snap = snap /\ ViewOfEvents(j).planned = job[j].planned
      /\ \A o \in Offers : ViewOfEvents(j).inputs[o] = MatureInputs(log[o])
  <2> DEFINE inputs == [o \in Offers |-> MatureInputs(log[o])]
  <2>1. \A o \in Offers : inputs[o] = MatureInputs(log[o])
    OBVIOUS
  <2> HIDE DEF inputs
  <2>2. /\ ViewOfEvents(j) \in JobRecords /\ ViewOfEvents(j).step = "refunds"
        /\ ViewOfEvents(j).snap = snap /\ ViewOfEvents(j).planned = job[j].planned
        /\ ViewOfEvents(j).inputs = inputs
    BY <1>1, <1>2 DEF ViewOfEvents, JobRecords, inputs
  <2> QED
    BY <2>1, <2>2
<1>6. /\ ViewOfRefunds(j) \in JobRecords /\ ViewOfRefunds(j).step = "returns"
      /\ ViewOfRefunds(j).snap = job[j].snap /\ ViewOfRefunds(j).planned = job[j].planned
      /\ ViewOfRefunds(j).inputs = job[j].inputs /\ ViewOfRefunds(j).held = HeldOffers(refundRefs)
  BY <1>1, <1>3 DEF ViewOfRefunds, JobRecords
<1>7. /\ ViewOfReturns(j) \in JobRecords /\ ViewOfReturns(j).snap = job[j].snap
      /\ ViewOfReturns(j).inputs = job[j].inputs /\ ViewOfReturns(j).aged = job[j].aged
      /\ ViewOfReturns(j).held = job[j].held \cup HeldOffers(returnRefs)
  BY <1>1, <1>3 DEF ViewOfReturns, JobRecords
<1>8. /\ Planned(j) \in JobRecords /\ Planned(j).step = "append"
      /\ Planned(j).snap = job[j].snap /\ Planned(j).planned = Plan(j)
      /\ Planned(j).inputs = job[j].inputs /\ Planned(j).held = job[j].held \cup HeldOffers(returnRefs)
      /\ Planned(j).aged = job[j].aged
  BY <1>4, <1>7 DEF Planned, JobRecords
<1>9. \A o \in Plan(j) : Eligible(Planned(j), o)
  BY <1>7, <1>8 DEF Plan, Eligible, Duplicate
<1> QED
  BY <1>5, <1>6, <1>8, <1>9

\* The steps of a process that read or stop, as replacements of its record.
LEMMA JobSteps ==
  ASSUME JobInv, NEW j \in Jobs
  PROVE  /\ ReadEvents(j) => /\ job[j].step = "idle" /\ job' = [job EXCEPT ![j] = ViewOfEvents(j)]
                             /\ UNCHANGED files /\ todo' = todo /\ aged' = aged
         /\ ReadRefundRefs(j) => /\ job[j].step = "refunds" /\ job' = [job EXCEPT ![j] = ViewOfRefunds(j)]
                                 /\ UNCHANGED files /\ todo' = todo /\ aged' = aged
         /\ ReadReturnRefs(j) =>
              /\ job[j].step = "returns"
              /\ \/ job' = [job EXCEPT ![j] = JobIdle]
                 \/ job' = [job EXCEPT ![j] = Planned(j)]
              /\ UNCHANGED files /\ todo' = todo /\ aged' = aged
         /\ StopJob(j) => /\ job' = [job EXCEPT ![j] = JobIdle]
                          /\ UNCHANGED files /\ todo' = todo /\ aged' = aged
<1>1. job \in [Jobs -> JobRecords]
  BY DEF JobInv, JobTypeOK
<1>2. ASSUME ReadEvents(j)
      PROVE  /\ job[j].step = "idle" /\ job' = [job EXCEPT ![j] = ViewOfEvents(j)]
             /\ UNCHANGED files /\ todo' = todo /\ aged' = aged
  BY <1>1, <1>2 DEF ReadEvents, ViewOfEvents, ingestVars
<1>3. ASSUME ReadRefundRefs(j)
      PROVE  /\ job[j].step = "refunds" /\ job' = [job EXCEPT ![j] = ViewOfRefunds(j)]
             /\ UNCHANGED files /\ todo' = todo /\ aged' = aged
  BY <1>1, <1>3 DEF ReadRefundRefs, ViewOfRefunds, ingestVars
<1>4. ASSUME ReadReturnRefs(j)
      PROVE  /\ job[j].step = "returns"
             /\ \/ job' = [job EXCEPT ![j] = JobIdle]
                \/ job' = [job EXCEPT ![j] = Planned(j)]
             /\ UNCHANGED files /\ todo' = todo /\ aged' = aged
  <2>1. /\ job[j].step = "returns" /\ UNCHANGED files /\ todo' = todo /\ aged' = aged
        /\ job' = [job EXCEPT ![j] = IF Plan(j) = {} THEN JobIdle ELSE Planned(j)]
    BY <1>4 DEF ReadReturnRefs, ViewOfReturns, Plan, Planned, ingestVars
  <2> QED
    BY <2>1
<1>5. ASSUME StopJob(j)
      PROVE  /\ job' = [job EXCEPT ![j] = JobIdle]
             /\ UNCHANGED files /\ todo' = todo /\ aged' = aged
  BY <1>5 DEF StopJob
<1> QED
  BY <1>2, <1>3, <1>4, <1>5

\* What is left of a plan.
Rest(j, o) == IF job[j].planned \ {o} = {} THEN JobIdle ELSE [job[j] EXCEPT !.planned = @ \ {o}]

LEMMA RestFacts ==
  ASSUME JobInv, NEW j \in Jobs, NEW o \in job[j].planned
  PROVE  /\ Rest(j, o) \in JobRecords
         /\ \/ Rest(j, o) = JobIdle
            \/ /\ Rest(j, o).step = "append" /\ Rest(j, o).planned = job[j].planned \ {o}
               /\ Rest(j, o).snap = job[j].snap /\ Rest(j, o).inputs = job[j].inputs
               /\ Rest(j, o).held = job[j].held
               /\ \A p \in Rest(j, o).planned : Eligible(Rest(j, o), p)
<1>1. job[j] \in JobRecords /\ job[j].step = "append" /\ \A p \in job[j].planned : Eligible(job[j], p)
  BY MatureEventOK DEF JobInv, JobTypeOK, PlannedEligible
<1>2. CASE job[j].planned \ {o} = {}
  BY <1>2, IdleOK DEF Rest
<1>3. CASE job[j].planned \ {o} # {}
  <2>1. Rest(j, o) = [job[j] EXCEPT !.planned = @ \ {o}]
    BY <1>3 DEF Rest
  <2>2. /\ Rest(j, o) \in JobRecords
        /\ Rest(j, o).step = "append" /\ Rest(j, o).planned = job[j].planned \ {o}
        /\ Rest(j, o).snap = job[j].snap /\ Rest(j, o).inputs = job[j].inputs
        /\ Rest(j, o).held = job[j].held /\ Rest(j, o).aged = job[j].aged
    BY <1>1, <2>1 DEF JobRecords
  <2>3. \A p \in Rest(j, o).planned : Eligible(Rest(j, o), p)
    BY <1>1, <2>2 DEF Eligible, Duplicate
  <2> QED
    BY <2>2, <2>3
<1> QED
  BY <1>2, <1>3

LEMMA AppendMatureFacts ==
  ASSUME JobInv, NEW j \in Jobs, AppendMature(j)
  PROVE  \E o \in job[j].planned :
           /\ Logged(o, MatureEvent(job[j], o)) /\ job' = [job EXCEPT ![j] = Rest(j, o)]
           /\ o \in Offers
<1>1. PICK o \in job[j].planned :
              /\ Logged(o, MatureEvent(job[j], o))
              /\ job' = [job EXCEPT ![j] = IF job[j].planned \ {o} = {} THEN JobIdle
                                           ELSE [@ EXCEPT !.planned = job[j].planned \ {o}]]
  BY AppendMatureOK
<1>2. job \in [Jobs -> JobRecords]
  BY DEF JobInv, JobTypeOK
<1>3. job' = [job EXCEPT ![j] = Rest(j, o)]
  BY <1>1, <1>2 DEF Rest
<1> QED
  BY <1>1, <1>3, MatureEventOK

LEMMA JobNextOK ==
  ASSUME JobInv, JobNext
  PROVE  JobInv'
<1>0. IngestInv /\ FilesInv
  BY DEF JobInv, IngestInv
<1>1. CASE Next /\ UNCHANGED jobVars
  <2>1. IngestInv'
    BY <1>0, <1>1, IngestNext
  <2>2. \A o \in Offers : HasEvent(log[o], "paid") => HasEvent(log'[o], "paid")
    BY <1>0, <1>1, NextLog, PaidStays
  <2>3. job' = job /\ aged' \subseteq Offers
    BY <1>1 DEF jobVars, JobInv, JobTypeOK
  <2> QED
    BY <2>1, <2>2, <2>3, JobsUnchanged
<1>2. CASE \E o \in Offers : WindowCloses(o)
  <2>1. UNCHANGED files /\ todo' = todo /\ log' = log /\ job' = job /\ aged' \subseteq Offers
    BY <1>2 DEF WindowCloses, ingestVars, files, JobInv, JobTypeOK
  <2>2. IngestInv'
    BY <1>0, <2>1, IngestStutter
  <2> QED
    BY <2>1, <2>2, JobsUnchanged
<1>3. ASSUME NEW j \in Jobs, NEW v \in JobRecords, job' = [job EXCEPT ![j] = v],
             UNCHANGED files, todo' = todo, aged' = aged,
             \A o \in Offers : v.snap[o].pay # "none" => HasEvent(log[o], "paid"),
             \A o \in v.planned : Eligible(v, o), v.step # "append" => v.planned = {}
      PROVE  JobInv'
  <2>1. log' = log
    BY <1>3 DEF files
  <2>2. IngestInv'
    BY <1>0, <1>3, IngestStutter
  <2> QED
    BY <1>3, <2>1, <2>2, JobReplaced
<1>4. CASE \E j \in Jobs : JobStep(j) \/ StopJob(j)
  <2>1. PICK j \in Jobs : JobStep(j) \/ StopJob(j)
    BY <1>4
  <2>2. CASE ReadEvents(j)
    <3>1. \A o \in Offers : ViewOfEvents(j).snap[o].pay # "none" => HasEvent(log[o], "paid")
      BY <1>0, Views DEF FilesInv, PaidOnRecord
    <3>2. ViewOfEvents(j).planned = {}
      BY <2>2, JobSteps, Views DEF JobInv, PlannedEligible
    <3> QED
      BY <1>3, <2>2, <3>1, <3>2, JobSteps, Views
  <2>3. CASE ReadRefundRefs(j)
    <3>1. \A o \in Offers : ViewOfRefunds(j).snap[o].pay # "none" => HasEvent(log[o], "paid")
      BY Views DEF JobInv, PaidWhenRead
    <3>2. ViewOfRefunds(j).planned = {}
      BY <2>3, JobSteps, Views DEF JobInv, PlannedEligible
    <3> QED
      BY <1>3, <2>3, <3>1, <3>2, JobSteps, Views
  <2>4. CASE ReadReturnRefs(j)
    <3>1. \A o \in Offers : Planned(j).snap[o].pay # "none" => HasEvent(log[o], "paid")
      BY Views DEF JobInv, PaidWhenRead
    <3>2. /\ UNCHANGED files /\ todo' = todo /\ aged' = aged
          /\ job' = [job EXCEPT ![j] = JobIdle] \/ job' = [job EXCEPT ![j] = Planned(j)]
      BY <2>4, JobSteps
    <3>3. CASE job' = [job EXCEPT ![j] = JobIdle]
      BY <1>3, <3>2, <3>3, IdleOK
    <3>4. CASE job' = [job EXCEPT ![j] = Planned(j)]
      <4>1. /\ Planned(j) \in JobRecords /\ Planned(j).step = "append"
            /\ \A o \in Planned(j).planned : Eligible(Planned(j), o)
        BY Views
      <4> QED
        BY <1>3, <3>1, <3>2, <3>4, <4>1
    <3> QED
      BY <3>2, <3>3, <3>4
  <2>5. CASE StopJob(j)
    BY <1>3, <2>5, JobSteps, IdleOK
  <2>6. CASE AppendMature(j)
    <3>1. PICK o \in job[j].planned :
             /\ Logged(o, MatureEvent(job[j], o)) /\ job' = [job EXCEPT ![j] = Rest(j, o)]
             /\ o \in Offers
      BY <2>6, AppendMatureFacts
    <3>2. IngestInv' /\ aged' = aged
      BY <2>6, AppendMatureOK
    <3>3. \A p \in Offers : HasEvent(log[p], "paid") => HasEvent(log'[p], "paid")
      BY <1>0, <3>1, MatureEventOK, PaidStays
    <3>4. /\ Rest(j, o) \in JobRecords
          /\ \A p \in Offers : Rest(j, o).snap[p].pay # "none" => HasEvent(log'[p], "paid")
          /\ \A p \in Rest(j, o).planned : Eligible(Rest(j, o), p)
          /\ Rest(j, o).step # "append" => Rest(j, o).planned = {}
      <4>1. CASE Rest(j, o) = JobIdle
        BY <4>1, IdleOK
      <4>2. CASE Rest(j, o) # JobIdle
        BY <3>3, <4>2, RestFacts DEF JobInv, PaidWhenRead
      <4> QED
        BY <4>1, <4>2
    <3> QED
      BY <3>1, <3>2, <3>3, <3>4, JobReplaced
  <2> QED
    BY <2>1, <2>2, <2>3, <2>4, <2>5, <2>6 DEF JobStep
<1> QED
  BY <1>1, <1>2, <1>4 DEF JobNext

LEMMA JobStutter ==
  ASSUME JobInv, UNCHANGED vars
  PROVE  JobInv'
<1>1. UNCHANGED files /\ todo' = todo /\ log' = log /\ job' = job /\ aged' = aged
  BY DEF vars, ingestVars, jobVars, files
<1>2. IngestInv'
  BY <1>1, IngestStutter DEF JobInv
<1> QED
  BY <1>1, <1>2, JobsUnchanged DEF JobInv, JobTypeOK

\* The invariant of the files and of the handlers holds beside any number of runs of the job: what
\* the job appends without the server's queue never makes a handler's decision wrong.
THEOREM JobInvariant == JobSpec => []JobInv
<1>1. JobInit => JobInv
  <2> SUFFICES ASSUME JobInit PROVE JobInv
    OBVIOUS
  <2>1. IngestInv
    BY IngestInit DEF JobInit
  <2>2. \A j \in Jobs : job[j] = JobIdle
    BY DEF JobInit
  <2>3. JobTypeOK /\ PaidWhenRead /\ PlannedEligible
    BY <2>2, IdleOK DEF JobInit, JobTypeOK, PaidWhenRead, PlannedEligible
  <2> QED
    BY <2>1, <2>3 DEF JobInv
<1>2. JobInv /\ [JobNext]_vars => JobInv'
  BY JobNextOK, JobStutter
<1> QED
  BY <1>1, <1>2, PTL DEF JobSpec

\* The order of the log and the acknowledged deliveries, beside the job.
THEOREM FilesBesideJobs == JobSpec => [](OnceInOrder /\ AcknowledgedIsDone)
<1>1. JobInv => OnceInOrder /\ AcknowledgedIsDone
  BY DEF JobInv, IngestInv, FilesInv
<1> QED
  BY <1>1, JobInvariant, PTL

\* A refund or a return recorded after maturity takes the offer out of the current margin, whatever
\* the job did since the handler read the log (AfterReturn; the refund event's own state).
THEOREM LaterEventsTakeMatureBack == JobSpec => LaterEventsDemote
<1> DEFINE Demoted(o) ==
             /\ Len(log'[o]) > Len(log[o])
             /\ log'[o][Len(log'[o])].type \in {"refund_recorded", "return_status_recorded"}
             => snap'[o].state # "mature"
<1>1. ASSUME JobInv, NEW o \in Offers, NEW e \in LogEvents, Logged(o, e), NEW p \in Offers
      PROVE  Demoted(p)
  <2>1. FilesTypeOK /\ log[p] \in Seq(LogEvents) /\ snap[p] \in Snapshots /\ Len(log[p]) \in Nat
    BY <1>1 DEF JobInv, IngestInv, FilesInv, FilesTypeOK
  <2>2. CASE p # o
    <3>1. log'[p] = log[p]
      BY <1>1, <2>1, <2>2, LogFrame
    <3> QED
      BY <2>1, <3>1
  <2>3. CASE p = o
    <3>1. log'[o] = Append(log[o], e) /\ snap'[o] = Replay(snap[o], e)
      BY <1>1, <2>1, LogFrame
    <3>2. log'[o][Len(log'[o])] = e
      BY <1>1, <2>1, <2>3, <3>1, OneEventMore
    <3>3. e.type \in {"refund_recorded", "return_status_recorded"} => snap'[o].state # "mature"
      <4>1. snap[o].pay # "mature"
        BY <2>1, <2>3 DEF Snapshots, PaymentStates
      <4> QED
        BY <1>1, <2>1, <2>3, <3>1, <4>1, ReplayFacts
    <3> QED
      BY <2>3, <3>2, <3>3
  <2> QED
    BY <2>2, <2>3
<1>2. ASSUME JobInv, log' = log, NEW p \in Offers
      PROVE  Demoted(p)
  <2>1. Len(log[p]) \in Nat
    BY <1>2 DEF JobInv, IngestInv, FilesInv, FilesTypeOK
  <2> QED
    BY <1>2, <2>1
<1>3. JobInv /\ [JobNext]_vars => [\A o \in Offers : Demoted(o)]_vars
  <2> SUFFICES ASSUME JobInv, [JobNext]_vars, NEW p \in Offers PROVE Demoted(p)
    OBVIOUS
  <2>1. CASE Next /\ UNCHANGED jobVars
    <3>1. \/ log' = log
          \/ \E o \in Offers, e \in LogEvents : Logged(o, e)
      BY <2>1, NextLog DEF JobInv
    <3> QED
      BY <1>1, <1>2, <3>1
  <2>2. CASE \E o \in Offers : WindowCloses(o)
    BY <1>2, <2>2 DEF WindowCloses, ingestVars, files
  <2>3. CASE \E j \in Jobs : JobStep(j) \/ StopJob(j)
    <3>1. PICK j \in Jobs : JobStep(j) \/ StopJob(j)
      BY <2>3
    <3>2. CASE AppendMature(j)
      BY <1>1, <3>2, AppendMatureFacts, MatureEventOK
    <3>3. CASE ~AppendMature(j)
      <4>1. UNCHANGED files
        BY <3>1, <3>3, JobSteps DEF JobStep
      <4> QED
        BY <1>2, <4>1 DEF files
    <3> QED
      BY <3>2, <3>3
  <2>4. CASE UNCHANGED vars
    BY <1>2, <2>4 DEF vars, ingestVars, files
  <2> QED
    BY <2>1, <2>2, <2>3, <2>4 DEF JobNext
<1> QED
  BY <1>3, JobInvariant, PTL DEF JobSpec, LaterEventsDemote

----------------------------------------------------------------------------
\* The inputs of the mature events in a log.
LEMMA InputsOneMore ==
  ASSUME NEW s \in Seq(LogEvents), NEW e \in LogEvents
  PROVE  MatureInputs(Append(s, e)) = IF e.type = "mature" THEN MatureInputs(s) \cup {e.input}
                                      ELSE MatureInputs(s)
<1>1. /\ Len(s) \in Nat /\ DOMAIN s = 1..Len(s) /\ DOMAIN Append(s, e) = 1..(Len(s) + 1)
      /\ \A i \in DOMAIN s : Append(s, e)[i] = s[i]
      /\ Append(s, e)[Len(s) + 1] = e
  BY OneEventMore
<1> QED
  BY <1>1 DEF MatureInputs

\* A process knows the inputs of every mature event of an offer, until it appends one itself.
InputsKnown == \A j \in Jobs :
  /\ job[j].step \in {"refunds", "returns"} => \A o \in Offers : job[j].inputs[o] = MatureInputs(log[o])
  /\ \A o \in job[j].planned : job[j].inputs[o] = MatureInputs(log[o])

\* A log in which no two mature events have the same input.
InputsDiffer(events) == \A i, k \in DOMAIN events :
  /\ events[i].type = "mature" /\ events[k].type = "mature"
  /\ events[i].input = events[k].input
  => i = k

LEMMA DifferOneMore ==
  ASSUME NEW s \in Seq(LogEvents), NEW e \in LogEvents, InputsDiffer(s),
         e.type = "mature" => e.input \notin MatureInputs(s)
  PROVE  InputsDiffer(Append(s, e))
<1>1. /\ Len(s) \in Nat /\ DOMAIN s = 1..Len(s) /\ DOMAIN Append(s, e) = 1..(Len(s) + 1)
      /\ \A i \in DOMAIN s : Append(s, e)[i] = s[i]
      /\ Append(s, e)[Len(s) + 1] = e
  BY OneEventMore
<1>2. e.type = "mature" => \A i \in DOMAIN s : s[i].type = "mature" => s[i].input # e.input
  BY DEF MatureInputs
<1> SUFFICES ASSUME NEW i \in 1..(Len(s) + 1), NEW k \in 1..(Len(s) + 1),
                    Append(s, e)[i].type = "mature", Append(s, e)[k].type = "mature",
                    Append(s, e)[i].input = Append(s, e)[k].input
             PROVE  i = k
  BY <1>1 DEF InputsDiffer
<1>3. CASE i \in DOMAIN s /\ k \in DOMAIN s
  BY <1>1, <1>3 DEF InputsDiffer
<1>4. CASE i \in DOMAIN s /\ k = Len(s) + 1
  BY <1>1, <1>2, <1>4
<1>5. CASE i = Len(s) + 1 /\ k \in DOMAIN s
  BY <1>1, <1>2, <1>5
<1> QED
  BY <1>1, <1>3, <1>4, <1>5

LEMMA OnceNext ==
  ASSUME \A i, j \in Jobs : i = j, JobInv, InputsKnown, \A o \in Offers : InputsDiffer(log[o]), JobNext
  PROVE  InputsKnown' /\ \A o \in Offers : InputsDiffer(log'[o])
<1>0. FilesTypeOK /\ job \in [Jobs -> JobRecords]
  BY DEF JobInv, IngestInv, FilesInv, JobTypeOK
<1>1. ASSUME log' = log, job' = job
      PROVE  InputsKnown' /\ \A o \in Offers : InputsDiffer(log'[o])
  BY <1>1 DEF InputsKnown
<1>2. ASSUME NEW o \in Offers, NEW e \in LogEvents, Logged(o, e), e.type # "mature", job' = job
      PROVE  InputsKnown' /\ \A p \in Offers : InputsDiffer(log'[p])
  <2>1. \A p \in Offers : MatureInputs(log'[p]) = MatureInputs(log[p]) /\ InputsDiffer(log'[p])
    <3> SUFFICES ASSUME NEW p \in Offers
                 PROVE  MatureInputs(log'[p]) = MatureInputs(log[p]) /\ InputsDiffer(log'[p])
      OBVIOUS
    <3>1. CASE p # o
      BY <1>0, <1>2, <3>1, LogFrame
    <3>2. CASE p = o
      <4>1. log'[o] = Append(log[o], e) /\ log[o] \in Seq(LogEvents)
        BY <1>0, <1>2, LogFrame DEF FilesTypeOK
      <4> QED
        BY <1>2, <3>2, <4>1, InputsOneMore, DifferOneMore
    <3> QED
      BY <3>1, <3>2
  <2>2. \A j \in Jobs : job[j].planned \subseteq Offers
    BY <1>0 DEF JobRecords
  <2> QED
    BY <1>2, <2>1, <2>2 DEF InputsKnown
<1>3. ASSUME NEW j \in Jobs, NEW v, log' = log, job' = [job EXCEPT ![j] = v],
             v.step \in {"refunds", "returns"} => \A o \in Offers : v.inputs[o] = MatureInputs(log[o]),
             \A o \in v.planned : v.inputs[o] = MatureInputs(log[o])
      PROVE  InputsKnown' /\ \A o \in Offers : InputsDiffer(log'[o])
  <2>1. \A i \in Jobs : job'[i] = v
    BY <1>0, <1>3
  <2> QED
    BY <1>3, <2>1 DEF InputsKnown
<1>4. CASE Next /\ UNCHANGED jobVars
  <2>1. \/ log' = log
        \/ \E o \in Offers, e \in LogEvents : Logged(o, e) /\ e.type # "mature"
    BY <1>4, NextLog DEF JobInv
  <2> QED
    BY <1>1, <1>2, <1>4, <2>1 DEF jobVars
<1>5. CASE \E o \in Offers : WindowCloses(o)
  BY <1>1, <1>5 DEF WindowCloses, ingestVars, files
<1>6. ASSUME NEW j \in Jobs, JobStep(j) \/ StopJob(j)
      PROVE  InputsKnown' /\ \A o \in Offers : InputsDiffer(log'[o])
  <2>1. CASE ReadEvents(j)
    <3>1. log' = log /\ job' = [job EXCEPT ![j] = ViewOfEvents(j)] /\ job[j].planned = {}
      BY <2>1, JobSteps DEF files, JobInv, PlannedEligible
    <3>2. ViewOfEvents(j).planned = {} /\ \A o \in Offers : ViewOfEvents(j).inputs[o] = MatureInputs(log[o])
      BY <3>1, Views
    <3> QED
      BY <1>3, <3>1, <3>2
  <2>2. CASE ReadRefundRefs(j)
    <3>1. /\ log' = log /\ job' = [job EXCEPT ![j] = ViewOfRefunds(j)] /\ job[j].planned = {}
          /\ \A o \in Offers : job[j].inputs[o] = MatureInputs(log[o])
      BY <2>2, JobSteps DEF files, JobInv, PlannedEligible, InputsKnown
    <3>2. ViewOfRefunds(j).planned = {} /\ ViewOfRefunds(j).inputs = job[j].inputs
      BY <3>1, Views
    <3> QED
      BY <1>3, <3>1, <3>2
  <2>3. CASE ReadReturnRefs(j)
    <3>1. /\ log' = log /\ \A o \in Offers : job[j].inputs[o] = MatureInputs(log[o])
          /\ job' = [job EXCEPT ![j] = JobIdle] \/ job' = [job EXCEPT ![j] = Planned(j)]
      BY <2>3, JobSteps DEF files, InputsKnown
    <3>2. CASE job' = [job EXCEPT ![j] = JobIdle]
      BY <1>3, <3>1, <3>2, IdleOK
    <3>3. CASE job' = [job EXCEPT ![j] = Planned(j)]
      <4>1. Planned(j).step = "append" /\ Planned(j).planned \subseteq Offers /\ Planned(j).inputs = job[j].inputs
        BY Views DEF Plan
      <4>2. /\ Planned(j).step \notin {"refunds", "returns"}
            /\ \A o \in Planned(j).planned : Planned(j).inputs[o] = MatureInputs(log[o])
        BY <3>1, <4>1
      <4> QED
        BY <1>3, <3>1, <3>3, <4>2
    <3> QED
      BY <3>1, <3>2, <3>3
  <2>4. CASE StopJob(j)
    <3>1. log' = log /\ job' = [job EXCEPT ![j] = JobIdle]
      BY <2>4, JobSteps DEF files
    <3> QED
      BY <1>3, <3>1, IdleOK
  <2>5. CASE AppendMature(j)
    <3>1. PICK o \in job[j].planned :
             /\ Logged(o, MatureEvent(job[j], o)) /\ job' = [job EXCEPT ![j] = Rest(j, o)]
             /\ o \in Offers
      BY <2>5, AppendMatureFacts
    <3>2. PICK e : e = MatureEvent(job[j], o)
      OBVIOUS
    <3>3. /\ e \in LogEvents /\ e.type = "mature" /\ Logged(o, e) /\ Eligible(job[j], o)
          /\ e.input = MaturityInput(job[j].snap[o])
      BY <3>1, <3>2, MatureEventOK
    <3>4. e.input \notin MatureInputs(log[o])
      BY <3>1, <3>3 DEF Eligible, Duplicate, InputsKnown
    <3>5. /\ log'[o] = Append(log[o], e) /\ log[o] \in Seq(LogEvents)
          /\ \A p \in Offers \ {o} : log'[p] = log[p]
      BY <1>0, <3>1, <3>3, LogFrame DEF FilesTypeOK
    <3>6. \A p \in Offers : InputsDiffer(log'[p])
      <4>1. InputsDiffer(log'[o])
        BY <3>1, <3>3, <3>4, <3>5, DifferOneMore
      <4> QED
        BY <3>5, <4>1
    <3>7. \A i \in Jobs : job'[i] = Rest(j, o)
      BY <1>0, <3>1
    <3>8. InputsKnown'
      <4>1. CASE Rest(j, o) = JobIdle
        BY <3>7, <4>1, IdleOK DEF InputsKnown
      <4>2. CASE Rest(j, o) # JobIdle
        <5>1. /\ Rest(j, o).step = "append" /\ Rest(j, o).planned = job[j].planned \ {o}
              /\ Rest(j, o).inputs = job[j].inputs /\ job[j].planned \subseteq Offers
          BY <1>0, <3>1, <4>2, RestFacts DEF JobRecords
        <5>2. \A p \in job[j].planned \ {o} : job[j].inputs[p] = MatureInputs(log[p]) /\ log'[p] = log[p]
          BY <3>5, <5>1 DEF InputsKnown
        <5> QED
          BY <3>7, <5>1, <5>2 DEF InputsKnown
      <4> QED
        BY <4>1, <4>2
    <3> QED
      BY <3>6, <3>8
  <2> QED
    BY <1>6, <2>1, <2>2, <2>3, <2>4, <2>5 DEF JobStep
<1> QED
  BY <1>4, <1>5, <1>6 DEF JobNext

\* "Repeated runs are idempotent for the same maturity inputs", across crashed runs and the
\* server's own writes, as long as no two runs overlap (existingMatureHashes).
THEOREM MatureOnce ==
  ASSUME \A i, j \in Jobs : i = j
  PROVE  JobSpec => []MatureOncePerInput
<1> DEFINE Inv == InputsKnown /\ \A o \in Offers : InputsDiffer(log[o])
<1>1. JobInit => Inv
  <2> SUFFICES ASSUME JobInit PROVE Inv
    OBVIOUS
  <2>1. \A j \in Jobs : job[j] = JobIdle
    BY DEF JobInit
  <2>2. \A o \in Offers : log[o] = <<>>
    BY DEF JobInit, Init
  <2> QED
    BY <2>1, <2>2, IdleOK DEF InputsKnown, InputsDiffer
<1>2. JobInv /\ Inv /\ [JobNext]_vars => Inv'
  <2>1. JobInv /\ Inv /\ UNCHANGED vars => Inv'
    BY DEF vars, ingestVars, jobVars, files, InputsKnown
  <2> QED
    BY <2>1, OnceNext
<1>3. Inv => MatureOncePerInput
  BY DEF MatureOncePerInput, InputsDiffer
<1> HIDE DEF Inv
<1> QED
  BY <1>1, <1>2, <1>3, JobInvariant, PTL DEF JobSpec

----------------------------------------------------------------------------
\* The last line of a reference that names the offer was written before its payment.
HeldBefore(lines, o) ==
  LET own == {i \in DOMAIN lines : lines[i].offer = o}
  IN  own # {} /\ lines[Max(own)].status = "held_before_paid"
NoneEarly(refs, o) == \A r \in DOMAIN refs : ~HeldBefore(refs[r], o)

\* A line for another offer, or of another status, leaves it so.
LEMMA HeldOneMore ==
  ASSUME NEW T, NEW s \in Seq(T), NEW line \in T, NEW o, ~HeldBefore(s, o),
         ~(line.offer = o /\ line.status = "held_before_paid")
  PROVE  ~HeldBefore(Append(s, line), o)
<1>1. /\ DOMAIN s = 1..Len(s) /\ DOMAIN Append(s, line) = 1..(Len(s) + 1) /\ Len(s) \in Nat
      /\ \A i \in DOMAIN s : Append(s, line)[i] = s[i]
      /\ Append(s, line)[Len(s) + 1] = line
  BY OneEventMore
<1> DEFINE own == {i \in DOMAIN s : s[i].offer = o}
           longer == {i \in DOMAIN Append(s, line) : Append(s, line)[i].offer = o}
<1>2. own \subseteq 1..Len(s)
  BY <1>1
<1>3. CASE line.offer = o
  <2>1. longer = own \cup {Len(s) + 1}
    BY <1>1, <1>3
  <2>2. Max(longer) = Len(s) + 1
    BY <1>1, <1>2, <2>1, MaxOfOneMore
  <2> QED
    BY <1>1, <1>3, <2>2 DEF HeldBefore
<1>4. CASE line.offer # o
  <2>1. longer = own
    BY <1>1, <1>4
  <2>2. own # {} => Max(own) \in own
    BY <1>1, <1>2, MaxFacts
  <2>3. own # {} => Append(s, line)[Max(own)] = s[Max(own)] /\ s[Max(own)].status # "held_before_paid"
    <3>1. own # {} => Max(own) \in DOMAIN s
      BY <2>2
    <3> QED
      BY <1>1, <3>1 DEF HeldBefore
  <2> QED
    BY <2>1, <2>3 DEF HeldBefore
<1> QED
  BY <1>3, <1>4

\* What the server writes after the payment is no early line.
LEMMA NextEarly ==
  ASSUME IngestInv, Next, NEW o \in Offers, HasEvent(log[o], "paid")
  PROVE  /\ NoneEarly(refundRefs, o) => NoneEarly(refundRefs', o)
         /\ NoneEarly(returnRefs, o) => NoneEarly(returnRefs', o)
<1>0. refundRefs \in [Refunds -> Seq(RefundLines)] /\ returnRefs \in [Returns -> Seq(ReturnLines)]
  BY DEF IngestInv, FilesInv, FilesTypeOK
<1>1. CASE AppendRefundRef
  <2>1. PICK r, line : r = Head(todo).ref /\ line = Head(todo).line
    OBVIOUS
  <2>2. NextAppend("refund_refs")
    BY <1>1 DEF AppendRefundRef
  <2>3. r \in Refunds /\ line \in RefundLines /\ LineOK(1, line)
    BY <2>1, <2>2, NextAppendFacts, AppendKinds DEF AppendOK
  <2>4. refundRefs' = [refundRefs EXCEPT ![r] = Append(@, line)] /\ returnRefs' = returnRefs
    BY <1>1, <2>1 DEF AppendRefundRef
  <2>5. ~(line.offer = o /\ line.status = "held_before_paid")
    BY <2>3 DEF LineOK
  <2>6. ~HeldBefore(refundRefs[r], o) => ~HeldBefore(Append(refundRefs[r], line), o)
    BY <1>0, <2>3, <2>5, HeldOneMore
  <2> QED
    BY <1>0, <2>3, <2>4, <2>6 DEF NoneEarly
<1>2. CASE AppendReturnRef
  <2>1. PICK r, line : r = Head(todo).ref /\ line = Head(todo).line
    OBVIOUS
  <2>2. NextAppend("return_refs")
    BY <1>2 DEF AppendReturnRef
  <2>3. r \in Returns /\ line \in ReturnLines /\ LineOK(1, line)
    BY <2>1, <2>2, NextAppendFacts, AppendKinds DEF AppendOK
  <2>4. returnRefs' = [returnRefs EXCEPT ![r] = Append(@, line)] /\ refundRefs' = refundRefs
    BY <1>2, <2>1 DEF AppendReturnRef
  <2>5. ~(line.offer = o /\ line.status = "held_before_paid")
    BY <2>3 DEF LineOK
  <2>6. ~HeldBefore(returnRefs[r], o) => ~HeldBefore(Append(returnRefs[r], line), o)
    BY <1>0, <2>3, <2>5, HeldOneMore
  <2> QED
    BY <1>0, <2>3, <2>4, <2>6 DEF NoneEarly
<1>3. CASE ~AppendRefundRef /\ ~AppendReturnRef
  <2>1. refundRefs' = refundRefs /\ returnRefs' = returnRefs
    BY <1>3 DEF Next, HandlerStep, AppendEvent, AppendOrderRef, AppendWebhookDelivery, ReceiveOrder,
                ReceiveRefund, ReceiveReturn, Receive, Crash, files
  <2> QED
    BY <2>1
<1> QED
  BY <1>1, <1>2, <1>3

\* The two files are read one after the other, and after the log: what was paid when the log was
\* read and not held when a file was read has no early line in that file, then or later.
EarlyOf(v, o) ==
  /\ v.step = "returns" /\ v.snap[o].pay # "none" /\ o \notin v.held => NoneEarly(refundRefs, o)
  /\ o \in v.planned => NoneEarly(refundRefs, o) /\ NoneEarly(returnRefs, o)
EarlyInv == \A j \in Jobs : \A o \in Offers : EarlyOf(job[j], o)

\* Nobody is early among the offers without a hold.
LEMMA HoldsCoverEarly ==
  ASSUME NEW refs, NEW o \in Offers, o \notin HeldOffers(refs)
  PROVE  NoneEarly(refs, o)
BY DEF HeldOffers, NoneEarly, HeldBefore, LatestHeld

LEMMA EarlyNext ==
  ASSUME JobInv, EarlyInv, JobNext
  PROVE  EarlyInv'
<1>0. job \in [Jobs -> JobRecords]
  BY DEF JobInv, JobTypeOK
<1>1. ASSUME NEW j \in Jobs, NEW v, job' = [job EXCEPT ![j] = v], refundRefs' = refundRefs,
             returnRefs' = returnRefs, \A o \in Offers : EarlyOf(v, o)
      PROVE  EarlyInv'
  BY <1>0, <1>1 DEF EarlyInv, EarlyOf
<1>2. CASE Next /\ UNCHANGED jobVars
  <2> SUFFICES ASSUME NEW j \in Jobs, NEW o \in Offers PROVE EarlyOf(job[j], o)'
    BY DEF EarlyInv
  <2>1. job' = job /\ EarlyOf(job[j], o)
    BY <1>2 DEF jobVars, EarlyInv
  <2>2. job[j].snap[o].pay # "none" => HasEvent(log[o], "paid")
    BY DEF JobInv, PaidWhenRead
  <2>3. o \in job[j].planned => HasEvent(log[o], "paid")
    BY <2>2 DEF JobInv, PlannedEligible, Eligible
  <2>4. HasEvent(log[o], "paid") => /\ NoneEarly(refundRefs, o) => NoneEarly(refundRefs', o)
                                    /\ NoneEarly(returnRefs, o) => NoneEarly(returnRefs', o)
    BY <1>2, NextEarly DEF JobInv
  <2> QED
    BY <2>1, <2>2, <2>3, <2>4 DEF EarlyOf
<1>3. CASE \E o \in Offers : WindowCloses(o)
  BY <1>3 DEF WindowCloses, ingestVars, files, EarlyInv, EarlyOf
<1>4. ASSUME NEW j \in Jobs, JobStep(j) \/ StopJob(j)
      PROVE  EarlyInv'
  <2>1. CASE ReadEvents(j)
    <3>1. ViewOfEvents(j).step = "refunds" /\ ViewOfEvents(j).planned = {}
      BY <2>1, JobSteps, Views DEF JobInv, PlannedEligible
    <3> QED
      BY <1>1, <2>1, <3>1, JobSteps DEF EarlyOf, files
  <2>2. CASE ReadRefundRefs(j)
    <3>1. ViewOfRefunds(j).held = HeldOffers(refundRefs) /\ ViewOfRefunds(j).planned = {}
      BY <2>2, JobSteps, Views DEF JobInv, PlannedEligible
    <3>2. \A o \in Offers : EarlyOf(ViewOfRefunds(j), o)
      BY <3>1, HoldsCoverEarly DEF EarlyOf
    <3> QED
      BY <1>1, <2>2, <3>2, JobSteps DEF files
  <2>3. CASE ReadReturnRefs(j)
    <3>1. /\ job[j].step = "returns" /\ refundRefs' = refundRefs /\ returnRefs' = returnRefs
          /\ job' = [job EXCEPT ![j] = JobIdle] \/ job' = [job EXCEPT ![j] = Planned(j)]
      BY <2>3, JobSteps DEF files
    <3>2. \A o \in Offers : EarlyOf(JobIdle, o)
      BY IdleOK DEF EarlyOf
    <3>3. \A o \in Offers : EarlyOf(Planned(j), o)
      <4> SUFFICES ASSUME NEW o \in Offers PROVE EarlyOf(Planned(j), o)
        OBVIOUS
      <4>1. /\ Planned(j).step = "append" /\ Planned(j).planned = Plan(j) /\ Planned(j).snap = job[j].snap
            /\ Planned(j).held = job[j].held \cup HeldOffers(returnRefs)
            /\ o \in Plan(j) => Eligible(Planned(j), o)
        BY Views
      <4>2. o \in Plan(j) => /\ job[j].snap[o].pay # "none" /\ o \notin job[j].held
                             /\ o \notin HeldOffers(returnRefs)
        BY <4>1 DEF Eligible
      <4>3. o \in Plan(j) => NoneEarly(refundRefs, o)
        BY <3>1, <4>2 DEF EarlyInv, EarlyOf
      <4>4. o \in Plan(j) => NoneEarly(returnRefs, o)
        BY <4>2, HoldsCoverEarly
      <4> QED
        BY <4>1, <4>3, <4>4 DEF EarlyOf
    <3> QED
      BY <1>1, <3>1, <3>2, <3>3
  <2>4. CASE StopJob(j)
    <3>1. \A o \in Offers : EarlyOf(JobIdle, o)
      BY IdleOK DEF EarlyOf
    <3> QED
      BY <1>1, <2>4, <3>1, JobSteps DEF files
  <2>5. CASE AppendMature(j)
    <3>1. PICK o \in job[j].planned :
             Logged(o, MatureEvent(job[j], o)) /\ job' = [job EXCEPT ![j] = Rest(j, o)] /\ o \in Offers
      BY <2>5, AppendMatureFacts
    <3>2. \A p \in Offers : EarlyOf(Rest(j, o), p)
      <4>1. CASE Rest(j, o) = JobIdle
        BY <4>1, IdleOK DEF EarlyOf
      <4>2. CASE Rest(j, o) # JobIdle
        <5>1. Rest(j, o).step = "append" /\ Rest(j, o).planned = job[j].planned \ {o}
          BY <3>1, <4>2, RestFacts
        <5> QED
          BY <5>1 DEF EarlyInv, EarlyOf
      <4> QED
        BY <4>1, <4>2
    <3> QED
      BY <1>1, <3>1, <3>2 DEF Logged
  <2> QED
    BY <1>4, <2>1, <2>2, <2>3, <2>4, <2>5 DEF JobStep
<1> QED
  BY <1>2, <1>3, <1>4 DEF JobNext

\* A refund or a return that came before the payment keeps its transaction from maturing, although
\* the job reads the three files one after the other while the server writes them.
THEOREM NeverMatureOverEarlyRefund == JobSpec => []NoMatureOverEarlyRefund
<1>1. JobInit => EarlyInv
  <2> SUFFICES ASSUME JobInit PROVE EarlyInv
    OBVIOUS
  <2>1. \A j \in Jobs : job[j] = JobIdle
    BY DEF JobInit
  <2> QED
    BY <2>1, IdleOK DEF EarlyInv, EarlyOf
<1>2. JobInv /\ EarlyInv /\ [JobNext]_vars => EarlyInv'
  <2>1. EarlyInv /\ UNCHANGED vars => EarlyInv'
    BY DEF vars, ingestVars, jobVars, files, EarlyInv, EarlyOf
  <2> QED
    BY <2>1, EarlyNext
<1>3. JobInv /\ EarlyInv => NoMatureOverEarlyRefund
  <2> SUFFICES ASSUME JobInv, EarlyInv, NEW j \in Jobs, NEW o \in job[j].planned
               PROVE  /\ \A r \in Refunds : ~HeldBefore(refundRefs[r], o)
                      /\ \A r \in Returns : ~HeldBefore(returnRefs[r], o)
    BY DEF NoMatureOverEarlyRefund, HeldBefore
  <2>1. o \in Offers /\ DOMAIN refundRefs = Refunds /\ DOMAIN returnRefs = Returns
    BY MatureEventOK DEF JobInv, IngestInv, FilesInv, FilesTypeOK
  <2> QED
    BY <2>1 DEF EarlyInv, EarlyOf, NoneEarly
<1> QED
  BY <1>1, <1>2, <1>3, JobInvariant, PTL DEF JobSpec

----------------------------------------------------------------------------
(***************************************************************************)
(* A snapshot is the replay of the log (buildOfferSnapshots), a fold.  Its *)
(* recursive function takes the last event away first.                     *)
(***************************************************************************)
StateAfter(events) == FoldLeft(Replay, Checkout, events)
LastOf(D) == [T \in SUBSET D |-> Max(T)]
Replayed(events, D) == [p \in D \X Snapshots |-> Replay(p[2], events[p[1]])]
States(g, events, D) == g \in [SUBSET D -> Snapshots] /\ Recursion(g, D, Checkout, LastOf(D), Replayed(events, D))

LEMMA CheckoutType == Checkout \in Snapshots /\ Checkout.pay = "none" /\ Forgotten.pay = "none"
BY DEF Checkout, Forgotten, Blank, Snapshots, LifecycleStates, BuyerResponseStates, OrderReadyStates,
       PaymentStates, PaidTotals, Reported

LEMMA LastOfFacts ==
  ASSUME NEW n \in Nat
  PROVE  /\ Choice(LastOf(1..n), 1..n)
         /\ \A T \in SUBSET (1..n) : LastOf(1..n)[T] = Max(T)
<1>1. \A T \in SUBSET (1..n) : LastOf(1..n)[T] = Max(T)
  BY DEF LastOf
<1> QED
  BY <1>1, MaxFacts DEF Choice

LEMMA ReplayedFacts ==
  ASSUME NEW D, NEW events, \A i \in D : events[i] \in LogEvents
  PROVE  /\ Replayed(events, D) \in [D \X Snapshots -> Snapshots]
         /\ \A i \in D : \A s \in Snapshots : Replayed(events, D)[<<i, s>>] = Replay(s, events[i])
BY ReplayType DEF Replayed

\* The recursive function that FoldLeft is defined by.
LEMMA StateIsDefined ==
  ASSUME NEW events \in Seq(LogEvents)
  PROVE  \E g : StateAfter(events) = g[DOMAIN events] /\ States(g, events, DOMAIN events)
<1> DEFINE D == DOMAIN events
           Once(g) == [T \in SUBSET D |-> IF T = {} THEN Checkout ELSE Replay(g[T \ {Max(T)}], events[Max(T)])]
           iter == CHOOSE g : g = Once(g)
<1>0. /\ Len(events) \in Nat /\ D = 1..Len(events) /\ IsFiniteSet(D) /\ Checkout \in Snapshots
      /\ \A i \in D : events[i] \in LogEvents
  <2>1. Len(events) \in Nat /\ D = 1..Len(events) /\ \A i \in D : events[i] \in LogEvents
    OBVIOUS
  <2> QED
    BY <2>1, CheckoutType, FS_Interval
<1> HIDE DEF D
<1>1. /\ Choice(LastOf(D), D) /\ \A T \in SUBSET D : LastOf(D)[T] = Max(T)
      /\ \A T \in SUBSET D : T # {} => Max(T) \in T
  BY <1>0, LastOfFacts, MaxFacts
<1>2. /\ Replayed(events, D) \in [D \X Snapshots -> Snapshots]
      /\ \A i \in D : \A s \in Snapshots : Replayed(events, D)[<<i, s>>] = Replay(s, events[i])
  <2>1. \A i \in D : events[i] \in LogEvents
    BY <1>0
  <2> QED
    BY <2>1, ReplayedFacts, Zenon
<1>3. PICK g \in [SUBSET D -> Snapshots] : Recursion(g, D, Checkout, LastOf(D), Replayed(events, D))
  BY <1>0, <1>1, <1>2, SetRecursionExists, Zenon
<1>4. \A k \in [SUBSET D -> Snapshots] :
        k = Once(k) <=> Recursion(k, D, Checkout, LastOf(D), Replayed(events, D))
  <2> SUFFICES ASSUME NEW k \in [SUBSET D -> Snapshots]
               PROVE  k = Once(k) <=> Recursion(k, D, Checkout, LastOf(D), Replayed(events, D))
    OBVIOUS
  <2>1. ASSUME NEW T \in SUBSET D, T # {}
        PROVE  Replayed(events, D)[<<LastOf(D)[T], k[T \ {LastOf(D)[T]}]>>]
                 = Replay(k[T \ {Max(T)}], events[Max(T)])
    <3>1. PICK y : y = Max(T)
      OBVIOUS
    <3>2. y \in T /\ y \in D /\ LastOf(D)[T] = y
      BY <1>1, <2>1, <3>1
    <3>3. k[T \ {y}] \in Snapshots
      OBVIOUS
    <3>4. Replayed(events, D)[<<y, k[T \ {y}]>>] = Replay(k[T \ {y}], events[y])
      BY <1>2, <3>2, <3>3
    <3> QED
      BY <3>1, <3>2, <3>4
  <2> QED
    BY <2>1 DEF Recursion
<1>5. g = Once(g)
  BY <1>3, <1>4
<1> HIDE DEF Once
<1>6. iter = Once(iter)
  BY <1>5
<1> USE DEF Once
<1>7. iter \in [SUBSET D -> Snapshots]
  <2>1. DOMAIN iter = SUBSET D /\ iter = [T \in SUBSET D |-> iter[T]]
    BY <1>6
  <2>2. \A T \in SUBSET D : iter[T] = Once(iter)[T]
    BY <1>6
  <2> HIDE DEF iter, Once
  <2>3. \A T \in SUBSET D : iter[T] = IF T = {} THEN Checkout ELSE Replay(iter[T \ {Max(T)}], events[Max(T)])
    BY <2>2 DEF Once
  <2> DEFINE A == {n \in Nat : \A T \in Small(D, n) : iter[T] \in Snapshots}
  <2>4. 0 \in A
    <3>1. \A T \in Small(D, 0) : T = {} /\ T \in SUBSET D
      BY <1>0, SmallFacts
    <3> QED
      BY <1>0, <2>3, <3>1
  <2>5. ASSUME NEW n \in Nat, n \in A PROVE n + 1 \in A
    <3> SUFFICES ASSUME NEW T \in Small(D, n + 1) PROVE iter[T] \in Snapshots
      OBVIOUS
    <3>1. T \in SUBSET D
      BY DEF Small
    <3>2. CASE T = {}
      BY <1>0, <2>3, <3>1, <3>2
    <3>3. CASE T # {}
      <4>1. PICK y : y = Max(T)
        OBVIOUS
      <4>2. y \in T /\ y \in D
        BY <1>1, <3>1, <3>3, <4>1
      <4>3. iter[T] = Replay(iter[T \ {y}], events[y])
        BY <2>3, <3>1, <3>3, <4>1
      <4>4. iter[T \ {y}] \in Snapshots
        BY <1>0, <2>5, <4>2, SmallFacts
      <4> QED
        BY <1>0, <4>2, <4>3, <4>4, ReplayType
    <3> QED
      BY <3>2, <3>3
  <2> HIDE DEF A
  <2>6. \A n \in Nat : n \in A
    BY <2>4, <2>5, NatSetInduction
  <2>7. \A T \in SUBSET D : iter[T] \in Snapshots
    BY <1>0, <2>6, SmallFacts, FS_CardinalityType DEF A
  <2> QED
    BY <2>1, <2>7
<1>8. States(iter, events, D)
  BY <1>4, <1>6, <1>7 DEF States
<1>9. StateAfter(events) = iter[D]
  BY DEF StateAfter, FoldLeft, MapThenFoldSet, D
<1> HIDE DEF iter
<1> QED
  BY <1>8, <1>9 DEF D

\* The state of an empty log, and that of a log with one event more.
LEMMA StateOfNone == StateAfter(<<>>) = Checkout
<1>1. <<>> \in Seq(LogEvents) /\ DOMAIN <<>> = {}
  OBVIOUS
<1>2. PICK g : StateAfter(<<>>) = g[{}] /\ States(g, <<>>, {})
  BY <1>1, StateIsDefined
<1> QED
  BY <1>2 DEF States, Recursion

LEMMA StateOfOneMore ==
  ASSUME NEW s \in Seq(LogEvents), NEW e \in LogEvents
  PROVE  StateAfter(s) \in Snapshots /\ StateAfter(Append(s, e)) = Replay(StateAfter(s), e)
<1> DEFINE n == Len(s)
           t == Append(s, e)
           D == 1..n
           E == 1..(n + 1)
<1>1. /\ n \in Nat /\ DOMAIN s = D /\ DOMAIN t = E /\ t \in Seq(LogEvents)
      /\ \A i \in D : t[i] = s[i] /\ s[i] \in LogEvents
      /\ t[n + 1] = e
  BY OneEventMore
<1>2. \A i \in E : t[i] \in LogEvents
  BY <1>1
<1> HIDE DEF n, t, D, E
<1>3. PICK g : StateAfter(s) = g[D] /\ States(g, s, D)
  BY <1>1, StateIsDefined
<1>4. PICK k : StateAfter(t) = k[E] /\ States(k, t, E)
  BY <1>1, StateIsDefined
<1>5. /\ Choice(LastOf(D), D) /\ \A T \in SUBSET D : LastOf(D)[T] = Max(T)
      /\ \A T \in SUBSET E : LastOf(E)[T] = Max(T)
      /\ D \subseteq E /\ IsFiniteSet(D)
  <2>1. n \in Nat /\ n + 1 \in Nat /\ D \subseteq E
    BY <1>1 DEF D, E
  <2>2. Choice(LastOf(D), D) /\ \A T \in SUBSET D : LastOf(D)[T] = Max(T)
    BY <2>1, LastOfFacts, Zenon DEF D
  <2>3. \A T \in SUBSET E : LastOf(E)[T] = Max(T)
    BY <2>1, LastOfFacts, Zenon DEF E
  <2>4. IsFiniteSet(D)
    BY <2>1, FS_Interval DEF D
  <2> QED
    BY <2>1, <2>2, <2>3, <2>4
<1>6. \A i \in D : \A v \in Snapshots : Replayed(s, D)[<<i, v>>] = Replay(v, s[i])
  <2>1. \A i \in D : s[i] \in LogEvents
    BY <1>1
  <2> QED
    BY <2>1, ReplayedFacts, Zenon
<1>7. \A i \in E : \A v \in Snapshots : Replayed(t, E)[<<i, v>>] = Replay(v, t[i])
  BY <1>2, ReplayedFacts, Zenon
<1>8. ASSUME NEW T \in SUBSET D, T # {}
      PROVE  \E x \in T : g[T \ {x}] = k[T \ {x}] => g[T] = k[T]
  <2>1. PICK x : x = Max(T)
    OBVIOUS
  <2>2. x \in T /\ x \in D /\ x \in E /\ T \in SUBSET E
    BY <1>1, <1>5, <1>8, <2>1 DEF Choice
  <2>3. g[T] = Replayed(s, D)[<<x, g[T \ {x}]>>] /\ g[T \ {x}] \in Snapshots
    BY <1>3, <1>5, <1>8, <2>1 DEF States, Recursion
  <2>4. k[T] = Replayed(t, E)[<<x, k[T \ {x}]>>] /\ k[T \ {x}] \in Snapshots
    BY <1>4, <1>5, <1>8, <2>1, <2>2 DEF States, Recursion
  <2>5. g[T] = Replay(g[T \ {x}], s[x])
    BY <1>6, <2>2, <2>3
  <2>6. k[T] = Replay(k[T \ {x}], s[x])
    BY <1>1, <1>7, <2>2, <2>4
  <2> QED
    BY <2>2, <2>5, <2>6
<1>9. Alike(g, k, D)
  BY <1>8 DEF Alike
<1>10. g[{}] = k[{}]
  BY <1>3, <1>4 DEF States, Recursion
<1>11. g[D] = k[D] /\ g[D] \in Snapshots
  <2>0. IsFiniteSet(D)
    BY <1>5
  <2>1. \A T \in SUBSET D : g[T] = k[T]
    BY <2>0, <1>9, <1>10, SetRecursionAgrees
  <2> QED
    BY <1>3, <2>1 DEF States
<1>12. Max(E) = n + 1
  <2>1. E = D \cup {n + 1} /\ D \subseteq 1..n
    BY <1>1 DEF D, E
  <2> QED
    BY <1>1, <2>1, MaxOfOneMore
<1>13. k[E] = Replayed(t, E)[<<n + 1, k[D]>>]
  <2>1. E \ {n + 1} = D /\ E # {} /\ E \in SUBSET E
    <3>1. n \in Nat
      BY <1>1
    <3>2. \A x : x \in D <=> x \in E /\ x # n + 1
      BY <3>1 DEF D, E
    <3>3. n + 1 \in E
      BY <3>1 DEF E
    <3> QED
      BY <3>2, <3>3, Zenon
  <2>2. LastOf(E)[E] = n + 1
    BY <1>5, <1>12, <2>1
  <2> QED
    BY <1>4, <2>1, <2>2 DEF States, Recursion
<1>14. k[E] = Replay(k[D], e)
  <2>1. n + 1 \in E /\ t[n + 1] = e
    BY <1>1 DEF E
  <2> QED
    BY <1>7, <1>11, <1>13, <2>1
<1> QED
  BY <1>3, <1>4, <1>11, <1>14 DEF t

\* The first events of a log stay its first events.
LEMMA PrefixStays ==
  ASSUME NEW s \in Seq(LogEvents), NEW e \in LogEvents, NEW k \in 1..Len(s)
  PROVE  SubSeq(Append(s, e), 1, k) = SubSeq(s, 1, k)
<1> DEFINE t == Append(s, e)
<1>1. /\ t \in Seq(LogEvents) /\ DOMAIN s = 1..Len(s) /\ DOMAIN t = 1..(Len(s) + 1) /\ Len(s) \in Nat
      /\ \A i \in DOMAIN s : t[i] = s[i]
  BY OneEventMore
<1>2. Len(t) = Len(s) + 1
  OBVIOUS
<1> HIDE DEF t
<1>3. k \in 0..Len(s) /\ k \in 0..Len(t) /\ \A i \in 1..k : t[i] = s[i]
  BY <1>1, <1>2
<1>4. SubSeq(s, 1, k) = Restrict(s, 1..k)
  BY <1>3, SubSeqRestrict
<1>5. SubSeq(t, 1, k) = Restrict(t, 1..k)
  BY <1>1, <1>3, SubSeqRestrict
<1>6. Restrict(t, 1..k) = Restrict(s, 1..k)
  BY <1>3 DEF Restrict
<1> QED
  BY <1>4, <1>5, <1>6 DEF t

\* What a mature event states, of the first k events.
StatedOf(events, e, k) ==
  LET s == StateAfter(SubSeq(events, 1, k))
  IN  e.input = MaturityInput(s) /\ e.pay = s.pay /\ s.exposure # "open"
Describes(events) == \A i \in DOMAIN events :
  events[i].type = "mature" => \E k \in 1..(i - 1) : StatedOf(events, events[i], k)

LEMMA DescribesOneMore ==
  ASSUME NEW s \in Seq(LogEvents), NEW e \in LogEvents, Describes(s),
         e.type = "mature" => \E k \in 1..Len(s) : StatedOf(s, e, k)
  PROVE  Describes(Append(s, e))
<1>1. /\ DOMAIN s = 1..Len(s) /\ DOMAIN Append(s, e) = 1..(Len(s) + 1) /\ Len(s) \in Nat
      /\ \A i \in DOMAIN s : Append(s, e)[i] = s[i]
      /\ Append(s, e)[Len(s) + 1] = e
  BY OneEventMore
<1>2. \A k \in 1..Len(s) : \A f : StatedOf(Append(s, e), f, k) <=> StatedOf(s, f, k)
  BY PrefixStays DEF StatedOf
<1> SUFFICES ASSUME NEW i \in DOMAIN Append(s, e), Append(s, e)[i].type = "mature"
             PROVE  \E k \in 1..(i - 1) : StatedOf(Append(s, e), Append(s, e)[i], k)
  BY DEF Describes
<1>3. CASE i \in DOMAIN s
  <2>1. PICK k \in 1..(i - 1) : StatedOf(s, s[i], k)
    BY <1>1, <1>3 DEF Describes
  <2>2. k \in 1..Len(s)
    BY <1>1, <1>3
  <2> QED
    BY <1>1, <1>2, <1>3, <2>1, <2>2
<1>4. CASE i = Len(s) + 1
  <2>1. PICK k \in 1..Len(s) : StatedOf(s, e, k)
    BY <1>1, <1>4
  <2>2. k \in 1..(i - 1)
    BY <1>1, <1>4
  <2> QED
    BY <1>1, <1>2, <1>4, <2>1, <2>2
<1> QED
  BY <1>1, <1>3, <1>4

\* The snapshot is the replay of the log, and what the job has read of a paid offer that of its
\* first events.
IsReplay(o) == IF log[o] = <<>> THEN snap[o] \in {Checkout, Forgotten} ELSE snap[o] = StateAfter(log[o])
WasReplay(s, o) == s.pay # "none" => \E k \in 1..Len(log[o]) : s = StateAfter(SubSeq(log[o], 1, k))
ReplayInv == \A o \in Offers :
  IsReplay(o) /\ Describes(log[o]) /\ \A j \in Jobs : WasReplay(job[j].snap[o], o)

LEMMA ReplayOneMore ==
  ASSUME JobInv, ReplayInv, NEW o \in Offers, NEW e \in LogEvents, Logged(o, e), Fits(o, e),
         e.type = "mature" => \E k \in 1..Len(log[o]) : StatedOf(log[o], e, k)
  PROVE  \A p \in Offers : /\ IsReplay(p)' /\ Describes(log'[p])
                           /\ \A s : WasReplay(s, p) => WasReplay(s, p)'
<1>0. FilesTypeOK
  BY DEF JobInv, IngestInv, FilesInv
<1> SUFFICES ASSUME NEW p \in Offers
             PROVE  IsReplay(p)' /\ Describes(log'[p]) /\ \A s : WasReplay(s, p) => WasReplay(s, p)'
  OBVIOUS
<1>1. CASE p # o
  <2>1. log'[p] = log[p] /\ snap'[p] = snap[p]
    BY <1>0, <1>1, LogFrame
  <2> QED
    BY <2>1 DEF ReplayInv, IsReplay, WasReplay
<1>2. CASE p = o
  <2>1. /\ log'[o] = Append(log[o], e) /\ snap'[o] = Replay(snap[o], e) /\ log[o] \in Seq(LogEvents)
    BY <1>0, LogFrame DEF FilesTypeOK
  <2>2. log'[o] # <<>> /\ Len(log[o]) \in Nat /\ Len(log'[o]) = Len(log[o]) + 1
    BY <2>1
  <2>3. snap[o] = StateAfter(log[o])
    <3>1. CASE log[o] = <<>>
      <4>1. Forgotten.state = "buyer_accepted"
        BY DEF Forgotten, Blank
      <4> QED
        BY <3>1, <4>1, StateOfNone DEF ReplayInv, IsReplay, Fits
    <3>2. CASE log[o] # <<>>
      BY <3>2 DEF ReplayInv, IsReplay
    <3> QED
      BY <3>1, <3>2
  <2>4. snap'[o] = StateAfter(log'[o])
    BY <2>1, <2>3, StateOfOneMore
  <2>5. Describes(log'[o])
    BY <2>1, DescribesOneMore DEF ReplayInv
  <2>6. ASSUME NEW s, WasReplay(s, o) PROVE WasReplay(s, o)'
    <3> SUFFICES ASSUME s.pay # "none" PROVE \E k \in 1..Len(log'[o]) : s = StateAfter(SubSeq(log'[o], 1, k))
      BY DEF WasReplay
    <3>1. PICK k \in 1..Len(log[o]) : s = StateAfter(SubSeq(log[o], 1, k))
      BY <2>6 DEF WasReplay
    <3>2. SubSeq(log'[o], 1, k) = SubSeq(log[o], 1, k)
      BY <2>1, PrefixStays
    <3>3. k \in 1..Len(log'[o])
      BY <2>2
    <3> QED
      BY <3>1, <3>2, <3>3
  <2> QED
    BY <1>2, <2>2, <2>4, <2>5, <2>6 DEF IsReplay
<1> QED
  BY <1>1, <1>2

LEMMA ReplayNext ==
  ASSUME JobInv, ReplayInv, JobNext
  PROVE  ReplayInv'
<1>0. FilesTypeOK /\ job \in [Jobs -> JobRecords]
  BY DEF JobInv, IngestInv, FilesInv, JobTypeOK
<1>1. ASSUME log' = log, snap' = snap, job' = job
      PROVE  ReplayInv'
  BY <1>1 DEF ReplayInv, IsReplay, WasReplay
<1>2. ASSUME NEW j \in Jobs, NEW v, log' = log, snap' = snap, job' = [job EXCEPT ![j] = v],
             \A o \in Offers : WasReplay(v.snap[o], o)
      PROVE  ReplayInv'
  <2>1. \A i \in Jobs : \A o \in Offers : WasReplay(job'[i].snap[o], o)
    BY <1>0, <1>2 DEF ReplayInv
  <2> QED
    BY <1>2, <2>1 DEF ReplayInv, IsReplay, WasReplay
<1>3. ASSUME NEW o \in Offers, NEW e \in LogEvents, Logged(o, e), Fits(o, e),
             e.type = "mature" => \E k \in 1..Len(log[o]) : StatedOf(log[o], e, k),
             \A i \in Jobs : \A p \in Offers : WasReplay(job'[i].snap[p], p)
      PROVE  ReplayInv'
  BY <1>3, ReplayOneMore DEF ReplayInv
<1>4. CASE Next /\ UNCHANGED jobVars
  <2>1. \/ log' = log /\ snap' = snap
        \/ \E o \in Offers, e \in LogEvents : Logged(o, e) /\ Fits(o, e) /\ e.type # "mature"
    BY <1>4, NextLog DEF JobInv
  <2>2. job' = job
    BY <1>4 DEF jobVars
  <2>3. \A i \in Jobs : \A p \in Offers : WasReplay(job'[i].snap[p], p)
    BY <2>2 DEF ReplayInv
  <2> QED
    BY <1>1, <1>3, <2>1, <2>2, <2>3
<1>5. CASE \E o \in Offers : WindowCloses(o)
  BY <1>1, <1>5 DEF WindowCloses, ingestVars, files
<1>6. \A o \in Offers : WasReplay(JobIdle.snap[o], o)
  BY IdleOK DEF WasReplay
<1>7. ASSUME NEW j \in Jobs, JobStep(j) \/ StopJob(j)
      PROVE  ReplayInv'
  <2>1. CASE ReadEvents(j)
    <3>1. ViewOfEvents(j).snap = snap
      BY Views
    <3>2. \A o \in Offers : WasReplay(snap[o], o)
      <4> SUFFICES ASSUME NEW o \in Offers, snap[o].pay # "none"
                   PROVE  \E k \in 1..Len(log[o]) : snap[o] = StateAfter(SubSeq(log[o], 1, k))
        BY DEF WasReplay
      <4>1. log[o] \in Seq(LogEvents) /\ log[o] # <<>> /\ snap[o] = StateAfter(log[o])
        BY <1>0, CheckoutType DEF ReplayInv, IsReplay, FilesTypeOK
      <4>2. Len(log[o]) \in 1..Len(log[o])
        BY <4>1
      <4>3. SubSeq(log[o], 1, Len(log[o])) = log[o]
        BY <4>1, SubSeqFull
      <4> QED
        BY <4>1, <4>2, <4>3
    <3> QED
      BY <1>2, <2>1, <3>1, <3>2, JobSteps DEF files
  <2>2. CASE ReadRefundRefs(j)
    <3>1. ViewOfRefunds(j).snap = job[j].snap
      BY Views
    <3> QED
      BY <1>2, <2>2, <3>1, JobSteps DEF files, ReplayInv
  <2>3. CASE ReadReturnRefs(j)
    <3>1. Planned(j).snap = job[j].snap
      BY Views
    <3>2. log' = log /\ snap' = snap /\ (job' = [job EXCEPT ![j] = JobIdle] \/ job' = [job EXCEPT ![j] = Planned(j)])
      BY <2>3, JobSteps DEF files
    <3> QED
      BY <1>2, <1>6, <3>1, <3>2 DEF ReplayInv
  <2>4. CASE StopJob(j)
    BY <1>2, <1>6, <2>4, JobSteps DEF files
  <2>5. CASE AppendMature(j)
    <3>1. PICK o \in job[j].planned :
             Logged(o, MatureEvent(job[j], o)) /\ job' = [job EXCEPT ![j] = Rest(j, o)] /\ o \in Offers
      BY <2>5, AppendMatureFacts
    <3>2. PICK e : e = MatureEvent(job[j], o)
      OBVIOUS
    <3>3. /\ e \in LogEvents /\ Logged(o, e) /\ Fits(o, e) /\ Eligible(job[j], o)
          /\ e.input = MaturityInput(job[j].snap[o]) /\ e.pay = job[j].snap[o].pay
      BY <3>1, <3>2, MatureEventOK
    <3>4. \E k \in 1..Len(log[o]) : StatedOf(log[o], e, k)
      <4>1. job[j].snap[o].pay # "none" /\ job[j].snap[o].exposure # "open"
        BY <3>3 DEF Eligible
      <4>2. PICK k \in 1..Len(log[o]) : job[j].snap[o] = StateAfter(SubSeq(log[o], 1, k))
        BY <3>1, <4>1 DEF ReplayInv, WasReplay
      <4> QED
        BY <3>3, <4>1, <4>2 DEF StatedOf
    <3>5. \A i \in Jobs : \A p \in Offers : WasReplay(job'[i].snap[p], p)
      <4>1. \A p \in Offers : WasReplay(Rest(j, o).snap[p], p)
        <5>1. Rest(j, o) = JobIdle \/ Rest(j, o).snap = job[j].snap
          BY <3>1, RestFacts
        <5> QED
          BY <1>6, <5>1 DEF ReplayInv
      <4> QED
        BY <1>0, <3>1, <4>1 DEF ReplayInv
    <3> QED
      BY <1>3, <3>1, <3>3, <3>4, <3>5
  <2> QED
    BY <1>7, <2>1, <2>2, <2>3, <2>4, <2>5 DEF JobStep
<1> QED
  BY <1>4, <1>5, <1>7 DEF JobNext

LEMMA ReplayInit ==
  ASSUME JobInit
  PROVE  ReplayInv
<1>1. \A j \in Jobs : job[j] = JobIdle
  BY DEF JobInit
<1>2. \A o \in Offers : log[o] = <<>> /\ snap[o] \in {Checkout, Forgotten}
  BY DEF JobInit, Init
<1> QED
  BY <1>1, <1>2, IdleOK DEF ReplayInv, IsReplay, WasReplay, Describes

LEMMA ReplayStutter ==
  ASSUME ReplayInv, UNCHANGED vars
  PROVE  ReplayInv'
BY DEF vars, ingestVars, jobVars, files, ReplayInv, IsReplay, WasReplay

\* A mature event states, of one earlier point in the log, the amounts, the payment state and an
\* exposure that was not open: never a mixture of what was true at different times.
THEOREM MatureDescribesOnePoint == JobSpec => []MatureDescribesLog
<1>1. JobInit => ReplayInv
  BY ReplayInit
<1>2. JobInv /\ ReplayInv /\ [JobNext]_vars => ReplayInv'
  BY ReplayNext, ReplayStutter
<1>3. ReplayInv => MatureDescribesLog
  BY DEF ReplayInv, Describes, StateAfter, MatureDescribesLog, StatedOf
<1> QED
  BY <1>1, <1>2, <1>3, JobInvariant, PTL DEF JobSpec
=============================================================================
