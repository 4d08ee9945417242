----------------------- MODULE MerchantReport_proofs -----------------------
(***************************************************************************)
(* The figures of one merchant report agree with each other, although it   *)
(* reads three files one after the other while handlers and the maturity   *)
(* job write them: for any shop, any deliveries and any number of crashes, *)
(* as long as one maturity job runs at a time and the bodies about refunds *)
(* state their amounts.                                                    *)
(***************************************************************************)
EXTENDS MerchantReport, WebhookIngest_proofs

\* The refunds and the mature events of a log.
LoggedRefunds(events) ==
  {r \in Refunds : \E i \in DOMAIN events : events[i].type = "refund_recorded" /\ events[i].refund = r}
Maturing(events) == {i \in DOMAIN events : events[i].type = "mature"}

\* A snapshot and the log it is of: an open return is of a paid offer; a mature one is paid, has no
\* open return, and its figures are those of a mature event made when no more was refunded.
SnapOK(s, events) ==
  /\ s.exposure = "open" => s.pay # "none"
  /\ s.state = "mature" =>
       /\ s.pay # "none" /\ s.exposure # "open"
       /\ \E i \in Maturing(events) :
            s.matured = {events[i].input} /\ events[i].input.refunded <= s.refunded

\* What is refunded is the sum of the refunds in the log, which are of the offer's own orders.
RefundsOK(o, s, events) ==
  /\ IsFiniteSet(LoggedRefunds(events))
  /\ s.refunded = SumFunctionOnSet(RefundAmount, LoggedRefunds(events))
  /\ \A r \in LoggedRefunds(events) : OrderOffer[RefundOrder[r]] = o

\* A mature snapshot over an open return was made from a read before it.
ReturnsOK(s, events) ==
  s.state = "mature" => \A i \in OpenReturns(events) : MaturedUnseen(events, i)

OfferOK(o, s, events) ==
  /\ events \in Seq(LogEvents) /\ s \in Snapshots /\ InputsDiffer(events)
  /\ SnapOK(s, events) /\ ReturnsOK(s, events) /\ RefundsOK(o, s, events)

----------------------------------------------------------------------------
(***************************************************************************)
(* Returns that are open in the log.                                       *)
(***************************************************************************)
\* The state after the first n events, and after one more.
StateAt(events, n) == StateAfter(SubSeq(events, 1, n))

LEMMA StateAtNext ==
  ASSUME NEW events \in Seq(LogEvents), NEW n \in Nat, n < Len(events)
  PROVE  /\ StateAt(events, n) \in Snapshots /\ events[n + 1] \in LogEvents
         /\ StateAt(events, n + 1) = Replay(StateAt(events, n), events[n + 1])
<1>1. PICK m, s, e : m = n + 1 /\ s = SubSeq(events, 1, n) /\ e = events[m]
  OBVIOUS
<1>2. Len(events) \in Nat /\ m \in 1..Len(events) /\ 1 \in 1..Len(events) /\ m \in 1..Len(events) /\ m - 1 = n
  BY <1>1
<1>3. e \in LogEvents
  BY <1>1, <1>2
<1>4. s \in Seq(LogEvents)
  <2>1. \A i \in 1..n : events[i] \in LogEvents
    BY <1>2
  <2> QED
    BY <1>1, <2>1, SubSeqProperties
<1>5. SubSeq(events, 1, m) = SubSeq(events, 1, m - 1) \o <<events[m]>>
  <2>1. m \in 1..Len(events) /\ 1 \in 1..Len(events)
    BY <1>2
  <2> QED
    BY <2>1, SubSeqRecursiveSecond
<1>6. SubSeq(events, 1, m) = Append(s, e)
  BY <1>1, <1>2, <1>4, <1>5
<1> QED
  BY <1>1, <1>3, <1>4, <1>6, StateOfOneMore DEF StateAt

\* Up to the n-th event, a mature event after place i was made from a read before it.
UnseenBy(events, i, n) ==
  \E m \in (i + 1)..n : events[m].type = "mature" /\ \E k \in 1..(i - 1) : StatedOf(events, events[m], k)

\* An open return stays open in the replay until such an event.
OpenUntil(events, i, n) == StateAt(events, n).exposure = "open" \/ UnseenBy(events, i, n)

LEMMA OpenOneMore ==
  ASSUME NEW events \in Seq(LogEvents), Describes(events), NEW i \in OpenReturns(events),
         NEW n \in Nat, i <= n, n < Len(events), \A k \in i..n : OpenUntil(events, i, k)
  PROVE  OpenUntil(events, i, n + 1)
<1>1. PICK m, s, e : m = n + 1 /\ s = StateAt(events, n) /\ e = events[m]
  OBVIOUS
<1>2. /\ s \in Snapshots /\ e \in LogEvents /\ StateAt(events, m) = Replay(s, e)
  BY <1>1, StateAtNext
<1>3. /\ Len(events) \in Nat /\ DOMAIN events = 1..Len(events) /\ i \in DOMAIN events /\ m \in DOMAIN events
      /\ n \in i..n
  BY <1>1 DEF OpenReturns
<1>4. e.type # "return_status_recorded"
  BY <1>1, <1>3 DEF OpenReturns
<1>5. ASSUME NEW q \in i..n, UnseenBy(events, i, q)
      PROVE  UnseenBy(events, i, m)
  <2>1. (i + 1)..q \subseteq (i + 1)..m
    BY <1>1, <1>3, <1>5
  <2> QED
    BY <1>5, <2>1 DEF UnseenBy
<1>6. CASE e.type = "mature"
  <2>1. PICK k \in 1..(m - 1) : StatedOf(events, e, k)
    BY <1>1, <1>3, <1>6 DEF Describes
  <2>2. CASE k < i
    <3>1. k \in 1..(i - 1) /\ m \in (i + 1)..m
      BY <1>1, <1>3, <2>1, <2>2
    <3> QED
      BY <1>1, <1>6, <2>1, <3>1 DEF OpenUntil, UnseenBy
  <2>3. CASE i <= k
    <3>1. k \in i..n
      BY <1>1, <1>3, <2>1, <2>3
    <3>2. StateAt(events, k).exposure # "open"
      BY <2>1 DEF StatedOf, StateAt
    <3>3. UnseenBy(events, i, k)
      BY <3>1, <3>2 DEF OpenUntil
    <3> QED
      BY <1>1, <1>5, <3>1, <3>3 DEF OpenUntil
  <2> QED
    BY <1>3, <2>1, <2>2, <2>3
<1>7. CASE e.type # "mature"
  <2>1. StateAt(events, m).exposure = s.exposure
    BY <1>2, <1>4, <1>7, EventTypes, ReplayFacts
  <2>2. OpenUntil(events, i, n)
    BY <1>3
  <2> QED
    BY <1>1, <1>3, <1>5, <2>1, <2>2 DEF OpenUntil
<1> QED
  BY <1>6, <1>7

LEMMA OpenReturnStays ==
  ASSUME NEW events \in Seq(LogEvents), Describes(events), NEW i \in OpenReturns(events),
         StateAfter(events).exposure # "open"
  PROVE  MaturedUnseen(events, i)
<1>1. /\ Len(events) \in Nat /\ DOMAIN events = 1..Len(events) /\ i \in 1..Len(events)
      /\ events[i].type = "return_status_recorded" /\ events[i].exposure = "open"
  BY DEF OpenReturns
<1> DEFINE A == {n \in Nat : i + n <= Len(events) => \A k \in i..(i + n) : OpenUntil(events, i, k)}
<1>2. 0 \in A
  <2>1. PICK h : h = i - 1
    OBVIOUS
  <2>2. h \in Nat /\ h < Len(events) /\ h + 1 = i
    BY <1>1, <2>1
  <2>3. /\ StateAt(events, h) \in Snapshots /\ events[i] \in LogEvents
        /\ StateAt(events, i) = Replay(StateAt(events, h), events[i])
    BY <2>2, StateAtNext
  <2>4. StateAt(events, i).exposure = "open"
    BY <1>1, <2>3, ReplayFacts
  <2>5. \A k \in i..(i + 0) : k = i
    BY <1>1
  <2> QED
    BY <2>4, <2>5 DEF OpenUntil
<1>3. ASSUME NEW n \in Nat, n \in A PROVE n + 1 \in A
  <2> SUFFICES ASSUME i + (n + 1) <= Len(events) PROVE \A k \in i..(i + (n + 1)) : OpenUntil(events, i, k)
    OBVIOUS
  <2>1. PICK q : q = i + n
    OBVIOUS
  <2>2. q \in Nat /\ i <= q /\ q < Len(events) /\ \A k \in i..(i + (n + 1)) : k \in i..q \/ k = q + 1
    BY <1>1, <2>1
  <2>3. \A k \in i..q : OpenUntil(events, i, k)
    BY <1>1, <1>3, <2>1, <2>2
  <2>4. OpenUntil(events, i, q + 1)
    BY <2>2, <2>3, OpenOneMore
  <2> QED
    BY <2>2, <2>3, <2>4
<1> HIDE DEF A
<1>4. \A n \in Nat : n \in A
  BY <1>2, <1>3, NatSetInduction
<1>5. OpenUntil(events, i, Len(events))
  <2>1. PICK n : n = Len(events) - i
    OBVIOUS
  <2>2. n \in Nat /\ i + n = Len(events) /\ Len(events) \in i..(i + n)
    BY <1>1, <2>1
  <2> QED
    BY <1>4, <2>2 DEF A
<1>6. StateAt(events, Len(events)) = StateAfter(events)
  BY SubSeqFull DEF StateAt
<1>7. UnseenBy(events, i, Len(events))
  BY <1>5, <1>6 DEF OpenUntil
<1>8. PICK m \in (i + 1)..Len(events) :
         events[m].type = "mature" /\ \E k \in 1..(i - 1) : StatedOf(events, events[m], k)
  BY <1>7 DEF UnseenBy
<1>9. m \in DOMAIN events /\ m > i
  BY <1>1, <1>8
<1> QED
  BY <1>8, <1>9 DEF MaturedUnseen, StatedOf, StateAfter

----------------------------------------------------------------------------
\* The figures of a report, from what it read.
LEMMA TotalIsSum ==
  ASSUME NEW f, NEW D
  PROVE  Total(f, D) = SumFunctionOnSet(f, D)
BY DEF Total, MapThenSumSet, SumFunctionOnSet, FoldFunctionOnSet

\* Of a mature offer one mature event is current, of another none.
LEMMA StaleOfOffer ==
  ASSUME NEW read, NEW o, OfferOK(o, read.snap[o], read.log[o])
  PROVE  /\ Cardinality(Maturing(read.log[o])) \in Nat /\ Cardinality(StaleMature(read, o)) \in Nat
         /\ Cardinality(Maturing(read.log[o]))
              = (IF read.snap[o].state = "mature" THEN 1 ELSE 0) + Cardinality(StaleMature(read, o))
<1>1. PICK events, s : events = read.log[o] /\ s = read.snap[o]
  OBVIOUS
<1>2. events \in Seq(LogEvents) /\ InputsDiffer(events) /\ SnapOK(s, events)
  BY <1>1 DEF OfferOK
<1>3. IsFiniteSet(Maturing(events))
  <2>1. Len(events) \in Nat /\ DOMAIN events = 1..Len(events) /\ Maturing(events) \subseteq 1..Len(events)
    BY <1>2 DEF Maturing
  <2>2. IsFiniteSet(1..Len(events))
    BY <2>1, FS_Interval
  <2> QED
    BY <2>1, <2>2, FS_Subset
<1>4. CASE s.state = "mature"
  <2>1. PICK i \in Maturing(events) : s.matured = {events[i].input}
    BY <1>2, <1>4 DEF SnapOK
  <2>2. \A k \in Maturing(events) : events[k].input = events[i].input => k = i
    BY <1>2, <2>1 DEF InputsDiffer, Maturing
  <2>3. StaleMature(read, o) = Maturing(events) \ {i}
    BY <1>1, <1>4, <2>1, <2>2 DEF StaleMature, Maturing
  <2>4. IsFiniteSet(Maturing(events) \ {i}) /\ Cardinality(Maturing(events) \ {i}) = Cardinality(Maturing(events)) - 1
    BY <1>3, <2>1, FS_RemoveElement
  <2>5. Cardinality(Maturing(events)) \in Nat /\ Cardinality(Maturing(events) \ {i}) \in Nat
    BY <1>3, <2>4, FS_CardinalityType
  <2> QED
    BY <1>1, <1>4, <2>3, <2>4, <2>5
<1>5. CASE s.state # "mature"
  <2>1. StaleMature(read, o) = Maturing(events)
    BY <1>1, <1>5 DEF StaleMature, Maturing
  <2>2. Cardinality(Maturing(events)) \in Nat
    BY <1>3, FS_CardinalityType
  <2> QED
    BY <1>1, <1>5, <2>1, <2>2
<1> QED
  BY <1>4, <1>5

LEMMA MatureCounted ==
  ASSUME NEW read, \A o \in Offers : OfferOK(o, read.snap[o], read.log[o])
  PROVE  Total([o \in Offers |-> Cardinality(Maturing(read.log[o]))], Offers)
           = Cardinality(MatureOffers(read)) + Total([o \in Offers |-> Cardinality(StaleMature(read, o))], Offers)
<1>1. PICK all, one, stale :
         /\ all = [o \in Offers |-> Cardinality(Maturing(read.log[o]))]
         /\ one = [o \in Offers |-> IF o \in MatureOffers(read) THEN 1 ELSE 0]
         /\ stale = [o \in Offers |-> Cardinality(StaleMature(read, o))]
  OBVIOUS
<1>2. ASSUME NEW o \in Offers PROVE all[o] = one[o] + stale[o] /\ one[o] \in Int /\ stale[o] \in Int
  <2>1. one[o] = IF read.snap[o].state = "mature" THEN 1 ELSE 0
    BY <1>1 DEF MatureOffers
  <2>2. all[o] = Cardinality(Maturing(read.log[o])) /\ stale[o] = Cardinality(StaleMature(read, o))
    BY <1>1
  <2> QED
    BY <2>1, <2>2, StaleOfOffer
<1>3. IsFiniteSet(Offers) /\ MatureOffers(read) \subseteq Offers
  BY FiniteAssumption DEF MatureOffers
<1>4. SumFunctionOnSet(all, Offers) = SumFunctionOnSet(one, Offers) + SumFunctionOnSet(stale, Offers)
  BY <1>2, <1>3, SumOfSums
<1>5. \A o \in Offers : one[o] = IF o \in MatureOffers(read) THEN 1 ELSE 0
  BY <1>1
<1>6. SumFunctionOnSet(one, Offers) = Cardinality(MatureOffers(read))
  BY <1>3, <1>5, SumOfOnes
<1>7. Total(all, Offers) = Cardinality(MatureOffers(read)) + Total(stale, Offers)
  BY <1>4, <1>6, TotalIsSum
<1> QED
  BY <1>1, <1>7

\* No refund is counted for two offers, and each is among those referenced.
LEMMA RefundsCovered ==
  ASSUME NEW read, \A o \in Offers : OfferOK(o, read.snap[o], read.log[o]), NEW processed \in SUBSET Refunds,
         \A o \in Offers : LoggedRefunds(read.log[o]) \subseteq processed
  PROVE  Total([o \in PaidOffers(read) |-> read.snap[o].refunded], PaidOffers(read))
           <= Total(RefundAmount, processed)
<1>1. PICK refunded, part, paid :
         /\ paid = PaidOffers(read)
         /\ refunded = [o \in paid |-> read.snap[o].refunded]
         /\ part = [o \in paid |-> LoggedRefunds(read.log[o])]
  OBVIOUS
<1>2. paid \subseteq Offers /\ IsFiniteSet(paid)
  <2>1. paid \subseteq Offers
    BY <1>1 DEF PaidOffers
  <2> QED
    BY <2>1, FiniteAssumption, FS_Subset
<1>3. ASSUME NEW o \in paid
      PROVE  /\ part[o] \subseteq processed /\ IsFiniteSet(part[o])
             /\ refunded[o] = SumFunctionOnSet(RefundAmount, part[o])
             /\ \A r \in part[o] : RefundAmount[r] \in Int /\ OrderOffer[RefundOrder[r]] = o
  <2>1. part[o] = LoggedRefunds(read.log[o]) /\ refunded[o] = read.snap[o].refunded /\ o \in Offers
    BY <1>1, <1>2
  <2>2. RefundsOK(o, read.snap[o], read.log[o]) /\ part[o] \subseteq processed
    BY <2>1 DEF OfferOK
  <2>3. \A r \in part[o] : RefundAmount[r] \in Int
    BY <2>2, ShopifyAssumption
  <2> QED
    BY <2>1, <2>2, <2>3 DEF RefundsOK
<1>4. \A x \in paid : \A y \in paid : x # y => part[x] \cap part[y] = {}
  BY <1>3
<1>5. PICK all : all = UNION {part[o] : o \in paid}
  OBVIOUS
<1>6. SumFunctionOnSet(refunded, paid) = SumFunctionOnSet(RefundAmount, all)
  <2>1. \A x \in paid : IsFiniteSet(part[x]) /\ refunded[x] = SumFunctionOnSet(RefundAmount, part[x])
    BY <1>3
  <2>2. \A x \in paid : \A r \in part[x] : RefundAmount[r] \in Int
    BY <1>3
  <2>3. DisjointSum(RefundAmount, paid, part, refunded, all)
    BY <1>2, <1>4, <1>5, <2>1, <2>2 DEF DisjointSum
  <2> QED
    BY <2>3, SumOverParts
<1>7. all \subseteq processed /\ IsFiniteSet(processed)
  <2>1. all \subseteq processed
    BY <1>3, <1>5
  <2> QED
    BY <2>1, FiniteAssumption, FS_Subset
<1>8. \A r \in processed : RefundAmount[r] \in Nat
  BY ShopifyAssumption
<1>9. \A r \in all : RefundAmount[r] \in Int /\ RefundAmount[r] <= RefundAmount[r]
  BY <1>7, <1>8
<1>10. SumFunctionOnSet(RefundAmount, all) <= SumFunctionOnSet(RefundAmount, processed)
  BY <1>7, <1>8, <1>9, SumMonotone
<1>11. Total(RefundAmount, processed) = SumFunctionOnSet(RefundAmount, processed)
  BY TotalIsSum
<1>12. Total(refunded, paid) <= Total(RefundAmount, processed)
  <2>1. Total(refunded, paid) = SumFunctionOnSet(RefundAmount, all)
    BY <1>6, TotalIsSum
  <2> HIDE <1>6
  <2> QED
    BY <1>10, <1>11, <2>1
<1> QED
  BY <1>1, <1>12

\* The mature offers are paid ones, and no more was refunded when they matured.
LEMMA MatureAmongPaid ==
  ASSUME NEW read, \A o \in Offers : OfferOK(o, read.snap[o], read.log[o]),
         NEW mature, NEW paid, mature = MatureOffers(read), paid = PaidOffers(read)
  PROVE  Total([o \in mature |-> MatureInput(read, o).refunded], mature)
           <= Total([o \in paid |-> read.snap[o].refunded], paid)
<1>1. mature \subseteq paid /\ paid \subseteq Offers
  BY DEF MatureOffers, PaidOffers, OfferOK, SnapOK
<1>2. IsFiniteSet(paid) /\ IsFiniteSet(mature)
  <2>1. IsFiniteSet(paid)
    BY <1>1, FiniteAssumption, FS_Subset
  <2> QED
    BY <1>1, <2>1, FS_Subset
<1>3. ASSUME NEW o \in mature
      PROVE  MatureInput(read, o).refunded \in Nat /\ MatureInput(read, o).refunded <= read.snap[o].refunded
  <2>1. /\ SnapOK(read.snap[o], read.log[o]) /\ read.snap[o].state = "mature"
        /\ read.log[o] \in Seq(LogEvents)
    BY <1>1 DEF MatureOffers, OfferOK
  <2>2. PICK i \in Maturing(read.log[o]) :
           /\ read.snap[o].matured = {read.log[o][i].input}
           /\ read.log[o][i].input.refunded <= read.snap[o].refunded
    BY <2>1 DEF SnapOK
  <2>3. MatureInput(read, o) = read.log[o][i].input
    BY <2>2 DEF MatureInput, The
  <2>4. read.log[o][i] \in MaturedEvents
    BY <2>1, <2>2, EventTypes DEF Maturing
  <2>5. read.log[o][i].input.refunded \in Nat
    BY <2>4 DEF MaturedEvents, Inputs
  <2> QED
    BY <2>2, <2>3, <2>5
<1>4. PICK before, now :
         /\ before = [o \in mature |-> MatureInput(read, o).refunded]
         /\ now = [o \in paid |-> read.snap[o].refunded]
  OBVIOUS
<1>5. \A o \in paid : now[o] \in Nat
  <2> SUFFICES ASSUME NEW o \in paid PROVE now[o] \in Nat
    OBVIOUS
  <2>1. now[o] = read.snap[o].refunded /\ read.snap[o] \in Snapshots
    BY <1>1, <1>4 DEF OfferOK
  <2> QED
    BY <2>1 DEF Snapshots
<1>6. \A o \in mature : before[o] \in Int /\ before[o] <= now[o]
  BY <1>1, <1>3, <1>4
<1>7. SumFunctionOnSet(before, mature) <= SumFunctionOnSet(now, paid)
  BY <1>1, <1>2, <1>5, <1>6, SumMonotone
<1>8. Total(before, mature) <= Total(now, paid)
  BY <1>7, TotalIsSum
<1> QED
  BY <1>4, <1>8

----------------------------------------------------------------------------
(***************************************************************************)
(* What holds of the files while the handlers and the job write them.      *)
(***************************************************************************)
\* A refund that is still to be appended is of the offer, and its amount is what Shopify paid back.
TodoTrue == \A k \in DOMAIN todo :
  todo[k].to = "offers" /\ todo[k].line.type = "refund_recorded" =>
    /\ todo[k].line.amount = RefundAmount[todo[k].line.refund]
    /\ OrderOffer[RefundOrder[todo[k].line.refund]] = todo[k].offer

\* The refunds in the log of an offer are of its own orders.
OwnLogged == \A o \in Offers : \A r \in RefundsOf(o) : OrderOffer[RefundOrder[r]] = o

\* What a job has read was refunded at some time before.
JobsEarlier == \A j \in Jobs : \A o \in Offers : job[j].snap[o].refunded <= snap[o].refunded

SnapsOK == \A o \in Offers : SnapOK(snap[o], log[o])

LogsInv ==
  /\ InputsKnown /\ \A o \in Offers : InputsDiffer(log[o])
  /\ TodoTrue /\ RefundsSummed /\ OwnLogged /\ JobsEarlier /\ SnapsOK

\* A step of the handlers or of the job that writes to the log appends an event that fits.
LEMMA LogSteps ==
  ASSUME JobInv, JobNext
  PROVE  \/ log' = log /\ snap' = snap
         \/ \E o \in Offers, e \in LogEvents :
              /\ Logged(o, e) /\ Fits(o, e)
              /\ \/ /\ e.type # "mature" /\ 1 \in DOMAIN todo
                    /\ todo[1].to = "offers" /\ todo[1].offer = o /\ todo[1].line = e
                 \/ \E j \in Jobs : o \in job[j].planned /\ e = MatureEvent(job[j], o)
<1>1. CASE Next /\ UNCHANGED jobVars
  <2>1. CASE AppendEvent
    <3>1. PICK o, e : o = Head(todo).offer /\ e = Head(todo).line
      OBVIOUS
    <3>2. NextAppend("offers")
      BY <2>1 DEF AppendEvent
    <3>3. /\ Logged(o, e) /\ o \in Offers /\ e \in LogEvents /\ EventOK(1, o, e) /\ \A a : ~Before(1, a)
          /\ todo[1] = Head(todo) /\ Head(todo).to = "offers"
      BY <2>1, <3>1, <3>2, NextAppendFacts, AppendKinds DEF AppendEvent, Logged, AppendOK, JobInv
    <3>4. Fits(o, e) /\ e.type # "mature"
      BY <3>3, EventTypes DEF EventOK, Fits
    <3>5. 1 \in DOMAIN todo
      BY <3>2, HeadFacts DEF NextAppend, JobInv, IngestInv, TodoInv
    <3> QED
      BY <3>1, <3>3, <3>4, <3>5
  <2>2. CASE ~AppendEvent
    BY <1>1, <2>2 DEF Next, HandlerStep, AppendOrderRef, AppendRefundRef, AppendReturnRef,
                      AppendWebhookDelivery, ReceiveOrder, ReceiveRefund, ReceiveReturn, Receive, Crash, files
  <2> QED
    BY <2>1, <2>2
<1>2. CASE \E o \in Offers : WindowCloses(o)
  BY <1>2 DEF WindowCloses, ingestVars, files
<1>3. CASE \E j \in Jobs : JobStep(j) \/ StopJob(j)
  <2>1. PICK j \in Jobs : JobStep(j) \/ StopJob(j)
    BY <1>3
  <2>2. CASE AppendMature(j)
    BY <2>2, AppendMatureFacts, MatureEventOK
  <2>3. CASE ~AppendMature(j)
    <3>1. UNCHANGED files
      BY <2>1, <2>3, JobSteps DEF JobStep
    <3> QED
      BY <3>1 DEF files
  <2> QED
    BY <2>2, <2>3
<1> QED
  BY <1>1, <1>2, <1>3 DEF JobNext

\* The refund a handler is about to record.
LEMMA OwnRefundEvent ==
  ASSUME NEW m \in RefundMessages, ReceiveRefund(m), NEW k \in DOMAIN todo', todo'[k].to = "offers"
  PROVE  todo'[k].offer = OrderOffer[RefundOrder[m.refund]]
<1>1. PICK outcome : outcome = RefundOutcome(m)
  OBVIOUS
<1>2. PICK o : o = LineOffer(RefundOrder[m.refund], outcome)
  OBVIOUS
<1>3. PICK e : e = RefundRecorded(o, m)
  OBVIOUS
<1> DEFINE c1 == outcome # "duplicate_refund"
           c2 == outcome = "processed"
           a1 == RefundLine(m.refund, [offer |-> o, status |-> outcome])
           s == When(c1, a1) \o When(c2, Event(o, e)) \o <<Delivery(m)>>
<1>4. todo' = s
  BY <1>1, <1>2, <1>3 DEF ReceiveRefund, Receive, RefundAppends
<1>5. a1.to # "offers" /\ c1 \in BOOLEAN /\ c2 \in BOOLEAN
  BY DEF RefundLine
<1> HIDE DEF c1, c2, a1
<1>6. OneEvent(s, c2, o, e)
  BY <1>5, HandlerEvent, Zenon
<1> HIDE DEF s
<1>7. c2 /\ todo'[k].offer = o
  BY <1>4, <1>6 DEF OneEvent
<1> QED
  BY <1>2, <1>7 DEF c2, LineOffer

LEMMA TodoNext ==
  ASSUME BodiesTruthful, JobInv, TodoTrue, JobNext
  PROVE  TodoTrue'
<1>1. CASE todo' = todo
  BY <1>1 DEF TodoTrue
<1>2. CASE \E m \in OrderMessages : ReceiveOrder(m)
  BY <1>2, OrderEvents DEF TodoTrue
<1>3. CASE \E m \in RefundMessages : ReceiveRefund(m)
  <2>1. PICK m \in RefundMessages : ReceiveRefund(m)
    BY <1>3
  <2>2. ASSUME NEW k \in DOMAIN todo', todo'[k].to = "offers"
        PROVE  /\ todo'[k].line.amount = RefundAmount[todo'[k].line.refund]
               /\ OrderOffer[RefundOrder[todo'[k].line.refund]] = todo'[k].offer
    <3>1. AmountKnown(m) /\ todo'[k].line = RefundRecorded(todo'[k].offer, m)
      BY <2>1, <2>2, RefundEventOf
    <3>2. \A o : RefundRecorded(o, m).amount = RefundWebhook[m].amount.amount /\ RefundRecorded(o, m).refund = m.refund
      BY DEF RefundRecorded
    <3>3. todo'[k].offer = OrderOffer[RefundOrder[m.refund]]
      BY <2>1, <2>2, OwnRefundEvent
    <3> QED
      BY <3>1, <3>2, <3>3 DEF BodiesTruthful, AmountKnown
  <2> QED
    BY <2>2 DEF TodoTrue
<1>4. CASE \E m \in ReturnMessages : ReceiveReturn(m)
  <2>1. PICK m \in ReturnMessages : ReceiveReturn(m)
    BY <1>4
  <2>2. ASSUME NEW k \in DOMAIN todo', todo'[k].to = "offers"
        PROVE  todo'[k].line.type # "refund_recorded"
    <3>1. \A o : ReturnRecorded(o, m).type = "return_status_recorded"
      BY DEF ReturnRecorded
    <3> QED
      BY <2>1, <2>2, <3>1, ReturnEventOf
  <2> QED
    BY <2>2 DEF TodoTrue
<1>5. CASE HandlerStep
  <2>1. PICK file : NextAppend(file)
    BY <1>5 DEF HandlerStep, AppendEvent, AppendOrderRef, AppendRefundRef, AppendReturnRef,
                AppendWebhookDelivery
  <2>2. \A k \in DOMAIN todo' : k + 1 \in DOMAIN todo /\ todo'[k] = todo[k + 1]
    BY <2>1, RestWasThere DEF JobInv
  <2> QED
    BY <2>2 DEF TodoTrue
<1>6. CASE Crash
  <2>1. todo' = <<>>
    BY <1>6 DEF Crash
  <2>2. DOMAIN todo' = {}
    BY <2>1
  <2> QED
    BY <2>2 DEF TodoTrue
<1>7. CASE \E o \in Offers : WindowCloses(o)
  BY <1>1, <1>7 DEF WindowCloses, ingestVars
<1>8. CASE \E j \in Jobs : JobStep(j) \/ StopJob(j)
  <2>1. PICK j \in Jobs : JobStep(j) \/ StopJob(j)
    BY <1>8
  <2>2. todo' = todo
    BY <2>1, JobSteps DEF JobStep, AppendMature
  <2> QED
    BY <1>1, <2>2
<1> QED
  BY <1>2, <1>3, <1>4, <1>5, <1>6, <1>7, <1>8 DEF JobNext, Next

LEMMA LoggedNext ==
  ASSUME JobInv, TodoTrue, RefundsSummed, OwnLogged, JobNext
  PROVE  RefundsSummed' /\ OwnLogged'
<1>1. CASE log' = log /\ snap' = snap
  BY <1>1, SummedStays DEF OwnLogged, RefundsOf, RefundEvent
<1>2. ASSUME NEW o \in Offers, NEW e \in LogEvents, Logged(o, e), Fits(o, e),
             \/ /\ e.type # "mature" /\ 1 \in DOMAIN todo
                /\ todo[1].to = "offers" /\ todo[1].offer = o /\ todo[1].line = e
             \/ \E j \in Jobs : o \in job[j].planned /\ e = MatureEvent(job[j], o)
      PROVE  RefundsSummed' /\ OwnLogged'
  <2>1. e.type = "refund_recorded" => e.amount = RefundAmount[e.refund] /\ OrderOffer[RefundOrder[e.refund]] = o
    <3>1. CASE \E j \in Jobs : o \in job[j].planned /\ e = MatureEvent(job[j], o)
      BY <3>1 DEF MatureEvent
    <3> QED
      BY <1>2, <3>1 DEF TodoTrue
  <2>2. RefundsSummed'
    BY <1>2, <2>1, RefundsOneMore DEF JobInv, IngestInv
  <2>3. \A p \in Offers : \A r :
          RefundEvent(p, r)' <=> RefundEvent(p, r) \/ (p = o /\ e.type = "refund_recorded" /\ e.refund = r)
    BY <1>2, LogFacts DEF JobInv, IngestInv, FilesInv
  <2>4. OwnLogged'
    BY <2>1, <2>3 DEF OwnLogged, RefundsOf
  <2> QED
    BY <2>2, <2>4
<1> QED
  BY <1>1, <1>2, LogSteps

\* What is refunded never becomes less.
LEMMA RefundedGrows ==
  ASSUME JobInv, JobNext
  PROVE  \A o \in Offers : snap[o].refunded \in Nat /\ snap'[o].refunded \in Nat /\ snap[o].refunded <= snap'[o].refunded
<1>0. FilesTypeOK /\ \A p \in Offers : snap[p] \in Snapshots /\ snap[p].refunded \in Nat
  BY DEF JobInv, IngestInv, FilesInv, FilesTypeOK, Snapshots
<1>1. CASE log' = log /\ snap' = snap
  BY <1>0, <1>1
<1>2. ASSUME NEW o \in Offers, NEW e \in LogEvents, Logged(o, e), Fits(o, e), NEW p \in Offers
      PROVE  snap'[p].refunded \in Nat /\ snap[p].refunded <= snap'[p].refunded
  <2>1. CASE p # o
    <3>1. snap'[p] = snap[p]
      BY <1>0, <1>2, <2>1, LogFrame
    <3> QED
      BY <1>0, <3>1
  <2>2. CASE p = o
    <3>1. snap'[o] = Replay(snap[o], e) /\ e.type \in {"order_created", "paid", "refund_recorded", "return_status_recorded", "mature"}
      BY <1>0, <1>2, LogFrame, EventTypes
    <3>2. CASE e.type = "refund_recorded"
      <4>1. snap'[o].refunded = e.total /\ e.amount \in Nat
        BY <1>0, <1>2, <3>1, <3>2, ReplayFacts
      <4>2. e.total = snap[o].refunded + e.amount
        BY <1>2, <3>2 DEF Fits, JobInv, IngestInv, FilesInv, TotalIsPrior
      <4> QED
        BY <1>0, <2>2, <4>1, <4>2
    <3>3. CASE e.type # "refund_recorded"
      <4>1. snap'[o].refunded = snap[o].refunded
        BY <1>0, <1>2, <3>1, <3>3, ReplayFacts
      <4> QED
        BY <1>0, <2>2, <4>1
    <3> QED
      BY <3>2, <3>3
  <2> QED
    BY <2>1, <2>2
<1> QED
  BY <1>0, <1>1, <1>2, LogSteps

LEMMA EarlierNext ==
  ASSUME JobInv, JobsEarlier, JobNext
  PROVE  JobsEarlier'
<1>0. job \in [Jobs -> JobRecords] /\ \A o \in Offers : snap[o].refunded \in Nat
  BY RefundedGrows DEF JobInv, JobTypeOK
<1>1. \A j \in Jobs : \A o \in Offers : job[j].snap[o].refunded \in Nat
  BY <1>0 DEF JobRecords, Snapshots
<1>2. ASSUME NEW j \in Jobs, NEW v \in JobRecords, job' = [job EXCEPT ![j] = v],
             v.snap = snap \/ v.snap = job[j].snap \/ v = JobIdle
      PROVE  JobsEarlier'
  <2>1. \A o \in Offers : v.snap[o].refunded \in Nat /\ v.snap[o].refunded <= snap[o].refunded
    <3>1. JobIdle.snap = [o \in Offers |-> Blank] /\ Blank.refunded = 0
      BY DEF JobIdle, Blank
    <3>2. CASE v.snap = snap
      BY <1>0, <3>2
    <3>3. CASE v.snap = job[j].snap
      BY <1>1, <3>3 DEF JobsEarlier
    <3>4. CASE v = JobIdle
      BY <1>0, <3>1, <3>4
    <3> QED
      BY <1>2, <3>2, <3>3, <3>4
  <2>2. job'[j] = v /\ \A i \in Jobs \ {j} : job'[i] = job[i]
    BY <1>0, <1>2
  <2>3. \A i \in Jobs : \A o \in Offers : job'[i].snap[o].refunded \in Nat /\ job'[i].snap[o].refunded <= snap[o].refunded
    BY <1>1, <2>1, <2>2 DEF JobsEarlier
  <2> QED
    BY <2>3, RefundedGrows DEF JobsEarlier
<1>3. CASE job' = job
  BY <1>1, <1>3, RefundedGrows DEF JobsEarlier
<1>4. CASE \E j \in Jobs : JobStep(j) \/ StopJob(j)
  <2>1. PICK j \in Jobs : JobStep(j) \/ StopJob(j)
    BY <1>4
  <2>2. CASE ReadEvents(j)
    BY <1>2, <2>2, JobSteps, Views
  <2>3. CASE ReadRefundRefs(j)
    BY <1>2, <2>3, JobSteps, Views
  <2>4. CASE ReadReturnRefs(j)
    BY <1>2, <2>4, JobSteps, Views, IdleOK
  <2>5. CASE StopJob(j)
    BY <1>2, <2>5, JobSteps, IdleOK
  <2>6. CASE AppendMature(j)
    <3>1. PICK o \in job[j].planned : job' = [job EXCEPT ![j] = Rest(j, o)]
      BY <2>6, AppendMatureFacts
    <3>2. CASE Rest(j, o) = JobIdle
      BY <1>2, <3>1, <3>2, IdleOK
    <3>3. CASE Rest(j, o) # JobIdle
      BY <1>2, <3>1, <3>3, RestFacts
    <3> QED
      BY <3>2, <3>3
  <2> QED
    BY <2>1, <2>2, <2>3, <2>4, <2>5, <2>6 DEF JobStep
<1> QED
  BY <1>3, <1>4 DEF JobNext, jobVars, WindowCloses

LEMMA SnapsNext ==
  ASSUME JobInv, JobsEarlier, SnapsOK, JobNext
  PROVE  SnapsOK'
<1>0. FilesTypeOK /\ FilesInv /\ \A p \in Offers : snap[p] \in Snapshots /\ log[p] \in Seq(LogEvents)
  BY DEF JobInv, IngestInv, FilesInv, FilesTypeOK
<1>1. CASE log' = log /\ snap' = snap
  BY <1>1 DEF SnapsOK
<1>2. ASSUME NEW o \in Offers, NEW e \in LogEvents, Logged(o, e), Fits(o, e), SnapOK(Replay(snap[o], e), Append(log[o], e))
      PROVE  SnapsOK'
  <2>1. \A p \in Offers \ {o} : log'[p] = log[p] /\ snap'[p] = snap[p]
    BY <1>0, <1>2, LogFrame
  <2>2. log'[o] = Append(log[o], e) /\ snap'[o] = Replay(snap[o], e)
    BY <1>0, <1>2, LogFrame
  <2>3. \A p \in Offers : SnapOK(snap'[p], log'[p])
    BY <1>2, <2>1, <2>2 DEF SnapsOK
  <2> QED
    BY <2>3 DEF SnapsOK
<1>3. ASSUME NEW o \in Offers, NEW e \in LogEvents, Fits(o, e), e.type # "mature"
      PROVE  SnapOK(Replay(snap[o], e), Append(log[o], e))
  <2>1. PICK s : s = snap[o]
    OBVIOUS
  <2>2. s \in Snapshots /\ (s.exposure = "open" => s.pay # "none")
    BY <1>0, <2>1 DEF SnapsOK, SnapOK
  <2>3. s.pay \notin {"mature"}
    BY <2>2 DEF Snapshots, PaymentStates
  <2>4. e.type \in {"order_created", "paid", "refund_recorded", "return_status_recorded"}
    BY <1>3, EventTypes
  <2>5. e.type = "return_status_recorded" => s.pay # "none"
    BY <1>0, <1>3, <2>1 DEF Fits, FilesInv, PaidOnRecord
  <2>6. Replay(s, e).state # "mature"
    BY <2>2, <2>3, <2>4, ReplayFacts
  <2>7. Replay(s, e).exposure = "open" => Replay(s, e).pay # "none"
    <3>1. CASE e.type = "order_created"
      BY <2>2, <3>1, ReplayFacts
    <3>2. CASE e.type = "paid"
      BY <2>2, <3>2, ReplayFacts
    <3>3. CASE e.type = "refund_recorded"
      BY <2>2, <3>3, ReplayFacts
    <3>4. CASE e.type = "return_status_recorded"
      BY <2>2, <2>5, <3>4, ReplayFacts
    <3> QED
      BY <2>4, <3>1, <3>2, <3>3, <3>4
  <2> QED
    BY <2>1, <2>6, <2>7 DEF SnapOK
<1>4. ASSUME NEW o \in Offers, NEW e \in LogEvents, NEW j \in Jobs, o \in job[j].planned, e = MatureEvent(job[j], o)
      PROVE  SnapOK(Replay(snap[o], e), Append(log[o], e))
  <2>1. PICK s, old : s = snap[o] /\ old = job[j].snap[o]
    OBVIOUS
  <2>2. /\ e.type = "mature" /\ e.input = MaturityInput(old) /\ e.pay = old.pay
        /\ old.pay # "none" /\ old.exposure # "open"
    BY <1>4, <2>1, MatureEventOK DEF Eligible
  <2>3. e.input.refunded = old.refunded /\ e.input.exposure = old.exposure
    BY <2>2 DEF MaturityInput
  <2>4. old.refunded <= s.refunded
    BY <2>1 DEF JobsEarlier
  <2>5. s \in Snapshots
    BY <1>0, <2>1
  <2>6. /\ Replay(s, e).state = "mature" /\ Replay(s, e).pay = e.pay
        /\ Replay(s, e).refunded = s.refunded /\ Replay(s, e).exposure = e.input.exposure
    BY <2>2, <2>5, ReplayFacts
  <2>7. Replay(s, e).matured = {e.input}
    <3>1. e \in MaturedEvents
      BY <1>4, MatureEventOK
    <3>2. Replay(s, e) = [s EXCEPT !.state = "mature", !.pay = e.pay, !.matured = {e.input},
                                   !.exposure = e.input.exposure]
      BY <2>5, <3>1, ReplayMature
    <3> QED
      BY <2>5, <3>2 DEF Snapshots
  <2>8. Len(log[o]) + 1 \in Maturing(Append(log[o], e)) /\ Append(log[o], e)[Len(log[o]) + 1] = e
    <3>1. /\ Len(log[o]) \in Nat /\ DOMAIN Append(log[o], e) = 1..(Len(log[o]) + 1)
          /\ Append(log[o], e)[Len(log[o]) + 1] = e
      BY <1>0, OneEventMore
    <3> QED
      BY <2>2, <3>1 DEF Maturing
  <2>9. \E i \in Maturing(Append(log[o], e)) :
          /\ Replay(s, e).matured = {Append(log[o], e)[i].input}
          /\ Append(log[o], e)[i].input.refunded <= Replay(s, e).refunded
    BY <2>3, <2>4, <2>6, <2>7, <2>8
  <2> QED
    BY <2>1, <2>2, <2>3, <2>6, <2>9 DEF SnapOK
<1>5. CASE \E o \in Offers, e \in LogEvents :
             /\ Logged(o, e) /\ Fits(o, e)
             /\ e.type # "mature" \/ \E j \in Jobs : o \in job[j].planned /\ e = MatureEvent(job[j], o)
  BY <1>2, <1>3, <1>4, <1>5
<1> QED
  BY <1>1, <1>5, LogSteps

LEMMA LogsNext ==
  ASSUME BodiesTruthful, \A i, j \in Jobs : i = j, JobInv, LogsInv, JobNext
  PROVE  LogsInv'
<1>1. InputsKnown' /\ \A o \in Offers : InputsDiffer(log'[o])
  BY OnceNext DEF LogsInv
<1>2. TodoTrue'
  BY TodoNext DEF LogsInv
<1>3. RefundsSummed' /\ OwnLogged'
  BY LoggedNext DEF LogsInv
<1>4. JobsEarlier' /\ SnapsOK'
  BY EarlierNext, SnapsNext DEF LogsInv
<1> QED
  BY <1>1, <1>2, <1>3, <1>4 DEF LogsInv

LEMMA LogsStutter ==
  ASSUME LogsInv, UNCHANGED vars
  PROVE  LogsInv'
<1>1. log' = log /\ snap' = snap /\ todo' = todo /\ job' = job
  BY DEF vars, ingestVars, jobVars, files
<1>2. InputsKnown' /\ TodoTrue' /\ JobsEarlier' /\ SnapsOK'
  BY <1>1 DEF LogsInv, InputsKnown, TodoTrue, JobsEarlier, SnapsOK
<1>3. RefundsSummed' /\ OwnLogged'
  BY <1>1, SummedStays DEF LogsInv, OwnLogged, RefundsOf, RefundEvent
<1> QED
  BY <1>1, <1>2, <1>3 DEF LogsInv

LEMMA LogsInit ==
  ASSUME JobInit
  PROVE  LogsInv
<1>1. \A o \in Offers : log[o] = <<>> /\ snap[o] \in {Checkout, Forgotten}
  BY DEF JobInit, Init
<1>2. /\ Checkout.refunded = 0 /\ Forgotten.refunded = 0
      /\ Checkout.state # "mature" /\ Forgotten.state # "mature"
      /\ Checkout.exposure # "open" /\ Forgotten.exposure # "open"
  BY DEF Checkout, Forgotten, Blank
<1>3. \A o \in Offers : RefundsOf(o) = {} /\ snap[o].refunded = 0
  BY <1>1, <1>2 DEF RefundsOf, RefundEvent
<1>4. RefundsSummed
  BY <1>3, SumOfNone, FS_EmptySet DEF RefundsSummed
<1>5. TodoTrue
  BY DEF JobInit, Init, TodoTrue
<1>6. OwnLogged
  BY <1>3 DEF OwnLogged
<1>7. \A j \in Jobs : job[j] = JobIdle
  BY DEF JobInit
<1>8. InputsKnown
  BY <1>7, IdleOK DEF InputsKnown
<1>9. \A o \in Offers : InputsDiffer(log[o])
  BY <1>1 DEF InputsDiffer
<1>10. JobsEarlier
  <2>1. \A o \in Offers : JobIdle.snap[o].refunded = 0
    BY DEF JobIdle, Blank
  <2> QED
    BY <1>3, <1>7, <2>1 DEF JobsEarlier
<1>11. SnapsOK
  BY <1>1, <1>2 DEF SnapsOK, SnapOK
<1> QED
  BY <1>4, <1>5, <1>6, <1>8, <1>9, <1>10, <1>11 DEF LogsInv

\* Every offer of the log is as the report needs it.
LEMMA OffersOK ==
  ASSUME JobInv, LogsInv, ReplayInv, NEW o \in Offers
  PROVE  OfferOK(o, snap[o], log[o])
<1>1. log[o] \in Seq(LogEvents) /\ snap[o] \in Snapshots
  BY DEF JobInv, IngestInv, FilesInv, FilesTypeOK
<1>2. LoggedRefunds(log[o]) = RefundsOf(o)
  BY DEF LoggedRefunds, RefundsOf, RefundEvent
<1>3. RefundsOK(o, snap[o], log[o])
  BY <1>2 DEF RefundsOK, LogsInv, RefundsSummed, OwnLogged
<1>4. SnapOK(snap[o], log[o]) /\ InputsDiffer(log[o])
  BY DEF LogsInv, SnapsOK
<1>5. ReturnsOK(snap[o], log[o])
  <2> SUFFICES ASSUME snap[o].state = "mature", NEW i \in OpenReturns(log[o])
               PROVE  MaturedUnseen(log[o], i)
    BY DEF ReturnsOK
  <2>1. Describes(log[o]) /\ log[o] # <<>>
    BY DEF ReplayInv, OpenReturns
  <2>2. snap[o] = StateAfter(log[o])
    BY <2>1 DEF ReplayInv, IsReplay
  <2>3. StateAfter(log[o]).exposure # "open"
    BY <1>4, <2>2 DEF SnapOK
  <2> QED
    BY <1>1, <2>1, <2>3, OpenReturnStays
<1> QED
  BY <1>1, <1>3, <1>4, <1>5 DEF OfferOK

----------------------------------------------------------------------------
(***************************************************************************)
(* The report beside them.  What it has read of the log stays as it was;   *)
(* the references it reads after that can only be more than those that the *)
(* refunds in the log had.                                                 *)
(***************************************************************************)
Shape(r) == r = [step |-> r.step, log |-> r.log, snap |-> r.snap, refundRefs |-> r.refundRefs, figures |-> r.figures]

\* A processed line of the refund is there.
Referenced(refs, r) == \E i \in DOMAIN refs[r] : refs[r][i].status = "processed"
ReadReferenced(refs) == \A o \in Offers : \A r \in LoggedRefunds(report.log[o]) : Referenced(refs, r)

ReportInv ==
  /\ Shape(report) /\ report.step \in {"idle", "events", "refunds", "written"}
  /\ report.step # "idle" => \A o \in Offers : OfferOK(o, report.snap[o], report.log[o])
  /\ report.step = "events" => ReadReferenced(refundRefs)
  /\ report.step = "refunds" => ReadReferenced(report.refundRefs)
  /\ ReportReconciles

\* Lines are only added to the references.
LEMMA ReferencesStay ==
  ASSUME JobInv, JobNext, NEW r \in Refunds, Referenced(refundRefs, r)
  PROVE  Referenced(refundRefs', r)
<1>1. CASE refundRefs' = refundRefs
  BY <1>1
<1>2. CASE AppendRefundRef
  <2>1. PICK p, line : p = Head(todo).ref /\ line = Head(todo).line
    OBVIOUS
  <2>2. NextAppend("refund_refs")
    BY <1>2 DEF AppendRefundRef
  <2>3. p \in Refunds /\ line \in RefundLines
    BY <2>1, <2>2, NextAppendFacts, AppendKinds DEF JobInv
  <2>4. refundRefs' = [refundRefs EXCEPT ![p] = Append(@, line)] /\ refundRefs \in [Refunds -> Seq(RefundLines)]
    BY <1>2, <2>1 DEF AppendRefundRef, JobInv, IngestInv, FilesInv, FilesTypeOK
  <2>5. \A i \in DOMAIN refundRefs[r] : i \in DOMAIN refundRefs'[r] /\ refundRefs'[r][i] = refundRefs[r][i]
    <3>1. CASE p # r
      BY <2>3, <2>4, <3>1
    <3>2. CASE p = r
      <4>1. refundRefs'[r] = Append(refundRefs[r], line) /\ refundRefs[r] \in Seq(RefundLines)
        BY <2>3, <2>4, <3>2
      <4> QED
        BY <2>3, <4>1
    <3> QED
      BY <3>1, <3>2
  <2> QED
    BY <2>5 DEF Referenced
<1>3. CASE Next /\ ~AppendRefundRef
  <2>1. refundRefs' = refundRefs
    BY <1>3 DEF Next, HandlerStep, AppendEvent, AppendOrderRef, AppendReturnRef, AppendWebhookDelivery,
                ReceiveOrder, ReceiveRefund, ReceiveReturn, Receive, Crash, files
  <2> QED
    BY <1>1, <2>1
<1>4. CASE \E o \in Offers : WindowCloses(o)
  BY <1>1, <1>4 DEF WindowCloses, ingestVars, files
<1>5. CASE \E j \in Jobs : JobStep(j) \/ StopJob(j)
  <2>1. PICK j \in Jobs : JobStep(j) \/ StopJob(j)
    BY <1>5
  <2>2. refundRefs' = refundRefs
    BY <2>1, JobSteps DEF JobStep, AppendMature, files
  <2> QED
    BY <1>1, <2>2
<1> QED
  BY <1>2, <1>3, <1>4, <1>5 DEF JobNext

\* The refunds in the log are referenced: the reference is written first.
LEMMA LoggedReferenced ==
  ASSUME JobInv, NEW o \in Offers, NEW r \in LoggedRefunds(log[o])
  PROVE  Referenced(refundRefs, r)
<1>1. r \in Refunds /\ RefundEvent(o, r)
  BY DEF LoggedRefunds, RefundEvent
<1>2. ProcessedBefore(o, r)
  BY <1>1 DEF JobInv, IngestInv, FilesInv, RefundsOnRecord
<1> QED
  BY <1>2 DEF ProcessedBefore, Referenced

\* The figures that are compared.
LEMMA Figures ==
  ASSUME NEW read, NEW returns, NEW m, m = ReportModel(read, returns)
  PROVE  /\ m.paid = Cardinality(PaidOffers(read)) /\ m.current_mature = Cardinality(MatureOffers(read))
         /\ m.paid_refunds = Total([o \in PaidOffers(read) |-> read.snap[o].refunded], PaidOffers(read))
         /\ m.mature_refunds = Total([o \in MatureOffers(read) |-> MatureInput(read, o).refunded], MatureOffers(read))
         /\ m.stale_mature = Total([o \in Offers |-> Cardinality(StaleMature(read, o))], Offers)
         /\ m.processed = {r \in Refunds : Referenced(read.refundRefs, r)}
BY DEF ReportModel, Referenced

LEMMA FiguresReconcile ==
  ASSUME NEW read, \A o \in Offers : OfferOK(o, read.snap[o], read.log[o]),
         \A o \in Offers : \A r \in LoggedRefunds(read.log[o]) : Referenced(read.refundRefs, r),
         NEW returns, NEW m, m = ReportModel(read, returns)
  PROVE  /\ Total([o \in Offers |-> Cardinality(Maturing(read.log[o]))], Offers) = m.current_mature + m.stale_mature
         /\ m.paid_refunds <= Total(RefundAmount, m.processed)
         /\ m.mature_refunds <= m.paid_refunds
<1>1. Total([o \in Offers |-> Cardinality(Maturing(read.log[o]))], Offers) = m.current_mature + m.stale_mature
  <2>1. Total([o \in Offers |-> Cardinality(Maturing(read.log[o]))], Offers)
          = Cardinality(MatureOffers(read)) + Total([o \in Offers |-> Cardinality(StaleMature(read, o))], Offers)
    BY MatureCounted
  <2>2. /\ m.current_mature = Cardinality(MatureOffers(read))
        /\ m.stale_mature = Total([o \in Offers |-> Cardinality(StaleMature(read, o))], Offers)
    BY Figures
  <2> QED
    BY <2>1, <2>2
<1>2. m.paid_refunds <= Total(RefundAmount, m.processed)
  <2>1. PICK processed : processed = {r \in Refunds : Referenced(read.refundRefs, r)}
    OBVIOUS
  <2>2. processed \in SUBSET Refunds /\ \A o \in Offers : LoggedRefunds(read.log[o]) \subseteq processed
    BY <2>1 DEF LoggedRefunds
  <2>3. Total([o \in PaidOffers(read) |-> read.snap[o].refunded], PaidOffers(read))
          <= Total(RefundAmount, processed)
    BY <2>2, RefundsCovered
  <2>4. m.processed = processed
    BY <2>1, Figures
  <2> QED
    BY <2>3, <2>4, Figures
<1>3. PICK mature, paid : mature = MatureOffers(read) /\ paid = PaidOffers(read)
  OBVIOUS
<1>4. Total([o \in mature |-> MatureInput(read, o).refunded], mature)
        <= Total([o \in paid |-> read.snap[o].refunded], paid)
  BY <1>3, MatureAmongPaid
<1>5. m.mature_refunds <= m.paid_refunds
  BY <1>3, <1>4, Figures
<1> QED
  BY <1>1, <1>2, <1>5

\* Nor does a mature offer of a report hide an open return that a job has seen.
LEMMA ReturnsReconcile ==
  ASSUME NEW read, \A o \in Offers : OfferOK(o, read.snap[o], read.log[o])
  PROVE  \A o \in MatureOffers(read) : \A i \in OpenReturns(read.log[o]) : MaturedUnseen(read.log[o], i)
BY DEF MatureOffers, OfferOK, ReturnsOK

LEMMA ReportSteps ==
  ASSUME Shape(report)
  PROVE  /\ ReportReadsEvents =>
              /\ Shape(report') /\ report'.step = "events" /\ report'.log = log /\ report'.snap = snap
              /\ UNCHANGED vars
         /\ ReportReadsRefundRefs =>
              /\ Shape(report') /\ report.step = "events" /\ report'.step = "refunds" /\ report'.log = report.log
              /\ report'.snap = report.snap /\ report'.refundRefs = refundRefs /\ UNCHANGED vars
         /\ WriteReport =>
              /\ Shape(report') /\ report.step = "refunds" /\ report'.step = "written" /\ report'.log = report.log
              /\ report'.snap = report.snap /\ report'.figures = ReportModel(report, returnRefs)
              /\ UNCHANGED vars
<1>1. PICK a, b, c, d, f : report = [step |-> a, log |-> b, snap |-> c, refundRefs |-> d, figures |-> f]
  BY DEF Shape
<1>2. PICK m : m = ReportModel(report, returnRefs)
  OBVIOUS
<1>3. ReportReadsEvents =>
        report' = [step |-> "events", log |-> log, snap |-> snap, refundRefs |-> d, figures |-> f] /\ UNCHANGED vars
  BY <1>1 DEF ReportReadsEvents
<1>4. ReportReadsRefundRefs =>
        /\ report' = [step |-> "refunds", log |-> b, snap |-> c, refundRefs |-> refundRefs, figures |-> f]
        /\ a = "events" /\ UNCHANGED vars
  BY <1>1 DEF ReportReadsRefundRefs
<1>5. WriteReport =>
        /\ report' = [step |-> "written", log |-> b, snap |-> c, refundRefs |-> d, figures |-> m]
        /\ a = "refunds" /\ UNCHANGED vars
  BY <1>1, <1>2 DEF WriteReport
<1> QED
  BY <1>1, <1>2, <1>3, <1>4, <1>5 DEF Shape

\* The property, of any report.
Reconciled(r) == r.step = "written" =>
  /\ Total([o \in Offers |-> Cardinality(Maturing(r.log[o]))], Offers) = r.figures.current_mature + r.figures.stale_mature
  /\ r.figures.paid_refunds <= Total(RefundAmount, r.figures.processed)
  /\ r.figures.mature_refunds <= r.figures.paid_refunds
  /\ \A o \in MatureOffers(r) : \A i \in OpenReturns(r.log[o]) : MaturedUnseen(r.log[o], i)

LEMMA ReconciledIs ==
  /\ ReportReconciles => Reconciled(report)
  /\ Reconciled(report') => ReportReconciles'
<1>1. ReportReconciles => Reconciled(report)
  BY DEF ReportReconciles, EachMatureCounted, RefundsAreReferenced, MarginIsCurrent, Written, MatureEvents,
         Reconciled, Maturing
<1>2. Reconciled(report') => ReportReconciles'
  BY DEF ReportReconciles, EachMatureCounted, RefundsAreReferenced, MarginIsCurrent, Written, MatureEvents,
         Reconciled, Maturing
<1> QED
  BY <1>1, <1>2

LEMMA ReportStays ==
  ASSUME JobInv, JobInv', ReportInv, report' = report, JobNext \/ UNCHANGED vars
  PROVE  ReportInv'
<1>1. \A r \in Refunds : Referenced(refundRefs, r) => Referenced(refundRefs', r)
  <2>1. CASE JobNext
    BY <2>1, ReferencesStay
  <2>2. CASE UNCHANGED vars
    BY <2>2 DEF vars, ingestVars, files
  <2> QED
    BY <2>1, <2>2
<1>2. report.step = "events" => ReadReferenced(refundRefs)'
  BY <1>1 DEF ReportInv, ReadReferenced, LoggedRefunds
<1>3. report.step = "refunds" => ReadReferenced(report.refundRefs)'
  BY DEF ReportInv, ReadReferenced
<1>4. ReportReconciles'
  <2>1. Reconciled(report) /\ Reconciled(report')
    BY ReconciledIs DEF ReportInv
  <2> QED
    BY <2>1, ReconciledIs
<1> QED
  BY <1>2, <1>3, <1>4 DEF ReportInv

LEMMA ReportReads ==
  ASSUME JobInv, LogsInv, ReplayInv, ReportInv, ReportReadsEvents \/ ReportReadsRefundRefs \/ WriteReport
  PROVE  ReportInv'
<1>1. CASE ReportReadsEvents
  <2>1. /\ Shape(report)' /\ report'.step = "events" /\ report'.log = log /\ report'.snap = snap
        /\ refundRefs' = refundRefs
    BY <1>1, ReportSteps DEF ReportInv, Shape, vars, ingestVars, files
  <2>2. \A o \in Offers : OfferOK(o, snap[o], log[o])
    BY OffersOK
  <2>3. \A o \in Offers : \A r \in LoggedRefunds(log[o]) : Referenced(refundRefs, r)
    BY LoggedReferenced
  <2>4. ReadReferenced(refundRefs)'
    BY <2>1, <2>3 DEF ReadReferenced
  <2>5. ReportReconciles'
    BY <2>1, ReconciledIs DEF Reconciled
  <2>6. \A o \in Offers : OfferOK(o, report'.snap[o], report'.log[o])
    BY <2>1, <2>2
  <2> QED
    BY <2>1, <2>4, <2>5, <2>6 DEF ReportInv
<1>2. CASE ReportReadsRefundRefs
  <2>1. /\ Shape(report)' /\ report.step = "events" /\ report'.step = "refunds" /\ report'.log = report.log
        /\ report'.snap = report.snap /\ report'.refundRefs = refundRefs
    BY <1>2, ReportSteps DEF ReportInv, Shape
  <2>2. ReadReferenced(report.refundRefs)'
    BY <2>1 DEF ReportInv, ReadReferenced
  <2>3. ReportReconciles'
    BY <2>1, ReconciledIs DEF Reconciled
  <2>4. \A o \in Offers : OfferOK(o, report'.snap[o], report'.log[o])
    BY <2>1 DEF ReportInv
  <2> QED
    BY <2>1, <2>2, <2>3, <2>4 DEF ReportInv
<1>3. CASE WriteReport
  <2>1. /\ Shape(report)' /\ report.step = "refunds" /\ report'.step = "written" /\ report'.log = report.log
        /\ report'.snap = report.snap /\ report'.figures = ReportModel(report, returnRefs)
    BY <1>3, ReportSteps DEF ReportInv, Shape
  <2>2. PICK read, m, returns : read = report /\ m = ReportModel(read, returns) /\ m = report'.figures
    BY <2>1
  <2>3. /\ \A o \in Offers : OfferOK(o, read.snap[o], read.log[o])
        /\ \A o \in Offers : \A r \in LoggedRefunds(read.log[o]) : Referenced(read.refundRefs, r)
    BY <2>1, <2>2 DEF ReportInv, ReadReferenced
  <2>4. /\ Total([o \in Offers |-> Cardinality(Maturing(read.log[o]))], Offers) = m.current_mature + m.stale_mature
        /\ m.paid_refunds <= Total(RefundAmount, m.processed)
        /\ m.mature_refunds <= m.paid_refunds
    BY <2>2, <2>3, FiguresReconcile
  <2>5. report'.log = read.log /\ report'.snap = read.snap
    BY <2>1, <2>2
  <2>8. \A o \in MatureOffers(report') : \A i \in OpenReturns(report'.log[o]) : MaturedUnseen(report'.log[o], i)
    <3>1. MatureOffers(report') = MatureOffers(read)
      BY <2>5 DEF MatureOffers
    <3> QED
      BY <2>3, <2>5, <3>1, ReturnsReconcile
  <2>6. Reconciled(report')
    BY <2>2, <2>4, <2>5, <2>8 DEF Reconciled
  <2>7. \A o \in Offers : OfferOK(o, report'.snap[o], report'.log[o])
    BY <2>1 DEF ReportInv
  <2> QED
    BY <2>1, <2>6, <2>7, ReconciledIs DEF ReportInv
<1> QED
  BY <1>1, <1>2, <1>3

----------------------------------------------------------------------------
\* Files, handlers, jobs and the report.
AllInv == JobInv /\ LogsInv /\ ReplayInv /\ ReportInv

\* The inductive invariant of handlers, job and report: what the report has read fits together, and
\* every refund it has read of has, or had when it read on, a processed reference.
THEOREM ReportInvariant ==
  ASSUME BodiesTruthful, \A i, j \in Jobs : i = j
  PROVE  ReportSpec => []AllInv
<1>1. ReportInit => AllInv
  <2> SUFFICES ASSUME ReportInit PROVE AllInv
    OBVIOUS
  <2>1. JobInit
    BY DEF ReportInit
  <2>2. LogsInv
    BY <2>1, LogsInit
  <2>3. report.step = "idle" /\ Shape(report)
    BY DEF ReportInit, Unread, Shape
  <2>4. ReportReconciles
    BY <2>3 DEF ReportReconciles, EachMatureCounted, RefundsAreReferenced, MarginIsCurrent, Written
  <2>5. JobInv
    <3>1. IngestInv
      BY <2>1, IngestInit DEF JobInit
    <3>2. \A j \in Jobs : job[j] = JobIdle
      BY <2>1 DEF JobInit
    <3>3. JobTypeOK /\ PaidWhenRead /\ PlannedEligible
      BY <2>1, <3>2, IdleOK DEF JobInit, JobTypeOK, PaidWhenRead, PlannedEligible
    <3> QED
      BY <3>1, <3>3 DEF JobInv
  <2> QED
    BY <2>1, <2>2, <2>3, <2>4, <2>5, ReplayInit DEF ReportInv, AllInv
<1>2. AllInv /\ [ReportNext]_reportVars => AllInv'
  <2> SUFFICES ASSUME AllInv, [ReportNext]_reportVars PROVE AllInv'
    OBVIOUS
  <2>0. JobInv /\ LogsInv /\ ReplayInv /\ ReportInv
    BY DEF AllInv
  <2>1. CASE JobNext /\ UNCHANGED report
    <3>1. JobInv' /\ LogsInv' /\ ReplayInv'
      BY <2>0, <2>1, JobNextOK, LogsNext, ReplayNext
    <3> QED
      BY <2>0, <2>1, <3>1, ReportStays DEF AllInv
  <2>2. CASE UNCHANGED reportVars
    <3>1. UNCHANGED vars /\ report' = report
      BY <2>2 DEF reportVars
    <3>2. JobInv' /\ LogsInv' /\ ReplayInv'
      BY <2>0, <3>1, JobStutter, LogsStutter, ReplayStutter
    <3> QED
      BY <2>0, <3>1, <3>2, ReportStays DEF AllInv
  <2>3. CASE ReportReadsEvents \/ ReportReadsRefundRefs \/ WriteReport
    <3>1. UNCHANGED vars
      BY <2>3 DEF ReportReadsEvents, ReportReadsRefundRefs, WriteReport
    <3>2. JobInv' /\ LogsInv' /\ ReplayInv'
      BY <2>0, <3>1, JobStutter, LogsStutter, ReplayStutter
    <3>3. ReportInv'
      BY <2>0, <2>3, ReportReads
    <3> QED
      BY <3>2, <3>3 DEF AllInv
  <2> QED
    BY <2>1, <2>2, <2>3 DEF ReportNext
<1> QED
  BY <1>1, <1>2, PTL DEF ReportSpec

\* What one report states of a shop agrees with itself, whatever handlers and the job write while it
\* reads: each mature event is counted once, as current or as left out; the refunds in the totals are
\* among the processed references it counts; the margin counts no refund that is not among those of the
\* paid transactions, and has a transaction with an open return only when the return was recorded
\* after a job's read and before that job's append (buildMerchantReport and reportModel of
\* counterpilot-report.mjs).  One maturity job runs at a time, and the bodies about refunds state
\* their amounts.
THEOREM ReportsReconcile ==
  ASSUME BodiesTruthful, \A i, j \in Jobs : i = j
  PROVE  ReportSpec => []ReportReconciles
<1>1. AllInv => ReportReconciles
  BY DEF AllInv, ReportInv
<1> QED
  BY <1>1, ReportInvariant, PTL
=============================================================================
