--------------------------- MODULE MerchantReport ---------------------------
(***************************************************************************)
(* The merchant report (counterpilot-report.mjs): a third process on the   *)
(* files of the offer server.  It reads offers.jsonl, refund_refs.jsonl    *)
(* and return_refs.jsonl one after the other, while the server's handlers  *)
(* and the maturity job go on writing, and puts figures of all it read     *)
(* side by side.                                                           *)
(*                                                                         *)
(* The log holds the events after the checkout (WebhookIngest): the counts *)
(* of the negotiation are left out, and so is the text of the report.      *)
(***************************************************************************)
EXTENDS MaturityJob, Integers

CONSTANTS MarginConfig, \* the costs of the margin configuration
          Products,     \* what is sold
          ProductOf     \* the product of an offer

MoneyFields ==
  {"default_product_cost_minor", "default_shipping_cost_minor", "default_platform_fee_minor",
   "default_return_loss_minor"}

\* What loadMarginConfig returns: it throws at a file that is missing, and at a cost that is no
\* integer or negative.  The window and the currency are those of WindowCloses and of the shop.
MarginConfigs == [MoneyFields -> Nat]

ASSUME MarginConfigAssumption == MarginConfig \in MarginConfigs
ASSUME ProductAssumption == ProductOf \in [Offers -> Products]

\* A file has finitely many lines.
ASSUME FiniteAssumption == IsFiniteSet(Offers) /\ IsFiniteSet(Refunds)

VARIABLE report \* the files the report has read, and its figures

reportVars == <<vars, report>>

Unread == [step |-> "idle", log |-> [o \in Offers |-> <<>>], snap |-> [o \in Offers |-> Blank],
           refundRefs |-> [r \in Refunds |-> <<>>], figures |-> {}]

ReportInit == JobInit /\ report = Unread

----------------------------------------------------------------------------
Total(amount, set) == MapThenSumSet(LAMBDA x : amount[x], set)
Costs == MapThenSumSet(LAMBDA field : MarginConfig[field], MoneyFields)

\* The snapshots that are paid (paid_at) and that are mature.
PaidOffers(read)   == {o \in Offers : read.snap[o].pay # "none"}
MatureOffers(read) == {o \in Offers : read.snap[o].state = "mature"}

\* refund_total_minor, net_revenue_minor and mature_margin_minor, as the last mature event states
\* them (createMatureEvent).
MatureInput(read, o) == The(read.snap[o].matured)
MatureMargin(read, o) == MatureInput(read, o).paid - MatureInput(read, o).refunded - Costs

\* currentMaturityStatus
CurrentMaturityStatus(s) ==
  CASE s.state = "mature" -> "current_mature"
    [] s.state # "mature" /\ s.exposure = "open" -> "maturity_blocked_open_return"
    [] s.state # "mature" /\ s.exposure # "open" /\ s.pay # "none" -> "not_currently_mature"
    [] OTHER -> "not_paid"

\* staleMatureEventCount, of one offer.
StaleMature(read, o) ==
  {i \in DOMAIN read.log[o] :
     /\ read.log[o][i].type = "mature"
     /\ read.snap[o].state = "mature" => read.log[o][i].input \notin read.snap[o].matured}

\* byStatus, for one status: every line counts, the ones that later lines settled too.
StatusCount(refs, status) ==
  MapThenSumSet(LAMBDA r : Cardinality({i \in DOMAIN refs[r] : refs[r][i].status = status}),
                DOMAIN refs)

\* reconciliation_hold_count.  The return handler writes no needs_reconciliation.
HoldCount(refunds, returns) ==
  StatusCount(refunds, "needs_reconciliation") + StatusCount(refunds, "held_before_paid")
    + StatusCount(returns, "needs_reconciliation") + StatusCount(returns, "held_before_paid")

\* productBreakdown: a row for each product with an offer.
ProductRow(read, product) ==
  LET own    == {o \in Offers : ProductOf[o] = product}
      paid   == own \cap PaidOffers(read)
      mature == own \cap MatureOffers(read)
  IN  [offers |-> Cardinality(own), paid |-> Cardinality(paid),
       current_mature |-> Cardinality(mature),
       refunds |-> Total([o \in paid |-> read.snap[o].refunded], paid),
       margin  |-> Total([o \in mature |-> MatureMargin(read, o)], mature)]

\* reportModel, from the files read and the return references.
ReportModel(read, returns) ==
  LET paid   == PaidOffers(read)
      mature == MatureOffers(read)
      Exposed(exposure) == Cardinality({o \in Offers : read.snap[o].exposure = exposure})
  IN  [order_created  |-> Cardinality({o \in Offers : HasEvent(read.log[o], "order_created")}),
       paid           |-> Cardinality(paid),
       current_mature |-> Cardinality(mature),
       refunded       |-> Cardinality({o \in Offers : read.snap[o].refunded > 0}),
       open_return    |-> Exposed("open"),
       closed_return  |-> Exposed("closed"),
       paid_refunds   |-> Total([o \in paid |-> read.snap[o].refunded], paid),
       mature_refunds |-> Total([o \in mature |-> MatureInput(read, o).refunded], mature),
       mature_margin  |-> Total([o \in mature |-> MatureMargin(read, o)], mature),
       stale_mature   |-> Total([o \in Offers |-> Cardinality(StaleMature(read, o))], Offers),
       products       |-> [p \in Products |-> ProductRow(read, p)],
       ledger         |-> [o \in Offers |-> CurrentMaturityStatus(read.snap[o])],
       processed      |-> {r \in Refunds : \E i \in DOMAIN read.refundRefs[r] :
                                             read.refundRefs[r][i].status = "processed"},
       holds          |-> HoldCount(read.refundRefs, returns)]

----------------------------------------------------------------------------
\* buildMerchantReport reads offers.jsonl.
ReportReadsEvents ==
  /\ report.step = "idle"
  /\ report' = [report EXCEPT !.step = "events", !.log = log, !.snap = snap]
  /\ UNCHANGED vars

ReportReadsRefundRefs ==
  /\ report.step = "events"
  /\ report' = [report EXCEPT !.step = "refunds", !.refundRefs = refundRefs]
  /\ UNCHANGED vars

\* return_refs.jsonl; runReportJob writes the report.
WriteReport ==
  /\ report.step = "refunds"
  /\ report' = [report EXCEPT !.step = "written", !.figures = ReportModel(report, returnRefs)]
  /\ UNCHANGED vars

\* What happens after the report is written is nothing to it.
ReportNext ==
  /\ report.step # "written"
  /\ \/ JobNext /\ UNCHANGED report
     \/ ReportReadsEvents
     \/ ReportReadsRefundRefs
     \/ WriteReport

ReportSpec == ReportInit /\ [][ReportNext]_reportVars

----------------------------------------------------------------------------
Written == report.step = "written"
MatureEvents(o) == {i \in DOMAIN report.log[o] : report.log[o][i].type = "mature"}

\* The mature events of the log are the current ones and the stale ones the report says it
\* leaves out, each once, although the job and the handlers write while it reads.
EachMatureCounted ==
  Written => Total([o \in Offers |-> Cardinality(MatureEvents(o))], Offers)
               = report.figures.current_mature + report.figures.stale_mature

\* The refunds in the totals are among the processed references that the same report counts:
\* the handlers write the reference before the event, and the report reads them the other way.
RefundsAreReferenced ==
  Written => report.figures.paid_refunds <= Total(RefundAmount, report.figures.processed)

\* The place of the last return event, when it says that a return is open.
OpenReturns(events) ==
  LET returns == {i \in DOMAIN events : events[i].type = "return_status_recorded"}
  IN  {i \in returns : events[i].exposure = "open" /\ \A k \in returns : k <= i}

\* A mature event after place i of the log was made from a read before it.
MaturedUnseen(events, i) ==
  \E m \in DOMAIN events : \E k \in 1..(i - 1) :
    LET s == FoldLeft(Replay, Checkout, SubSeq(events, 1, k))
    IN  /\ m > i /\ events[m].type = "mature"
        /\ events[m].input = MaturityInput(s) /\ events[m].pay = s.pay /\ s.exposure # "open"

\* The margin counts no refund that is not among those of the paid transactions.  A transaction
\* whose last return event is open is in it only when that event was recorded between the job's
\* read and its append: no job matures what it has seen open, and an open return that any job has
\* seen keeps the transaction out of the margin.
MarginIsCurrent ==
  Written =>
    /\ report.figures.mature_refunds <= report.figures.paid_refunds
    /\ \A o \in MatureOffers(report) : \A i \in OpenReturns(report.log[o]) :
         MaturedUnseen(report.log[o], i)

ReportReconciles == EachMatureCounted /\ RefundsAreReferenced /\ MarginIsCurrent
=============================================================================
