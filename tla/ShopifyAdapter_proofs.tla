----------------------- MODULE ShopifyAdapter_proofs ------------------------
(***************************************************************************)
(* What holds of the state machine of a transaction and of the adapter     *)
(* over it, for any histories, callers, draft orders and faults.           *)
(*                                                                         *)
(* A replay is a recursive function on the places of a history: that there *)
(* is one, what it applies and what it refuses follows by induction on the *)
(* place.  Then the states a webhook may still lead to (Reach), what a     *)
(* ledger that only webhooks overtook holds, and what the adapter puts on  *)
(* record.                                                                 *)
(***************************************************************************)
EXTENDS ShopifyAdapter, FoldFacts

\* The states a transition leads from.
StartStates == States \cup {"none"}

\* Which transitions there are, written out.
LEMMA InTransitions ==
  ASSUME NEW s, NEW t
  PROVE  <<s, t>> \in Transitions <=>
           \/ s = "none" /\ t = "offer_submitted"
           \/ s \in OfferOpen /\ t \in {"offer_expired", "cancelled"}
           \/ s \in {"offer_submitted", "merchant_countered"} /\ t = "buyer_countered"
           \/ s \in {"offer_submitted", "buyer_countered"} /\ t \in MerchantDecisions
           \/ s = "merchant_countered" /\ t \in {"buyer_accepted", "buyer_declined"}
           \/ s \in {"merchant_accepted", "buyer_accepted"} /\ t \in {"checkout_created", "cancelled"}
           \/ s = "checkout_created" /\ t \in {"checkout_expired", "order_created"}
           \/ s \in {"checkout_created", "order_created"} /\ t \in {"payment_pending", "cancelled"}
           \/ s \in {"order_created", "payment_pending"} /\ t = "paid"
           \/ s = "payment_pending" /\ t = "cancelled"
           \/ s = "paid" /\ t \in Refunds
           \/ s = "partially_refunded" /\ t = "fully_refunded"
           \/ s \in {"paid", "return_closed"} \cup Refunds /\ t \in {"return_opened", "mature"}
           \/ s = "return_opened" /\ t \in {"return_received", "return_closed"}
           \/ s = "return_received" /\ t = "return_closed"
  BY DEF Transitions

\* Which states there are, written out.
LEMMA StatesAre ==
  States = {"offer_submitted", "merchant_countered", "buyer_countered", "offer_expired", "cancelled",
            "merchant_accepted", "merchant_declined", "buyer_accepted", "buyer_declined",
            "checkout_created", "checkout_expired", "order_created", "payment_pending", "paid",
            "partially_refunded", "fully_refunded", "return_opened", "return_received",
            "return_closed", "mature"}
<1> DEFINE L == {"offer_submitted", "merchant_countered", "buyer_countered", "offer_expired", "cancelled",
            "merchant_accepted", "merchant_declined", "buyer_accepted", "buyer_declined",
            "checkout_created", "checkout_expired", "order_created", "payment_pending", "paid",
            "partially_refunded", "fully_refunded", "return_opened", "return_received",
            "return_closed", "mature"}
<1>1. \A s, t : <<s, t>> \in Transitions => t \in L
  BY InTransitions DEF OfferOpen, MerchantDecisions, Refunds
<1>2. \A p \in Transitions : p = <<p[1], p[2]>>
  BY DEF Transitions
<1>3. States \subseteq L
  BY <1>1, <1>2 DEF States
<1>4. \A s, t : <<s, t>> \in Transitions => t \in States
  BY DEF States
<1>5. /\ <<"none", "offer_submitted">> \in Transitions
      /\ <<"offer_submitted", "buyer_countered">> \in Transitions
      /\ <<"offer_submitted", "offer_expired">> \in Transitions
      /\ <<"offer_submitted", "cancelled">> \in Transitions
      /\ \A t \in MerchantDecisions : <<"offer_submitted", t>> \in Transitions
      /\ <<"merchant_countered", "buyer_accepted">> \in Transitions
      /\ <<"merchant_countered", "buyer_declined">> \in Transitions
      /\ <<"merchant_accepted", "checkout_created">> \in Transitions
      /\ <<"checkout_created", "checkout_expired">> \in Transitions
      /\ <<"checkout_created", "order_created">> \in Transitions
      /\ <<"order_created", "payment_pending">> \in Transitions
      /\ <<"order_created", "paid">> \in Transitions
      /\ <<"paid", "partially_refunded">> \in Transitions
      /\ <<"paid", "fully_refunded">> \in Transitions
      /\ <<"paid", "return_opened">> \in Transitions
      /\ <<"paid", "mature">> \in Transitions
      /\ <<"return_opened", "return_received">> \in Transitions
      /\ <<"return_opened", "return_closed">> \in Transitions
  BY InTransitions DEF OfferOpen, MerchantDecisions, Refunds
<1>6. L \subseteq States
  BY <1>4, <1>5 DEF MerchantDecisions
<1> QED
  BY <1>3, <1>6

\* What may follow a state is what there is a transition to.
LEMMA ValidIs ==
  /\ Valid = [s \in StartStates |-> {t \in States : <<s, t>> \in Transitions}]
  /\ \A s \in StartStates : Valid[s] \subseteq States
  /\ \A s \in StartStates : \A t : t \in Valid[s] <=> <<s, t>> \in Transitions
<1>1. \A s, t : <<s, t>> \in Transitions => t \in States
  BY DEF States
<1> QED
  BY <1>1 DEF Valid, StartStates

-----------------------------------------------------------------------------
\* Paths of twice the length.
Twice(g) == [s \in StartStates |-> g[s] \cup UNION {g[t] : t \in g[s]}]

\* Reach doubles the length of the paths five times.
LEMMA ReachIs == Reach = Twice(Twice(Twice(Twice(Twice(Valid)))))
<1> DEFINE r0 == Valid
           r1 == Twice(r0)
           r2 == Twice(r1)
           r3 == Twice(r2)
           r4 == Twice(r3)
           r5 == Twice(r4)
           Paths(f) == [n \in 0..5 |-> IF n = 0 THEN Valid ELSE Twice(f[n - 1])]
           all == [n \in 0..5 |-> IF n = 0 THEN r0 ELSE IF n = 1 THEN r1 ELSE IF n = 2 THEN r2
                                  ELSE IF n = 3 THEN r3 ELSE IF n = 4 THEN r4 ELSE r5]
           after == CHOOSE f : f = Paths(f)
<1>1. DOMAIN Valid = StartStates
  BY ValidIs
<1>2. Reach = after[5]
  BY <1>1 DEF Reach, Twice
<1>3. all = Paths(all)
  <2> HIDE DEF r0, r1, r2, r3, r4, r5
  <2>1. \A n \in 0..5 : all[n] = IF n = 0 THEN r0 ELSE Twice(all[n - 1])
    <3>1. r1 = Twice(r0) /\ r2 = Twice(r1) /\ r3 = Twice(r2) /\ r4 = Twice(r3) /\ r5 = Twice(r4)
      BY DEF r1, r2, r3, r4, r5
    <3>2. all[0] = r0 /\ all[1] = r1 /\ all[2] = r2 /\ all[3] = r3 /\ all[4] = r4 /\ all[5] = r5
      OBVIOUS
    <3> SUFFICES ASSUME NEW n \in 0..5 PROVE all[n] = IF n = 0 THEN r0 ELSE Twice(all[n - 1])
      OBVIOUS
    <3>3. n \in {0, 1, 2, 3, 4, 5}
      OBVIOUS
    <3> HIDE DEF all
    <3>4. 1 - 1 = 0 /\ 2 - 1 = 1 /\ 3 - 1 = 2 /\ 4 - 1 = 3 /\ 5 - 1 = 4
      OBVIOUS
    <3> QED
      BY <3>1, <3>2, <3>3, <3>4
  <2>2. r0 = Valid
    BY DEF r0
  <2> QED
    BY <2>1, <2>2
<1> HIDE DEF all, r0, r1, r2, r3, r4, r5, Paths
<1>4. after = Paths(after)
  BY <1>3
<1> HIDE DEF after
<1>5. \A n \in 0..5 : after[n] = IF n = 0 THEN Valid ELSE Twice(after[n - 1])
  BY <1>4 DEF Paths
<1>6. after[0] = Valid /\ after[1] = Twice(after[0]) /\ after[2] = Twice(after[1]) /\ after[3] = Twice(after[2])
      /\ after[4] = Twice(after[3]) /\ after[5] = Twice(after[4])
  BY <1>5
<1> QED
  BY <1>2, <1>6

\* The doubled paths contain the paths and the pairs of them.
LEMMA TwiceFacts ==
  ASSUME NEW g, \A s \in StartStates : g[s] \subseteq States
  PROVE  /\ \A s \in StartStates : Twice(g)[s] \subseteq States /\ g[s] \subseteq Twice(g)[s]
         /\ \A s \in StartStates : \A t \in g[s] : g[t] \subseteq Twice(g)[s]
  BY DEF Twice, StartStates

ReturnStates == {"return_opened", "return_received", "return_closed"}

\* The webhook states a transaction in state s can still come to.
WebhooksAhead(s) ==
  IF s \in {"none", "merchant_accepted", "buyer_accepted", "checkout_created"} \cup OfferOpen THEN WebhookStates
  ELSE IF s = "order_created" THEN WebhookStates \ {"order_created"}
  ELSE IF s = "payment_pending" THEN WebhookStates \ {"order_created", "payment_pending"}
  ELSE IF s = "paid" THEN Refunds \cup ReturnStates
  ELSE IF s = "partially_refunded" THEN {"fully_refunded"} \cup ReturnStates
  ELSE IF s \in {"fully_refunded"} \cup ReturnStates THEN ReturnStates ELSE {}

\* No path to a webhook state is longer than those of Reach.
LEMMA ReachesAhead == \A s \in StartStates : WebhooksAhead(s) \subseteq Reach[s]
<1> DEFINE r1 == Twice(Valid)
           r2 == Twice(r1)
           r3 == Twice(r2)
           r4 == Twice(r3)
           Holds(g) == \A s \in StartStates : g[s] \subseteq States
           Pairs(g, h) == /\ \A s \in StartStates : g[s] \subseteq h[s]
                          /\ \A s \in StartStates : \A t \in g[s] : g[t] \subseteq h[s]
<1>1. Holds(Valid)
  BY ValidIs
<1>2. Holds(r1) /\ Pairs(Valid, r1)
  BY <1>1, TwiceFacts
<1> HIDE DEF r1
<1>3. Holds(r2) /\ Pairs(r1, r2)
  BY <1>2, TwiceFacts
<1> HIDE DEF r2
<1>4. Holds(r3) /\ Pairs(r2, r3)
  BY <1>3, TwiceFacts
<1> HIDE DEF r3
<1>5. Holds(r4) /\ Pairs(r3, r4)
  BY <1>4, TwiceFacts
<1> HIDE DEF r4
<1>6. Pairs(r4, Reach)
  <2>1. Reach = Twice(r4)
    BY ReachIs DEF r1, r2, r3, r4
  <2> QED
    BY <1>5, <2>1, TwiceFacts
<1>0. /\ "none" \in StartStates
      /\ StartStates = States \cup {"none"}
  BY DEF StartStates
<1>7. /\ Refunds \cup {"return_opened"} \subseteq Valid["paid"]
      /\ {"fully_refunded", "return_opened"} \subseteq Valid["partially_refunded"]
      /\ {"return_opened"} \subseteq Valid["fully_refunded"] /\ {"return_opened"} \subseteq Valid["return_closed"]
      /\ {"return_received", "return_closed"} \subseteq Valid["return_opened"]
      /\ {"return_closed"} \subseteq Valid["return_received"]
      /\ {"payment_pending", "cancelled", "paid"} \subseteq Valid["order_created"]
      /\ {"cancelled", "paid"} \subseteq Valid["payment_pending"]
      /\ {"order_created", "payment_pending", "cancelled"} \subseteq Valid["checkout_created"]
      /\ {"checkout_created"} \subseteq Valid["merchant_accepted"] /\ {"checkout_created"} \subseteq Valid["buyer_accepted"]
      /\ {"merchant_accepted"} \subseteq Valid["offer_submitted"] /\ {"merchant_accepted"} \subseteq Valid["buyer_countered"]
      /\ {"buyer_accepted"} \subseteq Valid["merchant_countered"]
      /\ {"offer_submitted"} \subseteq Valid["none"]
  <2>1. /\ \A t \in {"partially_refunded", "fully_refunded", "return_opened"} : <<"paid", t>> \in Transitions
        /\ \A t \in {"fully_refunded", "return_opened"} : <<"partially_refunded", t>> \in Transitions
        /\ <<"fully_refunded", "return_opened">> \in Transitions /\ <<"return_closed", "return_opened">> \in Transitions
        /\ \A t \in {"return_received", "return_closed"} : <<"return_opened", t>> \in Transitions
        /\ <<"return_received", "return_closed">> \in Transitions
        /\ \A t \in {"payment_pending", "cancelled", "paid"} : <<"order_created", t>> \in Transitions
        /\ \A t \in {"cancelled", "paid"} : <<"payment_pending", t>> \in Transitions
        /\ \A t \in {"order_created", "payment_pending", "cancelled"} : <<"checkout_created", t>> \in Transitions
        /\ <<"merchant_accepted", "checkout_created">> \in Transitions /\ <<"buyer_accepted", "checkout_created">> \in Transitions
        /\ <<"offer_submitted", "merchant_accepted">> \in Transitions /\ <<"buyer_countered", "merchant_accepted">> \in Transitions
        /\ <<"merchant_countered", "buyer_accepted">> \in Transitions
        /\ <<"none", "offer_submitted">> \in Transitions
    BY InTransitions DEF Refunds, MerchantDecisions
  <2>2. {"paid", "partially_refunded", "fully_refunded", "return_closed", "return_opened", "return_received",
         "order_created", "payment_pending", "checkout_created", "merchant_accepted", "buyer_accepted",
         "offer_submitted", "buyer_countered", "merchant_countered", "none"} \subseteq StartStates
    BY <1>0, StatesAre
  <2> QED
    BY <2>1, <2>2, ValidIs DEF Refunds
<1>8. /\ Refunds \cup ReturnStates \subseteq r1["paid"]
      /\ {"fully_refunded"} \cup ReturnStates \subseteq r1["partially_refunded"]
      /\ ReturnStates \subseteq r1["fully_refunded"] /\ ReturnStates \subseteq r1["return_closed"]
      /\ ReturnStates \subseteq r1["return_opened"]
      /\ {"return_closed", "return_opened"} \subseteq r1["return_received"]
      /\ {"payment_pending", "cancelled", "paid"} \cup Refunds \subseteq r1["order_created"]
      /\ {"cancelled", "paid"} \cup Refunds \subseteq r1["payment_pending"]
      /\ {"order_created", "payment_pending", "cancelled", "paid"} \subseteq r1["checkout_created"]
      /\ {"checkout_created"} \subseteq r1["merchant_accepted"] /\ {"checkout_created"} \subseteq r1["buyer_accepted"]
      /\ {"checkout_created"} \subseteq r1["offer_submitted"] /\ {"checkout_created"} \subseteq r1["buyer_countered"]
      /\ {"checkout_created"} \subseteq r1["merchant_countered"]
      /\ {"offer_submitted"} \subseteq r1["none"]
  BY <1>0, <1>2, <1>7, StatesAre DEF Refunds, ReturnStates
<1>9. /\ Refunds \cup ReturnStates \subseteq r2["paid"]
      /\ {"fully_refunded"} \cup ReturnStates \subseteq r2["partially_refunded"]
      /\ ReturnStates \subseteq r2["fully_refunded"] /\ ReturnStates \subseteq r2["return_closed"]
      /\ ReturnStates \subseteq r2["return_opened"]
      /\ ReturnStates \subseteq r2["return_received"]
      /\ {"payment_pending", "cancelled", "paid"} \cup Refunds \cup ReturnStates \subseteq r2["order_created"]
      /\ {"cancelled", "paid"} \cup Refunds \cup ReturnStates \subseteq r2["payment_pending"]
      /\ WebhookStates \subseteq r2["checkout_created"]
      /\ {"checkout_created"} \subseteq r2["merchant_accepted"] /\ {"checkout_created"} \subseteq r2["buyer_accepted"]
      /\ {"checkout_created"} \subseteq r2["offer_submitted"] /\ {"checkout_created"} \subseteq r2["buyer_countered"]
      /\ {"checkout_created"} \subseteq r2["merchant_countered"]
      /\ {"checkout_created"} \subseteq r2["none"]
  BY <1>0, <1>3, <1>8, StatesAre DEF Refunds, ReturnStates, WebhookStates
<1>10. \A s \in StartStates : WebhooksAhead(s) \subseteq r3[s]
  <2> SUFFICES ASSUME NEW s \in StartStates PROVE WebhooksAhead(s) \subseteq r3[s]
    OBVIOUS
  <2>1. CASE s \in {"none", "merchant_accepted", "buyer_accepted"} \cup OfferOpen
    <3>1. "checkout_created" \in r2[s]
      BY <1>9, <2>1 DEF OfferOpen
    <3>2. r2["checkout_created"] \subseteq r3[s]
      BY <1>4, <3>1
    <3> QED
      BY <1>9, <2>1, <3>2 DEF WebhooksAhead
  <2>2. CASE s \notin {"none", "merchant_accepted", "buyer_accepted"} \cup OfferOpen
    <3>1. r2[s] \subseteq r3[s]
      BY <1>4
    <3>2. WebhooksAhead(s) \subseteq r2[s]
      BY <1>9, <2>2 DEF WebhooksAhead, ReturnStates, Refunds, WebhookStates
    <3> QED
      BY <3>1, <3>2
  <2> QED
    BY <2>1, <2>2
<1> QED
  BY <1>5, <1>6, <1>10

\* What a state has ahead, its successors have ahead of them.
LEMMA AheadOfSuccessor ==
  ASSUME NEW s \in StartStates, NEW t \in Valid[s]
  PROVE  /\ t \in States /\ t \in StartStates /\ s \notin TerminalStates
         /\ t \in WebhookStates => t \in WebhooksAhead(s)
         /\ WebhooksAhead(t) \subseteq WebhooksAhead(s)
<1>1. t \in States /\ t \in StartStates
  BY ValidIs DEF StartStates
<1>2. s \notin TerminalStates
  BY DEF TerminalStates
<1>3. <<s, t>> \in Transitions
  BY ValidIs
<1>4. t \in WebhookStates => t \in WebhooksAhead(s)
  BY <1>3, InTransitions DEF WebhooksAhead, WebhookStates, Refunds, ReturnStates, OfferOpen, MerchantDecisions
<1>5. WebhooksAhead(t) \subseteq WebhooksAhead(s)
  BY <1>3, InTransitions DEF WebhooksAhead, WebhookStates, Refunds, ReturnStates, OfferOpen, MerchantDecisions
<1> QED
  BY <1>1, <1>2, <1>4, <1>5

\* The states a transaction is in once it is paid.
AfterPaid  == Refunds \cup ReturnStates \cup {"mature"}
PaidStates == {"paid"} \cup AfterPaid

\* What comes before and after a payment, a refund and the maturing.
LEMMA PaidFacts ==
  ASSUME NEW s \in StartStates, NEW t \in Valid[s]
  PROVE  /\ t \in AfterPaid => s \in PaidStates
         /\ s \in PaidStates => t \in AfterPaid
         /\ t = "partially_refunded" => s = "paid"
         /\ t = "fully_refunded" => s \in {"paid", "partially_refunded"}
         /\ s # "mature"
<1>1. <<s, t>> \in Transitions
  BY ValidIs
<1> QED
  BY <1>1, InTransitions DEF AfterPaid, PaidStates, Refunds, ReturnStates, OfferOpen, MerchantDecisions

\* A refund may follow a payment, and a full one a partial one.
LEMMA RefundFollows ==
  /\ \A s \in {"paid", "partially_refunded"} : "fully_refunded" \in Valid[s]
  /\ "partially_refunded" \in Valid["paid"]
<1>1. {"paid", "partially_refunded"} \subseteq StartStates
  BY StatesAre DEF StartStates
<1>2. /\ <<"paid", "fully_refunded">> \in Transitions /\ <<"paid", "partially_refunded">> \in Transitions
      /\ <<"partially_refunded", "fully_refunded">> \in Transitions
  BY InTransitions DEF Refunds
<1> QED
  BY <1>1, <1>2, ValidIs

-----------------------------------------------------------------------------
\* The states a replay of the events in S goes through, and the events it applies and refuses.
StateRun(h, S, g) ==
  /\ g \in [0..Len(h) -> StartStates] /\ g[0] = "none"
  /\ \A t \in 1..Len(h) : g[t] = IF t \in S /\ h[t].to \in Valid[g[t - 1]] THEN h[t].to ELSE g[t - 1]

AppliedIn(h, S, g) == {t \in 1..Len(h) : t \in S /\ h[t].to \in Valid[g[t - 1]]}
ErrorsIn(h, S, g) ==
  {t \in 1..Len(h) : /\ t \in S /\ h[t].to \notin Valid[g[t - 1]]
                     /\ ~(h[t].to \in WebhookStates /\ CouldFollow(h[t].to, g[t - 1]))}

\* What Replay returns, by its fields.
ReplayRecords == [state : StartStates, applied : SUBSET Nat, pending : SUBSET Nat, errors : SUBSET Nat]

\* One event of a replay.
LEMMA ReplayStepType ==
  ASSUME NEW r \in ReplayRecords, NEW e \in Nat
  PROVE  /\ ReplayStep(r, e) \in ReplayRecords
         /\ ReplayStep(r, e).state = IF history[e].to \in Valid[r.state] THEN history[e].to ELSE r.state
         /\ ReplayStep(r, e).applied = IF history[e].to \in Valid[r.state] THEN r.applied \cup {e} ELSE r.applied
         /\ ReplayStep(r, e).errors =
              IF history[e].to \notin Valid[r.state]
                 /\ ~(history[e].to \in WebhookStates /\ CouldFollow(history[e].to, r.state))
              THEN r.errors \cup {e} ELSE r.errors
<1>1. PICK s \in StartStates, a \in SUBSET Nat, p \in SUBSET Nat, x \in SUBSET Nat :
        r = [state |-> s, applied |-> a, pending |-> p, errors |-> x]
  BY DEF ReplayRecords
<1>2. CASE history[e].to \in Valid[s]
  <2>1. history[e].to \in StartStates
    BY <1>2, ValidIs DEF StartStates
  <2>2. ReplayStep(r, e) = [state |-> history[e].to, applied |-> a \cup {e}, pending |-> p, errors |-> x]
    BY <1>1, <1>2 DEF ReplayStep
  <2> QED
    BY <1>1, <1>2, <2>1, <2>2 DEF ReplayRecords
<1>3. CASE history[e].to \notin Valid[s] /\ history[e].to \in WebhookStates /\ CouldFollow(history[e].to, s)
  <2>1. ReplayStep(r, e) = [state |-> s, applied |-> a, pending |-> p \cup {e}, errors |-> x]
    BY <1>1, <1>3 DEF ReplayStep
  <2> QED
    BY <1>1, <1>3, <2>1 DEF ReplayRecords
<1>4. CASE history[e].to \notin Valid[s] /\ ~(history[e].to \in WebhookStates /\ CouldFollow(history[e].to, s))
  <2>1. ReplayStep(r, e) = [state |-> s, applied |-> a, pending |-> p, errors |-> x \cup {e}]
    BY <1>1, <1>4 DEF ReplayStep
  <2> QED
    BY <1>1, <1>4, <2>1 DEF ReplayRecords
<1> QED
  BY <1>2, <1>3, <1>4

\* The records a replay goes through.
RecordRun(S, n, f) ==
  /\ f \in [0..n -> ReplayRecords]
  /\ \A t \in 0..n : f[t] = IF t = 0 THEN Blank ELSE IF t \in S THEN ReplayStep(f[t - 1], t) ELSE f[t - 1]

\* There is a run of records to any length.
LEMMA ReplayExists ==
  ASSUME NEW S, NEW n \in Nat
  PROVE  \E f : RecordRun(S, n, f)
<1> DEFINE Follows(f, t) == f[t] = IF t = 0 THEN Blank ELSE IF t \in S THEN ReplayStep(f[t - 1], t) ELSE f[t - 1]
           A == {m \in Nat : \E f \in [0..m -> ReplayRecords] : \A t \in 0..m : Follows(f, t)}
<1>0. Blank \in ReplayRecords
  BY DEF Blank, ReplayRecords, StartStates
<1>1. 0 \in A
  <2> DEFINE f == [t \in 0..0 |-> Blank]
  <2>1. f \in [0..0 -> ReplayRecords] /\ \A t \in 0..0 : Follows(f, t)
    BY <1>0
  <2> QED
    BY <2>1
<1>2. ASSUME NEW m \in Nat, m \in A PROVE m + 1 \in A
  <2>1. PICK f \in [0..m -> ReplayRecords] : \A t \in 0..m : Follows(f, t)
    BY <1>2
  <2> DEFINE next == IF m + 1 \in S THEN ReplayStep(f[m], m + 1) ELSE f[m]
             g == [t \in 0..(m + 1) |-> IF t \in 0..m THEN f[t] ELSE next]
  <2>2. f[m] \in ReplayRecords /\ next \in ReplayRecords
    <3>1. f[m] \in ReplayRecords /\ m + 1 \in Nat
      OBVIOUS
    <3>2. ReplayStep(f[m], m + 1) \in ReplayRecords
      BY <3>1, ReplayStepType
    <3> QED
      BY <3>1, <3>2
  <2> HIDE DEF next
  <2>3. g \in [0..(m + 1) -> ReplayRecords]
    BY <2>2
  <2>4. g[m + 1] = next /\ g[m] = f[m] /\ m + 1 # 0 /\ (m + 1) - 1 = m
    OBVIOUS
  <2>5. Follows(g, m + 1)
    BY <2>4 DEF next
  <2>6. \A t \in 0..m : g[t] = f[t] /\ (t # 0 => g[t - 1] = f[t - 1])
    OBVIOUS
  <2>7. \A t \in 0..m : Follows(g, t)
    BY <2>1, <2>6
  <2>8. \A t \in 0..(m + 1) : t \in 0..m \/ t = m + 1
    OBVIOUS
  <2> HIDE DEF g, Follows
  <2>9. \A t \in 0..(m + 1) : Follows(g, t)
    BY <2>5, <2>7, <2>8
  <2> USE DEF Follows
  <2> QED
    BY <2>3, <2>9
<1> HIDE DEF A
<1>3. n \in A
  BY <1>1, <1>2, NatSetInduction
<1> QED
  BY <1>3 DEF A, RecordRun

\* What Replay returns.
LEMMA ReplayIs ==
  ASSUME Len(history) \in Nat, NEW S
  PROVE  \E g : /\ StateRun(history, S, g)
                /\ Replay(S).state = g[Len(history)]
                /\ Replay(S).applied = AppliedIn(history, S, g)
                /\ Replay(S).errors = ErrorsIn(history, S, g)
<1> DEFINE n == Len(history)
           Run(f) == [t \in 0..n |-> IF t = 0 THEN Blank ELSE IF t \in S THEN ReplayStep(f[t - 1], t) ELSE f[t - 1]]
           upTo == CHOOSE f : f = Run(f)
<1>1. Replay(S) = upTo[n]
  BY DEF Replay
<1>2. \E f : f = Run(f)
  <2>1. PICK f : RecordRun(S, n, f)
    <3>1. n \in Nat
      OBVIOUS
    <3> HIDE DEF n, Run, upTo
    <3> QED
      BY <3>1, ReplayExists
  <2>2. f = Run(f)
    BY <2>1 DEF RecordRun
  <2> QED
    BY <2>2
<1>3. upTo = Run(upTo)
  <2> HIDE DEF Run
  <2> QED
    BY <1>2
<1> HIDE DEF upTo
<1>4. \A t \in 0..n : upTo[t] = IF t = 0 THEN Blank ELSE IF t \in S THEN ReplayStep(upTo[t - 1], t) ELSE upTo[t - 1]
  BY <1>3
<1> DEFINE g == [t \in 0..n |-> upTo[t].state]
           Sum(m) == /\ upTo[m] \in ReplayRecords
                     /\ upTo[m].applied = {t \in 1..m : t \in S /\ history[t].to \in Valid[upTo[t - 1].state]}
                     /\ upTo[m].errors =
                          {t \in 1..m : /\ t \in S /\ history[t].to \notin Valid[upTo[t - 1].state]
                                        /\ ~(history[t].to \in WebhookStates /\ CouldFollow(history[t].to, upTo[t - 1].state))}
           A == {m \in Nat : m <= n => Sum(m)}
<1>5. 0 \in A
  <2>1. upTo[0] = Blank
    BY <1>4
  <2> QED
    BY <2>1 DEF Blank, ReplayRecords, StartStates
<1>6. ASSUME NEW m \in Nat, m \in A PROVE m + 1 \in A
  <2> SUFFICES ASSUME m + 1 <= n PROVE Sum(m + 1)
    OBVIOUS
  <2>1. Sum(m)
    BY <1>6
  <2>2. upTo[m + 1] = IF m + 1 \in S THEN ReplayStep(upTo[m], m + 1) ELSE upTo[m]
    <3>1. m + 1 \in 0..n /\ m + 1 # 0 /\ (m + 1) - 1 = m
      OBVIOUS
    <3> QED
      BY <1>4, <3>1
  <2>3. 1..(m + 1) = (1..m) \cup {m + 1} /\ m + 1 \notin 1..m /\ (m + 1) - 1 = m /\ m + 1 \in Nat
    OBVIOUS
  <2>4. /\ upTo[m] \in ReplayRecords /\ m + 1 \in Nat
        /\ 1..m \subseteq Nat
    BY <2>1
  <2>5. /\ ReplayStep(upTo[m], m + 1) \in ReplayRecords
        /\ ReplayStep(upTo[m], m + 1).applied =
             IF history[m + 1].to \in Valid[upTo[m].state] THEN upTo[m].applied \cup {m + 1} ELSE upTo[m].applied
        /\ ReplayStep(upTo[m], m + 1).errors =
             IF history[m + 1].to \notin Valid[upTo[m].state]
                /\ ~(history[m + 1].to \in WebhookStates /\ CouldFollow(history[m + 1].to, upTo[m].state))
             THEN upTo[m].errors \cup {m + 1} ELSE upTo[m].errors
    BY <2>4, ReplayStepType
  <2>6. upTo[m + 1] \in ReplayRecords
    BY <2>2, <2>4, <2>5
  <2>7. upTo[m + 1].applied = IF m + 1 \in S /\ history[m + 1].to \in Valid[upTo[m].state]
                              THEN upTo[m].applied \cup {m + 1} ELSE upTo[m].applied
    BY <2>2, <2>5
  <2>8. upTo[m + 1].errors =
          IF /\ m + 1 \in S /\ history[m + 1].to \notin Valid[upTo[m].state]
             /\ ~(history[m + 1].to \in WebhookStates /\ CouldFollow(history[m + 1].to, upTo[m].state))
          THEN upTo[m].errors \cup {m + 1} ELSE upTo[m].errors
    BY <2>2, <2>5
  <2>9. upTo[m + 1].applied = {t \in 1..(m + 1) : t \in S /\ history[t].to \in Valid[upTo[t - 1].state]}
    BY <2>1, <2>3, <2>7
  <2>10. upTo[m + 1].errors =
          {t \in 1..(m + 1) : /\ t \in S /\ history[t].to \notin Valid[upTo[t - 1].state]
                              /\ ~(history[t].to \in WebhookStates /\ CouldFollow(history[t].to, upTo[t - 1].state))}
    BY <2>1, <2>3, <2>8
  <2> QED
    BY <2>6, <2>9, <2>10
<1>7. \A m \in 0..n : Sum(m)
  <2> HIDE DEF Sum
  <2>1. \A m \in Nat : m \in A
    <3> HIDE DEF A
    <3> QED
      BY <1>5, <1>6, NatSetInduction
  <2> QED
    BY <2>1
<1>8. g \in [0..n -> StartStates]
  BY <1>7 DEF ReplayRecords
<1>9. g[0] = "none"
  BY <1>4 DEF Blank
<1>10. ASSUME NEW t \in 1..n
       PROVE  g[t] = IF t \in S /\ history[t].to \in Valid[g[t - 1]] THEN history[t].to ELSE g[t - 1]
  <2>1. t \in 0..n /\ t - 1 \in 0..n /\ t \in Nat /\ t # 0
    OBVIOUS
  <2>2. upTo[t] = IF t \in S THEN ReplayStep(upTo[t - 1], t) ELSE upTo[t - 1]
    BY <1>4, <2>1
  <2>3. upTo[t - 1] \in ReplayRecords
    BY <1>7, <2>1
  <2>4. upTo[t].state = IF t \in S /\ history[t].to \in Valid[upTo[t - 1].state] THEN history[t].to ELSE upTo[t - 1].state
    <3>1. CASE t \in S
      <4>1. ReplayStep(upTo[t - 1], t).state
              = IF history[t].to \in Valid[upTo[t - 1].state] THEN history[t].to ELSE upTo[t - 1].state
        BY <2>1, <2>3, ReplayStepType
      <4> QED
        BY <2>2, <3>1, <4>1
    <3>2. CASE t \notin S
      BY <2>2, <3>2
    <3> QED
      BY <3>1, <3>2
  <2> QED
    BY <2>1, <2>4
<1>11. StateRun(history, S, g)
  <2> HIDE DEF g
  <2> QED
    BY <1>8, <1>9, <1>10 DEF StateRun
<1>12. \A t \in 1..n : g[t - 1] = upTo[t - 1].state
  OBVIOUS
<1>13. n \in 0..n /\ g[n] = upTo[n].state
  OBVIOUS
<1>14. Sum(n)
  <2> HIDE DEF Sum
  <2> QED
    BY <1>7, <1>13
<1>15. upTo[n].applied = AppliedIn(history, S, g) /\ upTo[n].errors = ErrorsIn(history, S, g)
  BY <1>12, <1>14 DEF AppliedIn, ErrorsIn
<1> HIDE DEF g
<1> QED
  BY <1>1, <1>11, <1>13, <1>15

\* One replay has one run.
LEMMA RunIsOne ==
  ASSUME NEW h, Len(h) \in Nat, NEW S, NEW f, NEW g, StateRun(h, S, f), StateRun(h, S, g)
  PROVE  f = g
<1> DEFINE A == {m \in Nat : m <= Len(h) => f[m] = g[m]}
<1>1. 0 \in A
  BY DEF StateRun
<1>2. ASSUME NEW m \in Nat, m \in A PROVE m + 1 \in A
  <2> SUFFICES ASSUME m + 1 <= Len(h) PROVE f[m + 1] = g[m + 1]
    OBVIOUS
  <2>1. m + 1 \in 1..Len(h) /\ (m + 1) - 1 = m /\ f[m] = g[m]
    BY <1>2
  <2> QED
    BY <2>1 DEF StateRun
<1> HIDE DEF A
<1>3. \A m \in Nat : m \in A
  BY <1>1, <1>2, NatSetInduction
<1>4. \A m \in 0..Len(h) : f[m] = g[m]
  BY <1>3 DEF A
<1>5. f \in [0..Len(h) -> StartStates] /\ g \in [0..Len(h) -> StartStates]
  BY DEF StateRun
<1> QED
  BY <1>4, <1>5

-----------------------------------------------------------------------------
\* A history is a sequence.
HistoryKept == Len(history) \in Nat /\ DOMAIN history = 1..Len(history)

\* Every event of this side that is in the ledger is applied: only webhooks wait.
LocalApplied ==
  \A g : StateRun(history, stored, g) =>
    \A e \in stored : history[e].to \notin WebhookStates => e \in AppliedIn(history, stored, g)

MachineInv == HistoryKept /\ stored \subseteq DOMAIN history /\ LocalApplied

\* The empty ledger.
LEMMA MachineStart ==
  ASSUME MachineInit
  PROVE  MachineInv
<1>1. history \in Seq({history[e] : e \in DOMAIN history})
  BY HistoriesAssumption DEF MachineInit
<1>2. HistoryKept
  BY <1>1 DEF HistoryKept
<1> QED
  BY <1>2 DEF MachineInit, MachineInv, LocalApplied

\* What is accepted leaves what was applied applied, and is no error itself.
LEMMA AppendKeeps ==
  ASSUME MachineInv, NEW e \in DOMAIN history, AppendEvent(e), history' = history
  PROVE  MachineInv'
<1>0. HistoryKept' /\ HistoryKept
  BY DEF MachineInv, HistoryKept
<1>1. CASE stored' = stored
  BY <1>0, <1>1 DEF MachineInv, LocalApplied
<1>2. CASE Accepted(e) /\ stored' = stored \cup {e}
  <2>1. PICK g1 : /\ StateRun(history, stored, g1)
                  /\ Replay(stored).applied = AppliedIn(history, stored, g1)
    BY <1>0, ReplayIs DEF HistoryKept
  <2>2. PICK g2 : /\ StateRun(history, stored \cup {e}, g2)
                  /\ Replay(stored \cup {e}).applied = AppliedIn(history, stored \cup {e}, g2)
                  /\ Replay(stored \cup {e}).errors = ErrorsIn(history, stored \cup {e}, g2)
    BY <1>0, ReplayIs DEF HistoryKept
  <2>3. /\ AppliedIn(history, stored, g1) \subseteq AppliedIn(history, stored \cup {e}, g2)
        /\ e \notin ErrorsIn(history, stored \cup {e}, g2)
    BY <1>2, <2>1, <2>2 DEF Accepted
  <2>4. \A x \in stored : history[x].to \notin WebhookStates => x \in AppliedIn(history, stored \cup {e}, g2)
    BY <2>1, <2>3 DEF MachineInv, LocalApplied
  <2>5. history[e].to \notin WebhookStates => e \in AppliedIn(history, stored \cup {e}, g2)
    <3>1. e \in 1..Len(history)
      BY <1>0 DEF HistoryKept
    <3> QED
      BY <2>3, <3>1 DEF AppliedIn, ErrorsIn
  <2>6. ASSUME NEW g, StateRun(history, stored \cup {e}, g) PROVE g = g2
    BY <1>0, <2>2, <2>6, RunIsOne DEF HistoryKept
  <2>7. \A g : StateRun(history, stored \cup {e}, g) =>
          \A x \in stored \cup {e} : history[x].to \notin WebhookStates => x \in AppliedIn(history, stored \cup {e}, g)
    BY <2>4, <2>5, <2>6
  <2>8. LocalApplied'
    BY <1>2, <2>7 DEF LocalApplied
  <2> QED
    BY <1>0, <1>2, <2>8 DEF MachineInv
<1> QED
  BY <1>1, <1>2 DEF AppendEvent, AppendPrelocked

-----------------------------------------------------------------------------
\* The state of what has happened after its first t events.
PathState(h, t) == IF t = 0 THEN "none" ELSE h[t].to

\* A legal history goes through the transitions.
LEMMA PathSteps ==
  ASSUME HistoryKept, Legal
  PROVE  /\ \A t \in 0..Len(history) : PathState(history, t) \in StartStates
         /\ \A t \in 1..Len(history) : history[t].to \in Valid[PathState(history, t - 1)]
<1> DEFINE A == {t \in Nat : t <= Len(history) => PathState(history, t) \in StartStates}
<1>1. \A t \in 1..Len(history) : history[t].to \in Valid[PathState(history, t - 1)]
  <2> SUFFICES ASSUME NEW t \in 1..Len(history) PROVE history[t].to \in Valid[PathState(history, t - 1)]
    OBVIOUS
  <2>1. history[t].to \in Valid[IF t = 1 THEN "none" ELSE history[t - 1].to]
    BY DEF Legal, HistoryKept
  <2>2. (t - 1 = 0 <=> t = 1) /\ Len(history) \in Nat
    BY DEF HistoryKept
  <2> QED
    BY <2>1, <2>2 DEF PathState
<1>2. 0 \in A
  BY DEF PathState, StartStates
<1>3. ASSUME NEW t \in Nat, t \in A PROVE t + 1 \in A
  <2> SUFFICES ASSUME t + 1 <= Len(history) PROVE PathState(history, t + 1) \in StartStates
    OBVIOUS
  <2>1. t + 1 \in 1..Len(history) /\ (t + 1) - 1 = t /\ t <= Len(history)
    BY DEF HistoryKept
  <2>2. PathState(history, t) \in StartStates
    BY <1>3, <2>1
  <2>3. history[t + 1].to \in Valid[PathState(history, t)]
    BY <1>1, <2>1
  <2>4. history[t + 1].to \in StartStates
    BY <2>2, <2>3, AheadOfSuccessor
  <2> QED
    BY <2>4 DEF PathState
<1> HIDE DEF A
<1>4. \A t \in Nat : t \in A
  BY <1>2, <1>3, NatSetInduction
<1>5. \A t \in 0..Len(history) : PathState(history, t) \in StartStates
  BY <1>4 DEF A, HistoryKept
<1> QED
  BY <1>1, <1>5

\* What a webhook reports lies ahead of every earlier state of the path.
LEMMA PathAhead ==
  ASSUME HistoryKept, Legal, NEW t \in 1..Len(history), history[t].to \in WebhookStates, NEW j \in 0..(t - 1)
  PROVE  history[t].to \in WebhooksAhead(PathState(history, j))
<1> DEFINE A == {k \in Nat : k < t => history[t].to \in WebhooksAhead(PathState(history, t - 1 - k))}
<1>0. Len(history) \in Nat /\ t \in Nat
  BY DEF HistoryKept
<1>1. 0 \in A
  <2>1. t - 1 - 0 = t - 1 /\ t - 1 \in 0..Len(history)
    BY <1>0
  <2>2. history[t].to \in WebhooksAhead(PathState(history, t - 1))
    BY <2>1, PathSteps, AheadOfSuccessor
  <2> QED
    BY <2>1, <2>2
<1>2. ASSUME NEW k \in Nat, k \in A PROVE k + 1 \in A
  <2> SUFFICES ASSUME k + 1 < t PROVE history[t].to \in WebhooksAhead(PathState(history, t - 1 - (k + 1)))
    OBVIOUS
  <2> DEFINE i == t - 1 - k
  <2>1. /\ i \in 1..Len(history) /\ i - 1 = t - 1 - (k + 1) /\ i - 1 \in 0..Len(history) /\ i # 0
        /\ k < t
    BY <1>0
  <2>2. history[t].to \in WebhooksAhead(PathState(history, i))
    BY <1>2, <2>1
  <2> HIDE DEF i
  <2>3. PathState(history, i) = history[i].to
    BY <2>1 DEF PathState
  <2>4. PathState(history, i - 1) \in StartStates /\ history[i].to \in Valid[PathState(history, i - 1)]
    BY <2>1, PathSteps
  <2>5. WebhooksAhead(history[i].to) \subseteq WebhooksAhead(PathState(history, i - 1))
    BY <2>4, AheadOfSuccessor
  <2> QED
    BY <2>1, <2>2, <2>3, <2>5
<1> HIDE DEF A
<1>3. \A k \in Nat : k \in A
  BY <1>1, <1>2, NatSetInduction
<1>4. t - 1 - j \in Nat /\ t - 1 - j < t /\ t - 1 - (t - 1 - j) = j
  BY <1>0
<1> QED
  BY <1>3, <1>4 DEF A

\* A path is paid once.
LEMMA PaidOnce ==
  ASSUME HistoryKept, Legal, NEW p \in 1..Len(history), history[p].to = "paid",
         NEW i \in 1..Len(history), p < i
  PROVE  history[i].to \in AfterPaid
<1> DEFINE A == {k \in Nat : p + k + 1 <= Len(history) => history[p + k + 1].to \in AfterPaid}
<1>0. Len(history) \in Nat /\ p \in Nat
  BY DEF HistoryKept
<1>1. 0 \in A
  <2> SUFFICES ASSUME p + 1 <= Len(history) PROVE history[p + 0 + 1].to \in AfterPaid
    BY <1>0
  <2>1. p + 0 + 1 = p + 1 /\ p + 1 \in 1..Len(history) /\ (p + 1) - 1 = p /\ p \in 0..Len(history) /\ p # 0
    BY <1>0
  <2>2. history[p + 1].to \in Valid[PathState(history, p)] /\ PathState(history, p) \in StartStates
    BY <2>1, PathSteps
  <2>3. PathState(history, p) = "paid"
    BY <2>1 DEF PathState
  <2> QED
    BY <2>1, <2>2, <2>3, PaidFacts DEF PaidStates
<1>2. ASSUME NEW k \in Nat, k \in A PROVE k + 1 \in A
  <2> DEFINE x == p + k + 1
  <2> SUFFICES ASSUME x + 1 <= Len(history) PROVE history[p + (k + 1) + 1].to \in AfterPaid
    BY <1>0
  <2>1. /\ p + (k + 1) + 1 = x + 1 /\ x + 1 \in 1..Len(history) /\ (x + 1) - 1 = x
        /\ x \in 0..Len(history) /\ x # 0 /\ x <= Len(history)
    BY <1>0
  <2>2. history[x].to \in AfterPaid
    BY <1>2, <2>1
  <2> HIDE DEF x
  <2>3. history[x + 1].to \in Valid[PathState(history, x)] /\ PathState(history, x) \in StartStates
    BY <2>1, PathSteps
  <2>4. PathState(history, x) = history[x].to
    BY <2>1 DEF PathState
  <2>5. history[x + 1].to \in AfterPaid
    BY <2>2, <2>3, <2>4, PaidFacts DEF PaidStates
  <2> QED
    BY <2>1, <2>5
<1> HIDE DEF A
<1>3. \A k \in Nat : k \in A
  BY <1>1, <1>2, NatSetInduction
<1>4. i - p - 1 \in Nat /\ p + (i - p - 1) + 1 = i
  BY <1>0
<1>5. i - p - 1 \in A /\ i <= Len(history)
  BY <1>0, <1>3, <1>4
<1> QED
  BY <1>4, <1>5 DEF A

-----------------------------------------------------------------------------
\* A run of a legal history is in a state of its path.
LEMMA RunOnPath ==
  ASSUME HistoryKept, Legal, NEW S, NEW g, StateRun(history, S, g)
  PROVE  \A t \in 0..Len(history) : \E j \in 0..t : g[t] = PathState(history, j)
<1> DEFINE A == {t \in Nat : t <= Len(history) => \E j \in 0..t : g[t] = PathState(history, j)}
<1>1. 0 \in A
  BY DEF StateRun, PathState
<1>2. ASSUME NEW t \in Nat, t \in A PROVE t + 1 \in A
  <2> SUFFICES ASSUME t + 1 <= Len(history) PROVE \E j \in 0..(t + 1) : g[t + 1] = PathState(history, j)
    OBVIOUS
  <2>1. t + 1 \in 1..Len(history) /\ (t + 1) - 1 = t /\ t <= Len(history) /\ t + 1 # 0
    BY DEF HistoryKept
  <2>2. PICK j \in 0..t : g[t] = PathState(history, j)
    BY <1>2, <2>1
  <2>3. g[t + 1] = history[t + 1].to \/ g[t + 1] = g[t]
    BY <2>1 DEF StateRun
  <2>4. history[t + 1].to = PathState(history, t + 1)
    BY <2>1 DEF PathState
  <2>5. j \in 0..(t + 1) /\ t + 1 \in 0..(t + 1)
    OBVIOUS
  <2> QED
    BY <2>2, <2>3, <2>4, <2>5
<1> HIDE DEF A
<1>3. \A t \in Nat : t \in A
  BY <1>1, <1>2, NatSetInduction
<1> QED
  BY <1>3 DEF A, HistoryKept

\* A run that is in a state after the payment has applied the payment.
LEMMA RunPaid ==
  ASSUME HistoryKept, NEW S, NEW g, StateRun(history, S, g)
  PROVE  \A t \in 0..Len(history) : g[t] \in PaidStates =>
           \E j \in 1..t : j \in AppliedIn(history, S, g) /\ history[j].to = "paid"
<1> DEFINE Paid(t) == \E j \in 1..t : j \in AppliedIn(history, S, g) /\ history[j].to = "paid"
           A == {t \in Nat : t <= Len(history) => (g[t] \in PaidStates => Paid(t))}
<1>1. 0 \in A
  BY DEF StateRun, PaidStates, AfterPaid, Refunds, ReturnStates
<1>2. ASSUME NEW t \in Nat, t \in A PROVE t + 1 \in A
  <2> SUFFICES ASSUME t + 1 <= Len(history), g[t + 1] \in PaidStates PROVE Paid(t + 1)
    OBVIOUS
  <2>1. t + 1 \in 1..Len(history) /\ (t + 1) - 1 = t /\ t <= Len(history) /\ t \in 0..Len(history)
    BY DEF HistoryKept
  <2>2. Paid(t) => Paid(t + 1)
    OBVIOUS
  <2>3. g[t] \in PaidStates => Paid(t)
    BY <1>2, <2>1
  <2>4. CASE g[t + 1] = g[t]
    BY <2>2, <2>3, <2>4
  <2>5. CASE t + 1 \in S /\ history[t + 1].to \in Valid[g[t]] /\ g[t + 1] = history[t + 1].to
    <3>1. t + 1 \in AppliedIn(history, S, g)
      BY <2>1, <2>5 DEF AppliedIn
    <3>2. CASE history[t + 1].to = "paid"
      <4>1. t + 1 \in 1..(t + 1)
        OBVIOUS
      <4> QED
        BY <3>1, <3>2, <4>1
    <3>3. CASE history[t + 1].to \in AfterPaid
      <4>1. g[t] \in StartStates
        BY <2>1 DEF StateRun
      <4>2. g[t] \in PaidStates
        BY <2>5, <3>3, <4>1, PaidFacts
      <4> QED
        BY <2>2, <2>3, <4>2
    <3> QED
      BY <2>5, <3>2, <3>3 DEF PaidStates
  <2> HIDE DEF Paid
  <2> QED
    BY <2>1, <2>4, <2>5 DEF StateRun
<1> HIDE DEF A
<1>3. \A t \in Nat : t \in A
  BY <1>1, <1>2, NatSetInduction
<1> QED
  BY <1>3 DEF A, HistoryKept

\* A run stays mature.
LEMMA RunMature ==
  ASSUME HistoryKept, NEW S, NEW g, StateRun(history, S, g),
         NEW m \in AppliedIn(history, S, g), history[m].to = "mature"
  PROVE  g[Len(history)] = "mature"
<1> DEFINE A == {k \in Nat : m + k <= Len(history) => g[m + k] = "mature"}
<1>0. m \in 1..Len(history) /\ Len(history) \in Nat /\ m \in S /\ history[m].to \in Valid[g[m - 1]]
  BY DEF AppliedIn, HistoryKept
<1>1. 0 \in A
  <2>1. g[m] = "mature"
    BY <1>0 DEF StateRun
  <2> QED
    BY <1>0, <2>1
<1>2. ASSUME NEW k \in Nat, k \in A PROVE k + 1 \in A
  <2> DEFINE x == m + k
  <2> SUFFICES ASSUME x + 1 <= Len(history) PROVE g[m + (k + 1)] = "mature"
    BY <1>0
  <2>1. m + (k + 1) = x + 1 /\ x + 1 \in 1..Len(history) /\ (x + 1) - 1 = x /\ x <= Len(history)
    BY <1>0
  <2>2. g[x] = "mature"
    BY <1>2, <2>1
  <2> HIDE DEF x
  <2>3. "mature" \in StartStates
    BY StatesAre DEF StartStates
  <2>4. history[x + 1].to \notin Valid["mature"]
    BY <2>3, PaidFacts
  <2>5. g[x + 1] = g[x]
    BY <2>1, <2>2, <2>4 DEF StateRun
  <2> QED
    BY <2>1, <2>2, <2>5
<1> HIDE DEF A
<1>3. \A k \in Nat : k \in A
  BY <1>1, <1>2, NatSetInduction
<1>4. Len(history) - m \in Nat /\ m + (Len(history) - m) = Len(history)
  BY <1>0
<1> QED
  BY <1>3, <1>4 DEF A

-----------------------------------------------------------------------------
\* What webhooks report can still follow wherever the replay is: none of them is an error, and
\* the events of this side are applied.
LEMMA NoErrors ==
  ASSUME MachineInv, Legal, NEW g, StateRun(history, stored, g)
  PROVE  ErrorsIn(history, stored, g) = {}
<1> SUFFICES ASSUME NEW e \in ErrorsIn(history, stored, g) PROVE FALSE
  OBVIOUS
<1>0. HistoryKept /\ Len(history) \in Nat
  BY DEF MachineInv, HistoryKept
<1>1. /\ e \in 1..Len(history) /\ e \in stored /\ history[e].to \notin Valid[g[e - 1]]
      /\ ~(history[e].to \in WebhookStates /\ CouldFollow(history[e].to, g[e - 1]))
  BY DEF ErrorsIn
<1>2. history[e].to \in WebhookStates
  BY <1>1 DEF MachineInv, LocalApplied, AppliedIn
<1>3. e - 1 \in 0..Len(history)
  BY <1>0, <1>1
<1>4. PICK j \in 0..(e - 1) : g[e - 1] = PathState(history, j)
  BY <1>0, <1>3, RunOnPath
<1>5. /\ j \in 0..Len(history) /\ j + 1 \in 1..Len(history) /\ (j + 1) - 1 = j
  BY <1>0, <1>1
<1>6. /\ PathState(history, j) \in StartStates
      /\ history[j + 1].to \in Valid[PathState(history, j)]
  BY <1>0, <1>5, PathSteps
<1>7. PathState(history, j) \notin TerminalStates
  BY <1>6, AheadOfSuccessor
<1>8. history[e].to \in WebhooksAhead(PathState(history, j))
  BY <1>0, <1>1, <1>2, PathAhead
<1>9. history[e].to \in Reach[PathState(history, j)]
  BY <1>6, <1>8, ReachesAhead
<1> QED
  BY <1>1, <1>2, <1>4, <1>7, <1>9 DEF CouldFollow

\* A payment or a refund before the maturing of a legal history is applied.
LEMMA AmountsApplied ==
  ASSUME MachineInv, Legal, NEW g, StateRun(history, stored, g),
         NEW m \in AppliedIn(history, stored, g), history[m].to = "mature",
         NEW e \in stored, history[e].to \in {"paid"} \cup Refunds
  PROVE  e \in AppliedIn(history, stored, g)
<1>0. /\ HistoryKept /\ Len(history) \in Nat /\ DOMAIN history = 1..Len(history)
      /\ e \in 1..Len(history)
  BY DEF MachineInv, HistoryKept
<1>1. m \in 1..Len(history) /\ m \in stored /\ history[m].to \in Valid[g[m - 1]] /\ m - 1 \in 0..Len(history)
  BY <1>0 DEF AppliedIn
<1>2. g[m - 1] \in StartStates /\ g[m - 1] \in PaidStates
  <2>1. g[m - 1] \in StartStates
    BY <1>1 DEF StateRun
  <2> QED
    BY <1>1, <2>1, PaidFacts DEF AfterPaid
<1>3. PICK p \in 1..(m - 1) : p \in AppliedIn(history, stored, g) /\ history[p].to = "paid"
  BY <1>0, <1>1, <1>2, RunPaid
<1>4. p \in 1..Len(history) /\ g[p] = "paid"
  BY <1>0, <1>1, <1>3 DEF AppliedIn, StateRun
<1>5. "paid" \notin AfterPaid
  BY DEF AfterPaid, Refunds, ReturnStates
<1>6. \A q \in 1..Len(history) : history[q].to = "paid" => q = p
  <2> SUFFICES ASSUME NEW q \in 1..Len(history), history[q].to = "paid", q # p PROVE FALSE
    OBVIOUS
  <2>1. CASE p < q
    BY <1>0, <1>3, <1>4, <1>5, <2>1, PaidOnce
  <2>2. CASE q < p
    BY <1>0, <1>3, <1>4, <1>5, <2>2, PaidOnce
  <2> QED
    BY <1>4, <2>1, <2>2
<1>7. /\ PathState(history, e - 1) \in StartStates /\ history[e].to \in Valid[PathState(history, e - 1)]
  <2>1. e - 1 \in 0..Len(history)
    BY <1>0
  <2> QED
    BY <1>0, <2>1, PathSteps
<1>8. CASE history[e].to = "paid"
  BY <1>0, <1>3, <1>6, <1>8
<1>9. ASSUME NEW q \in 1..Len(history), history[q].to = "partially_refunded"
      PROVE  q = p + 1 /\ (q \in stored => q \in AppliedIn(history, stored, g))
  <2>1. q - 1 \in 0..Len(history) /\ q - 1 + 1 = q
    BY <1>0
  <2>2. PathState(history, q - 1) \in StartStates /\ history[q].to \in Valid[PathState(history, q - 1)]
    BY <1>0, <2>1, PathSteps
  <2>3. PathState(history, q - 1) = "paid"
    BY <1>9, <2>2, PaidFacts
  <2>4. q - 1 # 0 /\ history[q - 1].to = "paid"
    BY <2>3 DEF PathState
  <2>5. q - 1 \in 1..Len(history)
    BY <2>1, <2>4
  <2>6. q - 1 = p
    BY <1>6, <2>4, <2>5
  <2>7. history[q].to \in Valid[g[q - 1]]
    BY <1>4, <1>9, <2>6, RefundFollows
  <2> QED
    BY <2>1, <2>6, <2>7, <1>4 DEF AppliedIn
<1>10. CASE history[e].to = "partially_refunded"
  BY <1>0, <1>9, <1>10
<1>11. CASE history[e].to = "fully_refunded"
  <2>1. PathState(history, e - 1) \in {"paid", "partially_refunded"}
    BY <1>7, <1>11, PaidFacts
  <2>2. e - 1 # 0 /\ history[e - 1].to \in {"paid", "partially_refunded"} /\ e - 1 \in 1..Len(history)
    <3>1. e - 1 # 0 /\ history[e - 1].to \in {"paid", "partially_refunded"}
      BY <2>1 DEF PathState
    <3> QED
      BY <1>0, <3>1
  <2>3. g[e - 1] \in {"paid", "partially_refunded"}
    <3>1. CASE history[e - 1].to = "paid"
      BY <1>4, <1>6, <2>2, <3>1
    <3>2. CASE history[e - 1].to = "partially_refunded"
      <4>1. e - 1 = p + 1 /\ (e - 1 \in stored => e - 1 \in AppliedIn(history, stored, g))
        BY <1>9, <2>2, <3>2
      <4>2. (e - 1) - 1 = p
        BY <1>4, <4>1
      <4>3. g[e - 1] = IF e - 1 \in stored /\ history[e - 1].to \in Valid[g[p]] THEN history[e - 1].to ELSE g[p]
        BY <2>2, <4>2 DEF StateRun
      <4> QED
        BY <1>4, <3>2, <4>3
    <3> QED
      BY <2>2, <3>1, <3>2
  <2>4. history[e].to \in Valid[g[e - 1]]
    BY <1>11, <2>3, RefundFollows
  <2> QED
    BY <1>0, <2>4 DEF AppliedIn
<1> QED
  BY <1>8, <1>10, <1>11 DEF Refunds

\* The invariant makes the machine sound.
LEMMA MachineInvSound ==
  ASSUME MachineInv
  PROVE  MachineSound
<1>0. Len(history) \in Nat /\ DOMAIN history = 1..Len(history) /\ HistoryKept
  BY DEF MachineInv, HistoryKept
<1>1. PICK g : /\ StateRun(history, stored, g)
               /\ Replay(stored).state = g[Len(history)]
               /\ Replay(stored).applied = AppliedIn(history, stored, g)
               /\ Replay(stored).errors = ErrorsIn(history, stored, g)
  BY <1>0, ReplayIs
<1>2. NothingDead
  BY <1>1, NoErrors DEF NothingDead
<1>3. ASSUME "mature" \in ReportedTransitions
      PROVE  State = "mature" /\ (Legal => ReportedAmounts \subseteq Applied)
  <2>1. PICK m \in stored : history[m].to = "mature"
    BY <1>3 DEF ReportedTransitions
  <2>2. m \in AppliedIn(history, stored, g)
    BY <1>1, <2>1 DEF MachineInv, LocalApplied, WebhookStates, Refunds
  <2>3. State = "mature"
    BY <1>0, <1>1, <2>1, <2>2, RunMature DEF State, Snapshot
  <2>4. ASSUME Legal, NEW e \in ReportedAmounts PROVE e \in Applied
    <3>1. e \in stored /\ history[e].to \in {"paid"} \cup Refunds
      BY <2>4 DEF ReportedAmounts, ReportedRefunds
    <3>2. e \in AppliedIn(history, stored, g)
      BY <1>1, <2>1, <2>2, <2>4, <3>1, AmountsApplied
    <3> QED
      BY <1>1, <3>2 DEF Applied, Snapshot
  <2> QED
    BY <2>3, <2>4
<1>4. MatureTotalsMatchMachine
  BY <1>3 DEF MatureTotalsMatchMachine
<1> QED
  BY <1>2, <1>4 DEF MachineSound

\* Whatever histories there are: an event of this side that is in the ledger is applied.
THEOREM MachineInvariant == MachineSpec => []MachineInv
<1>1. MachineInit => MachineInv
  BY MachineStart
<1>2. MachineInv /\ [MachineNext]_machineVars => MachineInv'
  <2> SUFFICES ASSUME MachineInv, [MachineNext]_machineVars PROVE MachineInv'
    OBVIOUS
  <2>1. CASE UNCHANGED machineVars
    BY <2>1 DEF machineVars, MachineInv, HistoryKept, LocalApplied
  <2>2. CASE MachineNext
    <3>1. PICK e \in DOMAIN history : MachineAppend(e)
      BY <2>2 DEF MachineNext
    <3>2. AppendEvent(e) /\ history' = history
      BY <3>1 DEF MachineAppend
    <3> QED
      BY <3>2, AppendKeeps
  <2> QED
    BY <2>1, <2>2
<1> QED
  BY <1>1, <1>2, PTL DEF MachineSpec

\* What is stored of a legal history stays usable in whatever order it came in, and what the
\* merchant's report counts as mature is what the machine applied.
THEOREM StoredStaysUsable == MachineSpec => []MachineSound
  BY MachineInvariant, MachineInvSound, PTL

-----------------------------------------------------------------------------
\* What has happened, in ShopifyAdapter.
Happenings == [to : States, key : States \X Nat]

\* The applied events are as they were when something more happens.
LEMMA GrowthKeeps ==
  ASSUME MachineInv, history \in Seq(Happenings), NEW x \in Happenings,
         history' = Append(history, x), stored' = stored
  PROVE  MachineInv'
<1>0. Len(history) \in Nat /\ DOMAIN history = 1..Len(history)
  BY DEF MachineInv, HistoryKept
<1>1. PICK h : h = history'
  OBVIOUS
<1>2. /\ h \in Seq(Happenings) /\ Len(h) = Len(history) + 1 /\ DOMAIN h = 1..(Len(history) + 1)
      /\ \A t \in 1..Len(history) : h[t] = history[t]
  BY <1>0, <1>1
<1>3. ASSUME NEW g, StateRun(h, stored, g), NEW e \in stored, h[e].to \notin WebhookStates
      PROVE  e \in AppliedIn(h, stored, g)
  <2> DEFINE f == [t \in 0..Len(history) |-> g[t]]
  <2>1. g \in [0..(Len(history) + 1) -> StartStates] /\ g[0] = "none"
    BY <1>2, <1>3 DEF StateRun
  <2>2. f \in [0..Len(history) -> StartStates] /\ f[0] = "none"
    BY <1>0, <2>1
  <2>3. ASSUME NEW t \in 1..Len(history)
        PROVE  f[t] = IF t \in stored /\ history[t].to \in Valid[f[t - 1]] THEN history[t].to ELSE f[t - 1]
    <3>1. t \in 1..Len(h) /\ t \in 0..Len(history) /\ t - 1 \in 0..Len(history)
      BY <1>0, <1>2
    <3>2. g[t] = IF t \in stored /\ h[t].to \in Valid[g[t - 1]] THEN h[t].to ELSE g[t - 1]
      BY <1>3, <3>1 DEF StateRun
    <3>3. f[t] = g[t] /\ f[t - 1] = g[t - 1] /\ h[t] = history[t]
      BY <1>2, <3>1
    <3> HIDE DEF f
    <3> QED
      BY <3>2, <3>3
  <2>4. \A t \in 1..Len(history) : f[t - 1] = g[t - 1]
    BY <1>0
  <2> HIDE DEF f
  <2>5. StateRun(history, stored, f)
    BY <2>2, <2>3 DEF StateRun
  <2>6. e \in 1..Len(history) /\ h[e] = history[e]
    BY <1>0, <1>2 DEF MachineInv
  <2>7. e \in AppliedIn(history, stored, f)
    BY <1>3, <2>5, <2>6 DEF MachineInv, LocalApplied
  <2>8. e \in 1..Len(h)
    BY <1>0, <1>2, <2>6
  <2> QED
    BY <2>4, <2>6, <2>7, <2>8 DEF AppliedIn
<1>4. LocalApplied'
  BY <1>1, <1>3 DEF LocalApplied
<1>5. HistoryKept'
  BY <1>0, <1>1, <1>2 DEF HistoryKept
<1>6. (stored \subseteq DOMAIN history)'
  BY <1>0, <1>1, <1>2 DEF MachineInv
<1> QED
  BY <1>4, <1>5, <1>6 DEF MachineInv

\* The states of a transaction that has a checkout.
CheckoutStates == {"checkout_created", "checkout_expired", "order_created", "payment_pending", "cancelled"} \cup PaidStates

\* They do not lead back.
LEMMA CheckoutLeads ==
  ASSUME NEW s \in StartStates, NEW t \in Valid[s], s \in CheckoutStates
  PROVE  t \in CheckoutStates
<1>1. <<s, t>> \in Transitions
  BY ValidIs
<1> QED
  BY <1>1, InTransitions DEF CheckoutStates, AfterPaid, PaidStates, Refunds, ReturnStates, OfferOpen, MerchantDecisions

\* A transaction with a checkout in the ledger is past the states in which one may be created.
LEMMA CheckoutSettles ==
  ASSUME MachineInv, StoredTo({"checkout_created"}) # {}
  PROVE  State \notin AcceptedStates
<1>0. Len(history) \in Nat /\ DOMAIN history = 1..Len(history) /\ HistoryKept
  BY DEF MachineInv, HistoryKept
<1>1. PICK g : StateRun(history, stored, g) /\ Replay(stored).state = g[Len(history)]
  BY <1>0, ReplayIs
<1>2. PICK m \in stored : history[m].to = "checkout_created"
  BY DEF StoredTo
<1>3. m \in AppliedIn(history, stored, g)
  BY <1>1, <1>2 DEF MachineInv, LocalApplied, WebhookStates, Refunds
<1>4. m \in 1..Len(history) /\ g[m] = "checkout_created"
  BY <1>2, <1>3, <1>1 DEF AppliedIn, StateRun
<1> DEFINE A == {k \in Nat : m + k <= Len(history) => g[m + k] \in CheckoutStates}
<1>5. 0 \in A
  <2>1. m + 0 = m
    BY <1>4
  <2> QED
    BY <1>4, <2>1 DEF CheckoutStates
<1>6. ASSUME NEW k \in Nat, k \in A PROVE k + 1 \in A
  <2> DEFINE x == m + k
  <2> SUFFICES ASSUME x + 1 <= Len(history) PROVE g[m + (k + 1)] \in CheckoutStates
    BY <1>4
  <2>1. m + (k + 1) = x + 1 /\ x + 1 \in 1..Len(history) /\ (x + 1) - 1 = x /\ x <= Len(history) /\ x \in 0..Len(history)
    BY <1>0, <1>4
  <2>2. g[x] \in CheckoutStates
    BY <1>6, <2>1
  <2> HIDE DEF x
  <2>3. g[x] \in StartStates
    BY <1>1, <2>1 DEF StateRun
  <2>4. g[x + 1] = g[x] \/ (g[x + 1] = history[x + 1].to /\ history[x + 1].to \in Valid[g[x]])
    BY <1>1, <2>1 DEF StateRun
  <2>5. g[x + 1] \in CheckoutStates
    BY <2>2, <2>3, <2>4, CheckoutLeads
  <2> QED
    BY <2>1, <2>5
<1> HIDE DEF A
<1>7. \A k \in Nat : k \in A
  BY <1>5, <1>6, NatSetInduction
<1>8. Len(history) - m \in Nat /\ m + (Len(history) - m) = Len(history)
  BY <1>0, <1>4
<1>9. g[Len(history)] \in CheckoutStates
  BY <1>7, <1>8, <1>0 DEF A
<1> QED
  BY <1>1, <1>9 DEF State, Snapshot, AcceptedStates, CheckoutStates, PaidStates, AfterPaid, Refunds, ReturnStates

-----------------------------------------------------------------------------
Records   == [kept : BOOLEAN, draft : Nat, order : BOOLEAN]
CallSteps == {"idle", "draft", "put", "append", "claim", "apply", "update"}
Calls     == [step : CallSteps, event : Nat, seen : Records]

AdapterTyped ==
  /\ history \in Seq(Happenings) /\ ops \in Records /\ call \in [Callers -> Calls]
  /\ drafts \in Nat /\ orderDraft \in Nat

\* Draft orders on record, in a call or of the order are some of those made.
DraftsMade ==
  ops.draft <= drafts /\ orderDraft <= drafts /\ \A c \in Callers : call[c].seen.draft <= drafts

\* A draft order that is about to be put on record is nobody else's.
DraftsOwned ==
  \A c \in Callers : call[c].step = "put" =>
    /\ call[c].seen.draft \notin {0, ops.draft, orderDraft}
    /\ \A b \in Callers : b # c => call[b].seen.draft # call[c].seen.draft

\* The calls that handle a webhook have read a record.
HandlingSteps == {"claim", "apply", "update"}
Handling == \A c \in Callers : call[c].step \in HandlingSteps => call[c].seen.kept

\* An order is known from its webhooks, and came from a draft order.
OrderPlaced ==
  orderDraft = 0 =>
    /\ WebhookEvents = {} /\ ~ops.order
    /\ \A c \in Callers : call[c].step \notin HandlingSteps /\ ~call[c].seen.order

EventsHappened == \A c \in Callers : call[c].step # "idle" => call[c].event \in DOMAIN history

AdapterInv ==
  /\ AdapterTyped /\ MachineInv
  /\ DraftsMade /\ DraftsOwned /\ Handling /\ OrderPlaced /\ EventsHappened

\* The fields of a call and of a record.
LEMMA CallShape ==
  ASSUME AdapterTyped, NEW c \in Callers
  PROVE  /\ call[c].step \in CallSteps /\ call[c].event \in Nat /\ call[c].seen \in Records
         /\ call[c].seen.draft \in Nat /\ ops.draft \in Nat
         /\ call[c] = [step |-> call[c].step, event |-> call[c].event, seen |-> call[c].seen]
<1>1. call[c] \in Calls /\ ops \in Records
  BY DEF AdapterTyped
<1>2. PICK s \in CallSteps, e \in Nat, r \in Records : call[c] = [step |-> s, event |-> e, seen |-> r]
  BY <1>1 DEF Calls
<1>3. call[c].step = s /\ call[c].event = e /\ call[c].seen = r
  BY <1>2
<1>4. \A q \in Records : q.draft \in Nat
  BY DEF Records
<1> QED
  BY <1>1, <1>2, <1>3, <1>4

\* A call that goes on, ends or begins.
CallBecomes(c, s, e, r) == call' = [call EXCEPT ![c] = [step |-> s, event |-> e, seen |-> r]]

\* Goto and Return say that.
LEMMA GotoIs ==
  ASSUME AdapterTyped, NEW c \in Callers, NEW s \in CallSteps, Goto(c, s)
  PROVE  CallBecomes(c, s, call[c].event, call[c].seen)
<1>1. PICK t, e, r : call[c] = [step |-> t, event |-> e, seen |-> r]
  BY CallShape
<1>2. [call[c] EXCEPT !.step = s] = [step |-> s, event |-> e, seen |-> r]
  BY <1>1
<1>3. call' = [call EXCEPT ![c] = [call[c] EXCEPT !.step = s]]
  BY DEF Goto
<1>4. e = call[c].event /\ r = call[c].seen
  BY <1>1
<1> QED
  BY <1>2, <1>3, <1>4 DEF CallBecomes

\* Return leaves nothing of the call.
LEMMA ReturnIs ==
  ASSUME NEW c \in Callers, Return(c)
  PROVE  CallBecomes(c, "idle", 0, NoRecord)
  BY DEF Return, NoCall, CallBecomes

\* The other calls stay.
LEMMA CallAfter ==
  ASSUME AdapterTyped, NEW c \in Callers, NEW s \in CallSteps, NEW e \in Nat, NEW r \in Records,
         CallBecomes(c, s, e, r)
  PROVE  /\ call' \in [Callers -> Calls]
         /\ call'[c].step = s /\ call'[c].event = e /\ call'[c].seen = r
         /\ \A b \in Callers : b # c => call'[b] = call[b]
<1>1. call \in [Callers -> Calls]
  BY DEF AdapterTyped
<1>2. [step |-> s, event |-> e, seen |-> r] \in Calls
  BY DEF Calls
<1>3. call' = [call EXCEPT ![c] = [step |-> s, event |-> e, seen |-> r]]
  BY DEF CallBecomes
<1> QED
  BY <1>1, <1>2, <1>3

\* After submit_offer.
LEMMA AdapterStart ==
  ASSUME AdapterInit
  PROVE  AdapterInv
<1>1. history = <<[to |-> "offer_submitted", key |-> <<"offer_submitted", 0>>]>>
  BY DEF AdapterInit
<1>2. [to |-> "offer_submitted", key |-> <<"offer_submitted", 0>>] \in Happenings
  BY StatesAre DEF Happenings
<1>3. history \in Seq(Happenings) /\ Len(history) = 1 /\ DOMAIN history = 1..1
      /\ history[1] = [to |-> "offer_submitted", key |-> <<"offer_submitted", 0>>]
  BY <1>1, <1>2
<1>4. NoRecord \in Records /\ ops \in Records /\ ops = [kept |-> TRUE, draft |-> 0, order |-> FALSE]
  BY DEF AdapterInit, NoRecord, Records
<1>5. call = [c \in Callers |-> NoCall] /\ NoCall \in Calls
  BY <1>4 DEF AdapterInit, NoCall, Calls, CallSteps
<1>6. AdapterTyped
  BY <1>3, <1>4, <1>5 DEF AdapterInit, AdapterTyped
<1>7. WebhookEvents = {}
  <2>1. history[1].key[2] = 0
    BY <1>3
  <2>2. DOMAIN history = {1}
    BY <1>3
  <2> QED
    BY <2>1, <2>2 DEF WebhookEvents
<1>8. ASSUME NEW g, StateRun(history, stored, g) PROVE \A e \in stored : e \in AppliedIn(history, stored, g)
  <2>1. stored = {1} /\ Len(history) = 1
    BY <1>3 DEF AdapterInit
  <2>2. g[1 - 1] = "none"
    BY <1>8 DEF StateRun
  <2>3. "offer_submitted" \in Valid["none"]
    <3>1. <<"none", "offer_submitted">> \in Transitions
      BY InTransitions
    <3> QED
      BY <3>1, ValidIs DEF StartStates
  <2>4. history[1].to \in Valid[g[1 - 1]]
    BY <1>3, <2>2, <2>3
  <2>5. 1 \in 1..Len(history)
    BY <2>1
  <2> QED
    BY <2>1, <2>4, <2>5 DEF AppliedIn
<1>9. MachineInv
  <2>1. stored \subseteq DOMAIN history
    BY <1>3 DEF AdapterInit
  <2>2. HistoryKept
    BY <1>3 DEF HistoryKept
  <2> QED
    BY <1>8, <2>1, <2>2 DEF MachineInv, LocalApplied
<1>10. \A c \in Callers : call[c].step = "idle" /\ call[c].seen = NoRecord
  BY <1>5 DEF NoCall
<1>11. DraftsMade /\ DraftsOwned /\ Handling /\ EventsHappened
  BY <1>4, <1>10 DEF DraftsMade, DraftsOwned, Handling, EventsHappened, AdapterInit, NoRecord, HandlingSteps
<1>12. OrderPlaced
  BY <1>4, <1>7, <1>10 DEF OrderPlaced, AdapterInit, NoRecord, HandlingSteps
<1> QED
  BY <1>6, <1>9, <1>11, <1>12 DEF AdapterInv

\* A call that makes no new draft order, and puts on record the one it had, if any.
LEMMA CallGoes ==
  ASSUME AdapterInv, NEW c \in Callers, NEW s \in CallSteps \ {"put"}, NEW e \in Nat, NEW r \in Records,
         CallBecomes(c, s, e, r),
         r.draft \in {0, ops.draft, call[c].seen.draft},
         s \in HandlingSteps => r.kept /\ orderDraft # 0,
         r.order => orderDraft # 0,
         ops' \in Records, ops'.draft \in {0, ops.draft, call[c].seen.draft}, ops'.order => orderDraft # 0,
         orderDraft' = orderDraft, drafts' \in {drafts, drafts + 1},
         history' \in Seq(Happenings), DOMAIN history \subseteq DOMAIN history', WebhookEvents' = WebhookEvents,
         s # "idle" => e \in DOMAIN history',
         MachineInv'
  PROVE  AdapterInv'
<1>0. AdapterTyped /\ DraftsMade /\ DraftsOwned /\ Handling /\ OrderPlaced /\ EventsHappened
  BY DEF AdapterInv
<1>1. /\ call' \in [Callers -> Calls]
      /\ call'[c].step = s /\ call'[c].event = e /\ call'[c].seen = r
      /\ \A b \in Callers : b # c => call'[b] = call[b]
  BY <1>0, CallAfter
<1>2. drafts \in Nat /\ orderDraft \in Nat /\ drafts' \in Nat /\ drafts <= drafts'
  BY <1>0 DEF AdapterTyped
<1>3. AdapterTyped'
  BY <1>1, <1>2 DEF AdapterTyped
<1>4. \A b \in Callers : call[b].seen.draft \in Nat /\ call[b].seen.draft <= drafts /\ ops.draft \in Nat /\ ops.draft <= drafts
  BY <1>0, CallShape DEF DraftsMade
<1>5. DraftsMade'
  <2>1. orderDraft' <= drafts'
    BY <1>0, <1>2 DEF DraftsMade
  <2>2. ops'.draft <= drafts'
    BY <1>2, <1>4
  <2>3. ASSUME NEW b \in Callers PROVE call'[b].seen.draft <= drafts'
    <3>1. CASE b = c
      BY <1>1, <1>2, <1>4, <3>1
    <3>2. CASE b # c
      <4>1. call'[b].seen.draft = call[b].seen.draft
        BY <1>1, <3>2
      <4> QED
        BY <1>2, <1>4, <4>1
    <3> QED
      BY <3>1, <3>2
  <2> QED
    BY <2>1, <2>2, <2>3 DEF DraftsMade
<1>6. DraftsOwned'
  <2> SUFFICES ASSUME NEW b \in Callers, call'[b].step = "put"
               PROVE  /\ call'[b].seen.draft \notin {0, ops'.draft, orderDraft'}
                      /\ \A a \in Callers : a # b => call'[a].seen.draft # call'[b].seen.draft
    BY DEF DraftsOwned
  <2>1. b # c /\ call'[b] = call[b]
    BY <1>1
  <2>2. /\ call[b].seen.draft \notin {0, ops.draft, orderDraft}
        /\ \A a \in Callers : a # b => call[a].seen.draft # call[b].seen.draft
    BY <1>0, <2>1 DEF DraftsOwned
  <2>3. r.draft # call[b].seen.draft /\ ops'.draft # call[b].seen.draft
    BY <2>1, <2>2
  <2>4. ASSUME NEW a \in Callers, a # b PROVE call'[a].seen.draft # call'[b].seen.draft
    <3>1. CASE a = c
      BY <1>1, <2>1, <2>3, <3>1
    <3>2. CASE a # c
      BY <1>1, <2>1, <2>2, <2>4, <3>2
    <3> QED
      BY <3>1, <3>2
  <2> QED
    BY <2>1, <2>2, <2>3, <2>4
<1>7. Handling'
  <2> SUFFICES ASSUME NEW b \in Callers, call'[b].step \in HandlingSteps PROVE call'[b].seen.kept
    BY DEF Handling
  <2>1. CASE b = c
    BY <1>1, <2>1
  <2>2. CASE b # c
    <3>1. call'[b] = call[b]
      BY <1>1, <2>2
    <3> QED
      BY <1>0, <3>1 DEF Handling
  <2> QED
    BY <2>1, <2>2
<1>8. OrderPlaced'
  <2> SUFFICES ASSUME orderDraft = 0
               PROVE  /\ WebhookEvents' = {} /\ ~ops'.order
                      /\ \A b \in Callers : call'[b].step \notin HandlingSteps /\ ~call'[b].seen.order
    BY DEF OrderPlaced
  <2>1. WebhookEvents' = {} /\ ~ops'.order
    BY <1>0 DEF OrderPlaced
  <2>2. ASSUME NEW b \in Callers PROVE call'[b].step \notin HandlingSteps /\ ~call'[b].seen.order
    <3>1. CASE b = c
      BY <1>1, <3>1
    <3>2. CASE b # c
      <4>1. call'[b] = call[b]
        BY <1>1, <3>2
      <4> QED
        BY <1>0, <4>1 DEF OrderPlaced
    <3> QED
      BY <3>1, <3>2
  <2> QED
    BY <2>1, <2>2
<1>9. EventsHappened'
  <2> SUFFICES ASSUME NEW b \in Callers, call'[b].step # "idle" PROVE call'[b].event \in DOMAIN history'
    BY DEF EventsHappened
  <2>1. CASE b = c
    BY <1>1, <2>1
  <2>2. CASE b # c
    <3>1. call'[b] = call[b]
      BY <1>1, <2>2
    <3> QED
      BY <1>0, <3>1 DEF EventsHappened
  <2> QED
    BY <2>1, <2>2
<1> QED
  BY <1>3, <1>5, <1>6, <1>7, <1>8, <1>9 DEF AdapterInv

\* The records that are written.
LEMMA RecordFacts ==
  /\ NoRecord \in Records /\ NoRecord.draft = 0 /\ ~NoRecord.order /\ ~NoRecord.kept
  /\ \A r \in Records : /\ [r EXCEPT !.kept = TRUE] \in Records /\ [r EXCEPT !.kept = TRUE].draft = r.draft
                        /\ [r EXCEPT !.kept = TRUE].order = r.order
                        /\ [r EXCEPT !.order = TRUE] \in Records /\ [r EXCEPT !.order = TRUE].draft = r.draft
                        /\ [r EXCEPT !.order = TRUE].order
  /\ \A n \in Nat : /\ [NoRecord EXCEPT !.draft = n] \in Records /\ [NoRecord EXCEPT !.draft = n].draft = n
                    /\ [NoRecord EXCEPT !.draft = n].order = NoRecord.order
<1>1. NoRecord \in Records /\ NoRecord.draft = 0 /\ ~NoRecord.order /\ ~NoRecord.kept
  BY DEF NoRecord, Records
<1>2. ASSUME NEW r \in Records
      PROVE  /\ [r EXCEPT !.kept = TRUE] \in Records /\ [r EXCEPT !.kept = TRUE].draft = r.draft
             /\ [r EXCEPT !.kept = TRUE].order = r.order
             /\ [r EXCEPT !.order = TRUE] \in Records /\ [r EXCEPT !.order = TRUE].draft = r.draft
             /\ [r EXCEPT !.order = TRUE].order
  BY DEF Records
<1>3. ASSUME NEW n \in Nat
      PROVE  /\ [NoRecord EXCEPT !.draft = n] \in Records /\ [NoRecord EXCEPT !.draft = n].draft = n
             /\ [NoRecord EXCEPT !.draft = n].order = NoRecord.order
  BY <1>1 DEF Records
<1> QED
  BY <1>1, <1>2, <1>3

-----------------------------------------------------------------------------
\* Nothing happens.
LEMMA SameHistory ==
  ASSUME AdapterTyped, history' = history
  PROVE  /\ history' \in Seq(Happenings) /\ DOMAIN history \subseteq DOMAIN history' /\ WebhookEvents' = WebhookEvents
  BY DEF AdapterTyped, WebhookEvents

\* An event of this side happens.
LEMMA OwnEvent ==
  ASSUME AdapterInv, NEW to \in States, history' = Append(history, [to |-> to, key |-> LocalKey(to)]), stored' = stored
  PROVE  /\ history' \in Seq(Happenings) /\ DOMAIN history \subseteq DOMAIN history' /\ WebhookEvents' = WebhookEvents
         /\ Len(history) + 1 \in DOMAIN history' /\ Len(history) + 1 \in Nat /\ MachineInv'
<1> DEFINE x == [to |-> to, key |-> LocalKey(to)]
<1>1. x \in Happenings /\ x.key[2] = 0
  BY DEF Happenings, LocalKey
<1>2. history \in Seq(Happenings) /\ MachineInv
  BY DEF AdapterInv, AdapterTyped
<1> HIDE DEF x
<1>3. history' = Append(history, x)
  BY DEF x
<1>4. PICK h : h = history'
  OBVIOUS
<1>5. /\ h \in Seq(Happenings) /\ Len(history) \in Nat /\ DOMAIN history = 1..Len(history)
      /\ DOMAIN h = 1..(Len(history) + 1) /\ h[Len(history) + 1] = x
      /\ \A t \in 1..Len(history) : h[t] = history[t]
  BY <1>1, <1>2, <1>3, <1>4
<1>6. DOMAIN h = DOMAIN history \cup {Len(history) + 1}
  BY <1>5
<1>7. {e \in DOMAIN h : h[e].key[2] # 0} = {e \in DOMAIN history : history[e].key[2] # 0}
  BY <1>1, <1>5, <1>6
<1>8. WebhookEvents' = WebhookEvents
  BY <1>4, <1>7 DEF WebhookEvents
<1>9. MachineInv'
  BY <1>1, <1>2, <1>3, GrowthKeeps
<1> QED
  BY <1>4, <1>5, <1>6, <1>8, <1>9

\* A call of merchant or buyer begins.
LEMMA BeginKeeps ==
  ASSUME AdapterInv, NEW c \in Callers, NEW to \in States, NEW s \in {"append", "draft"}, Begin(c, to, s)
  PROVE  AdapterInv'
<1>1. /\ history' = Append(history, [to |-> to, key |-> LocalKey(to)])
      /\ CallBecomes(c, s, Len(history) + 1, ops)
      /\ UNCHANGED <<stored, ops, drafts, orderDraft>>
  BY DEF Begin, CallBecomes
<1>2. /\ history' \in Seq(Happenings) /\ DOMAIN history \subseteq DOMAIN history' /\ WebhookEvents' = WebhookEvents
      /\ Len(history) + 1 \in DOMAIN history' /\ Len(history) + 1 \in Nat /\ MachineInv'
  BY <1>1, OwnEvent
<1>3. ops \in Records /\ s \in CallSteps \ {"put"} /\ s \notin HandlingSteps
  BY DEF AdapterInv, AdapterTyped, CallSteps, HandlingSteps
<1>4. ops.order => orderDraft # 0
  BY DEF AdapterInv, OrderPlaced
<1> QED
  BY <1>1, <1>2, <1>3, <1>4, CallGoes

\* A call returns, or an event is appended and it returns.
LEMMA ReturnKeeps ==
  ASSUME AdapterInv, NEW c \in Callers, Return(c), ops' \in Records, ops'.draft \in {0, ops.draft, call[c].seen.draft},
         ops'.order => orderDraft # 0, history' = history, orderDraft' = orderDraft, drafts' \in {drafts, drafts + 1},
         MachineInv'
  PROVE  AdapterInv'
<1>1. CallBecomes(c, "idle", 0, NoRecord) /\ 0 \in Nat
  BY ReturnIs
<1>2. /\ history' \in Seq(Happenings) /\ DOMAIN history \subseteq DOMAIN history' /\ WebhookEvents' = WebhookEvents
  BY SameHistory DEF AdapterInv
<1>3. "idle" \in CallSteps \ {"put"} /\ "idle" \notin HandlingSteps
  BY DEF CallSteps, HandlingSteps
<1> QED
  BY <1>1, <1>2, <1>3, RecordFacts, CallGoes

\* A call goes on to its next step.
LEMMA GotoKeeps ==
  ASSUME AdapterInv, NEW c \in Callers, NEW s \in {"append", "apply", "update"}, Goto(c, s),
         call[c].step # "idle", s = "append" \/ call[c].step \in HandlingSteps,
         ops' \in Records, ops'.draft \in {0, ops.draft, call[c].seen.draft},
         ops'.order => orderDraft # 0, history' = history, orderDraft' = orderDraft, drafts' = drafts,
         MachineInv'
  PROVE  AdapterInv'
<1>0. AdapterTyped /\ Handling /\ OrderPlaced /\ EventsHappened
  BY DEF AdapterInv
<1>1. s \in CallSteps \ {"put"} /\ s # "idle"
  BY DEF CallSteps
<1>2. CallBecomes(c, s, call[c].event, call[c].seen)
  BY <1>0, <1>1, GotoIs
<1>3. /\ history' \in Seq(Happenings) /\ DOMAIN history \subseteq DOMAIN history' /\ WebhookEvents' = WebhookEvents
  BY <1>0, SameHistory
<1>4. call[c].event \in Nat /\ call[c].seen \in Records /\ call[c].event \in DOMAIN history
  BY <1>0, CallShape DEF EventsHappened
<1>5. s \in HandlingSteps => call[c].seen.kept /\ orderDraft # 0
  <2>1. CASE s = "append"
    BY <2>1 DEF HandlingSteps
  <2>2. CASE call[c].step \in HandlingSteps
    BY <1>0, <2>2 DEF Handling, OrderPlaced
  <2> QED
    BY <2>1, <2>2
<1>6. call[c].seen.order => orderDraft # 0
  BY <1>0 DEF OrderPlaced
<1>7. PICK e \in Nat, r \in Records : e = call[c].event /\ r = call[c].seen
  BY <1>4
<1> QED
  BY <1>1, <1>2, <1>3, <1>4, <1>5, <1>6, <1>7, CallGoes

\* The record stays.
LEMMA SameOps ==
  ASSUME AdapterInv, ops' = ops
  PROVE  ops' \in Records /\ ops'.draft = ops.draft /\ (ops'.order => orderDraft # 0)
  BY DEF AdapterInv, AdapterTyped, OrderPlaced

\* The ledger stays.
LEMMA MachineSame ==
  ASSUME AdapterInv, history' = history, stored' = stored
  PROVE  MachineInv'
  BY DEF AdapterInv, MachineInv, HistoryKept, LocalApplied

-----------------------------------------------------------------------------
\* The steps of the adapter, one by one.
LEMMA LocalCallKeeps == ASSUME AdapterInv, NEW c \in Callers, LocalCall(c) PROVE AdapterInv'
<1>1. PICK to \in LocalCalls : Begin(c, to, "append")
  BY DEF LocalCall
<1>2. to \in States
  BY LocalCallsAssumption, StatesAre
<1> QED
  BY <1>1, <1>2, BeginKeeps

LEMMA CheckoutCallKeeps == ASSUME AdapterInv, NEW c \in Callers, CheckoutCall(c) PROVE AdapterInv'
<1>1. PICK s \in {"append", "draft"} : Begin(c, "checkout_created", s)
  BY DEF CheckoutCall
<1>2. "checkout_created" \in States
  BY StatesAre
<1> QED
  BY <1>1, <1>2, BeginKeeps

LEMMA MatureCallKeeps == ASSUME AdapterInv, NEW c \in Callers, MatureCall(c) PROVE AdapterInv'
<1>1. Begin(c, "mature", "append") /\ "mature" \in States
  BY StatesAre DEF MatureCall
<1> QED
  BY <1>1, BeginKeeps

\* The new draft order has a number of its own.
LEMMA DraftCreatedKeeps == ASSUME AdapterInv, NEW c \in Callers, DraftCreated(c) PROVE AdapterInv'
<1>0. AdapterTyped /\ DraftsMade /\ DraftsOwned /\ Handling /\ OrderPlaced /\ EventsHappened
  BY DEF AdapterInv
<1>1. /\ call[c].step = "draft" /\ drafts' = drafts + 1
      /\ call' = [call EXCEPT ![c].step = "put", ![c].seen.draft = drafts + 1]
      /\ UNCHANGED <<history, stored, ops, orderDraft>>
  BY DEF DraftCreated, Step
<1>2. PICK e \in Nat, r \in Records : call[c] = [step |-> "draft", event |-> e, seen |-> r]
  BY <1>0, <1>1, CallShape
<1>3. drafts \in Nat /\ drafts + 1 \in Nat /\ call \in [Callers -> Calls]
  BY <1>0 DEF AdapterTyped
<1> DEFINE q == [r EXCEPT !.draft = drafts + 1]
<1>4. q \in Records /\ q.draft = drafts + 1 /\ q.order = r.order
  BY <1>3 DEF Records
<1>5. [[call[c] EXCEPT !.step = "put"] EXCEPT !.seen.draft = drafts + 1] = [step |-> "put", event |-> e, seen |-> q]
  <2>1. PICK a : a = [call[c] EXCEPT !.step = "put"]
    OBVIOUS
  <2>2. a = [step |-> "put", event |-> e, seen |-> r]
    BY <1>2, <2>1
  <2>3. [a EXCEPT !.seen.draft = drafts + 1] = [a EXCEPT !.seen = [a.seen EXCEPT !.draft = drafts + 1]]
    BY <2>2
  <2>4. [a EXCEPT !.seen = q] = [step |-> "put", event |-> e, seen |-> q]
    <3> HIDE DEF q
    <3> QED
      BY <2>2
  <2>5. a.seen = r
    BY <2>2
  <2> QED
    BY <2>1, <2>3, <2>4, <2>5
<1>6. call' = [call EXCEPT ![c] = [[call[c] EXCEPT !.step = "put"] EXCEPT !.seen.draft = drafts + 1]]
  BY <1>1
<1> HIDE DEF q
<1>7. CallBecomes(c, "put", e, q)
  BY <1>5, <1>6 DEF CallBecomes
<1>8. "put" \in CallSteps
  BY DEF CallSteps
<1>9. /\ call' \in [Callers -> Calls]
      /\ call'[c].step = "put" /\ call'[c].event = e /\ call'[c].seen = q
      /\ \A b \in Callers : b # c => call'[b] = call[b]
  BY <1>0, <1>4, <1>7, <1>8, CallAfter
<1>10. /\ \A b \in Callers : call[b].seen.draft \in Nat /\ call[b].seen.draft <= drafts
       /\ ops.draft \in Nat /\ ops.draft <= drafts /\ orderDraft \in Nat /\ orderDraft <= drafts
  BY <1>0, CallShape DEF DraftsMade, AdapterTyped
<1>11. AdapterTyped'
  BY <1>0, <1>1, <1>3, <1>9 DEF AdapterTyped
<1>12. DraftsMade'
  <2> SUFFICES ASSUME NEW b \in Callers PROVE call'[b].seen.draft <= drafts + 1
    BY <1>1, <1>3, <1>10 DEF DraftsMade
  <2>1. CASE b = c
    BY <1>3, <1>4, <1>9, <2>1
  <2>2. CASE b # c
    <3>1. call'[b].seen.draft = call[b].seen.draft
      BY <1>9, <2>2
    <3> QED
      BY <1>3, <1>10, <3>1
  <2> QED
    BY <2>1, <2>2
<1>13. DraftsOwned'
  <2> SUFFICES ASSUME NEW b \in Callers, call'[b].step = "put"
               PROVE  /\ call'[b].seen.draft \notin {0, ops.draft, orderDraft}
                      /\ \A a \in Callers : a # b => call'[a].seen.draft # call'[b].seen.draft
    BY <1>1 DEF DraftsOwned
  <2>1. CASE b = c
    <3>1. call'[b].seen.draft = drafts + 1
      BY <1>4, <1>9, <2>1
    <3>2. \A a \in Callers : a # b => call'[a].seen.draft = call[a].seen.draft
      BY <1>9, <2>1
    <3> QED
      BY <1>3, <1>10, <3>1, <3>2
  <2>2. CASE b # c
    <3>1. call'[b] = call[b]
      BY <1>9, <2>2
    <3>2. /\ call[b].seen.draft \notin {0, ops.draft, orderDraft}
          /\ \A a \in Callers : a # b => call[a].seen.draft # call[b].seen.draft
      BY <1>0, <3>1 DEF DraftsOwned
    <3>3. ASSUME NEW a \in Callers, a # b PROVE call'[a].seen.draft # call[b].seen.draft
      <4>1. CASE a = c
        <5>1. call'[a].seen.draft = drafts + 1
          BY <1>4, <1>9, <4>1
        <5> QED
          BY <1>3, <1>10, <5>1
      <4>2. CASE a # c
        BY <1>9, <3>2, <3>3, <4>2
      <4> QED
        BY <4>1, <4>2
    <3> QED
      BY <3>1, <3>2, <3>3
  <2> QED
    BY <2>1, <2>2
<1>14. Handling'
  <2> SUFFICES ASSUME NEW b \in Callers, call'[b].step \in HandlingSteps PROVE call'[b].seen.kept
    BY DEF Handling
  <2>1. b # c
    BY <1>9 DEF HandlingSteps
  <2>2. call'[b] = call[b]
    BY <1>9, <2>1
  <2> QED
    BY <1>0, <2>2 DEF Handling
<1>15. OrderPlaced'
  <2> SUFFICES ASSUME orderDraft = 0
               PROVE  /\ WebhookEvents' = {} /\ ~ops'.order
                      /\ \A b \in Callers : call'[b].step \notin HandlingSteps /\ ~call'[b].seen.order
    BY <1>1 DEF OrderPlaced
  <2>1. WebhookEvents' = {} /\ ~ops'.order
    BY <1>0, <1>1, SameHistory DEF OrderPlaced
  <2>2. ASSUME NEW b \in Callers PROVE call'[b].step \notin HandlingSteps /\ ~call'[b].seen.order
    <3>1. CASE b = c
      <4>1. ~call[c].seen.order /\ call[c].seen = r
        BY <1>0, <1>2 DEF OrderPlaced
      <4>2. ~q.order
        BY <1>4, <4>1
      <4> QED
        BY <1>9, <3>1, <4>2 DEF HandlingSteps
    <3>2. CASE b # c
      <4>1. call'[b] = call[b]
        BY <1>9, <3>2
      <4> QED
        BY <1>0, <4>1 DEF OrderPlaced
    <3> QED
      BY <3>1, <3>2
  <2> QED
    BY <2>1, <2>2
<1>16. EventsHappened'
  <2> SUFFICES ASSUME NEW b \in Callers, call'[b].step # "idle" PROVE call'[b].event \in DOMAIN history
    BY <1>1 DEF EventsHappened
  <2>1. call[b].step # "idle" /\ call'[b].event = call[b].event
    <3>1. CASE b = c
      BY <1>1, <1>2, <1>9, <3>1
    <3>2. CASE b # c
      BY <1>9, <3>2
    <3> QED
      BY <3>1, <3>2
  <2> QED
    BY <1>0, <2>1 DEF EventsHappened
<1>17. MachineInv'
  BY <1>1, MachineSame
<1> QED
  BY <1>11, <1>12, <1>13, <1>14, <1>15, <1>16, <1>17 DEF AdapterInv

LEMMA DraftFailsKeeps == ASSUME AdapterInv, NEW c \in Callers, DraftFails(c) PROVE AdapterInv'
<1>1. Return(c) /\ UNCHANGED <<history, stored, ops, orderDraft>> /\ drafts' \in {drafts, drafts + 1}
  BY DEF DraftFails
<1>2. MachineInv' /\ ops' \in Records /\ ops'.draft = ops.draft /\ (ops'.order => orderDraft # 0)
  BY <1>1, MachineSame, SameOps
<1> QED
  BY <1>1, <1>2, ReturnKeeps

LEMMA CrashKeeps == ASSUME AdapterInv, NEW c \in Callers, Crash(c) PROVE AdapterInv'
<1>1. Return(c) /\ UNCHANGED <<history, stored, ops, drafts, orderDraft>>
  BY DEF Crash
<1>2. MachineInv' /\ ops' \in Records /\ ops'.draft = ops.draft /\ (ops'.order => orderDraft # 0)
  BY <1>1, MachineSame, SameOps
<1> QED
  BY <1>1, <1>2, ReturnKeeps

LEMMA PutCheckoutKeeps == ASSUME AdapterInv, NEW c \in Callers, PutCheckout(c) PROVE AdapterInv'
<1>1. /\ call[c].step = "put" /\ Goto(c, "append") /\ UNCHANGED <<history, stored, drafts, orderDraft>>
      /\ ops' = [[NoRecord EXCEPT !.draft = call[c].seen.draft] EXCEPT !.kept = TRUE]
  BY DEF PutCheckout, Step, Put
<1>2. call[c].seen.draft \in Nat
  BY CallShape DEF AdapterInv
<1>3. PICK r \in Records : r = [NoRecord EXCEPT !.draft = call[c].seen.draft] /\ r.draft = call[c].seen.draft /\ ~r.order
  BY <1>2, RecordFacts
<1>4. ops' = [r EXCEPT !.kept = TRUE]
  BY <1>1, <1>3
<1>5. ops' \in Records /\ ops'.draft = call[c].seen.draft /\ ~ops'.order
  BY <1>3, <1>4, RecordFacts
<1>6. MachineInv'
  BY <1>1, MachineSame
<1> QED
  BY <1>1, <1>5, <1>6, GotoKeeps

\* state.append_event, of a call that is under way.
LEMMA EventAppended ==
  ASSUME AdapterInv, NEW c \in Callers, call[c].step # "idle", AppendEvent(Event(c)), history' = history
  PROVE  MachineInv'
<1>1. call[c].event \in DOMAIN history /\ MachineInv
  BY DEF AdapterInv, EventsHappened
<1>2. PICK e \in DOMAIN history : e = Event(c)
  BY <1>1 DEF Event
<1>3. AppendEvent(e)
  BY <1>2
<1> QED
  BY <1>1, <1>3, AppendKeeps

LEMMA AppendLocalKeeps == ASSUME AdapterInv, NEW c \in Callers, AppendLocal(c) PROVE AdapterInv'
<1>1. /\ call[c].step # "idle" /\ AppendEvent(Event(c)) /\ Return(c)
      /\ UNCHANGED <<history, ops, drafts, orderDraft>>
  BY DEF AppendLocal, Step
<1>2. MachineInv' /\ ops' \in Records /\ ops'.draft = ops.draft /\ (ops'.order => orderDraft # 0)
  BY <1>1, EventAppended, SameOps
<1> QED
  BY <1>1, <1>2, ReturnKeeps

LEMMA ClaimKeeps == ASSUME AdapterInv, NEW c \in Callers, Claim(c) PROVE AdapterInv'
<1>1. /\ call[c].step = "claim" /\ Goto(c, "apply") /\ UNCHANGED <<history, stored, ops, drafts, orderDraft>>
  BY DEF Claim, Step
<1>2. MachineInv' /\ ops' \in Records /\ ops'.draft = ops.draft /\ (ops'.order => orderDraft # 0)
  BY <1>1, MachineSame, SameOps
<1>3. call[c].step \in HandlingSteps
  BY <1>1 DEF HandlingSteps
<1> QED
  BY <1>1, <1>2, <1>3, GotoKeeps

LEMMA ApplyKeeps == ASSUME AdapterInv, NEW c \in Callers, Apply(c) PROVE AdapterInv'
<1>1. /\ call[c].step = "apply" /\ AppendEvent(Event(c)) /\ (Return(c) \/ Goto(c, "update"))
      /\ UNCHANGED <<history, ops, drafts, orderDraft>>
  BY DEF Apply, Step
<1>2. MachineInv' /\ ops' \in Records /\ ops'.draft = ops.draft /\ (ops'.order => orderDraft # 0)
  BY <1>1, EventAppended, SameOps
<1>3. call[c].step \in HandlingSteps
  BY <1>1 DEF HandlingSteps
<1>4. CASE Return(c)
  BY <1>1, <1>2, <1>4, ReturnKeeps
<1>5. CASE Goto(c, "update")
  BY <1>1, <1>2, <1>3, <1>5, GotoKeeps
<1> QED
  BY <1>1, <1>4, <1>5

LEMMA UpdateKeeps == ASSUME AdapterInv, NEW c \in Callers, Update(c) PROVE AdapterInv'
<1>1. /\ call[c].step = "update" /\ Return(c) /\ UNCHANGED <<history, stored, drafts, orderDraft>>
      /\ ops' = [[call[c].seen EXCEPT !.order = TRUE] EXCEPT !.kept = TRUE]
  BY DEF Update, Step, Put
<1>2. call[c].seen \in Records
  BY CallShape DEF AdapterInv
<1>3. PICK r \in Records : r = [call[c].seen EXCEPT !.order = TRUE] /\ r.draft = call[c].seen.draft
  BY <1>2, RecordFacts
<1>4. ops' = [r EXCEPT !.kept = TRUE]
  BY <1>1, <1>3
<1>5. ops' \in Records /\ ops'.draft = call[c].seen.draft
  BY <1>3, <1>4, RecordFacts
<1>6. orderDraft # 0
  BY <1>1 DEF AdapterInv, OrderPlaced, HandlingSteps
<1>7. MachineInv'
  BY <1>1, MachineSame
<1> QED
  BY <1>1, <1>5, <1>6, <1>7, ReturnKeeps

LEMMA ReceiveKeeps == ASSUME AdapterInv, NEW c \in Callers, NEW e \in DOMAIN history, Receive(c, e) PROVE AdapterInv'
<1>1. /\ e \in WebhookEvents /\ ops.kept /\ CallBecomes(c, "claim", e, ops)
      /\ UNCHANGED <<history, stored, ops, drafts, orderDraft>>
  BY DEF Receive, Missing, CallBecomes
<1>2. MachineInv' /\ ops' \in Records /\ ops'.draft = ops.draft /\ (ops'.order => orderDraft # 0)
  BY <1>1, MachineSame, SameOps
<1>3. orderDraft # 0
  BY <1>1 DEF AdapterInv, OrderPlaced
<1>4. /\ history' \in Seq(Happenings) /\ DOMAIN history \subseteq DOMAIN history' /\ WebhookEvents' = WebhookEvents
  BY <1>1, SameHistory DEF AdapterInv
<1>5. "claim" \in CallSteps \ {"put"} /\ e \in Nat /\ ops \in Records
  BY DEF CallSteps, AdapterInv, AdapterTyped
<1> QED
  BY <1>1, <1>2, <1>3, <1>4, <1>5, CallGoes

\* No call goes on.
LEMMA CallsStay ==
  ASSUME AdapterInv, call' = call, ops' \in Records, ops'.draft \in {0, ops.draft}, ops'.order => orderDraft' # 0,
         orderDraft' \in {orderDraft, ops.draft}, orderDraft # 0 => orderDraft' = orderDraft, drafts' = drafts,
         history' \in Seq(Happenings), DOMAIN history \subseteq DOMAIN history',
         WebhookEvents' = WebhookEvents \/ orderDraft' # 0, MachineInv'
  PROVE  AdapterInv'
<1>0. AdapterTyped /\ DraftsMade /\ DraftsOwned /\ Handling /\ OrderPlaced /\ EventsHappened
  BY DEF AdapterInv
<1>1. AdapterTyped'
  <2>1. ops.draft \in Nat
    BY <1>0 DEF AdapterTyped, Records
  <2> QED
    BY <1>0, <2>1 DEF AdapterTyped
<1>2. DraftsMade'
  <2>1. ops'.draft <= drafts /\ orderDraft' <= drafts
    BY <1>0 DEF DraftsMade, AdapterTyped
  <2> QED
    BY <1>0, <2>1 DEF DraftsMade
<1>3. DraftsOwned'
  BY <1>0 DEF DraftsOwned
<1>4. Handling' /\ EventsHappened'
  BY <1>0 DEF Handling, EventsHappened
<1>5. OrderPlaced'
  <2> SUFFICES ASSUME orderDraft' = 0
               PROVE  /\ WebhookEvents' = {} /\ ~ops'.order
                      /\ \A b \in Callers : call[b].step \notin HandlingSteps /\ ~call[b].seen.order
    BY DEF OrderPlaced
  <2>1. orderDraft = 0
    OBVIOUS
  <2> QED
    BY <1>0, <2>1 DEF OrderPlaced
<1> QED
  BY <1>1, <1>2, <1>3, <1>4, <1>5 DEF AdapterInv

LEMMA DeleteKeeps == ASSUME AdapterInv, DeleteCustomerData PROVE AdapterInv'
<1>1. ops' = NoRecord /\ UNCHANGED <<history, stored, drafts, orderDraft, call>>
  BY DEF DeleteCustomerData
<1>2. MachineInv'
  BY <1>1, MachineSame
<1>3. /\ history' \in Seq(Happenings) /\ DOMAIN history \subseteq DOMAIN history' /\ WebhookEvents' = WebhookEvents
  BY <1>1, SameHistory DEF AdapterInv
<1>4. ops' \in Records /\ ops'.draft = 0 /\ ~ops'.order
  BY <1>1, RecordFacts
<1> QED
  BY <1>1, <1>2, <1>3, <1>4, CallsStay

LEMMA HappenKeeps == ASSUME AdapterInv, NEW to \in Topics, Happen(to) PROVE AdapterInv'
<1> DEFINE x == [to |-> to, key |-> <<to, Len(history) + 1>>]
<1>0. history \in Seq(Happenings) /\ MachineInv
  BY DEF AdapterInv, AdapterTyped
<1>1. to \in States /\ Len(history) + 1 \in Nat
  BY <1>0, StatesAre DEF Topics, WebhookStates, Refunds
<1>2. x \in Happenings
  BY <1>1 DEF Happenings
<1>3. history' = Append(history, x) /\ UNCHANGED <<stored, ops, drafts, call>>
  BY DEF Happen
<1>4. MachineInv'
  <2> HIDE DEF x
  <2> QED
    BY <1>0, <1>2, <1>3, GrowthKeeps
<1>5. history' \in Seq(Happenings) /\ DOMAIN history \subseteq DOMAIN history'
  <2> HIDE DEF x
  <2>1. PICK h : h = history'
    OBVIOUS
  <2>2. h \in Seq(Happenings) /\ DOMAIN history \subseteq DOMAIN h
    BY <1>0, <1>2, <1>3, <2>1
  <2> QED
    BY <2>1, <2>2
<1>6. orderDraft' # 0 /\ orderDraft' \in {orderDraft, ops.draft} /\ (orderDraft # 0 => orderDraft' = orderDraft)
  BY DEF Happen
<1>7. ops' \in Records /\ ops'.draft = ops.draft
  BY <1>3, SameOps
<1> QED
  BY <1>3, <1>4, <1>5, <1>6, <1>7, CallsStay

\* The inductive invariant of the adapter: every draft order has one caller, an order is known
\* from webhooks only, and what is stored of this side is applied.
THEOREM AdapterInvariant == AdapterSpec => []AdapterInv
<1>1. AdapterInit => AdapterInv
  BY AdapterStart
<1>2. AdapterInv /\ [AdapterNext]_adapterVars => AdapterInv'
  <2> SUFFICES ASSUME AdapterInv, [AdapterNext]_adapterVars PROVE AdapterInv'
    OBVIOUS
  <2>1. CASE UNCHANGED adapterVars
    <3>1. UNCHANGED <<history, stored, ops, drafts, orderDraft, call>>
      BY <2>1 DEF adapterVars
    <3>2. MachineInv' /\ ops' \in Records /\ ops'.draft = ops.draft /\ (ops'.order => orderDraft # 0)
      BY <3>1, MachineSame, SameOps
    <3>3. /\ history' \in Seq(Happenings) /\ DOMAIN history \subseteq DOMAIN history' /\ WebhookEvents' = WebhookEvents
      BY <3>1, SameHistory DEF AdapterInv
    <3> QED
      BY <3>1, <3>2, <3>3, CallsStay
  <2>2. CASE AdapterNext
    <3>1. ASSUME NEW c \in Callers, LocalCall(c) PROVE AdapterInv'
      BY <3>1, LocalCallKeeps
    <3>2. ASSUME NEW c \in Callers, CheckoutCall(c) PROVE AdapterInv'
      BY <3>2, CheckoutCallKeeps
    <3>3. ASSUME NEW c \in Callers, MatureCall(c) PROVE AdapterInv'
      BY <3>3, MatureCallKeeps
    <3>4. ASSUME NEW c \in Callers, NEW e \in DOMAIN history, Receive(c, e) PROVE AdapterInv'
      BY <3>4, ReceiveKeeps
    <3>5. ASSUME NEW c \in Callers, CallStep(c) PROVE AdapterInv'
      BY <3>5, DraftCreatedKeeps, PutCheckoutKeeps, AppendLocalKeeps, ClaimKeeps, ApplyKeeps, UpdateKeeps DEF CallStep
    <3>6. ASSUME NEW c \in Callers, DraftFails(c) \/ Crash(c) PROVE AdapterInv'
      BY <3>6, DraftFailsKeeps, CrashKeeps
    <3>7. ASSUME NEW to \in Topics, Happen(to) PROVE AdapterInv'
      BY <3>7, HappenKeeps
    <3>8. ASSUME DeleteCustomerData PROVE AdapterInv'
      BY <3>8, DeleteKeeps
    <3> QED
      BY <2>2, <3>1, <3>2, <3>3, <3>4, <3>5, <3>6, <3>7, <3>8 DEF AdapterNext
  <2> QED
    BY <2>1, <2>2
<1> QED
  BY <1>1, <1>2, PTL DEF AdapterSpec

-----------------------------------------------------------------------------
\* With one draft order, a record that knows the order is not put anew.
LEMMA OrderStays ==
  ASSUME AdapterInv, [AdapterNext]_adapterVars, ops.order, ops'.kept, drafts' <= 1
  PROVE  ops'.order
<1>0. AdapterTyped /\ DraftsMade /\ DraftsOwned /\ OrderPlaced
  BY DEF AdapterInv
<1>1. CASE ops' = ops
  BY <1>1
<1>2. ASSUME NEW c \in Callers, PutCheckout(c) PROVE FALSE
  <2>1. call[c].step = "put" /\ drafts' = drafts
    BY <1>2 DEF PutCheckout, Step
  <2>2. /\ call[c].seen.draft \notin {0, orderDraft} /\ call[c].seen.draft \in Nat /\ call[c].seen.draft <= drafts
        /\ orderDraft \in Nat /\ orderDraft <= drafts /\ drafts \in Nat
    BY <1>0, <2>1, CallShape DEF DraftsOwned, DraftsMade, AdapterTyped
  <2>3. orderDraft # 0
    BY <1>0 DEF OrderPlaced
  <2> QED
    BY <2>1, <2>2, <2>3
<1>3. ASSUME NEW c \in Callers, Update(c) PROVE ops'.order
  <2>1. ops' = [[call[c].seen EXCEPT !.order = TRUE] EXCEPT !.kept = TRUE]
    BY <1>3 DEF Update, Put
  <2>2. call[c].seen \in Records
    BY <1>0, CallShape
  <2>3. PICK r \in Records : r = [call[c].seen EXCEPT !.order = TRUE] /\ r.order
    BY <2>2, RecordFacts
  <2>4. ops' = [r EXCEPT !.kept = TRUE]
    BY <2>1, <2>3
  <2> QED
    BY <2>3, <2>4, RecordFacts
<1>4. CASE DeleteCustomerData
  BY <1>4, RecordFacts DEF DeleteCustomerData
<1>5. \/ ops' = ops \/ DeleteCustomerData
      \/ \E c \in Callers : PutCheckout(c) \/ Update(c)
  <2>1. CASE UNCHANGED adapterVars
    BY <2>1 DEF adapterVars
  <2>2. CASE AdapterNext
    BY <2>2 DEF AdapterNext, LocalCall, CheckoutCall, MatureCall, Begin, Receive, CallStep, DraftCreated, AppendLocal,
                Claim, Apply, DraftFails, Crash, Happen
  <2> QED
    BY <2>1, <2>2
<1> QED
  BY <1>1, <1>2, <1>3, <1>4, <1>5

\* What is in the ledger stays there.
LEMMA LedgerGrows ==
  ASSUME AdapterInv, [AdapterNext]_adapterVars
  PROVE  stored \subseteq stored' /\ \A e \in stored : history'[e] = history[e]
<1>0. history \in Seq(Happenings) /\ stored \subseteq 1..Len(history)
  BY DEF AdapterInv, AdapterTyped, MachineInv, HistoryKept
<1>1. stored \subseteq stored' 
  <2>1. CASE UNCHANGED adapterVars
    BY <2>1 DEF adapterVars
  <2>2. CASE AdapterNext
    BY <2>2 DEF AdapterNext, LocalCall, CheckoutCall, MatureCall, Begin, Receive, CallStep, DraftCreated, PutCheckout,
                AppendLocal, Claim, Apply, Update, DraftFails, Crash, Happen, DeleteCustomerData, AppendEvent, AppendPrelocked
  <2> QED
    BY <2>1, <2>2
<1>2. history' = history \/ \E x : history' = Append(history, x)
  <2>1. CASE UNCHANGED adapterVars
    BY <2>1 DEF adapterVars
  <2>2. CASE AdapterNext
    BY <2>2 DEF AdapterNext, LocalCall, CheckoutCall, MatureCall, Begin, Receive, CallStep, DraftCreated, PutCheckout,
                AppendLocal, Claim, Apply, Update, DraftFails, Crash, Happen, DeleteCustomerData
  <2> QED
    BY <2>1, <2>2
<1>3. \A x : \A e \in 1..Len(history) : Append(history, x)[e] = history[e]
  BY <1>0
<1> QED
  BY <1>0, <1>1, <1>2, <1>3

\* Nothing brings the record back: no call that read it is under way, no webhook is taken
\* without one, and no checkout is created after the first.
LEMMA ForgottenStays ==
  ASSUME AdapterInv, [AdapterNext]_adapterVars, Forgotten
  PROVE  Forgotten'
<1>0. AdapterTyped /\ Handling /\ MachineInv
  BY DEF AdapterInv
<1>1. /\ ~ops.kept /\ StoredTo({"checkout_created"}) # {}
      /\ \A c \in Callers : ~call[c].seen.kept /\ call[c].step \notin {"draft", "put"}
  BY DEF Forgotten, Step
<1>2. StoredTo({"checkout_created"})' # {}
  <2>1. PICK e \in stored : history[e].to = "checkout_created"
    BY <1>1 DEF StoredTo
  <2>2. e \in stored' /\ history'[e].to = "checkout_created"
    BY <2>1, LedgerGrows
  <2> QED
    BY <2>2 DEF StoredTo
<1>3. \A c \in Callers : call[c].step \notin HandlingSteps
  BY <1>0, <1>1 DEF Handling
<1>4. State \notin AcceptedStates
  BY <1>0, <1>1, CheckoutSettles
<1>5. ASSUME NEW c \in Callers, NEW s \in CallSteps \ {"draft", "put"}, NEW e \in Nat, NEW r \in Records, ~r.kept,
             CallBecomes(c, s, e, r)
      PROVE  \A b \in Callers : ~call'[b].seen.kept /\ call'[b].step \notin {"draft", "put"}
  <2>1. /\ call'[c].step = s /\ call'[c].seen = r
        /\ \A b \in Callers : b # c => call'[b] = call[b]
    BY <1>0, <1>5, CallAfter
  <2> SUFFICES ASSUME NEW b \in Callers PROVE ~call'[b].seen.kept /\ call'[b].step \notin {"draft", "put"}
    OBVIOUS
  <2>2. CASE b = c
    BY <1>5, <2>1, <2>2
  <2>3. CASE b # c
    <3>1. call'[b] = call[b]
      BY <2>1, <2>3
    <3> QED
      BY <1>1, <3>1
  <2> QED
    BY <2>2, <2>3
<1> DEFINE Quiet == ~ops'.kept /\ \A b \in Callers : ~call'[b].seen.kept /\ call'[b].step \notin {"draft", "put"}
<1>6. Quiet => Forgotten'
  BY <1>2 DEF Forgotten, Step
<1>7. CASE UNCHANGED adapterVars
  BY <1>1, <1>6, <1>7 DEF adapterVars
<1>8. ASSUME NEW c \in Callers, Return(c), ops' = ops PROVE Quiet
  <2>1. CallBecomes(c, "idle", 0, NoRecord) /\ "idle" \in CallSteps \ {"draft", "put"} /\ 0 \in Nat
    BY <1>8, ReturnIs DEF CallSteps
  <2>2. NoRecord \in Records /\ ~NoRecord.kept
    BY RecordFacts
  <2>3. \A b \in Callers : ~call'[b].seen.kept /\ call'[b].step \notin {"draft", "put"}
    BY <1>5, <2>1, <2>2
  <2> QED
    BY <1>1, <1>8, <2>3
<1>9. ASSUME NEW c \in Callers, NEW to, Begin(c, to, "append") PROVE Quiet
  <2>1. CallBecomes(c, "append", Len(history) + 1, ops) /\ ops' = ops
    BY <1>9 DEF Begin, CallBecomes
  <2>2. "append" \in CallSteps \ {"draft", "put"} /\ ops \in Records /\ Len(history) + 1 \in Nat
    BY <1>0 DEF CallSteps, AdapterTyped
  <2>3. \A b \in Callers : ~call'[b].seen.kept /\ call'[b].step \notin {"draft", "put"}
    BY <1>1, <1>5, <2>1, <2>2
  <2> QED
    BY <1>1, <2>1, <2>3
<1>10. CASE AdapterNext
  <2>1. ASSUME NEW c \in Callers, LocalCall(c) \/ MatureCall(c) PROVE Quiet
    <3>1. \E to : Begin(c, to, "append")
      BY <2>1 DEF LocalCall, MatureCall
    <3> HIDE DEF Quiet
    <3> QED
      BY <1>9, <3>1
  <2>2. ASSUME NEW c \in Callers, CheckoutCall(c) PROVE FALSE
    BY <1>4, <2>2 DEF CheckoutCall
  <2>3. ASSUME NEW c \in Callers, NEW e \in DOMAIN history, Receive(c, e) PROVE FALSE
    BY <1>1, <2>3 DEF Receive, Missing
  <2>4. ASSUME NEW c \in Callers, CallStep(c) PROVE Quiet
    <3>1. CASE AppendLocal(c)
      <4>1. Return(c) /\ ops' = ops
        BY <3>1 DEF AppendLocal
      <4> HIDE DEF Quiet
      <4> QED
        BY <1>8, <4>1
    <3>2. CASE ~AppendLocal(c)
      BY <1>1, <1>3, <2>4, <3>2 DEF CallStep, DraftCreated, PutCheckout, Claim, Apply, Update, Step, HandlingSteps
    <3> QED
      BY <3>1, <3>2
  <2>5. ASSUME NEW c \in Callers, DraftFails(c) \/ Crash(c) PROVE Quiet
    <3>1. Return(c) /\ ops' = ops
      BY <2>5 DEF DraftFails, Crash
    <3> HIDE DEF Quiet
    <3> QED
      BY <1>8, <3>1
  <2>6. ASSUME NEW to \in Topics, Happen(to) PROVE Quiet
    BY <1>1, <2>6 DEF Happen
  <2>7. ASSUME DeleteCustomerData PROVE FALSE
    BY <1>1, <2>7 DEF DeleteCustomerData, Missing
  <2> HIDE DEF Quiet
  <2> QED
    BY <1>6, <1>10, <2>1, <2>2, <2>3, <2>4, <2>5, <2>6, <2>7 DEF AdapterNext
<1> QED
  BY <1>7, <1>10

\* The order stays on record once it is known, and deleted data stay deleted.
THEOREM RecordStaysKept == AdapterSpec => RecordKept
<1>1. AdapterInv /\ [AdapterNext]_adapterVars =>
        [/\ (ops.order /\ ops'.kept /\ drafts' <= 1) => ops'.order
         /\ Forgotten => Forgotten']_adapterVars
  <2> SUFFICES ASSUME AdapterInv, [AdapterNext]_adapterVars
               PROVE  /\ (ops.order /\ ops'.kept /\ drafts' <= 1) => ops'.order
                      /\ Forgotten => Forgotten'
    OBVIOUS
  <2>1. (ops.order /\ ops'.kept /\ drafts' <= 1) => ops'.order
    BY OrderStays
  <2>2. Forgotten => Forgotten'
    BY ForgottenStays
  <2> QED
    BY <2>1, <2>2
<1> QED
  BY <1>1, AdapterInvariant, PTL DEF AdapterSpec, RecordKept
=============================================================================
