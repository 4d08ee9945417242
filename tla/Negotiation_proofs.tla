------------------------- MODULE Negotiation_proofs -------------------------
(***************************************************************************)
(* What holds of Negotiation for every set of offers and prices and every  *)
(* bound, checked by TLAPS.                                                *)
(***************************************************************************)
EXTENDS Negotiation, TLAPS

----------------------------------------------------------------------------
\* Type correctness.

LEMMA GotoType ==
  ASSUME NEW o \in Offers, NEW step \in Steps \ {"idle"}, Goto(o, step)
  PROVE  call' \in CallType
BY DEF Goto, CallType

\* What the replay of each event of a negotiation does to a snapshot.
LEMMA ReplayIs ==
  ASSUME NEW s, NEW e
  PROVE
    /\ e.type = "offer_submitted" =>
         Replay(s, e) = [Blank EXCEPT !.state = e.state, !.offer = e.amount,
                                      !.variant = e.variant]
    /\ e.type = "merchant_accepted" =>
         Replay(s, e) = [[s EXCEPT !.state = e.state] EXCEPT !.terms = s.offer]
    /\ e.type = "merchant_declined" => Replay(s, e) = [s EXCEPT !.state = e.state]
    /\ e.type = "merchant_countered" =>
         Replay(s, e) = [[s EXCEPT !.state = e.state] EXCEPT !.terms = e.amount]
    /\ e.type = "buyer_accepted" =>
         Replay(s, e) = [[s EXCEPT !.state = e.state] EXCEPT !.accepted = e.amount]
    /\ e.type = "checkout_creation_started" =>
         Replay(s, e) = [[s EXCEPT !.state = e.state] EXCEPT !.checkout = "started"]
    /\ e.type = "checkout_creation_failed" =>
         Replay(s, e) = [[s EXCEPT !.state = e.state] EXCEPT !.checkout = "failed"]
    /\ e.type = "checkout_created" =>
         Replay(s, e) = [[s EXCEPT !.state = e.state]
                           EXCEPT !.checkout = "created", !.accepted = e.amount]
<1>1. CASE e.type = "offer_submitted" BY <1>1 DEF Replay
<1>2. CASE e.type = "merchant_accepted" BY <1>2 DEF Replay
<1>3. CASE e.type = "merchant_declined" BY <1>3 DEF Replay
<1>4. CASE e.type = "merchant_countered" BY <1>4 DEF Replay
<1>5. CASE e.type = "buyer_accepted" BY <1>5 DEF Replay
<1>6. CASE e.type = "checkout_creation_started" BY <1>6 DEF Replay
<1>7. CASE e.type = "checkout_creation_failed" BY <1>7 DEF Replay
<1>8. CASE e.type = "checkout_created" BY <1>8 DEF Replay
<1> QED BY <1>1, <1>2, <1>3, <1>4, <1>5, <1>6, <1>7, <1>8

\* The same, field by field, for the fields the invariant speaks about.
LEMMA ReplaySubmitted ==
  ASSUME NEW s, NEW p, NEW v
  PROVE  LET t == Replay(s, [type |-> "offer_submitted", state |-> "offer_submitted",
                             amount |-> p, variant |-> v])
         IN  /\ t.state = "offer_submitted" /\ t.offer = p /\ t.terms = 0
             /\ t.checkout = "none" /\ t.variant = v
BY DEF Replay, Blank

LEMMA ReplayAnswer ==
  ASSUME NEW s \in SnapType, NEW e,
         e.type \in {"merchant_accepted", "merchant_declined", "merchant_countered"}
  PROVE  LET t == Replay(s, e)
         IN  /\ t.state = e.state /\ t.offer = s.offer /\ t.checkout = s.checkout
             /\ t.variant = s.variant
             /\ t.terms = CASE e.type = "merchant_accepted"  -> s.offer
                            [] e.type = "merchant_declined"  -> s.terms
                            [] e.type = "merchant_countered" -> e.amount
<1>1. CASE e.type = "merchant_accepted" BY <1>1 DEF Replay, SnapType
<1>2. CASE e.type = "merchant_declined" BY <1>2 DEF Replay, SnapType
<1>3. CASE e.type = "merchant_countered" BY <1>3 DEF Replay, SnapType
<1> QED BY <1>1, <1>2, <1>3

LEMMA ReplayCheckout ==
  ASSUME NEW s \in SnapType, NEW e,
         e.type \in {"buyer_accepted", "checkout_creation_started",
                     "checkout_creation_failed", "checkout_created"}
  PROVE  LET t == Replay(s, e)
         IN  /\ t.state = e.state /\ t.offer = s.offer /\ t.terms = s.terms
             /\ t.variant = s.variant
             /\ t.accepted = IF e.type \in {"buyer_accepted", "checkout_created"}
                               THEN e.amount ELSE s.accepted
             /\ t.checkout = CASE e.type = "buyer_accepted"            -> s.checkout
                               [] e.type = "checkout_creation_started" -> "started"
                               [] e.type = "checkout_creation_failed"  -> "failed"
                               [] e.type = "checkout_created"          -> "created"
<1>1. CASE e.type = "buyer_accepted" BY <1>1 DEF Replay, SnapType
<1>2. CASE e.type = "checkout_creation_started" BY <1>2 DEF Replay, SnapType
<1>3. CASE e.type = "checkout_creation_failed" BY <1>3 DEF Replay, SnapType
<1>4. CASE e.type = "checkout_created" BY <1>4 DEF Replay, SnapType
<1> QED BY <1>1, <1>2, <1>3, <1>4

LEMMA ReplayType ==
  ASSUME NEW s \in SnapType, NEW e \in Event
  PROVE  Replay(s, e) \in SnapType
<1>1. e.state \in LifecycleStates
  BY DEF Event, LifecycleStates
<1>2. CASE e.type = "offer_submitted"
  <2>1. Blank \in SnapType
    BY DEF Blank, SnapType, LifecycleStates, PaymentStates, Exposures
  <2>2. Replay(s, e) = [Blank EXCEPT !.state = e.state, !.offer = e.amount,
                                     !.variant = e.variant]
    BY <1>2, ReplayIs, Zenon
  <2>3. e.amount \in Nat /\ e.variant \in BOOLEAN
    BY <1>2 DEF Event
  <2> QED BY <1>1, <2>1, <2>2, <2>3 DEF SnapType
<1>3. CASE e.type = "merchant_accepted"
  <2>1. Replay(s, e) = [[s EXCEPT !.state = e.state] EXCEPT !.terms = s.offer]
    BY <1>3, ReplayIs, Zenon
  <2> QED BY <1>1, <2>1 DEF SnapType
<1>4. CASE e.type = "merchant_declined"
  <2>1. Replay(s, e) = [s EXCEPT !.state = e.state]
    BY <1>4, ReplayIs, Zenon
  <2> QED BY <1>1, <2>1 DEF SnapType
<1>5. CASE e.type = "merchant_countered"
  <2>1. Replay(s, e) = [[s EXCEPT !.state = e.state] EXCEPT !.terms = e.amount]
    BY <1>5, ReplayIs, Zenon
  <2>2. e.amount \in Nat BY <1>5 DEF Event
  <2> QED BY <1>1, <2>1, <2>2 DEF SnapType
<1>6. CASE e.type = "buyer_accepted"
  <2>1. Replay(s, e) = [[s EXCEPT !.state = e.state] EXCEPT !.accepted = e.amount]
    BY <1>6, ReplayIs, Zenon
  <2>2. e.amount \in Nat BY <1>6 DEF Event
  <2> QED BY <1>1, <2>1, <2>2 DEF SnapType
<1>7. CASE e.type = "checkout_creation_started"
  <2>1. Replay(s, e) = [[s EXCEPT !.state = e.state] EXCEPT !.checkout = "started"]
    BY <1>7, ReplayIs, Zenon
  <2> QED BY <1>1, <2>1 DEF SnapType
<1>8. CASE e.type = "checkout_creation_failed"
  <2>1. Replay(s, e) = [[s EXCEPT !.state = e.state] EXCEPT !.checkout = "failed"]
    BY <1>8, ReplayIs, Zenon
  <2> QED BY <1>1, <2>1 DEF SnapType
<1>9. CASE e.type = "checkout_created"
  <2>1. Replay(s, e) = [[s EXCEPT !.state = e.state]
                           EXCEPT !.checkout = "created", !.accepted = e.amount]
    BY <1>9, ReplayIs, Zenon
  <2>2. e.amount \in Nat BY <1>9 DEF Event
  <2> QED BY <1>1, <2>1, <2>2 DEF SnapType
<1> QED BY <1>2, <1>3, <1>4, <1>5, <1>6, <1>7, <1>8, <1>9 DEF Event

LEMMA AppendType ==
  ASSUME NEW o \in Offers, NEW e \in Event, Append1(o, e), TypeOK
  PROVE  /\ log' \in [Offers -> Seq(Event)]
         /\ snap' \in [Offers -> SnapType]
BY ReplayType DEF Append1, TypeOK

LEMMA CheckoutEventType ==
  ASSUME NEW o \in Offers, TypeOK,
         NEW type \in {"checkout_creation_started", "checkout_creation_failed",
                       "checkout_created"},
         NEW state \in {"buyer_accepted", "checkout_created"}
  PROVE  CheckoutEvent(o, type, state) \in Event
BY DEF CheckoutEvent, Event, TypeOK, SnapType, LifecycleStates, OrderReadyStates

LEMMA DraftType ==
  ASSUME NEW o \in Offers, TypeOK,
         drafts' = [drafts EXCEPT ![o] = Append(@, snap[o].accepted)]
  PROVE  drafts' \in [Offers -> Seq(Nat)]
BY DEF TypeOK, SnapType

LEMMA InitType == Init => TypeOK
<1> SUFFICES ASSUME Init PROVE TypeOK
  OBVIOUS
<1>1. Blank \in SnapType
  BY DEF Blank, SnapType, LifecycleStates, PaymentStates, Exposures
<1> QED
  BY <1>1, BoundsAssumption DEF Init, TypeOK, CallType

LEMMA StepType == TypeOK /\ [Next]_vars => TypeOK'
<1> SUFFICES ASSUME TypeOK, [Next]_vars PROVE TypeOK'
  OBVIOUS
<1> USE DEF Steps
<1>1. ASSUME NEW o \in Offers, SubmitOffer(o) PROVE TypeOK'
  <2> PICK p \in Prices, v \in BOOLEAN :
        Append1(o, [type |-> "offer_submitted", state |-> "offer_submitted",
                    amount |-> p, variant |-> v])
    BY <1>1 DEF SubmitOffer
  <2>1. [type |-> "offer_submitted", state |-> "offer_submitted",
         amount |-> p, variant |-> v] \in Event
    BY PricesAssumption DEF Event
  <2> QED BY <1>1, <2>1, AppendType DEF SubmitOffer, TypeOK
<1>2. ASSUME NEW o \in Offers, MerchantAct(o) PROVE TypeOK'
  <2>1. ASSUME NEW a \in {"merchant_accepted", "merchant_declined"},
               Append1(o, [type |-> a, state |-> a])
        PROVE  TypeOK'
    <3>1. [type |-> a, state |-> a] \in Event
      BY DEF Event, LifecycleStates, BuyerResponseStates
    <3> QED BY <1>2, <2>1, <3>1, AppendType DEF MerchantAct, TypeOK
  <2>2. ASSUME NEW p \in Prices,
               Append1(o, [type |-> "merchant_countered",
                           state |-> "merchant_countered", amount |-> p])
        PROVE  TypeOK'
    <3>1. [type |-> "merchant_countered", state |-> "merchant_countered",
           amount |-> p] \in Event
      BY PricesAssumption DEF Event, LifecycleStates, BuyerResponseStates
    <3> QED BY <1>2, <2>2, <3>1, AppendType DEF MerchantAct, TypeOK
  <2> QED BY <1>2, <2>1, <2>2 DEF MerchantAct
<1>3. ASSUME NEW o \in Offers, TokenExpires(o) PROVE TypeOK'
  BY <1>3 DEF TokenExpires, TypeOK
<1>4. ASSUME NEW o \in Offers, AcceptBegin(o) PROVE TypeOK'
  <2>1. call' \in CallType
    BY <1>4, GotoType DEF AcceptBegin, NextStep
  <2> QED BY <1>4, <2>1 DEF AcceptBegin, TypeOK
<1>5. ASSUME NEW o \in Offers, AppendBuyerAccepted(o) PROVE TypeOK'
  <2>1. [type |-> "buyer_accepted", state |-> "buyer_accepted",
         amount |-> snap[o].terms] \in Event
    BY DEF Event, TypeOK, SnapType, LifecycleStates
  <2>2. call' \in CallType
    BY <1>5, GotoType DEF AppendBuyerAccepted, NextStep, CallType
  <2> QED BY <1>5, <2>1, <2>2, AppendType DEF AppendBuyerAccepted, TypeOK
<1>6. ASSUME NEW o \in Offers, AppendMissingVariant(o) PROVE TypeOK'
  BY <1>6, CheckoutEventType, AppendType DEF AppendMissingVariant, TypeOK, CallType
<1>7. ASSUME NEW o \in Offers, AppendStarted(o) PROVE TypeOK'
  BY <1>7, CheckoutEventType, AppendType, GotoType DEF AppendStarted, TypeOK
<1>8. ASSUME NEW o \in Offers, DraftCreated(o) PROVE TypeOK'
  BY <1>8, GotoType, DraftType DEF DraftCreated, TypeOK
<1>9. ASSUME NEW o \in Offers, DraftCallFails(o) PROVE TypeOK'
  <2>1. drafts' \in [Offers -> Seq(Nat)]
    BY <1>9, DraftType DEF DraftCallFails, TypeOK
  <2>2. faults' \in 0..MaxFaults
    BY <1>9, BoundsAssumption DEF DraftCallFails, TypeOK
  <2> QED BY <1>9, <2>1, <2>2, GotoType DEF DraftCallFails, TypeOK
<1>10. ASSUME NEW o \in Offers, AppendCheckoutCreated(o) PROVE TypeOK'
  BY <1>10, CheckoutEventType, AppendType, GotoType DEF AppendCheckoutCreated, TypeOK
<1>11. ASSUME NEW o \in Offers, AppendCheckoutRef(o) PROVE TypeOK'
  BY <1>11 DEF AppendCheckoutRef, TypeOK, CallType
<1>12. ASSUME NEW o \in Offers, AppendCheckoutFailed(o) PROVE TypeOK'
  BY <1>12, CheckoutEventType, AppendType DEF AppendCheckoutFailed, TypeOK, CallType
<1>13. ASSUME NEW o \in Offers, WriteFails(o) PROVE TypeOK'
  <2>1. call' \in CallType
    BY <1>13, GotoType DEF WriteFails, CallType
  <2> QED BY <1>13, <2>1, BoundsAssumption DEF WriteFails, TypeOK
<1>14. ASSUME NEW o \in Offers, Crash(o) PROVE TypeOK'
  <2>1. drafts' \in [Offers -> Seq(Nat)]
    BY <1>14, DraftType DEF Crash, TypeOK
  <2>2. faults' \in 0..MaxFaults
    BY <1>14, BoundsAssumption DEF Crash, TypeOK
  <2> QED BY <1>14, <2>1, <2>2 DEF Crash, TypeOK, CallType
<1>15. CASE UNCHANGED vars
  BY <1>15 DEF vars, TypeOK
<1> QED
  BY <1>1, <1>2, <1>3, <1>4, <1>5, <1>6, <1>7, <1>8, <1>9, <1>10, <1>11,
     <1>12, <1>13, <1>14, <1>15 DEF Next, CallStep

\* Every variable keeps its type, for all offers, prices and bounds.
THEOREM NegotiationTypeOK == Spec => []TypeOK
BY InitType, StepType, PTL DEF Spec

----------------------------------------------------------------------------
\* The inductive invariant.

\* The log of an offer only grows: what was asked and agreed stays so.
LEMMA AskedStays ==
  ASSUME NEW o \in Offers, NEW e, Append1(o, e), TypeOK,
         NEW b \in Nat, b <= Len(log[o]) + 1, NEW p, AskedBefore(o, b, p)
  PROVE  AskedBefore(o, b, p)'
<1>1. /\ log'[o] = Append(log[o], e)
      /\ log[o] \in Seq(Event)
  BY DEF Append1, TypeOK
<1>2. \A i \in DOMAIN log[o] : i \in DOMAIN log'[o] /\ log'[o][i] = log[o][i]
  BY <1>1
<1>3. \A m \in DOMAIN log[o] : 1 \in DOMAIN log[o]
  BY <1>1
<1> QED BY <1>1, <1>2, <1>3 DEF AskedBefore, EventsOf

LEMMA AgreedStays ==
  ASSUME NEW o \in Offers, NEW e, Append1(o, e), TypeOK, NEW p, AgreedTo(o, p)
  PROVE  AgreedTo(o, p)'
<1>1. PICK b \in EventsOf(o, "buyer_accepted") :
        log[o][b].amount = p /\ AskedBefore(o, b, p)
  BY DEF AgreedTo
<1>2. log'[o] = Append(log[o], e) /\ log[o] \in Seq(Event)
  BY DEF Append1, TypeOK
<1>3. b \in DOMAIN log[o] /\ log[o][b].type = "buyer_accepted"
  BY DEF EventsOf
<1>4. b \in Nat /\ b <= Len(log[o]) + 1 /\ b \in DOMAIN log'[o] /\ log'[o][b] = log[o][b]
  BY <1>2, <1>3
<1>5. AskedBefore(o, b, p)'
  BY <1>1, <1>4, AskedStays
<1>6. b \in EventsOf(o, "buyer_accepted")'
  BY <1>3, <1>4 DEF EventsOf
<1> QED BY <1>1, <1>4, <1>5, <1>6 DEF AgreedTo

\* An offer a step does not touch keeps its invariant.
LEMMA Untouched ==
  ASSUME NEW o \in Offers, StateInv(o), CheckoutInv(o),
         log'[o] = log[o], snap'[o] = snap[o], refs'[o] = refs[o],
         drafts'[o] = drafts[o], call'.offer # o
  PROVE  StateInv(o)' /\ CheckoutInv(o)' /\ CallInv(o)'
<1>1. StateInv(o)'
  BY DEF StateInv, AskedBefore, AgreedTo, EventsOf
<1>2. CheckoutInv(o)'
  BY DEF CheckoutInv
<1>3. CallInv(o)'
  BY DEF CallInv
<1> QED BY <1>1, <1>2, <1>3

LEMMA InitInv == Init => NegotiationInv
<1> SUFFICES ASSUME Init PROVE NegotiationInv
  OBVIOUS
<1>1. TypeOK BY InitType
<1>2. ASSUME NEW o \in Offers PROVE StateInv(o) /\ CheckoutInv(o) /\ CallInv(o)
  <2>1. /\ log[o] = <<>> /\ snap[o] = Blank /\ refs[o] = <<>>
        /\ drafts[o] = <<>> /\ call.offer # o
    BY NobodyAssumption DEF Init, Idle
  <2>2. Blank.state = "none" /\ Blank.terms = 0 /\ Blank.checkout = "none"
    BY DEF Blank
  <2>3. StateInv(o)
    BY <2>1, <2>2 DEF StateInv, EarlyStates, LateStates, BuyerResponseStates
  <2>4. CheckoutInv(o)
    BY <2>1, <2>2 DEF CheckoutInv
  <2>5. CallInv(o)
    BY <2>1 DEF CallInv
  <2> QED BY <2>3, <2>4, <2>5
<1> QED BY <1>1, <1>2 DEF NegotiationInv

\* A step of offer o preserves the invariant when it does so for o.
LEMMA Focus ==
  ASSUME NEW o \in Offers, NegotiationInv, TypeOK',
         \A q \in Offers \ {o} :
           /\ log'[q] = log[q] /\ snap'[q] = snap[q] /\ refs'[q] = refs[q]
           /\ drafts'[q] = drafts[q] /\ call'.offer # q,
         StateInv(o)', CheckoutInv(o)', CallInv(o)'
  PROVE  NegotiationInv'
<1>1. ASSUME NEW q \in Offers, q # o
      PROVE  StateInv(q)' /\ CheckoutInv(q)' /\ CallInv(q)'
  BY <1>1, Untouched DEF NegotiationInv
<1> QED BY <1>1 DEF NegotiationInv

\* The events and steps of o leave the other offers alone.
LEMMA AppendAt ==
  ASSUME NEW o \in Offers, NEW e, Append1(o, e), TypeOK
  PROVE  /\ log'[o] = Append(log[o], e) /\ snap'[o] = Replay(snap[o], e)
         /\ log[o] \in Seq(Event) /\ snap[o] \in SnapType
         /\ \A q \in Offers \ {o} : log'[q] = log[q] /\ snap'[q] = snap[q]
BY DEF Append1, TypeOK

LEMMA IdleElsewhere ==
  ASSUME NEW o \in Offers, call' = Idle \/ \E step \in Steps : Goto(o, step)
  PROVE  \A q \in Offers \ {o} : call'.offer # q
BY NobodyAssumption DEF Idle, Goto

LEMMA SubmitInv ==
  ASSUME NegotiationInv, TypeOK', NEW o \in Offers, SubmitOffer(o)
  PROVE  NegotiationInv'
<1> PICK p \in Prices, v \in BOOLEAN :
      Append1(o, [type |-> "offer_submitted", state |-> "offer_submitted",
                  amount |-> p, variant |-> v])
  BY DEF SubmitOffer
<1> DEFINE e == [type |-> "offer_submitted", state |-> "offer_submitted",
                 amount |-> p, variant |-> v]
<1>1. /\ log'[o] = <<e>> /\ snap'[o] = Replay(snap[o], e)
      /\ \A q \in Offers \ {o} : log'[q] = log[q] /\ snap'[q] = snap[q]
  BY AppendAt DEF NegotiationInv, SubmitOffer
<1>3. /\ snap'[o].state = "offer_submitted" /\ snap'[o].offer = p
      /\ snap'[o].terms = 0 /\ snap'[o].checkout = "none"
  BY <1>1, ReplaySubmitted
<1>4. drafts[o] = <<>> /\ refs[o] = <<>>
  BY DEF SubmitOffer, NegotiationInv, StateInv, CheckoutInv, EarlyStates
<1>5. call = Idle /\ UNCHANGED <<refs, drafts, call>>
  BY DEF SubmitOffer
<1>6. \A q \in Offers : call'.offer # q
  BY <1>5, NobodyAssumption DEF Idle
<1>7. StateInv(o)'
  BY <1>1, <1>3 DEF StateInv, EarlyStates, LateStates, BuyerResponseStates
<1>8. CheckoutInv(o)'
  BY <1>3, <1>4, <1>5 DEF CheckoutInv
<1>9. CallInv(o)'
  BY <1>6 DEF CallInv
<1> QED BY <1>1, <1>5, <1>6, <1>7, <1>8, <1>9, Focus

LEMMA MerchantInv ==
  ASSUME NegotiationInv, TypeOK', NEW o \in Offers, MerchantAct(o)
  PROVE  NegotiationInv'
<1>1. call = Idle /\ UNCHANGED <<refs, drafts, call>>
  BY DEF MerchantAct
<1>2. \A q \in Offers : call'.offer # q
  BY <1>1, NobodyAssumption DEF Idle
<1>3. /\ snap[o].state = "offer_submitted" /\ snap[o].terms = 0
      /\ snap[o].offer \in Prices /\ log[o] # <<>> /\ log[o][1].amount = snap[o].offer
      /\ snap[o].checkout = "none" /\ drafts[o] = <<>> /\ refs[o] = <<>>
  BY DEF MerchantAct, NegotiationInv, StateInv, CheckoutInv, EarlyStates
<1>4. CallInv(o)'
  BY <1>2 DEF CallInv
<1>5. ASSUME Append1(o, [type |-> "merchant_declined", state |-> "merchant_declined"])
      PROVE  NegotiationInv'
  <2> DEFINE e == [type |-> "merchant_declined", state |-> "merchant_declined"]
  <2>1. /\ log'[o] = Append(log[o], e) /\ snap'[o] = Replay(snap[o], e)
        /\ log[o] \in Seq(Event) /\ snap[o] \in SnapType
        /\ \A q \in Offers \ {o} : log'[q] = log[q] /\ snap'[q] = snap[q]
    BY <1>5, AppendAt DEF NegotiationInv
  <2>3. /\ snap'[o].state = "merchant_declined" /\ snap'[o].terms = 0
        /\ snap'[o].checkout = "none"
    BY <1>3, <2>1, ReplayAnswer
  <2>4. log'[o] # <<>>
    BY <2>1
  <2>5. StateInv(o)'
    BY <2>3, <2>4 DEF StateInv, EarlyStates, LateStates, BuyerResponseStates
  <2>6. CheckoutInv(o)'
    BY <1>1, <1>3, <2>3 DEF CheckoutInv
  <2> QED BY <1>1, <1>2, <1>4, <2>1, <2>5, <2>6, Focus
<1>6. ASSUME Append1(o, [type |-> "merchant_accepted", state |-> "merchant_accepted"])
      PROVE  NegotiationInv'
  <2> DEFINE e == [type |-> "merchant_accepted", state |-> "merchant_accepted"]
  <2>1. /\ log'[o] = Append(log[o], e) /\ snap'[o] = Replay(snap[o], e)
        /\ log[o] \in Seq(Event) /\ snap[o] \in SnapType
        /\ \A q \in Offers \ {o} : log'[q] = log[q] /\ snap'[q] = snap[q]
    BY <1>6, AppendAt DEF NegotiationInv
  <2>3. /\ snap'[o].state = "merchant_accepted" /\ snap'[o].terms = snap[o].offer
        /\ snap'[o].checkout = "none"
    BY <1>3, <2>1, ReplayAnswer
  <2>4. /\ log'[o] # <<>> /\ log'[o][1].amount = snap[o].offer
        /\ Len(log[o]) + 1 \in DOMAIN log'[o]
        /\ log'[o][Len(log[o]) + 1] = e /\ Len(log[o]) + 1 < Len(log'[o]) + 1
    BY <1>3, <2>1
  <2>5. AskedBefore(o, Len(log[o]) + 1, snap[o].terms)'
    BY <2>3, <2>4 DEF AskedBefore, EventsOf
  <2>6. StateInv(o)'
    BY <1>3, <2>3, <2>4, <2>5 DEF StateInv, EarlyStates, LateStates, BuyerResponseStates
  <2>7. CheckoutInv(o)'
    BY <1>1, <1>3, <2>3 DEF CheckoutInv
  <2> QED BY <1>1, <1>2, <1>4, <2>1, <2>6, <2>7, Focus
<1>7. ASSUME NEW p \in Prices,
             Append1(o, [type |-> "merchant_countered",
                         state |-> "merchant_countered", amount |-> p])
      PROVE  NegotiationInv'
  <2> DEFINE e == [type |-> "merchant_countered", state |-> "merchant_countered",
                   amount |-> p]
  <2>1. /\ log'[o] = Append(log[o], e) /\ snap'[o] = Replay(snap[o], e)
        /\ log[o] \in Seq(Event) /\ snap[o] \in SnapType
        /\ \A q \in Offers \ {o} : log'[q] = log[q] /\ snap'[q] = snap[q]
    BY <1>7, AppendAt DEF NegotiationInv
  <2>3. /\ snap'[o].state = "merchant_countered" /\ snap'[o].terms = p
        /\ snap'[o].checkout = "none"
    BY <1>3, <2>1, ReplayAnswer
  <2>4. /\ log'[o] # <<>> /\ Len(log[o]) + 1 \in DOMAIN log'[o]
        /\ log'[o][Len(log[o]) + 1] = e /\ Len(log[o]) + 1 < Len(log'[o]) + 1
    BY <2>1
  <2>5. AskedBefore(o, Len(log[o]) + 1, snap[o].terms)'
    BY <2>3, <2>4 DEF AskedBefore, EventsOf
  <2>6. StateInv(o)'
    BY <2>3, <2>4, <2>5 DEF StateInv, EarlyStates, LateStates, BuyerResponseStates
  <2>7. CheckoutInv(o)'
    BY <1>1, <1>3, <2>3 DEF CheckoutInv
  <2> QED BY <1>1, <1>2, <1>4, <2>1, <2>6, <2>7, Focus
<1> QED BY <1>5, <1>6, <1>7 DEF MerchantAct

LEMMA AcceptBeginInv ==
  ASSUME NegotiationInv, TypeOK', NEW o \in Offers, AcceptBegin(o)
  PROVE  NegotiationInv'
<1>1. UNCHANGED <<log, snap, refs, drafts>>
  BY DEF AcceptBegin
<1>2. \/ snap[o].state \in BuyerResponseStates /\ call' = [offer |-> o, step |-> "accept"]
      \/ /\ snap[o].state = "buyer_accepted" /\ snap[o].variant
         /\ call' = [offer |-> o, step |-> "start"]
      \/ /\ snap[o].state = "buyer_accepted"
         /\ call' = [offer |-> o, step |-> "reject"]
  BY DEF AcceptBegin, Goto, NextStep
<1>3. refs[o] = <<>>
  BY <1>2 DEF NegotiationInv, CheckoutInv, BuyerResponseStates
<1>4. \A q \in Offers \ {o} : call'.offer # q
  BY <1>2
<1>5. StateInv(o)'
  BY <1>1 DEF NegotiationInv, StateInv, AskedBefore, AgreedTo, EventsOf
<1>6. CheckoutInv(o)'
  BY <1>1, <1>3 DEF NegotiationInv, CheckoutInv
<1>7. CallInv(o)'
  BY <1>1, <1>2 DEF CallInv
<1> QED BY <1>1, <1>4, <1>5, <1>6, <1>7, Focus

\* Of a transaction of o that holds the queue: o is its offer, no URL is
\* stored yet, and the fields of the snapshot are as its step requires.
LEMMA Holding ==
  ASSUME NegotiationInv, NEW o \in Offers, NEW step, At(o, step)
  PROVE  /\ call.offer = o /\ call.step = step /\ refs[o] = <<>>
         /\ StateInv(o) /\ CheckoutInv(o) /\ CallInv(o)
BY DEF NegotiationInv, At, CheckoutInv

LEMMA AppendBuyerAcceptedInv ==
  ASSUME NegotiationInv, TypeOK', NEW o \in Offers, AppendBuyerAccepted(o)
  PROVE  NegotiationInv'
<1> DEFINE e == [type |-> "buyer_accepted", state |-> "buyer_accepted",
                 amount |-> snap[o].terms]
<1>1. Append1(o, e) /\ UNCHANGED <<refs, drafts>>
  BY DEF AppendBuyerAccepted
<1>2. /\ log'[o] = Append(log[o], e) /\ snap'[o] = Replay(snap[o], e)
      /\ log[o] \in Seq(Event) /\ snap[o] \in SnapType
      /\ \A q \in Offers \ {o} : log'[q] = log[q] /\ snap'[q] = snap[q]
  BY <1>1, AppendAt DEF NegotiationInv
<1>3. /\ snap[o].state \in BuyerResponseStates /\ refs[o] = <<>>
      /\ StateInv(o) /\ CheckoutInv(o)
  BY Holding DEF AppendBuyerAccepted, CallInv
<1>4. /\ snap[o].terms \in Prices /\ AskedBefore(o, Len(log[o]) + 1, snap[o].terms)
      /\ snap[o].checkout = "none" /\ drafts[o] = <<>>
  BY <1>3 DEF StateInv, CheckoutInv, EarlyStates
<1>5. /\ snap'[o].state = "buyer_accepted" /\ snap'[o].terms = snap[o].terms
      /\ snap'[o].accepted = snap[o].terms /\ snap'[o].checkout = "none"
      /\ snap'[o].variant = snap[o].variant
  BY <1>2, <1>4, ReplayCheckout
<1>6. PICK b \in Nat, p \in Prices : b = Len(log[o]) + 1 /\ p = snap[o].terms
  BY <1>2, <1>4
<1>7. AskedBefore(o, b, p)'
  BY <1>1, <1>4, <1>6, AskedStays DEF NegotiationInv
<1>8. b \in DOMAIN log'[o] /\ log'[o][b] = e /\ log'[o] # <<>>
  BY <1>2, <1>6
<1>9. AgreedTo(o, p)'
  BY <1>6, <1>7, <1>8 DEF AgreedTo, EventsOf
<1>10. AgreedTo(o, snap[o].terms)'
  BY <1>5, <1>6, <1>9 DEF AgreedTo, AskedBefore, EventsOf
<1>11. StateInv(o)'
  BY <1>4, <1>5, <1>8, <1>10
     DEF StateInv, EarlyStates, LateStates, BuyerResponseStates
<1>12. CheckoutInv(o)'
  BY <1>1, <1>3, <1>4, <1>5 DEF CheckoutInv, EarlyStates, BuyerResponseStates
<1>13. \/ call' = Idle
       \/ call' = [offer |-> o, step |-> "start"] /\ snap'[o].variant
       \/ call' = [offer |-> o, step |-> "reject"]
  BY DEF AppendBuyerAccepted, Goto, NextStep
<1>14. \A q \in Offers \ {o} : call'.offer # q
  BY <1>13, NobodyAssumption DEF Idle
<1>15. CallInv(o)'
  BY <1>5, <1>13, NobodyAssumption DEF CallInv, Idle
<1> QED BY <1>1, <1>2, <1>11, <1>12, <1>14, <1>15, Focus

\* The events of a checkout creation leave the price and what was agreed
\* alone.  This is the part of their steps they share.
LEMMA CheckoutEventInv ==
  ASSUME NegotiationInv, TypeOK', NEW o \in Offers,
         NEW type \in {"checkout_creation_started", "checkout_creation_failed",
                       "checkout_created"},
         NEW state \in LateStates,
         snap[o].state \in LateStates, refs[o] = <<>>,
         Append1(o, CheckoutEvent(o, type, state)),
         type = "checkout_creation_started" => snap[o].variant,
         UNCHANGED <<refs, drafts>>
  PROVE  /\ StateInv(o)' /\ CheckoutInv(o)'
         /\ snap'[o].state = state /\ snap'[o].variant = snap[o].variant
         /\ \A q \in Offers \ {o} : /\ log'[q] = log[q] /\ snap'[q] = snap[q]
                                    /\ refs'[q] = refs[q] /\ drafts'[q] = drafts[q]
<1> DEFINE e == CheckoutEvent(o, type, state)
<1>1. /\ log'[o] = Append(log[o], e) /\ snap'[o] = Replay(snap[o], e)
      /\ log[o] \in Seq(Event) /\ snap[o] \in SnapType
      /\ \A q \in Offers \ {o} : log'[q] = log[q] /\ snap'[q] = snap[q]
  BY AppendAt DEF NegotiationInv
<1>2. e.type = type /\ e.state = state /\ e.amount = snap[o].accepted
  BY DEF CheckoutEvent
<1>3. StateInv(o) /\ CheckoutInv(o)
  BY DEF NegotiationInv
<1>4. /\ snap[o].terms \in Prices /\ snap[o].accepted = snap[o].terms
      /\ AgreedTo(o, snap[o].terms)
  BY <1>3 DEF StateInv
<1>5. /\ snap'[o].state = state /\ snap'[o].terms = snap[o].terms
      /\ snap'[o].accepted = snap[o].terms /\ snap'[o].variant = snap[o].variant
      /\ snap'[o].checkout = "started" => type = "checkout_creation_started"
  BY <1>1, <1>2, <1>4, ReplayCheckout
<1>6. PICK p \in Prices : p = snap[o].terms
  BY <1>4
<1>7. AgreedTo(o, p)'
  BY <1>4, <1>6, AgreedStays DEF NegotiationInv
<1>8. AgreedTo(o, snap[o].terms)'
  BY <1>5, <1>6, <1>7 DEF AgreedTo, AskedBefore, EventsOf
<1>9. log'[o] # <<>>
  BY <1>1
<1>10. StateInv(o)'
  BY <1>4, <1>5, <1>8, <1>9 DEF StateInv, EarlyStates, LateStates, BuyerResponseStates
<1>11. CheckoutInv(o)'
  BY <1>3, <1>5 DEF CheckoutInv, EarlyStates, LateStates, BuyerResponseStates
<1> QED BY <1>1, <1>5, <1>10, <1>11

LEMMA CheckoutStepInv ==
  ASSUME NegotiationInv, TypeOK', NEW o \in Offers,
         \/ AppendMissingVariant(o) \/ AppendStarted(o)
         \/ AppendCheckoutCreated(o) \/ AppendCheckoutFailed(o)
  PROVE  NegotiationInv'
<1>1. CASE AppendMissingVariant(o)
  <2>1. snap[o].state = "buyer_accepted" /\ refs[o] = <<>>
    BY <1>1, Holding DEF AppendMissingVariant, CallInv
  <2>2. call' = Idle
    BY <1>1 DEF AppendMissingVariant
  <2>3. CallInv(o)' /\ \A q \in Offers \ {o} : call'.offer # q
    BY <2>2, NobodyAssumption DEF CallInv, Idle
  <2> QED BY <1>1, <2>1, <2>3, CheckoutEventInv, Focus DEF AppendMissingVariant, LateStates
<1>2. CASE AppendStarted(o)
  <2>1. snap[o].state = "buyer_accepted" /\ refs[o] = <<>> /\ snap[o].variant
    BY <1>2, Holding DEF AppendStarted, CallInv
  <2>2. call' = [offer |-> o, step |-> "shopify"]
    BY <1>2 DEF AppendStarted, Goto
  <2>3. /\ StateInv(o)' /\ CheckoutInv(o)' /\ snap'[o].state = "buyer_accepted"
        /\ \A q \in Offers \ {o} : /\ log'[q] = log[q] /\ snap'[q] = snap[q]
                                   /\ refs'[q] = refs[q] /\ drafts'[q] = drafts[q]
    BY <1>2, <2>1, CheckoutEventInv DEF AppendStarted, LateStates
  <2>4. CallInv(o)'
    BY <2>2, <2>3 DEF CallInv
  <2> QED BY <2>2, <2>3, <2>4, Focus
<1>3. CASE AppendCheckoutCreated(o)
  <2>1. snap[o].state = "buyer_accepted" /\ refs[o] = <<>> /\ drafts[o] # <<>>
    BY <1>3, Holding DEF AppendCheckoutCreated, CallInv
  <2>2. call' = [offer |-> o, step |-> "ref"] /\ drafts' = drafts
    BY <1>3 DEF AppendCheckoutCreated, Goto
  <2>3. /\ StateInv(o)' /\ CheckoutInv(o)' /\ snap'[o].state = "checkout_created"
        /\ \A q \in Offers \ {o} : /\ log'[q] = log[q] /\ snap'[q] = snap[q]
                                   /\ refs'[q] = refs[q] /\ drafts'[q] = drafts[q]
    BY <1>3, <2>1, CheckoutEventInv DEF AppendCheckoutCreated, LateStates
  <2>4. CallInv(o)'
    BY <2>1, <2>2, <2>3 DEF CallInv
  <2> QED BY <2>2, <2>3, <2>4, Focus
<1>4. CASE AppendCheckoutFailed(o)
  <2>1. snap[o].state \in LateStates /\ refs[o] = <<>>
    BY <1>4, Holding DEF AppendCheckoutFailed, CallInv
  <2>2. call' = Idle
    BY <1>4 DEF AppendCheckoutFailed
  <2>3. CallInv(o)' /\ \A q \in Offers \ {o} : call'.offer # q
    BY <2>2, NobodyAssumption DEF CallInv, Idle
  <2> QED BY <1>4, <2>1, <2>3, CheckoutEventInv, Focus DEF AppendCheckoutFailed, LateStates
<1> QED BY <1>1, <1>2, <1>3, <1>4

\* A draft order added for an agreed offer is priced at the agreed price.
LEMMA DraftInv ==
  ASSUME NegotiationInv, NEW o \in Offers,
         snap[o].state \in LateStates, refs[o] = <<>>,
         \/ UNCHANGED drafts
         \/ drafts' = [drafts EXCEPT ![o] = Append(@, snap[o].accepted)],
         UNCHANGED <<log, snap, refs>>
  PROVE  /\ StateInv(o)' /\ CheckoutInv(o)'
         /\ drafts[o] # <<>> => drafts'[o] # <<>>
         /\ \A q \in Offers \ {o} : /\ log'[q] = log[q] /\ snap'[q] = snap[q]
                                    /\ refs'[q] = refs[q] /\ drafts'[q] = drafts[q]
<1>1. /\ StateInv(o) /\ CheckoutInv(o) /\ drafts \in [Offers -> Seq(Nat)]
      /\ drafts[o] \in Seq(Nat)
  BY DEF NegotiationInv, TypeOK
<1>2. snap[o].accepted = snap[o].terms
  BY <1>1 DEF StateInv
<1>3. \/ drafts'[o] = drafts[o]
      \/ drafts'[o] = Append(drafts[o], snap[o].terms)
  BY <1>1, <1>2
<1>4. \A d \in DOMAIN drafts'[o] : drafts'[o][d] = snap[o].terms
  <2>1. \A d \in DOMAIN drafts[o] : drafts[o][d] = snap[o].terms
    BY <1>1 DEF CheckoutInv
  <2>2. CASE drafts'[o] = drafts[o]
    BY <2>1, <2>2
  <2>3. CASE drafts'[o] = Append(drafts[o], snap[o].terms)
    BY <1>1, <2>1, <2>3
  <2> QED BY <1>3, <2>2, <2>3
<1>5. StateInv(o)'
  BY <1>1 DEF StateInv, AskedBefore, AgreedTo, EventsOf
<1>6. CheckoutInv(o)'
  BY <1>1, <1>4 DEF CheckoutInv, EarlyStates, LateStates, BuyerResponseStates
<1>7. drafts[o] # <<>> => drafts'[o] # <<>>
  BY <1>1, <1>3
<1>8. \A q \in Offers \ {o} : drafts'[q] = drafts[q]
  BY <1>1
<1> QED BY <1>5, <1>6, <1>7, <1>8

LEMMA ShopifyStepInv ==
  ASSUME NegotiationInv, TypeOK', NEW o \in Offers,
         DraftCreated(o) \/ DraftCallFails(o)
  PROVE  NegotiationInv'
<1>1. snap[o].state = "buyer_accepted" /\ refs[o] = <<>> /\ UNCHANGED <<log, snap, refs>>
  BY Holding DEF DraftCreated, DraftCallFails, CallInv
<1>2. \/ UNCHANGED drafts
      \/ drafts' = [drafts EXCEPT ![o] = Append(@, snap[o].accepted)]
  BY DEF DraftCreated, DraftCallFails
<1>3. /\ StateInv(o)' /\ CheckoutInv(o)'
      /\ \A q \in Offers \ {o} : /\ log'[q] = log[q] /\ snap'[q] = snap[q]
                                 /\ refs'[q] = refs[q] /\ drafts'[q] = drafts[q]
  BY <1>1, <1>2, DraftInv DEF LateStates
<1>4. CASE DraftCreated(o)
  <2>1. /\ call' = [offer |-> o, step |-> "create"]
        /\ drafts' = [drafts EXCEPT ![o] = Append(@, snap[o].accepted)]
    BY <1>4 DEF DraftCreated, Goto
  <2>2. drafts[o] \in Seq(Nat) /\ drafts'[o] = Append(drafts[o], snap[o].accepted)
    BY <2>1 DEF NegotiationInv, TypeOK
  <2>3. CallInv(o)'
    <3>1. drafts'[o] # <<>> BY <2>2
    <3> QED BY <1>1, <2>1, <3>1 DEF CallInv
  <2> QED BY <1>3, <2>1, <2>3, Focus
<1>5. CASE DraftCallFails(o)
  <2>1. call' = [offer |-> o, step |-> "fail"]
    BY <1>5 DEF DraftCallFails, Goto
  <2>2. CallInv(o)'
    BY <1>1, <2>1 DEF CallInv, LateStates
  <2> QED BY <1>3, <2>1, <2>2, Focus
<1> QED BY <1>4, <1>5

LEMMA RefInv ==
  ASSUME NegotiationInv, TypeOK', NEW o \in Offers, AppendCheckoutRef(o)
  PROVE  NegotiationInv'
<1>1. /\ snap[o].state = "checkout_created" /\ refs[o] = <<>> /\ drafts[o] # <<>>
      /\ StateInv(o) /\ CheckoutInv(o)
  BY Holding DEF AppendCheckoutRef, CallInv
<1>2. UNCHANGED <<log, snap, drafts>> /\ call' = Idle
  BY DEF AppendCheckoutRef
<1>3. \A q \in Offers : call'.offer # q
  BY <1>2, NobodyAssumption DEF Idle
<1>4. /\ refs'[o] = Append(<<>>, Len(drafts[o]))
      /\ \A q \in Offers \ {o} : refs'[q] = refs[q]
  BY <1>1 DEF AppendCheckoutRef, NegotiationInv, TypeOK
<1>5. /\ Len(refs'[o]) = 1 /\ refs'[o][1] = Len(drafts[o])
      /\ Len(drafts[o]) \in DOMAIN drafts[o]
  BY <1>1, <1>4 DEF NegotiationInv, TypeOK
<1>6. StateInv(o)'
  BY <1>1, <1>2 DEF StateInv, AskedBefore, AgreedTo, EventsOf
<1>7. CheckoutInv(o)'
  BY <1>1, <1>2, <1>3, <1>5 DEF CheckoutInv, EarlyStates, BuyerResponseStates
<1>8. CallInv(o)'
  BY <1>3 DEF CallInv
<1> QED BY <1>2, <1>3, <1>4, <1>6, <1>7, <1>8, Focus

LEMMA FaultInv ==
  ASSUME NegotiationInv, TypeOK', NEW o \in Offers, WriteFails(o) \/ Crash(o)
  PROVE  NegotiationInv'
<1>1. call.offer = o /\ call.step \in Steps \ {"idle"} /\ CallInv(o) /\ CheckoutInv(o)
  BY NobodyAssumption DEF WriteFails, Crash, NegotiationInv, TypeOK, CallType, Idle
<1>2. CASE WriteFails(o)
  <2>1. UNCHANGED <<log, snap, refs, drafts>>
    BY <1>2 DEF WriteFails
  <2>2. \/ call' = Idle
        \/ /\ call' = [offer |-> o, step |-> "fail"]
           /\ call.step \in {"start", "create", "ref"}
    BY <1>2 DEF WriteFails, Goto
  <2>3. \A q \in Offers \ {o} : call'.offer # q
    BY <2>2, NobodyAssumption DEF Idle
  <2>4. CheckoutInv(o)'
    BY <1>1, <2>1 DEF CheckoutInv
  <2>5. StateInv(o)'
    BY <2>1 DEF NegotiationInv, StateInv, AskedBefore, AgreedTo, EventsOf
  <2>6. CallInv(o)'
    BY <1>1, <2>1, <2>2, NobodyAssumption DEF CallInv, LateStates, Idle
  <2> QED BY <2>1, <2>3, <2>4, <2>5, <2>6, Focus
<1>3. CASE Crash(o)
  <2>1. call' = Idle /\ UNCHANGED <<log, snap, refs>>
    BY <1>3 DEF Crash
  <2>2. \A q \in Offers : call'.offer # q
    BY <2>1, NobodyAssumption DEF Idle
  <2>3. CallInv(o)'
    BY <2>2 DEF CallInv
  <2>4. CASE UNCHANGED drafts
    <3>1. StateInv(o)' /\ CheckoutInv(o)'
      BY <2>1, <2>2, <2>4, Untouched DEF NegotiationInv
    <3> QED BY <2>1, <2>2, <2>3, <2>4, <3>1, Focus
  <2>5. CASE /\ call.step = "shopify"
             /\ drafts' = [drafts EXCEPT ![o] = Append(@, snap[o].accepted)]
    <3>1. snap[o].state \in LateStates /\ refs[o] = <<>>
      BY <1>1, <2>5 DEF CallInv, CheckoutInv, LateStates
    <3>2. /\ StateInv(o)' /\ CheckoutInv(o)'
          /\ \A q \in Offers \ {o} : /\ log'[q] = log[q] /\ snap'[q] = snap[q]
                                     /\ refs'[q] = refs[q] /\ drafts'[q] = drafts[q]
      BY <2>1, <2>5, <3>1, DraftInv
    <3> QED BY <2>2, <2>3, <3>2, Focus
  <2> QED BY <1>3, <2>4, <2>5 DEF Crash
<1> QED BY <1>2, <1>3

LEMMA StepInv == NegotiationInv /\ [Next]_vars => NegotiationInv'
<1> SUFFICES ASSUME NegotiationInv, [Next]_vars PROVE NegotiationInv'
  OBVIOUS
<1>1. TypeOK'
  BY StepType DEF NegotiationInv
<1>2. CASE Next
  <2> PICK o \in Offers :
        \/ SubmitOffer(o) \/ MerchantAct(o) \/ TokenExpires(o) \/ AcceptBegin(o)
        \/ CallStep(o) \/ WriteFails(o) \/ Crash(o)
    BY <1>2 DEF Next
  <2>1. CASE TokenExpires(o)
    BY <1>1, <2>1 DEF TokenExpires, NegotiationInv, StateInv, CheckoutInv, CallInv,
                      AskedBefore, AgreedTo, EventsOf
  <2>2. CASE CallStep(o)
    BY <1>1, <2>2, AppendBuyerAcceptedInv, CheckoutStepInv, ShopifyStepInv, RefInv
       DEF CallStep
  <2> QED BY <1>1, <2>1, <2>2, SubmitInv, MerchantInv, AcceptBeginInv, FaultInv
<1>3. CASE UNCHANGED vars
  BY <1>1, <1>3 DEF vars, NegotiationInv, StateInv, CheckoutInv, CallInv,
                    AskedBefore, AgreedTo, EventsOf
<1> QED BY <1>2, <1>3

\* The log, the snapshot, Shopify, the stored URLs and the transaction in the
\* queue fit together at every step.
THEOREM NegotiationInvariant == Spec => []NegotiationInv
BY InitInv, StepInv, PTL DEF Spec

----------------------------------------------------------------------------
\* What follows from it.

\* No draft order without a price both parties agreed to.
THEOREM NegotiationAgreedPrice == Spec => []AgreedPrice
<1>1. NegotiationInv => AgreedPrice
  <2> SUFFICES ASSUME NegotiationInv, NEW o \in Offers, NEW d \in DOMAIN drafts[o]
               PROVE  AgreedTo(o, drafts[o][d])
    BY DEF AgreedPrice
  <2>1. StateInv(o) /\ CheckoutInv(o) /\ drafts[o] \in Seq(Nat)
    BY DEF NegotiationInv, TypeOK
  <2>2. snap[o].state \in LateStates
    BY <2>1 DEF StateInv, CheckoutInv
  <2>3. drafts[o][d] = snap[o].terms /\ AgreedTo(o, snap[o].terms)
    BY <2>1, <2>2 DEF StateInv, CheckoutInv
  <2> QED BY <2>3
<1> QED BY <1>1, NegotiationInvariant, PTL

\* Whatever is left behind at Shopify, the buyer is handed one checkout.
THEOREM NegotiationOneCheckout == Spec => []OneCheckout
<1>1. NegotiationInv => OneCheckout
  <2> SUFFICES ASSUME NegotiationInv, NEW o \in Offers PROVE Len(refs[o]) <= 1
    BY DEF OneCheckout
  <2>1. CheckoutInv(o)
    BY DEF NegotiationInv
  <2>2. CASE refs[o] = <<>> BY <2>2
  <2>3. CASE refs[o] # <<>>
    <3>1. Len(refs[o]) = 1 BY <2>1, <2>3 DEF CheckoutInv
    <3> QED BY <3>1
  <2> QED BY <2>2, <2>3
<1> QED BY <1>1, NegotiationInvariant, PTL

\* A creation left started but not finished is never tried again.
THEOREM NegotiationFailsClosed == Spec => FailsClosed
<1>1. ASSUME NegotiationInv, [Next]_vars, NEW o \in Offers PROVE StaysClosed(o)
  <2> SUFFICES ASSUME snap[o].checkout = "started", call.offer # o
               PROVE  drafts'[o] = drafts[o] /\ call'.offer # o
    BY DEF StaysClosed
  <2>1. /\ snap[o].variant /\ snap[o].state \notin BuyerResponseStates
        /\ drafts \in [Offers -> Seq(Nat)]
    BY <1>1 DEF NegotiationInv, TypeOK, CheckoutInv, EarlyStates
  <2>2. CASE Next
    <3> PICK q \in Offers :
          \/ SubmitOffer(q) \/ MerchantAct(q) \/ TokenExpires(q) \/ AcceptBegin(q)
          \/ CallStep(q) \/ WriteFails(q) \/ Crash(q)
      BY <2>2 DEF Next
    <3>1. CASE SubmitOffer(q) \/ MerchantAct(q) \/ TokenExpires(q)
      BY <3>1 DEF SubmitOffer, MerchantAct, TokenExpires
    <3>2. CASE AcceptBegin(q)
      <4>1. q # o
        BY <2>1, <3>2 DEF AcceptBegin, NextStep
      <4> QED BY <3>2, <4>1 DEF AcceptBegin, Goto
    <3>3. CASE CallStep(q) \/ WriteFails(q) \/ Crash(q)
      <4>1. call.offer = q
        BY <3>3 DEF CallStep, WriteFails, Crash, At, AppendBuyerAccepted,
                    AppendMissingVariant, AppendStarted, DraftCreated, DraftCallFails,
                    AppendCheckoutCreated, AppendCheckoutRef, AppendCheckoutFailed
      <4>2. call'.offer \in {q, Nobody}
        BY <3>3 DEF CallStep, WriteFails, Crash, AppendBuyerAccepted, Goto, Idle,
                    AppendMissingVariant, AppendStarted, DraftCreated, DraftCallFails,
                    AppendCheckoutCreated, AppendCheckoutRef, AppendCheckoutFailed
      <4>3. \/ UNCHANGED drafts
            \/ drafts' = [drafts EXCEPT ![q] = Append(@, snap[q].accepted)]
        BY <3>3 DEF CallStep, WriteFails, Crash, AppendBuyerAccepted,
                    AppendMissingVariant, AppendStarted, DraftCreated, DraftCallFails,
                    AppendCheckoutCreated, AppendCheckoutRef, AppendCheckoutFailed
      <4> QED BY <2>1, <4>1, <4>2, <4>3, NobodyAssumption
    <3> QED BY <3>1, <3>2, <3>3
  <2>3. CASE UNCHANGED vars
    BY <2>3 DEF vars
  <2> QED BY <1>1, <2>2, <2>3
<1>2. NegotiationInv /\ [Next]_vars => [\A o \in Offers : StaysClosed(o)]_vars
  BY <1>1
<1> QED BY <1>2, NegotiationInvariant, PTL DEF Spec, FailsClosed

----------------------------------------------------------------------------
\* Negotiation implements DealContract.

LEMMA PhaseIs ==
  ASSUME NEW s, NEW r
  PROVE  /\ r # <<>> => Phase(s, r) = "payable"
         /\ r = <<>> /\ s.state = "none" => Phase(s, r) = "none"
         /\ r = <<>> /\ s.state = "offer_submitted" => Phase(s, r) = "offered"
         /\ r = <<>> /\ s.state \in BuyerResponseStates => Phase(s, r) = "terms"
         /\ r = <<>> /\ s.state = "merchant_declined" => Phase(s, r) = "declined"
         /\ r = <<>> /\ s.state \in LateStates => Phase(s, r) = "agreed"
BY DEF Phase, BuyerResponseStates, LateStates

\* The abstract view of offer o after a step.
View(o, ph, pr, ch) ==
  /\ Phase(snap[o], refs[o])' = ph
  /\ Price(snap[o])' = pr
  /\ Checkouts(refs[o], drafts[o])' = ch

Same(o) ==
  View(o, Phase(snap[o], refs[o]), Price(snap[o]), Checkouts(refs[o], drafts[o]))

LEMMA UntouchedView ==
  ASSUME NEW o \in Offers, snap'[o] = snap[o], refs'[o] = refs[o], drafts'[o] = drafts[o]
  PROVE  Same(o)
BY DEF Same, View

LEMMA NoCheckouts ==
  ASSUME NEW d, NEW e PROVE Checkouts(<<>>, d) = Checkouts(<<>>, e)
BY DEF Checkouts

\* A step that shows in no view is a stuttering step of the contract.
LEMMA DealStutters ==
  ASSUME \A o \in Offers : Same(o)
  PROVE  UNCHANGED Deal!dealVars
BY DEF Same, View, Deal!dealVars

\* A step that shows in the view of o alone.
LEMMA DealMoves ==
  ASSUME NEW o \in Offers, NEW ph, NEW pr, NEW ch, View(o, ph, pr, ch),
         \A q \in Offers \ {o} : Same(q)
  PROVE
    /\ [q \in Offers |-> Phase(snap[q], refs[q])]'
         = [[q \in Offers |-> Phase(snap[q], refs[q])] EXCEPT ![o] = ph]
    /\ [q \in Offers |-> Price(snap[q])]'
         = [[q \in Offers |-> Price(snap[q])] EXCEPT ![o] = pr]
    /\ [q \in Offers |-> Checkouts(refs[q], drafts[q])]'
         = [[q \in Offers |-> Checkouts(refs[q], drafts[q])] EXCEPT ![o] = ch]
BY DEF Same, View

LEMMA DealStart == Init => Deal!DealInit
<1> SUFFICES ASSUME Init PROVE Deal!DealInit
  OBVIOUS
<1>1. ASSUME NEW o \in Offers
      PROVE  /\ Phase(snap[o], refs[o]) = "none" /\ Price(snap[o]) = 0
             /\ Checkouts(refs[o], drafts[o]) = <<>>
  <2>1. snap[o] = Blank /\ refs[o] = <<>> /\ drafts[o] = <<>>
    BY DEF Init
  <2>2. Phase(Blank, <<>>) = "none"
    BY PhaseIs DEF Blank
  <2>3. Price(Blank) = 0
    BY DEF Blank, Price
  <2>4. Checkouts(<<>>, <<>>) = <<>>
    BY DEF Checkouts
  <2> QED BY <2>1, <2>2, <2>3, <2>4
<1> QED BY <1>1 DEF Deal!DealInit

\* Steps before the buyer agreed leave Shopify and the stored URLs alone.
LEMMA SubmitDeal ==
  ASSUME NegotiationInv, NEW o \in Offers, SubmitOffer(o)
  PROVE  Deal!Propose(o)
<1> PICK p \in Prices, v \in BOOLEAN :
      Append1(o, [type |-> "offer_submitted", state |-> "offer_submitted",
                  amount |-> p, variant |-> v])
  BY DEF SubmitOffer
<1>1. /\ snap'[o].state = "offer_submitted" /\ snap'[o].offer = p /\ snap'[o].terms = 0
      /\ \A q \in Offers \ {o} : snap'[q] = snap[q]
  BY AppendAt, ReplaySubmitted DEF NegotiationInv
<1>2. snap[o].state = "none" /\ refs[o] = <<>> /\ UNCHANGED <<refs, drafts>>
  BY DEF SubmitOffer, NegotiationInv, StateInv, CheckoutInv, EarlyStates
<1>3. /\ Phase(snap[o], refs[o]) = "none" /\ Phase(snap[o], refs[o])' = "offered"
      /\ Price(snap[o])' = p
  BY <1>1, <1>2, PhaseIs DEF Price
<1>4. View(o, "offered", p, Checkouts(refs[o], drafts[o])) /\ \A q \in Offers \ {o} : Same(q)
  BY <1>1, <1>2, <1>3, UntouchedView DEF View
<1>5. UNCHANGED [q \in Offers |-> Checkouts(refs[q], drafts[q])]
  BY <1>2
<1> QED BY <1>3, <1>4, <1>5, DealMoves DEF Deal!Propose, Deal!Move

LEMMA MerchantDeal ==
  ASSUME NegotiationInv, NEW o \in Offers, MerchantAct(o)
  PROVE  Deal!TakeOffer(o) \/ Deal!Counter(o) \/ Deal!Decline(o)
<1>1. /\ snap[o].state = "offer_submitted" /\ snap[o].terms = 0 /\ refs[o] = <<>>
      /\ snap[o].offer \in Prices /\ UNCHANGED <<refs, drafts>>
  BY DEF MerchantAct, NegotiationInv, StateInv, CheckoutInv, EarlyStates
<1>2. Phase(snap[o], refs[o]) = "offered" /\ Price(snap[o]) = snap[o].offer
  BY <1>1, PhaseIs DEF Price
<1>3. UNCHANGED [q \in Offers |-> Checkouts(refs[q], drafts[q])]
  BY <1>1
<1>4. ASSUME NEW e, e.type \in {"merchant_accepted", "merchant_declined", "merchant_countered"},
             Append1(o, e)
      PROVE  /\ snap'[o].state = e.state /\ snap'[o].offer = snap[o].offer
             /\ snap'[o].terms = CASE e.type = "merchant_accepted"  -> snap[o].offer
                                   [] e.type = "merchant_declined"  -> snap[o].terms
                                   [] e.type = "merchant_countered" -> e.amount
             /\ \A q \in Offers \ {o} : Same(q)
  BY <1>1, <1>4, AppendAt, ReplayAnswer, UntouchedView DEF NegotiationInv
<1>5. ASSUME Append1(o, [type |-> "merchant_accepted", state |-> "merchant_accepted"])
      PROVE  Deal!TakeOffer(o)
  <2>1. /\ snap'[o].state = "merchant_accepted" /\ snap'[o].offer = snap[o].offer
        /\ snap'[o].terms = snap[o].offer /\ \A q \in Offers \ {o} : Same(q)
    BY <1>4, <1>5
  <2>2. Phase(snap[o], refs[o])' = "terms" /\ Price(snap[o])' = Price(snap[o])
    BY <1>1, <1>2, <2>1, PhaseIs DEF Price, BuyerResponseStates
  <2>3. View(o, "terms", Price(snap[o]), Checkouts(refs[o], drafts[o]))
    BY <1>1, <2>2 DEF View
  <2>4. UNCHANGED [q \in Offers |-> Price(snap[q])]
    BY <2>1, <2>2 DEF Same, View
  <2> QED BY <1>2, <1>3, <2>1, <2>3, <2>4, DealMoves DEF Deal!TakeOffer, Deal!Move
<1>6. ASSUME Append1(o, [type |-> "merchant_declined", state |-> "merchant_declined"])
      PROVE  Deal!Decline(o)
  <2>1. /\ snap'[o].state = "merchant_declined" /\ snap'[o].offer = snap[o].offer
        /\ snap'[o].terms = snap[o].terms /\ \A q \in Offers \ {o} : Same(q)
    BY <1>4, <1>6
  <2>2. Phase(snap[o], refs[o])' = "declined" /\ Price(snap[o])' = Price(snap[o])
    BY <1>1, <1>2, <2>1, PhaseIs DEF Price
  <2>3. View(o, "declined", Price(snap[o]), Checkouts(refs[o], drafts[o]))
    BY <1>1, <2>2 DEF View
  <2>4. UNCHANGED [q \in Offers |-> Price(snap[q])]
    BY <2>1, <2>2 DEF Same, View
  <2> QED BY <1>2, <1>3, <2>1, <2>3, <2>4, DealMoves DEF Deal!Decline, Deal!Move
<1>7. ASSUME NEW p \in Prices,
             Append1(o, [type |-> "merchant_countered",
                         state |-> "merchant_countered", amount |-> p])
      PROVE  Deal!Counter(o)
  <2>1. /\ snap'[o].state = "merchant_countered" /\ snap'[o].terms = p
        /\ \A q \in Offers \ {o} : Same(q)
    BY <1>4, <1>7
  <2>2. Phase(snap[o], refs[o])' = "terms" /\ Price(snap[o])' = p
    BY <1>1, <2>1, PhaseIs, PricesAssumption DEF Price, BuyerResponseStates
  <2>3. View(o, "terms", p, Checkouts(refs[o], drafts[o]))
    BY <1>1, <2>2 DEF View
  <2>4. /\ [q \in Offers |-> Phase(snap[q], refs[q])]'
             = [[q \in Offers |-> Phase(snap[q], refs[q])] EXCEPT ![o] = "terms"]
        /\ [q \in Offers |-> Price(snap[q])]'
             = [[q \in Offers |-> Price(snap[q])] EXCEPT ![o] = p]
    BY <2>1, <2>3 DEF Same, View
  <2>5. Deal!Move(o, "offered", "terms")
    BY <1>2, <2>4 DEF Deal!Move
  <2>6. \E x \in Prices : [q \in Offers |-> Price(snap[q])]'
          = [[q \in Offers |-> Price(snap[q])] EXCEPT ![o] = x]
    BY <2>4
  <2> QED BY <1>3, <2>5, <2>6 DEF Deal!Counter
<1> QED BY <1>5, <1>6, <1>7 DEF MerchantAct

LEMMA AgreeDeal ==
  ASSUME NegotiationInv, NEW o \in Offers, AppendBuyerAccepted(o)
  PROVE  Deal!Agree(o)
<1> DEFINE e == [type |-> "buyer_accepted", state |-> "buyer_accepted",
                 amount |-> snap[o].terms]
<1>1. snap[o].state \in BuyerResponseStates /\ refs[o] = <<>>
  BY Holding DEF AppendBuyerAccepted, CallInv
<1>2. Append1(o, e) /\ UNCHANGED <<refs, drafts>>
  BY DEF AppendBuyerAccepted
<1>3. /\ snap'[o] = Replay(snap[o], e) /\ snap[o] \in SnapType
      /\ \A q \in Offers \ {o} : snap'[q] = snap[q]
  BY <1>2, AppendAt DEF NegotiationInv
<1>4. /\ snap'[o].state = "buyer_accepted" /\ snap'[o].offer = snap[o].offer
      /\ snap'[o].terms = snap[o].terms
  BY <1>3, ReplayCheckout
<1>5. /\ Phase(snap[o], refs[o]) = "terms" /\ Phase(snap[o], refs[o])' = "agreed"
      /\ Price(snap[o])' = Price(snap[o])
  BY <1>1, <1>2, <1>4, PhaseIs DEF Price, LateStates
<1>6. /\ View(o, "agreed", Price(snap[o]), Checkouts(refs[o], drafts[o]))
      /\ \A q \in Offers \ {o} : Same(q)
  BY <1>2, <1>3, <1>5, UntouchedView DEF View
<1>7. /\ UNCHANGED [q \in Offers |-> Price(snap[q])]
      /\ UNCHANGED [q \in Offers |-> Checkouts(refs[q], drafts[q])]
  BY <1>2, <1>3, <1>5
<1> QED BY <1>5, <1>6, <1>7, DealMoves DEF Deal!Agree, Deal!Move

LEMMA CheckoutDeal ==
  ASSUME NegotiationInv, NEW o \in Offers, AppendCheckoutRef(o)
  PROVE  Deal!OpenCheckout(o)
<1>1. /\ snap[o].state = "checkout_created" /\ refs[o] = <<>> /\ drafts[o] # <<>>
      /\ StateInv(o) /\ CheckoutInv(o)
  BY Holding DEF AppendCheckoutRef, CallInv
<1>2. UNCHANGED <<snap, drafts>> /\ drafts[o] \in Seq(Nat)
  BY DEF AppendCheckoutRef, NegotiationInv, TypeOK
<1>3. /\ refs'[o] = <<Len(drafts[o])>>
      /\ \A q \in Offers \ {o} : refs'[q] = refs[q]
  BY <1>1 DEF AppendCheckoutRef, NegotiationInv, TypeOK
<1>4. Len(drafts[o]) \in DOMAIN drafts[o]
  BY <1>1, <1>2
<1>5. Price(snap[o]) = snap[o].terms /\ drafts[o][Len(drafts[o])] = snap[o].terms
  BY <1>1, <1>4, PricesAssumption DEF StateInv, CheckoutInv, LateStates, Price
<1>6. Checkouts(refs[o], drafts[o])' = <<Price(snap[o])>>
  BY <1>2, <1>3, <1>5 DEF Checkouts
<1>7. Phase(snap[o], refs[o]) = "agreed" /\ Phase(snap[o], refs[o])' = "payable"
  BY <1>1, <1>3, PhaseIs DEF LateStates
<1>8. /\ View(o, "payable", Price(snap[o]), <<Price(snap[o])>>)
      /\ \A q \in Offers \ {o} : Same(q)
  BY <1>2, <1>3, <1>6, <1>7, UntouchedView DEF View
<1>9. UNCHANGED [q \in Offers |-> Price(snap[q])]
  BY <1>2
<1>10. /\ [q \in Offers |-> Phase(snap[q], refs[q])]'
            = [[q \in Offers |-> Phase(snap[q], refs[q])] EXCEPT ![o] = "payable"]
       /\ [q \in Offers |-> Checkouts(refs[q], drafts[q])]'
            = [[q \in Offers |-> Checkouts(refs[q], drafts[q])]
                 EXCEPT ![o] = <<Price(snap[o])>>]
  BY <1>8 DEF Same, View
<1>11. /\ [q \in Offers |-> Price(snap[q])][o] = Price(snap[o])
       /\ [q \in Offers |-> Phase(snap[q], refs[q])][o] = "agreed"
  BY <1>7
<1>12. Deal!Move(o, "agreed", "payable")
  BY <1>10, <1>11 DEF Deal!Move
<1>13. [q \in Offers |-> Checkouts(refs[q], drafts[q])]'
         = [[q \in Offers |-> Checkouts(refs[q], drafts[q])]
              EXCEPT ![o] = <<[q \in Offers |-> Price(snap[q])][o]>>]
  BY <1>10, <1>11
<1> QED BY <1>9, <1>12, <1>13 DEF Deal!OpenCheckout

\* Every other step of a transaction, and every fault, is invisible.
LEMMA HiddenDeal ==
  ASSUME NegotiationInv, NEW o \in Offers,
         \/ AppendMissingVariant(o) \/ AppendStarted(o) \/ DraftCreated(o)
         \/ DraftCallFails(o) \/ AppendCheckoutCreated(o) \/ AppendCheckoutFailed(o)
         \/ WriteFails(o) \/ Crash(o)
  PROVE  UNCHANGED Deal!dealVars
<1>1. CASE \/ AppendMissingVariant(o) \/ AppendStarted(o)
           \/ AppendCheckoutCreated(o) \/ AppendCheckoutFailed(o)
  <2>1. snap[o].state \in LateStates /\ refs[o] = <<>> /\ UNCHANGED <<refs, drafts>>
    BY <1>1, Holding DEF AppendMissingVariant, AppendStarted, AppendCheckoutCreated,
                         AppendCheckoutFailed, CallInv, LateStates
  <2> PICK type \in {"checkout_creation_started", "checkout_creation_failed",
                     "checkout_created"}, state \in LateStates :
             Append1(o, CheckoutEvent(o, type, state))
    BY <1>1 DEF AppendMissingVariant, AppendStarted, AppendCheckoutCreated,
                AppendCheckoutFailed, LateStates
  <2>2. /\ snap'[o].state = state /\ snap'[o].offer = snap[o].offer
        /\ snap'[o].terms = snap[o].terms
        /\ \A q \in Offers \ {o} : snap'[q] = snap[q]
    BY AppendAt, ReplayCheckout DEF NegotiationInv, CheckoutEvent
  <2>3. /\ Phase(snap[o], refs[o]) = "agreed" /\ Phase(snap[o], refs[o])' = "agreed"
        /\ Price(snap[o])' = Price(snap[o])
    BY <2>1, <2>2, PhaseIs DEF Price
  <2>4. \A q \in Offers : Same(q)
    BY <2>1, <2>2, <2>3, UntouchedView DEF Same, View
  <2> QED BY <2>4, DealStutters
<1>2. CASE DraftCreated(o) \/ DraftCallFails(o) \/ WriteFails(o) \/ Crash(o)
  <2>1. call.offer = o /\ refs[o] = <<>> /\ UNCHANGED <<snap, refs>>
    BY <1>2 DEF DraftCreated, DraftCallFails, WriteFails, Crash, At, NegotiationInv,
                CheckoutInv
  <2>2. \A q \in Offers \ {o} : drafts'[q] = drafts[q]
    BY <1>2 DEF DraftCreated, DraftCallFails, WriteFails, Crash, NegotiationInv, TypeOK
  <2>3. Checkouts(refs[o], drafts[o])' = Checkouts(refs[o], drafts[o])
    BY <2>1, NoCheckouts
  <2>4. \A q \in Offers : Same(q)
    BY <2>1, <2>2, <2>3, UntouchedView DEF Same, View
  <2> QED BY <2>4, DealStutters
<1> QED BY <1>1, <1>2

\* The buyer and the merchant see DealContract: the accept handler implements
\* the deal for every set of offers and prices and any number of faults.
THEOREM NegotiationImplementsDeal == Spec => Contract
<1>1. ASSUME NegotiationInv, [Next]_vars
      PROVE  [\E o \in Offers : Deal!DealStep(o)]_(Deal!dealVars)
  <2>1. CASE Next
    <3> PICK o \in Offers :
          \/ SubmitOffer(o) \/ MerchantAct(o) \/ TokenExpires(o) \/ AcceptBegin(o)
          \/ CallStep(o) \/ WriteFails(o) \/ Crash(o)
      BY <2>1 DEF Next
    <3>1. CASE TokenExpires(o) \/ AcceptBegin(o)
      <4>1. \A q \in Offers : Same(q)
        BY <3>1, UntouchedView DEF TokenExpires, AcceptBegin
      <4> QED BY <4>1, DealStutters
    <3>2. CASE SubmitOffer(o) \/ MerchantAct(o)
      BY <1>1, <3>2, SubmitDeal, MerchantDeal DEF Deal!DealStep
    <3>3. CASE CallStep(o) \/ WriteFails(o) \/ Crash(o)
      BY <1>1, <3>3, AgreeDeal, CheckoutDeal, HiddenDeal DEF CallStep, Deal!DealStep
    <3> QED BY <3>1, <3>2, <3>3
  <2>2. CASE UNCHANGED vars
    <3>1. \A q \in Offers : Same(q)
      BY <2>2, UntouchedView DEF vars
    <3> QED BY <3>1, DealStutters
  <2> QED BY <1>1, <2>1, <2>2
<1> QED BY <1>1, DealStart, NegotiationInvariant, PTL DEF Spec, Contract, Deal!DealSpec

=============================================================================
