---------------------------- MODULE Negotiation ----------------------------
(***************************************************************************)
(* From the buyer's offer to the Shopify checkout: the intake, merchant    *)
(* and buyer-accept handlers of counterpilot-server.mjs, their write       *)
(* queue, the draft-order call to Shopify, and the crashes and failed      *)
(* writes that can fall between two steps.                                 *)
(*                                                                         *)
(* OfferStore serialises handlers: append, appendWithEvents and            *)
(* transaction each run inside writeQueue, one at a time.  `call' is the   *)
(* buyer-accept transaction that holds the queue; the other handlers       *)
(* append one event and take one step.  No other process writes events of  *)
(* an offer that is not paid, so what the transaction has read stays equal *)
(* to the log.                                                             *)
(***************************************************************************)
EXTENDS OfferEvents, FiniteSets

CONSTANTS Offers,      \* transaction ids
          Prices,      \* per-unit amounts in minor units
          Nobody,      \* no transaction holds the queue
          MaxLog,      \* bound: events of an offer when an accept may begin
          MaxDrafts,   \* bound: draft orders of an offer when an accept may begin
          MaxFaults    \* bound: crashes, failed writes and lost answers

ASSUME NobodyAssumption == Nobody \notin Offers
ASSUME PricesAssumption == Prices \subseteq Nat \ {0}
ASSUME BoundsAssumption == MaxLog \in Nat /\ MaxDrafts \in Nat /\ MaxFaults \in Nat

VARIABLES log,      \* offers.jsonl, the events of each offer
          snap,     \* the replay of log
          refs,     \* checkout_refs.jsonl: which draft order each line belongs to
          drafts,   \* Shopify: the price of each draft order created for an offer
          call,     \* the transaction in the write queue
          expired,  \* offers whose buyer token has passed its expiry
          faults

vars == <<log, snap, refs, drafts, call, expired, faults>>

Steps == {"idle", "accept", "reject", "start", "shopify", "create", "ref", "fail"}
Idle  == [offer |-> Nobody, step |-> "idle"]

Init ==
  /\ log     = [o \in Offers |-> <<>>]
  /\ snap    = [o \in Offers |-> Blank]
  /\ refs    = [o \in Offers |-> <<>>]
  /\ drafts  = [o \in Offers |-> <<>>]
  /\ call    = Idle
  /\ expired = {}
  /\ faults  = 0

\* appendFile of one line of offers.jsonl.
Append1(o, e) ==
  /\ log'  = [log EXCEPT ![o] = Append(@, e)]
  /\ snap' = [snap EXCEPT ![o] = Replay(@, e)]

Goto(o, step) == call' = [offer |-> o, step |-> step]
At(o, step)   == call = [offer |-> o, step |-> step]

----------------------------------------------------------------------------
\* handleOfferPost: the id is fresh, there is nothing to check in the log.
SubmitOffer(o) ==
  /\ call = Idle
  /\ log[o] = <<>>
  /\ \E p \in Prices, v \in BOOLEAN :
       Append1(o, [type |-> "offer_submitted", state |-> "offer_submitted",
                   amount |-> p, variant |-> v])
  /\ UNCHANGED <<refs, drafts, call, expired, faults>>

\* handleMerchantActionPost: the state is tested and the event appended in
\* one turn of the queue.
MerchantAct(o) ==
  /\ call = Idle
  /\ snap[o].state = "offer_submitted"
  /\ \/ \E a \in {"merchant_accepted", "merchant_declined"} :
          Append1(o, [type |-> a, state |-> a])
     \/ \E p \in Prices :
          Append1(o, [type |-> "merchant_countered",
                      state |-> "merchant_countered", amount |-> p])
  /\ UNCHANGED <<refs, drafts, call, expired, faults>>

\* buyer_response_expires_at passes.
TokenExpires(o) ==
  /\ HasEvent(log[o], "merchant_accepted") \/ HasEvent(log[o], "merchant_countered")
  /\ o \notin expired
  /\ expired' = expired \cup {o}
  /\ UNCHANGED <<log, snap, refs, drafts, call, faults>>

----------------------------------------------------------------------------
\* Mutants of NextStep: the started marker ignored, the variant not checked.
NextStepRetries(s)   == IF s.variant THEN "start" ELSE "reject"
NextStepNoVariant(s) == IF s.checkout = "started" THEN "idle" ELSE "start"

\* What the accept handler does once buyer_accepted is in the log.  "idle":
\* it only answers (202 while a checkout creation is started).
NextStep(s) ==
  CASE ~s.variant                              -> "reject"
    [] s.variant /\ s.checkout = "started"     -> "idle"
    [] s.variant /\ s.checkout # "started"     -> "start"

\* Mutant of AcceptBegin: no early return for a created checkout.
AcceptBeginAgain(o) ==
  /\ call = Idle
  /\ o \notin expired
  /\ Len(log[o]) < MaxLog /\ Len(drafts[o]) < MaxDrafts
  /\ \/ snap[o].state \in BuyerResponseStates /\ Goto(o, "accept")
     \/ /\ snap[o].state \in {"buyer_accepted", "checkout_created"}
        /\ NextStep(snap[o]) # "idle"
        /\ Goto(o, NextStep(snap[o]))
  /\ UNCHANGED <<log, snap, refs, drafts, expired, faults>>

\* handleBuyerAcceptPost up to its first write, validateBuyerResponseSnapshot
\* included.  A request that writes nothing (a created or started checkout,
\* a wrong or expired token) changes no state and is not an action.
AcceptBegin(o) ==
  /\ call = Idle
  /\ o \notin expired
  /\ Len(log[o]) < MaxLog /\ Len(drafts[o]) < MaxDrafts
  /\ \/ snap[o].state \in BuyerResponseStates /\ Goto(o, "accept")
     \/ /\ snap[o].state = "buyer_accepted"
        /\ NextStep(snap[o]) # "idle"
        /\ Goto(o, NextStep(snap[o]))
  /\ UNCHANGED <<log, snap, refs, drafts, expired, faults>>

\* Mutant of AppendBuyerAccepted: the price of the offer, not of the answer.
AppendOfferAccepted(o) ==
  /\ At(o, "accept")
  /\ Append1(o, [type |-> "buyer_accepted", state |-> "buyer_accepted",
                 amount |-> snap[o].offer])
  /\ IF NextStep(snap'[o]) = "idle" THEN call' = Idle ELSE Goto(o, NextStep(snap'[o]))
  /\ UNCHANGED <<refs, drafts, expired, faults>>

AppendBuyerAccepted(o) ==
  /\ At(o, "accept")
  /\ Append1(o, [type |-> "buyer_accepted", state |-> "buyer_accepted",
                 amount |-> snap[o].terms])
  /\ IF NextStep(snap'[o]) = "idle" THEN call' = Idle ELSE Goto(o, NextStep(snap'[o]))
  /\ UNCHANGED <<refs, drafts, expired, faults>>

CheckoutEvent(o, type, state) ==
  [type |-> type, state |-> state, amount |-> snap[o].accepted]

\* The branch for a missing variant_ref, which answers 422.
AppendMissingVariant(o) ==
  /\ At(o, "reject")
  /\ Append1(o, CheckoutEvent(o, "checkout_creation_failed", "buyer_accepted"))
  /\ call' = Idle
  /\ UNCHANGED <<refs, drafts, expired, faults>>

\* The marker that precedes the external write.
AppendStarted(o) ==
  /\ At(o, "start")
  /\ Append1(o, CheckoutEvent(o, "checkout_creation_started", "buyer_accepted"))
  /\ Goto(o, "shopify")
  /\ UNCHANGED <<refs, drafts, expired, faults>>

\* Mutant of DraftCreated: the price of the offer.
DraftAtOffer(o) ==
  /\ At(o, "shopify")
  /\ drafts' = [drafts EXCEPT ![o] = Append(@, snap[o].offer)]
  /\ Goto(o, "create")
  /\ UNCHANGED <<log, snap, refs, expired, faults>>

\* createDraftOrderForAcceptedOffer returns a draft order ...
DraftCreated(o) ==
  /\ At(o, "shopify")
  /\ drafts' = [drafts EXCEPT ![o] = Append(@, snap[o].accepted)]
  /\ Goto(o, "create")
  /\ UNCHANGED <<log, snap, refs, expired, faults>>

\* ... or throws.  Shopify refused the request, or the draft order exists but
\* the answer was lost, was not JSON or was incomplete.
DraftCallFails(o) ==
  /\ At(o, "shopify")
  /\ \/ UNCHANGED <<drafts, faults>>
     \/ /\ faults < MaxFaults
        /\ faults' = faults + 1
        /\ drafts' = [drafts EXCEPT ![o] = Append(@, snap[o].accepted)]
  /\ Goto(o, "fail")
  /\ UNCHANGED <<log, snap, refs, expired>>

AppendCheckoutCreated(o) ==
  /\ At(o, "create")
  /\ Append1(o, CheckoutEvent(o, "checkout_created", "checkout_created"))
  /\ Goto(o, "ref")
  /\ UNCHANGED <<refs, drafts, expired, faults>>

\* appendCheckoutRef: the URL of the draft order just created is kept.
AppendCheckoutRef(o) ==
  /\ At(o, "ref")
  /\ refs' = [refs EXCEPT ![o] = Append(@, Len(drafts[o]))]
  /\ call' = Idle
  /\ UNCHANGED <<log, snap, drafts, expired, faults>>

\* The catch block.
AppendCheckoutFailed(o) ==
  /\ At(o, "fail")
  /\ Append1(o, CheckoutEvent(o, "checkout_creation_failed", "buyer_accepted"))
  /\ call' = Idle
  /\ UNCHANGED <<refs, drafts, expired, faults>>

\* An append of the transaction throws (disk full, I/O error).  Inside the try
\* block control passes to the catch block, elsewhere the request ends in a 500.
WriteFails(o) ==
  /\ call.offer = o
  /\ call.step # "shopify"
  /\ faults < MaxFaults
  /\ faults' = faults + 1
  /\ IF call.step \in {"start", "create", "ref"} THEN Goto(o, "fail") ELSE call' = Idle
  /\ UNCHANGED <<log, snap, refs, drafts, expired>>

\* The server dies and restarts: the log survives, the transaction does not.
\* A draft-order request on the wire may still be served.
Crash(o) ==
  /\ call.offer = o
  /\ faults < MaxFaults
  /\ faults' = faults + 1
  /\ call' = Idle
  /\ \/ UNCHANGED drafts
     \/ /\ call.step = "shopify"
        /\ drafts' = [drafts EXCEPT ![o] = Append(@, snap[o].accepted)]
  /\ UNCHANGED <<log, snap, refs, expired>>

----------------------------------------------------------------------------
\* Mutant of CallStep: a request to Shopify that nothing ends.
CallStepHangs(o) ==
  \/ AppendBuyerAccepted(o) \/ AppendMissingVariant(o) \/ AppendStarted(o)
  \/ AppendCheckoutCreated(o) \/ AppendCheckoutRef(o) \/ AppendCheckoutFailed(o)

\* The steps by which a transaction that holds the queue goes on.
CallStep(o) ==
  \/ AppendBuyerAccepted(o) \/ AppendMissingVariant(o) \/ AppendStarted(o)
  \/ DraftCreated(o) \/ DraftCallFails(o) \/ AppendCheckoutCreated(o)
  \/ AppendCheckoutRef(o) \/ AppendCheckoutFailed(o)

Next ==
  \E o \in Offers :
    \/ SubmitOffer(o) \/ MerchantAct(o) \/ TokenExpires(o) \/ AcceptBegin(o)
    \/ CallStep(o) \/ WriteFails(o) \/ Crash(o)

Spec == Init /\ [][Next]_vars

\* The event loop runs a transaction that has begun, and the HTTP client of the
\* runtime ends every request to Shopify.
FairSpec == Spec /\ \A o \in Offers : WF_vars(CallStep(o))

----------------------------------------------------------------------------
CallType == {Idle} \cup [offer : Offers, step : Steps \ {"idle"}]

SnapType ==
  [state : LifecycleStates, offer : Nat, terms : Nat, accepted : Nat,
   variant : BOOLEAN, checkout : {"none", "started", "failed", "created"},
   pay : PaymentStates, paid : Nat, refunded : Nat, exposure : Exposures,
   matured : {{}}]

Event ==
  [type : {"offer_submitted"}, state : {"offer_submitted"}, amount : Nat,
   variant : BOOLEAN]
  \cup [type : {"merchant_accepted", "merchant_declined"}, state : LifecycleStates]
  \cup [type : {"merchant_countered", "buyer_accepted", "checkout_creation_started",
                "checkout_creation_failed", "checkout_created"},
        state : LifecycleStates, amount : Nat]

\* The type invariant.
TypeOK ==
  /\ log \in [Offers -> Seq(Event)]
  /\ snap \in [Offers -> SnapType]
  /\ refs \in [Offers -> Seq(Nat)]
  /\ drafts \in [Offers -> Seq(Nat)]
  /\ call \in CallType
  /\ expired \subseteq Offers
  /\ faults \in 0..MaxFaults

EventsOf(o, type) == {i \in DOMAIN log[o] : log[o][i].type = type}

\* The merchant's answer, at a place before b in the log, asks for p.
AskedBefore(o, b, p) ==
  \/ \E m \in EventsOf(o, "merchant_countered") : m < b /\ log[o][m].amount = p
  \/ \E m \in EventsOf(o, "merchant_accepted") : m < b /\ log[o][1].amount = p

AgreedTo(o, p) ==
  \E b \in EventsOf(o, "buyer_accepted") : log[o][b].amount = p /\ AskedBefore(o, b, p)

\* A draft order exists only for a price both parties agreed to: the log
\* holds a buyer_accepted for it, and before that the answer of the merchant
\* that put this price on the table (handleBuyerAcceptPost; "checkout is
\* created before buyer acceptance" is a blocking failure of
\* docs/COUNTERPILOT_ACCEPTANCE_TEST.md).
AgreedPrice ==
  \A o \in Offers : \A d \in DOMAIN drafts[o] : AgreedTo(o, drafts[o][d])

\* However many draft orders crashes, lost answers and retries leave at
\* Shopify, at most one checkout URL is ever stored for an offer, hence at
\* most one is ever handed to the buyer (checkoutResponse,
\* latestCheckoutRefFor).
OneCheckout == \A o \in Offers : Len(refs[o]) <= 1

StaysClosed(o) ==
  snap[o].checkout = "started" /\ call.offer # o
    => drafts'[o] = drafts[o] /\ call'.offer # o

\* A checkout creation that a crash left started but not finished fails
\* closed: while no transaction works on the offer, no step creates a draft
\* order and no later accept starts one (the 202 branch).
FailsClosed == [][\A o \in Offers : StaysClosed(o)]_vars

\* A transaction leaves the write queue whatever Shopify and the disk do, so
\* the handlers queued behind it run.
QueueReleased == \A o \in Offers : call.offer = o ~> call = Idle

\* The deal as the two parties see it: s is the snapshot, r the stored
\* checkout references and d the draft orders of an offer.
Phase(s, r) ==
  CASE r # <<>>                                       -> "payable"
    [] r = <<>> /\ s.state = "none"                   -> "none"
    [] r = <<>> /\ s.state = "offer_submitted"        -> "offered"
    [] r = <<>> /\ s.state \in BuyerResponseStates    -> "terms"
    [] r = <<>> /\ s.state = "merchant_declined"      -> "declined"
    [] OTHER                                          -> "agreed"

Price(s)        == IF s.terms = 0 THEN s.offer ELSE s.terms
Checkouts(r, d) == [i \in DOMAIN r |-> d[r[i]]]

Deal == INSTANCE DealContract
          WITH phase     <- [o \in Offers |-> Phase(snap[o], refs[o])],
               price     <- [o \in Offers |-> Price(snap[o])],
               checkouts <- [o \in Offers |-> Checkouts(refs[o], drafts[o])]

\* Negotiation implements DealContract: with retries, crashes and lost
\* answers the buyer still sees one answer, one agreed price and at most one
\* checkout at that price, and a declined offer stays declined.
Contract == Deal!DealSpec

----------------------------------------------------------------------------
\* The inductive invariant behind the safety properties.

EarlyStates == {"none", "offer_submitted", "merchant_declined"} \cup BuyerResponseStates
LateStates  == {"buyer_accepted", "checkout_created"}

\* What each lifecycle state says of the log and the price on the table.
StateInv(o) ==
  LET s == snap[o]
  IN  /\ s.state \in EarlyStates \cup LateStates
      /\ s.state = "none" <=> log[o] = <<>>
      /\ s.state = "offer_submitted" =>
           log[o] # <<>> /\ log[o][1].amount = s.offer /\ s.offer \in Prices
      /\ s.state \in {"none", "offer_submitted", "merchant_declined"} => s.terms = 0
      /\ s.state \in BuyerResponseStates =>
           s.terms \in Prices /\ AskedBefore(o, Len(log[o]) + 1, s.terms)
      /\ s.state \in LateStates =>
           s.terms \in Prices /\ s.accepted = s.terms /\ AgreedTo(o, s.terms)

\* Draft orders and stored URLs against the state: nothing before the buyer
\* agreed, then only at the agreed price, and a stored URL ends it.
CheckoutInv(o) ==
  LET s == snap[o]
  IN  /\ s.state \in EarlyStates =>
           s.checkout = "none" /\ drafts[o] = <<>> /\ refs[o] = <<>>
      /\ s.checkout = "started" => s.variant
      /\ \A d \in DOMAIN drafts[o] : drafts[o][d] = s.terms
      /\ refs[o] # <<>> =>
           /\ s.state = "checkout_created" /\ call.offer # o
           /\ Len(refs[o]) = 1 /\ refs[o][1] \in DOMAIN drafts[o]

\* What the transaction in the queue has established at each of its steps.
CallInv(o) ==
  LET s == snap[o]
  IN  call.offer = o =>
        /\ call.step = "accept" => s.state \in BuyerResponseStates
        /\ call.step \in {"reject", "start", "shopify", "create"} =>
             s.state = "buyer_accepted"
        /\ call.step = "ref"  => s.state = "checkout_created"
        /\ call.step = "fail" => s.state \in LateStates
        /\ call.step = "start" => s.variant
        /\ call.step \in {"create", "ref"} => drafts[o] # <<>>

\* The log, the snapshot, Shopify, the stored URLs and the transaction in the
\* queue fit together at every step of the accept handler.
NegotiationInv ==
  TypeOK /\ \A o \in Offers : StateInv(o) /\ CheckoutInv(o) /\ CallInv(o)

=============================================================================
