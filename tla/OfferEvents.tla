---------------------------- MODULE OfferEvents ----------------------------
(***************************************************************************)
(* The vocabulary of the offer log.  Every state the offer server, the     *)
(* maturity job and the merchant report act on is a replay of offers.jsonl *)
(* (buildOfferSnapshots in counterpilot-server.mjs).  Replay is the body   *)
(* of that loop for one event: the modules that append an event to the log *)
(* of an offer also move its snapshot by Replay, which is the same thing   *)
(* as replaying the file from the start on the next read.                  *)
(*                                                                         *)
(* Amounts are natural numbers of minor units.  Hashes, timestamps and     *)
(* currency codes are left out: a reference is the thing it refers to.     *)
(***************************************************************************)
EXTENDS Naturals, Sequences

\* BUYER_RESPONSE_STATES: the merchant has answered with terms.
BuyerResponseStates == {"merchant_accepted", "merchant_countered"}

\* ORDER_WEBHOOK_READY_STATES.
OrderReadyStates == {"checkout_created", "order_created", "paid"}

\* REFUND_WEBHOOK_READY_STATES, and RETURN_WEBHOOK_READY_STATES, the same set.
SettledStates == {"paid", "partially_refunded", "refunded", "mature"}

\* Every lifecycle_state an event can carry, and "none" for an offer that
\* the log does not hold yet.
LifecycleStates ==
  {"none", "offer_submitted", "merchant_declined", "buyer_accepted"}
    \cup BuyerResponseStates \cup OrderReadyStates \cup SettledStates

PaymentStates == {"none", "paid", "partially_refunded", "refunded"}
Exposures     == {"none", "open", "closed"}

(***************************************************************************)
(* What the server knows of one offer.                                     *)
(*   offer, terms, accepted : offer_amount_minor, acceptable_amount_minor  *)
(*                            and accepted_amount_minor                    *)
(*   variant   : operational_refs.variant_ref is present                   *)
(*   checkout  : checkout_creation_status                                  *)
(*   pay       : payment_lifecycle_state, "none" until the paid event      *)
(*   paid, refunded : paid_total_minor, cumulative_refund_total_minor      *)
(*   exposure  : return_exposure_state                                     *)
(*   matured   : the inputs behind the maturity fields, {} when they are   *)
(*               absent or cleared                                         *)
(***************************************************************************)
Blank ==
  [state |-> "none", offer |-> 0, terms |-> 0, accepted |-> 0,
   variant |-> FALSE, checkout |-> "none", pay |-> "none", paid |-> 0,
   refunded |-> 0, exposure |-> "none", matured |-> {}]

\* maturityInput, without the margin configuration, which one deployment
\* fixes.  maturity_input_hash identifies it.
MaturityInput(s) ==
  [paid |-> s.paid, refunded |-> s.refunded, exposure |-> s.exposure]

\* Mutant of AfterReturn: a mature offer stays mature.
AfterReturnKeeps(t, e) == [t EXCEPT !.exposure = e.exposure]

\* A return event recorded while the offer was mature takes it back to its
\* payment state, and clears the maturity fields (clearMaturityFields).
AfterReturn(t, e) ==
  IF e.state = "mature"
  THEN [t EXCEPT !.exposure = e.exposure, !.matured = {},
                 !.state = IF t.pay = "none" THEN "paid" ELSE t.pay]
  ELSE [t EXCEPT !.exposure = e.exposure]

Replay(s, e) ==
  LET t == [s EXCEPT !.state = e.state]
  IN  CASE e.type = "offer_submitted" ->
             [Blank EXCEPT !.state = e.state, !.offer = e.amount,
                           !.variant = e.variant]
        [] e.type = "merchant_accepted"         -> [t EXCEPT !.terms = s.offer]
        [] e.type = "merchant_countered"        -> [t EXCEPT !.terms = e.amount]
        [] e.type = "buyer_accepted"            -> [t EXCEPT !.accepted = e.amount]
        [] e.type = "checkout_creation_started" -> [t EXCEPT !.checkout = "started"]
        [] e.type = "checkout_creation_failed"  -> [t EXCEPT !.checkout = "failed"]
        [] e.type = "checkout_created" ->
             [t EXCEPT !.checkout = "created", !.accepted = e.amount]
        [] e.type = "paid" -> [t EXCEPT !.pay = e.state, !.paid = e.amount]
        \* The test for "mature" that guards clearMaturityFields here reads
        \* the state already overwritten by e.state: the fields stay.
        [] e.type = "refund_recorded" ->
             [t EXCEPT !.pay = e.state, !.refunded = e.total]
        [] e.type = "return_status_recorded" -> AfterReturn(t, e)
        [] e.type = "mature" ->
             [t EXCEPT !.pay = e.pay, !.matured = {e.input},
                       !.exposure = e.input.exposure]
        [] OTHER -> t    \* merchant_declined, order_created

\* hasTransactionEvent
HasEvent(events, type) == \E i \in DOMAIN events : events[i].type = type
=============================================================================
