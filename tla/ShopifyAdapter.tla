--------------------------- MODULE ShopifyAdapter ---------------------------
(***************************************************************************)
(* ShopifyDevelopmentAdapter (integrations/shopify/adapter.py) over        *)
(* TransactionMachine, for one transaction: local calls, the checkout, the *)
(* webhooks and the maturing, by several callers at once.  A call writes   *)
(* to the operational record, the ledger of deliveries and the ledger of   *)
(* transactions, one after the other; a crash leaves what it has written.  *)
(* The record is deleted when the customer's data are (stores.py).         *)
(*                                                                         *)
(* history is in the order of occurred_at: the time a caller passes in,    *)
(* or the one Shopify reports.                                             *)
(***************************************************************************)
EXTENDS TransactionMachine

CONSTANTS Callers,     \* calls in progress at once
          LocalCalls,  \* what merchant and buyer may ask for
          CheckoutIds, \* whether the provider reports a checkout_gid too
          MaxHistory,  \* bound: events that happen
          MaxFaults    \* bound: crashes, draft-order calls that fail, deletions

ASSUME LocalCallsAssumption ==
  LocalCalls \subseteq {"merchant_accepted", "merchant_declined", "offer_expired",
                       "merchant_countered", "buyer_accepted"}
ASSUME AdapterAssumption ==
  CheckoutIds \in BOOLEAN /\ MaxHistory \in Nat \ {0} /\ MaxFaults \in Nat

VARIABLES ops,        \* the operational record: whether there is one, its draft order, whether
                      \* an order is known
          drafts,     \* draft orders created at Shopify
          orderDraft, \* the draft order the buyer's order came from, 0 for none
          claims,     \* deliveries claimed
          call,       \* the call each caller is in
          faults

adapterVars == <<history, stored, ops, drafts, orderDraft, claims, call, faults>>

NoRecord == [kept |-> FALSE, draft |-> 0, order |-> FALSE]
NoCall == [step |-> "idle", event |-> 0, seen |-> NoRecord]

\* After submit_offer.
AdapterInit ==
  /\ history    = <<[to |-> "offer_submitted", key |-> <<"offer_submitted", 0>>]>>
  /\ stored     = {1}
  /\ ops        = [NoRecord EXCEPT !.kept = TRUE]
  /\ drafts     = 0
  /\ orderDraft = 0
  /\ claims     = {}
  /\ call       = [c \in Callers |-> NoCall]
  /\ faults     = 0

Step(c, s)  == call[c].step = s
Goto(c, s)  == call' = [call EXCEPT ![c].step = s]
Return(c)   == call' = [call EXCEPT ![c] = NoCall]
Event(c)    == call[c].event

\* OperationalTransactionStore: get finds nothing, put writes the whole record, which has the
\* buyer's contact data in it.
Missing     == ~ops.kept
Put(record) == ops' = [record EXCEPT !.kept = TRUE]

\* The event ids of local calls name their transition, those of webhooks their
\* delivery.
LocalKey(to)  == <<to, 0>>
WebhookEvents == {e \in DOMAIN history : history[e].key[2] # 0}
StoredTo(tos) == {e \in stored : history[e].to \in tos}

AcceptedStates == {"merchant_accepted", "buyer_accepted"}

\* The call takes its occurred_at now, and comes to its first write.
Begin(c, to, step) ==
  /\ Step(c, "idle")
  /\ Len(history) < MaxHistory
  /\ history' = Append(history, [to |-> to, key |-> LocalKey(to)])
  /\ call' = [call EXCEPT ![c] = [step |-> step, event |-> Len(history) + 1, seen |-> ops]]
  /\ UNCHANGED <<stored, ops, drafts, orderDraft, claims, faults>>

----------------------------------------------------------------------------
\* merchant_accept, merchant_decline, expire_offer, merchant_counter,
\* buyer_accept: an append each.
LocalCall(c) == \E to \in LocalCalls : Begin(c, to, "append")

\* create_checkout, to its first write.  A draft order on record is used
\* again; any other state is refused or needs no write.
CheckoutCall(c) ==
  /\ State \in AcceptedStates
  /\ Begin(c, "checkout_created", IF ops.draft # 0 THEN "append" ELSE "draft")

\* provider.create_discounted_draft_order.
DraftCreated(c) ==
  /\ Step(c, "draft")
  /\ drafts' = drafts + 1
  /\ call' = [call EXCEPT ![c].step = "put", ![c].seen.draft = drafts + 1]
  /\ UNCHANGED <<history, stored, ops, orderDraft, claims, faults>>

\* The call raises; the draft order may exist all the same.
DraftFails(c) ==
  /\ Step(c, "draft")
  /\ faults < MaxFaults
  /\ faults' = faults + 1
  /\ drafts' \in {drafts, drafts + 1}
  /\ Return(c)
  /\ UNCHANGED <<history, stored, ops, orderDraft, claims>>

\* operational.put of a new record.
PutCheckout(c) ==
  /\ Step(c, "put")
  /\ Put([NoRecord EXCEPT !.draft = call[c].seen.draft])
  /\ Goto(c, "append")
  /\ UNCHANGED <<history, stored, drafts, orderDraft, claims, faults>>

\* state.append_event, which may raise.
AppendLocal(c) ==
  /\ Step(c, "append")
  /\ AppendEvent(Event(c))
  /\ Return(c)
  /\ UNCHANGED <<history, ops, drafts, orderDraft, claims, faults>>

----------------------------------------------------------------------------
\* The topics of _topic_to_transition.
Topics == WebhookStates \ {"return_received"}

LastWebhook ==
  IF orderDraft = 0 THEN "checkout_created"
  ELSE history[CHOOSE e \in WebhookEvents : \A f \in WebhookEvents : f <= e].to

\* The buyer orders from the invoice on record; then Shopify reports what
\* happens to the order.
Happen(to) ==
  /\ Len(history) < MaxHistory
  /\ to \in Topics \cap Valid[LastWebhook]
  /\ IF orderDraft = 0
     THEN ops.draft # 0 /\ to = "order_created" /\ orderDraft' = ops.draft
     ELSE UNCHANGED orderDraft
  /\ history' = Append(history, [to |-> to, key |-> <<to, Len(history) + 1>>])
  /\ UNCHANGED <<stored, ops, drafts, claims, call, faults>>

\* _validate_webhook_resource_binding.  Only orders/create names the draft
\* order, the others the order.  An identifier that neither side has counts
\* as equal: so it is for the checkout_gid when the provider reports none.
Bound(e) ==
  \/ ops.order /\ history[e].to # "order_created"
  \/ history[e].to = "order_created" /\ ops.draft = orderDraft
  \/ ~CheckoutIds

\* ingest_webhook, to its first write.
Receive(c, e) ==
  /\ Step(c, "idle")
  /\ e \in WebhookEvents
  /\ ~Missing /\ Bound(e)
  /\ call' = [call EXCEPT ![c] = [step |-> "claim", event |-> e, seen |-> ops]]
  /\ UNCHANGED <<history, stored, ops, drafts, orderDraft, claims, faults>>

\* Mutant of Claim: a delivery that was claimed is not looked at again.
ClaimOnce(c) ==
  /\ Step(c, "claim")
  /\ claims' = claims \cup {Event(c)}
  /\ IF Event(c) \in claims THEN Return(c) ELSE Goto(c, "apply")
  /\ UNCHANGED <<history, stored, ops, drafts, orderDraft, faults>>

\* _claim_delivery: new, or claimed before with the same content.
Claim(c) ==
  /\ Step(c, "claim")
  /\ claims' = claims \cup {Event(c)}
  /\ Goto(c, "apply")
  /\ UNCHANGED <<history, stored, ops, drafts, orderDraft, faults>>

\* state.append_event.  When it raises, the delivery stays claimed.
Apply(c) ==
  /\ Step(c, "apply")
  /\ AppendEvent(Event(c))
  /\ IF Raises(Event(c)) THEN Return(c) ELSE Goto(c, "update")
  /\ UNCHANGED <<history, ops, drafts, orderDraft, claims, faults>>

\* Mutant of Update: the record as it was read.
UpdateAsRead(c) ==
  /\ Step(c, "update")
  /\ ops' = IF history[Event(c)].to = "order_created"
            THEN [call[c].seen EXCEPT !.order = TRUE] ELSE call[c].seen
  /\ Return(c)
  /\ UNCHANGED <<history, stored, drafts, orderDraft, claims, faults>>

\* _update_operational_resource_ids: the record that was read, with the ids
\* of the webhook, which has the order's.
Update(c) ==
  /\ Step(c, "update")
  /\ Put([call[c].seen EXCEPT !.order = TRUE])
  /\ Return(c)
  /\ UNCHANGED <<history, stored, drafts, orderDraft, claims, faults>>

----------------------------------------------------------------------------
\* mature_and_export, its read: the checkout and the price paid must be on
\* record.
MatureCall(c) ==
  /\ StoredTo({"checkout_created"}) # {}
  /\ StoredTo({"order_created", "payment_pending", "paid"}) # {}
  /\ Begin(c, "mature", "append")

Crash(c) ==
  /\ ~Step(c, "idle")
  /\ faults < MaxFaults
  /\ faults' = faults + 1
  /\ Return(c)
  /\ UNCHANGED <<history, stored, ops, drafts, orderDraft, claims>>

\* OperationalTransactionStore.delete_customer_data, asked for by the buyer or at the end of
\* the retention: the record goes, and a tombstone that nothing reads is written.
DeleteCustomerData ==
  /\ ~Missing
  /\ faults < MaxFaults
  /\ faults' = faults + 1
  /\ ops' = NoRecord
  /\ UNCHANGED <<history, stored, drafts, orderDraft, claims, call>>

CallStep(c) ==
  \/ DraftCreated(c) \/ PutCheckout(c) \/ AppendLocal(c)
  \/ Claim(c) \/ Apply(c) \/ Update(c)

AdapterNext ==
  \/ \E c \in Callers :
       \/ LocalCall(c) \/ CheckoutCall(c) \/ MatureCall(c)
       \/ \E e \in DOMAIN history : Receive(c, e)
       \/ CallStep(c) \/ DraftFails(c) \/ Crash(c)
  \/ \E to \in Topics : Happen(to)
  \/ DeleteCustomerData

AdapterSpec == AdapterInit /\ [][AdapterNext]_adapterVars

\* Calls run on, and Shopify repeats every delivery; an offer, its acceptance
\* and the checkout come before the first.
AdapterFairSpec ==
  /\ AdapterSpec
  /\ \A c \in Callers : WF_adapterVars(CallStep(c))
  /\ \A e \in 4..MaxHistory :
       SF_adapterVars(e \in DOMAIN history /\ \E c \in Callers : Receive(c, e))

----------------------------------------------------------------------------

\* The checkout is in the ledger, at a time before the order.
CheckoutInTime ==
  \E e \in StoredTo({"checkout_created"}) : \A f \in WebhookEvents : e < f

\* No webhook is lost: with the checkout on record in time and one draft
\* order, what Shopify reported is applied in the end, whatever order the
\* deliveries came in and wherever a call died, unless it matured or the record was deleted
\* before.
WebhooksApplied ==
  <>[](CheckoutInTime /\ drafts = 1 /\ StoredTo({"mature"}) = {} /\ ops.kept
         => WebhookEvents \subseteq Applied)

\* The customer's data are gone for good: the record is deleted, the checkout is in the ledger,
\* and no call is under way that has read the record or makes a draft order.
Forgotten ==
  /\ ~ops.kept /\ StoredTo({"checkout_created"}) # {}
  /\ \A c \in Callers : ~call[c].seen.kept /\ ~Step(c, "draft") /\ ~Step(c, "put")

\* Every update writes the whole record back as it was read.  The order stays on record once it
\* is known, and data that were deleted come back with no later webhook, only with one that was
\* being handled when they were deleted, or with another checkout.
RecordKept ==
  [][/\ (ops.order /\ ops'.kept /\ drafts' <= 1) => ops'.order
     /\ Forgotten => Forgotten']_adapterVars
=============================================================================
