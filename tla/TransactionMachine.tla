------------------------- MODULE TransactionMachine -------------------------
(***************************************************************************)
(* TransactionStateMachine (counterpilot_state/machine.py) for one         *)
(* transaction: events are appended in any order, replayed in the order of *)
(* their times, and an event is refused when the replay with it would not  *)
(* do.  Each append happens under the ledger's lock (LedgerLock), so it is *)
(* one step.                                                               *)
(*                                                                         *)
(* history is what happened, in the order of (occurred_at, received_at,    *)
(* event_id); an event is its place in it.  The ledger holds the places    *)
(* stored.                                                                 *)
(***************************************************************************)
EXTENDS Naturals, Sequences, FiniteSets

CONSTANT Histories \* what may happen: sequences of [to, key]

ASSUME HistoriesAssumption == \A h \in Histories : h \in Seq({h[e] : e \in DOMAIN h})

VARIABLES history, \* what happened: a transition and an idempotency key each
          stored   \* the events in the ledger

machineVars == <<history, stored>>

----------------------------------------------------------------------------
OfferOpen == {"offer_submitted", "merchant_countered", "buyer_countered"}
MerchantDecisions == {"merchant_accepted", "merchant_declined", "merchant_countered"}
Refunds == {"partially_refunded", "fully_refunded"}

\* VALID_TRANSITIONS.
Transitions ==
  UNION { {"none"} \X {"offer_submitted"},
          OfferOpen \X {"offer_expired", "cancelled"},
          {"offer_submitted", "merchant_countered"} \X {"buyer_countered"},
          {"offer_submitted", "buyer_countered"} \X MerchantDecisions,
          {"merchant_countered"} \X {"buyer_accepted", "buyer_declined"},
          {"merchant_accepted", "buyer_accepted"} \X {"checkout_created", "cancelled"},
          {"checkout_created"} \X {"checkout_expired", "order_created"},
          {"checkout_created", "order_created"} \X {"payment_pending", "cancelled"},
          {"order_created", "payment_pending"} \X {"paid"},
          {"payment_pending"} \X {"cancelled"},
          {"paid"} \X Refunds,
          {"partially_refunded"} \X {"fully_refunded"},
          ({"paid", "return_closed"} \cup Refunds) \X {"return_opened", "mature"},
          {"return_opened"} \X {"return_received", "return_closed"},
          {"return_received"} \X {"return_closed"} }

States == {p[2] : p \in Transitions}
Valid  == [s \in States \cup {"none"} |-> {t \in States : <<s, t>> \in Transitions}]
TerminalStates == {s \in States : Valid[s] = {}}

WebhookStates ==
  {"order_created", "payment_pending", "paid", "cancelled", "return_opened",
   "return_received", "return_closed"} \cup Refunds

\* The states that can follow each state, after one transition or more: each
\* round doubles the length of the paths, and none is longer than 2^5.
Reach ==
  LET after[n \in 0..5] ==
        IF n = 0 THEN Valid
        ELSE LET nearer == after[n - 1] IN
             [s \in DOMAIN Valid |-> nearer[s] \cup UNION {nearer[t] : t \in nearer[s]}]
  IN after[5]

\* Mutant of CouldFollow: only the next transition.
CouldFollowNext(t, s) == t \in Valid[s]

CouldFollow(t, s) == s \notin TerminalStates /\ t \in Reach[s]

\* Init, before the first event.
Blank == [state |-> "none", applied |-> {}, pending |-> {}, errors |-> {}]

\* The body of the loop in _replay for event e.
ReplayStep(r, e) ==
  LET to == history[e].to IN
  IF to \in Valid[r.state] THEN [r EXCEPT !.state = to, !.applied = @ \cup {e}]
  ELSE IF to \in WebhookStates /\ CouldFollow(to, r.state)
       THEN [r EXCEPT !.pending = @ \cup {e}]
       ELSE [r EXCEPT !.errors = @ \cup {e}]

\* _replay: the events in the order of their times.
Replay(events) ==
  LET upTo[t \in 0..Len(history)] ==
        IF t = 0 THEN Blank
        ELSE IF t \in events THEN ReplayStep(upTo[t - 1], t) ELSE upTo[t - 1]
  IN upTo[Len(history)]

\* The event itself, or another one with its idempotency key.
Known(e) == \E f \in stored : history[f].key = history[e].key

\* Mutant of Accepted: what was applied may be lost.
AcceptedAlone(e) == e \notin Replay(stored \cup {e}).errors

\* _validate_new_event_against_history.
Accepted(e) ==
  LET after == Replay(stored \cup {e}) IN
  /\ Replay(stored).applied \subseteq after.applied
  /\ e \notin after.errors

\* _append_prelocked: a line at the end of the ledger, whatever the time of the event.
AppendPrelocked(e) == stored' = stored \cup {e}

\* append_event raises; otherwise the event is in the ledger afterwards.
Raises(e) == IF Known(e) THEN e \notin stored ELSE ~Accepted(e)
AppendEvent(e) == IF Known(e) \/ ~Accepted(e) THEN UNCHANGED stored ELSE AppendPrelocked(e)

----------------------------------------------------------------------------
MachineInit ==
  /\ history \in Histories
  /\ stored = {}

\* What happened is a path through VALID_TRANSITIONS, each event with a key of
\* its own.
Legal ==
  /\ \A e \in DOMAIN history :
       history[e].to \in Valid[IF e = 1 THEN "none" ELSE history[e - 1].to]
  /\ \A e, f \in DOMAIN history : history[e].key = history[f].key => e = f

\* Events of this side are appended when they happen; webhooks overtake them
\* and one another.
InTurn(e) ==
  \/ history[e].to \in WebhookStates \/ ~Legal
  \/ \A f \in 1..(e - 1) : history[f].to \notin WebhookStates => f \in stored

MachineAppend(e) ==
  /\ InTurn(e)
  /\ AppendEvent(e)
  /\ UNCHANGED history

MachineNext == \E e \in DOMAIN history : MachineAppend(e)

MachineSpec == MachineInit /\ [][MachineNext]_machineVars

\* Who has an event to report repeats it until it is in the ledger.
MachineFairSpec == MachineSpec /\ WF_machineVars(MachineNext)

----------------------------------------------------------------------------
\* inspect: the ledger is read and replayed each time.
Snapshot == Replay(stored)
State    == Snapshot.state
Applied  == Snapshot.applied

\* The transitions of _transaction_summary, and the events its revenue and its refunds
\* (_refund_amount_minor) come from.
ReportedTransitions == {history[e].to : e \in stored}
ReportedRefunds == {e \in stored : history[e].to \in Refunds}
ReportedAmounts == ReportedRefunds \cup {e \in stored : history[e].to = "paid"}

\* The merchant's report (counterpilot_reports.py) shows the transitions of every event in
\* the ledger, applied or waiting, and adds up the refunds among them.  A transaction in its
\* mature totals is nevertheless one the machine holds for mature, whatever was delivered in
\* whatever order; and if what happened was legal, every payment and refund in its sums has
\* been applied.
MatureTotalsMatchMachine ==
  "mature" \in ReportedTransitions =>
    /\ State = "mature"
    /\ Legal => ReportedAmounts \subseteq Applied

\* An accepted event is not dead: the replay of a legal history that is
\* stored in part, in whatever order it came in, has events applied and
\* events that wait for a predecessor, and no errors.
NothingDead == Legal => Replay(stored).errors = {}

\* What is stored stays usable, and what is reported of it is what the machine applied.
MachineSound == NothingDead /\ MatureTotalsMatchMachine

\* Out-of-order events are reconciled: a legal history that is delivered in
\* any order, and repeated where it was refused, is applied in full.
LegalHistoryApplied == Legal => <>[](Applied = DOMAIN history)
=============================================================================
