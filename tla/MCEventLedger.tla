---------------------------- MODULE MCEventLedger ----------------------------
(***************************************************************************)
(* The lock of a ledger, and the state machine whose events are kept in    *)
(* one, on small instances in one run.  studied is the one whose actions   *)
(* are taken: an append of the machine is one step because the lock makes  *)
(* it one.                                                                 *)
(***************************************************************************)
EXTENDS LedgerLock, TransactionMachine

CONSTANTS p1, p2, p3, x, y, z,
          MaxLegal, \* events after the checkout in a legal history
          MaxAny    \* events after the first in any other

VARIABLE studied

\* One record, a batch, and a batch that repeats an id.
MCBatches == {<<x>>, <<y, z>>, <<z, z>>}

Keyed(h) == [i \in DOMAIN h |-> [to |-> h[i], key |-> i]]

\* The legal continuations of h by at most n events.
Continuations(h, n) ==
  LET longer[m \in 0..n] ==
        IF m = 0 THEN {h}
        ELSE LET shorter == longer[m - 1] IN
             shorter \cup UNION {{Append(g, t) : t \in Valid[g[Len(g)]]} : g \in shorter}
  IN longer[n]

Checkout == <<"offer_submitted", "merchant_accepted", "checkout_created">>
Orders   == WebhookStates \cup {"mature"}
Negotiation == OfferOpen \cup MerchantDecisions \cup {"offer_expired", "buyer_accepted", "checkout_created"}

\* Orders from the checkout on, legal or not, and negotiations; and nothing at all.
MCHistories ==
  {Keyed(h) : h \in Continuations(Checkout, MaxLegal)}
  \cup {Keyed(h) : h \in Continuations(<<"offer_submitted">>, MaxLegal)}
  \cup {Keyed(Checkout \o h) : h \in [1..MaxAny -> Orders]}
  \cup {Keyed(<<"offer_submitted">> \o h) : h \in [1..MaxAny -> Negotiation]}
  \cup {<<>>}

----------------------------------------------------------------------------
allVars == <<studied, ledgerVars, machineVars>>

LedgerStep(A) == studied = "ledger" /\ A /\ UNCHANGED <<studied, machineVars>>
MachineStep   == studied = "machine" /\ MachineNext /\ UNCHANGED <<studied, ledgerVars>>

EventLedgerInit ==
  /\ studied \in {"ledger", "machine"}
  /\ Init
  /\ MachineInit /\ (history = <<>> <=> studied = "ledger")

EventLedgerSpec ==
  /\ EventLedgerInit
  /\ [][LedgerStep(Next) \/ MachineStep]_allVars
  /\ WF_allVars(LedgerStep(Age))
  /\ \A p \in Procs : WF_allVars(LedgerStep(CallStep(p)))
  /\ WF_allVars(MachineStep)
=============================================================================
