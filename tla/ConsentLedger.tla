---------------------------- MODULE ConsentLedger ----------------------------
(***************************************************************************)
(* Consent of merchants to the use of their data, and the exports made     *)
(* under it (src/src/behavior_lab/counterpilot_storage/consent.py,         *)
(* stores.py, counterpilot_core.py; integrations/shopify/adapter.py):      *)
(* grants and revocations are records with a time of their own, in any     *)
(* order; an export reads the research events and asks for the consent of  *)
(* every store in them, in several scans, before it returns the rows.      *)
(*                                                                         *)
(* Policy versions, hashes and provenance are left out: records of the     *)
(* same content are the same record.  Grants of a fixed term (revoked_at), *)
(* which no command makes, are left out too.                               *)
(***************************************************************************)
EXTENDS Naturals, Sequences, FiniteSetsExt, SequencesExt

CONSTANTS
  Stores,      \* numbered in the order of their names
  MerchantOf,
  Purposes,
  CrossPurpose,   \* CROSS_MERCHANT_TRAINING
  Sales,       \* transactions that mature and become research events
  StoreOf,
  Exporters,   \* processes that export
  MaxTime,     \* the clock goes from 0 to MaxTime
  MaxConsents  \* bound of the model, not of the code

ASSUME ConsentAssumption ==
  /\ Stores \subseteq Nat /\ StoreOf \in [Sales -> Stores] /\ CrossPurpose \in Purposes
  /\ MaxTime \in Nat /\ MaxConsents \in Nat

VARIABLES
  consents,  \* the counterpilot_consent_record records
  sold,      \* the counterpilot_research_event records, as their sales
  clock,
  exporting  \* what each exporter is doing

consentVars == <<consents, sold, clock, exporting>>

Times == 0..MaxTime
NotExporting == [at |-> "none"]
DefaultPurposes == Purposes \ {CrossPurpose}

ConsentOf(s, at, granted, prohibited) == [store |-> s, at |-> at, granted |-> granted, prohibited |-> prohibited]
OnFile(r) == r \in Range(consents)
Relevant(r, s, p, cutoff) == r.store = s /\ r.at <= cutoff /\ p \in r.granted \cup r.prohibited

\* Mutant: the order of the file decides.
EarlierByArrival(i, j, p) == i < j
\* Mutant: a grant of the same instant is taken in the order it came.
EarlierTied(i, j, p) ==
  \/ consents[i].at < consents[j].at
  \/ consents[i].at = consents[j].at /\ i < j

\* The key that _effective_records sorts by: the time of the consent, a prohibition after a
\* grant, the order of writing.
Earlier(i, j, p) ==
  LET Key(k) == IF p \in consents[k].prohibited THEN 1 ELSE 0
  IN  \/ consents[i].at < consents[j].at
      \/ consents[i].at = consents[j].at /\ Key(i) < Key(j)
      \/ consents[i].at = consents[j].at /\ Key(i) = Key(j) /\ i < j
RelevantRecords(s, p, cutoff) == {i \in DOMAIN consents : Relevant(consents[i], s, p, cutoff)}
Effective(s, p, cutoff) ==
  LET R == RelevantRecords(s, p, cutoff)
  IN  [n \in 1..Cardinality(R) |-> CHOOSE i \in R : Cardinality({j \in R : Earlier(j, i, p)}) = n - 1]

\* is_active: each record in turn sets the state or clears it.
IsActive(s, p, cutoff) ==
  FoldLeft(LAMBDA state, i : p \in consents[i].granted, FALSE, Effective(s, p, cutoff))

-----------------------------------------------------------------------------
\* consent_grant, at any time of its own: cross-merchant training is prohibited unless asked
\* for, and may not be both.
ConsentGrant ==
  /\ Len(consents) < MaxConsents
  /\ \E s \in Stores, at \in Times, granted \in (SUBSET Purposes) \ {{}}, cross \in BOOLEAN :
       LET r == ConsentOf(s, at, granted, IF cross THEN {} ELSE {CrossPurpose})
       IN  /\ r.granted \cap r.prohibited = {} /\ ~OnFile(r)
           /\ consents' = Append(consents, r)
  /\ UNCHANGED <<sold, clock, exporting>>

\* consent_revoke.
ConsentRevoke ==
  /\ Len(consents) < MaxConsents
  /\ \E s \in Stores, at \in Times, p \in Purposes :
       LET r == ConsentOf(s, at, {}, {p})
       IN  ~OnFile(r) /\ consents' = Append(consents, r)
  /\ UNCHANGED <<sold, clock, exporting>>

Tick == clock < MaxTime /\ clock' = clock + 1 /\ UNCHANGED <<consents, sold, exporting>>

-----------------------------------------------------------------------------
Exporting(x, step) == exporting[x].at = step
To(x, e) == exporting' = [exporting EXCEPT ![x] = e]
EventStores == {StoreOf[k] : k \in sold}

\* An export of a store, of a merchant or across merchants, as of now (MaxTime + 1) or of a
\* given time.  `from` and `began` are the records and the time there are at its beginning.
Export(stores, p, asOf, rows) ==
  [at |-> "require", purpose |-> p, asOf |-> asOf, rows |-> rows, todo |-> stores, lineage |-> {},
   from |-> Len(consents), began |-> clock]

\* training_dataset, its read of the events: those of one merchant, or of several for the
\* cross-merchant purpose alone.
BeginExport(x) ==
  /\ Exporting(x, "none") \/ Exporting(x, "returned")
  /\ \E chosen \in (SUBSET EventStores) \ {{}}, p \in Purposes, asOf \in Times \cup {MaxTime + 1} :
       /\ \/ \E m \in {MerchantOf[s] : s \in Stores} : chosen = {s \in EventStores : MerchantOf[s] = m}
          \/ Cardinality(chosen) = 1
          \/ chosen = EventStores /\ p = CrossPurpose
       /\ To(x, Export(chosen, p, asOf, {k \in sold : StoreOf[k] \in chosen}))
  /\ UNCHANGED <<consents, sold, clock>>

\* mature_and_export, once the mature event is appended: a grant of a fixed date, the event
\* with its evidence, an export of the store.  A grant on record is a DuplicateRecordError.
MatureGrant(x) ==
  /\ Exporting(x, "none") \/ Exporting(x, "returned")
  /\ \E k \in Sales \ sold :
       LET r == ConsentOf(StoreOf[k], 0, DefaultPurposes, {CrossPurpose})
       IN  IF OnFile(r) THEN UNCHANGED consents /\ To(x, NotExporting)
           ELSE /\ Len(consents) < MaxConsents
                /\ consents' = Append(consents, r)
                /\ \E p \in DefaultPurposes : To(x, [at |-> "project", sale |-> k, purpose |-> p])
  /\ UNCHANGED <<sold, clock>>

\* The evidence must be active as of the time of maturing; the append follows.
ProjectSale(x) ==
  /\ Exporting(x, "project")
  /\ LET e == exporting[x]
         s == StoreOf[e.sale]
     IN  IF e.sale \in sold \/ ~IsActive(s, e.purpose, clock) THEN UNCHANGED sold /\ To(x, NotExporting)
         ELSE /\ sold' = sold \cup {e.sale}
              /\ To(x, Export({s}, e.purpose, clock, {k \in sold' : StoreOf[k] = s}))
  /\ UNCHANGED <<consents, clock>>

Cutoff(e) == IF e.asOf > MaxTime THEN clock ELSE e.asOf
NextStore(e) == Min(e.todo)
Evidence(s, record, active) == [store |-> s, record |-> record, active |-> active]

\* Mutant: evidence is taken for a store whose consent is not active.
RequireNothing(x) ==
  /\ Exporting(x, "require")
  /\ To(x, [exporting[x] EXCEPT !.at = "evidence"])
  /\ UNCHANGED <<consents, sold, clock>>

\* latest_evidence: require_active, then a scan for the latest record, then another for the
\* state it is reported with.
RequireActive(x) ==
  /\ Exporting(x, "require")
  /\ LET e == exporting[x]
     IN  To(x, IF IsActive(NextStore(e), e.purpose, Cutoff(e)) THEN [e EXCEPT !.at = "evidence"]
               ELSE NotExporting)
  /\ UNCHANGED <<consents, sold, clock>>

LatestEvidence(x) ==
  /\ Exporting(x, "evidence")
  /\ LET e == exporting[x]
         s == NextStore(e)
     IN  To(x, [e EXCEPT !.at = "state",
                         !.lineage = @ \cup {Evidence(s, Last(Effective(s, e.purpose, Cutoff(e))), FALSE)}])
  /\ UNCHANGED <<consents, sold, clock>>

ReportState(x) ==
  /\ Exporting(x, "state")
  /\ LET e == exporting[x]
         s == NextStore(e)
     IN  To(x, [e EXCEPT !.at = IF e.todo = {s} THEN "returned" ELSE "require", !.todo = @ \ {s},
                         !.lineage = {Evidence(l.store, l.record, IF l.store = s THEN IsActive(s, e.purpose, Cutoff(e))
                                                                  ELSE l.active) : l \in @}])
  /\ UNCHANGED <<consents, sold, clock>>

ConsentInit ==
  consents = <<>> /\ sold = {} /\ clock = 0 /\ exporting = [x \in Exporters |-> NotExporting]
ConsentNext ==
  \/ ConsentGrant \/ ConsentRevoke \/ Tick
  \/ \E x \in Exporters : BeginExport(x) \/ MatureGrant(x) \/ ProjectSale(x) \/ RequireActive(x)
                          \/ LatestEvidence(x) \/ ReportState(x)
ConsentSpec == ConsentInit /\ [][ConsentNext]_consentVars
-----------------------------------------------------------------------------
\* Whatever the order in which grants and revocations arrive, back-dated or dated ahead, a
\* purpose is active at a time iff some record about it has taken effect by then and no
\* record of the latest such instant prohibits it.
ConsentAsDeclared ==
  \A s \in Stores, p \in Purposes, t \in Times :
    LET effective == {r \in Range(consents) : Relevant(r, s, p, t)}
        latest == {r \in effective : \A q \in effective : q.at <= r.at}
    IN  IsActive(s, p, t) <=> (latest # {} /\ \A r \in latest : p \notin r.prohibited)

\* A dataset that was returned has the consent of every store in it.  Its lineage calls a
\* consent inactive only when a prohibition of that purpose was recorded, or took effect,
\* while the export ran.
DatasetConsented ==
  \A x \in Exporters : Exporting(x, "returned") =>
    LET e == exporting[x]
    IN  /\ {StoreOf[k] : k \in e.rows} = {l.store : l \in e.lineage}
        /\ \A l \in e.lineage : ~l.active =>
             \E i \in DOMAIN consents :
               /\ consents[i].store = l.store /\ e.purpose \in consents[i].prohibited
               /\ i > e.from \/ (consents[i].at > e.began /\ e.asOf > MaxTime)

\* Together: no dataset of a store without the consent in force (ConsentLedger.is_active,
\* ResearchStore.training_dataset).
ConsentKept == ConsentAsDeclared /\ DatasetConsented
=============================================================================
