---------------------------- MODULE MoneyLedger ----------------------------
(***************************************************************************)
(* The ledger of paper decisions (src/src/behavior_lab/money/ledger.py):   *)
(* several processes append a decision, move it through its evidence       *)
(* states, resolve it and correct it.  Each entry names the entry it       *)
(* supersedes by its hash; here by its position.                           *)
(*                                                                         *)
(* A process reads the latest entry of a decision, builds the next one     *)
(* from it and appends that under a guard.  Costs, deadlines and outcome   *)
(* figures are one value, what may not be rewritten is one forecast.       *)
(***************************************************************************)
EXTENDS Naturals, Sequences, FiniteSetsExt

CONSTANTS
  Bookkeepers, \* processes that append to the ledger
  Decisions,
  Forecasts,   \* the fields of IMMUTABLE_DECISION_FIELDS, taken together
  Outcomes,    \* realized values
  MaxEntries   \* bound of the model, not of the code

ASSUME MoneyAssumption == MaxEntries \in Nat /\ "none" \notin Outcomes

VARIABLES
  entries, \* the money_ledger_entry records
  draft    \* the entry each process is about to append, if any

moneyVars == <<entries, draft>>

InitialStates == {"proposed", "paper_decision"}
EvidenceStates == InitialStates \cup {"resolved_paper"}
NoDraft == [ready |-> FALSE]

\* latest_record: the last entry of a decision, 0 when there is none.
LatestEntry(d) == Max({0} \cup {i \in DOMAIN entries : entries[i].decision = d})

\* MoneyLedgerEntry.__post_init__: resolved entries have a resolution, initial ones none.
ValidEntry(e) == (e.outcome # "none") <=> (e.state = "resolved_paper")

Build(p, e) == draft' = [draft EXCEPT ![p] = [ready |-> TRUE, entry |-> e]]

\* An entry made from nothing, the first of its decision.
ProposeEntry(p) ==
  /\ ~draft[p].ready
  /\ \E d \in Decisions, f \in Forecasts, s \in InitialStates :
       Build(p, [decision |-> d, forecast |-> f, state |-> s, outcome |-> "none",
                 supersedes |-> 0, reason |-> FALSE, by |-> "entry"])
  /\ UNCHANGED entries

\* An entry made from the latest one: another state, another forecast, with a reason
\* (append_correction) or without (append_entry).
SupersedeEntry(p) ==
  /\ ~draft[p].ready
  /\ \E d \in Decisions, f \in Forecasts, s \in EvidenceStates, v \in Outcomes \cup {"none"}, r \in BOOLEAN :
       LET e == [decision |-> d, forecast |-> f, state |-> s, outcome |-> v,
                 supersedes |-> LatestEntry(d), reason |-> r, by |-> IF r THEN "correction" ELSE "entry"]
       IN  LatestEntry(d) # 0 /\ ValidEntry(e) /\ Build(p, e)
  /\ UNCHANGED entries

\* append_resolution, its read: every field of the latest entry is taken over, but for
\* the state, the resolution and the link.
ResolveEntry(p) ==
  /\ ~draft[p].ready
  /\ \E d \in Decisions, v \in Outcomes :
       /\ LatestEntry(d) # 0
       /\ Build(p, [entries[LatestEntry(d)] EXCEPT !.state = "resolved_paper", !.outcome = v,
                                                   !.supersedes = LatestEntry(d), !.by = "resolution"])
  /\ UNCHANGED entries

\* Mutant: the link to the latest entry is not compared.
AdmissibleUnlinked(e) ==
  LET latest == LatestEntry(e.decision)
  IN  latest # 0 => /\ e.forecast = entries[latest].forecast
                    /\ entries[latest].state \in {e.state, "resolved_paper"} => e.reason

\* The guard of append_entry.
Admissible(e) ==
  LET latest == LatestEntry(e.decision)
  IN  /\ e.supersedes = latest
      /\ latest # 0 => /\ e.forecast = entries[latest].forecast
                       /\ entries[latest].state \in {e.state, "resolved_paper"} => e.reason

AppendEntry(p) ==
  /\ draft[p].ready /\ Len(entries) < MaxEntries
  /\ entries' = IF Admissible(draft[p].entry) THEN Append(entries, draft[p].entry) ELSE entries
  /\ draft' = [draft EXCEPT ![p] = NoDraft]

\* The process dies before its append.
AbandonEntry(p) == draft[p].ready /\ draft' = [draft EXCEPT ![p] = NoDraft] /\ UNCHANGED entries

MoneyInit == entries = <<>> /\ draft = [p \in Bookkeepers |-> NoDraft]
MoneyNext == \E p \in Bookkeepers :
  ProposeEntry(p) \/ SupersedeEntry(p) \/ ResolveEntry(p) \/ AppendEntry(p) \/ AbandonEntry(p)
MoneySpec == MoneyInit /\ [][MoneyNext]_moneyVars
-----------------------------------------------------------------------------
\* Whoever appends at the same time, the entries of a decision are one chain from its
\* first entry to its latest, along which the forecast never changes and a resolved
\* value is replaced only by an entry that bears a reason.
HistoryLinked ==
  \A i \in DOMAIN entries :
    LET e == entries[i]
        earlier == {j \in 1..i-1 : entries[j].decision = e.decision}
    IN  /\ e.supersedes = Max({0} \cup earlier)
        /\ \A j \in earlier : entries[j].forecast = e.forecast
        /\ earlier # {} /\ entries[e.supersedes].state = "resolved_paper" => e.reason
=============================================================================
