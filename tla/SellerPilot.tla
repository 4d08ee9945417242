----------------------------- MODULE SellerPilot -----------------------------
(***************************************************************************)
(* A seller's pilot (offerlab_pilot.py): import_pilot copies a folder of   *)
(* exported files into an immutable ledger, each version of the folder     *)
(* once; audit_pilot computes mature margins from the latest import; and   *)
(* shadow_report_pilot puts the audit beside margins it computes itself,   *)
(* from rows it reads again, and prepares a policy if there is enough      *)
(* evidence.  The seller edits the folder, several imports and reports     *)
(* overlap, and return windows pass, at any time.  An import may die while *)
(* it writes; that it leaves half a line, after which every command stops  *)
(* at the ledger's parser, is left out.                                    *)
(***************************************************************************)
EXTENDS Naturals, Sequences, FiniteSets, SequencesExt

CONSTANTS
  Folders,     \* the versions of the folder
  Orders,      \* the orders in each version: [id, done, matures, priced, decision]
  Wellformed,  \* the versions that pass the validation of columns, times and amounts
  Importers, Reporters, \* calls of import_pilot and of shadow_report_pilot
  MinMature, MinMeaningful, \* 30 outcomes and 2 kinds of decision in the code
  MaxDays, MaxEdits, MaxCuts \* bounds of the model, not of the code

ASSUME PilotAssumption ==
  /\ Wellformed \subseteq Folders /\ DOMAIN Orders = Folders
  /\ \A v \in Folders : IsFiniteSet(Orders[v]) /\ \A o \in Orders[v] : o.matures \in Nat
  /\ MinMature \in Nat /\ MinMeaningful \in Nat /\ MaxDays \in Nat /\ MaxEdits \in Nat /\ MaxCuts \in Nat

VARIABLES
  folder,    \* the version in INPUT_DIR
  imports,   \* the import records of the ledger, in its order
  pilotRows, \* its row records: an order and the import it belongs to
  today, edits,
  importing, \* what each import has read
  reporting, \* what each report has read and computed
  cutShort   \* history: the imports on record whose process died while it wrote them

sellerVars == <<folder, imports, pilotRows, today, edits, importing, reporting, cutShort>>

NotReading == [stage |-> "idle"]

SellerInit ==
  /\ folder \in Wellformed /\ imports = <<>> /\ pilotRows = {} /\ today = 0 /\ edits = 0
  /\ importing = [i \in Importers |-> NotReading]
  /\ reporting = [r \in Reporters |-> NotReading]
  /\ cutShort = {}

EditFolder ==
  /\ edits < MaxEdits /\ edits' = edits + 1
  /\ \E v \in Folders \ {folder} : folder' = v
  /\ UNCHANGED <<imports, pilotRows, today, importing, reporting, cutShort>>

DayPasses ==
  /\ today < MaxDays /\ today' = today + 1
  /\ UNCHANGED <<folder, imports, pilotRows, edits, importing, reporting, cutShort>>

-----------------------------------------------------------------------------
\* import_pilot.  The folder is inspected, then read again: rows first, their hash after.
ReadFolder(i) ==
  /\ importing[i].stage = "idle" /\ folder \in Wellformed
  /\ importing' = [importing EXCEPT ![i] = [stage |-> "read", rows |-> folder]]
  /\ UNCHANGED <<folder, imports, pilotRows, today, edits, reporting, cutShort>>

\* append_many_guarded writes the import and then its rows, line by line, with the ledger locked.
RecordImport(import, orders) ==
  /\ imports' = Append(imports, import)
  /\ pilotRows' = pilotRows \cup {[import |-> import, order |-> o] : o \in orders}

\* The import's name is the hash of what was read.
Reading(i) == [rows |-> importing[i].rows, sha |-> folder]

\* An import there already is skipped, at find_record or by the guarded append: its record is
\* looked for, and not its rows.
FinishImport(i) ==
  /\ importing[i].stage = "read"
  /\ importing' = [importing EXCEPT ![i] = NotReading]
  /\ IF Contains(imports, Reading(i)) THEN UNCHANGED <<imports, pilotRows>>
     ELSE RecordImport(Reading(i), Orders[importing[i].rows])
  /\ UNCHANGED <<folder, today, edits, reporting, cutShort>>

\* The rows follow by dataset, in the alphabet's order: costs and fees before the orders, shipping
\* costs last of all.  An order without its shipping cost has no margin yet.
Unpriced(orders) ==
  {[id |-> o.id, done |-> o.done, matures |-> o.matures, priced |-> FALSE, decision |-> o.decision]
     : o \in orders}

RowPrefixes(orders) ==
  {Unpriced(some) : some \in SUBSET orders} \cup
  {shipped \cup Unpriced(orders \ shipped) : shipped \in SUBSET orders}

\* The process dies, or its disk is full, after the import record and a prefix of the rows.
DieInImport(i) ==
  /\ importing[i].stage = "read" /\ ~Contains(imports, Reading(i)) /\ Cardinality(cutShort) < MaxCuts
  /\ importing' = [importing EXCEPT ![i] = NotReading]
  /\ \E orders \in RowPrefixes(Orders[importing[i].rows]) : RecordImport(Reading(i), orders)
  /\ cutShort' = cutShort \cup {Reading(i)}
  /\ UNCHANGED <<folder, today, edits, reporting>>

-----------------------------------------------------------------------------
\* Mutant: the rows of every import.
RowsOfAll(import) == {r.order : r \in pilotRows}

RowsOf(import) == {r.order : r \in {s \in pilotRows : s.import = import}}

Matured(orders) == {o \in orders : o.done /\ o.matures <= today}

\* audit_pilot: the orders with a margin.
AuditedMargins(orders) == {o.id : o \in {p \in Matured(orders) : p.priced}}

\* _readiness_gate: the coverage of orders by costs and fees, and of completed ones by
\* return windows that are over.
ReadinessGate(orders) ==
  LET priced == {o \in orders : o.priced}
      done == {o \in orders : o.done}
  IN  /\ Cardinality(AuditedMargins(orders)) >= MinMature
      /\ 100 * Cardinality(priced) >= 95 * Cardinality(orders)
      /\ 100 * Cardinality(Matured(orders)) >= 80 * Cardinality(done)

\* _decision_margin_rows and _seller_decision.
DecisionMargins(orders) ==
  {[id |-> o.id, decision |-> o.decision] : o \in {p \in Matured(orders) : p.priced}}

\* Each of the two halves of a report reads the latest import, and then its rows.
ReadLatest(r) ==
  /\ reporting[r].stage \in {"idle", "audited"} /\ imports # <<>>
  /\ reporting' = [reporting EXCEPT ![r] =
       IF @.stage = "idle" THEN [stage |-> "auditing", import |-> Last(imports)]
       ELSE [stage |-> "comparing", import |-> Last(imports), audit |-> @.audit]]
  /\ UNCHANGED <<folder, imports, pilotRows, today, edits, importing, cutShort>>

Audit(r) ==
  /\ reporting[r].stage = "auditing"
  /\ LET orders == RowsOf(reporting[r].import) IN
     reporting' = [reporting EXCEPT ![r] =
       [stage |-> "audited",
        audit |-> [import |-> @.import, margins |-> AuditedMargins(orders), ready |-> ReadinessGate(orders)]]]
  /\ UNCHANGED <<folder, imports, pilotRows, today, edits, importing, cutShort>>

\* _shadow_policy_gate: the readiness is the audit's, the meaningful actions are the rows'.
WriteShadowReport(r) ==
  /\ reporting[r].stage = "comparing"
  /\ LET orders == RowsOf(reporting[r].import)
         meaningful == {o.decision : o \in orders}
     IN reporting' = [reporting EXCEPT ![r] =
          [stage |-> "done", at |-> today, import |-> @.import, audit |-> @.audit,
           breakdown |-> DecisionMargins(orders),
           policy |-> @.audit.ready /\ Cardinality(meaningful) >= MinMeaningful]]
  /\ UNCHANGED <<folder, imports, pilotRows, today, edits, importing, cutShort>>

SellerNext ==
  \/ EditFolder \/ DayPasses
  \/ \E i \in Importers : ReadFolder(i) \/ FinishImport(i) \/ DieInImport(i)
  \/ \E r \in Reporters : ReadLatest(r) \/ Audit(r) \/ WriteShadowReport(r)

SellerSpec == SellerInit /\ [][SellerNext]_sellerVars

-----------------------------------------------------------------------------
\* A shadow report whose halves read the same import agrees with itself, however many
\* imports, deaths and days passed while it was made.  Its breakdown is of orders of that import
\* that have a margin on the day of the report, and of all of them unless the import died while
\* it was written: repeating such an import does not bring the other orders back.  What the audit
\* counted is in the breakdown, and a policy is prepared only from one with the outcomes it needs
\* (import_pilot, append_many_guarded, audit_pilot, _latest_pilot_rows, shadow_report_pilot).
ReportOfOneImport ==
  \A r \in Reporters :
    LET report == reporting[r] IN
    report.stage = "done" /\ report.import = report.audit.import =>
      LET ids == {m.id : m \in report.breakdown}
          all == {o.id : o \in {p \in Orders[report.import.rows] :
                                 p.done /\ p.priced /\ p.matures <= report.at}}
      IN  /\ ids \subseteq all
          /\ report.import \notin cutShort => ids = all
          /\ report.audit.margins \subseteq ids
          /\ report.policy => Cardinality(ids) >= MinMature
=============================================================================
