--------------------------- MODULE IntegrationGate ---------------------------
(***************************************************************************)
(* The integration gate of Benchmark v2 (benchmark_v2_integration.py): it  *)
(* builds the benchmark, has the runner choose a model for each target on  *)
(* development data, freezes the choice in a preregistration, and reports  *)
(* whether there is a signal.  The directory may be normalized anew while  *)
(* a run reads it.  The files of a run replace those of the one before it, *)
(* and a run may die between them.                                         *)
(***************************************************************************)
EXTENDS Integers, FiniteSets

CONSTANTS
  Predicted,     \* the targets of the protocol
  RegressionOf,  \* those that are regressions
  Supported,     \* those with a minimum of support coverage
  Models,        \* the models, 1..n in the order that decides between equals
  BaselinesOf,   \* the preregistered baselines of each target
  Normalized,    \* what may be found in the normalized directory, see below
  Protocols,     \* the splits a protocol may ask for, each a set
  MinGain, MaxRatio, MinCoverage,  \* thresholds of the protocol, in per cent
  MaxGates, MaxSwaps               \* bounds of the model, not of the code

(* A directory is audited (verify_full_release_evidence), clean (nber_audit), has rows    *)
(* enough for the splits in assignable, and for each target the boards below (losses of   *)
(* the models on a split, empty when a part of it is), the thresholds of calibration the  *)
(* choice misses, the share of rows it covers, and whether timestamps are tied.           *)
Boards == {"nested", "chronological", "seller", "rotated", "random", "reordered"}
DevelopmentSplits == {"chronological", "seller", "buyer", "category", "nested"}
Required == {"chronological", "seller"}
Lockbox == "lockbox"

ASSUME GateAssumption ==
  /\ RegressionOf \subseteq Predicted /\ Supported \subseteq Predicted
  /\ Models \subseteq Nat \ {0} /\ \A t \in Predicted : BaselinesOf[t] \subseteq Models /\ BaselinesOf[t] # {}
  /\ \A n \in Normalized :
       /\ n.assignable \subseteq DevelopmentSplits
       /\ \A t \in Predicted, b \in Boards :
            LET board == n.target[t].boards[b] IN DOMAIN board = {} \/ board \in [Models -> Nat]
  /\ MinGain \in Nat \ {0} /\ MaxRatio \in 0..99
  /\ \A p \in Protocols : p \subseteq DevelopmentSplits \cup {Lockbox}

VARIABLES
  normalized,  \* the normalized directory
  gate,        \* the run under way
  preHidden,   \* the report of the runner
  frozen,      \* the preregistration
  gateReport,  \* the report of the gate
  gates, swaps,
  gateCut      \* a run has died since a run last ended

gateVars == <<normalized, gate, preHidden, frozen, gateReport, gates, swaps, gateCut>>

NoModel == 0
NoGate == [at |-> "none"]
NoReport == [status |-> "none"]
NothingRead == [audited |-> FALSE]

-----------------------------------------------------------------------------
\* A leaderboard: the losses of the models on a split; it is empty without rows.
Scored(board) == DOMAIN board # {}
Best(board) ==
  IF ~Scored(board) THEN NoModel
  ELSE CHOOSE m \in Models : \A n \in Models \ {m} : board[m] < board[n] \/ (board[m] = board[n] /\ m < n)
BaselineLoss(t, board) == CHOOSE l \in {board[m] : m \in BaselinesOf[t]} : \A m \in BaselinesOf[t] : l <= board[m]

\* The relative improvement over the baseline, as a fraction; there is none over a perfect one.
Fraction(num, den) == [num |-> num, den |-> den]
AtMost(f, g) == f.num * g.den <= g.num * f.den
Zero == Fraction(0, 1)
Improvement(t, board, m) ==
  LET b == BaselineLoss(t, board) IN IF b = 0 THEN Zero ELSE Fraction(b - board[m], b)

Chosen(d) == Best(d.boards["nested"])

\* Mutant: a gain on the nested development split is enough.
SurvivedNested(t, d) == IF Chosen(d) = NoModel THEN {} ELSE Required

\* The required splits the choice does no worse than the baseline on.
Survived(t, d) ==
  IF Chosen(d) = NoModel THEN {}
  ELSE {s \in Required : Scored(d.boards[s]) /\ AtMost(Zero, Improvement(t, d.boards[s], Chosen(d)))}

\* The margin a target asks for: a regression's ratio of errors, with the baseline's kept
\* from zero, or an improvement.
BeatsBaseline(t, d) ==
  LET board == d.boards["nested"]
      b == BaselineLoss(t, board)
      loss == board[Chosen(d)]
  IN  /\ Chosen(d) # NoModel
      /\ IF t \in RegressionOf THEN IF b = 0 THEN loss = 0 ELSE loss * 100 <= MaxRatio * b
         ELSE AtMost(Fraction(MinGain, 100), Improvement(t, board, Chosen(d)))

\* What the choice gains on a board that is not the one it was chosen on; a board without
\* the model has nothing to say.
GainsOn(t, d, s) == Scored(d.boards[s]) /\ Chosen(d) # NoModel

\* The negative controls: labels moved by one row, a split by rows, rows in another order.
\* The canaries of forbidden features and of censored rows do not depend on the data.
RandomLabels(t, d) == GainsOn(t, d, "rotated") => AtMost(Improvement(t, d.boards["rotated"], Chosen(d)), Zero)
RandomRows(t, d) ==
  GainsOn(t, d, "random") =>
    AtMost(Improvement(t, d.boards["random"], Chosen(d)), Improvement(t, d.boards["nested"], Chosen(d)))
SameOrder(d) == d.tied => Best(d.boards["reordered"]) = Chosen(d)
Controls(t, d) == RandomLabels(t, d) /\ RandomRows(t, d) /\ SameOrder(d)

Calibrated(d) == Chosen(d) # NoModel /\ d.missed = {}
Covers(t, d) == t \in Supported => Chosen(d) # NoModel /\ d.coverage >= MinCoverage

\* _readiness_split_reports: the runner has no evidence of a fresh lockbox.
SplitPasses(s, n) == s \in n.assignable

SplitsPass(protocol, n) == \A s \in protocol : SplitPasses(s, n)

Ready(protocol, n) ==
  /\ SplitsPass(protocol, n)
  /\ \A t \in Predicted :
       LET d == n.target[t]
       IN  /\ Controls(t, d) /\ Calibrated(d) /\ Covers(t, d)
           /\ Survived(t, d) = Required /\ BeatsBaseline(t, d)

\* _decision_gate: what the runner says of itself.
RunnerStatus(protocol, read) ==
  IF Ready(protocol, read.tasks) /\ read.audited THEN "RESEARCH_SIGNAL" ELSE "STOP"

\* What the runner returns, and leaves in its file; what it had read is kept with it, for the
\* properties.
Ran(protocol, read) ==
  [status |-> RunnerStatus(protocol, read), ready |-> Ready(protocol, read.tasks),
   chosen |-> [t \in Predicted |-> Chosen(read.tasks.target[t])], read |-> read]

-----------------------------------------------------------------------------
GateInit ==
  /\ normalized \in Normalized
  /\ gate = NoGate /\ preHidden = NoReport /\ frozen = NoReport /\ gateReport = NoReport
  /\ gates = 0 /\ swaps = 0 /\ gateCut = FALSE

GateAt(step) == gate.at = step

\* The manifest is read once for what the gate says of it; the builder and the runner read it
\* again.
BeginGate(protocol, bounded) ==
  /\ GateAt("none") /\ gates < MaxGates
  /\ gate' = [at |-> "build", protocol |-> protocol, bounded |-> bounded, evidence |-> normalized.audited,
              built |-> FALSE, read |-> NothingRead, ran |-> NoReport, errors |-> FALSE]
  /\ gates' = gates + 1
  /\ UNCHANGED <<normalized, preHidden, frozen, gateReport, swaps, gateCut>>

\* The build may fail for reasons of its own; without it the runner is not called.
BuildOrSkip ==
  /\ GateAt("build")
  /\ \/ /\ gate.evidence \/ gate.bounded
        /\ normalized.audited \/ gate.bounded
        /\ gate' = [gate EXCEPT !.at = "run", !.built = TRUE]
     \/ gate' = [gate EXCEPT !.at = "freeze", !.errors = TRUE]
  /\ UNCHANGED <<normalized, preHidden, frozen, gateReport, gates, swaps, gateCut>>

\* The runner reads the directory three times.  First the manifest, for what its report says of
\* the release.
ReadManifest ==
  /\ GateAt("run")
  /\ gate' = [gate EXCEPT !.at = "audit",
                !.read = [audited |-> normalized.audited, from |-> swaps, since |-> swaps]]
  /\ UNCHANGED <<normalized, preHidden, frozen, gateReport, gates, swaps, gateCut>>

\* A reading of many files, under which the directory may have been normalized anew: then it is of
\* what was there, of what is there, or of rows of both.
Readings(since) == IF swaps = since THEN {normalized} ELSE Normalized

\* Then the audit, which must find the directory clean.
AuditDirectory ==
  /\ GateAt("audit")
  /\ \E n \in Readings(gate.read.since) : n.clean
  /\ gate' = [gate EXCEPT !.at = "tasks", !.read = [@ EXCEPT !.since = swaps]]
  /\ UNCHANGED <<normalized, preHidden, frozen, gateReport, gates, swaps, gateCut>>

\* Then the tasks: everything that is scored.  Nothing compares the three.  (That the directory
\* stayed as it was is noted for the properties.)
BuildTasks ==
  /\ GateAt("tasks")
  /\ \E n \in Readings(gate.read.since) :
       gate' = [gate EXCEPT !.at = "score",
                  !.read = [audited |-> @.audited, tasks |-> n, stayed |-> swaps = @.from]]
  /\ UNCHANGED <<normalized, preHidden, frozen, gateReport, gates, swaps, gateCut>>

RunModels ==
  /\ GateAt("score")
  /\ preHidden' = Ran(gate.protocol, gate.read)
  /\ gate' = [gate EXCEPT !.at = "freeze", !.read = NothingRead, !.ran = preHidden']
  /\ UNCHANGED <<normalized, frozen, gateReport, gates, swaps, gateCut>>

\* A runner that fails leaves the file of an earlier one.
FailInRunner ==
  /\ gate.at \in {"run", "audit", "tasks", "score"}
  /\ gate' = [gate EXCEPT !.at = "freeze", !.read = NothingRead, !.errors = TRUE]
  /\ UNCHANGED <<normalized, preHidden, frozen, gateReport, gates, swaps, gateCut>>

\* The preregistration of this run replaces the one before, whatever came of the runner.
Registration == [status |-> "frozen", evidence |-> gate.evidence, built |-> gate.built, ran |-> gate.ran]
Freeze ==
  /\ GateAt("freeze")
  /\ frozen' = Registration
  /\ gate' = [gate EXCEPT !.at = "report"]
  /\ UNCHANGED <<normalized, preHidden, gateReport, gates, swaps, gateCut>>

\* A choice is an artifact of its own even when it is of no model.
Prerequisites ==
  /\ gate.evidence /\ gate.built
  /\ gate.ran # NoReport /\ gate.ran.ready /\ gate.ran.status = "RESEARCH_SIGNAL"

\* Nothing is submitted here, so that the gate ends at a signal at most.
Verdict == IF gate.errors \/ ~Prerequisites THEN "STOP" ELSE "RESEARCH_SIGNAL"
ReportGate ==
  /\ GateAt("report")
  /\ gateReport' = [status |-> Verdict, protocol |-> gate.protocol, frozen |-> Registration, ran |-> gate.ran]
  /\ gate' = NoGate /\ gateCut' = FALSE
  /\ UNCHANGED <<normalized, preHidden, frozen, gates, swaps>>

\* The run dies.
DieAtGate ==
  /\ ~GateAt("none") /\ gate' = NoGate /\ gateCut' = TRUE
  /\ UNCHANGED <<normalized, preHidden, frozen, gateReport, gates, swaps>>

\* The directory is normalized anew, under a run or between two.
NormalizeAnew ==
  /\ swaps < MaxSwaps /\ swaps' = swaps + 1
  /\ normalized' \in Normalized \ {normalized}
  /\ UNCHANGED <<gate, preHidden, frozen, gateReport, gates, gateCut>>

GateNext ==
  \/ \E p \in Protocols, bounded \in BOOLEAN : BeginGate(p, bounded)
  \/ BuildOrSkip \/ ReadManifest \/ AuditDirectory \/ BuildTasks \/ RunModels \/ FailInRunner
  \/ Freeze \/ ReportGate \/ DieAtGate \/ NormalizeAnew

GateSpec == GateInit /\ [][GateNext]_gateVars

-----------------------------------------------------------------------------
\* A signal that is reported was earned on the tasks the runner read, whatever runs came before:
\* the manifest it had read was of an audited release, no fresh lockbox was asked for (the gate
\* must not fabricate hidden evidence), and for each target the model frozen in the
\* preregistration is one of the best of the nested split and better there than the baseline, is
\* worse than it on no required split, and not better on labels that were moved; where the
\* baseline makes no error at all, nothing is asked of the model.  Unless the directory was
\* normalized anew while the runner read it, the tasks themselves are of an audited and clean
\* release; if it was, they need not be, and no step of the runner or of the gate would notice.
SignalIsEarned ==
  gateReport.status = "RESEARCH_SIGNAL" =>
    LET read == gateReport.ran.read
    IN  /\ read.audited /\ Lockbox \notin gateReport.protocol
        /\ read.stayed => read.tasks.audited /\ read.tasks.clean
        /\ \A t \in Predicted :
             LET d == read.tasks.target[t]
                 m == gateReport.frozen.ran.chosen[t]
                 perfect(s) == BaselineLoss(t, d.boards[s]) = 0
             IN  /\ m \in Models /\ \A q \in Models : d.boards["nested"][m] <= d.boards["nested"][q]
                 /\ perfect("nested") \/ d.boards["nested"][m] < BaselineLoss(t, d.boards["nested"])
                 /\ \A s \in Required :
                      Scored(d.boards[s])
                        /\ (perfect(s) \/ d.boards[s][m] <= BaselineLoss(t, d.boards[s]))
                 /\ Scored(d.boards["rotated"]) =>
                      perfect("rotated") \/ d.boards["rotated"][m] >= BaselineLoss(t, d.boards["rotated"])

\* Once a run has ended, the three files tell of one run: the gate report's preregistration is the
\* one on disk and the runner's file is the one both were made from, unless the runner failed
\* in that run; a run that died may have left newer files beside an old report.
FilesOfOneRun ==
  gateReport # NoReport /\ GateAt("none") /\ ~gateCut =>
    /\ gateReport.frozen = frozen
    /\ gateReport.ran # NoReport => preHidden = gateReport.ran

\* Together: what is to be read in the reports of the gate.
GateSound == SignalIsEarned /\ FilesOfOneRun
=============================================================================
