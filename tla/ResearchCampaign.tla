-------------------------- MODULE ResearchCampaign --------------------------
(***************************************************************************)
(* A research campaign over one shared immutable ledger                    *)
(* (src/src/behavior_lab/gym.py, registry.py, research_api.py): recorders  *)
(* append cases while several research clients classify them into splits,  *)
(* fit models, freeze one candidate, and spend one-shot evaluation         *)
(* budgets on the hidden and the prospective split.                        *)
(*                                                                         *)
(* Every append runs its guard under the ledger's lock and is one step;    *)
(* what a client read before is carried in its call.  A batch of           *)
(* assignments whose writer dies is a prefix of it.  A case is named by    *)
(* the order of its decision time, whatever the order it is recorded in.   *)
(* Scores, formulas and features are left out.                             *)
(***************************************************************************)
EXTENDS Naturals, Sequences, FiniteSetsExt

CONSTANTS
  Cases,      \* 1..n, numbered by decision time
  Pilot,      \* episodes collected in the pilot phase
  Trials,     \* cases that are outcomes of a randomized assignment
  Untargeted, \* trials whose outcome lacks the target
  Campaigns, Models, Clients,
  Scenarios,  \* [seeded, future, work, cuts]: the cases on record, those still to come, the
              \* <<operation, campaign, model>> calls each client makes, and a bound on cutBatches
  HiddenBudget, ProspectiveBudget, \* the two limits of ResearchAPI
  Tries       \* attempts of each retry loop of freeze_candidate (3 in the code)

ASSUME CampaignAssumption ==
  /\ IsFiniteSet(Cases) /\ Cases = 1..Cardinality(Cases)
  /\ Pilot \subseteq Cases \ Trials /\ Untargeted \subseteq Trials /\ Trials \subseteq Cases
  /\ \A s \in Scenarios :
       /\ s.seeded \subseteq Cases \ Trials /\ s.future \subseteq Cases /\ s.cuts \in Nat
       /\ \A p \in Clients : s.work[p] \subseteq {"open", "fit", "freeze", "hidden", "submit"} \X Campaigns \X Models
  /\ HiddenBudget \in {0, 1} /\ ProspectiveBudget \in Nat /\ Tries \in Nat \ {0}

VARIABLES
  known,    \* cases with a decision_episode or intervention_trial record
  begun,    \* trials whose intervention_assignment is on record
  manifest, \* split_assignment records of each campaign that was started
  fits,     \* <<campaign, model>> with a model_fit record
  freeze,   \* the frozen_candidate records of each campaign
  uses,     \* evaluation_budget_use records, in order
  evals,    \* evaluation records of the lockbox splits
  call,     \* what each client is doing
  cutBatches, \* batches cut short by a death; counted for its bound
  scenario  \* chosen once

ledger == <<known, begun, manifest, fits, freeze, uses, evals>>
campaignVars == <<known, begun, manifest, fits, freeze, uses, evals, call, cutBatches, scenario>>

Splits == {"training", "development", "hidden", "staging", "prospective"}
Assigned(g) == IF g \in DOMAIN manifest THEN DOMAIN manifest[g] ELSE {}

\* The records of the ledger only grow in number, so a head is a count.
LedgerHead == Cardinality(known) + Cardinality(begun) + Cardinality(fits) + Len(uses)
        + Cardinality(evals)
        + MapThenSumSet(LAMBDA g : Cardinality(Assigned(g)) + Cardinality(freeze[g]), Campaigns)

\* What rows() yields: pilot episodes and trials without the target are skipped.
Rows == known \ (Pilot \cup Untargeted)

\* Cases whose eligibility is on record: the assignment of a trial, the episode
\* itself otherwise.
Eligible == begun \cup (known \ Trials)

InSplit(g, s) == {c \in Assigned(g) \cap Rows : manifest[g][c] = s}

\* split_rows: chronological blocks of 60, 20 and 20 percent, each of at least one
\* case when there are enough, the remainder hidden.
Share(n, tenths) == Max({1, (tenths * n) \div 10})
SplitRows(rows) ==
  LET n == Cardinality(rows)
      Rank(c) == Cardinality({d \in rows : d <= c})
  IN  [c \in rows |-> IF Rank(c) <= Share(n, 6) THEN "training"
                      ELSE IF Rank(c) <= Share(n, 6) + Share(n, 2) THEN "development"
                      ELSE "hidden"]

\* Mutant: the time of ingestion is not asked for.
ClassifyByCutoff(c, frozen) == IF \E f \in frozen : c > f.cutoff THEN "prospective" ELSE "staging"
\* The class of a case first seen after the campaign started, by the freeze read.
Classify(c, frozen) ==
  IF \E f \in frozen : c > f.cutoff /\ c \notin f.before THEN "prospective" ELSE "staging"

-----------------------------------------------------------------------------
(* A call of ResearchAPI is a walk through the steps of its operation.     *)

Steps == [open    |-> <<"read", "assign">>,
          fit     |-> <<"read", "assign", "fit">>,
          freeze  |-> <<"read", "assign", "cut", "read", "assign", "head", "freeze">>,
          hidden  |-> <<"read", "assign", "rows", "reserve", "read", "assign", "score">>,
          submit  |-> <<"read", "assign", "rows", "reserve", "score">>]

Nothing == [op |-> "open", at |-> 0, g |-> "", m |-> "", rows |-> {}, frozen |-> {},
            new |-> FALSE, cut |-> 0, head |-> 0, tries |-> 1, outer |-> 1, use |-> 0]

At(p, step) == call[p].at > 0 /\ Steps[call[p].op][call[p].at] = step
Return(p) == call' = [call EXCEPT ![p] = Nothing]
Jump(p, c, i) == call' = [call EXCEPT ![p] = [c EXCEPT !.at = i]]
Continue(p, c) == IF c.at = Len(Steps[c.op]) THEN Return(p) ELSE Jump(p, c, c.at + 1)

Begin(p) ==
  /\ call[p].at = 0
  /\ \E w \in scenario.work[p] :
       call' = [call EXCEPT ![p] = [Nothing EXCEPT !.op = w[1], !.at = 1, !.g = w[2], !.m = w[3]]]
  /\ UNCHANGED ledger

\* The client dies, or an exception leaves the call.
Crash(p) ==
  /\ call[p].at > 0
  /\ Return(p)
  /\ UNCHANGED ledger

\* ensure_split_manifest, its reads: the unassigned rows and the latest freeze.
ReadManifest(p) ==
  /\ At(p, "read")
  /\ LET g == call[p].g
     IN  Continue(p, [call[p] EXCEPT !.rows = Rows \ Assigned(g), !.frozen = freeze[g],
                                     !.new = g \notin DOMAIN manifest])
  /\ UNCHANGED ledger

\* The assignments a call has read for: of a new campaign by the split of its rows, of another by
\* the freeze it has read.  Either way the records are in the order of the cases' time.
Started(c, rows) ==
  [g \in DOMAIN manifest \cup {c.g} |->
     IF g = c.g THEN [r \in rows |-> SplitRows(c.rows)[r]] ELSE manifest[g]]
Extended(c, rows) ==
  [manifest EXCEPT ![c.g] =
     [r \in DOMAIN @ \cup rows |-> IF r \in DOMAIN @ THEN @[r] ELSE Classify(r, c.frozen)]]

\* Its append: the whole batch or, when one of its record ids exists, nothing.  A
\* campaign that someone else started meanwhile is a DuplicateRecordError.
Assign(p) ==
  /\ At(p, "assign")
  /\ LET c == call[p]
         done == [c EXCEPT !.rows = {}, !.frozen = {}, !.new = FALSE]
     IN  IF c.new
         THEN IF c.g \in DOMAIN manifest
              THEN UNCHANGED manifest /\ Return(p)
              ELSE manifest' = Started(c, c.rows) /\ Continue(p, done)
         ELSE /\ manifest' = IF c.rows \cap Assigned(c.g) # {} THEN manifest ELSE Extended(c, c.rows)
              /\ Continue(p, done)
  /\ UNCHANGED <<known, begun, fits, freeze, uses, evals>>

\* The client dies, or its disk is full, after a prefix of the batch; that a campaign is started is
\* the first record of it.
DieInAssign(p) ==
  /\ At(p, "assign") /\ cutBatches < scenario.cuts /\ cutBatches' = cutBatches + 1
  /\ LET c == call[p] IN
       \E last \in c.rows \cup {0} :
         LET rows == {r \in c.rows : r <= last} IN
         IF c.new THEN c.g \notin DOMAIN manifest /\ manifest' = Started(c, rows)
         ELSE c.rows \cap Assigned(c.g) = {} /\ manifest' = Extended(c, rows)
  /\ Return(p)
  /\ UNCHANGED <<known, begun, fits, freeze, uses, evals>>

\* fit_hypothesis, fit_model_zoo: record_fit refuses a second fit of the model.
Fit(p) ==
  /\ At(p, "fit")
  /\ fits' = fits \cup {<<call[p].g, call[p].m>>}
  /\ Return(p)
  /\ UNCHANGED <<known, begun, manifest, freeze, uses, evals>>

\* freeze_candidate: the data cutoff is the latest decision of the rows read now.
CutOff(p) ==
  /\ At(p, "cut")
  /\ IF Rows = {} THEN Return(p) ELSE Continue(p, [call[p] EXCEPT !.cut = Max(Rows)])
  /\ UNCHANGED ledger

\* ModelRegistry.freeze_candidate up to the ledger head: a fit must exist, and an
\* earlier freeze is returned or is a conflict.
ReadHead(p) ==
  /\ At(p, "head")
  /\ IF <<call[p].g, call[p].m>> \notin fits \/ (call[p].tries = 1 /\ freeze[call[p].g] # {})
     THEN Return(p)
     ELSE Continue(p, [call[p] EXCEPT !.head = LedgerHead])
  /\ UNCHANGED ledger

Unassigned(g) == known \ Assigned(g)
FrozenRecord(c) == [model |-> c.m, cutoff |-> c.cut, before |-> Eligible]

\* The guarded append.  A moved head is retried from the head; an unassigned case
\* is retried from the split manifest; a freeze made meanwhile ends the call.
Freeze(p) ==
  /\ At(p, "freeze")
  /\ LET c == call[p]
     IN  CASE LedgerHead # c.head ->
                /\ UNCHANGED freeze
                /\ IF c.tries = Tries THEN Return(p)
                   ELSE Jump(p, [c EXCEPT !.tries = @ + 1], 6)
           [] LedgerHead = c.head /\ freeze[c.g] # {} -> UNCHANGED freeze /\ Return(p)
           [] LedgerHead = c.head /\ freeze[c.g] = {} /\ Unassigned(c.g) # {} ->
                /\ UNCHANGED freeze
                /\ IF c.outer = Tries THEN Return(p)
                   ELSE Jump(p, [c EXCEPT !.outer = @ + 1, !.tries = 1], 1)
           [] OTHER ->
                /\ freeze' = [freeze EXCEPT ![c.g] = @ \cup {FrozenRecord(c)}]
                /\ Return(p)
  /\ UNCHANGED <<known, begun, manifest, fits, uses, evals>>

\* Mutant: any model is scored.
ReadRowsAnyModel(p) ==
  /\ At(p, "rows")
  /\ LET rows == InSplit(call[p].g, IF call[p].op = "hidden" THEN "hidden" ELSE "prospective")
     IN  IF rows = {} THEN Return(p) ELSE Continue(p, [call[p] EXCEPT !.rows = rows])
  /\ UNCHANGED ledger

\* evaluate_hypothesis on the hidden split, submit_frozen_candidate: the rows to
\* score, for the frozen model of the campaign only.
ReadRows(p) ==
  /\ At(p, "rows")
  /\ LET c == call[p]
         rows == InSplit(c.g, IF c.op = "hidden" THEN "hidden" ELSE "prospective")
     IN  IF rows = {} \/ \A f \in freeze[c.g] : f.model # c.m
         THEN Return(p)
         ELSE Continue(p, [c EXCEPT !.rows = rows])
  /\ UNCHANGED ledger

\* reserve_evaluation_budget.  The scope is the holdout itself: the hidden cases, or
\* the freeze of the campaign; a hidden case is queried once across all campaigns.
Scope(c) == IF c.op = "hidden" THEN <<"hidden", c.rows>> ELSE <<"prospective", {c.g}>>
Limit(c) == IF c.op = "hidden" THEN HiddenBudget ELSE ProspectiveBudget
Exhausted(c) == Cardinality({i \in DOMAIN uses : uses[i].scope = Scope(c)}) >= Limit(c)
\* Mutant: the cases of earlier hidden queries are not compared.
ExposedByScope(c) == FALSE
Exposed(c) == c.op = "hidden" /\ \E i \in DOMAIN uses :
                uses[i].op = "hidden" /\ uses[i].cases \cap c.rows # {}
Use(c) == [op |-> c.op, g |-> c.g, scope |-> Scope(c), cases |-> c.rows]
Reserve(p) ==
  /\ At(p, "reserve")
  /\ LET c == call[p]
     IN  IF Exhausted(c) \/ Exposed(c)
         THEN UNCHANGED uses /\ Return(p)
         ELSE uses' = Append(uses, Use(c)) /\ Continue(p, [c EXCEPT !.use = Len(uses) + 1])
  /\ UNCHANGED <<known, begun, manifest, fits, freeze, evals>>

\* The hidden split is read again to be scored; prospective rows are those reserved.
Score(p) ==
  /\ At(p, "score")
  /\ LET c == call[p]
     IN  evals' = evals \cup
           {[use |-> c.use, cases |-> IF c.op = "hidden" THEN InSplit(c.g, "hidden") ELSE c.rows]}
  /\ Return(p)
  /\ UNCHANGED <<known, begun, manifest, fits, freeze, uses>>

\* ExperimentScheduler, whoever drives it: an assignment, later its outcome.
BeginTrial ==
  /\ \E t \in (Trials \cap scenario.future) \ begun : begun' = begun \cup {t}
  /\ UNCHANGED <<known, manifest, fits, freeze, uses, evals, call, cutBatches, scenario>>
TrialOutcome ==
  /\ \E t \in begun \ known : known' = known \cup {t}
  /\ UNCHANGED <<begun, manifest, fits, freeze, uses, evals, call, cutBatches, scenario>>

\* A recorder (the bridge, the collector) appends an episode of any decision time.
RecordEpisode ==
  /\ \E c \in scenario.future \ (Trials \cup known) : known' = known \cup {c}
  /\ UNCHANGED <<begun, manifest, fits, freeze, uses, evals, call, cutBatches, scenario>>

CampaignInit ==
  /\ scenario \in Scenarios /\ known = scenario.seeded /\ begun = {} /\ manifest = <<>> /\ fits = {}
  /\ freeze = [g \in Campaigns |-> {}] /\ uses = <<>> /\ evals = {}
  /\ call = [p \in Clients |-> Nothing] /\ cutBatches = 0

Client(p) ==
  \/ Begin(p) \/ ReadManifest(p) \/ Assign(p) \/ Fit(p) \/ CutOff(p) \/ ReadHead(p)
  \/ Freeze(p) \/ ReadRows(p) \/ Reserve(p) \/ Score(p) \/ Crash(p)
CampaignNext ==
  \/ RecordEpisode \/ BeginTrial \/ TrialOutcome
  \/ \E p \in Clients : DieInAssign(p) /\ UNCHANGED scenario
  \/ \E p \in Clients : Client(p) /\ UNCHANGED <<cutBatches, scenario>>
CampaignSpec == CampaignInit /\ [][CampaignNext]_campaignVars
-----------------------------------------------------------------------------
\* Prospective evidence is exactly what is future in both senses: decided after the data
\* the model was frozen on and, for a trial, assigned after the freeze, however late its
\* outcome came.  A client that read the manifest before the freeze never files such a
\* case as staging, where no later call could recover it.
ProspectiveExactlyFuture ==
  \A g \in DOMAIN manifest : \A c \in Assigned(g) :
    manifest[g][c] = "prospective" <=> \E f \in freeze[g] : c > f.cutoff /\ c \notin f.before

\* The cut of a freeze covers every case the model was trained, tuned or selected
\* on, whoever appended what between its computation and the freeze.
CutCoversSelection ==
  \A g \in DOMAIN manifest : \A f \in freeze[g], c \in Assigned(g) :
    manifest[g][c] \in {"training", "development", "hidden"} => c <= f.cutoff

\* Together: what a freeze says of the cases before and after it.
FreezeSound == ProspectiveExactlyFuture /\ CutCoversSelection

\* A hidden case is exposed to one aggregate query, whatever the campaign.
HiddenOnce ==
  \A i, j \in DOMAIN uses :
    uses[i].op = "hidden" /\ uses[j].op = "hidden" /\ i # j => uses[i].cases \cap uses[j].cases = {}

\* A score in the ledger is of exactly the cases its reservation paid for, one score
\* per reservation, and only in a campaign with a frozen candidate.
ScoresArePaid ==
  \A e \in evals :
    /\ e.cases = uses[e.use].cases
    /\ freeze[uses[e.use].g] # {}
    /\ \A d \in evals : d.use = e.use => d = e

\* Together: the hidden split pays out once, for what was reserved, whoever calls and
\* wherever a call is cut short between its reservation and its score
\* (reserve_evaluation_budget, evaluate_hypothesis, submit_frozen_candidate).
HiddenPaidOnce == HiddenOnce /\ ScoresArePaid

\* docs/CAMPAIGN_001.md:39 has five pilot episodes retained in the ledger, and
\* campaigns/campaign_001_task_initiation/COLLECTION_PROTOCOL.md:127 says that they are
\* skipped by supervised model-fitting
\* rows; registry.py:302 tells the caller of a refused freeze to refresh the split
\* manifest.  So a freeze is refused for an unassigned observation only while one of the
\* rows the campaign works on is unassigned.  It is not: freeze_candidate counts the
\* pilot episodes too, which no refresh ever assigns.
RefusedForARow ==
  \A p \in Clients :
    At(p, "freeze") /\ call[p].head = LedgerHead /\ freeze[call[p].g] = {} /\ Unassigned(call[p].g) # {}
      => Rows \ Assigned(call[p].g) # {}
=============================================================================
