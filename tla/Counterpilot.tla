---------------------------- MODULE Counterpilot ----------------------------
(***************************************************************************)
(* The pilot of one merchant (src/src/behavior_lab/counterpilot.py):       *)
(* commands of several processes import events, generate shadow            *)
(* recommendations, preregister experiments, assign offers to arms and     *)
(* record outcomes, all in one append-only ledger.                         *)
(*                                                                         *)
(* A command reads the ledger and appends later; the append itself only    *)
(* refuses a record id that exists.  Because nothing is ever rewritten,    *)
(* what a command has read is a prefix of the ledger and is kept as its    *)
(* length.  Times are those of the clock; amounts are left out.            *)
(***************************************************************************)
EXTENDS Naturals, Sequences, FiniteSets

CONSTANTS
  Callers,     \* processes that run commands, one at a time each
  Offers,
  Experiments,
  Exposure,    \* the experiments of type shadow_recommendation_exposure
  Control,     \* <<experiment, offer>> whose draw falls into the control arm
  Plans,       \* planned_units a preregistration may ask for
  Configs,     \* policy configurations of a shadow recommendation
  Values,      \* outcomes of an assignment
  Files,       \* files of events to import
  PilotScenarios    \* [seed, work]: events imported before, and the commands each caller may run

\* What a caller may ask for.
Commands ==
  [op : {"import"}, file : Files] \cup [op : {"shadow"}, offer : Offers, config : Configs]
  \cup [op : {"preregister"}, exp : Experiments, units : Plans]
  \cup [op : {"assign"}, exp : Experiments, offer : Offers]
  \cup [op : {"result"}, exp : Experiments, offer : Offers, value : Values]

ASSUME CounterpilotAssumption ==
  /\ IsFiniteSet(Callers)
  /\ Exposure \subseteq Experiments /\ Control \subseteq Experiments \X Offers
  /\ Plans \subseteq Nat \ {0}
  /\ \A f \in Files : /\ Len(f) \in Nat /\ f = [k \in 1..Len(f) |-> f[k]]
                     /\ \A k \in DOMAIN f : f[k].kind # "assignment"   \* not one of EVENT_TYPES
  /\ \A s \in PilotScenarios : s.seed \in Files /\ s.work \in [Callers -> SUBSET Commands]

VARIABLES
  records,  \* the records, each with `seen`: how many its command had read when it began
  plan,     \* the preregistration records: experiment -> planned_units
  running,  \* the command each caller is in
  imported, \* files whose import has returned without an error
  work      \* the commands each caller may run, chosen once

pilotVars == <<records, plan, running, imported, work>>

NoCommand == [at |-> "free"]

Id(r) == <<r.kind, r.id>>
OnRecord(id) == \E i \in DOMAIN records : Id(records[i]) = id

\* _offer_threads and _existing_shadow_recommendation on the first n records.
Has(n, kind, o) == \E i \in 1..n : records[i].kind = kind /\ records[i].offer = o

\* A valid event is appended as it is; its id is the one the file gives it.
Event(e) == [kind |-> e.kind, id |-> e.id, offer |-> e.offer, body |-> e.body, seen |-> 0]
Shadow(c) == [kind |-> "shadow", id |-> <<c.offer, c.config>>, offer |-> c.offer,
              body |-> "generated", seen |-> c.seen]
Assignment(c) == [kind |-> "assignment", id |-> <<c.exp, c.offer>>, offer |-> c.offer,
                  body |-> c.exp, seen |-> c.seen]
Result(c) == [kind |-> "result", id |-> <<c.exp, c.offer>>, offer |-> c.offer,
              body |-> c.value, seen |-> c.seen]

\* _shadow_holdout_assignments with the control arm, among all records now.
HeldOut(o) == \E i \in DOMAIN records :
  /\ records[i].kind = "assignment" /\ records[i].offer = o
  /\ records[i].body \in Exposure /\ <<records[i].body, o>> \in Control

\* The assignments of an experiment.
AssignedIn(e) == {i \in DOMAIN records : records[i].kind = "assignment" /\ records[i].body = e}

-----------------------------------------------------------------------------
\* A command begins by reading the events; assign and result have looked for their
\* preregistration and their assignment by then.
Run(p) ==
  /\ running[p] = NoCommand
  /\ \E c \in work[p] :
       /\ c.op = "assign" => c.exp \in DOMAIN plan
       /\ c.op = "result" => OnRecord(<<"assignment", <<c.exp, c.offer>>>>)
       /\ running' = [running EXCEPT ![p] = [at |-> "read", command |-> c, seen |-> Len(records), next |-> 1]]
  /\ UNCHANGED <<records, plan, imported>>

Doing(p, op) == running[p].at = "read" /\ running[p].command.op = op
Prepare(p, r) == running' = [running EXCEPT ![p] = [at |-> "append", record |-> r, of |-> running[p]]]
Finish(p) == running' = [running EXCEPT ![p] = NoCommand]

\* The arguments of the command together with what it has read.
Read(p) == [f \in DOMAIN running[p].command \cup {"seen"} |->
              IF f = "seen" THEN running[p].seen ELSE running[p].command[f]]

\* ingest_counterpilot_events, one event: an invalid one, or one on record with another
\* content, raises and leaves the events before it in the ledger.
Import(p) ==
  /\ Doing(p, "import")
  /\ LET f == running[p].command.file
         k == running[p].next
         e == f[k]
     IN  IF k > Len(f) THEN Finish(p) /\ imported' = imported \cup {f}
         ELSE /\ UNCHANGED imported
              /\ CASE ~e.valid \/ (\E i \in DOMAIN records : Id(records[i]) = <<e.kind, e.id>>
                                                            /\ records[i].body # e.body) -> Finish(p)
                   [] e.valid /\ ~OnRecord(<<e.kind, e.id>>) -> Prepare(p, Event(e))
                   [] OTHER -> running' = [running EXCEPT ![p].next = k + 1]
  /\ UNCHANGED <<records, plan>>

\* Mutant: the recommendation is generated for an offer of the control arm too.
ShadowExposesHoldout(p) ==
  /\ Doing(p, "shadow")
  /\ LET c == Read(p)
     IN  IF ~Has(c.seen, "offer", c.offer) \/ Has(c.seen, "decision", c.offer)
            \/ Has(c.seen, "shadow", c.offer)
         THEN Finish(p) ELSE Prepare(p, Shadow(c))
  /\ UNCHANGED <<records, plan, imported>>

\* counterpilot_shadow_recommend: the events were read first, the assignments are now.
\* A recommendation on record is returned or is a conflict: nothing is appended.
ShadowRecommend(p) ==
  /\ Doing(p, "shadow")
  /\ LET c == Read(p)
     IN  IF ~Has(c.seen, "offer", c.offer) \/ HeldOut(c.offer)
            \/ Has(c.seen, "decision", c.offer) \/ Has(c.seen, "shadow", c.offer)
         THEN Finish(p) ELSE Prepare(p, Shadow(c))
  /\ UNCHANGED <<records, plan, imported>>

\* counterpilot_experiment_preregister: the record id is the experiment, so a second one
\* is the same, or a conflict, or loses the race for the append.
PreregisterExperiment(p) ==
  /\ Doing(p, "preregister")
  /\ LET c == running[p].command
     IN  plan' = IF c.exp \in DOMAIN plan THEN plan
                 ELSE [e \in DOMAIN plan \cup {c.exp} |-> IF e = c.exp THEN c.units ELSE plan[e]]
  /\ Finish(p)
  /\ UNCHANGED <<records, imported>>

\* Mutant: the limit is compared with >.
FullPlusOne(e) == Cardinality(AssignedIn(e)) > plan[e]
Full(e) == Cardinality(AssignedIn(e)) >= plan[e]

\* counterpilot_experiment_assign.  An assignment of the offer is returned as it is; the
\* scan for it and the one that counts are a moment apart and are one here: a record of
\* this offer that falls between them is refused by its id.
AssignOffer(p) ==
  /\ Doing(p, "assign")
  /\ LET c == Read(p)
     IN  IF ~Has(c.seen, "offer", c.offer) \/ OnRecord(<<"assignment", <<c.exp, c.offer>>>>)
            \/ Has(c.seen, "shadow", c.offer) \/ Has(c.seen, "decision", c.offer)
            \/ Has(c.seen, "outcome", c.offer) \/ Full(c.exp)
         THEN Finish(p) ELSE Prepare(p, Assignment(c))
  /\ UNCHANGED <<records, plan, imported>>

\* counterpilot_experiment_record_outcome: the one on record is returned or is a conflict.
RecordResult(p) ==
  /\ Doing(p, "result")
  /\ IF OnRecord(Id(Result(Read(p)))) THEN Finish(p) ELSE Prepare(p, Result(Read(p)))
  /\ UNCHANGED <<records, plan, imported>>

\* Mutant: a record whose id exists counts as imported.
AppendLenient(p) ==
  /\ running[p].at = "append"
  /\ LET r == running[p].record
         c == running[p].of
     IN  /\ records' = IF OnRecord(Id(r)) THEN records ELSE Append(records, r)
         /\ IF c.command.op = "import" THEN running' = [running EXCEPT ![p] = [c EXCEPT !.next = @ + 1]]
            ELSE Finish(p)
  /\ UNCHANGED <<plan, imported>>

\* ImmutableLedger.append with unique_record_id: DuplicateRecordError ends the command.
AppendRecord(p) ==
  /\ running[p].at = "append"
  /\ LET r == running[p].record
         c == running[p].of
     IN  IF OnRecord(Id(r)) THEN UNCHANGED records /\ Finish(p)
         ELSE /\ records' = Append(records, r)
              /\ IF c.command.op = "import" THEN running' = [running EXCEPT ![p] = [c EXCEPT !.next = @ + 1]]
                 ELSE Finish(p)
  /\ UNCHANGED <<plan, imported>>

\* The process of a caller dies, and another is started in its place.
Die(p) == running[p] # NoCommand /\ Finish(p) /\ UNCHANGED <<records, plan, imported>>

PilotInit ==
  /\ \E s \in PilotScenarios : work = s.work /\ records = [i \in DOMAIN s.seed |-> Event(s.seed[i])]
  /\ plan = <<>> /\ imported = {} /\ running = [p \in Callers |-> NoCommand]

Caller(p) ==
  \/ Run(p) \/ Import(p) \/ ShadowRecommend(p) \/ PreregisterExperiment(p) \/ AssignOffer(p)
  \/ RecordResult(p) \/ AppendRecord(p) \/ Die(p)
PilotNext == (\E p \in Callers : Caller(p)) /\ UNCHANGED work
PilotSpec == PilotInit /\ [][PilotNext]_pilotVars
-----------------------------------------------------------------------------
\* Mutual consistency of an earlier record and a later one: an offer of the control arm
\* is not shown a recommendation, a recommendation precedes the decision and is the only
\* one of its offer, and an offer is assigned before it is shown, decided or settled.
Clash(r, s) ==
  /\ r.offer = s.offer
  /\ \/ s.kind = "shadow" /\ r.kind \in {"decision", "shadow"}
     \/ /\ s.kind = "shadow" /\ r.kind = "assignment"
        /\ r.body \in Exposure /\ <<r.body, r.offer>> \in Control
     \/ s.kind = "assignment" /\ r.kind \in {"shadow", "decision", "outcome"}

\* Whatever the processes do, two records that contradict each other were written by
\* commands that overlapped: the later command had begun before the earlier record was
\* there.  A merchant who runs one command after the other never contradicts himself.
\* Events imported as they are claim nothing (`seen` is 0).
ClashOnlyByOverlap ==
  \A i, j \in DOMAIN records : i < j /\ Clash(records[i], records[j]) => records[j].seen < i

\* The count of assignments is read before the append, so commands that overlap can pass
\* planned_units, but by one fewer than there are callers at most.
WithinPlan ==
  \A e \in DOMAIN plan : Cardinality(AssignedIn(e)) <= plan[e] + Cardinality(Callers) - 1

\* Together: how far commands that overlap can break the protocol of an experiment
\* (counterpilot_shadow_recommend, counterpilot_experiment_assign,
\* counterpilot_experiment_record_outcome).
ProtocolKept == ClashOnlyByOverlap /\ WithinPlan

\* An import that returned has every event of its file in the ledger, with the content
\* the file gives it, whoever imported it and wherever an earlier attempt stopped.
ImportedIsOnRecord ==
  \A f \in imported : \A k \in DOMAIN f :
    \E i \in DOMAIN records : Id(records[i]) = <<f[k].kind, f[k].id>> /\ records[i].body = f[k].body
=============================================================================
