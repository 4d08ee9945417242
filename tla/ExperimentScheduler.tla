------------------------ MODULE ExperimentScheduler ------------------------
(***************************************************************************)
(* Randomized experiments (src/src/behavior_lab/experiments.py): several   *)
(* processes preregister designs, draw assignments and record outcomes in  *)
(* one ledger.                                                             *)
(*                                                                         *)
(* preregister and assign_intervention read the ledger, compute a          *)
(* randomization sequence or index from what they read, and append it      *)
(* under a guard that counts again; when the count has moved they retry.   *)
(* The draw itself is a function of the namespace and the index.           *)
(***************************************************************************)
EXTENDS Naturals, Sequences, FiniteSets

CONSTANTS
  Workers,      \* processes that use a scheduler
  Designs,      \* what a preregistration is about: question, comparison, target, ...
  AdHoc,        \* comparisons that are assigned without a preregistration
  Planned,      \* planned_trials of each design
  Attempts,     \* of both retry loops (5 in the code)
  MaxPreregs, MaxAdHoc, MaxOutcomes \* bounds of the model, not of the code

ASSUME SchedulerAssumption ==
  /\ Planned \in [Designs -> Nat \ {0}] /\ AdHoc \cap (Designs \cup Nat) = {}
  /\ Attempts \in Nat \ {0} /\ MaxPreregs \in Nat /\ MaxAdHoc \in Nat /\ MaxOutcomes \in Nat

VARIABLES
  preregs,     \* experiment_preregistration records: [design, sequence]
  allocations, \* intervention_assignment records: [group, index, id]
  outcomes,    \* positions of the assignments with an intervention_trial record
  worker       \* what each process is doing

schedulerVars == <<preregs, allocations, outcomes, worker>>

Resting == [at |-> "rest"]

\* Assignments are counted within their preregistration, or within the comparison.
Groups == DOMAIN preregs \cup AdHoc
CountPreregs(d) == Cardinality({i \in DOMAIN preregs : preregs[i].design = d})
CountAllocations(g) == Cardinality({i \in DOMAIN allocations : allocations[i].group = g})

\* Mutant: only the design names the allocation.
NamespaceByDesign(g) == IF g \in AdHoc THEN <<g, 0>> ELSE <<preregs[g].design, 0>>
\* The randomization namespace of a group: the design with its sequence.
Namespace(g) == IF g \in AdHoc THEN <<g, 0>> ELSE <<preregs[g].design, preregs[g].sequence>>

\* planned_trials of the preregistration; assignments without one have no limit in the code.
AllocationLimit(g) == IF g \in AdHoc THEN MaxAdHoc ELSE Planned[preregs[g].design]

\* What the guard and the reader count for a worker's call.
CountedNow(w) == IF w.op = "preregister" THEN CountPreregs(w.of) ELSE CountAllocations(w.of)

BeginCall(p) ==
  /\ worker[p].at \in {"rest", "gaveUp"}
  /\ \/ Len(preregs) < MaxPreregs /\ \E d \in Designs :
          worker' = [worker EXCEPT ![p] = [at |-> "scan", op |-> "preregister", of |-> d,
                                           try |-> 1, first |-> CountPreregs(d), read |-> 0]]
     \/ \E g \in Groups :
          worker' = [worker EXCEPT ![p] = [at |-> "scan", op |-> "assign", of |-> g,
                                           try |-> 1, first |-> CountAllocations(g), read |-> 0]]
  /\ UNCHANGED <<preregs, allocations, outcomes>>

\* The scan of one attempt: the next sequence or index is the number of records there are.
ScanLedger(p) ==
  /\ worker[p].at = "scan"
  /\ worker' = [worker EXCEPT ![p] = [@ EXCEPT !.at = "append", !.read = CountedNow(worker[p])]]
  /\ UNCHANGED <<preregs, allocations, outcomes>>

Rest(p) == worker' = [worker EXCEPT ![p] = Resting]

\* The guard failed: another attempt, or an error after the last one.
Retry(p) ==
  LET w == worker[p]
  IN  worker' = [worker EXCEPT ![p] =
        IF w.try < Attempts THEN [w EXCEPT !.at = "scan", !.try = @ + 1, !.read = 0]
        ELSE [at |-> "gaveUp", overtaken |-> CountedNow(w) - w.first]]

\* Mutant: the sequence is not counted again under the lock.
AppendPreregistrationUnguarded(p) ==
  /\ worker[p].at = "append" /\ worker[p].op = "preregister"
  /\ preregs' = Append(preregs, [design |-> worker[p].of, sequence |-> worker[p].read])
  /\ Rest(p)
  /\ UNCHANGED <<allocations, outcomes>>

\* preregister, the guarded append.
AppendPreregistration(p) ==
  /\ worker[p].at = "append" /\ worker[p].op = "preregister"
  /\ LET w == worker[p]
     IN  IF CountPreregs(w.of) # w.read THEN UNCHANGED preregs /\ Retry(p)
         ELSE /\ preregs' = Append(preregs, [design |-> w.of, sequence |-> w.read])
              /\ Rest(p)
  /\ UNCHANGED <<allocations, outcomes>>

\* Mutant: an off-by-one.
LimitPassed(g) == CountAllocations(g) > AllocationLimit(g)
LimitReached(g) == CountAllocations(g) >= AllocationLimit(g)

\* assign_intervention, the guarded append: the limit, then the index; an id that exists
\* is retried too.
AppendAllocation(p) ==
  /\ worker[p].at = "append" /\ worker[p].op = "assign"
  /\ LET w == worker[p]
         id == <<Namespace(w.of), w.read>>
     IN  CASE LimitReached(w.of) -> UNCHANGED allocations /\ Rest(p)
           [] ~LimitReached(w.of) /\ (\/ CountAllocations(w.of) # w.read
                                 \/ \E i \in DOMAIN allocations : allocations[i].id = id) ->
                UNCHANGED allocations /\ Retry(p)
           [] OTHER -> /\ allocations' = Append(allocations, [group |-> w.of, index |-> w.read, id |-> id])
                       /\ Rest(p)
  /\ UNCHANGED <<preregs, outcomes>>

\* record_trial_outcome: one guarded append that finds the assignment unchanged and without
\* an outcome.
RecordTrialOutcome ==
  /\ Cardinality(outcomes) < MaxOutcomes
  /\ \E i \in DOMAIN allocations \ outcomes : outcomes' = outcomes \cup {i}
  /\ UNCHANGED <<preregs, allocations, worker>>

WorkerDies(p) == worker[p].at \in {"scan", "append"} /\ Rest(p) /\ UNCHANGED <<preregs, allocations, outcomes>>

SchedulerInit ==
  preregs = <<>> /\ allocations = <<>> /\ outcomes = {} /\ worker = [p \in Workers |-> Resting]
SchedulerNext ==
  \/ \E p \in Workers : BeginCall(p) \/ ScanLedger(p) \/ AppendPreregistration(p)
                        \/ AppendAllocation(p) \/ WorkerDies(p)
  \/ RecordTrialOutcome
SchedulerSpec == SchedulerInit /\ [][SchedulerNext]_schedulerVars
-----------------------------------------------------------------------------
\* The allocation of an experiment can be recomputed from its design alone: repetitions of
\* a design carry the sequences 0, 1, 2 ... in the order they were registered, the
\* assignments of each preregistration the indexes 0, 1, 2 ... up to its limit.
AllocationReproducible ==
  /\ \A i \in DOMAIN preregs :
       preregs[i].sequence = Cardinality({j \in 1..i-1 : preregs[j].design = preregs[i].design})
  /\ \A i \in DOMAIN allocations :
       allocations[i].index = Cardinality({j \in 1..i-1 : allocations[j].group = allocations[i].group})
  /\ \A g \in DOMAIN preregs : CountAllocations(g) <= Planned[preregs[g].design]

\* A call that gives up ("Could not reserve ...") has been overtaken by a record of its
\* own kind in every attempt: nothing else, a repetition of the design or a crash, can
\* make an experiment unable to assign.
GivesUpOnlyOvertaken ==
  \A p \in Workers : worker[p].at = "gaveUp" => worker[p].overtaken >= Attempts

\* Together: what the retry loops of preregister and assign_intervention promise, whoever
\* appends in between and wherever a worker dies.
SchedulerSound == AllocationReproducible /\ GivesUpOnlyOvertaken
=============================================================================
