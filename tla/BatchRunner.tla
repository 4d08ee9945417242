----------------------------- MODULE BatchRunner -----------------------------
(***************************************************************************)
(* One run of a synthetic batch (runner.py): processes that were given the *)
(* same batch meet in one run directory, with its ledger and its lock.     *)
(* The run seeds a dataset unless one is there (stress.py), scores it, and *)
(* records that it is complete.  Processes die; a lock older than six      *)
(* hours whose process is dead is broken.                                  *)
(***************************************************************************)
EXTENDS Naturals, FiniteSets

CONSTANTS
  Runners,  \* processes that run the batch, once each
  Episodes  \* the size of the dataset in the run's specification

ASSUME BatchAssumption == Episodes \in Nat \ {0} /\ "nobody" \notin Runners

VARIABLES
  lockFile,  \* .run.lock: whose it is, whether it names its process, and whether it is old
  dataset,   \* the number of decision episodes in the ledger
  completed, \* the complete ends in the ledger: by whom, over how many episodes
  failures,  \* whether a failed end was recorded
  runner,    \* where each process is
  broken     \* whether a lock was ever broken

batchVars == <<lockFile, dataset, completed, failures, runner, broken>>

NoLock == [by |-> "nobody", named |-> FALSE, old |-> FALSE]

BatchInit ==
  /\ lockFile = NoLock /\ dataset = 0 /\ completed = {} /\ failures = FALSE /\ broken = FALSE
  /\ runner = [p \in Runners |-> "start"]

Advance(p, from, to) == runner[p] = from /\ runner' = [runner EXCEPT ![p] = to]

\* _completed, before the lock.
CheckCompleted(p) ==
  /\ Advance(p, "start", IF completed # {} THEN "skipped" ELSE "enter")
  /\ UNCHANGED <<lockFile, dataset, completed, failures, broken>>

\* RunLock.__enter__: the file is created, and names its process in a write of its own.
CreateLock(p) ==
  /\ lockFile = NoLock /\ Advance(p, "enter", "name")
  /\ lockFile' = [by |-> p, named |-> FALSE, old |-> FALSE]
  /\ UNCHANGED <<dataset, completed, failures, broken>>

\* The write goes to the file that was created, which may have been unlinked since.
NameLock(p) ==
  /\ Advance(p, "name", "locked")
  /\ lockFile' = IF lockFile.by = p THEN [lockFile EXCEPT !.named = TRUE] ELSE lockFile
  /\ UNCHANGED <<dataset, completed, failures, broken>>

\* _stale: an old file without a process, or with one that is gone.
StaleLock == lockFile.old /\ (lockFile.named => runner[lockFile.by] = "dead")

FindLock(p) ==
  /\ lockFile # NoLock /\ Advance(p, "enter", IF StaleLock THEN "unlink" ELSE "refused")
  /\ UNCHANGED <<lockFile, dataset, completed, failures, broken>>

\* Whatever file is there by now.
BreakLock(p) ==
  /\ Advance(p, "unlink", "enter") /\ lockFile' = NoLock /\ broken' = TRUE
  /\ UNCHANGED <<dataset, completed, failures>>

\* Mutant of Recheck: no second look under the lock.
RecheckNothing == FALSE

\* Another process may have completed the run before this one created the lock.
Recheck == completed # {}

CheckAgain(p) ==
  /\ Advance(p, "locked", IF Recheck THEN "exit" ELSE "existing")
  /\ UNCHANGED <<lockFile, dataset, completed, failures, broken>>

\* LabStressTester.run: an existing dataset must have the size of the specification.
ReadDataset(p) ==
  /\ Advance(p, "existing",
       IF dataset = 0 THEN "seed" ELSE IF dataset = Episodes THEN "score" ELSE "failed")
  /\ UNCHANGED <<lockFile, dataset, completed, failures, broken>>

\* Mutant of Seeds: the episodes of another process do not stop the append.
SeedsUnguarded == TRUE

\* append_many_guarded with unique ids: all the episodes, or none if one of them is there.
Seeds == dataset = 0

SeedDataset(p) ==
  /\ IF Seeds THEN Advance(p, "seed", "score") /\ dataset' = dataset + Episodes
     ELSE Advance(p, "seed", "failed") /\ UNCHANGED dataset
  /\ UNCHANGED <<lockFile, completed, failures, broken>>

\* The records of a batch are written one after the other: a process that dies at it leaves
\* a dataset of another size.
SeedInterrupted(p) ==
  /\ Seeds /\ Advance(p, "seed", "dead")
  /\ \E n \in 1..(Episodes - 1) : dataset' = dataset + n
  /\ UNCHANGED <<lockFile, completed, failures, broken>>

RecordComplete(p) ==
  /\ Advance(p, "score", "exit")
  /\ completed' = completed \cup {[by |-> p, episodes |-> dataset]}
  /\ UNCHANGED <<lockFile, dataset, failures, broken>>

\* The scoring may fail as well.
ScoringFails(p) ==
  /\ Advance(p, "score", "failed")
  /\ UNCHANGED <<lockFile, dataset, completed, failures, broken>>

RecordFailed(p) ==
  /\ Advance(p, "failed", "exit") /\ failures' = TRUE
  /\ UNCHANGED <<lockFile, dataset, completed, broken>>

\* __exit__ unlinks the file at the path, its own or not.
ReleaseLock(p) ==
  /\ Advance(p, "exit", "done") /\ lockFile' = NoLock
  /\ UNCHANGED <<dataset, completed, failures, broken>>

LockAges ==
  /\ lockFile # NoLock /\ ~lockFile.old /\ (lockFile.named \/ runner[lockFile.by] = "dead")
  /\ lockFile' = [lockFile EXCEPT !.old = TRUE]
  /\ UNCHANGED <<dataset, completed, failures, runner, broken>>

RunnerDies(p) ==
  /\ runner[p] \notin {"skipped", "refused", "done", "dead"}
  /\ runner' = [runner EXCEPT ![p] = "dead"]
  /\ UNCHANGED <<lockFile, dataset, completed, failures, broken>>

RunnerStep(p) ==
  \/ CheckCompleted(p) \/ CreateLock(p) \/ NameLock(p) \/ FindLock(p) \/ BreakLock(p)
  \/ CheckAgain(p) \/ ReadDataset(p) \/ SeedDataset(p) \/ SeedInterrupted(p)
  \/ RecordComplete(p) \/ ScoringFails(p) \/ RecordFailed(p) \/ ReleaseLock(p)
  \/ RunnerDies(p)

BatchNext == LockAges \/ \E p \in Runners : RunnerStep(p)

BatchSpec == BatchInit /\ [][BatchNext]_batchVars

-----------------------------------------------------------------------------
\* A run is complete over exactly the dataset of its specification, even when two processes
\* hold the lock at once after one was broken; and as long as no lock was broken it is
\* completed once, though every process looks before it locks (run, RunLock,
\* LabStressTester.run, WorldGym.seed).
CompletedOnWholeDataset ==
  /\ \A end \in completed : end.episodes = Episodes
  /\ ~broken => \A e, f \in completed : e = f
=============================================================================
