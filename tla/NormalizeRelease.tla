-------------------------- MODULE NormalizeRelease --------------------------
(***************************************************************************)
(* The normalization of a downloaded dataset into one output directory     *)
(* (src/src/behavior_lab/datasets/nber_best_offer/real_normalize.py): a    *)
(* pass over the threads into bucket files and an index, a checkpoint,     *)
(* partitions with a checkpoint each, a manifest, a replication artifact   *)
(* and the hash of the manifest; and the command that later attaches the   *)
(* evidence of a full release to the manifest.                             *)
(*                                                                         *)
(* Files are replaced atomically, a run may die between any two, and later *)
(* runs have the same or other arguments and may resume.  Rows are left    *)
(* out: what a file holds is the arguments it was computed with.  The two  *)
(* tables are one list of partitions.                                      *)
(***************************************************************************)
EXTENDS Naturals, Sequences

CONSTANTS
  Arguments, \* what args_signature tells apart
  Parts,     \* number of partitions
  MaxRuns    \* bound of the model: runs that reach a manifest

ASSUME NormalizeAssumption ==
  Parts \in Nat \ {0} /\ MaxRuns \in Nat /\ {"nothing", "partial"} \cap Arguments = {}

VARIABLES
  disk,    \* the files of the output directory
  job,     \* the run in progress
  closing, \* the finalize command in progress
  runs     \* how many runs have reached a manifest

normalizeVars == <<disk, job, closing, runs>>

None == [run |-> 0]
NoJob == [at |-> "done"]
NoCheck == [of |-> "nothing", holds |-> "nothing"]

\* stage is the bucket files and the index, checked the thread checkpoint, part and check the
\* partitions and their checkpoints; replicated and audited are the artifacts, by the payload
\* hash they bear.
EmptyDisk == [stage |-> "nothing", checked |-> "nothing", manifest |-> None, sha |-> None,
              part |-> [i \in 1..Parts |-> "nothing"], check |-> [i \in 1..Parts |-> NoCheck],
              replicated |-> None, audited |-> None]

\* The payload hash covers the arguments, the partitions and the times of the run, and none
\* of the evidence attached later.
Payload(m) == [args |-> m.args, run |-> m.run, parts |-> m.parts]

\* _manifest_partition_integrity: the partition files hash to what the manifest says.
Integrity(m) == disk.part = m.parts

\* _manifest_matches_current.
MatchesCurrent(args) ==
  disk.manifest # None /\ disk.manifest.args = args /\ Integrity(disk.manifest)

\* Mutant: the buckets are not compared with what the checkpoint says of them.
ThreadPassSigned(args) == disk.checked = args
\* _load_valid_thread_checkpoint: its signature, the buckets and the index.
ThreadPassValid(args) == disk.checked = args /\ disk.stage = args

\* Mutant: the signature is not compared.
PartitionUnsigned(args, i) == disk.check[i] # NoCheck /\ disk.check[i].holds = disk.part[i]
\* _load_valid_partition_checkpoint: its signature, and its hash is the file's.
PartitionValid(args, i) == disk.check[i].of = args /\ disk.check[i].holds = disk.part[i]

\* verify_full_release_evidence: the manifest, the files and both artifacts agree now.
Gate(m) ==
  /\ m.passed /\ Integrity(m)
  /\ disk.replicated = Payload(m) /\ disk.audited = Payload(m) /\ m.audit = Payload(m)

-----------------------------------------------------------------------------
(* normalize_real_dataset.  A run that finds its own manifest intact       *)
(* returns it.                                                             *)

JobAt(step) == job.at = step
Go(step) == job' = [job EXCEPT !.at = step] /\ UNCHANGED <<closing, runs>>
Put(file, text) == disk' = [disk EXCEPT ![file] = text]

StartRun ==
  /\ job = NoJob /\ runs < MaxRuns
  /\ \E args \in Arguments, resume \in BOOLEAN :
       /\ ~MatchesCurrent(args)
       /\ job' = [at |-> IF ThreadPassValid(args) THEN "tables" ELSE "clear",
                  args |-> args, resume |-> resume, parts |-> <<>>]
  /\ UNCHANGED <<disk, closing, runs>>

\* The old buckets and index are removed, the new ones filled, then the checkpoint is written.
ClearBuckets == JobAt("clear") /\ Put("stage", "partial") /\ Go("threads")
BucketThreadRows == JobAt("threads") /\ Put("stage", job.args) /\ Go("checkpoint")
ThreadCheckpoint == JobAt("checkpoint") /\ Put("checked", job.args) /\ Go("tables")

\* Without resume the tables are removed, then their checkpoints.
RemoveTables ==
  /\ JobAt("tables")
  /\ IF job.resume THEN UNCHANGED disk /\ Go("partition")
     ELSE Put("part", EmptyDisk.part) /\ Go("uncheck")
RemoveCheckpoints == JobAt("uncheck") /\ Put("check", EmptyDisk.check) /\ Go("partition")

\* _write_or_resume_partition: the file, then its checkpoint; a valid checkpoint is taken over.
Turn == Len(job.parts) + 1
Done(text) ==
  /\ job' = [job EXCEPT !.parts = Append(@, text), !.at = IF Turn = Parts THEN "manifest" ELSE "partition"]
  /\ UNCHANGED <<closing, runs>>
WritePartition ==
  /\ JobAt("partition")
  /\ IF job.resume /\ PartitionValid(job.args, Turn)
     THEN UNCHANGED disk /\ Done(disk.check[Turn].holds)
     ELSE Put("part", [disk.part EXCEPT ![Turn] = disk.stage]) /\ Go("check")
CheckPartition ==
  /\ JobAt("check")
  /\ Put("check", [disk.check EXCEPT ![Turn] = [of |-> job.args, holds |-> disk.part[Turn]]])
  /\ Done(disk.part[Turn])

\* The manifest is written before the replication check, again with it, and then hashed.
Bare(n) == [args |-> job.args, run |-> n, parts |-> job.parts, audit |-> None, passed |-> FALSE]
WriteManifest ==
  /\ JobAt("manifest")
  /\ runs' = runs + 1
  /\ Put("manifest", Bare(runs'))
  /\ job' = [job EXCEPT !.at = "replicate"] /\ UNCHANGED closing
Replicate == JobAt("replicate") /\ Put("replicated", Payload(Bare(runs))) /\ Go("rewrite")
RewriteManifest == JobAt("rewrite") /\ Put("manifest", Bare(runs)) /\ Go("hash")
HashManifest == JobAt("hash") /\ Put("sha", disk.manifest) /\ job' = NoJob /\ UNCHANGED <<closing, runs>>

\* The run dies, or was told to stop after a pass.
StopRun == job # NoJob /\ job' = NoJob /\ UNCHANGED <<disk, closing, runs>>

-----------------------------------------------------------------------------
\* The auditor of a release: an artifact about the manifest there is.
Audit ==
  /\ disk.manifest # None /\ Put("audited", Payload(disk.manifest))
  /\ UNCHANGED <<job, closing, runs>>

\* finalize_full_release_evidence works on the manifest it reads at its beginning, and writes
\* again with the hash of its payload, which is nothing new here; it repeats the replication check
\* when the artifact is not of this manifest.
BeginFinalize ==
  /\ closing = NoJob /\ disk.manifest # None /\ disk.audited # None
  /\ Put("replicated", Payload(disk.manifest))
  /\ closing' = [at |-> "declare", of |-> [disk.manifest EXCEPT !.audit = disk.audited, !.passed = TRUE]]
  /\ UNCHANGED <<job, runs>>

\* The manifest that declares the gate passed is written, verified, taken back when the
\* verification fails, and hashed.
DeclarePassed ==
  /\ closing.at = "declare"
  /\ Put("manifest", closing.of) /\ closing' = [closing EXCEPT !.at = "verify"]
  /\ UNCHANGED <<job, runs>>
VerifyPassed ==
  /\ closing.at = "verify"
  /\ IF Gate(closing.of) THEN UNCHANGED disk
     ELSE Put("manifest", [closing.of EXCEPT !.passed = FALSE])
  /\ closing' = [at |-> "hash"]
  /\ UNCHANGED <<job, runs>>
HashFinal ==
  /\ closing.at = "hash" /\ Put("sha", disk.manifest) /\ closing' = NoJob
  /\ UNCHANGED <<job, runs>>
StopFinalize == closing # NoJob /\ closing' = NoJob /\ UNCHANGED <<disk, job, runs>>

NormalizeInit == disk = EmptyDisk /\ job = NoJob /\ closing = NoJob /\ runs = 0
NormalizeNext ==
  \/ StartRun \/ ClearBuckets \/ BucketThreadRows \/ ThreadCheckpoint \/ RemoveTables
  \/ RemoveCheckpoints \/ WritePartition \/ CheckPartition \/ WriteManifest \/ Replicate
  \/ RewriteManifest \/ HashManifest \/ StopRun
  \/ Audit \/ BeginFinalize \/ DeclarePassed \/ VerifyPassed \/ HashFinal
  \/ StopFinalize
NormalizeSpec == NormalizeInit /\ [][NormalizeNext]_normalizeVars
-----------------------------------------------------------------------------
\* A manifest that says complete lists, for every partition, what an undisturbed run with its
\* arguments would have written, however many runs with whatever arguments were interrupted
\* where and resumed.
ManifestOfCleanRun ==
  disk.manifest # None => disk.manifest.parts = [i \in 1..Parts |-> disk.manifest.args]
=============================================================================
