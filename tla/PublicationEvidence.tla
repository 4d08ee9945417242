------------------------ MODULE PublicationEvidence ------------------------
(***************************************************************************)
(* The evidence for a publication from the NBER release: the replication   *)
(* database with its checkpoints (replication.py), the audit of Table 1,   *)
(* the thread and listing passes with their promotion of finished work     *)
(* (restriction_forensics.py, full_listing_pass.py), and the eligibility   *)
(* table and final report (final_publication.py).                          *)
(*                                                                         *)
(* One operator runs one command at a time; any of them may die.  Between  *)
(* commands the file of listings may be replaced, the normalizer           *)
(* may run again, and its temporary buckets may be deleted.  What a        *)
(* program computes is named by what it is computed from: the thread rows  *)
(* with or without duplicates, and the file of listings; the thread file   *)
(* itself stays the official one.                                          *)
(***************************************************************************)
EXTENDS Naturals, Sequences, FiniteSets

CONSTANTS
  Versions,     \* contents of the file of listings; the first is the official one
  Bytes(_),     \* the size of a replication database, by its content
  RowCount(_),  \* the listings in a version of the file of listings
  Absent,         \* nothing is there
  MaxNormal, MaxChanges, MaxKills  \* bounds of the model, not of the code

ASSUME EvidenceAssumption ==
  /\ Len(Versions) > 0 /\ MaxNormal \in Nat /\ MaxChanges \in Nat /\ MaxKills \in Nat

VARIABLES
  raw,      \* the version of the file of listings
  normal,   \* the normalizer's manifest: its run, and whether its buckets are there
  replica,  \* the replication's checkpoint, its tables and its summary
  table1,   \* the audit of Table 1
  forensic, \* the thread pass: its manifest and its artifacts
  listed,  \* the listing pass: its manifest and its partitions
  eligible, \* the eligibility table and its manifest; torn, when the table is newer than the manifest
  report,   \* the final report, with what it was computed from
  doing,      \* the command under way
  changes, kills

evidenceVars ==
  <<raw, normal, replica, table1, forensic, listed, eligible, report, doing, changes, kills>>

Official == Versions[1]
Content(d, l) == [deduped |-> d, listings |-> l]
OfficialContent == Content(TRUE, Official)
Idle == [do |-> "nothing"]
Running(what) == doing.do = what

EvidenceInit ==
  /\ raw = Official
  /\ normal = [run |-> 1, kept |-> TRUE]
  /\ replica = [run |-> 0, phase |-> "none", threads |-> Absent, listings |-> Absent, sample |-> Absent,
                summary |-> Absent]
  /\ table1 = Absent /\ report = Absent /\ doing = Idle /\ changes = 0 /\ kills = 0
  /\ forensic = [manifest |-> Absent, artifacts |-> <<Absent, Absent>>]
  /\ listed = [manifest |-> Absent, table |-> Absent]
  /\ eligible = [manifest |-> Absent, table |-> Absent, torn |-> FALSE]

ReplaceSource ==
  /\ Running("nothing") /\ changes < MaxChanges /\ changes' = changes + 1
  /\ \E v \in 1..Len(Versions) : raw # Versions[v] /\ raw' = Versions[v]
  /\ UNCHANGED <<normal, replica, table1, forensic, listed, eligible, report, doing, kills>>

\* Only a manifest of the official files leads to the full replication.
Normalize ==
  /\ Running("nothing") /\ normal.run < MaxNormal
  /\ raw = Official
  /\ normal' = [run |-> normal.run + 1, kept |-> TRUE]
  /\ UNCHANGED <<raw, replica, table1, forensic, listed, eligible, report, doing, changes, kills>>

DeleteBuckets ==
  /\ Running("nothing") /\ normal.kept /\ changes < MaxChanges /\ changes' = changes + 1
  /\ normal' = [normal EXCEPT !.kept = FALSE]
  /\ UNCHANGED <<raw, replica, table1, forensic, listed, eligible, report, doing, kills>>

Rest == UNCHANGED <<raw, normal, changes, kills>>
ReplicaOnly == Rest /\ UNCHANGED <<table1, forensic, listed, eligible, report>>

\* A summary with the signature of the manifest is used again; a checkpoint with another one
\* loses its database first.
StartReplication ==
  /\ Running("nothing")
  /\ replica.summary # Absent => replica.summary.run # normal.run
  /\ IF replica.phase # "none" /\ replica.run = normal.run
     THEN doing' = [do |-> "replicate"] /\ UNCHANGED replica
     ELSE /\ doing' = [do |-> "checkpoint"]
          /\ replica' = [replica EXCEPT !.threads = Absent, !.listings = Absent, !.sample = Absent]
  /\ ReplicaOnly

Checkpoint ==
  /\ Running("checkpoint")
  /\ replica' = [replica EXCEPT !.run = normal.run, !.phase = "initialized"]
  /\ doing' = [do |-> "replicate"] /\ ReplicaOnly

\* The threads come from the normalizer's buckets, or with their duplicates from the
\* source file if the buckets are gone.  Each phase drops and builds its tables, then writes the checkpoint; a process that dies
\* in between builds them again.
RunPhase(phase, table, made, next) ==
  /\ Running("replicate") /\ replica.phase = phase
  /\ \/ replica' = [replica EXCEPT ![table] = made, !.phase = next] /\ UNCHANGED <<doing, kills>>
     \/ /\ kills < MaxKills /\ kills' = kills + 1
        /\ replica' = [replica EXCEPT ![table] = made] /\ doing' = Idle
  /\ UNCHANGED <<raw, normal, table1, forensic, listed, eligible, report, changes>>

\* With a database that is not there the count of the targets fails, at every attempt.
Summarise ==
  /\ Running("replicate") /\ replica.phase \in {"sample", "summary"}
  /\ doing' = Idle
  /\ IF replica.sample = Absent THEN UNCHANGED replica
     ELSE replica' = [replica EXCEPT !.phase = "summary", !.summary = [run |-> normal.run, of |-> replica.sample]]
  /\ ReplicaOnly

RunReplication ==
  \/ RunPhase("initialized", "threads", normal.kept, "threads")
  \/ RunPhase("threads", "listings", raw, "listings")
  \/ RunPhase("listings", "sample",
       Content(replica.threads, replica.listings), "sample")
  \/ Summarise

AuditTable1 ==
  /\ Running("nothing") /\ replica.sample # Absent
  /\ \E hashed \in BOOLEAN :
       table1' = [of |-> replica.sample, sha |-> IF hashed THEN replica.sample ELSE Absent]
  /\ Rest /\ UNCHANGED <<replica, forensic, listed, eligible, report, doing>>

\* audit_table1's binding to the database: its size, and its hash if one was taken.
BindsToDatabase ==
  /\ replica.sample # Absent /\ Bytes(table1.of) = Bytes(replica.sample)
  /\ table1.sha # Absent => table1.sha = replica.sample

ForensicValid ==
  /\ forensic.manifest # Absent
  /\ \A i \in DOMAIN forensic.artifacts : forensic.artifacts[i] # Absent

\* The thread pass: the source's hash and the options are its signature; unless they are
\* those of a valid manifest the work is done and promoted, one artifact after the other: the
\* old one is removed, then the new one moved in.
RunForensics ==
  /\ Running("nothing")
  /\ \E drop \in BOOLEAN :
       /\ ~(ForensicValid /\ forensic.manifest = drop)
       /\ doing' = [do |-> "promote threads", found |-> drop, i |-> 1]
  /\ Rest /\ UNCHANGED <<replica, table1, forensic, listed, eligible, report>>

PromoteForensics ==
  /\ Running("promote threads")
  /\ IF doing.i <= 2 * Len(forensic.artifacts)
     THEN /\ forensic' = [forensic EXCEPT
                !.artifacts[(doing.i + 1) \div 2] = IF doing.i % 2 = 1 THEN Absent ELSE doing.found]
          /\ doing' = [doing EXCEPT !.i = @ + 1]
     ELSE forensic' = [forensic EXCEPT !.manifest = doing.found] /\ doing' = Idle
  /\ Rest /\ UNCHANGED <<replica, table1, listed, eligible, report>>

\* Mutant: the partitions are only there.
ListingValidPresent ==
  listed.manifest # Absent /\ listed.manifest = raw /\ listed.table # Absent

\* The listing pass names the partitions it has promoted by their hashes.
ListingValid ==
  /\ listed.manifest # Absent /\ listed.manifest = raw
  /\ listed.table = listed.manifest

RunListingPass ==
  /\ Running("nothing") /\ ~ListingValid
  /\ doing' = [do |-> "promote listings", found |-> raw, i |-> 1]
  /\ Rest /\ UNCHANGED <<replica, table1, forensic, listed, eligible, report>>

\* _promote_work: the old table is removed, the new one moved in, the manifest written.
PromoteListings ==
  /\ Running("promote listings")
  /\ CASE doing.i = 1 -> listed' = [listed EXCEPT !.table = Absent]
       [] doing.i = 2 -> listed' = [listed EXCEPT !.table = doing.found]
       [] OTHER     -> listed' = [listed EXCEPT !.manifest = doing.found]
  /\ doing' = IF doing.i < 3 THEN [doing EXCEPT !.i = @ + 1] ELSE Idle
  /\ Rest /\ UNCHANGED <<replica, table1, forensic, eligible, report>>

RowsIn(made) == RowCount(made.listings)

\* Mutant: the size of the database is not compared.
EligibleReusedAnySize == eligible.manifest # Absent /\ eligible.table # Absent

\* build_authoritative_eligibility_table takes the table it finds if the database has the
\* size in the manifest (its path and the manifest's source hash do not change here) and
\* the table the number of rows.
EligibleReused ==
  /\ eligible.manifest # Absent /\ eligible.manifest.bytes = Bytes(replica.sample)
  /\ eligible.table # Absent /\ RowsIn(eligible.table) = eligible.manifest.rows

Finalize ==
  /\ Running("nothing") /\ replica.sample # Absent
  /\ IF EligibleReused
     THEN doing' = [do |-> "report"] /\ UNCHANGED eligible
     ELSE /\ eligible' = [eligible EXCEPT !.table = replica.sample, !.torn = TRUE]
          /\ doing' = [do |-> "eligibility manifest"]
  /\ Rest /\ UNCHANGED <<replica, table1, forensic, listed, report>>

WriteEligibilityManifest ==
  /\ Running("eligibility manifest")
  /\ eligible' = [eligible EXCEPT !.torn = FALSE,
                    !.manifest = [bytes |-> Bytes(replica.sample), rows |-> RowsIn(replica.sample)]]
  /\ doing' = [do |-> "report"]
  /\ Rest /\ UNCHANGED <<replica, table1, forensic, listed, report>>

\* The gates: every published number is met, and every check of the audit passes.
Complete ==
  /\ table1 # Absent /\ table1.of = OfficialContent /\ BindsToDatabase
  /\ ForensicValid /\ forensic.manifest = TRUE
  /\ ListingValid /\ RowsIn(eligible.table) = RowsIn(table1.of)

WriteReport ==
  /\ Running("report")
  /\ report' = [complete |-> Complete, table1 |-> table1, artifacts |-> forensic.artifacts,
                listings |-> listed, eligible |-> eligible, database |-> replica.sample]
  /\ doing' = Idle
  /\ Rest /\ UNCHANGED <<replica, table1, forensic, listed, eligible>>

CommandDies ==
  /\ ~Running("nothing") /\ kills < MaxKills
  /\ doing' = Idle /\ kills' = kills + 1
  /\ UNCHANGED <<raw, normal, replica, table1, forensic, listed, eligible, report, changes>>

EvidenceNext ==
  \/ ReplaceSource \/ Normalize \/ DeleteBuckets
  \/ StartReplication \/ Checkpoint \/ RunReplication \/ AuditTable1
  \/ RunForensics \/ PromoteForensics \/ RunListingPass \/ PromoteListings
  \/ Finalize \/ WriteEligibilityManifest \/ WriteReport \/ CommandDies

EvidenceSpec == EvidenceInit /\ [][EvidenceNext]_evidenceVars

-----------------------------------------------------------------------------
\* What a report that calls the replication complete rests on, whatever died or was replaced
\* in between: the Table 1 of the official files, both artifacts of the thread pass, the
\* partitions of listings that their manifest names, and a database and an eligibility table
\* of the size of the official ones.  The exception is a table whose build died before its
\* manifest: beside the manifest of an older build it can be taken for the table of that one
\* (_deterministic_audit_checks, _gate_report, _promote_work, _eligibility_db_valid).
CompleteEvidence ==
  report # Absent /\ report.complete =>
    /\ report.table1.of = OfficialContent
    /\ \A i \in DOMAIN report.artifacts : report.artifacts[i] # Absent
    /\ report.listings.table = report.listings.manifest
    /\ Bytes(report.database) = Bytes(OfficialContent)
    /\ report.table1.sha # Absent => report.database = OfficialContent
    /\ ~report.eligible.torn => Bytes(report.eligible.table) = Bytes(OfficialContent)
=============================================================================
