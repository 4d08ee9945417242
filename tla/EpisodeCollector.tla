-------------------------- MODULE EpisodeCollector --------------------------
(***************************************************************************)
(* The local collector of Campaign 001                                     *)
(* (src/src/behavior_lab/campaign001_collector.py, bridge.py): commands    *)
(* seal a decision in a capture file, later export it with its outcome,    *)
(* import the export into the ledger and mark the file completed; captures *)
(* that do not become episodes are written to the ledger as audits.        *)
(*                                                                         *)
(* A capture file is read once, when a command begins, and written whole.  *)
(* Nothing locks it: only the appends to the ledger exclude each other.    *)
(***************************************************************************)
EXTENDS Naturals, Sequences, FiniteSets

CONSTANTS
  Commanders,  \* processes that run commands, one at a time each
  Captures,    \* ids of episodes
  Missed,      \* ids of decisions that were missed, in a directory of their own
  Seals,       \* contents of a sealed pre-decision snapshot
  ValidSeals,  \* those that pass the validation
  EligibleSeals, \* those the operator calls eligible
  Results,     \* an outcome together with the time it is recorded at
  MaxCuts      \* bound of the model, not of the code

ASSUME CollectorAssumption ==
  /\ ValidSeals \subseteq Seals /\ EligibleSeals \subseteq Seals /\ Captures \cap Missed = {}
  /\ MaxCuts \in Nat

VARIABLES
  capture,  \* the capture files, and those of missed decisions
  export,   \* the bridge exports: the snapshot in the file of each capture
  episode,  \* the decision_episode records of the ledger, as their snapshot
  audits,   \* the campaign_001_episode_audit records, as <<capture, status>>
  defined,  \* the campaign_definition record exists
  busy,     \* the command of each process
  lapped,   \* captures on which two commands have been under way at once
  cut       \* <<capture, status>> of commands that died or raised halfway, of captures not lapped

collectorVars == <<capture, export, episode, audits, defined, busy, lapped, cut>>

NoSnapshot == <<>>
NoCapture == [status |-> "none"]
NotBusy == [todo |-> <<>>]

\* Statuses of captures that are kept out of the episodes, with an audit instead.
Excluded == {"incomplete", "missed_followup", "invalidated", "missed_pre_decision"}

\* What each command does to its capture after it has read it.
Exclusion == <<"write", "campaign", "define", "audit", "write">>
\* Mutant: the file is completed before the import.
CompletionFirst == <<"export", "find", "campaign", "write", "define", "import">>
Completion == <<"export", "find", "campaign", "define", "import", "write">>

Began(p, e, todo, file, snapshot) ==
  /\ busy' = [busy EXCEPT ![p] = [todo |-> todo, of |-> e, file |-> file,
                                  snapshot |-> snapshot, found |-> NoSnapshot]]
  /\ lapped' = lapped \cup {d \in {e} : \E q \in Commanders : busy[q] # NotBusy /\ busy[q].of = e}
  /\ cut' = {c \in cut : c[1] \notin lapped'}
  /\ UNCHANGED <<capture, export, episode, audits, defined>>

\* start_capture of an id without a file; one with a file is returned or refused.
StartCapture(p) ==
  \E e \in Captures, s \in Seals :
    LET status == IF s \in ValidSeals \cap EligibleSeals THEN "active" ELSE "incomplete"
    IN  /\ capture[e] = NoCapture
        /\ Began(p, e, IF status = "active" THEN <<"write">> ELSE Exclusion,
                 [status |-> status, seal |-> s, source |-> NoSnapshot], NoSnapshot)

\* What finalize_capture goes on with: not invalidated, not finalized before, and valid;
\* eligibility is not asked again.
Finalizable(e) == capture[e].status \in {"active", "incomplete"} /\ capture[e].seal \in ValidSeals

\* finalize_capture, when the outcome is known.
FinalizeCapture(p) ==
  \E e \in Captures, r \in Results :
    LET snapshot == <<capture[e].seal, r>>
    IN  /\ Finalizable(e)
        /\ Began(p, e, Completion, [capture[e] EXCEPT !.status = "completed", !.source = snapshot],
                 snapshot)

\* finalize_capture, when a part of the outcome is unavailable.
MissFollowup(p) ==
  \E e \in Captures :
    /\ Finalizable(e)
    /\ Began(p, e, Exclusion, [capture[e] EXCEPT !.status = "missed_followup"], NoSnapshot)

\* Mutant: a completed capture is invalidated too.
InvalidateAny(p) ==
  \E e \in Captures :
    /\ capture[e] # NoCapture
    /\ Began(p, e, Exclusion, [capture[e] EXCEPT !.status = "invalidated"], NoSnapshot)

\* invalidate_capture.
InvalidateCapture(p) ==
  \E e \in Captures :
    /\ capture[e].status \notin {"none", "completed"}
    /\ Began(p, e, Exclusion, [capture[e] EXCEPT !.status = "invalidated"], NoSnapshot)

\* amend_capture adds an amendment to the file it has read.
AmendCapture(p) ==
  \E e \in Captures : capture[e] # NoCapture /\ Began(p, e, <<"write">>, capture[e], NoSnapshot)

\* missed_capture.
MissCapture(p) ==
  \E e \in Missed : Began(p, e, Exclusion, [status |-> "missed_pre_decision"], NoSnapshot)

-----------------------------------------------------------------------------
(* The steps of a command.                                                 *)

NextIs(p, step) == busy[p] # NotBusy /\ busy[p].todo[1] = step
Proceed(p, c) == busy' = [busy EXCEPT ![p] = IF Len(c.todo) = 1 THEN NotBusy
                                             ELSE [c EXCEPT !.todo = Tail(@)]]
After(c, n) == [c EXCEPT !.todo = SubSeq(@, n + 1, Len(@))]

\* The command ends before its last write.
Raise(p) ==
  /\ busy' = [busy EXCEPT ![p] = NotBusy]
  /\ cut' = cut \cup ({<<busy[p].of, busy[p].file.status>>} \ (lapped \X {busy[p].file.status}))

\* atomic_write_json: the whole file, as it was read at the beginning and changed since.
WriteCapture(p) ==
  /\ NextIs(p, "write")
  /\ capture' = [capture EXCEPT ![busy[p].of] = busy[p].file]
  /\ Proceed(p, busy[p])
  /\ UNCHANGED <<export, episode, audits, defined, lapped, cut>>

WriteExport(p) ==
  /\ NextIs(p, "export")
  /\ export' = [export EXCEPT ![busy[p].of] = busy[p].snapshot]
  /\ Proceed(p, busy[p])
  /\ UNCHANGED <<capture, episode, audits, defined, lapped, cut>>

\* import_export_idempotently reads the export and looks for its episode.
Found(c, snapshot) == [c EXCEPT !.found = snapshot]
FindEpisode(p) ==
  /\ NextIs(p, "find")
  /\ LET e == busy[p].of
         c == Found(busy[p], export[e])
     IN  \/ episode[e] = NoSnapshot /\ Proceed(p, c) /\ UNCHANGED cut
         \/ /\ episode[e] # NoSnapshot /\ episode[e] = export[e]
            /\ busy' = [busy EXCEPT ![p] = [c EXCEPT !.todo = <<"write">>]] /\ UNCHANGED cut
         \/ episode[e] \notin {NoSnapshot, export[e]} /\ Raise(p)
  /\ UNCHANGED <<capture, export, episode, audits, defined, lapped>>

\* import_snapshot_file reads the export once more; ensure_campaign_definition looks for
\* the definition.
Reread(c) == [c EXCEPT !.snapshot = IF @ = NoSnapshot THEN @ ELSE export[c.of]]
FindCampaign(p) ==
  /\ NextIs(p, "campaign")
  /\ busy' = [busy EXCEPT ![p] = After(Reread(busy[p]), IF defined THEN 2 ELSE 1)]
  /\ UNCHANGED <<capture, export, episode, audits, defined, lapped, cut>>

\* Its append.  The command that comes second gets a DuplicateRecordError, which an
\* import survives when its episode is on record.
DefineCampaign(p) ==
  /\ NextIs(p, "define")
  /\ LET c == busy[p]
         onRecord == c.snapshot # NoSnapshot /\ episode[c.of] = c.found
     IN  \/ ~defined /\ Proceed(p, c) /\ UNCHANGED cut
         \/ defined /\ onRecord /\ busy' = [busy EXCEPT ![p] = After(c, 2)] /\ UNCHANGED cut
         \/ defined /\ ~onRecord /\ Raise(p)
  /\ defined' = TRUE
  /\ UNCHANGED <<capture, export, episode, audits, lapped>>

\* append_many_guarded, and what follows when the id exists by then.
ImportEpisode(p) ==
  /\ NextIs(p, "import")
  /\ LET c == busy[p]
     IN  \/ /\ episode[c.of] = NoSnapshot
            /\ episode' = [episode EXCEPT ![c.of] = c.snapshot] /\ Proceed(p, c) /\ UNCHANGED cut
         \/ /\ episode[c.of] # NoSnapshot /\ episode[c.of] = c.found
            /\ Proceed(p, c) /\ UNCHANGED <<episode, cut>>
         \/ /\ episode[c.of] \notin {NoSnapshot, c.found}
            /\ Raise(p) /\ UNCHANGED episode
  /\ UNCHANGED <<capture, export, audits, defined, lapped>>

\* _append_audit_payload.  The id is a hash of the capture with its times: never a duplicate.
AppendAudit(p) ==
  /\ NextIs(p, "audit")
  /\ audits' = audits \cup {<<busy[p].of, busy[p].file.status>>}
  /\ Proceed(p, busy[p])
  /\ UNCHANGED <<capture, export, episode, defined, lapped, cut>>

\* The process dies, or a write fails: the recover_atomic_writes of another command may
\* remove its temporary file.
Interrupt(p) ==
  /\ busy[p] # NotBusy /\ Cardinality(cut) < MaxCuts /\ Raise(p)
  /\ UNCHANGED <<capture, export, episode, audits, defined, lapped>>

CollectorInit ==
  /\ capture = [e \in Captures \cup Missed |-> NoCapture]
  /\ export = [e \in Captures |-> NoSnapshot] /\ episode = [e \in Captures |-> NoSnapshot]
  /\ audits = {} /\ defined = FALSE
  /\ busy = [p \in Commanders |-> NotBusy] /\ lapped = {} /\ cut = {}

Command(p) ==
  \/ /\ busy[p] = NotBusy
     /\ \/ StartCapture(p) \/ FinalizeCapture(p) \/ MissFollowup(p) \/ InvalidateCapture(p)
        \/ AmendCapture(p) \/ MissCapture(p)
  \/ WriteCapture(p) \/ WriteExport(p) \/ FindEpisode(p) \/ FindCampaign(p) \/ DefineCampaign(p)
  \/ ImportEpisode(p) \/ AppendAudit(p) \/ Interrupt(p)
CollectorNext == \E p \in Commanders : Command(p)
CollectorSpec == CollectorInit /\ [][CollectorNext]_collectorVars
-----------------------------------------------------------------------------
Unattended(e) == \A p \in Commanders : busy[p] # NotBusy => busy[p].of # e

\* As long as no two commands have been at one capture at once, the file and the ledger
\* tell the same story, wherever commands died: a completed capture is an episode with its
\* outcome, another one is an episode only if a finalization was cut short, and a capture
\* that is kept out has its audit unless the command that excluded it was.
FileAgreesWithLedger ==
  \A e \in Captures \ lapped : Unattended(e) =>
    LET status == capture[e].status
    IN  /\ status = "completed" => episode[e] = capture[e].source
        /\ status # "completed" /\ episode[e] # NoSnapshot => <<e, "completed">> \in cut
        /\ status \in Excluded => {<<e, status>>} \cap (audits \cup cut) # {}

\* Whatever overlaps, a capture that says completed has an episode in the ledger.
CompletedIsImported ==
  \A e \in Captures : capture[e].status = "completed" => episode[e] # NoSnapshot

\* Together: captures, audits and the ledger after commands that overlap or are cut short
\* (finalize_capture, invalidate_capture, import_export_idempotently).
CollectionSound == FileAgreesWithLedger /\ CompletedIsImported
=============================================================================
