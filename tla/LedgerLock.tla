----------------------------- MODULE LedgerLock -----------------------------
(***************************************************************************)
(* ImmutableLedger (ledger.py): an append-only file of hash-chained        *)
(* records that several processes write, each under a lock file created    *)
(* with O_EXCL, and broken by others when it is older than stale_after and *)
(* its owner is dead.  Every ledger of the package rests on it.            *)
(*                                                                         *)
(* A lock is a file at a path, not an object: the age is taken from one    *)
(* file, the owner read from whatever is at the path by then, and unlink   *)
(* removes whatever is there in the end.                                   *)
(***************************************************************************)
EXTENDS Naturals, Sequences, FiniteSets

CONSTANTS Procs,      \* processes that share the ledger
          NoProc,     \* no process
          Ids,        \* record ids
          Batches,    \* the record ids of one append, in order
          Stalls,     \* whether a living process may outlast stale_after
          MaxRecords, \* bound: records when an append may begin
          MaxFaults   \* bound: processes that die or stall, writes that fail

ASSUME NoProcAssumption == NoProc \notin Procs
ASSUME BatchesAssumption == Batches \subseteq Seq(Ids) \ {<<>>}
ASSUME LedgerBoundsAssumption == MaxRecords \in Nat /\ MaxFaults \in Nat /\ Stalls \in BOOLEAN

VARIABLES lock,     \* the file at lock_path
          records,  \* the complete lines of the ledger
          torn,     \* whether the ledger ends in a piece of a line
          pc,       \* where each process is
          bodies,   \* the records a process is about to write
          robbed,   \* history: a process lost its lock inside the critical section
          faults

ledgerVars == <<lock, records, torn, pc, bodies, robbed, faults>>

NoLock == [owner |-> NoProc, stamped |-> FALSE, aged |-> FALSE]

Init ==
  /\ lock    = NoLock
  /\ records = <<>>
  /\ torn    = FALSE
  /\ pc      = [p \in Procs |-> "idle"]
  /\ bodies  = [p \in Procs |-> <<>>]
  /\ robbed  = FALSE
  /\ faults  = 0

Goto(p, step) == pc' = [pc EXCEPT ![p] = step]
Alive(p) == p \in Procs /\ pc[p] # "dead"

\* From the lock file created to the lock file removed.
Inside   == {"stamp", "scan", "write", "release"}
Holds(p) == p \in Procs /\ pc[p] \in Inside

----------------------------------------------------------------------------
\* The chain.  A hash is known by who computed it, and for which place.
Genesis == <<NoProc, 0>>
HashOf(r) == <<r.by, r.at>>
LastHash == IF records = <<>> THEN Genesis ELSE HashOf(records[Len(records)])

\* _verify_records
Unbroken ==
  \A i \in DOMAIN records :
     records[i].prev = IF i = 1 THEN Genesis ELSE HashOf(records[i - 1])

\* DuplicateRecordError: every writer asks for unique ids.
Duplicates(ids) ==
  \/ \E i \in DOMAIN ids : \E k \in DOMAIN records : records[k].id = ids[i]
  \/ \E i, k \in DOMAIN ids : i # k /\ ids[i] = ids[k]

\* Mutant of Bodies: previous not moved on inside the loop.
BodiesSamePrevious(p, ids) ==
  [i \in DOMAIN ids |->
     [id |-> ids[i], by |-> p, at |-> Len(records) + i, prev |-> LastHash]]

\* The records of one append, each after the one before it.
Bodies(p, ids) ==
  [i \in DOMAIN ids |->
     [id |-> ids[i], by |-> p, at |-> Len(records) + i,
      prev |-> IF i = 1 THEN LastHash ELSE <<p, Len(records) + (i - 1)>>]]

\* The first n records reach the file, and perhaps a piece of the next one.
\* What is written after such a piece is part of the same unreadable line.
Written(p, n) ==
  /\ records' = IF torn THEN records ELSE records \o SubSeq(bodies[p], 1, n)
  /\ \/ torn' = torn
     \/ n < Len(bodies[p]) /\ torn' = TRUE

----------------------------------------------------------------------------
\* Mutant of Open: no O_EXCL.
OpenShared(p) ==
  /\ pc[p] = "idle"
  /\ lock' = [owner |-> p, stamped |-> FALSE, aged |-> FALSE]
  /\ Goto(p, "stamp")
  /\ UNCHANGED <<records, torn, bodies, robbed, faults>>

\* A call that needs the lock, or one that tries again: os.open(O_CREAT |
\* O_EXCL).
Open(p) ==
  /\ pc[p] = "idle"
  /\ IF lock = NoLock
     THEN /\ lock' = [owner |-> p, stamped |-> FALSE, aged |-> FALSE]
          /\ Goto(p, "stamp")
     ELSE Goto(p, "stat") /\ UNCHANGED lock
  /\ UNCHANGED <<records, torn, bodies, robbed, faults>>

\* os.write of the pid, into the file this process created, which may have
\* been unlinked.
Stamp(p) ==
  /\ pc[p] = "stamp"
  /\ lock' = IF lock.owner = p THEN [lock EXCEPT !.stamped = TRUE, !.aged = FALSE]
             ELSE lock
  /\ Goto(p, "scan")
  /\ UNCHANGED <<records, torn, bodies, robbed, faults>>

\* os.write or os.fsync raises inside acquire, before there is anything for
\* __exit__ to release: the file stays, with or without the pid.
StampFails(p) ==
  /\ pc[p] = "stamp"
  /\ faults < MaxFaults
  /\ faults' = faults + 1
  /\ \/ UNCHANGED lock
     \/ lock.owner = p /\ lock' = [lock EXCEPT !.stamped = TRUE, !.aged = FALSE]
  /\ Goto(p, "idle")
  /\ UNCHANGED <<records, torn, bodies, robbed>>

\* _is_stale, the age.  If not, the process sleeps and tries again, or gives
\* up with LedgerLockTimeout and may call again later: the same state.
Stat(p) ==
  /\ pc[p] = "stat"
  /\ IF lock.aged THEN Goto(p, "read") ELSE Goto(p, "idle")
  /\ UNCHANGED <<lock, records, torn, bodies, robbed, faults>>

\* Mutant of OwnerDead: a lock without a pid is never stale.
OwnerDeadStamped == lock = NoLock \/ (lock.stamped /\ ~Alive(lock.owner))

\* _is_stale, the owner.  A file that is gone, and one without a pid, count
\* as stale.
OwnerDead == lock = NoLock \/ ~lock.stamped \/ ~Alive(lock.owner)

ReadOwner(p) ==
  /\ pc[p] = "read"
  /\ IF OwnerDead THEN Goto(p, "unlink") ELSE Goto(p, "idle")
  /\ UNCHANGED <<lock, records, torn, bodies, robbed, faults>>

\* acquire breaks the lock it takes for stale.
Break(p) ==
  /\ pc[p] = "unlink"
  /\ lock' = NoLock
  /\ robbed' = (robbed \/ Holds(lock.owner))
  /\ Goto(p, "idle")
  /\ UNCHANGED <<records, torn, bodies, faults>>

\* Read and verify, under the lock; then the checks of an append.  scan and
\* verify_hash_chain, a check that fails and a guard that raises end here.
Scan(p) ==
  /\ pc[p] = "scan"
  /\ \/ /\ ~torn /\ Unbroken
        /\ \E ids \in Batches :
             /\ Len(records) < MaxRecords
             /\ ~Duplicates(ids)
             /\ bodies' = [bodies EXCEPT ![p] = Bodies(p, ids)]
        /\ Goto(p, "write")
     \/ Goto(p, "release") /\ UNCHANGED bodies
  /\ UNCHANGED <<lock, records, torn, robbed, faults>>

Write(p) ==
  /\ pc[p] = "write"
  /\ Written(p, Len(bodies[p]))
  /\ Goto(p, "release")
  /\ UNCHANGED <<lock, bodies, robbed, faults>>

\* The disk is full: part of the buffer is in the file, the lock is released.
WriteFails(p) ==
  /\ pc[p] = "write"
  /\ faults < MaxFaults
  /\ faults' = faults + 1
  /\ \E n \in 0..(Len(bodies[p]) - 1) : Written(p, n)
  /\ Goto(p, "release")
  /\ UNCHANGED <<lock, bodies, robbed>>

\* release unlinks the path, whoever created the file that is there.
Release(p) ==
  /\ pc[p] = "release"
  /\ lock' = NoLock
  /\ bodies' = [bodies EXCEPT ![p] = <<>>]
  /\ Goto(p, "idle")
  /\ UNCHANGED <<records, torn, robbed, faults>>

\* The process is killed: its lock stays.
Die(p) ==
  /\ pc[p] \notin {"idle", "dead"}
  /\ faults < MaxFaults
  /\ faults' = faults + 1
  /\ IF pc[p] = "write"
     THEN \E n \in 0..Len(bodies[p]) : Written(p, n)
     ELSE UNCHANGED <<records, torn>>
  /\ Goto(p, "dead")
  /\ UNCHANGED <<lock, bodies, robbed>>

\* The lock file gets older than stale_after: nobody is left to remove it, or
\* its owner takes longer than that.
Age ==
  /\ lock # NoLock /\ ~lock.aged
  /\ lock' = [lock EXCEPT !.aged = TRUE]
  /\ \/ ~Holds(lock.owner) /\ UNCHANGED faults
     \/ Stalls /\ faults < MaxFaults /\ faults' = faults + 1
  /\ UNCHANGED <<records, torn, pc, bodies, robbed>>

CallStep(p) ==
  \/ Open(p) \/ Stamp(p) \/ Stat(p) \/ ReadOwner(p) \/ Break(p)
  \/ Scan(p) \/ Write(p) \/ Release(p)

Next ==
  \/ \E p \in Procs : CallStep(p) \/ StampFails(p) \/ WriteFails(p) \/ Die(p)
  \/ Age

Spec == Init /\ [][Next]_ledgerVars

\* Processes run, call again, and time passes.
FairSpec ==
  /\ Spec
  /\ WF_ledgerVars(Age)
  /\ \A p \in Procs : WF_ledgerVars(CallStep(p))

----------------------------------------------------------------------------
Waiting == {"stat", "read", "unlink"}
Hashes  == (Procs \X Nat) \cup {Genesis}
Record  == [id : Ids, by : Procs, at : Nat, prev : Hashes]

\* The type invariant.
TypeOK ==
  /\ lock \in [owner : Procs, stamped : BOOLEAN, aged : BOOLEAN] \cup {NoLock}
  /\ records \in Seq(Record)
  /\ torn \in BOOLEAN /\ robbed \in BOOLEAN
  /\ pc \in [Procs -> Inside \cup Waiting \cup {"idle", "dead"}]
  /\ bodies \in [Procs -> Seq(Record)]
  /\ faults \in 0..MaxFaults

\* Mutual exclusion, as long as no process lost its lock while it was inside:
\* dead owners, abandoned locks, retries, timeouts and a release that unlinks
\* whatever it finds never put two processes in the critical section
\* (_ExclusiveFileLock).
Exclusive ==
  ~robbed => \A p, q \in Procs : Holds(p) /\ Holds(q) => p = q

\* Under the same condition the chain is unbroken, whatever part of a batch
\* a crash or a full disk left in the file, and no record id is repeated.
ChainKept ==
  ~robbed =>
    /\ Unbroken
    /\ \A i, k \in DOMAIN records : records[i].id = records[k].id => i = k

\* Stale-lock recovery: a lock whose owner died, at whatever point, does not
\* stay for ever, as long as other processes go on calling.
DeadLockRecovered == []<>(lock = NoLock \/ Alive(lock.owner))

=============================================================================
