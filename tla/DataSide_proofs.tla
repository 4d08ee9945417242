-------------------------- MODULE DataSide_proofs --------------------------
(***************************************************************************)
(* What holds of the components that collect, keep and release data, for   *)
(* any number of processes, files, cases and deaths.  They share no state: *)
(* each has its own part, with the inductive invariant, its steps and its  *)
(* theorems.                                                               *)
(***************************************************************************)
EXTENDS BatchRunner, SourceDownload, NormalizeRelease, PublicationEvidence, IntegrationGate,
        EpisodeCollector, BenchmarkBuild, ThreadRestrictions, FoldFacts

-----------------------------------------------------------------------------
(* The synthetic batch runner.                                             *)

Steps == {"start", "skipped", "enter", "name", "locked", "refused", "unlink", "exit", "existing",
          "seed", "score", "failed", "done", "dead"}

BatchTypeOK ==
  /\ lockFile \in [by : Runners \cup {"nobody"}, named : BOOLEAN, old : BOOLEAN]
  /\ dataset \in 0..Episodes
  /\ completed \subseteq [by : Runners, episodes : Nat]
  /\ failures \in BOOLEAN /\ broken \in BOOLEAN
  /\ runner \in [Runners -> Steps]

\* A process scores a whole dataset only, and no step changes a whole dataset.
WholeScored == \A p \in Runners : runner[p] = "score" => dataset = Episodes
WholeCompleted == \A end \in completed : end.episodes = Episodes

Inside(p) == runner[p] \in {"name", "locked", "existing", "seed", "score", "failed", "exit"}
Working(p) == runner[p] \in {"existing", "seed", "score"}

\* Until a lock is broken, a process inside holds the file, and works only on a run that
\* is not complete.
OneInside == ~broken => \A p \in Runners : Inside(p) => lockFile.by = p
NoneWorking == ~broken /\ completed # {} => \A p \in Runners : ~Working(p)
OneEnd == ~broken => \A e, f \in completed : e = f

BatchInv == BatchTypeOK /\ WholeScored /\ WholeCompleted /\ OneInside /\ NoneWorking /\ OneEnd

\* The invariant holds at the start: no process is inside and no end is recorded.
LEMMA BatchInitInv == BatchInit => BatchInv
<1> SUFFICES ASSUME BatchInit PROVE BatchInv
  OBVIOUS
<1>1. BatchTypeOK
  <2>1. lockFile \in [by : Runners \cup {"nobody"}, named : BOOLEAN, old : BOOLEAN]
    BY DEF BatchInit, NoLock
  <2>2. dataset \in 0..Episodes
    BY BatchAssumption DEF BatchAssumption, BatchInit
  <2>3. completed \subseteq [by : Runners, episodes : Nat]
    BY DEF BatchInit
  <2>4. failures \in BOOLEAN /\ broken \in BOOLEAN
    BY DEF BatchInit
  <2>5. runner \in [Runners -> Steps]
    BY DEF BatchInit, Steps
  <2> QED
    BY <2>1, <2>2, <2>3, <2>4, <2>5 DEF BatchTypeOK
<1>2. WholeScored /\ WholeCompleted
  BY DEF BatchInit, WholeScored, WholeCompleted
<1>3. OneInside /\ NoneWorking /\ OneEnd
  BY DEF BatchInit, OneInside, NoneWorking, OneEnd, Inside
<1> QED
  BY <1>1, <1>2, <1>3 DEF BatchInv

\* Every step of a process keeps the types.
LEMMA BatchTypeStep == BatchInv /\ [BatchNext]_batchVars => BatchTypeOK'
<1> SUFFICES ASSUME BatchInv, [BatchNext]_batchVars PROVE BatchTypeOK'
  OBVIOUS
<1> USE BatchAssumption DEF BatchInv, BatchTypeOK, Steps
<1>1. CASE LockAges
  BY <1>1 DEF LockAges
<1>2. ASSUME NEW p \in Runners, RunnerStep(p) PROVE BatchTypeOK'
  <2>1. CASE CheckCompleted(p)
    BY <2>1 DEF CheckCompleted, Advance
  <2>2. CASE CreateLock(p)
    BY <2>2 DEF CreateLock, Advance
  <2>3. CASE NameLock(p)
    BY <2>3 DEF NameLock, Advance
  <2>4. CASE FindLock(p)
    BY <2>4 DEF FindLock, Advance
  <2>5. CASE BreakLock(p)
    BY <2>5 DEF BreakLock, Advance, NoLock
  <2>6. CASE CheckAgain(p)
    BY <2>6 DEF CheckAgain, Advance
  <2>7. CASE ReadDataset(p)
    BY <2>7 DEF ReadDataset, Advance
  <2>8. CASE SeedDataset(p)
    BY <2>8 DEF SeedDataset, Advance, Seeds
  <2>9. CASE SeedInterrupted(p)
    BY <2>9 DEF SeedInterrupted, Advance, Seeds
  <2>10. CASE RecordComplete(p)
    BY <2>10 DEF RecordComplete, Advance
  <2>11. CASE ScoringFails(p)
    BY <2>11 DEF ScoringFails, Advance
  <2>12. CASE RecordFailed(p)
    BY <2>12 DEF RecordFailed, Advance
  <2>13. CASE ReleaseLock(p)
    BY <2>13 DEF ReleaseLock, Advance, NoLock
  <2>14. CASE RunnerDies(p)
    BY <2>14 DEF RunnerDies
  <2> QED
    BY <1>2, <2>1, <2>2, <2>3, <2>4, <2>5, <2>6, <2>7, <2>8, <2>9, <2>10, <2>11, <2>12, <2>13,
       <2>14 DEF RunnerStep
<1>3. CASE UNCHANGED batchVars
  BY <1>3 DEF batchVars
<1> QED
  BY <1>1, <1>2, <1>3 DEF BatchNext

\* What is scored and completed is whole: the size is asked before the scoring, and the
\* guarded append leaves a dataset that is there alone.
LEMMA WholeStep == BatchInv /\ [BatchNext]_batchVars => WholeScored' /\ WholeCompleted'
<1> SUFFICES ASSUME BatchInv, [BatchNext]_batchVars PROVE WholeScored' /\ WholeCompleted'
  OBVIOUS
<1> USE BatchAssumption DEF BatchInv, BatchTypeOK, WholeScored, WholeCompleted
<1>1. CASE LockAges
  BY <1>1 DEF LockAges
<1>2. ASSUME NEW p \in Runners, RunnerStep(p) PROVE WholeScored' /\ WholeCompleted'
  <2>1. CASE ReadDataset(p)
    BY <2>1 DEF ReadDataset, Advance
  <2>2. CASE SeedDataset(p)
    BY <2>2 DEF SeedDataset, Advance, Seeds
  <2>3. CASE SeedInterrupted(p)
    BY <2>3 DEF SeedInterrupted, Advance, Seeds
  <2>4. CASE RecordComplete(p)
    BY <2>4 DEF RecordComplete, Advance
  <2>5. CASE \/ CheckCompleted(p) \/ CreateLock(p) \/ NameLock(p) \/ FindLock(p) \/ BreakLock(p)
             \/ CheckAgain(p) \/ ScoringFails(p) \/ RecordFailed(p) \/ ReleaseLock(p)
             \/ RunnerDies(p)
    BY <2>5 DEF CheckCompleted, CreateLock, NameLock, FindLock, BreakLock, CheckAgain,
                ScoringFails, RecordFailed, ReleaseLock, RunnerDies, Advance
  <2> QED
    BY <1>2, <2>1, <2>2, <2>3, <2>4, <2>5 DEF RunnerStep
<1>3. CASE UNCHANGED batchVars
  BY <1>3 DEF batchVars
<1> QED
  BY <1>1, <1>2, <1>3 DEF BatchNext

\* Mutual exclusion, until a lock is broken: the file is created where there is none, and
\* only its process removes it.
LEMMA OneInsideStep == BatchInv /\ [BatchNext]_batchVars => OneInside'
<1> SUFFICES ASSUME BatchInv, [BatchNext]_batchVars PROVE OneInside'
  OBVIOUS
<1> USE BatchAssumption DEF BatchInv, BatchTypeOK, OneInside, Inside
<1>1. CASE LockAges
  BY <1>1 DEF LockAges
<1>2. ASSUME NEW p \in Runners, RunnerStep(p) PROVE OneInside'
  <2>1. CASE CreateLock(p)
    BY <2>1 DEF CreateLock, Advance, NoLock
  <2>2. CASE NameLock(p)
    BY <2>2 DEF NameLock, Advance
  <2>3. CASE BreakLock(p)
    BY <2>3 DEF BreakLock
  <2>4. CASE ReleaseLock(p)
    BY <2>4 DEF ReleaseLock, Advance
  <2>5. CASE CheckCompleted(p) \/ FindLock(p)
    BY <2>5 DEF CheckCompleted, FindLock, Advance
  <2>6. CASE CheckAgain(p) \/ ReadDataset(p) \/ RecordComplete(p) \/ ScoringFails(p) \/ RecordFailed(p)
    BY <2>6 DEF CheckAgain, ReadDataset, RecordComplete, ScoringFails, RecordFailed, Advance
  <2>7. CASE SeedDataset(p) \/ SeedInterrupted(p) \/ RunnerDies(p)
    BY <2>7 DEF SeedDataset, SeedInterrupted, RunnerDies, Advance
  <2> QED
    BY <1>2, <2>1, <2>2, <2>3, <2>4, <2>5, <2>6, <2>7 DEF RunnerStep
<1>3. CASE UNCHANGED batchVars
  BY <1>3 DEF batchVars
<1> QED
  BY <1>1, <1>2, <1>3 DEF BatchNext

\* Nobody works on a run that is complete, so nobody completes it again: the second look
\* is under the lock.
LEMMA OneEndStep == BatchInv /\ [BatchNext]_batchVars => NoneWorking' /\ OneEnd'
<1> SUFFICES ASSUME BatchInv, [BatchNext]_batchVars PROVE NoneWorking' /\ OneEnd'
  OBVIOUS
<1> USE BatchAssumption DEF BatchInv, BatchTypeOK, NoneWorking, OneEnd, Working
<1>1. CASE LockAges
  BY <1>1 DEF LockAges
<1>2. ASSUME NEW p \in Runners, RunnerStep(p) PROVE NoneWorking' /\ OneEnd'
  <2>1. CASE CheckAgain(p)
    BY <2>1 DEF CheckAgain, Advance, Recheck
  <2>2. CASE RecordComplete(p)
    <3>1. ~broken => completed = {}
      BY <2>2 DEF RecordComplete, Advance
    <3>2. ~broken => \A q \in Runners : q # p => ~Working(q)
      BY <2>2 DEF RecordComplete, Advance, OneInside, Inside
    <3>3. ~broken' => \A q \in Runners : ~Working(q)'
      BY <2>2, <3>2 DEF RecordComplete, Advance
    <3>4. ~broken' => completed' = {[by |-> p, episodes |-> dataset]}
      BY <2>2, <3>1 DEF RecordComplete
    <3> QED
      BY <3>3, <3>4
  <2>3. CASE ReadDataset(p) \/ SeedDataset(p) \/ SeedInterrupted(p) \/ ScoringFails(p)
    BY <2>3 DEF ReadDataset, SeedDataset, SeedInterrupted, ScoringFails, Advance
  <2>4. CASE CheckCompleted(p) \/ CreateLock(p) \/ NameLock(p) \/ FindLock(p) \/ BreakLock(p)
    BY <2>4 DEF CheckCompleted, CreateLock, NameLock, FindLock, BreakLock, Advance
  <2>5. CASE RecordFailed(p) \/ ReleaseLock(p) \/ RunnerDies(p)
    BY <2>5 DEF RecordFailed, ReleaseLock, RunnerDies, Advance
  <2> QED
    BY <1>2, <2>1, <2>2, <2>3, <2>4, <2>5 DEF RunnerStep
<1>3. CASE UNCHANGED batchVars
  BY <1>3 DEF batchVars
<1> QED
  BY <1>1, <1>2, <1>3 DEF BatchNext

\* The strengthened invariant of a batch run.
THEOREM BatchInvariant == BatchSpec => []BatchInv
<1>1. BatchInv /\ [BatchNext]_batchVars => BatchInv'
  BY BatchTypeStep, WholeStep, OneInsideStep, OneEndStep DEF BatchInv
<1> QED
  BY BatchInitInv, <1>1, PTL DEF BatchSpec

\* A run is complete over its whole dataset only, and once unless a lock was broken, for
\* any number of processes and any size.
THEOREM BatchCompletedOnWholeDataset == BatchSpec => []CompletedOnWholeDataset
<1>1. BatchInv => CompletedOnWholeDataset
  BY DEF BatchInv, WholeCompleted, OneEnd, CompletedOnWholeDataset
<1> QED
  BY BatchInvariant, <1>1, PTL

-----------------------------------------------------------------------------
(* The download of the sources.                                            *)

SourceVersions == DOMAIN BlocksOf
Blocks == [of : Nat, at : Nat]
FileSteps == {"fetch", "body", "check", "rename"}
Opening == [at : {"open"}, total : Nat]
Filling == [at : FileSteps, total : Nat, file : Nat, start : Nat, end : Nat, of : Nat]

DownloadTypeOK ==
  /\ remote \in SourceVersions /\ content \in Seq(Seq(Blocks))
  /\ part \in 0..Len(content) /\ dest \in 0..Len(content)
  /\ loader \in [Downloaders -> {NotLoading} \cup Opening \cup Filling]
  /\ upsets \subseteq {"overlap", "change", "truncation"}

Busy(p) == loader[p].at # "out"

\* Without an overlap one process at most downloads, and none once the file is there.
OneLoader == \A p, q \in Downloaders : Busy(p) /\ Busy(q) => p = q
NoneAfter == dest # 0 => part = 0 /\ \A p \in Downloaders : ~Busy(p)

\* What a process has open is the file at the partial path, filled to where the process is.
LoaderOK(l) ==
  /\ l.at # "out" => l.total = 0 \/ \E v \in SourceVersions : l.total = BlocksOf[v]
  /\ l.at \in FileSteps => part # 0 /\ l.file = part /\ Size(part) = l.start
  /\ l.at = "fetch" /\ l.total = 0 => l.start = 0
  /\ l.at = "check" => l.total > 0
  /\ l.at = "body" => l.of \in SourceVersions
  /\ l.at = "body" /\ l.total = 0 => l.end = BlocksOf[l.of] /\ l.start <= l.end
  /\ l.at = "rename" /\ l.total > 0 => l.start = l.total
  /\ l.at = "rename" /\ l.total = 0 =>
       l.of \in SourceVersions /\ ("truncation" \notin upsets => l.start = BlocksOf[l.of])

LoadersOK == \A p \in Downloaders : LoaderOK(loader[p])

\* Every file is filled from its beginning, block after block.
BlocksInOrder == \A f \in 1..Len(content) : \A k \in 1..Len(content[f]) : content[f][k].at = k

\* Without any upset, what is being filled is of the version there is.
Current(l) ==
  /\ l.at # "out" => l.total \in {0, BlocksOf[remote]}
  /\ l.at = "body" => l.of = remote
  /\ l.at = "rename" /\ l.total = 0 => l.of = remote
OneVersion ==
  /\ part # 0 => \A k \in 1..Len(content[part]) : content[part][k].of = remote
  /\ \A p \in Downloaders : Current(loader[p])

DownloadInv ==
  /\ DownloadTypeOK
  /\ "overlap" \notin upsets => OneLoader /\ NoneAfter /\ LoadersOK /\ BlocksInOrder
  /\ upsets = {} => OneVersion
  /\ PresentIsACopy

\* Nothing is there at the start.
LEMMA DownloadInitInv == DownloadInit => DownloadInv
<1> SUFFICES ASSUME DownloadInit PROVE DownloadInv
  OBVIOUS
<1> USE DownloadAssumption DEF DownloadAssumption, DownloadInit
<1>1. DownloadTypeOK
  BY DEF DownloadTypeOK, SourceVersions
<1>2. \A p \in Downloaders : loader[p].at = "out"
  BY DEF NotLoading
<1>3. OneLoader /\ NoneAfter /\ BlocksInOrder
  BY <1>2 DEF OneLoader, NoneAfter, BlocksInOrder, Busy
<1>4. LoadersOK /\ OneVersion
  BY <1>2 DEF LoadersOK, LoaderOK, OneVersion, Current, FileSteps
<1>5. PresentIsACopy
  BY DEF PresentIsACopy
<1> QED
  BY <1>1, <1>3, <1>4, <1>5 DEF DownloadInv

\* A process at a step has a record of that step.
LEMMA LoaderKinds ==
  ASSUME DownloadTypeOK, NEW p \in Downloaders
  PROVE  /\ Loading(p, "out") => ~Busy(p)
         /\ Loading(p, "open") => loader[p] \in Opening /\ Busy(p)
         /\ \A step \in FileSteps : Loading(p, step) => loader[p] \in Filling /\ Busy(p)
         /\ ~Loading(p, "out") => Busy(p)
BY DEF DownloadTypeOK, Loading, Busy, NotLoading, Opening, Filling, FileSteps

\* A process that moves leaves the others their records.
LEMMA LoaderMoves ==
  ASSUME DownloadTypeOK, NEW p \in Downloaders, NEW x \in {NotLoading} \cup Opening \cup Filling, Move(p, x)
  PROVE  loader' \in [Downloaders -> {NotLoading} \cup Opening \cup Filling]
BY DEF DownloadTypeOK, Move

\* The length of a file that was made.
LEMMA FileType ==
  ASSUME DownloadTypeOK, NEW f \in 1..Len(content)
  PROVE  content[f] \in Seq(Blocks) /\ Size(f) \in Nat
BY DEF DownloadTypeOK, Size

\* A version of the remote file has blocks.
LEMMA VersionLength == \A v \in SourceVersions : BlocksOf[v] \in Nat \ {0}
BY DownloadAssumption DEF DownloadAssumption, SourceVersions

\* What a process becomes with the step it goes to.
LEMMA StepFields ==
  ASSUME NEW l \in Filling, NEW step \in FileSteps
  PROVE  LET x == [l EXCEPT !.at = step]
         IN  /\ x \in Filling /\ x.at = step /\ x.end = l.end /\ x.of = l.of
             /\ x.total = l.total /\ x.file = l.file /\ x.start = l.start
BY DEF Filling

\* Unless downloads have overlapped, who moves is alone, and the file is not there yet.
LEMMA Alone ==
  ASSUME DownloadInv, "overlap" \notin upsets, NEW p \in Downloaders, Busy(p), NEW x, Move(p, x)
  PROVE  /\ dest = 0 /\ loader'[p] = x
         /\ \A q \in Downloaders \ {p} : loader'[q] = loader[q] /\ loader[q].at = "out"
         /\ OneLoader'
<1>1. loader' = [loader EXCEPT ![p] = x] /\ loader \in [Downloaders -> {NotLoading} \cup Opening \cup Filling]
  BY DEF Move, DownloadInv, DownloadTypeOK
<1>2. \A q \in Downloaders \ {p} : loader'[q] = loader[q] /\ loader[q].at = "out"
  BY <1>1 DEF DownloadInv, OneLoader, Busy
<1>3. dest = 0
  BY DEF DownloadInv, NoneAfter
<1> QED
  BY <1>1, <1>2, <1>3 DEF OneLoader, Busy

\* A step of a process that does not rename says nothing new of the file that is there.
LEMMA PresentKept ==
  ASSUME DownloadInv, upsets \subseteq upsets', dest' = dest,
         dest = 0 \/ \E p \in Downloaders : Busy(p)
  PROVE  PresentIsACopy'
BY DEF DownloadInv, NoneAfter, PresentIsACopy

\* The moving process is all there is to look at.
LEMMA MovedInv ==
  ASSUME DownloadInv, NEW p \in Downloaders, Busy(p), NEW x, Move(p, x),
         DownloadTypeOK', upsets \subseteq upsets', dest' = dest,
         "overlap" \notin upsets => LoaderOK(x)' /\ BlocksInOrder',
         upsets' = {} => Current(x)' /\ (part' # 0 => \A k \in 1..Len(content'[part']) : content'[part'][k].of = remote')
  PROVE  DownloadInv'
<1>1. PresentIsACopy'
  BY PresentKept
<1>2. ASSUME "overlap" \notin upsets'
      PROVE  OneLoader' /\ NoneAfter' /\ LoadersOK' /\ BlocksInOrder'
  <2>1. /\ dest = 0 /\ loader'[p] = x /\ OneLoader'
        /\ \A q \in Downloaders \ {p} : loader'[q] = loader[q] /\ loader[q].at = "out"
    BY <1>2, Alone
  <2>2. NoneAfter'
    BY <2>1 DEF NoneAfter
  <2>3. \A q \in Downloaders \ {p} : LoaderOK(loader[q])'
    BY <2>1 DEF LoaderOK, FileSteps
  <2> QED
    BY <1>2, <2>1, <2>2, <2>3 DEF LoadersOK
<1>3. ASSUME upsets' = {}
      PROVE  OneVersion'
  <2>1. /\ loader'[p] = x
        /\ \A q \in Downloaders \ {p} : loader'[q] = loader[q] /\ loader[q].at = "out"
    BY <1>3, Alone
  <2>2. \A q \in Downloaders \ {p} : Current(loader[q])'
    BY <2>1 DEF Current
  <2> QED
    BY <1>3, <2>1, <2>2 DEF OneVersion
<1> QED
  BY <1>1, <1>2, <1>3 DEF DownloadInv

\* A download begins: with another one under way it is an overlap.
LEMMA BeginStep == ASSUME DownloadInv, NEW p \in Downloaders, BeginDownload(p) PROVE DownloadInv'
<1>1. PICK total \in {0, BlocksOf[remote]} : Move(p, [at |-> "open", total |-> total])
  BY DEF BeginDownload
<1> DEFINE x == [at |-> "open", total |-> total]
<1>2. /\ ~Busy(p) /\ dest = 0 /\ UNCHANGED <<remote, content, part, dest>>
      /\ upsets' = upsets \cup {u \in {"overlap"} : \E q \in Downloaders : ~Loading(q, "out")}
  BY LoaderKinds DEF BeginDownload, DownloadInv
<1>3. loader' = [loader EXCEPT ![p] = x] /\ loader'[p] = x /\ x.at = "open" /\ x.total = total
  BY <1>1 DEF Move, DownloadInv, DownloadTypeOK
<1>4. x \in Opening /\ (total = 0 \/ \E v \in SourceVersions : total = BlocksOf[v])
  BY VersionLength DEF Opening, DownloadInv, DownloadTypeOK
<1>5. DownloadTypeOK'
  BY <1>2, <1>3, <1>4 DEF DownloadInv, DownloadTypeOK
<1> HIDE DEF x
<1>6. PresentIsACopy'
  BY <1>2 DEF PresentIsACopy
<1>7. ASSUME "overlap" \notin upsets'
      PROVE  /\ OneLoader' /\ NoneAfter' /\ LoadersOK' /\ BlocksInOrder'
             /\ \A q \in Downloaders \ {p} : loader'[q] = loader[q] /\ loader[q].at = "out"
  <2>1. \A q \in Downloaders : ~Busy(q)
    BY <1>2, <1>7 DEF Busy, Loading
  <2>2. \A q \in Downloaders \ {p} : loader'[q] = loader[q] /\ loader[q].at = "out"
    BY <1>3, <2>1 DEF Busy, DownloadInv, DownloadTypeOK
  <2>3. OneLoader' /\ NoneAfter'
    BY <1>2, <2>2 DEF OneLoader, NoneAfter, Busy
  <2>4. LoaderOK(x)'
    BY <1>3, <1>4 DEF LoaderOK, FileSteps
  <2>5. LoadersOK'
    BY <1>3, <2>2, <2>4 DEF LoadersOK, LoaderOK, FileSteps
  <2>6. BlocksInOrder'
    BY <1>2, <1>7 DEF DownloadInv, BlocksInOrder
  <2> QED
    BY <2>2, <2>3, <2>5, <2>6
<1>8. ASSUME upsets' = {} PROVE OneVersion'
  <2>1. upsets = {} /\ "overlap" \notin upsets'
    BY <1>2, <1>8
  <2> QED
    BY <1>1, <1>2, <1>3, <1>7, <2>1 DEF DownloadInv, OneVersion, Current
<1> QED
  BY <1>5, <1>6, <1>7, <1>8 DEF DownloadInv

\* A new file is empty, and no other is touched.
LEMMA MakeFile ==
  ASSUME DownloadTypeOK, Make
  PROVE  /\ Len(content') = Len(content) + 1 /\ part' = Len(content') /\ part' \in Nat \ {0}
         /\ content' \in Seq(Seq(Blocks)) /\ Len(content'[part']) = 0
         /\ \A f \in 1..Len(content) : content'[f] = content[f]
BY DEF Make, DownloadTypeOK

\* A partial file that is not too long is gone on with; any other gives way to an empty one.
LEMMA OpenStep == ASSUME DownloadInv, NEW p \in Downloaders, OpenPartial(p) PROVE DownloadInv'
<1>0. PICK total : total = loader[p].total
  OBVIOUS
<1>1. /\ loader[p] \in Opening /\ Busy(p) /\ total \in Nat /\ UNCHANGED <<remote, dest, upsets>>
  BY <1>0, LoaderKinds DEF OpenPartial, DownloadInv, Opening
<1>2. Fetch(total, part', 0) = [at |-> "fetch", total |-> total, file |-> part', start |-> 0, end |-> 0, of |-> 0]
  BY DEF Fetch
<1>3. CASE 0 < (IF part = 0 THEN 0 ELSE Size(part)) /\ (IF part = 0 THEN 0 ELSE Size(part)) <= total
  <2>0. PICK x : x = [at |-> "fetch", total |-> total, file |-> part, start |-> Size(part), end |-> 0, of |-> 0]
    OBVIOUS
  <2>1. part # 0 /\ Move(p, x) /\ UNCHANGED <<content, part>>
    BY <1>0, <1>3, <2>0 DEF OpenPartial, Fetch
  <2>2. part \in 1..Len(content) /\ part \in Nat /\ Size(part) \in Nat
    BY <2>1, FileType DEF DownloadInv, DownloadTypeOK
  <2>3. x \in Filling
    BY <1>1, <2>0, <2>2 DEF Filling, FileSteps
  <2>4. /\ x.at = "fetch" /\ x.total = total /\ x.file = part /\ x.start = Size(part)
    BY <2>0
  <2>5. DownloadTypeOK'
    BY <1>1, <2>1, <2>3 DEF Move, DownloadInv, DownloadTypeOK
  <2>6. "overlap" \notin upsets => LoaderOK(x)' /\ BlocksInOrder'
    <3> SUFFICES ASSUME "overlap" \notin upsets PROVE LoaderOK(x)' /\ BlocksInOrder'
      OBVIOUS
    <3>1. LoaderOK(loader[p]) /\ BlocksInOrder
      BY DEF DownloadInv, LoadersOK
    <3>0. total = 0 \/ \E v \in SourceVersions : total = BlocksOf[v]
      BY <1>0, <1>1, <3>1 DEF LoaderOK, Busy
    <3>2. Size(part)' = Size(part)
      BY <2>1 DEF Size
    <3> QED
      BY <1>1, <1>3, <2>1, <2>2, <2>4, <3>0, <3>1, <3>2 DEF LoaderOK, BlocksInOrder, FileSteps
  <2>7. upsets' = {} => /\ Current(x)'
                        /\ part' # 0 => \A k \in 1..Len(content'[part']) : content'[part'][k].of = remote'
    BY <1>0, <1>1, <2>1, <2>4 DEF DownloadInv, OneVersion, Current, Busy
  <2> QED
    BY <1>1, <2>1, <2>5, <2>6, <2>7, MovedInv
<1>4. CASE ~(0 < (IF part = 0 THEN 0 ELSE Size(part)) /\ (IF part = 0 THEN 0 ELSE Size(part)) <= total)
  <2>0. PICK x : x = [at |-> "fetch", total |-> total, file |-> part', start |-> 0, end |-> 0, of |-> 0]
    OBVIOUS
  <2>1. Move(p, x) /\ ((part # 0 /\ Truncate(part)) \/ Make)
    BY <1>0, <1>2, <1>4, <2>0 DEF OpenPartial
  <2>2. /\ content' \in Seq(Seq(Blocks)) /\ part' \in 1..Len(content') /\ Len(content'[part']) = 0
        /\ Len(content) <= Len(content')
        /\ \A f \in 1..Len(content') : f = part' \/ (f \in 1..Len(content) /\ content'[f] = content[f])
    <3>1. Len(content) \in Nat /\ content \in Seq(Seq(Blocks)) /\ part \in 0..Len(content)
      BY DEF DownloadInv, DownloadTypeOK
    <3>2. CASE part # 0 /\ Truncate(part)
      <4>1. part \in 1..Len(content) /\ part' = part /\ content' = [content EXCEPT ![part] = <<>>]
        BY <3>1, <3>2 DEF Truncate
      <4>2. content' \in Seq(Seq(Blocks)) /\ Len(content') = Len(content) /\ content'[part] = <<>>
        BY <3>1, <4>1
      <4>3. \A f \in 1..Len(content) : f = part \/ content'[f] = content[f]
        BY <3>1, <4>1
      <4>4. Len(content'[part']) = 0
        BY <4>1, <4>2
      <4>5. \A f \in 1..Len(content') : f = part' \/ (f \in 1..Len(content) /\ content'[f] = content[f])
        BY <4>1, <4>2, <4>3
      <4> QED
        BY <3>1, <4>1, <4>2, <4>4, <4>5
    <3>3. CASE Make
      <4>1. /\ Len(content') = Len(content) + 1 /\ part' = Len(content')
            /\ content' \in Seq(Seq(Blocks)) /\ Len(content'[part']) = 0
            /\ \A f \in 1..Len(content) : content'[f] = content[f]
        BY <3>3, MakeFile DEF DownloadInv
      <4>2. \A f \in 1..Len(content') : f = part' \/ f \in 1..Len(content)
        <5>1. Len(content) \in Nat /\ Len(content') = Len(content) + 1 /\ part' = Len(content) + 1
          BY <3>1, <4>1
        <5>2. \A f \in 1..(Len(content) + 1) : f = Len(content) + 1 \/ f \in 1..Len(content)
          BY <5>1
        <5> QED
          BY ONLY <5>1, <5>2
      <4>3. \A f \in 1..Len(content') : f = part' \/ (f \in 1..Len(content) /\ content'[f] = content[f])
        BY <4>1, <4>2
      <4>4. part' \in 1..Len(content') /\ Len(content) <= Len(content')
        BY <3>1, <4>1
      <4> QED
        BY <4>1, <4>3, <4>4
    <3> QED
      BY <2>1, <3>2, <3>3
  <2>3. x \in Filling
    BY <1>1, <2>0, <2>2 DEF Filling, FileSteps
  <2>4. /\ x.at = "fetch" /\ x.total = total /\ x.file = part' /\ x.start = 0
    BY <2>0
  <2>5. DownloadTypeOK'
    <3>1. loader' \in [Downloaders -> {NotLoading} \cup Opening \cup Filling]
      BY <2>1, <2>3, LoaderMoves DEF DownloadInv
    <3>2. /\ Len(content) \in Nat /\ Len(content') \in Nat /\ Len(content) <= Len(content')
          /\ dest \in 0..Len(content) /\ part' \in 1..Len(content')
      BY <2>2 DEF DownloadInv, DownloadTypeOK
    <3>3. dest' \in 0..Len(content') /\ part' \in 0..Len(content')
      BY <1>1, <3>2
    <3> QED
      BY <1>1, <2>2, <3>1, <3>3 DEF DownloadInv, DownloadTypeOK
  <2>6. "overlap" \notin upsets => LoaderOK(x)' /\ BlocksInOrder'
    <3> SUFFICES ASSUME "overlap" \notin upsets PROVE LoaderOK(x)' /\ BlocksInOrder'
      OBVIOUS
    <3>1. LoaderOK(loader[p]) /\ BlocksInOrder
      BY DEF DownloadInv, LoadersOK
    <3>0. total = 0 \/ \E v \in SourceVersions : total = BlocksOf[v]
      BY <1>0, <1>1, <3>1 DEF LoaderOK, Busy
    <3>2. Size(part)' = 0
      BY <2>2 DEF Size
    <3>3. BlocksInOrder'
      <4> SUFFICES ASSUME NEW f \in 1..Len(content') PROVE \A k \in 1..Len(content'[f]) : content'[f][k].at = k
        BY DEF BlocksInOrder
      <4>1. CASE f = part'
        BY <2>2, <4>1
      <4>2. CASE f \in 1..Len(content) /\ content'[f] = content[f]
        BY <3>1, <4>2 DEF BlocksInOrder
      <4> QED
        BY <2>2, <4>1, <4>2
    <3> QED
      BY <1>1, <2>2, <2>4, <3>0, <3>2, <3>3 DEF LoaderOK, FileSteps
  <2>7. upsets' = {} => /\ Current(x)'
                        /\ part' # 0 => \A k \in 1..Len(content'[part']) : content'[part'][k].of = remote'
    BY <1>0, <1>1, <2>2, <2>4 DEF DownloadInv, OneVersion, Current, Busy
  <2> QED
    BY <1>1, <2>1, <2>5, <2>6, <2>7, MovedInv
<1> QED
  BY <1>3, <1>4
\* Going to another step with the same record, or out, over the same files.
LEMMA SameFiles ==
  ASSUME DownloadInv, NEW p \in Downloaders, Busy(p), NEW x \in {NotLoading} \cup Opening \cup Filling,
         Move(p, x), UNCHANGED <<remote, content, part, dest>>,
         upsets \subseteq upsets', upsets' \subseteq upsets \cup {"truncation"},
         "overlap" \notin upsets => LoaderOK(x)',
         upsets' = {} => Current(x)'
  PROVE  DownloadInv'
<1>1. DownloadTypeOK'
  BY DEF DownloadInv, DownloadTypeOK, Move
<1>2. "overlap" \notin upsets => BlocksInOrder'
  BY DEF DownloadInv, BlocksInOrder
<1>3. upsets' = {} => (part' # 0 => \A k \in 1..Len(content'[part']) : content'[part'][k].of = remote')
  BY DEF DownloadInv, OneVersion
<1> QED
  BY <1>1, <1>2, <1>3, MovedInv

\* Who leaves needs nothing.
LEMMA OutIsFine == LoaderOK(NotLoading)' /\ Current(NotLoading)'
BY DEF LoaderOK, Current, NotLoading, FileSteps

LEMMA BreakStep == ASSUME DownloadInv, NEW p \in Downloaders, BreakOff(p) PROVE DownloadInv'
BY LoaderKinds, SameFiles, OutIsFine DEF BreakOff, DownloadInv

\* A request is answered from the version there is.
LEMMA RequestStep == ASSUME DownloadInv, NEW p \in Downloaders, Request(p) PROVE DownloadInv'
<1>1. PICK l : l = loader[p]
  OBVIOUS
<1>2. /\ l \in Filling /\ l.at = "fetch" /\ Busy(p) /\ UNCHANGED <<remote, content, part, dest, upsets>>
      /\ l.total \in Nat /\ l.start \in Nat /\ remote \in SourceVersions /\ BlocksOf[remote] \in Nat \ {0}
  BY <1>1, LoaderKinds, VersionLength
     DEF Request, DownloadInv, DownloadTypeOK, Loading, Filling, FileSteps
<1>3. PICK end : end = IF l.total = 0 THEN BlocksOf[remote]
                       ELSE IF l.start + Span < l.total THEN l.start + Span ELSE l.total
  OBVIOUS
<1>4. end \in Nat
  BY <1>2, <1>3, DownloadAssumption DEF DownloadAssumption
<1>5. \/ l.total > 0 /\ Move(p, [l EXCEPT !.at = "check"])
      \/ Move(p, NotLoading)
      \/ Move(p, [l EXCEPT !.at = "body", !.end = end, !.of = remote])
  BY <1>1, <1>3 DEF Request
<1>6. /\ "overlap" \notin upsets => LoaderOK(l)
      /\ upsets = {} => Current(l)
  BY <1>1 DEF DownloadInv, LoadersOK, OneVersion
<1>7. CASE l.total > 0 /\ Move(p, [l EXCEPT !.at = "check"])
  <2>1. PICK x : x = [l EXCEPT !.at = "check"]
    OBVIOUS
  <2>2. /\ x \in Filling /\ x.at = "check" /\ x.total = l.total /\ x.file = l.file /\ x.start = l.start
    BY <1>2, <2>1, StepFields DEF FileSteps
  <2>3. "overlap" \notin upsets => LoaderOK(x)'
    BY <1>2, <1>6, <1>7, <2>2 DEF LoaderOK, FileSteps, Size
  <2>4. upsets' = {} => Current(x)'
    BY <1>2, <1>6, <2>2 DEF Current
  <2> QED
    BY <1>2, <1>7, <2>1, <2>2, <2>3, <2>4, SameFiles
<1>8. CASE Move(p, NotLoading)
  BY <1>2, <1>8, SameFiles, OutIsFine
<1>9. CASE Move(p, [l EXCEPT !.at = "body", !.end = end, !.of = remote])
  <2>1. PICK x : x = [l EXCEPT !.at = "body", !.end = end, !.of = remote]
    OBVIOUS
  <2>2. /\ x \in Filling /\ x.at = "body" /\ x.end = end /\ x.of = remote
        /\ x.total = l.total /\ x.file = l.file /\ x.start = l.start
    <3>1. remote \in Nat
      BY <1>2, DownloadAssumption DEF DownloadAssumption, SourceVersions
    <3>2. PICK v \in Nat : v = remote
      BY <3>1
    <3> DEFINE a == [l EXCEPT !.at = "body"]
               b == [a EXCEPT !.end = end]
    <3>3. x = [b EXCEPT !.of = v]
      BY <2>1, <3>2
    <3>4. a \in Filling /\ a.at = "body" /\ a.total = l.total /\ a.file = l.file /\ a.start = l.start
      BY <1>2, StepFields DEF FileSteps
    <3> HIDE DEF a
    <3>5. /\ b \in Filling /\ b.at = "body" /\ b.end = end
          /\ b.total = l.total /\ b.file = l.file /\ b.start = l.start
      BY <1>4, <3>4 DEF Filling
    <3> HIDE DEF b
    <3> QED
      BY <3>2, <3>3, <3>5 DEF Filling
  <2>3. "overlap" \notin upsets => LoaderOK(x)'
    BY <1>2, <1>3, <1>6, <2>2 DEF LoaderOK, FileSteps, Size
  <2>4. upsets' = {} => Current(x)'
    BY <1>2, <1>6, <2>2 DEF Current
  <2> QED
    BY <1>2, <1>9, <2>1, <2>2, <2>3, <2>4, SameFiles
<1> QED
  BY <1>5, <1>7, <1>8, <1>9

\* The end of an answer: an early one without a length is an upset.
LEMMA BodyStep == ASSUME DownloadInv, NEW p \in Downloaders, BodyEnds(p) PROVE DownloadInv'
<1>1. PICK l : l = loader[p]
  OBVIOUS
<1>2. /\ l \in Filling /\ l.at = "body" /\ Busy(p) /\ UNCHANGED <<remote, content, part, dest>>
      /\ l.total \in Nat /\ l.start \in Nat /\ l.end \in Nat
  BY <1>1, LoaderKinds DEF BodyEnds, DownloadInv, Loading, Filling, FileSteps
<1>3. /\ Move(p, AfterBody(l))
      /\ upsets' = upsets \cup {u \in {"truncation"} :
                       l.start < l.end /\ l.start < BlocksOf[l.of] /\ l.total = 0}
  BY <1>1 DEF BodyEnds
<1>4. upsets \subseteq upsets' /\ upsets' \subseteq upsets \cup {"truncation"}
  BY <1>3
<1>5. /\ "overlap" \notin upsets => LoaderOK(l)
      /\ upsets' = {} => Current(l)
  BY <1>1, <1>4 DEF DownloadInv, LoadersOK, OneVersion
<1>6. CASE l.total = 0
  <2>1. PICK x : x = [l EXCEPT !.at = "rename"]
    OBVIOUS
  <2>2. /\ x \in Filling /\ x.at = "rename" /\ x.total = 0 /\ x.file = l.file /\ x.start = l.start
        /\ x.of = l.of /\ Move(p, x)
    BY <1>2, <1>3, <1>6, <2>1, StepFields DEF FileSteps, AfterBody
  <2>3. ASSUME "overlap" \notin upsets PROVE LoaderOK(x)'
    <3>1. l.of \in SourceVersions /\ l.end = BlocksOf[l.of] /\ l.start <= l.end /\ BlocksOf[l.of] \in Nat
      BY <1>2, <1>5, <1>6, <2>3, VersionLength DEF LoaderOK
    <3>2. "truncation" \notin upsets' => l.start = BlocksOf[l.of]
      BY <1>2, <1>3, <1>6, <3>1
    <3>3. part # 0 /\ l.file = part /\ Size(part) = l.start
      BY <1>2, <1>5, <2>3 DEF LoaderOK, FileSteps
    <3> QED
      BY <1>2, <2>2, <3>1, <3>2, <3>3 DEF LoaderOK, FileSteps, Size
  <2>4. upsets' = {} => Current(x)'
    BY <1>2, <1>5, <2>2 DEF Current
  <2> QED
    BY <1>2, <1>4, <2>2, <2>3, <2>4, SameFiles
<1>7. CASE l.total # 0 /\ l.start < l.end
  BY <1>2, <1>3, <1>4, <1>7, SameFiles, OutIsFine DEF AfterBody
<1>8. CASE l.total # 0 /\ ~(l.start < l.end)
  <2>1. PICK x : x = [l EXCEPT !.at = "fetch"]
    OBVIOUS
  <2>2. /\ x \in Filling /\ x.at = "fetch" /\ x.total = l.total /\ x.file = l.file /\ x.start = l.start
        /\ Move(p, x)
    BY <1>2, <1>3, <1>8, <2>1, StepFields DEF FileSteps, AfterBody
  <2>3. "overlap" \notin upsets => LoaderOK(x)'
    BY <1>2, <1>5, <1>8, <2>2 DEF LoaderOK, FileSteps, Size
  <2>4. upsets' = {} => Current(x)'
    BY <1>2, <1>5, <2>2 DEF Current
  <2> QED
    BY <1>2, <1>4, <2>2, <2>3, <2>4, SameFiles
<1> QED
  BY <1>6, <1>7, <1>8
\* A block goes to the end of the open file, of which the process knows the length.
LEMMA WriteStep == ASSUME DownloadInv, NEW p \in Downloaders, WriteBlock(p) PROVE DownloadInv'
<1>1. PICK l : l = loader[p]
  OBVIOUS
<1>2. /\ l \in Filling /\ l.at = "body" /\ Busy(p) /\ UNCHANGED <<remote, part, dest, upsets>>
      /\ l.total \in Nat /\ l.start \in Nat /\ l.end \in Nat /\ l.of \in Nat /\ l.start < l.end
  BY <1>1, LoaderKinds DEF WriteBlock, DownloadInv, Loading, Filling, FileSteps
<1>0. PICK block : block = [of |-> l.of, at |-> l.start + 1]
  OBVIOUS
<1>3. block \in Blocks /\ block.of = l.of /\ block.at = l.start + 1
  BY <1>0, <1>2 DEF Blocks
<1>4. content' = [content EXCEPT ![l.file] = Append(@, block)]
  BY <1>0, <1>1 DEF WriteBlock
<1>5. PICK x : x = [l EXCEPT !.start = l.start + 1]
  OBVIOUS
<1>6. /\ x \in Filling /\ x.at = "body" /\ x.total = l.total /\ x.file = l.file
      /\ x.start = l.start + 1 /\ x.end = l.end /\ x.of = l.of
  BY <1>2, <1>5 DEF Filling
<1>7. Move(p, x)
  BY <1>1, <1>5 DEF WriteBlock
<1>8. content \in Seq(Seq(Blocks)) /\ part \in 0..Len(content)
  BY DEF DownloadInv, DownloadTypeOK
<1>9. content' \in Seq(Seq(Blocks)) /\ Len(content') = Len(content)
  <2>1. \A f \in 1..Len(content) : Append(content[f], block) \in Seq(Blocks)
    BY <1>3, <1>8
  <2>2. CASE l.file \in 1..Len(content)
    <3>1. PICK longer \in Seq(Blocks) : longer = Append(content[l.file], block)
      BY <2>1, <2>2
    <3>2. content' = [content EXCEPT ![l.file] = longer]
      BY <1>4, <1>8, <2>2, <3>1
    <3> QED
      BY <1>8, <2>2, <3>1, <3>2
  <2>3. CASE l.file \notin 1..Len(content)
    <3>1. PICK w : content' = [content EXCEPT ![l.file] = w]
      BY <1>4
    <3>2. content = [f \in 1..Len(content) |-> content[f]]
      BY <1>8
    <3>3. content' = [f \in 1..Len(content) |-> IF f = l.file THEN w ELSE content[f]]
      <4>1. content' = [f \in DOMAIN content |-> IF f = l.file THEN w ELSE content[f]]
        BY <3>1, Zenon
      <4> QED
        BY <1>8, <4>1
    <3>4. \A f \in 1..Len(content) : (IF f = l.file THEN w ELSE content[f]) = content[f]
      BY <2>3
    <3>5. content' = content
      BY <3>2, <3>3, <3>4
    <3> QED
      BY <1>8, <3>5
  <2> QED
    BY <2>2, <2>3
<1>10. DownloadTypeOK'
  BY <1>2, <1>6, <1>7, <1>9 DEF Move, DownloadInv, DownloadTypeOK
<1>11. ASSUME "overlap" \notin upsets
       PROVE  /\ part \in 1..Len(content) /\ l.file = part /\ LoaderOK(l) /\ BlocksInOrder
              /\ content'[part] = Append(content[part], block) /\ content[part] \in Seq(Blocks)
              /\ Len(content[part]) = l.start
              /\ \A f \in 1..Len(content) : f # part => content'[f] = content[f]
  <2>1. LoaderOK(l) /\ BlocksInOrder
    BY <1>1, <1>11 DEF DownloadInv, LoadersOK
  <2>2. part # 0 /\ l.file = part /\ Len(content[part]) = l.start
    BY <1>2, <2>1 DEF LoaderOK, FileSteps, Size
  <2>3. part \in 1..Len(content)
    BY <1>8, <2>2
  <2>4. content[part] \in Seq(Blocks) /\ content'[part] = Append(content[part], block)
    BY <1>4, <1>8, <2>2, <2>3
  <2>5. \A f \in 1..Len(content) : f # part => content'[f] = content[f]
    BY <1>4, <1>8, <2>2
  <2> QED
    BY <2>1, <2>2, <2>3, <2>4, <2>5
<1>12. ASSUME "overlap" \notin upsets PROVE LoaderOK(x)' /\ BlocksInOrder'
  <2>1. Size(part)' = l.start + 1
    BY <1>2, <1>11, <1>12 DEF Size
  <2>2. LoaderOK(x)'
    BY <1>2, <1>6, <1>11, <1>12, <2>1 DEF LoaderOK, FileSteps
  <2>3. BlocksInOrder'
    <3> SUFFICES ASSUME NEW f \in 1..Len(content), NEW k \in 1..Len(content'[f])
                 PROVE  content'[f][k].at = k
      BY <1>9 DEF BlocksInOrder
    <3>1. CASE f # part
      BY <1>11, <1>12, <3>1 DEF BlocksInOrder
    <3>2. CASE f = part /\ k \in 1..l.start
      <4>1. /\ content'[part] = Append(content[part], block) /\ content[part] \in Seq(Blocks)
            /\ Len(content[part]) = l.start /\ part \in 1..Len(content) /\ BlocksInOrder
        BY <1>11, <1>12
      <4>2. content'[part][k] = content[part][k] /\ k \in 1..Len(content[part])
        BY <3>2, <4>1
      <4> QED
        BY <3>2, <4>1, <4>2 DEF BlocksInOrder
    <3>3. CASE f = part /\ k = l.start + 1
      BY <1>2, <1>3, <1>11, <1>12, <3>3
    <3>4. f = part => k \in 1..l.start \/ k = l.start + 1
      BY <1>2, <1>11, <1>12
    <3> QED
      BY <3>1, <3>2, <3>3, <3>4
  <2> QED
    BY <2>2, <2>3
<1>13. ASSUME upsets' = {}
       PROVE  Current(x)' /\ (part' # 0 => \A k \in 1..Len(content'[part']) : content'[part'][k].of = remote')
  <2>1. "overlap" \notin upsets /\ upsets = {}
    BY <1>2, <1>13
  <2>2. Current(l) /\ \A k \in 1..Len(content[part]) : content[part][k].of = remote
    BY <1>1, <1>11, <2>1 DEF DownloadInv, OneVersion
  <2>3. Current(x)' /\ block.of = remote
    BY <1>2, <1>3, <1>6, <2>2 DEF Current
  <2>4. \A k \in 1..Len(content'[part]) : content'[part][k].of = remote
    <3> SUFFICES ASSUME NEW k \in 1..Len(content'[part]) PROVE content'[part][k].of = remote
      OBVIOUS
    <3>1. content'[part] = Append(content[part], block) /\ content[part] \in Seq(Blocks)
      BY <1>11, <2>1
    <3>2. CASE k \in 1..Len(content[part])
      BY <2>2, <3>1, <3>2
    <3>3. CASE k = Len(content[part]) + 1
      BY <2>3, <3>1, <3>3
    <3> QED
      BY <3>1, <3>2, <3>3
  <2> QED
    BY <1>2, <2>3, <2>4
<1> QED
  BY <1>2, <1>7, <1>10, <1>12, <1>13, MovedInv

\* The size is what was announced, or the download ends.
LEMMA CheckStep == ASSUME DownloadInv, NEW p \in Downloaders, CheckSize(p) PROVE DownloadInv'
<1>1. PICK l : l = loader[p]
  OBVIOUS
<1>2. /\ l \in Filling /\ l.at = "check" /\ Busy(p) /\ UNCHANGED <<remote, content, part, dest, upsets>>
  BY <1>1, LoaderKinds DEF CheckSize, DownloadInv, Loading, FileSteps
<1>3. /\ "overlap" \notin upsets => LoaderOK(l)
      /\ upsets = {} => Current(l)
  BY <1>1 DEF DownloadInv, LoadersOK, OneVersion
<1>4. CASE part # 0 /\ Size(part) = l.total
  <2>1. PICK x : x = [l EXCEPT !.at = "rename"]
    OBVIOUS
  <2>2. /\ x \in Filling /\ x.at = "rename" /\ x.total = l.total /\ x.file = l.file /\ x.start = l.start
        /\ Move(p, x)
    BY <1>1, <1>2, <1>4, <2>1, StepFields DEF FileSteps, CheckSize
  <2>3. "overlap" \notin upsets => LoaderOK(x)'
    BY <1>2, <1>3, <1>4, <2>2 DEF LoaderOK, FileSteps, Size
  <2>4. upsets' = {} => Current(x)'
    <3>1. upsets' = {} => "overlap" \notin upsets
      BY <1>2
    <3> QED
      BY <1>2, <1>3, <2>2, <3>1 DEF Current, LoaderOK
  <2> QED
    BY <1>2, <2>2, <2>3, <2>4, SameFiles
<1>5. CASE ~(part # 0 /\ Size(part) = l.total)
  <2>1. Move(p, NotLoading)
    BY <1>1, <1>5 DEF CheckSize
  <2> QED
    BY <1>2, <2>1, SameFiles, OutIsFine
<1> QED
  BY <1>4, <1>5

\* What is renamed is all of the file that was announced, or that was streamed to its end.
LEMMA RenameStep == ASSUME DownloadInv, NEW p \in Downloaders, Rename(p) PROVE DownloadInv'
<1>1. PICK l : l = loader[p]
  OBVIOUS
<1>2. /\ l \in Filling /\ l.at = "rename" /\ Busy(p) /\ UNCHANGED <<remote, content, upsets>>
      /\ l.total \in Nat /\ Move(p, NotLoading)
  BY <1>1, LoaderKinds DEF Rename, DownloadInv, Loading, Filling, FileSteps
<1>3. content \in Seq(Seq(Blocks)) /\ part \in 0..Len(content) /\ dest \in 0..Len(content)
  BY DEF DownloadInv, DownloadTypeOK
<1>4. (part = 0 /\ UNCHANGED <<part, dest>>) \/ (part # 0 /\ dest' = part /\ part' = 0)
  BY DEF Rename
<1>5. DownloadTypeOK'
  BY <1>2, <1>3, <1>4 DEF Move, DownloadInv, DownloadTypeOK
<1>6. ASSUME "overlap" \notin upsets
      PROVE  /\ OneLoader' /\ NoneAfter' /\ LoadersOK' /\ BlocksInOrder'
             /\ \A q \in Downloaders : loader'[q].at = "out"
  <2>1. /\ loader'[p] = NotLoading /\ OneLoader'
        /\ \A q \in Downloaders \ {p} : loader'[q] = loader[q] /\ loader[q].at = "out"
    BY <1>2, <1>6, Alone
  <2>2. \A q \in Downloaders : loader'[q].at = "out"
    BY <2>1 DEF NotLoading
  <2>3. part # 0
    BY <1>1, <1>2, <1>6 DEF DownloadInv, LoadersOK, LoaderOK, FileSteps
  <2>4. NoneAfter'
    BY <1>4, <2>2, <2>3 DEF NoneAfter, Busy
  <2>5. LoadersOK'
    BY <2>2 DEF LoadersOK, LoaderOK, FileSteps
  <2> QED
    BY <1>2, <1>6, <2>1, <2>2, <2>4, <2>5 DEF DownloadInv, BlocksInOrder
<1>7. ASSUME upsets' = {} PROVE OneVersion'
  <2>1. "overlap" \notin upsets /\ upsets = {}
    BY <1>2, <1>7
  <2>2. part' = 0
    BY <1>4
  <2> QED
    BY <1>6, <2>1, <2>2 DEF OneVersion, Current
<1>8. PresentIsACopy'
  <2> SUFFICES ASSUME upsets \subseteq {"change"}, dest' # 0 PROVE PresentIsACopy'
    BY <1>2 DEF PresentIsACopy
  <2>1. LoaderOK(l) /\ BlocksInOrder
    BY <1>1 DEF DownloadInv, LoadersOK
  <2>2. part # 0 /\ Size(part) = l.start /\ part \in 1..Len(content) /\ dest' = part
    BY <1>2, <1>3, <1>4, <2>1 DEF LoaderOK, FileSteps
  <2>3. /\ l.total = 0 => l.of \in SourceVersions /\ Size(part) = BlocksOf[l.of]
        /\ l.total # 0 => Size(part) = l.total /\ \E v \in SourceVersions : l.total = BlocksOf[v]
    BY <1>2, <2>1, <2>2 DEF LoaderOK
  <2>4. \A k \in 1..Size(part) : content[part][k].at = k
    BY <2>1, <2>2 DEF BlocksInOrder, Size
  <2>5. \E v \in SourceVersions : Size(part) = BlocksOf[v]
    BY <2>3
  <2>6. ASSUME upsets = {} PROVE content[part] = Copy(remote)
    <3>1. Current(l) /\ \A k \in 1..Len(content[part]) : content[part][k].of = remote
      BY <1>1, <2>2, <2>6 DEF DownloadInv, OneVersion
    <3>2. Size(part) = BlocksOf[remote] /\ Size(part) = Len(content[part])
      BY <1>2, <2>3, <3>1 DEF Current, Size
    <3>3. content[part] \in Seq(Blocks)
      BY <1>3, <2>2
    <3>4. \A k \in 1..Len(content[part]) : content[part][k] = [of |-> remote, at |-> k]
      <4> SUFFICES ASSUME NEW k \in 1..Len(content[part])
                   PROVE  content[part][k] = [of |-> remote, at |-> k]
        OBVIOUS
      <4>1. content[part][k] \in Blocks
        BY <3>3
      <4>2. content[part][k].of = remote /\ content[part][k].at = k
        BY <2>4, <3>1, <3>2
      <4> QED
        BY <4>1, <4>2 DEF Blocks
    <3> QED
      BY <3>2, <3>3, <3>4 DEF Copy
  <2>7. dest' = part /\ content' = content /\ upsets' = upsets /\ Size(dest)' = Size(part)
    BY <1>2, <2>2 DEF Size
  <2>8. remote \in SourceVersions
    BY DEF DownloadInv, DownloadTypeOK
  <2> QED
    BY <2>4, <2>5, <2>6, <2>7, <2>8 DEF PresentIsACopy, SourceVersions, Copy
<1> QED
  BY <1>2, <1>5, <1>6, <1>7, <1>8 DEF DownloadInv

\* The remote file is replaced: an upset for whoever has begun.
LEMMA PublishStep == ASSUME DownloadInv, Publish PROVE DownloadInv'
<1>1. /\ UNCHANGED <<content, part, dest, loader>> /\ upsets \subseteq upsets'
      /\ upsets' \subseteq upsets \cup {"change"}
      /\ upsets' = {} => part = 0 /\ \A p \in Downloaders : loader[p].at = "out"
  BY DEF Publish, Loading
<1>2. DownloadTypeOK'
  BY <1>1 DEF Publish, DownloadInv, DownloadTypeOK, SourceVersions
<1>3. "overlap" \notin upsets' => OneLoader' /\ NoneAfter' /\ BlocksInOrder'
  BY <1>1 DEF DownloadInv, OneLoader, NoneAfter, BlocksInOrder, Busy
<1>4. "overlap" \notin upsets' => LoadersOK'
  BY <1>1 DEF DownloadInv, LoadersOK, LoaderOK, Size
<1>5. upsets' = {} => OneVersion'
  BY <1>1 DEF OneVersion, Current
<1>6. PresentIsACopy'
  <2>1. \A f : Size(f)' = Size(f)
    BY <1>1 DEF Size
  <2> QED
    BY <1>1, <2>1 DEF DownloadInv, PresentIsACopy, Copy
<1> QED
  BY <1>2, <1>3, <1>4, <1>5, <1>6 DEF DownloadInv

\* The invariant, for any processes, versions, bounds and upsets.
THEOREM DownloadInvariant == DownloadSpec => []DownloadInv
<1>1. DownloadInv /\ UNCHANGED downloadVars => DownloadInv'
  BY DEF downloadVars, DownloadInv, DownloadTypeOK, OneLoader, NoneAfter, LoadersOK, LoaderOK, BlocksInOrder,
         OneVersion, Current, PresentIsACopy, Copy, Size, Busy
<1>2. DownloadInv /\ DownloadNext => DownloadInv'
  BY BeginStep, OpenStep, RequestStep, WriteStep, BodyStep, CheckStep, RenameStep, BreakStep, PublishStep
     DEF DownloadNext
<1> QED
  BY <1>1, <1>2, DownloadInitInv, PTL DEF DownloadSpec

\* A file that counts as present is a copy, or what is said of it when something was upset.
THEOREM DownloadPresentIsACopy == DownloadSpec => []PresentIsACopy
BY DownloadInvariant, PTL DEF DownloadInv

-----------------------------------------------------------------------------
(* The normalization of the release.                                       *)

Texts == Arguments \cup {"nothing", "partial"}
Payloads == [args : Arguments, run : Nat, parts : Seq(Texts)]
Manifests == [args : Arguments, run : Nat, parts : Seq(Texts), audit : {None} \cup Payloads, passed : BOOLEAN]
Checks == [of : Texts, holds : Texts]

DiskTypeOK ==
  disk \in [stage : Texts, checked : Texts, manifest : {None} \cup Manifests, sha : {None} \cup Manifests,
            part : [1..Parts -> Texts], check : [1..Parts -> Checks],
            replicated : {None} \cup Payloads, audited : {None} \cup Payloads]

EarlySteps == {"clear", "threads", "checkpoint"}
LateSteps == {"manifest", "replicate", "rewrite", "hash"}
JobSteps == EarlySteps \cup {"tables", "uncheck", "partition", "check"} \cup LateSteps
Jobs == [at : JobSteps, args : Arguments, resume : BOOLEAN, parts : Seq(Texts)]
JobTypeOK == runs \in Nat /\ (job = NoJob \/ job \in Jobs)

Closings == [at : {"declare", "verify"}, of : Manifests]
ClosingTypeOK == closing \in {NoJob, [at |-> "hash"]} \cup Closings

NormalizeTypeOK == DiskTypeOK /\ JobTypeOK /\ ClosingTypeOK

\* What an undisturbed run with these arguments writes into its partitions.
CleanParts(args) == [i \in 1..Parts |-> args]

\* From its checkpoint on, a run works on buckets of its own arguments.
BucketsAreOwn == job \in Jobs /\ job.at \notin {"clear", "threads"} => disk.stage = job.args
\* What a run has listed is clean, and complete when it comes to its manifest.
ListedClean ==
  job \in Jobs =>
    /\ \A i \in 1..Len(job.parts) : job.parts[i] = job.args
    /\ job.at \in EarlySteps \cup {"tables", "uncheck"} => job.parts = <<>>
    /\ job.at \in {"partition", "check"} => Len(job.parts) < Parts
    /\ job.at \in LateSteps => Len(job.parts) = Parts
\* A partition waits for its checkpoint as this run has written it.
PartitionClean == job \in Jobs /\ job.at = "check" => disk.part[Turn] = job.args
\* A checkpoint tells the truth of whoever has written it.
ChecksClean == \A i \in 1..Parts : disk.check[i].of = disk.check[i].holds
\* So is the manifest on the disk, and the one the finalize command holds.
ClosingClean == closing \in Closings => closing.of.parts = CleanParts(closing.of.args)
ManifestClean == disk.manifest # None => disk.manifest.parts = CleanParts(disk.manifest.args)

NormalizeInv ==
  /\ NormalizeTypeOK /\ BucketsAreOwn /\ ListedClean /\ PartitionClean
  /\ ChecksClean /\ ClosingClean /\ ManifestClean

\* An empty directory has nothing to say.
LEMMA NormalizeInitInv == NormalizeInit => NormalizeInv
<1> SUFFICES ASSUME NormalizeInit PROVE NormalizeInv
  OBVIOUS
<1> USE NormalizeAssumption DEF NormalizeAssumption, NormalizeInit
<1>1. NormalizeTypeOK
  BY DEF NormalizeTypeOK, DiskTypeOK, JobTypeOK, ClosingTypeOK, EmptyDisk, NoCheck, Texts, Checks
<1>2. job \notin Jobs /\ closing \notin Closings
  BY DEF NoJob, Jobs, Closings, JobSteps, EarlySteps, LateSteps
<1>3. ChecksClean /\ ManifestClean
  BY DEF ChecksClean, ManifestClean, EmptyDisk, NoCheck
<1> QED
  BY <1>1, <1>2, <1>3 DEF NormalizeInv, BucketsAreOwn, ListedClean, PartitionClean, ClosingClean

\* A run is never at "done" when it is one, and a finalize command at its hash holds none.
LEMMA Apart ==
  /\ NoJob \notin Jobs /\ NoJob \notin Closings /\ [at |-> "hash"] \notin Closings
  /\ None \notin Manifests /\ None \notin Payloads
<1>1. NoJob \notin Jobs
  BY DEF NoJob, Jobs, JobSteps, EarlySteps, LateSteps
<1>2. NoJob \notin Closings /\ [at |-> "hash"] \notin Closings
  BY DEF NoJob, Closings
<1>3. None \notin Manifests /\ None \notin Payloads
  <2>1. \A m \in Manifests \cup Payloads : DOMAIN m # {"run"}
    BY DEF Manifests, Payloads
  <2>2. DOMAIN None = {"run"}
    BY DEF None
  <2> QED
    BY <2>1, <2>2
<1> QED
  BY <1>1, <1>2, <1>3

\* The payload of a manifest is one.
LEMMA PayloadType == ASSUME NEW m \in Manifests PROVE Payload(m) \in Payloads
BY DEF Payload, Manifests, Payloads
\* A run that goes on is a run, with the same arguments and the same list.
LEMMA GoOn ==
  ASSUME NEW step \in JobSteps, job \in Jobs, Go(step)
  PROVE  /\ job' \in Jobs /\ job'.at = step /\ job'.args = job.args /\ job'.parts = job.parts
         /\ UNCHANGED <<closing, runs>>
BY DEF Go, Jobs

\* Who is at a step is a run.
LEMMA AtIsRun == ASSUME JobTypeOK, NEW step \in JobSteps, JobAt(step) PROVE job \in Jobs
BY DEF JobTypeOK, JobAt, NoJob, JobSteps, EarlySteps, LateSteps

\* The steps up to the thread checkpoint write no partition and no manifest.
LEMMA BucketStep ==
  NormalizeInv /\ (ClearBuckets \/ BucketThreadRows \/ ThreadCheckpoint) => NormalizeInv'
<1> SUFFICES ASSUME NormalizeInv, ClearBuckets \/ BucketThreadRows \/ ThreadCheckpoint
             PROVE  NormalizeInv'
  OBVIOUS
<1> USE DEF NormalizeInv, NormalizeTypeOK
<1>1. job \in Jobs
  BY AtIsRun DEF ClearBuckets, BucketThreadRows, ThreadCheckpoint, JobSteps, EarlySteps
<1>2. /\ job' \in Jobs /\ job'.args = job.args /\ job'.parts = job.parts
      /\ UNCHANGED <<closing, runs>> /\ job'.at \in {"threads", "checkpoint", "tables"}
  BY <1>1, GoOn DEF ClearBuckets, BucketThreadRows, ThreadCheckpoint, JobSteps, EarlySteps
<1>3. job.at \in EarlySteps
  BY DEF ClearBuckets, BucketThreadRows, ThreadCheckpoint, JobAt, EarlySteps
<1>4. job.args \in Arguments
  BY <1>1 DEF Jobs
<1>5. /\ disk'.manifest = disk.manifest /\ disk'.check = disk.check /\ disk'.part = disk.part
      /\ DiskTypeOK'
  BY <1>4 DEF ClearBuckets, BucketThreadRows, ThreadCheckpoint, Put, DiskTypeOK, Texts
<1>6. BucketsAreOwn'
  <2>1. CASE ClearBuckets
    BY <2>1, <1>1, GoOn DEF ClearBuckets, BucketsAreOwn, JobSteps, EarlySteps
  <2>2. CASE BucketThreadRows
    BY <2>2, <1>2 DEF BucketThreadRows, BucketsAreOwn, Put, DiskTypeOK
  <2>3. CASE ThreadCheckpoint
    BY <2>3, <1>1, <1>2 DEF ThreadCheckpoint, BucketsAreOwn, Put, JobAt, DiskTypeOK
  <2> QED
    BY <2>1, <2>2, <2>3
<1>7. ListedClean' /\ PartitionClean'
  BY <1>1, <1>2, <1>3 DEF ListedClean, PartitionClean, EarlySteps, LateSteps
<1>8. ChecksClean' /\ ClosingClean' /\ ManifestClean' /\ JobTypeOK' /\ ClosingTypeOK'
  BY <1>2, <1>5 DEF ChecksClean, ClosingClean, ManifestClean, JobTypeOK, ClosingTypeOK
<1> QED
  BY <1>5, <1>6, <1>7, <1>8

\* A run begins with an empty list; buckets it takes over are of its arguments.
LEMMA StartStep == NormalizeInv /\ StartRun => NormalizeInv'
<1> SUFFICES ASSUME NormalizeInv, StartRun PROVE NormalizeInv'
  OBVIOUS
<1> USE DEF NormalizeInv, NormalizeTypeOK
<1>1. PICK args \in Arguments, resume \in BOOLEAN :
        job' = [at |-> IF ThreadPassValid(args) THEN "tables" ELSE "clear",
                args |-> args, resume |-> resume, parts |-> <<>>]
  BY DEF StartRun
<1>2. job' \in Jobs
  BY <1>1 DEF Jobs, JobSteps, EarlySteps
<1>3. UNCHANGED <<disk, closing, runs>>
  BY DEF StartRun
<1>4. BucketsAreOwn' /\ ListedClean' /\ PartitionClean'
  BY <1>1, <1>3 DEF BucketsAreOwn, ListedClean, PartitionClean, ThreadPassValid, EarlySteps, LateSteps
<1> QED
  BY <1>2, <1>3, <1>4 DEF DiskTypeOK, JobTypeOK, ClosingTypeOK, ChecksClean, ClosingClean, ManifestClean

\* Removing tables or checkpoints leaves none that lies.
LEMMA RemoveStep == NormalizeInv /\ (RemoveTables \/ RemoveCheckpoints) => NormalizeInv'
<1> SUFFICES ASSUME NormalizeInv, RemoveTables \/ RemoveCheckpoints PROVE NormalizeInv'
  OBVIOUS
<1> USE NormalizeAssumption DEF NormalizeAssumption, NormalizeInv, NormalizeTypeOK
<1>1. job \in Jobs
  BY AtIsRun DEF RemoveTables, RemoveCheckpoints, JobSteps
<1>2. /\ job' \in Jobs /\ job'.args = job.args /\ job'.parts = job.parts
      /\ UNCHANGED <<closing, runs>> /\ job'.at \in {"uncheck", "partition"}
  BY <1>1, GoOn DEF RemoveTables, RemoveCheckpoints, JobSteps
<1>3. job.at \in {"tables", "uncheck"}
  BY DEF RemoveTables, RemoveCheckpoints, JobAt
<1>4. EmptyDisk.part \in [1..Parts -> Texts] /\ EmptyDisk.check \in [1..Parts -> Checks]
  BY DEF EmptyDisk, NoCheck, Texts, Checks
<1>5. /\ disk'.manifest = disk.manifest /\ disk'.stage = disk.stage /\ DiskTypeOK'
      /\ disk'.check \in {disk.check, EmptyDisk.check}
  BY <1>4 DEF RemoveTables, RemoveCheckpoints, Put, DiskTypeOK
<1>6. BucketsAreOwn' /\ PartitionClean'
  BY <1>1, <1>2, <1>3, <1>5 DEF BucketsAreOwn, PartitionClean
<1>7. ListedClean'
  BY <1>1, <1>2, <1>3 DEF ListedClean, EarlySteps, LateSteps
<1>8. ChecksClean'
  BY <1>5 DEF ChecksClean, EmptyDisk, NoCheck
<1>9. ClosingClean' /\ ManifestClean' /\ JobTypeOK' /\ ClosingTypeOK'
  BY <1>2, <1>5 DEF ClosingClean, ManifestClean, JobTypeOK, ClosingTypeOK
<1> QED
  BY <1>5, <1>6, <1>7, <1>8, <1>9
\* What is added to a clean list leaves it clean, and completes it at the last partition.
LEMMA ListGrows ==
  ASSUME NormalizeInv, job \in Jobs, job.at \in {"partition", "check"}, Done(job.args)
  PROVE  /\ job' \in Jobs /\ job'.args = job.args /\ job'.at \in {"partition", "manifest"}
         /\ ListedClean' /\ UNCHANGED <<closing, runs>>
<1> USE NormalizeAssumption DEF NormalizeAssumption, NormalizeInv, NormalizeTypeOK
<1>1. job.args \in Arguments /\ job.args \in Texts /\ job.parts \in Seq(Texts)
  BY DEF Jobs, Texts
<1>2. /\ job' = [job EXCEPT !.parts = Append(@, job.args), !.at = IF Turn = Parts THEN "manifest" ELSE "partition"]
      /\ UNCHANGED <<closing, runs>>
  BY DEF Done
<1>3. /\ job'.parts = Append(job.parts, job.args) /\ job'.args = job.args
      /\ job'.at = (IF Turn = Parts THEN "manifest" ELSE "partition")
      /\ job' \in Jobs
  <2> DEFINE longer == [job EXCEPT !.parts = Append(@, job.args)]
  <2>1. Append(job.parts, job.args) \in Seq(Texts)
    BY <1>1
  <2>2. longer \in Jobs /\ longer.parts = Append(job.parts, job.args) /\ longer.args = job.args
    BY <2>1 DEF Jobs
  <2>3. job' = [longer EXCEPT !.at = IF Turn = Parts THEN "manifest" ELSE "partition"]
    BY <1>2 DEF Jobs
  <2> HIDE DEF longer
  <2>4. (IF Turn = Parts THEN "manifest" ELSE "partition") \in JobSteps
    BY DEF JobSteps, LateSteps
  <2> QED
    BY <2>2, <2>3, <2>4 DEF Jobs
<1>4. Len(job'.parts) = Len(job.parts) + 1
  BY <1>1, <1>3
<1>5. Len(job.parts) < Parts /\ \A i \in 1..Len(job.parts) : job.parts[i] = job.args
  BY DEF ListedClean
<1>6. \A i \in 1..Len(job'.parts) : job'.parts[i] = job'.args
  BY <1>1, <1>3, <1>4, <1>5
<1>7. Len(job.parts) \in Nat
  BY <1>1
<1>8. ListedClean'
  BY <1>3, <1>4, <1>5, <1>6, <1>7 DEF ListedClean, Turn, EarlySteps, LateSteps
<1> QED
  BY <1>2, <1>3, <1>8

\* A partition is computed from the buckets of the run, or its checkpoint says it was once
\* computed with the same arguments.
LEMMA PartitionStep == NormalizeInv /\ (WritePartition \/ CheckPartition) => NormalizeInv'
<1> SUFFICES ASSUME NormalizeInv, WritePartition \/ CheckPartition PROVE NormalizeInv'
  OBVIOUS
<1> USE NormalizeAssumption DEF NormalizeAssumption, NormalizeInv, NormalizeTypeOK
<1>1. job \in Jobs /\ job.at \in {"partition", "check"}
  BY AtIsRun DEF WritePartition, CheckPartition, JobSteps, JobAt
<1>2. /\ job.args \in Arguments /\ job.args \in Texts /\ Turn \in 1..Parts
      /\ disk.stage = job.args
  BY <1>1 DEF Jobs, Texts, ListedClean, BucketsAreOwn, Turn
<1>3. CASE WritePartition /\ ~(job.resume /\ PartitionValid(job.args, Turn))
  <2>1. disk' = [disk EXCEPT !["part"] = [disk.part EXCEPT ![Turn] = job.args]] /\ Go("check")
    BY <1>2, <1>3 DEF WritePartition, Put
  <2>2. /\ job' \in Jobs /\ job'.args = job.args /\ job'.parts = job.parts
        /\ UNCHANGED <<closing, runs>> /\ job'.at = "check"
    BY <1>1, <2>1, GoOn DEF JobSteps
  <2>3. /\ disk'.manifest = disk.manifest /\ disk'.stage = disk.stage /\ DiskTypeOK'
        /\ disk'.check = disk.check /\ disk'.part[Turn] = job.args
    BY <1>2, <2>1 DEF DiskTypeOK
  <2>4. BucketsAreOwn' /\ PartitionClean' /\ ListedClean'
    BY <1>1, <1>2, <1>3, <2>2, <2>3
       DEF BucketsAreOwn, PartitionClean, ListedClean, Turn, EarlySteps, LateSteps, WritePartition, JobAt
  <2> QED
    BY <2>2, <2>3, <2>4 DEF JobTypeOK, ClosingTypeOK, ChecksClean, ClosingClean, ManifestClean
<1>4. CASE WritePartition /\ job.resume /\ PartitionValid(job.args, Turn)
  <2>1. disk.check[Turn].holds = job.args
    BY <1>2, <1>4 DEF PartitionValid, ChecksClean
  <2>2. UNCHANGED disk /\ Done(job.args)
    BY <1>4, <2>1 DEF WritePartition
  <2> QED
    BY <1>1, <1>2, <2>2, ListGrows
       DEF BucketsAreOwn, PartitionClean, DiskTypeOK, JobTypeOK, ClosingTypeOK, ChecksClean,
           ClosingClean, ManifestClean
<1>5. CASE CheckPartition
  <2>1. disk.part[Turn] = job.args
    BY <1>1, <1>5 DEF CheckPartition, JobAt, PartitionClean
  <2>2. /\ disk' = [disk EXCEPT !["check"] = [disk.check EXCEPT ![Turn] = [of |-> job.args, holds |-> job.args]]]
        /\ Done(job.args)
    BY <1>5, <2>1 DEF CheckPartition, Put
  <2>3. /\ disk'.manifest = disk.manifest /\ disk'.stage = disk.stage
        /\ disk'.part = disk.part /\ DiskTypeOK' /\ ChecksClean'
    BY <1>2, <2>2 DEF DiskTypeOK, Checks, ChecksClean
  <2>4. /\ job' \in Jobs /\ job'.args = job.args /\ job'.at \in {"partition", "manifest"}
        /\ ListedClean' /\ UNCHANGED <<closing, runs>>
    BY <1>1, <2>2, ListGrows
  <2> QED
    BY <1>2, <2>3, <2>4
       DEF BucketsAreOwn, PartitionClean, JobTypeOK, ClosingTypeOK, ClosingClean, ManifestClean
<1> QED
  BY <1>3, <1>4, <1>5

\* The manifest a run writes is what it listed.
LEMMA BareClean ==
  ASSUME NormalizeInv, job \in Jobs, job.at \in LateSteps, NEW n \in Nat
  PROVE  /\ Bare(n) \in Manifests /\ Payload(Bare(n)) \in Payloads
         /\ Bare(n).parts = CleanParts(Bare(n).args)
<1> USE DEF NormalizeInv, NormalizeTypeOK
<1>1. /\ job.args \in Arguments /\ job.parts \in Seq(Texts)
      /\ Len(job.parts) = Parts /\ \A i \in 1..Parts : job.parts[i] = job.args
  BY DEF Jobs, ListedClean, LateSteps, EarlySteps
<1>2. job.parts = CleanParts(job.args)
  BY <1>1 DEF CleanParts
<1>3. Bare(n) \in Manifests /\ Bare(n).parts = CleanParts(Bare(n).args)
  BY <1>1, <1>2 DEF Bare, Manifests
<1> QED
  BY <1>3, PayloadType

\* The manifest, its replication and its hash.
LEMMA ManifestStep ==
  NormalizeInv /\ (WriteManifest \/ Replicate \/ RewriteManifest \/ HashManifest) => NormalizeInv'
<1> SUFFICES ASSUME NormalizeInv, WriteManifest \/ Replicate \/ RewriteManifest \/ HashManifest
             PROVE  NormalizeInv'
  OBVIOUS
<1> USE DEF NormalizeInv, NormalizeTypeOK
<1>1. job \in Jobs /\ job.at \in LateSteps
  BY AtIsRun DEF WriteManifest, Replicate, RewriteManifest, HashManifest, JobSteps, LateSteps, JobAt
<1>2. /\ \/ job' = NoJob
         \/ job' \in Jobs /\ job'.args = job.args /\ job'.parts = job.parts /\ job'.at \in LateSteps
      /\ runs' \in Nat /\ UNCHANGED closing
  <2>1. CASE WriteManifest
    BY <1>1, <2>1 DEF WriteManifest, Jobs, LateSteps, JobSteps, JobTypeOK
  <2>2. CASE Replicate \/ RewriteManifest
    BY <1>1, <2>2, GoOn DEF Replicate, RewriteManifest, LateSteps, JobSteps, JobTypeOK
  <2>3. CASE HashManifest
    BY <2>3 DEF HashManifest, JobTypeOK
  <2> QED
    BY <2>1, <2>2, <2>3
<1>3. /\ disk'.stage = disk.stage /\ disk'.part = disk.part /\ disk'.check = disk.check
      /\ DiskTypeOK' /\ ManifestClean'
  <2>1. CASE WriteManifest
    <3>1. PICK m \in Manifests : m.parts = CleanParts(m.args) /\ disk' = [disk EXCEPT !["manifest"] = m]
      BY <1>1, <1>2, <2>1, BareClean DEF WriteManifest, Put
    <3> QED
      BY <3>1 DEF DiskTypeOK, ManifestClean
  <2>2. CASE Replicate
    <3>1. PICK load \in Payloads : disk' = [disk EXCEPT !["replicated"] = load]
      BY <1>1, <2>2, BareClean DEF Replicate, Put, JobTypeOK
    <3> QED
      BY <3>1 DEF DiskTypeOK, ManifestClean
  <2>3. CASE RewriteManifest
    <3>1. PICK m \in Manifests : m.parts = CleanParts(m.args) /\ disk' = [disk EXCEPT !["manifest"] = m]
      BY <1>1, <2>3, BareClean DEF RewriteManifest, Put, JobTypeOK
    <3> QED
      BY <3>1 DEF DiskTypeOK, ManifestClean
  <2>4. CASE HashManifest
    BY <2>4 DEF HashManifest, Put, DiskTypeOK, ManifestClean
  <2> QED
    BY <2>1, <2>2, <2>3, <2>4
<1>4. BucketsAreOwn' /\ PartitionClean' /\ ListedClean'
  BY <1>1, <1>2, <1>3, Apart DEF BucketsAreOwn, PartitionClean, ListedClean, LateSteps, EarlySteps
<1> QED
  BY <1>2, <1>3, <1>4 DEF JobTypeOK, ClosingTypeOK, ChecksClean, ClosingClean
\* The finalize command puts a manifest back that it has read, with the verdict changed.
LEMMA ClosingStep ==
  NormalizeInv /\ (BeginFinalize \/ DeclarePassed \/ VerifyPassed \/ HashFinal \/ StopFinalize)
    => NormalizeInv'
<1> SUFFICES ASSUME NormalizeInv,
                    BeginFinalize \/ DeclarePassed \/ VerifyPassed \/ HashFinal \/ StopFinalize
             PROVE  NormalizeInv'
  OBVIOUS
<1> USE DEF NormalizeInv, NormalizeTypeOK
<1>1. UNCHANGED <<job, runs>>
  BY DEF BeginFinalize, DeclarePassed, VerifyPassed, HashFinal, StopFinalize
<1>2. /\ disk'.stage = disk.stage /\ disk'.part = disk.part /\ disk'.check = disk.check
      /\ DiskTypeOK' /\ ManifestClean' /\ ClosingTypeOK' /\ ClosingClean'
  <2>1. CASE BeginFinalize
    <3> DEFINE m == [disk.manifest EXCEPT !.audit = disk.audited, !.passed = TRUE]
    <3>1. disk.manifest \in Manifests /\ disk.audited \in Payloads
      BY <2>1 DEF BeginFinalize, DiskTypeOK
    <3> DEFINE audited == [disk.manifest EXCEPT !.audit = disk.audited]
    <3>2. audited \in Manifests /\ audited.args = disk.manifest.args /\ audited.parts = disk.manifest.parts
      BY <3>1 DEF Manifests
    <3>3. m \in Manifests /\ m.args = disk.manifest.args /\ m.parts = disk.manifest.parts
      <4>1. m = [audited EXCEPT !.passed = TRUE]
        OBVIOUS
      <4> HIDE DEF m, audited
      <4> QED
        BY <3>2, <4>1 DEF Manifests
    <3>4. closing' = [at |-> "declare", of |-> m]
      BY <2>1 DEF BeginFinalize
    <3> HIDE DEF m
    <3>5. closing' \in Closings /\ closing'.of = m
      BY <3>3, <3>4 DEF Closings
    <3>6. disk.manifest.parts = CleanParts(disk.manifest.args)
      BY <2>1 DEF BeginFinalize, ManifestClean
    <3>7. disk' = [disk EXCEPT !["replicated"] = Payload(disk.manifest)]
      BY <2>1 DEF BeginFinalize, Put
    <3>8. /\ disk'.stage = disk.stage /\ disk'.part = disk.part /\ disk'.check = disk.check
          /\ DiskTypeOK' /\ disk'.manifest = disk.manifest
      BY <3>1, <3>7, PayloadType DEF DiskTypeOK
    <3> QED
      BY <3>3, <3>5, <3>6, <3>8 DEF ClosingTypeOK, ClosingClean, ManifestClean
  <2>2. CASE DeclarePassed
    <3>1. /\ closing \in Closings /\ closing' = [closing EXCEPT !.at = "verify"]
          /\ disk' = [disk EXCEPT !["manifest"] = closing.of]
      BY <2>2 DEF DeclarePassed, ClosingTypeOK, NoJob, Put
    <3>2. closing' \in Closings /\ closing'.of = closing.of /\ closing.of \in Manifests
      BY <3>1 DEF Closings
    <3> QED
      BY <3>1, <3>2 DEF DiskTypeOK, ClosingTypeOK, ClosingClean, ManifestClean
  <2>3. CASE VerifyPassed
    <3> DEFINE m == [closing.of EXCEPT !.passed = FALSE]
    <3>1. closing \in Closings /\ closing' = [at |-> "hash"]
      BY <2>3 DEF VerifyPassed, ClosingTypeOK, NoJob
    <3>2. closing.of \in Manifests
      BY <3>1 DEF Closings
    <3>3. m \in Manifests /\ m.args = closing.of.args /\ m.parts = closing.of.parts
      BY <3>2 DEF Manifests
    <3>4. disk' = disk \/ disk' = [disk EXCEPT !["manifest"] = m]
      BY <2>3 DEF VerifyPassed, Put
    <3> HIDE DEF m
    <3>5. closing.of.parts = CleanParts(closing.of.args)
      BY <3>1 DEF ClosingClean
    <3> QED
      BY <3>1, <3>3, <3>4, <3>5, Apart DEF DiskTypeOK, ClosingTypeOK, ClosingClean, ManifestClean
  <2>4. CASE HashFinal
    BY <2>4, Apart DEF HashFinal, Put, DiskTypeOK, ClosingTypeOK, ClosingClean, ManifestClean
  <2>5. CASE StopFinalize
    BY <2>5, Apart DEF StopFinalize, DiskTypeOK, ClosingTypeOK, ClosingClean, ManifestClean
  <2> QED
    BY <2>1, <2>2, <2>3, <2>4, <2>5
<1> QED
  BY <1>1, <1>2 DEF JobTypeOK, BucketsAreOwn, ListedClean, PartitionClean, ChecksClean, Turn

\* The auditor writes about the manifest and changes none; a run that stops leaves the disk.
LEMMA OtherStep == NormalizeInv /\ (Audit \/ StopRun \/ UNCHANGED normalizeVars) => NormalizeInv'
<1> SUFFICES ASSUME NormalizeInv, Audit \/ StopRun \/ UNCHANGED normalizeVars PROVE NormalizeInv'
  OBVIOUS
<1> USE DEF NormalizeInv, NormalizeTypeOK
<1>1. /\ disk'.stage = disk.stage /\ disk'.part = disk.part /\ disk'.check = disk.check
      /\ disk'.manifest = disk.manifest /\ DiskTypeOK'
  <2>1. CASE Audit
    <3>1. disk.manifest \in Manifests
      BY <2>1 DEF Audit, DiskTypeOK
    <3> QED
      BY <2>1, <3>1, PayloadType DEF Audit, Put, DiskTypeOK
  <2>2. CASE StopRun \/ UNCHANGED normalizeVars
    BY <2>2 DEF StopRun, normalizeVars, DiskTypeOK
  <2> QED
    BY <2>1, <2>2
<1>2. job' \in {job, NoJob} /\ UNCHANGED <<runs, closing>>
  BY DEF Audit, StopRun, normalizeVars
<1> QED
  BY <1>1, <1>2, Apart DEF JobTypeOK, ClosingTypeOK, BucketsAreOwn, ListedClean, PartitionClean,
     ChecksClean, ClosingClean, ManifestClean, Turn

\* The invariant, for any arguments, partitions, deaths and resumptions.
THEOREM NormalizeInvariant == NormalizeSpec => []NormalizeInv
<1>1. NormalizeInv /\ [NormalizeNext]_normalizeVars => NormalizeInv'
  BY BucketStep, StartStep, RemoveStep, PartitionStep, ManifestStep, ClosingStep, OtherStep
     DEF NormalizeNext
<1> QED
  BY <1>1, NormalizeInitInv, PTL DEF NormalizeSpec

\* A manifest on the disk is that of an undisturbed run.
THEOREM NormalizeManifestOfCleanRun == NormalizeSpec => []ManifestOfCleanRun
<1>1. NormalizeInv => ManifestOfCleanRun
  BY DEF NormalizeInv, ManifestClean, CleanParts, ManifestOfCleanRun
<1> QED
  BY <1>1, NormalizeInvariant, PTL

-----------------------------------------------------------------------------
(* The evidence of the publication.                                        *)

\* The hash in the audit of Table 1, if one was taken, is that of the database audited.
AuditHashed == table1 # Absent /\ table1.sha # Absent => table1.sha = table1.of

\* A manifest of eligibility is of the table beside it, unless a build was cut short between them; a
\* build that goes on is of the database there is, and so is what the report is about to be made of.
TableOfManifest == ~eligible.torn /\ eligible.manifest # Absent => eligible.manifest.bytes = Bytes(eligible.table)
TableOfDatabase ==
  /\ Running("eligibility manifest") => eligible.table = replica.sample
  /\ Running("report") /\ ~eligible.torn => Bytes(eligible.table) = Bytes(replica.sample)

EvidenceDomains == DOMAIN eligible = {"manifest", "table", "torn"} /\ "do" \in DOMAIN doing

EvidenceInv == EvidenceDomains /\ AuditHashed /\ TableOfManifest /\ TableOfDatabase /\ CompleteEvidence

LEMMA EvidenceInitInv == EvidenceInit => EvidenceInv
BY DEF EvidenceInit, EvidenceInv, EvidenceDomains, AuditHashed, TableOfManifest, TableOfDatabase, CompleteEvidence,
       Running, Idle

\* What a report that calls the replication complete has found when it is written.
LEMMA ReportOfEvidence ==
  ASSUME EvidenceInv, WriteReport PROVE CompleteEvidence'
<1>1. /\ report'.complete = Complete /\ report'.table1 = table1 /\ report'.artifacts = forensic.artifacts
      /\ report'.listings = listed /\ report'.eligible = eligible /\ report'.database = replica.sample
      /\ Running("report")
  BY DEF WriteReport
<1> SUFFICES ASSUME Complete
             PROVE  /\ table1.of = OfficialContent
                    /\ \A i \in DOMAIN forensic.artifacts : forensic.artifacts[i] # Absent
                    /\ listed.table = listed.manifest
                    /\ Bytes(replica.sample) = Bytes(OfficialContent)
                    /\ table1.sha # Absent => replica.sample = OfficialContent
                    /\ ~eligible.torn => Bytes(eligible.table) = Bytes(OfficialContent)
  BY <1>1 DEF CompleteEvidence, OfficialContent, Official, Content
<1>2. /\ table1 # Absent /\ table1.of = OfficialContent /\ Bytes(table1.of) = Bytes(replica.sample)
      /\ table1.sha # Absent => table1.sha = replica.sample
      /\ \A i \in DOMAIN forensic.artifacts : forensic.artifacts[i] # Absent
      /\ listed.table = listed.manifest
  BY DEF Complete, BindsToDatabase, ForensicValid, ListingValid
<1>3. table1.sha # Absent => table1.sha = table1.of
  BY <1>2 DEF EvidenceInv, AuditHashed
<1>4. ~eligible.torn => Bytes(eligible.table) = Bytes(replica.sample)
  BY <1>1 DEF EvidenceInv, TableOfDatabase
<1> QED
  BY <1>2, <1>3, <1>4

LEMMA EvidenceStep == EvidenceInv /\ [EvidenceNext]_evidenceVars => EvidenceInv'
<1> SUFFICES ASSUME EvidenceInv, [EvidenceNext]_evidenceVars PROVE EvidenceInv'
  OBVIOUS
<1> USE DEF EvidenceDomains
<1>1. CASE WriteReport
  <2>0. EvidenceDomains'
    BY <1>1 DEF WriteReport, Rest, EvidenceInv, Idle
  <2>1. AuditHashed' /\ TableOfManifest' /\ TableOfDatabase'
    BY <1>1 DEF WriteReport, Rest, EvidenceInv, AuditHashed, TableOfManifest, TableOfDatabase, Running, Idle
  <2> QED
    BY <1>1, <2>0, <2>1, ReportOfEvidence DEF EvidenceInv
<1>2. ASSUME report' = report PROVE CompleteEvidence'
  BY <1>2 DEF EvidenceInv, CompleteEvidence, OfficialContent, Official, Content
<1>3. CASE Finalize
  <2>0. /\ report' = report /\ table1' = table1 /\ replica' = replica /\ Running("nothing")
        /\ \/ EligibleReused /\ doing' = [do |-> "report"] /\ eligible' = eligible
           \/ /\ eligible' = [eligible EXCEPT !.table = replica.sample, !.torn = TRUE]
              /\ doing' = [do |-> "eligibility manifest"]
    BY <1>3 DEF Finalize, Rest
  <2>1. CASE EligibleReused /\ doing' = [do |-> "report"] /\ eligible' = eligible
    <3>1. eligible.manifest # Absent /\ eligible.manifest.bytes = Bytes(replica.sample)
      BY <2>1 DEF EligibleReused
    <3>2. TableOfDatabase'
      BY <2>0, <2>1, <3>1 DEF EvidenceInv, TableOfManifest, TableOfDatabase, Running
    <3>3. AuditHashed' /\ TableOfManifest' /\ EvidenceDomains'
      BY <2>0, <2>1 DEF EvidenceInv, AuditHashed, TableOfManifest
    <3> QED
      BY <1>2, <2>0, <3>2, <3>3 DEF EvidenceInv
  <2>2. CASE /\ eligible' = [eligible EXCEPT !.table = replica.sample, !.torn = TRUE]
             /\ doing' = [do |-> "eligibility manifest"]
    <3>1. eligible'.table = replica.sample /\ eligible'.torn /\ DOMAIN eligible' = DOMAIN eligible
      BY <2>2 DEF EvidenceInv
    <3>2. TableOfDatabase' /\ TableOfManifest'
      BY <2>0, <2>2, <3>1 DEF TableOfManifest, TableOfDatabase, Running
    <3>3. AuditHashed' /\ EvidenceDomains'
      BY <2>0, <2>2, <3>1 DEF EvidenceInv, AuditHashed
    <3> QED
      BY <1>2, <2>0, <3>2, <3>3 DEF EvidenceInv
  <2> QED
    BY <2>0, <2>1, <2>2
<1>4. CASE WriteEligibilityManifest
  BY <1>2, <1>4 DEF WriteEligibilityManifest, Rest, EvidenceInv, AuditHashed, TableOfManifest,
                    TableOfDatabase, Running
<1>5. CASE AuditTable1
  <2>1. UNCHANGED <<replica, eligible, report, doing>>
    BY <1>5 DEF AuditTable1, Rest
  <2>2. PICK hashed \in BOOLEAN :
          table1' = [of |-> replica.sample, sha |-> IF hashed THEN replica.sample ELSE Absent]
    BY <1>5 DEF AuditTable1
  <2>3. AuditHashed'
    BY <2>2 DEF AuditHashed
  <2>4. EvidenceDomains' /\ TableOfManifest' /\ TableOfDatabase'
    BY <2>1 DEF EvidenceInv, TableOfManifest, TableOfDatabase, Running
  <2> QED
    BY <1>2, <2>1, <2>3, <2>4 DEF EvidenceInv
<1>6. CASE \/ ReplaceSource \/ Normalize \/ DeleteBuckets \/ StartReplication \/ Checkpoint
           \/ RunReplication \/ RunForensics \/ PromoteForensics \/ RunListingPass \/ PromoteListings
           \/ CommandDies \/ UNCHANGED evidenceVars
  <2>1. UNCHANGED <<table1, eligible, report>>
    BY <1>6 DEF ReplaceSource, Normalize, DeleteBuckets, StartReplication, Checkpoint, RunReplication,
                RunPhase, Summarise, RunForensics, PromoteForensics, RunListingPass, PromoteListings,
                CommandDies, Rest, ReplicaOnly, evidenceVars
  <2>2. \/ doing' = doing
        \/ /\ doing'.do \in {"replicate", "checkpoint", "promote threads", "promote listings", "nothing"}
           /\ "do" \in DOMAIN doing'
    <3>0. "do" \in DOMAIN doing
      BY DEF EvidenceInv
    <3>1. CASE StartReplication \/ Checkpoint \/ RunReplication \/ CommandDies
      <4>1. doing' = doing \/ \E what \in {"replicate", "checkpoint", "nothing"} : doing' = [do |-> what]
        BY <3>1, Zenon DEF StartReplication, Checkpoint, RunReplication, RunPhase, Summarise, CommandDies, Idle
      <4>2. \A what : "do" \in DOMAIN [do |-> what] /\ [do |-> what].do = what
        OBVIOUS
      <4> QED
        BY <4>1, <4>2
    <3>2. CASE RunForensics \/ RunListingPass
      <4>1. \E found : \E what \in {"promote threads", "promote listings"} : doing' = [do |-> what, found |-> found, i |-> 1]
        BY <3>2, Zenon DEF RunForensics, RunListingPass
      <4>2. \A what, found : LET d == [do |-> what, found |-> found, i |-> 1] IN "do" \in DOMAIN d /\ d.do = what
        OBVIOUS
      <4> QED
        BY <4>1, <4>2
    <3>3. CASE PromoteForensics \/ PromoteListings
      <4>1. /\ doing.do \in {"promote threads", "promote listings"}
            /\ doing' = [do |-> "nothing"] \/ \E i : doing' = [doing EXCEPT !.i = i]
        BY <3>3, Zenon DEF PromoteForensics, PromoteListings, Running, Idle
      <4>2. "do" \in DOMAIN [do |-> "nothing"] /\ [do |-> "nothing"].do = "nothing"
        OBVIOUS
      <4>3. \A i : "do" \in DOMAIN [doing EXCEPT !.i = i] /\ [doing EXCEPT !.i = i].do = doing.do
        BY <3>0
      <4> QED
        BY <4>1, <4>2, <4>3
    <3> QED
      BY <1>6, <3>1, <3>2, <3>3, Zenon DEF ReplaceSource, Normalize, DeleteBuckets, evidenceVars
  <2>3. replica' = replica \/ doing.do \in {"nothing", "checkpoint", "replicate"}
    BY <1>6 DEF ReplaceSource, Normalize, DeleteBuckets, StartReplication, Checkpoint, RunReplication,
                RunPhase, Summarise, RunForensics, PromoteForensics, RunListingPass, PromoteListings,
                CommandDies, Rest, ReplicaOnly, evidenceVars, Running
  <2>4. EvidenceDomains' /\ TableOfManifest' /\ AuditHashed'
    BY <2>1, <2>2 DEF EvidenceInv, AuditHashed, TableOfManifest
  <2>5. TableOfDatabase'
    BY <2>1, <2>2, <2>3 DEF EvidenceInv, TableOfDatabase, Running
  <2> QED
    BY <1>2, <2>1, <2>4, <2>5 DEF EvidenceInv
<1> QED
  BY <1>1, <1>3, <1>4, <1>5, <1>6 DEF EvidenceNext

\* A report that calls the replication complete rests on the Table 1 of the official files and
\* on files of their size, whatever died or was replaced in between
\* (_deterministic_audit_checks, _gate_report, _eligibility_db_valid).
THEOREM EvidenceComplete == EvidenceSpec => []CompleteEvidence
<1>1. EvidenceInv => CompleteEvidence
  BY DEF EvidenceInv
<1> QED
  BY <1>1, EvidenceInitInv, EvidenceStep, PTL DEF EvidenceSpec

-----------------------------------------------------------------------------
(* The integration gate of benchmark v2.                                   *)

\* The best model of a board loses the least.
LEMMA BestFacts ==
  ASSUME NEW board \in [Models -> Nat], Models # {}
  PROVE  Best(board) \in Models /\ \A q \in Models : board[Best(board)] <= board[q]
<1> DEFINE losses == {board[m] : m \in Models}
<1>1. PICK l \in losses : \A k \in losses : l <= k
  <2>1. losses \subseteq Nat /\ losses # {}
    OBVIOUS
  <2> HIDE DEF losses
  <2> QED
    BY <2>1, LeastOf
<1> DEFINE ties == {m \in Models : board[m] = l}
<1>2. PICK b \in ties : \A m \in ties : b <= m
  <2>1. ties \subseteq Nat /\ ties # {}
    BY GateAssumption DEF GateAssumption
  <2> HIDE DEF ties
  <2> QED
    BY <2>1, LeastOf
<1> DEFINE Wins(m) == \A n \in Models \ {m} : board[m] < board[n] \/ (board[m] = board[n] /\ m < n)
<1>3. b \in Models /\ Wins(b)
  <2>1. b \in Models /\ board[b] = l /\ Models \subseteq Nat
    BY GateAssumption DEF GateAssumption
  <2> SUFFICES ASSUME NEW n \in Models \ {b} PROVE board[b] < board[n] \/ (board[b] = board[n] /\ b < n)
    BY <2>1
  <2>2. l <= board[n] /\ board[n] \in Nat /\ board[b] \in Nat
    BY <1>1, <2>1
  <2>3. board[n] = l => b <= n
    BY <1>2
  <2> QED
    BY <2>1, <2>2, <2>3
<1>4. DOMAIN board # {}
  OBVIOUS
<1>5. Best(board) = CHOOSE m \in Models : Wins(m)
  BY <1>4 DEF Best, Scored
<1>6. Best(board) \in Models /\ Wins(Best(board))
  <2> HIDE DEF Wins
  <2> QED
    BY <1>3, <1>5
<1> QED
  BY <1>6

\* The loss of the best baseline is the loss of one of them.
LEMMA BaselineFacts ==
  ASSUME NEW t \in Predicted, NEW board \in [Models -> Nat]
  PROVE  BaselineLoss(t, board) \in Nat
<1> DEFINE losses == {board[m] : m \in BaselinesOf[t]}
<1>1. losses \subseteq Nat /\ losses # {}
  <2>1. BaselinesOf[t] \subseteq Models /\ BaselinesOf[t] # {}
    BY GateAssumption DEF GateAssumption
  <2> QED
    BY <2>1
<1>2. PICK l \in losses : \A k \in losses : l <= k
  <2> HIDE DEF losses
  <2> QED
    BY <1>1, LeastOf
<1>3. l \in losses /\ \A m \in BaselinesOf[t] : l <= board[m]
  BY <1>2
<1>4. BaselineLoss(t, board) \in losses
  BY <1>3 DEF BaselineLoss
<1> QED
  BY <1>1, <1>4

LEMMA ModelsExist == ASSUME NEW t \in Predicted PROVE Models # {}
BY GateAssumption DEF GateAssumption

\* A board with rows is a board of losses.
LEMMA BoardFacts ==
  ASSUME NEW n \in Normalized, NEW t \in Predicted, NEW b \in Boards, Scored(n.target[t].boards[b])
  PROVE  n.target[t].boards[b] \in [Models -> Nat]
BY GateAssumption DEF GateAssumption, Scored

\* Where the baseline makes errors, an improvement of more than nothing is a smaller loss, one
\* of nothing or more no greater loss, and one of at most nothing no smaller loss.
LEMMA ImprovementFacts ==
  ASSUME NEW t \in Predicted, NEW board \in [Models -> Nat], NEW m \in Models,
         BaselineLoss(t, board) # 0
  PROVE  /\ AtMost(Zero, Improvement(t, board, m)) => board[m] <= BaselineLoss(t, board)
         /\ AtMost(Improvement(t, board, m), Zero) => board[m] >= BaselineLoss(t, board)
         /\ AtMost(Fraction(MinGain, 100), Improvement(t, board, m)) => board[m] < BaselineLoss(t, board)
<1> DEFINE base == BaselineLoss(t, board)
<1>1. base \in Nat /\ base # 0 /\ board[m] \in Nat
  BY BaselineFacts
<1>2. Improvement(t, board, m) = Fraction(base - board[m], base)
  BY DEF Improvement
<1> HIDE DEF base
<1>3. AtMost(Zero, Improvement(t, board, m)) => board[m] <= base
  BY <1>1, <1>2 DEF AtMost, Zero, Fraction
<1>4. AtMost(Improvement(t, board, m), Zero) => board[m] >= base
  BY <1>1, <1>2 DEF AtMost, Zero, Fraction
<1>5. AtMost(Fraction(MinGain, 100), Improvement(t, board, m)) => board[m] < base
  <2>1. MinGain \in Nat \ {0}
    BY GateAssumption DEF GateAssumption
  <2>2. MinGain * base \in Nat /\ MinGain * base >= 1
    BY <1>1, <2>1
  <2>3. AtMost(Fraction(MinGain, 100), Improvement(t, board, m)) <=> MinGain * base <= (base - board[m]) * 100
    BY <1>2 DEF AtMost, Fraction
  <2> QED
    BY <1>1, <2>2, <2>3
<1> QED
  BY <1>3, <1>4, <1>5 DEF base

\* What a signal of the runner says of a target.
EarnedBy(n, t, m) ==
  LET d == n.target[t]
      perfect(s) == BaselineLoss(t, d.boards[s]) = 0
  IN  /\ m \in Models /\ \A q \in Models : d.boards["nested"][m] <= d.boards["nested"][q]
      /\ perfect("nested") \/ d.boards["nested"][m] < BaselineLoss(t, d.boards["nested"])
      /\ \A s \in Required :
           Scored(d.boards[s]) /\ (perfect(s) \/ d.boards[s][m] <= BaselineLoss(t, d.boards[s]))
      /\ Scored(d.boards["rotated"]) =>
           perfect("rotated") \/ d.boards["rotated"][m] >= BaselineLoss(t, d.boards["rotated"])
EarnedOn(n, t) == EarnedBy(n, t, Chosen(n.target[t]))

\* What a report of a signal says.
SignalOK(r) ==
  r.status = "RESEARCH_SIGNAL" =>
    LET read == r.ran.read
    IN  /\ read.audited /\ Lockbox \notin r.protocol
        /\ read.stayed => read.tasks.audited /\ read.tasks.clean
        /\ \A t \in Predicted : EarnedBy(read.tasks, t, r.frozen.ran.chosen[t])

LEMMA SignalOf == (SignalIsEarned <=> SignalOK(gateReport)) /\ (SignalIsEarned' <=> SignalOK(gateReport'))
<1>1. SignalIsEarned <=> SignalOK(gateReport)
  BY DEF SignalIsEarned, SignalOK, EarnedBy
<1>2. SignalIsEarned' <=> SignalOK(gateReport')
  BY DEF SignalIsEarned, SignalOK, EarnedBy
<1> QED
  BY <1>1, <1>2

LEMMA ReadyMeansEarned ==
  ASSUME NEW n \in Normalized, NEW protocol \in Protocols, Ready(protocol, n), NEW t \in Predicted
  PROVE  EarnedOn(n, t)
<1> DEFINE d == n.target[t]
           m == Chosen(d)
           perfect(s) == BaselineLoss(t, d.boards[s]) = 0
<1>1. /\ RandomLabels(t, d) /\ Survived(t, d) = Required /\ BeatsBaseline(t, d)
  <2>1. Controls(t, d) /\ BeatsBaseline(t, d)
    BY Zenon DEF Ready
  <2>2. Survived(t, d) = Required
    BY DEF Ready
  <2> QED
    BY <2>1, <2>2 DEF Controls
<1>2. m # NoModel /\ Scored(d.boards["nested"])
  BY <1>1 DEF BeatsBaseline, Chosen, Best
<1>3. d.boards["nested"] \in [Models -> Nat]
  BY <1>2, BoardFacts DEF Boards
<1>4. m \in Models /\ \A q \in Models : d.boards["nested"][m] <= d.boards["nested"][q]
  BY <1>3, ModelsExist, BestFacts DEF Chosen
<1>5. perfect("nested") \/ d.boards["nested"][m] < BaselineLoss(t, d.boards["nested"])
  <2> SUFFICES ASSUME ~perfect("nested") PROVE d.boards["nested"][m] < BaselineLoss(t, d.boards["nested"])
    OBVIOUS
  <2> DEFINE board == d.boards["nested"]
             base == BaselineLoss(t, board)
  <2>1. CASE t \in RegressionOf
    <3>1. board[m] * 100 <= MaxRatio * base
      BY <1>1, <2>1 DEF BeatsBaseline
    <3>2. base \in Nat /\ base # 0 /\ board[m] \in Nat /\ MaxRatio \in 0..99
      BY <1>3, <1>4, BaselineFacts, GateAssumption DEF GateAssumption
    <3> HIDE DEF base, board, m
    <3>3. MaxRatio * base <= 99 * base
      BY <3>2
    <3>4. MaxRatio * base \in Nat
      BY <3>2
    <3>5. board[m] < base
      BY <3>1, <3>2, <3>3, <3>4
    <3> QED
      BY <3>5 DEF base, board, m
  <2>2. CASE t \notin RegressionOf
    <3>1. AtMost(Fraction(MinGain, 100), Improvement(t, board, m))
      BY <1>1, <2>2 DEF BeatsBaseline
    <3> QED
      BY <3>1, <1>3, <1>4, ImprovementFacts
  <2> QED
    BY <2>1, <2>2
<1>6. ASSUME NEW s \in Required
      PROVE  Scored(d.boards[s]) /\ (perfect(s) \/ d.boards[s][m] <= BaselineLoss(t, d.boards[s]))
  <2>1. Scored(d.boards[s]) /\ AtMost(Zero, Improvement(t, d.boards[s], m))
    BY <1>1, <1>2 DEF Survived
  <2>2. d.boards[s] \in [Models -> Nat]
    BY <2>1, BoardFacts DEF Boards, Required
  <2> QED
    BY <2>1, <2>2, <1>4, ImprovementFacts
<1>7. Scored(d.boards["rotated"]) =>
        perfect("rotated") \/ d.boards["rotated"][m] >= BaselineLoss(t, d.boards["rotated"])
  <2> SUFFICES ASSUME Scored(d.boards["rotated"]), ~perfect("rotated")
               PROVE  d.boards["rotated"][m] >= BaselineLoss(t, d.boards["rotated"])
    OBVIOUS
  <2>1. AtMost(Improvement(t, d.boards["rotated"], m), Zero)
    BY <1>1, <1>2 DEF RandomLabels, GainsOn
  <2>2. d.boards["rotated"] \in [Models -> Nat]
    BY BoardFacts DEF Boards
  <2> QED
    BY <2>1, <2>2, <1>4, ImprovementFacts
<1> QED
  BY <1>4, <1>5, <1>6, <1>7 DEF EarnedOn, EarnedBy

-----------------------------------------------------------------------------
\* What a runner has read: while nothing was normalized under it, all of one directory.
ManifestRead(read) ==
  /\ read = [audited |-> read.audited, from |-> read.from, since |-> read.since]
  /\ read.from \in Nat /\ read.since \in Nat /\ read.from <= read.since /\ read.since <= swaps
  /\ swaps = read.from => read.audited = normalized.audited

TasksRead(read) ==
  /\ read = [audited |-> read.audited, tasks |-> read.tasks, stayed |-> read.stayed]
  /\ read.tasks \in Normalized
  /\ read.stayed => read.tasks.clean /\ read.tasks.audited = read.audited

ReadSoFar ==
  /\ gate.at \in {"audit", "tasks"} => ManifestRead(gate.read)
  /\ gate.at = "tasks" /\ swaps = gate.read.from => normalized.clean
  /\ gate.at = "score" => TasksRead(gate.read)

\* What the runner returned is what it finds in the tasks it read.
RanOnData(protocol, ran) == \E read : TasksRead(read) /\ ran = Ran(protocol, read)

\* The run under way: what it has read, and what it returned, which the runner's file holds until
\* the next run; the preregistration is written before the report is.
GateInv ==
  /\ normalized \in Normalized /\ swaps \in Nat
  /\ gate # NoGate =>
       /\ gate = [at |-> gate.at, protocol |-> gate.protocol, bounded |-> gate.bounded,
                  evidence |-> gate.evidence, built |-> gate.built, read |-> gate.read, ran |-> gate.ran,
                  errors |-> gate.errors]
       /\ gate.at \in {"build", "run", "audit", "tasks", "score", "freeze", "report"}
       /\ gate.protocol \in Protocols /\ ReadSoFar
       /\ gate.ran # NoReport =>
            gate.at \in {"freeze", "report"} /\ RanOnData(gate.protocol, gate.ran) /\ preHidden = gate.ran
       /\ gate.at = "report" => frozen = Registration
  /\ gateReport # NoReport =>
       gateReport = [status |-> gateReport.status, protocol |-> gateReport.protocol,
                     frozen |-> gateReport.frozen, ran |-> gateReport.ran]
  /\ GateSound

LEMMA InitGate == GateInit => GateInv
<1> SUFFICES ASSUME GateInit PROVE GateInv
  OBVIOUS
<1>1. SignalIsEarned
  BY SignalOf DEF GateInit, SignalOK, NoReport
<1>2. FilesOfOneRun
  BY DEF GateInit, FilesOfOneRun
<1> QED
  BY <1>1, <1>2 DEF GateInit, GateInv, GateSound

\* The record of a run.
LEMMA BeginKeepsGate ==
  ASSUME GateInv, NEW p \in Protocols, NEW bounded \in BOOLEAN, BeginGate(p, bounded)
  PROVE  GateInv'
<1>1. /\ gate'.at = "build" /\ gate'.protocol = p /\ gate'.ran = NoReport /\ gate'.bounded = bounded
      /\ gate' = [at |-> gate'.at, protocol |-> gate'.protocol, bounded |-> gate'.bounded,
                  evidence |-> gate'.evidence, built |-> gate'.built, read |-> gate'.read,
                  ran |-> gate'.ran, errors |-> gate'.errors]
  BY DEF BeginGate
<1>2. SignalIsEarned'
  BY SignalOf DEF GateInv, GateSound, BeginGate
<1>3. FilesOfOneRun' /\ ReadSoFar'
  BY <1>1 DEF FilesOfOneRun, GateAt, ReadSoFar
<1> QED
  BY <1>1, <1>2, <1>3 DEF GateInv, GateSound, BeginGate

\* Each step of the runner adds to what it has read.
LEMMA RunnerReads ==
  ASSUME GateInv, gate # NoGate, ReadManifest \/ AuditDirectory \/ BuildTasks
  PROVE  ReadSoFar'
<1>1. swaps \in Nat /\ swaps' = swaps /\ normalized \in Normalized /\ normalized' = normalized
  BY DEF GateInv, ReadManifest, AuditDirectory, BuildTasks
<1>2. CASE ReadManifest
  <2>1. gate'.at = "audit" /\ gate'.read = [audited |-> normalized.audited, from |-> swaps, since |-> swaps]
    BY <1>2 DEF ReadManifest, GateInv
  <2> QED
    BY <1>1, <2>1 DEF ReadSoFar, ManifestRead
<1>3. CASE AuditDirectory
  <2>1. gate.at = "audit" /\ ManifestRead(gate.read) /\ (\E n \in Readings(gate.read.since) : n.clean)
    BY <1>3 DEF AuditDirectory, GateAt, GateInv, ReadSoFar
  <2>2. gate'.at = "tasks" /\ gate'.read = [gate.read EXCEPT !.since = swaps]
    BY <1>3 DEF AuditDirectory, GateInv
  <2>3. /\ gate'.read = [audited |-> gate.read.audited, from |-> gate.read.from, since |-> swaps]
        /\ gate.read.from <= swaps /\ gate.read.from \in Nat
        /\ swaps = gate.read.from => gate.read.audited = normalized.audited /\ normalized.clean
    BY <1>1, <2>1, <2>2 DEF ManifestRead, Readings
  <2> QED
    BY <1>1, <2>2, <2>3 DEF ReadSoFar, ManifestRead
<1>4. CASE BuildTasks
  <2>1. /\ gate.at = "tasks" /\ ManifestRead(gate.read)
        /\ swaps = gate.read.from => normalized.clean
    BY <1>4 DEF BuildTasks, GateAt, GateInv, ReadSoFar
  <2>2. PICK n \in Readings(gate.read.since) :
          /\ gate'.at = "score"
          /\ gate'.read = [audited |-> gate.read.audited, tasks |-> n, stayed |-> swaps = gate.read.from]
    BY <1>4 DEF BuildTasks, GateInv
  <2>3. /\ n \in Normalized
        /\ swaps = gate.read.from => n = normalized /\ gate.read.audited = normalized.audited
    BY <1>1, <2>1, <2>2 DEF ManifestRead, Readings
  <2> DEFINE stayed == swaps = gate.read.from
             read == [audited |-> gate.read.audited, tasks |-> n, stayed |-> stayed]
  <2>4. stayed \in BOOLEAN /\ (stayed => n.clean /\ n.audited = gate.read.audited)
    BY <2>1, <2>3
  <2> HIDE DEF stayed
  <2>5. TasksRead(read)
    BY <2>3, <2>4 DEF TasksRead
  <2>6. gate'.at = "score" /\ gate'.read = read
    BY <2>2 DEF stayed
  <2> HIDE DEF read
  <2> QED
    BY <1>1, <2>5, <2>6 DEF ReadSoFar, TasksRead
<1> QED
  BY <1>2, <1>3, <1>4

\* A step of a run that is not its end changes neither the report nor what it owes to one.
GateStep ==
  BuildOrSkip \/ ReadManifest \/ AuditDirectory \/ BuildTasks \/ RunModels \/ FailInRunner \/ Freeze

LEMMA StepKeepsGate ==
  ASSUME GateInv, gate # NoGate, GateStep
  PROVE  GateInv'
<1> DEFINE Whole(g) == g = [at |-> g.at, protocol |-> g.protocol, bounded |-> g.bounded,
                           evidence |-> g.evidence, built |-> g.built, read |-> g.read, ran |-> g.ran,
                           errors |-> g.errors]
<1> USE DEF GateStep
<1>0. Whole(gate)
  BY DEF GateInv
<1>1. /\ gate'.at \in {"run", "audit", "tasks", "score", "freeze", "report"}
      /\ Whole(gate)' /\ gate'.protocol = gate.protocol /\ (~Freeze => gate'.at # "report")
  <2>1. CASE BuildOrSkip
    <3>1. CASE gate' = [gate EXCEPT !.at = "run", !.built = TRUE]
      BY <1>0, <3>1
    <3>2. CASE gate' = [gate EXCEPT !.at = "freeze", !.errors = TRUE]
      BY <1>0, <3>2
    <3> QED
      BY <2>1, <3>1, <3>2, Zenon DEF BuildOrSkip
  <2>2. CASE ReadManifest
    BY <1>0, <2>2 DEF ReadManifest
  <2>3. CASE AuditDirectory
    BY <1>0, <2>3 DEF AuditDirectory
  <2>4. CASE BuildTasks
    BY <1>0, <2>4 DEF BuildTasks
  <2>5. CASE RunModels \/ FailInRunner
    BY <1>0, <2>5 DEF RunModels, FailInRunner
  <2>6. CASE Freeze
    BY <1>0, <2>6 DEF Freeze
  <2> QED
    BY <2>1, <2>2, <2>3, <2>4, <2>5, <2>6
<1>2. gateReport' = gateReport /\ normalized' = normalized /\ swaps' = swaps
  BY DEF BuildOrSkip, ReadManifest, AuditDirectory, BuildTasks, RunModels, FailInRunner, Freeze
<1>3. SignalIsEarned'
  BY <1>2, SignalOf DEF GateInv, GateSound
<1>4. FilesOfOneRun'
  BY <1>1 DEF FilesOfOneRun, GateAt
<1>5. ReadSoFar'
  <2>1. CASE ReadManifest \/ AuditDirectory \/ BuildTasks
    BY <2>1, RunnerReads
  <2>2. CASE BuildOrSkip \/ RunModels \/ FailInRunner \/ Freeze
    <3>1. gate'.at \in {"run", "freeze", "report"}
      BY <2>2 DEF GateInv, BuildOrSkip, RunModels, FailInRunner, Freeze
    <3> QED
      BY <3>1 DEF ReadSoFar
  <2> QED
    BY <2>1, <2>2
<1>6. gate'.ran # NoReport =>
        gate'.at \in {"freeze", "report"} /\ RanOnData(gate'.protocol, gate'.ran) /\ preHidden' = gate'.ran
  <2>1. CASE BuildOrSkip
    BY <2>1 DEF GateInv, BuildOrSkip, GateAt
  <2>2. CASE ReadManifest \/ AuditDirectory \/ BuildTasks
    <3>1. gate.at \in {"run", "audit", "tasks"} /\ gate'.ran = gate.ran
      BY <2>2 DEF GateInv, ReadManifest, AuditDirectory, BuildTasks, GateAt
    <3> QED
      BY <3>1 DEF GateInv
  <2>3. CASE RunModels
    <3>1. gate.at = "score" /\ TasksRead(gate.read) /\ preHidden' = Ran(gate.protocol, gate.read)
      BY <2>3 DEF GateInv, ReadSoFar, RunModels, GateAt
    <3>2. gate'.at = "freeze" /\ gate'.ran = preHidden'
      BY <2>3 DEF GateInv, RunModels
    <3> QED
      BY <1>1, <3>1, <3>2 DEF RanOnData
  <2>4. CASE FailInRunner
    BY <2>4 DEF GateInv, FailInRunner, GateAt
  <2>5. CASE Freeze
    BY <2>5 DEF GateInv, Freeze, GateAt
  <2> QED
    BY <2>1, <2>2, <2>3, <2>4, <2>5
<1>7. gate'.at = "report" => frozen' = Registration'
  <2> SUFFICES ASSUME gate'.at = "report" PROVE frozen' = Registration'
    OBVIOUS
  <2>1. Freeze
    BY <1>1
  <2> QED
    BY <2>1 DEF GateInv, Freeze, Registration
<1> QED
  BY <1>1, <1>2, <1>3, <1>4, <1>5, <1>6, <1>7 DEF GateInv, GateSound

\* A report of a signal rests on what the runner found on the data it read.
LEMMA ReportKeepsGate ==
  ASSUME GateInv, gate # NoGate, ReportGate
  PROVE  GateInv'
<1>1. /\ gateReport'.status = Verdict /\ gateReport'.protocol = gate.protocol
      /\ gateReport'.frozen = Registration /\ gateReport'.ran = gate.ran
      /\ gateReport' = [status |-> gateReport'.status, protocol |-> gateReport'.protocol,
                        frozen |-> gateReport'.frozen, ran |-> gateReport'.ran]
      /\ gate' = NoGate /\ preHidden' = preHidden /\ frozen' = frozen
      /\ normalized' = normalized /\ swaps' = swaps
  BY DEF ReportGate
<1>2. SignalIsEarned'
  <2> SUFFICES ASSUME gateReport'.status = "RESEARCH_SIGNAL" PROVE SignalIsEarned'
    BY SignalOf DEF SignalOK
  <2>1. Prerequisites
    BY <1>1 DEF Verdict
  <2>2. PICK read : TasksRead(read) /\ gate.ran = Ran(gate.protocol, read) /\ gate.protocol \in Protocols
    BY <2>1 DEF Prerequisites, GateInv, RanOnData
  <2> DEFINE n == read.tasks
  <2>3. /\ gate.ran.read = read /\ Ready(gate.protocol, n)
        /\ RunnerStatus(gate.protocol, read) = "RESEARCH_SIGNAL"
        /\ \A t \in Predicted : gate.ran.chosen[t] = Chosen(n.target[t])
    BY <2>1, <2>2 DEF Ran, Prerequisites
  <2>4. read.audited /\ n \in Normalized /\ (read.stayed => n.audited /\ n.clean)
    <3>1. read.audited
      BY <2>3 DEF RunnerStatus
    <3>2. read.tasks \in Normalized /\ (read.stayed => read.tasks.clean /\ read.tasks.audited = read.audited)
      BY <2>2 DEF TasksRead
    <3> QED
      BY <3>1, <3>2
  <2>5. Lockbox \notin gate.protocol
    <3>1. SplitsPass(gate.protocol, n)
      BY <2>3, Zenon DEF Ready
    <3>2. n.assignable \subseteq DevelopmentSplits
      BY <2>4, GateAssumption DEF GateAssumption
    <3> QED
      BY <3>1, <3>2 DEF SplitsPass, SplitPasses, Lockbox, DevelopmentSplits
  <2>6. \A t \in Predicted : EarnedOn(n, t) /\ gateReport'.frozen.ran.chosen[t] = Chosen(n.target[t])
    BY <1>1, <2>2, <2>3, <2>4, ReadyMeansEarned DEF Registration
  <2>7. gateReport'.ran.read = read
    BY <1>1, <2>3
  <2> QED
    BY <1>1, <2>4, <2>5, <2>6, <2>7, SignalOf DEF SignalOK, EarnedOn
<1>3. FilesOfOneRun'
  BY <1>1 DEF FilesOfOneRun, GateInv, GateAt, ReportGate
<1> QED
  BY <1>1, <1>2, <1>3 DEF GateInv, GateSound

LEMMA OthersKeepGate ==
  ASSUME GateInv, DieAtGate \/ NormalizeAnew \/ UNCHANGED gateVars
  PROVE  GateInv'
<1>1. gateReport' = gateReport /\ normalized' \in Normalized /\ swaps' \in Nat
  BY DEF GateInv, DieAtGate, NormalizeAnew, gateVars
<1>2. SignalIsEarned'
  BY <1>1, SignalOf DEF GateInv, GateSound
<1>3. CASE DieAtGate
  <2>1. gate' = NoGate /\ gateCut' = TRUE
    BY <1>3 DEF DieAtGate
  <2>2. FilesOfOneRun'
    BY <2>1 DEF FilesOfOneRun
  <2> QED
    BY <1>1, <1>2, <2>1, <2>2 DEF GateInv, GateSound
<1>4. CASE NormalizeAnew \/ UNCHANGED gateVars
  <2>1. gate' = gate /\ gateCut' = gateCut /\ preHidden' = preHidden /\ frozen' = frozen
    BY <1>4 DEF NormalizeAnew, gateVars
  <2>2. FilesOfOneRun' /\ Registration' = Registration
    BY <1>1, <2>1 DEF GateInv, GateSound, FilesOfOneRun, GateAt, Registration
  <2>3. gate # NoGate => ReadSoFar'
    <3>1. swaps \in Nat /\ ((swaps' = swaps /\ normalized' = normalized) \/ swaps' = swaps + 1)
      BY <1>4 DEF GateInv, NormalizeAnew, gateVars
    <3>2. \A read : ManifestRead(read) => ManifestRead(read)' /\ (swaps' = read.from => swaps' = swaps)
      BY <3>1 DEF ManifestRead
    <3> QED
      BY <2>1, <3>1, <3>2 DEF GateInv, ReadSoFar, TasksRead
  <2>4. \A p, ran : RanOnData(p, ran)' <=> RanOnData(p, ran)
    BY DEF RanOnData, TasksRead, Ran, RunnerStatus, Ready
  <2> QED
    BY <1>1, <1>2, <2>1, <2>2, <2>3, <2>4 DEF GateInv, GateSound
<1> QED
  BY <1>3, <1>4

\* What is to be read in the reports of the gate holds, together with what a run under way
\* has read and left in its files, for every protocol, every release and any number of runs and
\* of changes of the directory under them.
THEOREM GateInvariant == GateSpec => []GateInv
<1>1. ASSUME GateInv, [GateNext]_gateVars PROVE GateInv'
  <2>1. ASSUME NEW p \in Protocols, NEW bounded \in BOOLEAN, BeginGate(p, bounded) PROVE GateInv'
    BY <1>1, <2>1, BeginKeepsGate
  <2>2. CASE GateStep
    <3>1. gate.at # "none"
      BY <2>2, Zenon DEF GateStep, BuildOrSkip, ReadManifest, AuditDirectory, BuildTasks, RunModels,
                         FailInRunner, Freeze, GateAt
    <3>2. gate # NoGate
      BY <3>1 DEF NoGate
    <3> QED
      BY <1>1, <2>2, <3>2, StepKeepsGate
  <2>3. CASE ReportGate
    <3>1. gate # NoGate
      BY <2>3 DEF ReportGate, GateAt, NoGate
    <3> QED
      BY <1>1, <2>3, <3>1, ReportKeepsGate
  <2>4. CASE DieAtGate \/ NormalizeAnew \/ UNCHANGED gateVars
    BY <1>1, <2>4, OthersKeepGate
  <2> QED
    BY <1>1, <2>1, <2>2, <2>3, <2>4 DEF GateNext, GateStep
<1> QED
  BY InitGate, <1>1, PTL DEF GateSpec

\* A signal that is reported was earned on the tasks the runner read, which are of an audited and
\* clean release if the directory stayed as it was; and the files of a run that ended tell of
\* that run.
THEOREM GateReportsAreSound == GateSpec => []GateSound
BY GateInvariant, PTL DEF GateInv

-----------------------------------------------------------------------------
(* The local collector of Campaign 001.                                    *)

\* What can be left of a finalization and of an exclusion.
C1 == <<"write">>
C5 == <<"find", "campaign", "define", "import", "write">>
C4 == <<"campaign", "define", "import", "write">>
C3 == <<"define", "import", "write">>
C2 == <<"import", "write">>
X4 == <<"campaign", "define", "audit", "write">>
X3 == <<"define", "audit", "write">>
X2 == <<"audit", "write">>

LEMMA TodoTails ==
  /\ Tail(Completion) = C5 /\ Tail(C5) = C4 /\ Tail(C4) = C3 /\ Tail(C3) = C2 /\ Tail(C2) = C1
  /\ Tail(Exclusion) = X4 /\ Tail(X4) = X3 /\ Tail(X3) = X2 /\ Tail(X2) = C1
BY DEF Completion, C5, C4, C3, C2, Exclusion, X4, X3, X2, C1

LEMMA CutOff ==
  ASSUME NEW S, NEW s \in Seq(S), NEW t \in Seq(S), NEW m \in 1..Len(s), Len(t) = Len(s) - m + 1,
         \A i \in 1..Len(t) : t[i] = s[m + i - 1]
  PROVE  SubSeq(s, m, Len(s)) = t
<1>1. Len(s) \in Nat /\ \A i \in m..Len(s) : s[i] \in S
  OBVIOUS
<1>2. /\ SubSeq(s, m, Len(s)) \in Seq(S) /\ Len(SubSeq(s, m, Len(s))) = Len(s) - m + 1
      /\ \A i \in 1..Len(s) - m + 1 : SubSeq(s, m, Len(s))[i] = s[m + i - 1]
  BY <1>1, SubSeqProperties
<1> QED
  BY <1>2, SeqEqual

LEMMA TodoCuts ==
  /\ SubSeq(C4, 2, Len(C4)) = C3 /\ SubSeq(C4, 3, Len(C4)) = C2 /\ SubSeq(C3, 3, Len(C3)) = C1
  /\ SubSeq(X4, 2, Len(X4)) = X3 /\ SubSeq(X4, 3, Len(X4)) = X2
<1> DEFINE S == {"campaign", "define", "import", "audit", "write"}
<1>1. /\ C4 \in Seq(S) /\ C3 \in Seq(S) /\ C2 \in Seq(S) /\ C1 \in Seq(S) /\ X4 \in Seq(S) /\ X3 \in Seq(S) /\ X2 \in Seq(S)
      /\ Len(C4) = 4 /\ Len(C3) = 3 /\ Len(C2) = 2 /\ Len(C1) = 1 /\ Len(X4) = 4 /\ Len(X3) = 3 /\ Len(X2) = 2
  BY DEF C4, C3, C2, C1, X4, X3, X2
<1>2. /\ \A i \in 1..3 : C3[i] = C4[2 + i - 1] /\ X3[i] = X4[2 + i - 1]
      /\ \A i \in 1..2 : C2[i] = C4[3 + i - 1] /\ X2[i] = X4[3 + i - 1]
      /\ \A i \in 1..1 : C1[i] = C3[3 + i - 1]
  BY DEF C4, C3, C2, C1, X4, X3, X2
<1> HIDE DEF S
<1>3. SubSeq(C4, 2, Len(C4)) = C3
  BY <1>1, <1>2, CutOff
<1>4. SubSeq(C4, 3, Len(C4)) = C2
  BY <1>1, <1>2, CutOff
<1>5. SubSeq(C3, 3, Len(C3)) = C1
  BY <1>1, <1>2, CutOff
<1>6. SubSeq(X4, 2, Len(X4)) = X3
  BY <1>1, <1>2, CutOff
<1>7. SubSeq(X4, 3, Len(X4)) = X2
  BY <1>1, <1>2, CutOff
<1> QED
  BY <1>3, <1>4, <1>5, <1>6, <1>7

LEMMA TodoHeads ==
  /\ Completion[1] = "export" /\ C5[1] = "find" /\ C4[1] = "campaign" /\ C3[1] = "define" /\ C2[1] = "import"
  /\ Exclusion[1] = "write" /\ X4[1] = "campaign" /\ X3[1] = "define" /\ X2[1] = "audit" /\ C1[1] = "write"
  /\ Len(Completion) = 6 /\ Len(C5) = 5 /\ Len(C4) = 4 /\ Len(C3) = 3 /\ Len(C2) = 2
  /\ Len(Exclusion) = 5 /\ Len(X4) = 4 /\ Len(X3) = 3 /\ Len(X2) = 2 /\ Len(C1) = 1 /\ Len(<<>>) = 0
BY DEF Completion, C5, C4, C3, C2, Exclusion, X4, X3, X2, C1

-----------------------------------------------------------------------------
Finalizing == {Completion, C5, C4, C3, C2, C1}
Excluding == {Exclusion, X4, X3, X2, C1}
LEMMA TodosDiffer ==
  /\ \A t \in Finalizing \cup Excluding : t # <<>>
  /\ \A t \in Finalizing : /\ t[1] = "export" => t = Completion
                           /\ t[1] = "find" => t = C5
                           /\ t[1] = "campaign" => t = C4
                           /\ t[1] = "define" => t = C3
                           /\ t[1] = "import" => t = C2
                           /\ t[1] = "write" => t = C1
                           /\ t[1] # "audit"
  /\ \A t \in Excluding : /\ t[1] = "write" => t \in {Exclusion, C1}
                          /\ t[1] = "campaign" => t = X4
                          /\ t[1] = "define" => t = X3
                          /\ t[1] = "audit" => t = X2
                          /\ t[1] \notin {"export", "find", "import"}
  /\ Completion # C1 /\ C5 # C1 /\ C4 # C1 /\ C3 # C1 /\ C2 # C1 /\ Exclusion # C1 /\ X4 # C1 /\ X3 # C1 /\ X2 # C1
  /\ Completion \notin {C5, C4, C3, C2} /\ C5 \notin {C4, C3, C2} /\ C1 \notin {C5, C4, C3, C2}
<1>1. \A t \in Finalizing : Len(t) \in {1, 2, 3, 4, 5, 6}
  BY TodoHeads DEF Finalizing
<1>a. \A t \in Excluding : Len(t) \in {1, 2, 3, 4, 5}
  BY TodoHeads DEF Excluding
<1>2. \A t \in Finalizing \cup Excluding : t # <<>>
  <2> SUFFICES ASSUME NEW t, t \in Finalizing \/ t \in Excluding PROVE t # <<>>
    OBVIOUS
  <2>1. Len(t) # 0
    BY <1>1, <1>a
  <2>2. Len(<<>>) = 0
    BY TodoHeads
  <2> QED
    BY <2>1, <2>2, Zenon
<1>3. /\ Completion # C1 /\ C5 # C1 /\ C4 # C1 /\ C3 # C1 /\ C2 # C1 /\ Exclusion # C1 /\ X4 # C1 /\ X3 # C1 /\ X2 # C1
      /\ Completion \notin {C5, C4, C3, C2} /\ C5 \notin {C4, C3, C2} /\ C1 \notin {C5, C4, C3, C2}
  BY TodoHeads
<1> QED
  BY <1>2, <1>3, TodoHeads DEF Finalizing, Excluding

\* A capture file, and a command under way.
Statuses == {"active", "incomplete", "completed", "missed_followup", "invalidated"}
IsFile(f) == f = [status |-> f.status, seal |-> f.seal, source |-> f.source] /\ f.status \in Statuses
IsCommand(c) == c = [todo |-> c.todo, of |-> c.of, file |-> c.file, snapshot |-> c.snapshot, found |-> c.found]

\* What holds of a command whatever the others do at its capture.
Underway(c) ==
  /\ IsCommand(c) /\ c.of \in Captures \cup Missed
  /\ c.of \in Captures => IsFile(c.file)
  /\ c.of \in Missed => c.file.status = "missed_pre_decision"
  /\ c.file.status = "completed" =>
       /\ c.todo \in Finalizing
       /\ c.todo # C1 => c.snapshot # NoSnapshot
       /\ c.todo \in {C5, C4, C3, C2} => export[c.of] # NoSnapshot
       /\ c.todo \in {C4, C3, C2} => c.found # NoSnapshot
       /\ c.todo = C1 => episode[c.of] # NoSnapshot
  /\ c.file.status # "completed" => c.todo \in Excluding /\ (c.todo # C1 => c.snapshot = NoSnapshot)

\* What holds of it as long as it is the only one.
Undisturbed(c) ==
  /\ c.file.status = "completed" =>
       /\ c.todo # C1 => c.snapshot = c.file.source
       /\ c.todo \in {C5, C4, C3, C2} => export[c.of] = c.file.source
       /\ c.todo \in {C4, C3, C2} => c.found = c.file.source
       /\ c.todo = C1 => episode[c.of] = c.file.source
  /\ c.file.status # "completed" => capture[c.of].status # "completed"
  /\ c.file.status \in Excluded /\ c.todo = C1 => <<c.of, c.file.status>> \in audits \cup cut

\* The file and the ledger, but for what the command under way is about to do.
WorksToward(p, e, status) == busy[p] # NotBusy /\ busy[p].of = e /\ busy[p].file.status = status
Expected(e, status) == \E p \in Commanders : WorksToward(p, e, status)
Agreement(e) ==
  /\ capture[e].status = "completed" => episode[e] = capture[e].source
  /\ capture[e].status # "completed" /\ episode[e] # NoSnapshot =>
       <<e, "completed">> \in cut \/ Expected(e, "completed")
  /\ capture[e].status \in Excluded =>
       <<e, capture[e].status>> \in audits \cup cut \/ Expected(e, capture[e].status)

CollectorTyped ==
  /\ capture = [e \in Captures \cup Missed |-> capture[e]]
  /\ \A e \in Captures : capture[e] = NoCapture \/ IsFile(capture[e])
  /\ export = [e \in Captures |-> export[e]] /\ episode = [e \in Captures |-> episode[e]]
  /\ busy = [p \in Commanders |-> busy[p]]
  /\ \A p \in Commanders : busy[p] = NotBusy \/ Underway(busy[p])
OneAtATime ==
  \A p, q \in Commanders :
    busy[p] # NotBusy /\ busy[q] # NotBusy /\ busy[p].of = busy[q].of /\ busy[p].of \notin lapped => p = q
AloneUndisturbed ==
  \A p \in Commanders : busy[p] # NotBusy /\ busy[p].of \in Captures \ lapped => Undisturbed(busy[p])

CollectorInv ==
  /\ CollectorTyped /\ CompletedIsImported /\ OneAtATime /\ AloneUndisturbed
  /\ \A e \in Captures \ lapped : Agreement(e)

LEMMA BusyIs ==
  ASSUME NEW c, Underway(c)
  PROVE  c # NotBusy /\ c.todo \in Finalizing \cup Excluding
<1>1. c.todo \in Finalizing \cup Excluding
  BY DEF Underway
<1> QED
  BY <1>1, TodosDiffer DEF NotBusy

LEMMA CommandShapes ==
  ASSUME NEW c, IsCommand(c), NEW x
  PROVE  /\ [c EXCEPT !.todo = x] = [todo |-> x, of |-> c.of, file |-> c.file, snapshot |-> c.snapshot, found |-> c.found]
         /\ [c EXCEPT !.snapshot = x] = [todo |-> c.todo, of |-> c.of, file |-> c.file, snapshot |-> x, found |-> c.found]
         /\ [c EXCEPT !.found = x] = [todo |-> c.todo, of |-> c.of, file |-> c.file, snapshot |-> c.snapshot, found |-> x]
BY DEF IsCommand

\* A step of a command, from c to v, at the capture e.
Frame(e) ==
  /\ capture' = [d \in Captures \cup Missed |-> capture'[d]] /\ \A d \in Captures \cup Missed : d # e => capture'[d] = capture[d]
  /\ export' = [d \in Captures |-> export'[d]] /\ episode' = [d \in Captures |-> episode'[d]]
  /\ \A d \in Captures : /\ d # e => export'[d] = export[d] /\ episode'[d] = episode[d]
                         /\ export[d] # NoSnapshot => export'[d] # NoSnapshot
                         /\ episode[d] # NoSnapshot => episode'[d] # NoSnapshot
  /\ lapped' = lapped /\ audits \subseteq audits' /\ cut \subseteq cut'

LEMMA CommandMoves ==
  ASSUME CollectorInv, NEW p \in Commanders, NEW c, c = busy[p], c # NotBusy, NEW e, e = c.of,
         NEW v, busy' = [busy EXCEPT ![p] = v],
         v = NotBusy \/ (v.of = e /\ Underway(v)'),
         Frame(e),
         e \in Captures => (capture'[e] = NoCapture \/ IsFile(capture'[e])),
         e \in Captures /\ capture'[e].status = "completed" => episode'[e] # NoSnapshot,
         e \in Captures \ lapped => Agreement(e)' /\ (v # NotBusy => Undisturbed(v)')
  PROVE  CollectorInv'
<1> USE DEF CollectorInv
<1>1. busy'[p] = v /\ \A q \in Commanders : q # p => busy'[q] = busy[q]
  BY DEF CollectorTyped
<1>2. CollectorTyped'
  <2>1. \A q \in Commanders : (busy[q] = NotBusy \/ Underway(busy[q]))'
    <3> SUFFICES ASSUME NEW q \in Commanders PROVE (busy[q] = NotBusy \/ Underway(busy[q]))'
      OBVIOUS
    <3>1. PICK x : x = busy'[q]
      OBVIOUS
    <3>2. CASE q = p
      BY <1>1, <3>1, <3>2
    <3>3. CASE q # p
      <4>1. x = NotBusy \/ Underway(x)
        BY <1>1, <3>1, <3>3 DEF CollectorTyped
      <4>2. Underway(x) => Underway(x)'
        BY CollectorAssumption DEF Underway, Frame
      <4> QED
        BY <3>1, <4>1, <4>2
    <3> QED
      BY <3>2, <3>3
  <2>2. busy' = [q \in Commanders |-> busy'[q]]
    BY DEF CollectorTyped
  <2>3. \A d \in Captures : capture'[d] = NoCapture \/ IsFile(capture'[d])
    BY DEF CollectorTyped, Frame
  <2> QED
    BY <2>1, <2>2, <2>3 DEF CollectorTyped, Frame, IsFile
<1>3. CompletedIsImported'
  BY DEF CompletedIsImported, Frame
<1>4. OneAtATime'
  <2> SUFFICES ASSUME NEW q \in Commanders, NEW r \in Commanders, busy'[q] # NotBusy, busy'[r] # NotBusy,
                      busy'[q].of = busy'[r].of, busy'[q].of \notin lapped
               PROVE  q = r
    BY DEF OneAtATime, Frame
  <2>1. \A x \in Commanders : busy'[x] # NotBusy => busy[x] # NotBusy /\ busy'[x].of = busy[x].of
    BY <1>1
  <2> QED
    BY <2>1 DEF OneAtATime
<1>5. AloneUndisturbed'
  <2> SUFFICES ASSUME NEW q \in Commanders, busy'[q] # NotBusy, busy'[q].of \in Captures \ lapped
               PROVE  (Undisturbed(busy[q]))'
    BY DEF AloneUndisturbed, Frame
  <2>1. PICK x : x = busy'[q]
    OBVIOUS
  <2>2. CASE q = p
    <3>1. x = v /\ Undisturbed(v)'
      BY <1>1, <2>1, <2>2
    <3> QED
      BY <2>1, <3>1
  <2>3. CASE q # p
    <3>1. x = busy[q] /\ Undisturbed(x) /\ x.of \in Captures \ lapped
      BY <1>1, <2>1, <2>3 DEF AloneUndisturbed
    <3>2. x.of # e
      BY <2>1, <2>3, <3>1 DEF OneAtATime
    <3>3. Undisturbed(x)'
      BY <3>1, <3>2 DEF Undisturbed, Frame
    <3> QED
      BY <2>1, <3>3
  <2> QED
    BY <2>2, <2>3
<1>6. \A d \in Captures \ lapped' : Agreement(d)'
  <2> SUFFICES ASSUME NEW d \in Captures \ lapped PROVE Agreement(d)'
    BY DEF Frame
  <2>1. CASE d # e
    <3>1. \A s : Expected(d, s) => Expected(d, s)'
      <4> SUFFICES ASSUME NEW s, NEW q \in Commanders, WorksToward(q, d, s) PROVE WorksToward(q, d, s)'
        BY DEF Expected
      <4>1. q # p
        BY <2>1 DEF WorksToward
      <4> QED
        BY <1>1, <4>1 DEF WorksToward
    <3>2. Agreement(d)
      OBVIOUS
    <3> QED
      BY <2>1, <3>1, <3>2 DEF Agreement, Frame
  <2> QED
    BY <2>1
<1> QED
  BY <1>2, <1>3, <1>4, <1>5, <1>6

-----------------------------------------------------------------------------
LEMMA CommandFactsOf ==
  ASSUME CollectorInv, NEW p \in Commanders, busy[p] # NotBusy
  PROVE  /\ Underway(busy[p]) /\ busy[p].todo \in Finalizing \cup Excluding
         /\ busy[p].of \in Captures \ lapped =>
              /\ Undisturbed(busy[p]) /\ Agreement(busy[p].of)
              /\ \A s : Expected(busy[p].of, s) => s = busy[p].file.status
<1>1. Underway(busy[p])
  BY DEF CollectorInv, CollectorTyped
<1>2. busy[p].todo \in Finalizing \cup Excluding
  BY <1>1, BusyIs
<1>3. ASSUME busy[p].of \in Captures \ lapped, NEW s, Expected(busy[p].of, s)
      PROVE  s = busy[p].file.status
  <2>1. PICK q \in Commanders : WorksToward(q, busy[p].of, s)
    BY <1>3 DEF Expected
  <2>2. q = p
    BY <1>3, <2>1 DEF CollectorInv, OneAtATime, WorksToward
  <2> QED
    BY <2>1, <2>2 DEF WorksToward
<1>4. busy[p].of \in Captures \ lapped => Undisturbed(busy[p]) /\ Agreement(busy[p].of)
  BY DEF CollectorInv, AloneUndisturbed
<1> QED
  BY <1>1, <1>2, <1>3, <1>4

LEMMA SameFrame ==
  ASSUME CollectorInv, NEW e, UNCHANGED <<capture, export, episode, lapped>>, audits \subseteq audits', cut \subseteq cut'
  PROVE  Frame(e)
BY DEF CollectorInv, CollectorTyped, Frame

\* A command that ends before its last write.
LEMMA RaiseMoves ==
  ASSUME CollectorInv, NEW p \in Commanders, busy[p] # NotBusy, Raise(p),
         UNCHANGED <<capture, export, episode, audits, lapped>>
  PROVE  CollectorInv'
<1>1. PICK c, e, s, v : c = busy[p] /\ e = c.of /\ s = c.file.status /\ v = NotBusy
  OBVIOUS
<1>2. busy' = [busy EXCEPT ![p] = v] /\ cut \subseteq cut'
  BY <1>1 DEF Raise
<1>3. e \notin lapped => <<e, s>> \in cut'
  BY <1>1 DEF Raise
<1>4. Frame(e)
  BY <1>2, SameFrame
<1>5. /\ e \in Captures => (capture'[e] = NoCapture \/ IsFile(capture'[e]))
      /\ e \in Captures /\ capture'[e].status = "completed" => episode'[e] # NoSnapshot
  BY DEF CollectorInv, CollectorTyped, CompletedIsImported
<1>6. ASSUME e \in Captures \ lapped PROVE Agreement(e)'
  <2>1. Agreement(e) /\ \A t : Expected(e, t) => t = s
    BY <1>1, <1>6, CommandFactsOf
  <2> QED
    BY <1>2, <1>3, <1>6, <2>1 DEF Agreement
<1> QED
  BY <1>1, <1>2, <1>4, <1>5, <1>6, CommandMoves

\* A command that goes on, with the same file to be written.
LEMMA GoesOn ==
  ASSUME CollectorInv, NEW p \in Commanders, NEW c, c = busy[p], c # NotBusy, NEW e, e = c.of,
         NEW v, busy' = [busy EXCEPT ![p] = v], v # NotBusy, v.of = e, v.file = c.file,
         Underway(v)', e \in Captures \ lapped => Undisturbed(v)',
         Frame(e), capture' = capture,
         e \in Captures \ lapped =>
           episode'[e] = episode[e] \/ (c.file.status = "completed" /\ capture[e].status # "completed")
  PROVE  CollectorInv'
<1>1. /\ e \in Captures => (capture'[e] = NoCapture \/ IsFile(capture'[e]))
      /\ e \in Captures /\ capture'[e].status = "completed" => episode'[e] # NoSnapshot
  BY DEF CollectorInv, CollectorTyped, CompletedIsImported, Frame
<1>2. ASSUME e \in Captures \ lapped PROVE Agreement(e)'
  <2>1. Agreement(e) /\ \A t : Expected(e, t) => t = c.file.status
    BY <1>2, CommandFactsOf
  <2>2. Expected(e, c.file.status)'
    <3>1. busy'[p] = v
      BY DEF CollectorInv, CollectorTyped
    <3> QED
      BY <3>1 DEF Expected, WorksToward
  <2>3. \A t : Expected(e, t) => Expected(e, t)'
    BY <2>1, <2>2
  <2>4. /\ capture'[e] = capture[e] /\ audits \cup cut \subseteq audits' \cup cut' /\ cut \subseteq cut'
    BY DEF Frame
  <2>5. capture'[e].status # "completed" /\ episode'[e] # NoSnapshot =>
          <<e, "completed">> \in cut' \/ Expected(e, "completed")'
    <3>1. CASE episode'[e] = episode[e]
      BY <2>1, <2>3, <2>4, <3>1 DEF Agreement
    <3>2. CASE c.file.status = "completed"
      BY <2>2, <3>2
    <3> QED
      BY <1>2, <3>1, <3>2
  <2>6. capture'[e].status = "completed" => episode'[e] = capture'[e].source
    BY <1>2, <2>1, <2>4 DEF Agreement
  <2>7. capture'[e].status \in Excluded =>
          <<e, capture'[e].status>> \in audits' \cup cut' \/ Expected(e, capture[e].status)'
    <3>1. PICK s : s = capture[e].status
      OBVIOUS
    <3>2. s \in Excluded => <<e, s>> \in audits \cup cut \/ Expected(e, s)
      BY <2>1, <3>1 DEF Agreement
    <3>3. s \in Excluded => <<e, s>> \in audits' \cup cut' \/ Expected(e, s)'
      BY <2>3, <2>4, <3>2
    <3>4. capture'[e].status = s
      BY <2>4, <3>1
    <3> QED
      BY <3>3, <3>4
  <2> QED
    BY <2>5, <2>6, <2>7 DEF Agreement
<1> QED
  BY <1>1, <1>2, CommandMoves

LEMMA NextTodo ==
  ASSUME CollectorInv, NEW p \in Commanders, NEW step, NextIs(p, step), NEW c, c = busy[p]
  PROVE  /\ c # NotBusy /\ Underway(c) /\ IsCommand(c)
         /\ c.of \in Captures \ lapped => Undisturbed(c)
         /\ step = "export" => c.todo = Completion /\ c.file.status = "completed"
         /\ step = "find" => c.todo = C5 /\ c.file.status = "completed"
         /\ step = "campaign" => c.todo = (IF c.file.status = "completed" THEN C4 ELSE X4)
         /\ step = "define" => c.todo = (IF c.file.status = "completed" THEN C3 ELSE X3)
         /\ step = "import" => c.todo = C2 /\ c.file.status = "completed"
         /\ step = "audit" => c.todo = X2 /\ c.file.status # "completed"
         /\ step = "write" => c.todo = C1 \/ (c.todo = Exclusion /\ c.file.status # "completed")
         /\ c.file.status = "completed" => c.of \in Captures
<1>1. c # NotBusy /\ c.todo[1] = step /\ Underway(c) /\ c.of \in Captures \ lapped => Undisturbed(c)
  BY CommandFactsOf DEF NextIs
<1>2. c # NotBusy /\ Underway(c) /\ c.todo[1] = step
  BY CommandFactsOf DEF NextIs
<1>3. c.file.status = "completed" => c.of \in Captures /\ c.todo \in Finalizing
  BY <1>2, CollectorAssumption DEF Underway
<1>4. c.file.status # "completed" => c.todo \in Excluding
  BY <1>2 DEF Underway
<1>5. CASE c.file.status = "completed"
  BY <1>1, <1>2, <1>3, <1>5, TodosDiffer DEF Underway
<1>6. CASE c.file.status # "completed"
  BY <1>1, <1>2, <1>4, <1>6, TodosDiffer DEF Underway
<1> QED
  BY <1>5, <1>6

-----------------------------------------------------------------------------
\* The steps, one by one.
Next(c, todo, snapshot, found) == [todo |-> todo, of |-> c.of, file |-> c.file, snapshot |-> snapshot, found |-> found]

LEMMA NextFacts ==
  ASSUME NEW c, NEW todo, NEW snapshot, NEW found, NEW v, v = Next(c, todo, snapshot, found),
         todo \in Finalizing \cup Excluding
  PROVE  /\ IsCommand(v) /\ v # NotBusy /\ v.of = c.of /\ v.file = c.file
         /\ v.todo = todo /\ v.snapshot = snapshot /\ v.found = found
<1>1. IsCommand(v) /\ v.of = c.of /\ v.file = c.file /\ v.todo = todo /\ v.snapshot = snapshot /\ v.found = found
  BY DEF Next, IsCommand
<1>2. v # NotBusy
  BY <1>1, TodosDiffer DEF NotBusy
<1> QED
  BY <1>1, <1>2

LEMMA ProceedIs ==
  ASSUME NEW p, NEW c, IsCommand(c), c.todo # C1, c.todo \in Finalizing \cup Excluding, Proceed(p, c)
  PROVE  busy' = [busy EXCEPT ![p] = Next(c, Tail(c.todo), c.snapshot, c.found)]
<1>1. Len(c.todo) # 1
  BY TodoHeads DEF Finalizing, Excluding
<1>2. busy' = [busy EXCEPT ![p] = [c EXCEPT !.todo = Tail(c.todo)]]
  BY <1>1 DEF Proceed
<1>3. PICK t : t = Tail(c.todo)
  OBVIOUS
<1>4. [c EXCEPT !.todo = t] = Next(c, t, c.snapshot, c.found)
  BY CommandShapes DEF Next
<1> QED
  BY <1>2, <1>3, <1>4, Zenon

LEMMA UnderwayLater ==
  ASSUME NEW c, Underway(c), NEW v, IsCommand(v), v.of = c.of, v.file = c.file,
         c.file.status = "completed" =>
           /\ v.todo \in Finalizing
           /\ v.todo # C1 => v.snapshot # NoSnapshot
           /\ v.todo \in {C5, C4, C3, C2} => export'[c.of] # NoSnapshot
           /\ v.todo \in {C4, C3, C2} => v.found # NoSnapshot
           /\ v.todo = C1 => episode'[c.of] # NoSnapshot,
         c.file.status # "completed" => v.todo \in Excluding /\ (v.todo # C1 => v.snapshot = NoSnapshot)
  PROVE  Underway(v)'
<1>1. IsCommand(v)' /\ (\A f : IsFile(f)' <=> IsFile(f))
  BY DEF IsCommand, IsFile
<1> HIDE DEF IsCommand, IsFile
<1> QED
  BY <1>1 DEF Underway

LEMMA WriteExportMoves ==
  ASSUME CollectorInv, NEW p \in Commanders, WriteExport(p)
  PROVE  CollectorInv'
<1>1. PICK c, e : c = busy[p] /\ e = c.of
  OBVIOUS
<1>2. /\ c # NotBusy /\ Underway(c) /\ IsCommand(c) /\ (e \in Captures \ lapped => Undisturbed(c))
      /\ c.todo = Completion /\ c.file.status = "completed" /\ e \in Captures
  BY <1>1, NextTodo DEF WriteExport
<1>3. PICK v : v = Next(c, C5, c.snapshot, c.found)
  OBVIOUS
<1>4. /\ C5 \in Finalizing \cup Excluding /\ Completion \in Finalizing \cup Excluding
      /\ Completion # C1 /\ C5 # C1 /\ C5 \notin {C4, C3, C2} /\ Tail(Completion) = C5 /\ C5 \in Finalizing
  BY TodosDiffer, TodoTails DEF Finalizing
<1>5. busy' = [busy EXCEPT ![p] = v]
  BY <1>1, <1>2, <1>3, <1>4, ProceedIs DEF WriteExport
<1>6. /\ IsCommand(v) /\ v # NotBusy /\ v.of = e /\ v.file = c.file
      /\ v.todo = C5 /\ v.snapshot = c.snapshot /\ v.found = c.found
  BY <1>1, <1>3, <1>4, NextFacts
<1>7. c.snapshot # NoSnapshot
  BY <1>2, <1>4 DEF Underway
<1>8. export' = [export EXCEPT ![e] = c.snapshot] /\ export'[e] = c.snapshot
      /\ UNCHANGED <<capture, episode, audits, defined, lapped, cut>>
  BY <1>1, <1>2 DEF WriteExport, CollectorInv, CollectorTyped
<1>9. Frame(e)
  BY <1>7, <1>8 DEF Frame, CollectorInv, CollectorTyped
<1>10. Underway(v)'
  BY <1>1, <1>2, <1>4, <1>6, <1>7, <1>8, UnderwayLater
<1>11. e \in Captures \ lapped => Undisturbed(v)'
  BY <1>2, <1>4, <1>6, <1>8 DEF Undisturbed, Excluded
<1> QED
  BY <1>1, <1>2, <1>5, <1>6, <1>8, <1>9, <1>10, <1>11, GoesOn

LEMMA FindEpisodeMoves ==
  ASSUME CollectorInv, NEW p \in Commanders, FindEpisode(p)
  PROVE  CollectorInv'
<1>1. PICK c, e : c = busy[p] /\ e = c.of
  OBVIOUS
<1>2. /\ c # NotBusy /\ Underway(c) /\ IsCommand(c) /\ (e \in Captures \ lapped => Undisturbed(c))
      /\ c.todo = C5 /\ c.file.status = "completed" /\ e \in Captures
  BY <1>1, NextTodo DEF FindEpisode
<1>3. /\ C5 \in Finalizing \cup Excluding /\ C4 \in Finalizing \cup Excluding /\ C1 \in Finalizing \cup Excluding
      /\ C4 \in Finalizing /\ C1 \in Finalizing
      /\ C5 # C1 /\ C4 # C1 /\ C1 \notin {C5, C4, C3, C2} /\ Tail(C5) = C4 /\ C1 = <<"write">>
  BY TodosDiffer, TodoTails DEF Finalizing, C1
<1>4. UNCHANGED <<capture, export, episode, audits, defined, lapped>>
  BY DEF FindEpisode
<1>5. PICK x, d : x = export[e] /\ d = Next(c, C5, c.snapshot, x)
  OBVIOUS
<1>6. Found(busy[p], export[busy[p].of]) = d
  <2>1. Found(c, x) = d
    BY <1>2, <1>5, CommandShapes DEF Next, Found
  <2> QED
    BY <1>1, <1>5, <2>1, Zenon
<1>7. /\ IsCommand(d) /\ d.of = e /\ d.file = c.file /\ d.todo = C5 /\ d.snapshot = c.snapshot /\ d.found = x
  BY <1>1, <1>3, <1>5, NextFacts
<1>8. x # NoSnapshot /\ c.snapshot # NoSnapshot
  BY <1>1, <1>2, <1>3, <1>5 DEF Underway
<1>9. CASE episode[e] = NoSnapshot
  <2>1. PICK v : v = Next(d, C4, d.snapshot, d.found)
    OBVIOUS
  <2>2. Proceed(p, d) /\ cut' = cut
    <3>1. Proceed(p, Found(busy[p], export[busy[p].of])) /\ cut' = cut
      BY <1>1, <1>9 DEF FindEpisode
    <3> QED
      BY <1>6, <3>1, Zenon
  <2>3. busy' = [busy EXCEPT ![p] = v]
    BY <1>3, <1>7, <2>1, <2>2, ProceedIs
  <2>4. /\ IsCommand(v) /\ v # NotBusy /\ v.of = e /\ v.file = c.file
        /\ v.todo = C4 /\ v.snapshot = c.snapshot /\ v.found = x
    BY <1>3, <1>7, <2>1, NextFacts
  <2>5. Underway(v)'
    BY <1>1, <1>2, <1>3, <1>4, <1>5, <1>8, <2>4, UnderwayLater DEF Underway
  <2>6. e \in Captures \ lapped => Undisturbed(v)'
    BY <1>1, <1>2, <1>3, <1>4, <1>5, <2>4 DEF Undisturbed, Excluded
  <2>7. Frame(e)
    BY <1>4, <2>2, SameFrame
  <2> QED
    BY <1>1, <1>2, <1>4, <2>3, <2>4, <2>5, <2>6, <2>7, GoesOn
<1>10. CASE episode[e] # NoSnapshot /\ episode[e] = export[e]
  <2>1. PICK v : v = Next(d, C1, d.snapshot, d.found)
    OBVIOUS
  <2>2. busy' = [busy EXCEPT ![p] = [d EXCEPT !.todo = C1]] /\ cut' = cut
    BY <1>1, <1>3, <1>6, <1>10 DEF FindEpisode
  <2>3. busy' = [busy EXCEPT ![p] = v]
    BY <1>7, <2>1, <2>2, CommandShapes DEF Next
  <2>4. /\ IsCommand(v) /\ v # NotBusy /\ v.of = e /\ v.file = c.file
        /\ v.todo = C1 /\ v.snapshot = c.snapshot /\ v.found = x
    BY <1>3, <1>7, <2>1, NextFacts
  <2>5. Underway(v)'
    BY <1>1, <1>2, <1>3, <1>4, <1>10, <2>4, UnderwayLater
  <2>6. e \in Captures \ lapped => Undisturbed(v)'
    BY <1>1, <1>2, <1>3, <1>4, <1>5, <1>10, <2>4 DEF Undisturbed, Excluded
  <2>7. Frame(e)
    BY <1>4, <2>2, SameFrame
  <2> QED
    BY <1>1, <1>2, <1>4, <2>3, <2>4, <2>5, <2>6, <2>7, GoesOn
<1>11. CASE episode[e] # NoSnapshot /\ episode[e] # export[e]
  <2>1. Raise(p)
    BY <1>1, <1>11 DEF FindEpisode
  <2> QED
    BY <1>1, <1>2, <1>4, <2>1, RaiseMoves
<1> QED
  BY <1>9, <1>10, <1>11

LEMMA AfterIs ==
  ASSUME NEW c, IsCommand(c), NEW n, NEW t, t = SubSeq(c.todo, n + 1, Len(c.todo))
  PROVE  After(c, n) = Next(c, t, c.snapshot, c.found)
<1>1. After(c, n) = [c EXCEPT !.todo = t]
  BY DEF After
<1>2. [c EXCEPT !.todo = t] = Next(c, t, c.snapshot, c.found)
  BY CommandShapes DEF Next
<1> QED
  BY <1>1, <1>2, Zenon

LEMMA FindCampaignMoves ==
  ASSUME CollectorInv, NEW p \in Commanders, FindCampaign(p)
  PROVE  CollectorInv'
<1>1. PICK c, e, s : c = busy[p] /\ e = c.of /\ s = c.file.status
  OBVIOUS
<1>2. /\ c # NotBusy /\ Underway(c) /\ IsCommand(c) /\ (e \in Captures \ lapped => Undisturbed(c))
      /\ c.todo = (IF s = "completed" THEN C4 ELSE X4) /\ (s = "completed" => e \in Captures)
  BY <1>1, NextTodo DEF FindCampaign
<1>3. /\ \A t \in {C4, C3, C2} : t \in Finalizing /\ t # C1
      /\ \A t \in {X4, X3, X2} : t \in Excluding /\ t # C1
      /\ SubSeq(C4, 2, Len(C4)) = C3 /\ SubSeq(C4, 3, Len(C4)) = C2
      /\ SubSeq(X4, 2, Len(X4)) = X3 /\ SubSeq(X4, 3, Len(X4)) = X2
  BY TodosDiffer, TodoCuts DEF Finalizing, Excluding
<1>4. UNCHANGED <<capture, export, episode, audits, defined, lapped, cut>>
  BY DEF FindCampaign
<1>5. PICK n, x : n = (IF defined THEN 2 ELSE 1) /\ x = (IF c.snapshot = NoSnapshot THEN NoSnapshot ELSE export[e])
  OBVIOUS
<1>6. busy' = [busy EXCEPT ![p] = After(Reread(c), n)]
  BY <1>1, <1>5 DEF FindCampaign
<1>7. PICK d : d = Next(c, c.todo, x, c.found)
  OBVIOUS
<1>8. Reread(c) = d
  <2>1. Reread(c) = [c EXCEPT !.snapshot = x]
    BY <1>1, <1>5 DEF Reread
  <2>2. [c EXCEPT !.snapshot = x] = d
    BY <1>2, <1>7, CommandShapes DEF Next
  <2> QED
    BY <2>1, <2>2, Zenon
<1>9. c.todo \in Finalizing \cup Excluding
  BY <1>2, <1>3
<1>10. /\ IsCommand(d) /\ d.of = e /\ d.file = c.file /\ d.todo = c.todo /\ d.snapshot = x /\ d.found = c.found
  BY <1>1, <1>7, <1>9, NextFacts
<1>11. PICK t, v : t = SubSeq(d.todo, n + 1, Len(d.todo)) /\ v = Next(d, t, d.snapshot, d.found)
  OBVIOUS
<1>12. t = (IF s = "completed" THEN IF defined THEN C2 ELSE C3 ELSE IF defined THEN X2 ELSE X3)
  <2>1. d.todo = (IF s = "completed" THEN C4 ELSE X4)
    BY <1>2, <1>10
  <2>2. CASE defined
    <3>1. n + 1 = 3
      BY <1>5, <2>2
    <3>2. t = SubSeq(d.todo, 3, Len(d.todo))
      BY <1>11, <3>1
    <3> QED
      BY <1>3, <2>1, <2>2, <3>2
  <2>3. CASE ~defined
    <3>1. n + 1 = 2
      BY <1>5, <2>3
    <3>2. t = SubSeq(d.todo, 2, Len(d.todo))
      BY <1>11, <3>1
    <3> QED
      BY <1>3, <2>1, <2>3, <3>2
  <2> QED
    BY <2>2, <2>3
<1>13. busy' = [busy EXCEPT ![p] = v]
  <2>1. After(d, n) = v
    BY <1>10, <1>11, AfterIs
  <2> QED
    BY <1>6, <1>8, <2>1, Zenon
<1>14. t \in Finalizing \cup Excluding /\ t # C1 /\ (s = "completed" => t \in {C2, C3}) /\ (s # "completed" => t \in Excluding)
  BY <1>3, <1>12
<1>15. /\ IsCommand(v) /\ v # NotBusy /\ v.of = e /\ v.file = c.file
       /\ v.todo = t /\ v.snapshot = x /\ v.found = c.found
  <2>1. /\ IsCommand(v) /\ v # NotBusy /\ v.of = d.of /\ v.file = d.file
        /\ v.todo = t /\ v.snapshot = d.snapshot /\ v.found = d.found
    <3>1. v = Next(d, t, d.snapshot, d.found) /\ t \in Finalizing \cup Excluding
      BY <1>11, <1>14
    <3> QED
      BY <3>1, NextFacts
  <2> QED
    BY <1>10, <2>1
<1>16. /\ s = "completed" => x = export[e] /\ x # NoSnapshot /\ c.found # NoSnapshot
       /\ s # "completed" => x = NoSnapshot
  BY <1>1, <1>2, <1>3, <1>5 DEF Underway
<1>17. Underway(v)'
  BY <1>1, <1>2, <1>3, <1>4, <1>14, <1>15, <1>16, UnderwayLater
<1>18. e \in Captures \ lapped => Undisturbed(v)'
  BY <1>1, <1>2, <1>3, <1>4, <1>14, <1>15, <1>16 DEF Undisturbed
<1>19. Frame(e)
  BY <1>4, SameFrame
<1> QED
  BY <1>1, <1>2, <1>4, <1>13, <1>15, <1>17, <1>18, <1>19, GoesOn

LEMMA DefineCampaignMoves ==
  ASSUME CollectorInv, NEW p \in Commanders, DefineCampaign(p)
  PROVE  CollectorInv'
<1>1. PICK c, e, s : c = busy[p] /\ e = c.of /\ s = c.file.status
  OBVIOUS
<1>2. /\ c # NotBusy /\ Underway(c) /\ IsCommand(c) /\ (e \in Captures \ lapped => Undisturbed(c))
      /\ c.todo = (IF s = "completed" THEN C3 ELSE X3) /\ (s = "completed" => e \in Captures)
  BY <1>1, NextTodo DEF DefineCampaign
<1>3. /\ \A t \in {C3, C2, C1} : t \in Finalizing
      /\ \A t \in {X3, X2} : t \in Excluding
      /\ C3 # C1 /\ C2 # C1 /\ X3 # C1 /\ X2 # C1 /\ C1 \notin {C5, C4, C3, C2}
      /\ Tail(C3) = C2 /\ Tail(X3) = X2 /\ SubSeq(C3, 3, Len(C3)) = C1
  BY TodosDiffer, TodoTails, TodoCuts DEF Finalizing, Excluding
<1>4. UNCHANGED <<capture, export, episode, audits, lapped>>
  BY DEF DefineCampaign
<1>5. c.todo \in Finalizing \cup Excluding /\ c.todo # C1
  BY <1>2, <1>3
<1>6. CASE Proceed(p, c) /\ cut' = cut
  <2>1. PICK t, v : t = Tail(c.todo) /\ v = Next(c, t, c.snapshot, c.found)
    OBVIOUS
  <2>2. t = (IF s = "completed" THEN C2 ELSE X2)
    BY <1>2, <1>3, <2>1
  <2>3. t \in Finalizing \cup Excluding /\ t # C1 /\ (s = "completed" => t = C2) /\ (s # "completed" => t \in Excluding)
    BY <1>3, <2>2
  <2>4. busy' = [busy EXCEPT ![p] = v]
    BY <1>2, <1>5, <1>6, <2>1, ProceedIs
  <2>5. /\ IsCommand(v) /\ v # NotBusy /\ v.of = e /\ v.file = c.file
        /\ v.todo = t /\ v.snapshot = c.snapshot /\ v.found = c.found
    BY <1>1, <2>1, <2>3, NextFacts
  <2>6. Underway(v)'
    BY <1>1, <1>2, <1>3, <1>4, <2>3, <2>5, UnderwayLater DEF Underway
  <2>7. e \in Captures \ lapped => Undisturbed(v)'
    BY <1>1, <1>2, <1>3, <1>4, <2>3, <2>5 DEF Undisturbed
  <2>8. Frame(e)
    BY <1>4, <1>6, SameFrame
  <2> QED
    BY <1>1, <1>2, <1>4, <2>4, <2>5, <2>6, <2>7, <2>8, GoesOn
<1>7. CASE c.snapshot # NoSnapshot /\ episode[e] = c.found /\ busy' = [busy EXCEPT ![p] = After(c, 2)] /\ cut' = cut
  <2>1. s = "completed" /\ c.todo = C3
    BY <1>1, <1>2, <1>3, <1>7 DEF Underway
  <2>2. PICK v : v = Next(c, C1, c.snapshot, c.found)
    OBVIOUS
  <2>3. busy' = [busy EXCEPT ![p] = v]
    <3>1. After(c, 2) = v
      BY <1>2, <1>3, <2>1, <2>2, AfterIs
    <3> QED
      BY <1>7, <3>1, Zenon
  <2>4. /\ IsCommand(v) /\ v # NotBusy /\ v.of = e /\ v.file = c.file
        /\ v.todo = C1 /\ v.snapshot = c.snapshot /\ v.found = c.found
    BY <1>1, <1>3, <2>2, NextFacts
  <2>5. episode[e] # NoSnapshot
    BY <1>1, <1>2, <1>7, <2>1 DEF Underway
  <2>6. Underway(v)'
    BY <1>1, <1>2, <1>3, <1>4, <2>1, <2>4, <2>5, UnderwayLater
  <2>7. e \in Captures \ lapped => Undisturbed(v)'
    BY <1>1, <1>2, <1>3, <1>4, <1>7, <2>1, <2>4 DEF Undisturbed, Excluded
  <2>8. Frame(e)
    BY <1>4, <1>7, SameFrame
  <2> QED
    BY <1>1, <1>2, <1>4, <2>3, <2>4, <2>6, <2>7, <2>8, GoesOn
<1>8. CASE Raise(p)
  BY <1>1, <1>2, <1>4, <1>8, RaiseMoves
<1> QED
  BY <1>1, <1>6, <1>7, <1>8 DEF DefineCampaign

LEMMA ImportEpisodeMoves ==
  ASSUME CollectorInv, NEW p \in Commanders, ImportEpisode(p)
  PROVE  CollectorInv'
<1>1. PICK c, e, s : c = busy[p] /\ e = c.of /\ s = c.file.status
  OBVIOUS
<1>2. /\ c # NotBusy /\ Underway(c) /\ IsCommand(c) /\ (e \in Captures \ lapped => Undisturbed(c))
      /\ c.todo = C2 /\ s = "completed" /\ e \in Captures
  BY <1>1, NextTodo DEF ImportEpisode
<1>3. /\ C2 \in Finalizing \cup Excluding /\ C1 \in Finalizing \cup Excluding /\ C1 \in Finalizing
      /\ C2 # C1 /\ C1 \notin {C5, C4, C3, C2} /\ Tail(C2) = C1
  BY TodosDiffer, TodoTails DEF Finalizing
<1>4. UNCHANGED <<capture, export, audits, defined, lapped>>
  BY DEF ImportEpisode
<1>5. c.snapshot # NoSnapshot /\ c.found # NoSnapshot
  BY <1>1, <1>2, <1>3 DEF Underway
<1>6. PICK v : v = Next(c, C1, c.snapshot, c.found)
  OBVIOUS
<1>7. /\ IsCommand(v) /\ v # NotBusy /\ v.of = e /\ v.file = c.file
      /\ v.todo = C1 /\ v.snapshot = c.snapshot /\ v.found = c.found
  BY <1>1, <1>3, <1>6, NextFacts
<1>8. Proceed(p, c) => busy' = [busy EXCEPT ![p] = v]
  BY <1>2, <1>3, <1>6, ProceedIs
<1>9. CASE episode[e] = NoSnapshot /\ episode' = [episode EXCEPT ![e] = c.snapshot] /\ Proceed(p, c) /\ cut' = cut
  <2>1. episode'[e] = c.snapshot /\ episode' = [episode EXCEPT ![e] = c.snapshot]
    BY <1>2, <1>9 DEF CollectorInv, CollectorTyped
  <2>2. Underway(v)'
    BY <1>1, <1>2, <1>3, <1>5, <1>7, <2>1, UnderwayLater
  <2>3. e \in Captures \ lapped => Undisturbed(v)'
    BY <1>1, <1>2, <1>3, <1>4, <1>7, <2>1 DEF Undisturbed, Excluded
  <2>4. Frame(e)
    BY <1>4, <1>5, <1>9, <2>1 DEF Frame, CollectorInv, CollectorTyped
  <2>5. capture[e].status # "completed"
    BY <1>2, <1>9 DEF CollectorInv, CompletedIsImported
  <2>6. busy' = [busy EXCEPT ![p] = v] /\ capture' = capture
    BY <1>4, <1>8, <1>9
  <2>7. c.file.status = "completed"
    BY <1>1, <1>2
  <2> QED
    BY <1>1, <1>2, <1>7, <2>2, <2>3, <2>4, <2>5, <2>6, <2>7, GoesOn
<1>10. CASE episode[e] # NoSnapshot /\ episode[e] = c.found /\ Proceed(p, c) /\ UNCHANGED <<episode, cut>>
  <2>1. Underway(v)'
    BY <1>1, <1>2, <1>3, <1>7, <1>10, UnderwayLater
  <2>2. e \in Captures \ lapped => Undisturbed(v)'
    BY <1>1, <1>2, <1>3, <1>4, <1>7, <1>10 DEF Undisturbed, Excluded
  <2>3. Frame(e)
    BY <1>4, <1>10, SameFrame
  <2> QED
    BY <1>1, <1>2, <1>4, <1>7, <1>8, <1>10, <2>1, <2>2, <2>3, GoesOn
<1>11. CASE Raise(p) /\ UNCHANGED episode
  BY <1>1, <1>2, <1>4, <1>11, RaiseMoves
<1> QED
  BY <1>1, <1>9, <1>10, <1>11 DEF ImportEpisode

LEMMA AppendAuditMoves ==
  ASSUME CollectorInv, NEW p \in Commanders, AppendAudit(p)
  PROVE  CollectorInv'
<1>1. PICK c, e, s : c = busy[p] /\ e = c.of /\ s = c.file.status
  OBVIOUS
<1>2. /\ c # NotBusy /\ Underway(c) /\ IsCommand(c) /\ (e \in Captures \ lapped => Undisturbed(c))
      /\ c.todo = X2 /\ s # "completed"
  BY <1>1, NextTodo DEF AppendAudit
<1>3. /\ X2 \in Finalizing \cup Excluding /\ C1 \in Finalizing \cup Excluding /\ C1 \in Excluding
      /\ X2 # C1 /\ Tail(X2) = C1
  BY TodosDiffer, TodoTails DEF Excluding
<1>4. UNCHANGED <<capture, export, episode, lapped, cut>> /\ Proceed(p, c) /\ audits' = audits \cup {<<e, s>>}
  BY <1>1 DEF AppendAudit
<1>5. PICK v : v = Next(c, C1, c.snapshot, c.found)
  OBVIOUS
<1>6. /\ IsCommand(v) /\ v # NotBusy /\ v.of = e /\ v.file = c.file
      /\ v.todo = C1 /\ v.snapshot = c.snapshot /\ v.found = c.found
  BY <1>1, <1>3, <1>5, NextFacts
<1>7. busy' = [busy EXCEPT ![p] = v]
  BY <1>2, <1>3, <1>4, <1>5, ProceedIs
<1>8. Underway(v)'
  BY <1>1, <1>2, <1>3, <1>6, UnderwayLater
<1>9. e \in Captures \ lapped => Undisturbed(v)'
  BY <1>1, <1>2, <1>4, <1>6 DEF Undisturbed
<1>10. Frame(e)
  BY <1>4, SameFrame
<1> QED
  BY <1>1, <1>2, <1>4, <1>6, <1>7, <1>8, <1>9, <1>10, GoesOn

LEMMA WriteCaptureMoves ==
  ASSUME CollectorInv, NEW p \in Commanders, WriteCapture(p)
  PROVE  CollectorInv'
<1>1. PICK c, e, s : c = busy[p] /\ e = c.of /\ s = c.file.status
  OBVIOUS
<1>2. /\ c # NotBusy /\ Underway(c) /\ IsCommand(c) /\ (e \in Captures \ lapped => Undisturbed(c))
      /\ (c.todo = C1 \/ (c.todo = Exclusion /\ s # "completed")) /\ (s = "completed" => e \in Captures)
  BY <1>1, NextTodo DEF WriteCapture
<1>3. /\ C1 \in Finalizing /\ Exclusion \in Excluding /\ X4 \in Excluding /\ X4 # C1 /\ Exclusion # C1
      /\ Tail(Exclusion) = X4 /\ Len(C1) = 1
  BY TodosDiffer, TodoTails, TodoHeads DEF Finalizing, Excluding
<1>4. UNCHANGED <<export, episode, audits, lapped, cut>> /\ Proceed(p, c) /\ capture' = [capture EXCEPT ![e] = c.file]
  BY <1>1 DEF WriteCapture
<1>5. e \in Captures \cup Missed /\ capture'[e] = c.file
  BY <1>1, <1>2, <1>4 DEF Underway, CollectorInv, CollectorTyped
<1>6. Frame(e)
  BY <1>4, <1>5 DEF Frame, CollectorInv, CollectorTyped
<1>7. e \in Captures => (capture'[e] = NoCapture \/ IsFile(capture'[e]))
  BY <1>1, <1>2, <1>5 DEF Underway
<1>8. capture'[e].status = s /\ capture'[e].source = c.file.source
  BY <1>1, <1>5
<1>9. e \in Captures /\ capture'[e].status = "completed" => episode'[e] # NoSnapshot
  BY <1>1, <1>2, <1>4, <1>8 DEF Underway
<1>10. ASSUME e \in Captures \ lapped PROVE (s # "completed" /\ episode[e] # NoSnapshot) => <<e, "completed">> \in cut
  <2>1. Agreement(e) /\ \A t : Expected(e, t) => t = s
    BY <1>1, <1>2, <1>10, CommandFactsOf
  <2> QED
    BY <1>1, <1>2, <1>10, <2>1 DEF Agreement, Undisturbed
<1>11. CASE c.todo = C1
  <2>1. PICK v : v = NotBusy
    OBVIOUS
  <2>2. busy' = [busy EXCEPT ![p] = v]
    BY <1>3, <1>4, <1>11, <2>1 DEF Proceed
  <2>3. ASSUME e \in Captures \ lapped PROVE Agreement(e)'
    <3>1. /\ s = "completed" => episode[e] = c.file.source
          /\ s \in Excluded => <<e, s>> \in audits \cup cut
      BY <1>1, <1>2, <1>11, <2>3 DEF Undisturbed
    <3> QED
      BY <1>4, <1>8, <1>10, <2>3, <3>1 DEF Agreement
  <2> QED
    BY <1>1, <1>2, <1>6, <1>7, <1>9, <2>1, <2>2, <2>3, CommandMoves
<1>12. CASE c.todo = Exclusion /\ s # "completed"
  <2>1. PICK v : v = Next(c, X4, c.snapshot, c.found)
    OBVIOUS
  <2>2. /\ IsCommand(v) /\ v # NotBusy /\ v.of = e /\ v.file = c.file
        /\ v.todo = X4 /\ v.snapshot = c.snapshot /\ v.found = c.found
    BY <1>1, <1>3, <2>1, NextFacts
  <2>3. busy' = [busy EXCEPT ![p] = v]
    BY <1>2, <1>3, <1>4, <1>12, <2>1, ProceedIs
  <2>4. Underway(v)'
    BY <1>1, <1>2, <1>3, <1>12, <2>2, UnderwayLater DEF Underway
  <2>5. Undisturbed(v)'
    BY <1>1, <1>3, <1>8, <1>12, <2>2 DEF Undisturbed
  <2>6. ASSUME e \in Captures \ lapped PROVE Agreement(e)'
    <3>1. Expected(e, s)'
      <4>1. busy'[p] = v
        BY <2>3 DEF CollectorInv, CollectorTyped
      <4> QED
        BY <1>1, <2>2, <4>1 DEF Expected, WorksToward
    <3> QED
      BY <1>4, <1>8, <1>10, <1>12, <2>6, <3>1 DEF Agreement
  <2> QED
    BY <1>1, <1>2, <1>6, <1>7, <1>9, <2>2, <2>3, <2>4, <2>5, <2>6, CommandMoves
<1> QED
  BY <1>2, <1>11, <1>12

\* A command begins: the one before it at the same capture, if there is one, laps.
LEMMA BeginningMoves ==
  ASSUME CollectorInv, NEW p \in Commanders, busy[p] = NotBusy,
         NEW e, NEW todo, NEW file, NEW snapshot, Began(p, e, todo, file, snapshot),
         NEW v, v = [todo |-> todo, of |-> e, file |-> file, snapshot |-> snapshot, found |-> NoSnapshot],
         Underway(v), (e \in Captures \ lapped /\ Agreement(e) /\ \A s : ~Expected(e, s)) => Undisturbed(v)
  PROVE  CollectorInv'
<1> USE DEF CollectorInv
<1>1. /\ v.of = e /\ v.file = file /\ v # NotBusy
  BY BusyIs
<1>2. /\ busy' = [busy EXCEPT ![p] = v] /\ UNCHANGED <<capture, export, episode, audits, defined>>
      /\ lapped' = lapped \cup {d \in {e} : \E q \in Commanders : busy[q] # NotBusy /\ busy[q].of = e}
      /\ cut' = {x \in cut : x[1] \notin lapped'}
  BY DEF Began
<1>3. busy'[p] = v /\ \A q \in Commanders : q # p => busy'[q] = busy[q]
  BY <1>2 DEF CollectorTyped
<1>4. /\ lapped \subseteq lapped' /\ (\A d : d # e => (d \in lapped' <=> d \in lapped))
      /\ \A q \in Commanders : busy[q] # NotBusy /\ busy[q].of = e => e \in lapped'
  BY <1>2
<1>5. \A d, s : d \notin lapped' /\ <<d, s>> \in cut => <<d, s>> \in cut'
  BY <1>2
<1>6. CollectorTyped'
  <2>1. \A q \in Commanders : (busy[q] = NotBusy \/ Underway(busy[q]))'
    <3> SUFFICES ASSUME NEW q \in Commanders PROVE (busy[q] = NotBusy \/ Underway(busy[q]))'
      OBVIOUS
    <3>1. PICK x : x = busy'[q]
      OBVIOUS
    <3>2. x = NotBusy \/ Underway(x)
      BY <1>3, <3>1 DEF CollectorTyped
    <3>3. Underway(x) => Underway(x)'
      BY <1>2 DEF Underway, IsCommand, IsFile
    <3> QED
      BY <3>1, <3>2, <3>3
  <2> QED
    BY <1>2, <2>1 DEF CollectorTyped, IsFile
<1>7. CompletedIsImported'
  BY <1>2 DEF CompletedIsImported
<1>8. OneAtATime'
  <2> SUFFICES ASSUME NEW q \in Commanders, NEW r \in Commanders, busy'[q] # NotBusy, busy'[r] # NotBusy,
                      busy'[q].of = busy'[r].of, busy'[q].of \notin lapped'
               PROVE  q = r
    BY DEF OneAtATime
  <2>1. CASE q # p /\ r # p
    BY <1>3, <1>4, <2>1 DEF OneAtATime
  <2>2. CASE q = p \/ r = p
    BY <1>1, <1>3, <1>4, <2>2
  <2> QED
    BY <2>1, <2>2
<1>9. ASSUME e \in Captures \ lapped' PROVE e \notin lapped /\ Agreement(e) /\ (\A s : ~Expected(e, s)) /\ Undisturbed(v)
  <2>1. e \notin lapped /\ Agreement(e)
    BY <1>4, <1>9
  <2>2. \A s : ~Expected(e, s)
    BY <1>4, <1>9 DEF Expected, WorksToward
  <2> QED
    BY <1>9, <2>1, <2>2
<1>10. AloneUndisturbed'
  <2> SUFFICES ASSUME NEW q \in Commanders, busy'[q] # NotBusy, busy'[q].of \in Captures \ lapped'
               PROVE  (Undisturbed(busy[q]))'
    BY DEF AloneUndisturbed
  <2>1. PICK x : x = busy'[q]
    OBVIOUS
  <2>2. x.of \in Captures \ lapped' /\ Undisturbed(x)
    <3>1. CASE q = p
      BY <1>1, <1>3, <1>9, <2>1, <3>1
    <3>2. CASE q # p
      BY <1>3, <1>4, <2>1, <3>2 DEF AloneUndisturbed
    <3> QED
      BY <3>1, <3>2
  <2>3. Undisturbed(x)'
    BY <1>2, <1>5, <2>2 DEF Undisturbed
  <2> QED
    BY <2>1, <2>3
<1>11. \A d \in Captures \ lapped' : Agreement(d)'
  <2> SUFFICES ASSUME NEW d \in Captures \ lapped' PROVE Agreement(d)'
    OBVIOUS
  <2>1. Agreement(d)
    BY <1>4
  <2>2. \A s : Expected(d, s) => Expected(d, s)'
    <3> SUFFICES ASSUME NEW s, NEW q \in Commanders, WorksToward(q, d, s) PROVE WorksToward(q, d, s)'
      BY DEF Expected
    <3>1. q # p
      BY DEF WorksToward
    <3> QED
      BY <1>3, <3>1 DEF WorksToward
  <2> QED
    BY <1>2, <1>5, <2>1, <2>2 DEF Agreement
<1> QED
  BY <1>6, <1>7, <1>8, <1>10, <1>11

LEMMA FirstSteps ==
  /\ C1 \in Finalizing /\ C1 \in Excluding /\ C1 = <<"write">> /\ C1 \notin {C5, C4, C3, C2}
  /\ Completion \in Finalizing /\ Completion \notin {C5, C4, C3, C2} /\ Completion # C1
  /\ Exclusion \in Excluding /\ Exclusion # C1
BY TodosDiffer DEF Finalizing, Excluding, C1

\* The file of a capture with a new status, or with the outcome too.
WithStatus(f, s) == [f EXCEPT !.status = s]
Completed(f, snapshot) == [f EXCEPT !.status = "completed", !.source = snapshot]
LEMMA FileShapes ==
  ASSUME NEW f, IsFile(f), NEW s, NEW snapshot, NEW x, NEW y, x = WithStatus(f, s), y = Completed(f, snapshot)
  PROVE  /\ x = [status |-> s, seal |-> f.seal, source |-> f.source]
         /\ y = [status |-> "completed", seal |-> f.seal, source |-> snapshot]
BY DEF IsFile, WithStatus, Completed

LEMMA StartCaptureMoves ==
  ASSUME CollectorInv, NEW p \in Commanders, busy[p] = NotBusy, StartCapture(p)
  PROVE  CollectorInv'
<1>1. PICK e \in Captures, s \in Seals :
        LET status == IF s \in ValidSeals \cap EligibleSeals THEN "active" ELSE "incomplete"
        IN  /\ capture[e] = NoCapture
            /\ Began(p, e, IF status = "active" THEN <<"write">> ELSE Exclusion,
                     [status |-> status, seal |-> s, source |-> NoSnapshot], NoSnapshot)
  BY DEF StartCapture
<1>2. PICK status : status = IF s \in ValidSeals \cap EligibleSeals THEN "active" ELSE "incomplete"
  OBVIOUS
<1>3. PICK todo, file : /\ todo = (IF status = "active" THEN C1 ELSE Exclusion)
                        /\ file = [status |-> status, seal |-> s, source |-> NoSnapshot]
  OBVIOUS
<1>4. capture[e] = NoCapture /\ Began(p, e, todo, file, NoSnapshot)
  BY <1>1, <1>2, <1>3, FirstSteps
<1>5. PICK v : v = [todo |-> todo, of |-> e, file |-> file, snapshot |-> NoSnapshot, found |-> NoSnapshot]
  OBVIOUS
<1>6. /\ IsCommand(v) /\ v.of = e /\ v.todo = todo /\ v.file = file /\ v.snapshot = NoSnapshot
      /\ IsFile(file) /\ file.status = status /\ status \in {"active", "incomplete"}
  BY <1>2, <1>3, <1>5 DEF IsCommand, IsFile, Statuses
<1>7. todo \in Excluding /\ (status # "active" => todo # C1)
  BY <1>3, FirstSteps
<1>8. Underway(v)
  BY <1>6, <1>7, CollectorAssumption DEF Underway
<1>9. Undisturbed(v)
  BY <1>4, <1>6, <1>7 DEF Undisturbed, NoCapture, Excluded
<1> QED
  BY <1>4, <1>5, <1>8, <1>9, BeginningMoves

LEMMA FinalizableFile ==
  ASSUME CollectorInv, NEW e \in Captures, Finalizable(e)
  PROVE  IsFile(capture[e]) /\ capture[e].status \in {"active", "incomplete"}
BY DEF CollectorInv, CollectorTyped, Finalizable, NoCapture

LEMMA FinalizeCaptureMoves ==
  ASSUME CollectorInv, NEW p \in Commanders, busy[p] = NotBusy, FinalizeCapture(p)
  PROVE  CollectorInv'
<1>1. PICK e \in Captures, r \in Results :
        /\ Finalizable(e)
        /\ Began(p, e, Completion, [capture[e] EXCEPT !.status = "completed", !.source = <<capture[e].seal, r>>],
                 <<capture[e].seal, r>>)
  BY DEF FinalizeCapture
<1>2. PICK f, snapshot : f = capture[e] /\ snapshot = <<f.seal, r>>
  OBVIOUS
<1>3. IsFile(f) /\ snapshot # NoSnapshot
  BY <1>1, <1>2, FinalizableFile DEF NoSnapshot
<1>4. PICK file, x : file = Completed(f, snapshot) /\ x = WithStatus(f, "completed")
  OBVIOUS
<1>5. file = [status |-> "completed", seal |-> f.seal, source |-> snapshot]
  BY <1>3, <1>4, FileShapes
<1>6. Began(p, e, Completion, file, snapshot)
  BY <1>1, <1>2, <1>4, Zenon DEF Completed
<1>7. PICK v : v = [todo |-> Completion, of |-> e, file |-> file, snapshot |-> snapshot, found |-> NoSnapshot]
  OBVIOUS
<1>8. /\ IsCommand(v) /\ v.of = e /\ v.todo = Completion /\ v.file = file /\ v.snapshot = snapshot
      /\ IsFile(file) /\ file.status = "completed" /\ file.source = snapshot
  BY <1>5, <1>7 DEF IsCommand, IsFile, Statuses
<1>9. Underway(v)
  BY <1>3, <1>8, FirstSteps, CollectorAssumption DEF Underway
<1>10. Undisturbed(v)
  BY <1>8, FirstSteps DEF Undisturbed, Excluded
<1> QED
  BY <1>6, <1>7, <1>9, <1>10, BeginningMoves

\* A capture that is kept out of the episodes, whatever the reason.
LEMMA ExclusionMoves ==
  ASSUME CollectorInv, NEW p \in Commanders, busy[p] = NotBusy, NEW e \in Captures, NEW s,
         IsFile(capture[e]), s \in Statuses \ {"completed"}, capture[e].status # "completed",
         Began(p, e, Exclusion, [capture[e] EXCEPT !.status = s], NoSnapshot)
  PROVE  CollectorInv'
<1>1. PICK f, file, x : f = capture[e] /\ file = WithStatus(f, s) /\ x = Completed(f, NoSnapshot)
  OBVIOUS
<1>2. file = [status |-> s, seal |-> f.seal, source |-> f.source]
  BY <1>1, FileShapes
<1>3. Began(p, e, Exclusion, file, NoSnapshot)
  BY <1>1, Zenon DEF WithStatus
<1>4. PICK v : v = [todo |-> Exclusion, of |-> e, file |-> file, snapshot |-> NoSnapshot, found |-> NoSnapshot]
  OBVIOUS
<1>5. /\ IsCommand(v) /\ v.of = e /\ v.todo = Exclusion /\ v.file = file /\ v.snapshot = NoSnapshot
      /\ IsFile(file) /\ file.status = s
  BY <1>2, <1>4 DEF IsCommand, IsFile
<1>6. Underway(v)
  BY <1>5, FirstSteps, CollectorAssumption DEF Underway
<1>7. Undisturbed(v)
  BY <1>5, FirstSteps DEF Undisturbed
<1> QED
  BY <1>3, <1>4, <1>6, <1>7, BeginningMoves

LEMMA MissFollowupMoves ==
  ASSUME CollectorInv, NEW p \in Commanders, busy[p] = NotBusy, MissFollowup(p)
  PROVE  CollectorInv'
<1>1. PICK e \in Captures : /\ Finalizable(e)
                            /\ Began(p, e, Exclusion, [capture[e] EXCEPT !.status = "missed_followup"], NoSnapshot)
  BY DEF MissFollowup
<1>2. IsFile(capture[e]) /\ capture[e].status # "completed" /\ "missed_followup" \in Statuses \ {"completed"}
  BY <1>1, FinalizableFile DEF Statuses
<1> QED
  BY <1>1, <1>2, ExclusionMoves

LEMMA InvalidateCaptureMoves ==
  ASSUME CollectorInv, NEW p \in Commanders, busy[p] = NotBusy, InvalidateCapture(p)
  PROVE  CollectorInv'
<1>1. PICK e \in Captures : /\ capture[e].status \notin {"none", "completed"}
                            /\ Began(p, e, Exclusion, [capture[e] EXCEPT !.status = "invalidated"], NoSnapshot)
  BY DEF InvalidateCapture
<1>2. IsFile(capture[e]) /\ capture[e].status # "completed" /\ "invalidated" \in Statuses \ {"completed"}
  BY <1>1 DEF Statuses, CollectorInv, CollectorTyped, NoCapture
<1> QED
  BY <1>1, <1>2, ExclusionMoves

LEMMA AmendCaptureMoves ==
  ASSUME CollectorInv, NEW p \in Commanders, busy[p] = NotBusy, AmendCapture(p)
  PROVE  CollectorInv'
<1>1. PICK e \in Captures : capture[e] # NoCapture /\ Began(p, e, C1, capture[e], NoSnapshot)
  BY FirstSteps DEF AmendCapture
<1>2. PICK f, v : /\ f = capture[e]
                  /\ v = [todo |-> C1, of |-> e, file |-> f, snapshot |-> NoSnapshot, found |-> NoSnapshot]
  OBVIOUS
<1>3. IsCommand(v) /\ v.of = e /\ v.todo = C1 /\ v.file = f /\ v.snapshot = NoSnapshot /\ IsFile(f)
  BY <1>1, <1>2 DEF IsCommand, CollectorInv, CollectorTyped
<1>4. f.status = "completed" => episode[e] # NoSnapshot
  BY <1>2 DEF CollectorInv, CompletedIsImported
<1>5. Underway(v)
  BY <1>3, <1>4, FirstSteps, CollectorAssumption DEF Underway
<1>6. (Agreement(e) /\ \A s : ~Expected(e, s)) => Undisturbed(v)
  BY <1>2, <1>3, FirstSteps DEF Agreement, Undisturbed, Excluded
<1> QED
  BY <1>1, <1>2, <1>5, <1>6, BeginningMoves

LEMMA MissCaptureMoves ==
  ASSUME CollectorInv, NEW p \in Commanders, busy[p] = NotBusy, MissCapture(p)
  PROVE  CollectorInv'
<1>1. PICK e \in Missed : Began(p, e, Exclusion, [status |-> "missed_pre_decision"], NoSnapshot)
  BY DEF MissCapture
<1>2. PICK file : file = [status |-> "missed_pre_decision"]
  OBVIOUS
<1>3. PICK v : v = [todo |-> Exclusion, of |-> e, file |-> file, snapshot |-> NoSnapshot, found |-> NoSnapshot]
  OBVIOUS
<1>4. /\ IsCommand(v) /\ v.of = e /\ v.todo = Exclusion /\ v.file = file /\ v.snapshot = NoSnapshot
      /\ file.status = "missed_pre_decision" /\ e \notin Captures
  BY <1>2, <1>3, CollectorAssumption DEF IsCommand
<1>5. Underway(v)
  BY <1>4, FirstSteps DEF Underway
<1> QED
  BY <1>1, <1>2, <1>3, <1>4, <1>5, BeginningMoves

-----------------------------------------------------------------------------
LEMMA CollectorStarts ==
  ASSUME CollectorInit
  PROVE  CollectorInv
<1>1. /\ \A e \in Captures : capture[e] = NoCapture /\ export[e] = NoSnapshot /\ episode[e] = NoSnapshot
      /\ \A p \in Commanders : busy[p] = NotBusy
      /\ NoCapture.status = "none"
  BY DEF CollectorInit, NoCapture
<1>2. CollectorTyped
  BY <1>1 DEF CollectorInit, CollectorTyped
<1>3. CompletedIsImported /\ OneAtATime /\ AloneUndisturbed
  BY <1>1 DEF CompletedIsImported, OneAtATime, AloneUndisturbed
<1>4. \A e \in Captures : Agreement(e)
  BY <1>1 DEF Agreement, Excluded
<1> QED
  BY <1>2, <1>3, <1>4 DEF CollectorInv

LEMMA CollectorStutters ==
  ASSUME CollectorInv, UNCHANGED collectorVars
  PROVE  CollectorInv'
<1>1. /\ capture' = capture /\ export' = export /\ episode' = episode /\ audits' = audits
      /\ busy' = busy /\ lapped' = lapped /\ cut' = cut
  BY DEF collectorVars
<1>2. CollectorTyped'
  BY <1>1 DEF CollectorInv, CollectorTyped, Underway, IsCommand, IsFile
<1>3. CompletedIsImported' /\ OneAtATime'
  BY <1>1 DEF CollectorInv, CompletedIsImported, OneAtATime
<1>4. AloneUndisturbed'
  BY <1>1 DEF CollectorInv, AloneUndisturbed, Undisturbed
<1>5. ASSUME NEW e \in Captures \ lapped' PROVE Agreement(e)'
  <2>1. Agreement(e)
    BY <1>1 DEF CollectorInv
  <2>2. \A status : Expected(e, status)' <=> Expected(e, status)
    BY <1>1 DEF Expected, WorksToward
  <2> QED
    BY <1>1, <2>1, <2>2 DEF Agreement
<1> QED
  BY <1>2, <1>3, <1>4, <1>5 DEF CollectorInv

LEMMA CollectorSteps ==
  ASSUME CollectorInv, [CollectorNext]_collectorVars
  PROVE  CollectorInv'
<1>1. CASE UNCHANGED collectorVars
  BY <1>1, CollectorStutters
<1>2. ASSUME NEW p \in Commanders, Command(p) PROVE CollectorInv'
  <2>1. CASE WriteCapture(p) \/ WriteExport(p) \/ FindEpisode(p) \/ FindCampaign(p)
    BY <2>1, WriteCaptureMoves, WriteExportMoves, FindEpisodeMoves, FindCampaignMoves
  <2>2. CASE DefineCampaign(p) \/ ImportEpisode(p) \/ AppendAudit(p)
    BY <2>2, DefineCampaignMoves, ImportEpisodeMoves, AppendAuditMoves
  <2>3. CASE Interrupt(p)
    BY <2>3, RaiseMoves DEF Interrupt
  <2>4. CASE busy[p] = NotBusy /\ (StartCapture(p) \/ FinalizeCapture(p) \/ MissFollowup(p))
    BY <2>4, StartCaptureMoves, FinalizeCaptureMoves, MissFollowupMoves
  <2>5. CASE busy[p] = NotBusy /\ (InvalidateCapture(p) \/ AmendCapture(p) \/ MissCapture(p))
    BY <2>5, InvalidateCaptureMoves, AmendCaptureMoves, MissCaptureMoves
  <2> QED
    BY <1>2, <2>1, <2>2, <2>3, <2>4, <2>5, Zenon DEF Command
<1> QED
  BY <1>1, <1>2 DEF CollectorNext

\* The commands of the collector, whatever the number of processes, captures and results
\* (campaign001_collector.py): a command is somewhere in its own order of steps, with what
\* it has read and written so far where it should be; while it is the only one at its
\* capture nobody changes that; and the file and the ledger of a capture differ by no more
\* than what the command under way there is about to do.
THEOREM CollectorInvariant == CollectorSpec => []CollectorInv
<1>1. CollectorInit => CollectorInv
  BY CollectorStarts
<1>2. CollectorInv /\ [CollectorNext]_collectorVars => CollectorInv'
  BY CollectorSteps
<1> QED
  BY <1>1, <1>2, PTL DEF CollectorSpec

\* Captures, audits and the ledger agree after commands that overlap or are cut short: a
\* completed capture is always an episode, and one that no two commands were at together
\* tells what the ledger tells (finalize_capture, invalidate_capture, import_export_idempotently).
THEOREM CollectorIsSound == CollectorSpec => []CollectionSound
<1>1. CollectorInv => CollectionSound
  <2> SUFFICES ASSUME CollectorInv PROVE CollectionSound
    OBVIOUS
  <2>1. \A e \in Captures \ lapped : Unattended(e) => \A s : ~Expected(e, s)
    BY DEF Unattended, Expected, WorksToward
  <2>2. FileAgreesWithLedger
    <3> SUFFICES ASSUME NEW e \in Captures \ lapped, Unattended(e)
                 PROVE  /\ capture[e].status = "completed" => episode[e] = capture[e].source
                        /\ capture[e].status # "completed" /\ episode[e] # NoSnapshot => <<e, "completed">> \in cut
                        /\ capture[e].status \in Excluded => {<<e, capture[e].status>>} \cap (audits \cup cut) # {}
      BY DEF FileAgreesWithLedger
    <3>1. Agreement(e) /\ \A s : ~Expected(e, s)
      BY <2>1 DEF CollectorInv
    <3> QED
      BY <3>1 DEF Agreement
  <2> QED
    BY <2>2 DEF CollectionSound, CollectorInv
<1> QED
  BY <1>1, CollectorInvariant, PTL

-----------------------------------------------------------------------------
(* Benchmark v2.                                                           *)
\* The cases in time: each has one place, earlier ones before later ones.
CasesOK(cases) ==
  /\ IsFiniteSet(cases) /\ \A c \in cases : c.time \in Nat /\ c.id \in Nat
  /\ \A c, d \in cases : c.id = d.id => c = d

LEMMA InTimeFacts ==
  ASSUME NEW cases, CasesOK(cases)
  PROVE  /\ Cardinality(cases) \in Nat /\ Len(InTime(cases)) = Cardinality(cases)
         /\ InTime(cases) \in Seq(cases) /\ DOMAIN InTime(cases) = 1..Cardinality(cases)
         /\ \A c \in cases : \E i \in DOMAIN InTime(cases) : InTime(cases)[i] = c
         /\ \A i, j \in DOMAIN InTime(cases) : i < j => ComesBefore(InTime(cases)[i], InTime(cases)[j])
<1> DEFINE lt == {p \in cases \X cases : ComesBefore(p[1], p[2])}
           n == Cardinality(cases)
           s == InTime(cases)
<1>1. StrictOrder(cases, lt)
  <2>1. \A c \in cases : <<c, c>> \notin lt
    BY DEF CasesOK, ComesBefore
  <2>2. \A c, d \in cases : c # d => <<c, d>> \in lt \/ <<d, c>> \in lt
    BY DEF CasesOK, ComesBefore
  <2>3. \A c, d, e \in cases : <<c, d>> \in lt /\ <<d, e>> \in lt => <<c, e>> \in lt
    BY DEF CasesOK, ComesBefore
  <2> QED
    BY <2>1, <2>2, <2>3 DEF StrictOrder
<1>2. /\ n \in Nat /\ \A x \in cases : Rank(cases, lt, x) \in 0..(n - 1)
      /\ \A m \in 0..(n - 1) : \E x \in cases : Rank(cases, lt, x) = m
      /\ \A x, y \in cases : Rank(cases, lt, x) = Rank(cases, lt, y) => x = y
      /\ \A x, y \in cases : Rank(cases, lt, x) < Rank(cases, lt, y) => <<x, y>> \in lt
  <2>1. IsFiniteSet(cases)
    BY DEF CasesOK
  <2> HIDE DEF lt
  <2> QED BY <1>1, <2>1, RankIsOnto
<1>3. ASSUME NEW c \in cases PROVE Cardinality({d \in cases : ComesBefore(d, c)}) = Rank(cases, lt, c)
  <2>1. {d \in cases : ComesBefore(d, c)} = {d \in cases : <<d, c>> \in lt}
    OBVIOUS
  <2> QED
    BY <2>1 DEF Rank
<1>4. s = [m \in 1..n |-> CHOOSE c \in cases : Cardinality({d \in cases : ComesBefore(d, c)}) = m - 1]
  BY DEF InTime
<1> HIDE DEF s, n
<1>5. ASSUME NEW m \in 1..n PROVE s[m] \in cases /\ Rank(cases, lt, s[m]) = m - 1
  <2> HIDE DEF lt
  <2>1. m - 1 \in 0..(n - 1)
    BY <1>2
  <2>2. PICK x \in cases : Rank(cases, lt, x) = m - 1
    BY <1>2, <2>1
  <2>3. s[m] = CHOOSE c \in cases : Cardinality({d \in cases : ComesBefore(d, c)}) = m - 1
    BY <1>4
  <2>4. s[m] \in cases /\ Cardinality({d \in cases : ComesBefore(d, s[m])}) = m - 1
    BY <1>3, <2>2, <2>3
  <2> QED
    BY <1>3, <2>4
<1>6. s \in Seq(cases) /\ DOMAIN s = 1..n /\ Len(s) = n
  <2>1. s \in [1..n -> cases]
    BY <1>4, <1>5
  <2>2. s \in Seq(cases)
    BY <1>2, <2>1, SeqDef
  <2> QED
    BY <1>2, <2>1, <2>2
<1>7. ASSUME NEW c \in cases PROVE \E i \in 1..n : s[i] = c
  <2> HIDE DEF lt
  <2>1. Rank(cases, lt, c) + 1 \in 1..n /\ (Rank(cases, lt, c) + 1) - 1 = Rank(cases, lt, c)
    BY <1>2
  <2>2. Rank(cases, lt, s[Rank(cases, lt, c) + 1]) = Rank(cases, lt, c) /\ s[Rank(cases, lt, c) + 1] \in cases
    BY <1>5, <2>1
  <2> QED
    BY <1>2, <2>1, <2>2
<1>8. ASSUME NEW i \in 1..n, NEW j \in 1..n, i < j PROVE ComesBefore(s[i], s[j])
  <2>1. Rank(cases, lt, s[i]) < Rank(cases, lt, s[j]) /\ s[i] \in cases /\ s[j] \in cases
    <3> HIDE DEF lt
    <3> QED BY <1>2, <1>5, <1>8
  <2>2. <<s[i], s[j]>> \in lt
    <3> HIDE DEF lt
    <3> QED BY <1>2, <2>1
  <2> QED
    BY <2>2
<1> QED
  BY <1>2, <1>6, <1>7, <1>8 DEF s, n
\* The last partition needed is the one that takes the last case.
LEMMA PartsReach ==
  ASSUME NEW cases, Cardinality(cases) \in Nat, NEW size \in Nat \ {0}
  PROVE  /\ PartsNeeded(cases, size) \in Nat \ {0}
         /\ PartsNeeded(cases, size) * size >= Cardinality(cases)
         /\ \A k \in 2..PartsNeeded(cases, size) : (k - 1) * size \in Nat /\ (k - 1) * size <= Cardinality(cases)
<1> DEFINE L == Cardinality(cases)
           q == (L + size - 1) \div size
           P == PartsNeeded(cases, size)
<1>0. L \in Nat
  OBVIOUS
<1>1. P = Larger(1, q)
  BY DEF PartsNeeded
<1> HIDE DEF L
<1>2. q \in Nat /\ q * size \in Nat /\ q * size <= L + size - 1 /\ L + size - 1 < q * size + size
  BY <1>0
<1> HIDE DEF q, P
<1>3. P \in Nat \ {0} /\ q <= P /\ (P # 1 => P = q)
  BY <1>1, <1>2 DEF Larger
<1>4. \A a, b \in Nat : a <= b => a * size \in Nat /\ b * size \in Nat /\ a * size <= b * size
  OBVIOUS
<1>5. P * size >= L
  <2>1. q * size <= P * size /\ P * size \in Nat
    BY <1>2, <1>3, <1>4
  <2> QED
    BY <1>0, <1>2, <2>1
<1>6. ASSUME NEW k \in 2..P PROVE (k - 1) * size \in Nat /\ (k - 1) * size <= L
  <2>1. P = q /\ k - 1 \in Nat /\ q - 1 \in Nat /\ k - 1 <= q - 1
    BY <1>2, <1>3
  <2>2. (k - 1) * size \in Nat /\ (k - 1) * size <= (q - 1) * size
    BY <1>4, <2>1
  <2>3. (q - 1) * size = q * size - size
    BY <1>2
  <2> QED
    BY <1>0, <1>2, <2>2, <2>3
<1> QED
  BY <1>3, <1>5, <1>6 DEF L, P

\* Read one after the other, the partitions are the cases in time.
LEMMA PartsAreWhole ==
  ASSUME NEW cases, CasesOK(cases), NEW size \in Nat \ {0}, NEW s, Len(s) = PartsNeeded(cases, size),
         \A k \in 1..PartsNeeded(cases, size) : s[k] = PartRows(cases, size, k)
  PROVE  FlattenSeq(s) = InTime(cases)
<1> DEFINE order == InTime(cases)
           L == Cardinality(cases)
           P == PartsNeeded(cases, size)
           w == [k \in 1..P |-> SubSeq(order, 1, Smaller(k * size, L))]
<1>1. L \in Nat /\ order \in Seq(cases) /\ Len(order) = L
  BY InTimeFacts
<1>2. P \in Nat \ {0} /\ P * size >= L /\ \A k \in 2..P : (k - 1) * size \in Nat /\ (k - 1) * size <= L
  BY <1>1, PartsReach
<1>3. Len(s) = P /\ \A k \in 1..P : s[k] = SubSeq(order, (k - 1) * size + 1, Smaller(k * size, L))
  BY <1>1 DEF PartRows
<1> HIDE DEF order, L, P
<1>4. w[1] = s[1]
  <2>1. 1 \in 1..P /\ (1 - 1) * size + 1 = 1
    BY <1>2
  <2> QED
    BY <1>3, <2>1
<1>5. ASSUME NEW k \in 2..P PROVE w[k] = w[k - 1] \o s[k]
  <2> DEFINE m == (k - 1) * size
             h == Smaller(k * size, L)
  <2>1. k \in 1..P /\ k - 1 \in 1..P /\ k * size = m + size /\ m \in Nat /\ m <= L
    BY <1>2
  <2> HIDE DEF m
  <2>2. Smaller(m, L) = m /\ h \in m..L
    BY <1>1, <2>1 DEF Smaller
  <2>3. w[k - 1] = SubSeq(order, 1, m)
    BY <2>1, <2>2 DEF m
  <2>4. w[k] = SubSeq(order, 1, h)
    BY <2>1
  <2>5. s[k] = SubSeq(order, m + 1, h)
    BY <1>3, <2>1 DEF m
  <2>6. SubSeq(order, 1, m) \o SubSeq(order, m + 1, h) = SubSeq(order, 1, h)
    <3>1. 1 \in 1..(L + 1) /\ m \in (1 - 1)..L
      BY <1>1, <2>1
    <3> HIDE DEF h
    <3> QED
      BY <1>1, <2>2, <3>1, ConcatAdjacentSubSeq
  <2> QED
    BY <2>3, <2>4, <2>5, <2>6
<1>6. w[P] = order
  <2>1. P \in 1..P /\ P * size \in Nat /\ Smaller(P * size, L) = L
    BY <1>1, <1>2 DEF Smaller
  <2>2. w[P] = SubSeq(order, 1, L)
    BY <2>1
  <2>3. SubSeq(order, 1, L) = order
    BY <1>1, SubSeqFull
  <2> QED
    BY <2>2, <2>3
<1> HIDE DEF w
<1>7. FlattenSeq(s) = w[P]
  <2>1. P \in Nat \ {0} /\ Len(s) = P
    BY <1>2, <1>3
  <2>2. RunningConcat(w, s, P)
    BY <1>4, <1>5 DEF RunningConcat
  <2> QED
    BY <2>1, <2>2, FlattenedIs
<1> QED
  BY <1>6, <1>7 DEF order

\* A case of the hidden region comes after those of the others, which share no listing with it.
LEMMA HiddenIsApart ==
  ASSUME NEW cases, CasesOK(cases), NEW c \in cases, NEW d \in cases,
         c.id \in Chronological(cases).hidden,
         d.id \in Chronological(cases).train \cup Chronological(cases).development
  PROVE  d.time <= c.time /\ d.listing # c.listing
<1> DEFINE order == InTime(cases)
           n == Len(order)
           region == [i \in DOMAIN order |-> RegionOf(i, n)]
           whole(i) == \A j \in DOMAIN order : order[j].listing = order[i].listing => region[j] = region[i]
           In(r) == {i \in DOMAIN order : region[i] = r /\ whole(i)}
<1>1. /\ n \in Nat /\ DOMAIN order = 1..n /\ \A i \in DOMAIN order : order[i] \in cases
      /\ \A i, j \in DOMAIN order : i < j => ComesBefore(order[i], order[j])
  BY InTimeFacts
<1>2. /\ Chronological(cases).train = {order[i].id : i \in In("train")}
      /\ Chronological(cases).development = {order[i].id : i \in In("development")}
      /\ Chronological(cases).hidden = {order[i].id : i \in In("hidden")}
  BY DEF Chronological, Regions
<1>3. \A i \in DOMAIN order : region[i] = RegionOf(i, n)
  OBVIOUS
<1> HIDE DEF order, n
<1>4. PICK i \in DOMAIN order : order[i].id = c.id /\ region[i] = "hidden" /\ whole(i)
  BY <1>2
<1>5. PICK j \in DOMAIN order : order[j].id = d.id /\ region[j] \in {"train", "development"}
  BY <1>2
<1>6. order[i] = c /\ order[j] = d
  BY <1>1, <1>4, <1>5 DEF CasesOK
<1>7. j < i
  <2> DEFINE b == Boundaries(n)
  <2>0. b.train \in Int /\ b.development \in Int
    BY <1>1 DEF Boundaries, Larger, Smaller
  <2>1. RegionOf(i, n) = "hidden" /\ RegionOf(j, n) \in {"train", "development"}
    BY <1>3, <1>4, <1>5
  <2>2. ~(i <= b.train) /\ ~(i <= b.development)
    BY <2>1 DEF RegionOf
  <2>3. j <= b.train \/ j <= b.development
    BY <2>1 DEF RegionOf
  <2> HIDE DEF b
  <2> QED
    BY <1>1, <2>0, <2>2, <2>3
<1>8. d.listing # c.listing
  BY <1>4, <1>5, <1>6
<1>9. d.time <= c.time
  <2>1. ComesBefore(d, c) /\ c.time \in Nat /\ d.time \in Nat
    BY <1>1, <1>6, <1>7 DEF CasesOK
  <2> QED
    BY <2>1 DEF ComesBefore
<1> QED
  BY <1>8, <1>9

\* Files of a target are whole or on the way, and so are the splits and lockboxes.
BuildsUnderway ==
  [pc : {"tasks", "splits", "lockbox", "publish"}, release : Releases, size : Sizes,
   i : DOMAIN Targets, k : Nat \ {0}]
WrittenTo(files, r, size, t, n) ==
  n <= Len(files[t]) /\ \A m \in 1..n : files[t][m] = PartRows(CasesOf(r, t), size, m)
Needed(r, size, t) == PartsNeeded(CasesOf(r, t), size)
SplitOK(list, r, t) == list[<<"listing", t>>] = Chronological(CasesOf(r, t))
BoxOK(box, r, t) ==
  /\ box[t].hidden = Fresh(Chronological(CasesOf(r, t)).hidden, r)
  /\ box[t].hidden # {}

FilesAre(files, list, box) ==
  /\ files = [t \in ToSet(Targets) |-> files[t]] /\ \A t \in ToSet(Targets) : AnySequence(files[t])
  /\ list = [n \in Named |-> list[n]] /\ box = [t \in ToSet(Targets) |-> box[t]]
BuildIs(b) ==
  /\ b = NoBuild \/ b \in BuildsUnderway
  /\ b.pc = "splits" => b.k \in DOMAIN Splits
PartsOK(files, b) ==
  b \in BuildsUnderway =>
    /\ \A j \in DOMAIN Targets :
         (j < b.i \/ b.pc # "tasks") =>
           WrittenTo(files, b.release, b.size, Targets[j], Needed(b.release, b.size, Targets[j]))
    /\ b.pc = "tasks" =>
         /\ WrittenTo(files, b.release, b.size, Targets[b.i], b.k - 1)
         /\ b.k <= Needed(b.release, b.size, Targets[b.i])
SplitsOK(list, b) ==
  b \in BuildsUnderway /\ b.pc # "tasks" =>
    \A j \in DOMAIN Targets :
      (b.pc = "splits" => j < b.i \/ b.k > 1) =>
        SplitOK(list, b.release, Targets[j])
BoxesOK(box, b) ==
  b \in BuildsUnderway /\ b.pc \in {"lockbox", "publish"} =>
    \A j \in DOMAIN Targets :
      (j < b.i \/ b.pc = "publish") => BoxOK(box, b.release, Targets[j])
ManifestOK(m) ==
  m # NoFile =>
    /\ m.release \in Releases
    /\ \A t \in ToSet(Targets) : SplitOK(m.splits, m.release, t) /\ BoxOK(m.lockbox, m.release, t)

BenchmarkInv ==
  /\ FilesAre(parts, splits, lockbox) /\ BuildIs(build) /\ PartsOK(parts, build)
  /\ SplitsOK(splits, build) /\ BoxesOK(lockbox, build) /\ ManifestOK(manifest)

LEMMA ReleaseCases == ASSUME NEW r \in Releases, NEW t PROVE CasesOK(CasesOf(r, t))
<1>1. /\ IsFiniteSet(r.cases) /\ \A c \in r.cases : c.time \in Nat /\ c.id \in Nat
      /\ \A c, d \in r.cases : c.id = d.id => c = d
  BY CasesAssumption
<1>2. CasesOf(r, t) \subseteq r.cases /\ IsFiniteSet(CasesOf(r, t))
  BY <1>1, FS_Subset DEF CasesOf
<1> QED
  BY <1>1, <1>2 DEF CasesOK

LEMMA NeededFacts ==
  ASSUME NEW r \in Releases, NEW size \in Sizes, NEW t
  PROVE  size \in Nat \ {0} /\ Needed(r, size, t) \in Nat \ {0}
<1>1. Cardinality(CasesOf(r, t)) \in Nat
  BY ReleaseCases, FS_CardinalityType DEF CasesOK
<1>2. size \in Nat \ {0}
  BY BuildAssumption
<1> QED
  BY <1>1, <1>2, PartsReach DEF Needed

\* A file in its place, and the others as they were.
LEMMA PutFileFacts ==
  ASSUME NEW list, AnySequence(list), NEW k \in Nat \ {0}, k <= Len(list) + 1, NEW rows
  PROVE  LET put == PutFile(list, k, rows)
         IN  /\ AnySequence(put) /\ Len(put) \in Nat /\ Len(list) \in Nat
             /\ Len(put) >= Len(list) /\ Len(put) >= k
             /\ put[k] = rows /\ \A m \in 1..Len(list) : m # k => put[m] = list[m]
<1> DEFINE n == Len(list)
<1>1. n \in Nat /\ list = [i \in 1..n |-> list[i]] /\ DOMAIN list = 1..n
  BY DEF AnySequence
<1>2. CASE k <= n
  <2> DEFINE put == [list EXCEPT ![k] = rows]
  <2>1. PutFile(list, k, rows) = put
    BY <1>2 DEF PutFile
  <2> HIDE DEF n
  <2>2. DOMAIN put = 1..n /\ put = [i \in DOMAIN put |-> put[i]] /\ k \in 1..n
    BY <1>1, <1>2
  <2>3. put[k] = rows /\ \A m \in 1..n : m # k => put[m] = list[m]
    BY <1>1, <2>2
  <2> HIDE DEF put
  <2>4. AnySequence(put) /\ Len(put) = n
    BY <1>1, <2>2, SequenceFacts
  <2> QED
    BY <1>1, <1>2, <2>1, <2>3, <2>4 DEF n
<1>3. CASE ~(k <= n)
  <2>1. k = n + 1 /\ PutFile(list, k, rows) = Append(list, rows)
    BY <1>1, <1>3 DEF PutFile
  <2>2. /\ AnySequence(Append(list, rows)) /\ Len(Append(list, rows)) = n + 1
        /\ Append(list, rows)[n + 1] = rows /\ \A i \in 1..n : Append(list, rows)[i] = list[i]
    BY AppendFacts
  <2> HIDE DEF n
  <2>3. n + 1 >= n
    BY <1>1
  <2> QED
    BY <1>1, <2>1, <2>2, <2>3 DEF n
<1> QED
  BY <1>2, <1>3

\* Writing the next partition of a target keeps what is written of any target.
LEMMA PartWritten ==
  ASSUME NEW files, files = [u \in ToSet(Targets) |-> files[u]],
         \A u \in ToSet(Targets) : AnySequence(files[u]),
         NEW r, NEW size, NEW t \in ToSet(Targets), NEW k \in Nat \ {0},
         WrittenTo(files, r, size, t, k - 1)
  PROVE  LET next == [files EXCEPT ![t] = PutFile(@, k, PartRows(CasesOf(r, t), size, k))]
         IN  /\ next = [u \in ToSet(Targets) |-> next[u]]
             /\ \A u \in ToSet(Targets) : AnySequence(next[u])
             /\ WrittenTo(next, r, size, t, k)
             /\ \A u \in ToSet(Targets) : \A n \in Nat :
                  WrittenTo(files, r, size, u, n) => WrittenTo(next, r, size, u, n)
<1> DEFINE rows == PartRows(CasesOf(r, t), size, k)
           put == PutFile(files[t], k, rows)
           next == [files EXCEPT ![t] = PutFile(@, k, PartRows(CasesOf(r, t), size, k))]
<1>1. /\ AnySequence(put) /\ Len(put) \in Nat /\ Len(files[t]) \in Nat
      /\ Len(put) >= Len(files[t]) /\ Len(put) >= k
      /\ put[k] = rows /\ \A m \in 1..Len(files[t]) : m # k => put[m] = files[t][m]
  <2>1. Len(files[t]) \in Nat /\ AnySequence(files[t])
    BY DEF AnySequence
  <2>2. k <= Len(files[t]) + 1
    BY <2>1 DEF WrittenTo
  <2> HIDE DEF rows
  <2> QED
    BY <2>1, <2>2, PutFileFacts
<1>2. next[t] = put /\ \A u \in ToSet(Targets) : u # t => next[u] = files[u]
  OBVIOUS
<1>3. next = [u \in ToSet(Targets) |-> next[u]]
  OBVIOUS
<1> HIDE DEF next, put
<1>4. WrittenTo(next, r, size, t, k)
  <2>1. \A m \in 1..(k - 1) : m \in 1..Len(files[t]) /\ files[t][m] = PartRows(CasesOf(r, t), size, m) /\ m # k
    BY <1>1 DEF WrittenTo
  <2>2. \A m \in 1..k : m = k \/ m \in 1..(k - 1)
    OBVIOUS
  <2> HIDE DEF rows
  <2>3. \A m \in 1..(k - 1) : put[m] = PartRows(CasesOf(r, t), size, m)
    BY <1>1, <2>1
  <2>4. \A m \in 1..k : put[m] = PartRows(CasesOf(r, t), size, m)
    BY <1>1, <2>2, <2>3 DEF rows
  <2> QED
    BY <1>1, <1>2, <2>4 DEF WrittenTo
<1>5. ASSUME NEW u \in ToSet(Targets), NEW n \in Nat, WrittenTo(files, r, size, u, n)
      PROVE  WrittenTo(next, r, size, u, n)
  <2>1. CASE u # t
    BY <1>2, <1>5, <2>1 DEF WrittenTo
  <2>2. CASE u = t
    <3>1. n <= Len(files[t]) /\ \A m \in 1..n : files[t][m] = PartRows(CasesOf(r, t), size, m)
      BY <1>5, <2>2 DEF WrittenTo
    <3>2. \A m \in 1..n : m \in 1..Len(files[t])
      BY <1>1, <3>1
    <3>3. ASSUME NEW m \in 1..n PROVE put[m] = PartRows(CasesOf(r, t), size, m)
      <4>1. CASE m = k
        BY <1>1, <4>1
      <4>2. CASE m # k
        <5>1. put[m] = files[t][m]
          BY <1>1, <3>2, <4>2
        <5> QED
          BY <3>1, <5>1
      <4> QED
        BY <4>1, <4>2
    <3>4. n <= Len(put)
      BY <1>1, <3>1
    <3> QED
      BY <1>2, <2>2, <3>3, <3>4 DEF WrittenTo
  <2> QED
    BY <2>1, <2>2
<1>6. \A u \in ToSet(Targets) : AnySequence(next[u])
  BY <1>1, <1>2
<1> QED
  BY <1>3, <1>4, <1>5, <1>6 DEF next

LEMMA TargetsFacts ==
  /\ Len(Targets) \in Nat \ {0} /\ DOMAIN Targets = 1..Len(Targets)
  /\ ToSet(Targets) = {Targets[j] : j \in DOMAIN Targets}
  /\ \A j \in DOMAIN Targets : Targets[j] \in ToSet(Targets)
<1>1. ToSet(Targets) = {Targets[j] : j \in DOMAIN Targets}
  BY DEF ToSet
<1> QED
  BY <1>1, BuildAssumption

LEMMA NoBuildFacts == NoBuild.pc = "none" /\ NoBuild \notin BuildsUnderway
  BY DEF NoBuild, BuildsUnderway

\* Without a build the rest is vacuous.
LEMMA NotUnderway ==
  ASSUME NEW files, NEW list, NEW box
  PROVE  BuildIs(NoBuild) /\ PartsOK(files, NoBuild) /\ SplitsOK(list, NoBuild) /\ BoxesOK(box, NoBuild)
  BY NoBuildFacts DEF BuildIs, PartsOK, SplitsOK, BoxesOK

LEMMA BenchmarkInitInv == BenchmarkInit => BenchmarkInv
<1> SUFFICES ASSUME BenchmarkInit PROVE BenchmarkInv
  OBVIOUS
<1>1. /\ parts = [t \in ToSet(Targets) |-> <<>>] /\ splits = [n \in Named |-> NoFile]
      /\ lockbox = [t \in ToSet(Targets) |-> NoFile] /\ manifest = NoFile /\ build = NoBuild
  BY DEF BenchmarkInit
<1>2. AnySequence(<<>>)
  BY DEF AnySequence
<1>3. FilesAre(parts, splits, lockbox)
  <2> HIDE DEF NoFile
  <2>1. \A t \in ToSet(Targets) : parts[t] = <<>>
    BY <1>1
  <2>2. \A t \in ToSet(Targets) : AnySequence(parts[t])
    BY <1>2, <2>1
  <2>3. parts = [t \in ToSet(Targets) |-> parts[t]]
    BY <1>1
  <2>4. splits = [n \in Named |-> splits[n]]
    BY <1>1
  <2>5. lockbox = [t \in ToSet(Targets) |-> lockbox[t]]
    BY <1>1
  <2> QED
    BY <2>2, <2>3, <2>4, <2>5 DEF FilesAre
<1>4. ManifestOK(manifest)
  BY <1>1 DEF ManifestOK
<1> QED
  BY <1>1, <1>3, <1>4, NotUnderway DEF BenchmarkInv

LEMMA StartBuildStep ==
  ASSUME BenchmarkInv, NEW r \in Releases, NEW size \in Sizes, StartBuild(r, size)
  PROVE  BenchmarkInv'
<1>1. /\ build' = [pc |-> "tasks", release |-> r, size |-> size, i |-> 1, k |-> 1]
      /\ UNCHANGED <<parts, splits, lockbox, manifest>>
  BY DEF StartBuild
<1>2. PICK b : b = [pc |-> "tasks", release |-> r, size |-> size, i |-> 1, k |-> 1]
  OBVIOUS
<1>3. b \in BuildsUnderway /\ b.pc = "tasks" /\ b.i = 1 /\ b.k = 1 /\ b.release = r /\ b.size = size
  BY <1>2, TargetsFacts DEF BuildsUnderway
<1>4. BuildIs(b)
  BY <1>3 DEF BuildIs
<1>5. PartsOK(parts, b)
  <2>1. \A j \in DOMAIN Targets : ~(j < 1)
    BY TargetsFacts
  <2>2. WrittenTo(parts, r, size, Targets[1], 0)
    <3>1. Len(parts[Targets[1]]) \in Nat
      <4>1. FilesAre(parts, splits, lockbox) /\ Targets[1] \in ToSet(Targets)
        BY TargetsFacts DEF BenchmarkInv
      <4> QED
        BY <4>1 DEF FilesAre, AnySequence
    <3> QED
      BY <3>1 DEF WrittenTo
  <2>3. 1 <= Needed(r, size, Targets[1])
    BY NeededFacts
  <2> QED
    BY <1>3, <2>1, <2>2, <2>3 DEF PartsOK
<1>6. SplitsOK(splits, b) /\ BoxesOK(lockbox, b)
  BY <1>3 DEF SplitsOK, BoxesOK
<1>7. build' = b
  BY <1>1, <1>2
<1> QED
  BY <1>1, <1>4, <1>5, <1>6, <1>7 DEF BenchmarkInv

LEMMA AtFacts ==
  ASSUME build \in BuildsUnderway, NEW pc \in {"tasks", "splits", "lockbox", "publish"},
         NEW i \in DOMAIN Targets, NEW k \in Nat \ {0}
  PROVE  /\ At(pc, i, k) \in BuildsUnderway /\ At(pc, i, k).pc = pc /\ At(pc, i, k).i = i /\ At(pc, i, k).k = k
         /\ At(pc, i, k).release = build.release /\ At(pc, i, k).size = build.size
  BY DEF At, BuildsUnderway

\* What is known of a build that is at one of its steps.
LEMMA BuildFacts ==
  ASSUME BenchmarkInv, NEW pc, Doing(pc), pc # "none"
  PROVE  /\ build \in BuildsUnderway /\ build.release \in Releases /\ build.size \in Sizes
         /\ build.i \in DOMAIN Targets /\ build.k \in Nat \ {0} /\ Target = Targets[build.i]
         /\ Target \in ToSet(Targets)
<1>1. build \in BuildsUnderway
  BY NoBuildFacts DEF Doing, BenchmarkInv, BuildIs
<1>2. build.i \in DOMAIN Targets /\ Target = Targets[build.i]
  BY <1>1 DEF BuildsUnderway, Target
<1> QED
  BY <1>1, <1>2, TargetsFacts DEF BuildsUnderway

LEMMA PlaceFacts ==
  ASSUME NEW i \in DOMAIN Targets
  PROVE  /\ i \in Nat /\ (i < Len(Targets) => i + 1 \in DOMAIN Targets)
         /\ \A j \in DOMAIN Targets : j \in Nat /\ (j <= i <=> j < i \/ j = i)
  BY TargetsFacts

LEMMA WritePartStep == ASSUME BenchmarkInv, WritePart PROVE BenchmarkInv'
<1> DEFINE r == build.release
           size == build.size
           t == Targets[build.i]
           next == [parts EXCEPT ![t] = PutFile(@, build.k, PartRows(CasesOf(r, t), size, build.k))]
<1>1. /\ build \in BuildsUnderway /\ build.pc = "tasks" /\ r \in Releases /\ size \in Sizes
      /\ build.i \in DOMAIN Targets /\ build.k \in Nat \ {0} /\ t \in ToSet(Targets) /\ Target = t
  BY BuildFacts DEF WritePart, Doing
<1>2. /\ parts' = next /\ UNCHANGED <<splits, lockbox, manifest>>
      /\ build' = IF build.k < Needed(r, size, t) THEN At("tasks", build.i, build.k + 1)
                  ELSE IF build.i < Len(Targets) THEN At("tasks", build.i + 1, 1)
                  ELSE At("splits", 1, 1)
  BY <1>1 DEF WritePart, Needed
<1>3. /\ FilesAre(parts, splits, lockbox) /\ WrittenTo(parts, r, size, t, build.k - 1)
      /\ build.k <= Needed(r, size, t)
      /\ \A j \in DOMAIN Targets : j < build.i => WrittenTo(parts, r, size, Targets[j], Needed(r, size, Targets[j]))
  BY <1>1 DEF BenchmarkInv, PartsOK
<1>4. /\ next = [u \in ToSet(Targets) |-> next[u]]
      /\ \A u \in ToSet(Targets) : AnySequence(next[u])
      /\ WrittenTo(next, r, size, t, build.k)
      /\ \A u \in ToSet(Targets) : \A n \in Nat :
           WrittenTo(parts, r, size, u, n) => WrittenTo(next, r, size, u, n)
  <2>1. parts = [u \in ToSet(Targets) |-> parts[u]] /\ \A u \in ToSet(Targets) : AnySequence(parts[u])
    BY <1>3 DEF FilesAre
  <2> HIDE DEF r, size, t
  <2> QED
    BY <1>1, <1>3, <2>1, PartWritten
<1> HIDE DEF next
<1>5. \A j \in DOMAIN Targets : j < build.i => WrittenTo(next, r, size, Targets[j], Needed(r, size, Targets[j]))
  <2>1. \A j \in DOMAIN Targets : Needed(r, size, Targets[j]) \in Nat /\ Targets[j] \in ToSet(Targets)
    BY <1>1, NeededFacts, TargetsFacts
  <2> QED
    BY <1>3, <1>4, <2>1
<1>6. FilesAre(next, splits, lockbox)
  BY <1>3, <1>4 DEF FilesAre
<1>7. Needed(r, size, t) \in Nat
  BY <1>1, NeededFacts
<1>8. PICK b : b = build'
  OBVIOUS
<1>9. PartsOK(next, b) /\ b \in BuildsUnderway /\ b.pc \in {"tasks", "splits"} /\ (b.pc = "splits" => b.i = 1 /\ b.k = 1)
  <2>1. CASE build.k < Needed(r, size, t)
    <3>1. /\ b \in BuildsUnderway /\ b.pc = "tasks" /\ b.i = build.i /\ b.k = build.k + 1
          /\ b.release = r /\ b.size = size
      BY <1>1, <1>2, <1>8, <2>1, AtFacts
    <3>2. build.k + 1 <= Needed(r, size, t) /\ (build.k + 1) - 1 = build.k
      BY <1>1, <1>7, <2>1
    <3>3. WrittenTo(next, r, size, t, (build.k + 1) - 1)
      BY <1>4, <3>2
    <3> HIDE DEF r, size
    <3>4. /\ b.pc = "tasks" /\ WrittenTo(next, b.release, b.size, Targets[b.i], b.k - 1)
          /\ b.k <= Needed(b.release, b.size, Targets[b.i])
      BY <3>1, <3>2, <3>3
    <3>5. \A j \in DOMAIN Targets :
            j < b.i => WrittenTo(next, b.release, b.size, Targets[j], Needed(b.release, b.size, Targets[j]))
      BY <1>5, <3>1
    <3> QED
      BY <3>1, <3>4, <3>5 DEF PartsOK
  <2>2. CASE ~(build.k < Needed(r, size, t))
    <3>1. build.k = Needed(r, size, t)
      BY <1>1, <1>3, <1>7, <2>2
    <3>2. \A j \in DOMAIN Targets : j <= build.i => WrittenTo(next, r, size, Targets[j], Needed(r, size, Targets[j]))
      <4> SUFFICES ASSUME NEW j \in DOMAIN Targets, j <= build.i
                   PROVE  WrittenTo(next, r, size, Targets[j], Needed(r, size, Targets[j]))
        OBVIOUS
      <4>1. j < build.i \/ j = build.i
        BY <1>1, PlaceFacts
      <4> QED
        BY <1>4, <1>5, <3>1, <4>1
    <3>3. CASE build.i < Len(Targets)
      <4>0. build.i + 1 \in DOMAIN Targets
        BY <1>1, <3>3, PlaceFacts
      <4>1. /\ b \in BuildsUnderway /\ b.pc = "tasks" /\ b.i = build.i + 1 /\ b.k = 1
            /\ b.release = r /\ b.size = size
        BY <1>1, <1>2, <1>8, <2>2, <3>3, <4>0, AtFacts
      <4>2. \A j \in DOMAIN Targets : j < build.i + 1 => j <= build.i
        BY <1>1, TargetsFacts
      <4>3. WrittenTo(next, r, size, Targets[build.i + 1], 1 - 1)
        <5>1. Len(next[Targets[build.i + 1]]) \in Nat
          BY <1>4, <4>0, TargetsFacts DEF AnySequence
        <5> QED
          BY <5>1 DEF WrittenTo
      <4>4. 1 <= Needed(r, size, Targets[build.i + 1])
        BY <1>1, NeededFacts
      <4> HIDE DEF r, size
      <4>5. /\ b.pc = "tasks" /\ WrittenTo(next, b.release, b.size, Targets[b.i], b.k - 1)
            /\ b.k <= Needed(b.release, b.size, Targets[b.i])
        BY <4>1, <4>3, <4>4
      <4>6. \A j \in DOMAIN Targets :
              j < b.i => WrittenTo(next, b.release, b.size, Targets[j], Needed(b.release, b.size, Targets[j]))
        BY <3>2, <4>1, <4>2
      <4> QED
        BY <4>1, <4>5, <4>6 DEF PartsOK
    <3>4. CASE ~(build.i < Len(Targets))
      <4>0. 1 \in DOMAIN Targets /\ \A j \in DOMAIN Targets : j <= build.i
        BY <1>1, <3>4, TargetsFacts
      <4>1. /\ b \in BuildsUnderway /\ b.pc = "splits" /\ b.i = 1 /\ b.k = 1
            /\ b.release = r /\ b.size = size
        BY <1>1, <1>2, <1>8, <2>2, <3>4, <4>0, AtFacts
      <4> QED
        BY <3>2, <4>0, <4>1 DEF PartsOK
    <3> QED
      BY <3>3, <3>4
  <2> QED
    BY <2>1, <2>2
<1>10. BuildIs(b)
  <2>1. 1 \in DOMAIN Splits
    BY DEF Splits
  <2> QED
    BY <1>9, <2>1 DEF BuildIs
<1>11. SplitsOK(splits, b)
  <2>1. \A j \in DOMAIN Targets : ~(j < 1)
    BY TargetsFacts
  <2> QED
    BY <1>9, <2>1 DEF SplitsOK
<1>12. BoxesOK(lockbox, b)
  BY <1>9 DEF BoxesOK
<1> QED
  BY <1>2, <1>6, <1>8, <1>9, <1>10, <1>11, <1>12 DEF BenchmarkInv

\* Partitions stay as they are, for the same release and size.
LEMMA PartsStay ==
  ASSUME NEW files, NEW b \in BuildsUnderway, NEW c \in BuildsUnderway, PartsOK(files, b), b.pc # "tasks", c.pc # "tasks",
         c.release = b.release, c.size = b.size
  PROVE  PartsOK(files, c)
  BY DEF PartsOK

LEMMA WriteSplitStep == ASSUME BenchmarkInv, WriteSplit PROVE BenchmarkInv'
<1> DEFINE r == build.release
           t == Targets[build.i]
           split == Splits[build.k]
           next == [splits EXCEPT ![<<split, t>>] = Assignment(CasesOf(r, t), split)]
<1>1. /\ build \in BuildsUnderway /\ build.pc = "splits" /\ r \in Releases
      /\ build.i \in DOMAIN Targets /\ build.k \in Nat \ {0} /\ t \in ToSet(Targets) /\ Target = t
  BY BuildFacts DEF WriteSplit, Doing
<1>2. UNCHANGED <<parts, lockbox, manifest>> /\ build.k \in DOMAIN Splits
  BY <1>1 DEF WriteSplit, BenchmarkInv, BuildIs
<1>3. CASE build' = NoBuild /\ UNCHANGED splits
  BY <1>2, <1>3, NotUnderway DEF BenchmarkInv
<1>4. CASE /\ splits' = next
           /\ build' = IF build.i < Len(Targets) THEN At("splits", build.i + 1, build.k)
                       ELSE IF build.k < Len(Splits) THEN At("splits", 1, build.k + 1)
                       ELSE At("lockbox", 1, 1)
  <2>1. Splits[1] = "listing" /\ DOMAIN Splits = 1..4 /\ Len(Splits) = 4
        /\ \A k \in 2..4 : Splits[k] # "listing"
    BY DEF Splits
  <2>2. FilesAre(parts, splits, lockbox) /\ FilesAre(parts, next, lockbox)
    BY DEF BenchmarkInv, FilesAre
  <2>3. \A u \in ToSet(Targets) : <<"listing", u>> \in Named
    BY <2>1 DEF Named, ToSet
  <2>4. \A j \in DOMAIN Targets :
          SplitOK(splits, r, Targets[j]) => SplitOK(next, r, Targets[j])
    <3> SUFFICES ASSUME NEW j \in DOMAIN Targets, SplitOK(splits, r, Targets[j])
                 PROVE  SplitOK(next, r, Targets[j])
      OBVIOUS
    <3>1. CASE <<split, t>> = <<"listing", Targets[j]>>
      <4>1. split = "listing" /\ t = Targets[j]
        BY <3>1
      <4>2. next[<<"listing", Targets[j]>>] = Chronological(CasesOf(r, t))
        BY <2>2, <2>3, <3>1, <4>1, TargetsFacts DEF FilesAre, Assignment
      <4> QED
        BY <4>1, <4>2 DEF SplitOK
    <3>2. CASE <<split, t>> # <<"listing", Targets[j]>>
      <4>1. next[<<"listing", Targets[j]>>] = splits[<<"listing", Targets[j]>>]
        BY <2>2, <2>3, <3>2, TargetsFacts DEF FilesAre
      <4> QED
        BY <4>1 DEF SplitOK
    <3> QED
      BY <3>1, <3>2
  <2>5. build.k = 1 => SplitOK(next, r, t)
    <3> SUFFICES ASSUME build.k = 1 PROVE SplitOK(next, r, t)
      OBVIOUS
    <3>1. split = "listing"
      BY <2>1
    <3>2. next[<<"listing", t>>] = Chronological(CasesOf(r, t))
      BY <1>1, <2>2, <2>3, <3>1 DEF FilesAre, Assignment
    <3> QED
      BY <3>2 DEF SplitOK
  <2>6. \A j \in DOMAIN Targets : (j < build.i \/ build.k > 1) => SplitOK(splits, r, Targets[j])
    BY <1>1 DEF BenchmarkInv, SplitsOK
  <2> HIDE DEF next
  <2>7. \A j \in DOMAIN Targets : (j <= build.i \/ build.k > 1) => SplitOK(next, r, Targets[j])
    <3> SUFFICES ASSUME NEW j \in DOMAIN Targets, j <= build.i \/ build.k > 1
                 PROVE  SplitOK(next, r, Targets[j])
      OBVIOUS
    <3>1. j < build.i \/ build.k > 1 \/ (j = build.i /\ build.k = 1)
      <4>1. j \in Nat /\ build.i \in Nat /\ build.k \in Nat \ {0}
        BY <1>1, PlaceFacts
      <4> QED
        BY <4>1
    <3>2. CASE j < build.i \/ build.k > 1
      BY <2>4, <2>6, <3>2
    <3>3. CASE j = build.i /\ build.k = 1
      BY <2>5, <3>3
    <3> QED
      BY <3>1, <3>2, <3>3
  <2>8. PICK b : b = build'
    OBVIOUS
  <2>9. /\ b \in BuildsUnderway /\ b.pc \in {"splits", "lockbox"} /\ b.release = r /\ b.size = build.size
        /\ b.pc = "splits" => b.k \in 1..4
        /\ b.pc = "lockbox" => b.i = 1
        /\ \A j \in DOMAIN Targets : (b.pc = "splits" => j < b.i \/ b.k > 1) => SplitOK(next, r, Targets[j])
    <3>1. CASE build.i < Len(Targets)
      <4>1. build.i + 1 \in DOMAIN Targets
        BY <1>1, <3>1, PlaceFacts
      <4>2. b = At("splits", build.i + 1, build.k)
        BY <1>4, <2>8, <3>1
      <4>3. /\ b \in BuildsUnderway /\ b.pc = "splits" /\ b.i = build.i + 1 /\ b.k = build.k
            /\ b.release = r /\ b.size = build.size
        BY <1>1, <4>1, <4>2, AtFacts
      <4>4. \A j \in DOMAIN Targets : j < build.i + 1 => j <= build.i
        BY <1>1, TargetsFacts
      <4> QED
        BY <1>2, <2>1, <2>7, <4>3, <4>4
    <3>2. CASE ~(build.i < Len(Targets)) /\ build.k < Len(Splits)
      <4>1. 1 \in DOMAIN Targets /\ \A j \in DOMAIN Targets : j <= build.i
        BY <1>1, <3>2, TargetsFacts
      <4>2. b = At("splits", 1, build.k + 1)
        BY <1>4, <2>8, <3>2
      <4>3. /\ b \in BuildsUnderway /\ b.pc = "splits" /\ b.i = 1 /\ b.k = build.k + 1
            /\ b.release = r /\ b.size = build.size
        BY <1>1, <4>1, <4>2, AtFacts
      <4>4. build.k + 1 \in 1..4
        BY <1>1, <2>1, <3>2
      <4> QED
        BY <2>7, <4>1, <4>3, <4>4
    <3>3. CASE ~(build.i < Len(Targets)) /\ ~(build.k < Len(Splits))
      <4>1. 1 \in DOMAIN Targets /\ \A j \in DOMAIN Targets : j <= build.i
        BY <1>1, <3>3, TargetsFacts
      <4>2. b = At("lockbox", 1, 1)
        BY <1>4, <2>8, <3>3
      <4>3. /\ b \in BuildsUnderway /\ b.pc = "lockbox" /\ b.i = 1 /\ b.k = 1
            /\ b.release = r /\ b.size = build.size
        BY <1>1, <4>1, <4>2, AtFacts
      <4> QED
        BY <2>7, <4>1, <4>3
    <3> QED
      BY <3>1, <3>2, <3>3
  <2>10. BuildIs(b) /\ SplitsOK(next, b)
    BY <2>1, <2>9 DEF BuildIs, SplitsOK
  <2>11. BoxesOK(lockbox, b)
    <3>1. \A j \in DOMAIN Targets : ~(j < 1)
      BY TargetsFacts
    <3> QED
      BY <2>9, <3>1 DEF BoxesOK
  <2>12. PartsOK(parts, b)
    <3>1. PartsOK(parts, build) /\ build.pc # "tasks" /\ b.pc # "tasks"
      BY <1>1, <2>9 DEF BenchmarkInv
    <3> QED
      BY <1>1, <2>9, <3>1, PartsStay
  <2> QED
    BY <1>2, <1>4, <2>2, <2>8, <2>10, <2>11, <2>12 DEF BenchmarkInv
<1> QED
  BY <1>1, <1>3, <1>4 DEF WriteSplit

LEMMA WriteLockboxStep == ASSUME BenchmarkInv, WriteLockbox PROVE BenchmarkInv'
<1> DEFINE r == build.release
           t == Targets[build.i]
           retained == Fresh(splits[<<"listing", t>>].hidden, r)
           next == [lockbox EXCEPT ![t] = [hidden |-> retained]]
<1>1. /\ build \in BuildsUnderway /\ build.pc = "lockbox" /\ r \in Releases
      /\ build.i \in DOMAIN Targets /\ build.k \in Nat \ {0} /\ t \in ToSet(Targets) /\ Target = t
  BY BuildFacts DEF WriteLockbox, Doing
<1>2. UNCHANGED <<parts, splits, manifest>>
  BY DEF WriteLockbox
<1>3. CASE build' = NoBuild /\ UNCHANGED lockbox
  BY <1>2, <1>3, NotUnderway DEF BenchmarkInv
<1>4. CASE /\ retained # {} /\ lockbox' = next
           /\ build' = IF build.i < Len(Targets) THEN At("lockbox", build.i + 1, 1) ELSE At("publish", 1, 1)
  <2>1. FilesAre(parts, splits, lockbox) /\ FilesAre(parts, splits, next)
    BY DEF BenchmarkInv, FilesAre
  <2>2. \A j \in DOMAIN Targets : SplitOK(splits, r, Targets[j])
    BY <1>1 DEF BenchmarkInv, SplitsOK
  <2>3. retained = Fresh(Chronological(CasesOf(r, t)).hidden, r)
    BY <1>1, <2>2 DEF SplitOK
  <2>4. next[t] = [hidden |-> retained] /\ \A u \in ToSet(Targets) : u # t => next[u] = lockbox[u]
    BY <1>1, <2>1 DEF FilesAre
  <2>5. BoxOK(next, r, t)
    BY <1>4, <2>3, <2>4 DEF BoxOK
  <2>6. \A j \in DOMAIN Targets : j < build.i => BoxOK(lockbox, r, Targets[j])
    BY <1>1 DEF BenchmarkInv, BoxesOK
  <2> HIDE DEF next, retained
  <2>7. \A j \in DOMAIN Targets : j <= build.i => BoxOK(next, r, Targets[j])
    <3> SUFFICES ASSUME NEW j \in DOMAIN Targets, j <= build.i PROVE BoxOK(next, r, Targets[j])
      OBVIOUS
    <3>1. CASE Targets[j] = t
      BY <2>5, <3>1
    <3>2. CASE Targets[j] # t
      <4>1. j < build.i /\ Targets[j] \in ToSet(Targets)
        <5>1. j <= build.i => j < build.i \/ j = build.i
          BY <1>1, PlaceFacts
        <5> QED
          BY <3>2, <5>1, TargetsFacts
      <4> QED
        BY <2>4, <2>6, <3>2, <4>1 DEF BoxOK
    <3> QED
      BY <3>1, <3>2
  <2>8. PICK b : b = build'
    OBVIOUS
  <2>9. /\ b \in BuildsUnderway /\ b.pc \in {"lockbox", "publish"} /\ b.release = r /\ b.size = build.size
        /\ \A j \in DOMAIN Targets : (j < b.i \/ b.pc = "publish") => BoxOK(next, r, Targets[j])
    <3>1. CASE build.i < Len(Targets)
      <4>1. build.i + 1 \in DOMAIN Targets
        BY <1>1, <3>1, PlaceFacts
      <4>2. b = At("lockbox", build.i + 1, 1)
        BY <1>4, <2>8, <3>1
      <4>3. /\ b \in BuildsUnderway /\ b.pc = "lockbox" /\ b.i = build.i + 1
            /\ b.release = r /\ b.size = build.size
        BY <1>1, <4>1, <4>2, AtFacts
      <4>4. \A j \in DOMAIN Targets : j < build.i + 1 => j <= build.i
        BY <1>1, TargetsFacts
      <4> QED
        BY <2>7, <4>3, <4>4
    <3>2. CASE ~(build.i < Len(Targets))
      <4>1. 1 \in DOMAIN Targets /\ \A j \in DOMAIN Targets : j <= build.i
        BY <1>1, <3>2, TargetsFacts
      <4>2. b = At("publish", 1, 1)
        BY <1>4, <2>8, <3>2
      <4>3. /\ b \in BuildsUnderway /\ b.pc = "publish" /\ b.release = r /\ b.size = build.size
        BY <1>1, <4>1, <4>2, AtFacts
      <4> QED
        BY <2>7, <4>1, <4>3
    <3> QED
      BY <3>1, <3>2
  <2>10. BuildIs(b) /\ SplitsOK(splits, b) /\ BoxesOK(next, b)
    BY <2>2, <2>9 DEF BuildIs, SplitsOK, BoxesOK
  <2>11. PartsOK(parts, b)
    <3>1. PartsOK(parts, build) /\ build.pc # "tasks" /\ b.pc # "tasks"
      BY <1>1, <2>9 DEF BenchmarkInv
    <3> QED
      BY <1>1, <2>9, <3>1, PartsStay
  <2> QED
    BY <1>2, <1>4, <2>1, <2>8, <2>10, <2>11 DEF BenchmarkInv
<1> QED
  BY <1>1, <1>3, <1>4 DEF WriteLockbox

LEMMA PublishFilesStep == ASSUME BenchmarkInv, PublishFiles PROVE BenchmarkInv'
<1>1. build \in BuildsUnderway /\ build.pc = "publish" /\ build.release \in Releases
  BY BuildFacts DEF PublishFiles, Doing
<1>2. /\ manifest' = [release |-> build.release, splits |-> splits, lockbox |-> lockbox]
      /\ build' = NoBuild /\ UNCHANGED <<parts, splits, lockbox>>
  BY DEF PublishFiles
<1>3. \A j \in DOMAIN Targets : SplitOK(splits, build.release, Targets[j]) /\ BoxOK(lockbox, build.release, Targets[j])
  BY <1>1 DEF BenchmarkInv, SplitsOK, BoxesOK
<1>4. PICK m : m = [release |-> build.release, splits |-> splits, lockbox |-> lockbox]
  OBVIOUS
<1>5. \A t \in ToSet(Targets) : SplitOK(m.splits, m.release, t) /\ BoxOK(m.lockbox, m.release, t)
  BY <1>3, <1>4, TargetsFacts
<1>6. ManifestOK(m)
  BY <1>1, <1>4, <1>5 DEF ManifestOK
<1>7. manifest' = m
  BY <1>2, <1>4
<1> QED
  BY <1>2, <1>6, <1>7, NotUnderway DEF BenchmarkInv

LEMMA DieStep == ASSUME BenchmarkInv, Die PROVE BenchmarkInv'
<1>1. build' = NoBuild /\ UNCHANGED <<splits, lockbox, manifest>>
  BY DEF Die
<1>2. CASE UNCHANGED parts
  BY <1>1, <1>2, NotUnderway DEF BenchmarkInv
<1>3. CASE /\ Doing("tasks")
           /\ \E n \in 0..build.size :
                LET rows == PartRows(CasesOf(build.release, Target), build.size, build.k)
                IN  /\ n < Len(rows)
                    /\ parts' = [parts EXCEPT ![Target] = PutFile(@, build.k, SubSeq(rows, 1, n))]
  <2>1. /\ build \in BuildsUnderway /\ build.k \in Nat \ {0} /\ Target = Targets[build.i]
        /\ Target \in ToSet(Targets) /\ build.pc = "tasks"
    BY <1>3, BuildFacts DEF Doing
  <2>2. PICK rows : parts' = [parts EXCEPT ![Target] = PutFile(@, build.k, rows)]
    BY <1>3
  <2>3. /\ parts = [t \in ToSet(Targets) |-> parts[t]] /\ \A t \in ToSet(Targets) : AnySequence(parts[t])
        /\ splits = [n \in Named |-> splits[n]] /\ lockbox = [t \in ToSet(Targets) |-> lockbox[t]]
    BY DEF BenchmarkInv, FilesAre
  <2>4. AnySequence(PutFile(parts[Target], build.k, rows))
    <3>1. WrittenTo(parts, build.release, build.size, Target, build.k - 1)
      BY <2>1 DEF BenchmarkInv, PartsOK
    <3>2. AnySequence(parts[Target])
      BY <2>1, <2>3
    <3>3. Len(parts[Target]) \in Nat
      BY <3>2 DEF AnySequence
    <3>4. build.k <= Len(parts[Target]) + 1
      BY <2>1, <3>1, <3>3 DEF WrittenTo
    <3> QED
      BY <2>1, <3>2, <3>4, PutFileFacts
  <2>5. PICK next : next = parts'
    OBVIOUS
  <2>6. FilesAre(next, splits, lockbox)
    <3>1. next = [t \in ToSet(Targets) |-> next[t]]
      BY <2>2, <2>3, <2>5
    <3>2. \A t \in ToSet(Targets) : AnySequence(next[t])
      BY <2>1, <2>2, <2>3, <2>4, <2>5
    <3> QED
      BY <2>3, <3>1, <3>2 DEF FilesAre
  <2> QED
    BY <1>1, <2>5, <2>6, NotUnderway DEF BenchmarkInv
<1> QED
  BY <1>2, <1>3 DEF Die

LEMMA BenchmarkSteps == BenchmarkInv /\ [BenchmarkNext]_benchmarkVars => BenchmarkInv'
<1> SUFFICES ASSUME BenchmarkInv, [BenchmarkNext]_benchmarkVars PROVE BenchmarkInv'
  OBVIOUS
<1>1. ASSUME NEW r \in Releases, NEW size \in Sizes, StartBuild(r, size) PROVE BenchmarkInv'
  BY <1>1, StartBuildStep
<1>2. CASE WritePart
  BY <1>2, WritePartStep
<1>3. CASE WriteSplit
  BY <1>3, WriteSplitStep
<1>4. CASE WriteLockbox
  BY <1>4, WriteLockboxStep
<1>5. CASE PublishFiles
  BY <1>5, PublishFilesStep
<1>6. CASE Die
  BY <1>6, DieStep
<1>7. CASE UNCHANGED benchmarkVars
  BY <1>7 DEF benchmarkVars, BenchmarkInv
<1> QED
  BY <1>1, <1>2, <1>3, <1>4, <1>5, <1>6, <1>7 DEF BenchmarkNext

\* At every moment of every build, after any number of builds and deaths, the partitions
\* before the one being written are those of this release, and so are the splits and the
\* lockboxes that come before the one being written; what the manifest names belongs to one
\* release (build_offerlab_benchmark_v2).
THEOREM BenchmarkInvariant == BenchmarkSpec => []BenchmarkInv
<1>1. BenchmarkInit => BenchmarkInv
  BY BenchmarkInitInv
<1>2. BenchmarkInv /\ [BenchmarkNext]_benchmarkVars => BenchmarkInv'
  BY BenchmarkSteps
<1> QED
  BY <1>1, <1>2, PTL DEF BenchmarkSpec

\* For any releases, sizes of a partition, builds and deaths: at the end of a build a reader
\* gets each case of the release once and in time, unless a longer build left partitions
\* behind, and a lockbox the manifest names is hidden from what was shown or comes before it
\* (_write_public_task_files, _write_fresh_hidden_lockbox, read_v2_task_rows).
THEOREM BenchmarkIsSound == BenchmarkSpec => []BenchmarkSound
<1>1. BenchmarkInv => RowsReadOnce
  <2> SUFFICES ASSUME BenchmarkInv, Doing("publish"), NEW t \in ToSet(Targets),
                      ~(Len(parts[t]) > PartsNeeded(CasesOf(build.release, t), build.size))
               PROVE  RowsRead(t) = InTime(CasesOf(build.release, t))
    BY DEF RowsReadOnce
  <2>1. build \in BuildsUnderway /\ build.pc = "publish" /\ build.release \in Releases /\ build.size \in Sizes
    BY BuildFacts DEF Doing
  <2>2. WrittenTo(parts, build.release, build.size, t, Needed(build.release, build.size, t))
    BY <2>1, TargetsFacts DEF BenchmarkInv, PartsOK
  <2> DEFINE cases == CasesOf(build.release, t)
  <2>3. CasesOK(cases) /\ build.size \in Nat \ {0} /\ PartsNeeded(cases, build.size) \in Nat
    BY <2>1, ReleaseCases, NeededFacts DEF Needed
  <2>4. Len(parts[t]) \in Nat
    BY DEF BenchmarkInv, FilesAre, AnySequence
  <2>5. /\ PartsNeeded(cases, build.size) <= Len(parts[t])
        /\ \A k \in 1..PartsNeeded(cases, build.size) : parts[t][k] = PartRows(cases, build.size, k)
    BY <2>2 DEF WrittenTo, Needed
  <2> HIDE DEF cases
  <2>6. Len(parts[t]) = PartsNeeded(cases, build.size)
    BY <2>3, <2>4, <2>5 DEF cases
  <2>7. FlattenSeq(parts[t]) = InTime(cases)
    BY <2>3, <2>5, <2>6, PartsAreWhole
  <2> QED
    BY <2>7 DEF RowsRead, cases
<1>2. BenchmarkInv => LockboxFresh
  <2> SUFFICES ASSUME BenchmarkInv, manifest # NoFile, NEW t \in ToSet(Targets)
               PROVE  LET cases == CasesOf(manifest.release, t)
                          split == manifest.splits[<<"listing", t>>]
                          box == {c \in cases : c.id \in manifest.lockbox[t].hidden}
                          seen == {c \in cases : c.id \in split.train \cup split.development}
                      IN  /\ box # {} /\ \A c \in box : c.id \notin manifest.release.v1
                          /\ \A c \in box, d \in seen : d.time <= c.time /\ d.listing # c.listing
    BY DEF LockboxFresh
  <2> DEFINE cases == CasesOf(manifest.release, t)
             split == manifest.splits[<<"listing", t>>]
             hidden == manifest.lockbox[t].hidden
  <2>1. /\ manifest.release \in Releases /\ split = Chronological(cases)
        /\ hidden = Fresh(Chronological(cases).hidden, manifest.release) /\ hidden # {}
    BY DEF BenchmarkInv, ManifestOK, SplitOK, BoxOK
  <2>2. CasesOK(cases)
    BY <2>1, ReleaseCases
  <2> HIDE DEF cases, split, hidden
  <2>3. hidden = Chronological(cases).hidden \ manifest.release.v1
    BY <2>1 DEF Fresh
  <2>4. \A x \in Chronological(cases).hidden : \E c \in cases : c.id = x
    <3>1. InTime(cases) \in Seq(cases) /\ \A i \in DOMAIN InTime(cases) : InTime(cases)[i] \in cases
      BY <2>2, InTimeFacts
    <3>2. \A x \in Chronological(cases).hidden : \E i \in DOMAIN InTime(cases) : x = InTime(cases)[i].id
      BY DEF Chronological, Regions
    <3> QED
      BY <3>1, <3>2
  <2>5. \E c \in cases : c.id \in hidden
    BY <2>1, <2>3, <2>4
  <2>6. \A c \in cases : c.id \in hidden => c.id \notin manifest.release.v1
    BY <2>3
  <2>7. ASSUME NEW c \in cases, NEW d \in cases, c.id \in hidden, d.id \in split.train \cup split.development
        PROVE  d.time <= c.time /\ d.listing # c.listing
    BY <2>1, <2>2, <2>3, <2>7, HiddenIsApart
  <2> QED
    BY <2>5, <2>6, <2>7 DEF cases, split, hidden
<1>3. BenchmarkInv => BenchmarkSound
  BY <1>1, <1>2 DEF BenchmarkSound
<1> QED
  BY <1>3, BenchmarkInvariant, PTL

-----------------------------------------------------------------------------
(* The restriction passes.                                                 *)

\* The rows a program takes in, and those of a thread.
ThreadOf(m) == <<m.row.listing, m.row.buyer>>
InputOf(src, there, program) ==
  IF program = "forensics" THEN InRead(src)
  ELSE IF there THEN {i \in InRead(src) : Known(src[i])} ELSE DOMAIN src
TakenFrom(src, there, program) == {[row |-> src[i], place |-> i] : i \in InputOf(src, there, program)}
InThread(taken, key) == {m \in taken : ThreadOf(m) = key}

\* The flags of the listings of some threads.
ViolatedIn(program, taken, key) == Violations(program, InThread(taken, key), key[1])
FlagsFound(program, taken, keys, l) == UNION {ViolatedIn(program, taken, k) : k \in {j \in keys : j[1] = l}}
IsTable(table) == table = [l \in DOMAIN table |-> table[l]]
TableIs(table, program, taken, keys) ==
  /\ IsTable(table)
  /\ DOMAIN table = {k[1] : k \in keys}
  /\ \A l \in DOMAIN table : table[l] = FlagsFound(program, taken, keys, l)

\* The threads of a bucket, upserted one after the other.
Folded(program, in, base, keys) ==
  FoldLeft(LAMBDA table, key : Merged(table, key[1], Violations(program, {m \in in : <<m.row.listing, m.row.buyer>> = key}, key[1])),
           base, keys)

WithFlagsOf(program, in, base, keys) ==
  [l \in DOMAIN base \cup {k[1] : k \in keys} |->
     (IF l \in DOMAIN base THEN base[l] ELSE {}) \cup FlagsFound(program, in, keys, l)]

\* Some threads more, one after the other in any order.
LEMMA MergedAll ==
  ASSUME NEW program, NEW in, NEW K, IsFiniteSet(K), NEW base, IsTable(base)
  PROVE  Folded(program, in, base, SetToSeq(K)) = WithFlagsOf(program, in, base, K)
<1> DEFINE n == Cardinality(K)
           keys == SetToSeq(K)
           D == DOMAIN keys
           viol(key) == Violations(program, {m \in in : <<m.row.listing, m.row.buyer>> = key}, key[1])
           Body(g) == [T \in SUBSET D |-> IF T = {} THEN base
                                          ELSE Merged(g[T \ {Max(T)}], keys[Max(T)][1], viol(keys[Max(T)]))]
           iter == CHOOSE g : g = Body(g)
           Keys(T) == {keys[x] : x \in T}
           closed == [T \in SUBSET D |->
                        [l \in DOMAIN base \cup {k[1] : k \in Keys(T)} |->
                           (IF l \in DOMAIN base THEN base[l] ELSE {}) \cup UNION {viol(k) : k \in {j \in Keys(T) : j[1] = l}}]]
<1>1. n \in Nat /\ D = 1..n /\ IsFiniteSet(D) /\ Keys(D) = K
  <2>1. n \in Nat /\ keys \in [1..n -> K] /\ \A k \in K : \E i \in 1..n : keys[i] = k
    BY SetToSeqFacts
  <2> HIDE DEF keys, n
  <2> QED
    BY <2>1, FS_Interval
<1>2. Folded(program, in, base, keys) = iter[D]
  BY DEF Folded, FoldLeft, MapThenFoldSet
<1> HIDE DEF keys, viol, n
<1>3. ASSUME NEW T \in SUBSET D, T # {} PROVE Max(T) \in T
  BY <1>1, <1>3, MaxFacts
<1>4. closed = Body(closed)
  <2>0. base = [l \in DOMAIN base |-> base[l]]
    BY DEF IsTable
  <2>1. closed[{}] = base
    BY <2>0 DEF Merged
  <2>2. ASSUME NEW T \in SUBSET D, T # {}
        PROVE  closed[T] = Merged(closed[T \ {Max(T)}], keys[Max(T)][1], viol(keys[Max(T)]))
    <3>1. PICK x : x = Max(T)
      OBVIOUS
    <3>2. x \in T /\ T \ {x} \in SUBSET D
      BY <1>3, <2>2, <3>1
    <3>3. Keys(T) = Keys(T \ {x}) \cup {keys[x]}
      BY <3>2
    <3> DEFINE tab == closed[T \ {x}]
    <3>4. /\ DOMAIN tab = DOMAIN base \cup {k[1] : k \in Keys(T \ {x})}
          /\ \A l \in DOMAIN tab :
               tab[l] = (IF l \in DOMAIN base THEN base[l] ELSE {}) \cup UNION {viol(k) : k \in {j \in Keys(T \ {x}) : j[1] = l}}
      BY <3>2
    <3>5. /\ DOMAIN closed[T] = DOMAIN base \cup {k[1] : k \in Keys(T)}
          /\ closed[T] = [l \in DOMAIN closed[T] |-> closed[T][l]]
          /\ \A l \in DOMAIN closed[T] :
               closed[T][l] = (IF l \in DOMAIN base THEN base[l] ELSE {}) \cup UNION {viol(k) : k \in {j \in Keys(T) : j[1] = l}}
      OBVIOUS
    <3> HIDE DEF tab, closed
    <3>6. DOMAIN closed[T] = DOMAIN tab \cup {keys[x][1]}
      BY <3>3, <3>4, <3>5
    <3>7. ASSUME NEW l \in DOMAIN closed[T]
          PROVE  closed[T][l] = (IF l \in DOMAIN tab THEN tab[l] ELSE {})
                                  \cup (IF l = keys[x][1] THEN viol(keys[x]) ELSE {})
      <4> DEFINE A(S) == UNION {viol(k) : k \in {j \in Keys(S) : j[1] = l}}
      <4>1. A(T) = A(T \ {x}) \cup (IF l = keys[x][1] THEN viol(keys[x]) ELSE {})
        <5>1. CASE l = keys[x][1]
          <6>1. {j \in Keys(T) : j[1] = l} = {j \in Keys(T \ {x}) : j[1] = l} \cup {keys[x]}
            BY <3>3, <5>1
          <6> QED
            BY <5>1, <6>1
        <5>2. CASE l # keys[x][1]
          <6>1. {j \in Keys(T) : j[1] = l} = {j \in Keys(T \ {x}) : j[1] = l}
            BY <3>3, <5>2
          <6> QED
            BY <5>2, <6>1
        <5> QED
          BY <5>1, <5>2
      <4>2. closed[T][l] = (IF l \in DOMAIN base THEN base[l] ELSE {}) \cup A(T)
        BY <3>5
      <4>3. CASE l \in DOMAIN tab
        <5>1. tab[l] = (IF l \in DOMAIN base THEN base[l] ELSE {}) \cup A(T \ {x})
          BY <3>4, <4>3
        <5> HIDE DEF A
        <5> QED
          BY <4>1, <4>2, <4>3, <5>1
      <4>4. CASE l \notin DOMAIN tab
        <5>1. l \notin DOMAIN base /\ A(T \ {x}) = {}
          BY <3>4, <4>4
        <5> HIDE DEF A
        <5> QED
          BY <4>1, <4>2, <4>4, <5>1
      <4> QED
        BY <4>3, <4>4
    <3>8. closed[T] = Merged(tab, keys[x][1], viol(keys[x]))
      <4> DEFINE new == Merged(tab, keys[x][1], viol(keys[x]))
      <4>1. new = [l \in DOMAIN closed[T] |->
                     (IF l \in DOMAIN tab THEN tab[l] ELSE {}) \cup (IF l = keys[x][1] THEN viol(keys[x]) ELSE {})]
        BY <3>6 DEF Merged
      <4> HIDE DEF new
      <4>2. new = [l \in DOMAIN closed[T] |-> closed[T][l]]
        BY <3>7, <4>1
      <4> QED
        BY <3>5, <4>2 DEF new
    <3> QED
      BY <3>1, <3>8 DEF tab
  <2>3. closed = [T \in SUBSET D |-> closed[T]]
    OBVIOUS
  <2> HIDE DEF closed
  <2> QED
    BY <2>1, <2>2, <2>3
<1> HIDE DEF Body
<1>5. iter = Body(iter)
  <2> HIDE DEF closed
  <2> QED BY <1>4
<1> HIDE DEF iter
<1>6. ASSUME NEW g, g = Body(g)
      PROVE  /\ g[{}] = base
             /\ \A T \in SUBSET D : T # {} => g[T] = Merged(g[T \ {Max(T)}], keys[Max(T)][1], viol(keys[Max(T)]))
  BY <1>6 DEF Body
<1>7. closed[D] = iter[D]
  <2>1. /\ closed[{}] = base
        /\ \A T \in SUBSET D : T # {} => closed[T] = Merged(closed[T \ {Max(T)}], keys[Max(T)][1], viol(keys[Max(T)]))
    <3> HIDE DEF closed
    <3> QED BY <1>4, <1>6
  <2>2. /\ iter[{}] = base
        /\ \A T \in SUBSET D : T # {} => iter[T] = Merged(iter[T \ {Max(T)}], keys[Max(T)][1], viol(keys[Max(T)]))
    BY <1>5, <1>6
  <2> HIDE DEF closed, D
  <2>3. Alike(closed, iter, D)
    BY <1>3, <2>1, <2>2 DEF Alike
  <2>4. IsFiniteSet(D) /\ closed[{}] = iter[{}]
    BY <1>1, <2>1, <2>2
  <2>5. \A T \in SUBSET D : closed[T] = iter[T]
    BY <2>3, <2>4, SetRecursionAgrees
  <2> QED
    BY <2>5
<1>8. closed[D] = [l \in DOMAIN base \cup {k[1] : k \in K} |->
                     (IF l \in DOMAIN base THEN base[l] ELSE {}) \cup UNION {viol(k) : k \in {j \in K : j[1] = l}}]
  <2>1. D \in SUBSET D
    OBVIOUS
  <2> HIDE DEF Keys
  <2> QED
    BY <1>1, <2>1
<1>9. \A k : viol(k) = ViolatedIn(program, in, k)
  BY DEF viol, ViolatedIn, InThread, ThreadOf
<1>10. \A l : UNION {viol(k) : k \in {j \in K : j[1] = l}} = FlagsFound(program, in, K, l)
  BY <1>9 DEF FlagsFound
<1> HIDE DEF closed
<1> QED
  BY <1>2, <1>7, <1>8, <1>10 DEF keys, WithFlagsOf

\* Rows taken in once each.
OnceEach(members) ==
  /\ IsFiniteSet(members)
  /\ \A m \in members : m.row \in Rows /\ m.place \in Nat
  /\ \A m, n \in members : m.row = n.row => m = n
RowsOf(members) == {m.row : m \in members}
Untied(R) == \A r, s \in R : r.time = s.time => r = s
NextIn(R, r) == {s \in R : s.time > r.time /\ \A q \in R : q.time > r.time => q.time >= s.time}
Unanswered(R, r) ==
  \/ r.type \in {0, 1} /\ \A s \in NextIn(R, r) : s.type # 2
  \/ r.type = 2 /\ \A s \in NextIn(R, r) : s.type # 1

\* Counting the members of a type counts their rows.
LEMMA CountOfRows ==
  ASSUME NEW members, OnceEach(members), NEW types
  PROVE  Cardinality({m \in members : m.row.type \in types})
           = Cardinality({r \in RowsOf(members) : r.type \in types})
<1> DEFINE A == {m \in members : m.row.type \in types}
           B == {r \in RowsOf(members) : r.type \in types}
           f == [m \in A |-> m.row]
<1>1. IsFiniteSet(A)
  BY FS_Subset DEF OnceEach
<1>2. f \in [A -> B]
  BY DEF RowsOf
<1>3. IsInjective(f)
  BY DEF IsInjective, OnceEach
<1>4. \A r \in B : \E m \in A : f[m] = r
  BY DEF RowsOf
<1> HIDE DEF A, B, f
<1>5. f \in Bijection(A, B)
  BY <1>2, <1>3, <1>4 DEF Bijection, Injection, Surjection
<1>6. Cardinality(B) = Cardinality(A)
  BY <1>1, <1>5, FS_Bijection DEF ExistsBijection
<1> QED
  BY <1>6 DEF A, B

\* Without ties a thread is sorted by time, whatever the program.
LEMMA InOrderFacts ==
  ASSUME NEW members, OnceEach(members), Untied(RowsOf(members)), NEW program
  PROVE  LET s == InOrder(program, members)
         IN  /\ Len(s) \in Nat /\ DOMAIN s = 1..Len(s) /\ \A i \in DOMAIN s : s[i] \in members
             /\ RowsOf(members) = {s[i].row : i \in DOMAIN s}
             /\ \A i \in DOMAIN s : s[i].row.time \in Nat
             /\ \A i, j \in DOMAIN s : i < j => s[i].row.time < s[j].row.time
<1> DEFINE lt == {p \in members \X members : SortsBefore(program, p[1], p[2])}
           n == Cardinality(members)
           s == InOrder(program, members)
<1>0. \A m \in members : m.row.time \in Nat /\ m.place \in Nat
  BY RestrictionAssumption DEF OnceEach
<1>1. \A m, o \in members : SortsBefore(program, m, o) <=> m.row.time < o.row.time
  <2> SUFFICES ASSUME NEW m \in members, NEW o \in members
               PROVE  SortsBefore(program, m, o) <=> m.row.time < o.row.time
    OBVIOUS
  <2>1. m.row.time = o.row.time => m = o
    BY DEF Untied, RowsOf, OnceEach
  <2>2. m = o => m.row = o.row /\ ~(m.place < o.place)
    BY <1>0
  <2> QED
    BY <1>0, <2>1, <2>2 DEF SortsBefore
<1>2. StrictOrder(members, lt)
  <2>1. \A m \in members : <<m, m>> \notin lt
    BY <1>0, <1>1
  <2>2. \A m, o \in members : m # o => <<m, o>> \in lt \/ <<o, m>> \in lt
    <3>1. \A m, o \in members : m.row.time = o.row.time => m = o
      BY DEF Untied, RowsOf, OnceEach
    <3> QED
      BY <1>0, <1>1, <3>1
  <2>3. \A m, o, q \in members : <<m, o>> \in lt /\ <<o, q>> \in lt => <<m, q>> \in lt
    <3> SUFFICES ASSUME NEW m \in members, NEW o \in members, NEW q \in members,
                        <<m, o>> \in lt, <<o, q>> \in lt
                 PROVE  <<m, q>> \in lt
      OBVIOUS
    <3>1. m.row.time < o.row.time /\ o.row.time < q.row.time
      BY <1>1
    <3>2. m.row.time < q.row.time
      BY <1>0, <3>1
    <3> QED
      BY <1>1, <3>2
  <2> HIDE DEF lt
  <2> QED
    BY <2>1, <2>2, <2>3 DEF StrictOrder
<1>3. ASSUME NEW m \in members PROVE Cardinality({o \in members : SortsBefore(program, o, m)}) = Rank(members, lt, m)
  <2>1. {o \in members : SortsBefore(program, o, m)} = {o \in members : <<o, m>> \in lt}
    OBVIOUS
  <2> QED
    BY <2>1 DEF Rank
<1>4. s = [i \in 1..n |-> CHOOSE m \in members : Cardinality({o \in members : SortsBefore(program, o, m)}) = i - 1]
  BY DEF InOrder
<1> HIDE DEF s, n, lt
<1>5. s = [i \in 1..n |-> s[i]]
  <2> DEFINE at(i) == CHOOSE m \in members : Cardinality({o \in members : SortsBefore(program, o, m)}) = i - 1
  <2>1. s = [i \in 1..n |-> at(i)]
    BY <1>4
  <2> HIDE DEF at
  <2> QED
    BY <2>1
<1>6. ASSUME NEW i \in 1..n, \E x \in members : Rank(members, lt, x) = i - 1
      PROVE  s[i] \in members /\ Rank(members, lt, s[i]) = i - 1
  <2>1. PICK x \in members : Rank(members, lt, x) = i - 1
    BY <1>6
  <2>2. s[i] = CHOOSE m \in members : Cardinality({o \in members : SortsBefore(program, o, m)}) = i - 1
    BY <1>4
  <2>3. s[i] \in members /\ Cardinality({o \in members : SortsBefore(program, o, s[i])}) = i - 1
    BY <1>3, <2>1, <2>2
  <2> QED
    BY <1>3, <2>3
<1>7. IsFiniteSet(members)
  BY DEF OnceEach
<1>8. Ranked(s, n, members, lt)
  BY <1>5, <1>6 DEF Ranked
<1>9. /\ n \in Nat /\ Len(s) = n /\ DOMAIN s = 1..n /\ \A i \in DOMAIN s : s[i] \in members
      /\ \A x \in members : \E i \in DOMAIN s : s[i] = x
      /\ \A i, j \in DOMAIN s : i < j => <<s[i], s[j]>> \in lt
  BY <1>2, <1>7, <1>8, RankedFacts DEF n
<1>10. RowsOf(members) = {s[i].row : i \in DOMAIN s}
  BY <1>9 DEF RowsOf
<1>11. \A i, j \in DOMAIN s : i < j => s[i].row.time < s[j].row.time
  BY <1>1, <1>9 DEF lt
<1> QED
  BY <1>0, <1>9, <1>10, <1>11 DEF s

\* The next row of a sorted thread is the next in time.
LEMMA NextRowIs ==
  ASSUME NEW s, Len(s) \in Nat, DOMAIN s = 1..Len(s),
         \A i \in DOMAIN s : s[i].row.time \in Nat,
         \A i, j \in DOMAIN s : i < j => s[i].row.time < s[j].row.time,
         NEW R, R = {s[i].row : i \in DOMAIN s}, NEW i \in DOMAIN s
  PROVE  NextIn(R, s[i].row) = IF i < Len(s) THEN {s[i + 1].row} ELSE {}
<1>1. \A j \in DOMAIN s : s[j].row.time > s[i].row.time <=> j > i
  <2> SUFFICES ASSUME NEW j \in DOMAIN s PROVE s[j].row.time > s[i].row.time <=> j > i
    OBVIOUS
  <2>1. j = i \/ j < i \/ i < j
    OBVIOUS
  <2>2. s[i].row.time \in Nat /\ s[j].row.time \in Nat /\ i \in Nat /\ j \in Nat
    OBVIOUS
  <2>3. (j < i => s[j].row.time < s[i].row.time) /\ (i < j => s[i].row.time < s[j].row.time)
    OBVIOUS
  <2> QED
    BY <2>1, <2>2, <2>3
<1>2. CASE ~(i < Len(s))
  BY <1>1, <1>2 DEF NextIn
<1>3. CASE i < Len(s)
  <2>1. i + 1 \in DOMAIN s /\ i + 1 > i
    BY <1>3
  <2>2. \A j \in DOMAIN s : j > i => j = i + 1 \/ i + 1 < j
    OBVIOUS
  <2>3. \A j \in DOMAIN s : j > i => s[j].row.time >= s[i + 1].row.time
    <3> SUFFICES ASSUME NEW j \in DOMAIN s, j > i PROVE s[j].row.time >= s[i + 1].row.time
      OBVIOUS
    <3>1. s[j].row.time \in Nat /\ s[i + 1].row.time \in Nat
      BY <2>1
    <3>2. j = i + 1 \/ s[i + 1].row.time < s[j].row.time
      BY <2>1, <2>2
    <3> QED
      BY <3>1, <3>2
  <2>4. s[i + 1].row \in NextIn(R, s[i].row)
    BY <1>1, <2>1, <2>3 DEF NextIn
  <2>5. ASSUME NEW q \in NextIn(R, s[i].row) PROVE q = s[i + 1].row
    <3>1. PICK j \in DOMAIN s : q = s[j].row /\ j > i
      BY <1>1, <2>5 DEF NextIn
    <3>2. s[i + 1].row.time >= s[j].row.time
      BY <1>1, <2>1, <2>5, <3>1 DEF NextIn
    <3>3. ~(i + 1 < j)
      <4>1. s[j].row.time \in Nat /\ s[i + 1].row.time \in Nat
        BY <2>1
      <4>2. i + 1 < j => s[i + 1].row.time < s[j].row.time
        BY <2>1
      <4> QED
        BY <3>2, <4>1, <4>2
    <3> QED
      BY <2>2, <3>1, <3>3
  <2> QED
    BY <1>3, <2>4, <2>5
<1> QED
  BY <1>2, <1>3

\* What it is for a countered row to be left unanswered (evaluate_thread_rows).
LEMMA AnsweredIs ==
  ASSUME NEW rows, NEW i
  PROVE  LET next == IF i < Len(rows) THEN rows[i + 1].row.type ELSE Missing
         IN  ~IsAnswered(rows, i) <=> \/ rows[i].row.type \in {0, 1} /\ next # 2
                                      \/ rows[i].row.type = 2 /\ next # 1
  BY DEF IsAnswered

\* The restrictions a thread violates, of the set of its rows.
FlagsTell(V, R, program, listing) ==
  LET start == IF listing \in DOMAIN Listings THEN Listings[listing].start ELSE Missing
  IN  /\ V \subseteq Flags
      /\ "T1" \in V <=> program = "replication" /\ start # Missing /\ \E r \in R : r.price > start
      /\ "T2buyer" \in V <=> Cardinality({r \in R : r.type \in {0, 1}}) > OfferLimit
      /\ "T2seller" \in V <=> Cardinality({r \in R : r.type \in {2}}) > OfferLimit
      /\ "T5" \in V <=> ~Untied(R)
      /\ Untied(R) => ("T3" \in V <=> \E r \in R : r.status = 7 /\ Unanswered(R, r))
      /\ Untied(R) => ("T4" \in V <=> \E r, q \in R : r.status \in {1, 9} /\ q.time > r.time)

LEMMA ThreadFlags ==
  ASSUME NEW members, OnceEach(members), NEW program, NEW listing
  PROVE  FlagsTell(Violations(program, members, listing), RowsOf(members), program, listing)
<1> DEFINE R == RowsOf(members)
           V == Violations(program, members, listing)
           start == IF listing \in DOMAIN Listings THEN Listings[listing].start ELSE Missing
           s == InOrder(program, members)
<1>1. V \subseteq Flags
  BY DEF Violations
<1>2. "T1" \in V <=> program = "replication" /\ start # Missing /\ \E r \in R : r.price > start
  BY DEF Violations, Flags, RowsOf
<1>3. "T2buyer" \in V <=> MoreThanAllowed(members, {0, 1})
  BY DEF Violations, Flags
<1>4. "T2seller" \in V <=> MoreThanAllowed(members, {2})
  BY DEF Violations, Flags
<1>5. "T3" \in V <=> \E i \in DOMAIN s : s[i].row.status = 7 /\ ~IsAnswered(s, i)
  BY DEF Violations, Flags
<1>6. "T4" \in V <=> \E i \in 1..(Len(s) - 1) : s[i].row.status \in {1, 9}
  BY DEF Violations, Flags
<1>7. "T5" \in V <=> \E m, n \in members : m # n /\ m.row.time = n.row.time
  BY DEF Violations, Flags
<1> HIDE DEF V, start, s
<1>8. "T2buyer" \in V <=> Cardinality({r \in R : r.type \in {0, 1}}) > OfferLimit
  BY <1>3, CountOfRows DEF MoreThanAllowed
<1>9. "T2seller" \in V <=> Cardinality({r \in R : r.type \in {2}}) > OfferLimit
  BY <1>4, CountOfRows DEF MoreThanAllowed
<1>10. "T5" \in V <=> ~Untied(R)
  BY <1>7 DEF OnceEach, RowsOf, Untied
<1>11. ASSUME Untied(R)
       PROVE  /\ "T3" \in V <=> \E r \in R : r.status = 7 /\ Unanswered(R, r)
              /\ "T4" \in V <=> \E r, q \in R : r.status \in {1, 9} /\ q.time > r.time
  <2>1. /\ Len(s) \in Nat /\ DOMAIN s = 1..Len(s) /\ R = {s[i].row : i \in DOMAIN s}
        /\ \A i \in DOMAIN s : s[i].row.time \in Nat
        /\ \A i, j \in DOMAIN s : i < j => s[i].row.time < s[j].row.time
    BY <1>11, InOrderFacts DEF s
  <2> HIDE DEF R
  <2>2. \A i \in DOMAIN s : NextIn(R, s[i].row) = IF i < Len(s) THEN {s[i + 1].row} ELSE {}
    BY <2>1, NextRowIs
  <2>3. ASSUME NEW i \in DOMAIN s PROVE ~IsAnswered(s, i) <=> Unanswered(R, s[i].row)
    <3>1. CASE i < Len(s)
      <4>1. NextIn(R, s[i].row) = {s[i + 1].row}
        BY <2>2, <3>1
      <4>2. ~IsAnswered(s, i) <=> \/ s[i].row.type \in {0, 1} /\ s[i + 1].row.type # 2
                                  \/ s[i].row.type = 2 /\ s[i + 1].row.type # 1
        BY <3>1, AnsweredIs
      <4> QED
        BY <4>1, <4>2 DEF Unanswered
    <3>2. CASE ~(i < Len(s))
      <4>1. NextIn(R, s[i].row) = {}
        BY <2>2, <3>2
      <4>2. ~IsAnswered(s, i) <=> \/ s[i].row.type \in {0, 1} /\ Missing # 2
                                  \/ s[i].row.type = 2 /\ Missing # 1
        BY <3>2, AnsweredIs
      <4> QED
        BY <4>1, <4>2 DEF Unanswered, Missing
    <3> QED
      BY <3>1, <3>2
  <2>4. "T3" \in V <=> \E r \in R : r.status = 7 /\ Unanswered(R, r)
    BY <1>5, <2>1, <2>3
  <2>5. "T4" \in V <=> \E r, q \in R : r.status \in {1, 9} /\ q.time > r.time
    <3>1. ASSUME NEW i \in 1..(Len(s) - 1), s[i].row.status \in {1, 9}
          PROVE  \E r, q \in R : r.status \in {1, 9} /\ q.time > r.time
      <4>1. i \in DOMAIN s /\ i + 1 \in DOMAIN s /\ i < i + 1
        BY <2>1
      <4>2. s[i + 1].row.time > s[i].row.time /\ s[i].row \in R /\ s[i + 1].row \in R
        BY <2>1, <4>1
      <4> QED
        BY <3>1, <4>2
    <3>2. ASSUME NEW r \in R, NEW q \in R, r.status \in {1, 9}, q.time > r.time
          PROVE  \E i \in 1..(Len(s) - 1) : s[i].row.status \in {1, 9}
      <4>1. PICK i \in DOMAIN s, j \in DOMAIN s : r = s[i].row /\ q = s[j].row
        BY <2>1
      <4>2. ~(j < i) /\ j # i
        <5>1. r.time \in Nat /\ q.time \in Nat /\ ~(q.time < r.time) /\ q.time # r.time
          BY <2>1, <3>2, <4>1
        <5> QED
          BY <2>1, <4>1, <5>1
      <4>3. i \in 1..(Len(s) - 1)
        BY <2>1, <4>1, <4>2
      <4> QED
        BY <3>2, <4>1, <4>3
    <3> QED
      BY <1>6, <3>1, <3>2
  <2> QED
    BY <2>4, <2>5
<1> QED
  BY <1>1, <1>2, <1>8, <1>9, <1>10, <1>11 DEF V, start, FlagsTell

\* The rows of a listing, and the threads, that a program takes in.
OfListing(taken, l) == {m \in taken : m.row.listing = l}
ThreadsIn(taken) == {ThreadOf(m) : m \in taken}

\* Of equal rows the first is read, and one of them always is.
LEMMA FirstOfEqual ==
  ASSUME NEW n \in Nat, NEW src \in [1..n -> Rows]
  PROVE  /\ InRead(src) \subseteq 1..n
         /\ \A i, j \in InRead(src) : src[i] = src[j] => i = j
         /\ \A i \in 1..n : \E j \in InRead(src) : src[j] = src[i]
<1>1. InRead(src) \subseteq 1..n
  BY DEF InRead
<1>2. ASSUME NEW i \in InRead(src), NEW j \in InRead(src), src[i] = src[j] PROVE i = j
  <2>1. i \in 1..n /\ j \in 1..n /\ ~(j \in 1..(i - 1)) /\ ~(i \in 1..(j - 1))
    BY <1>2 DEF InRead
  <2> QED
    BY <2>1
<1>3. ASSUME NEW i \in 1..n PROVE \E j \in InRead(src) : src[j] = src[i]
  <2> DEFINE S == {j \in 1..n : src[j] = src[i]}
  <2>1. S \subseteq Nat /\ S # {} /\ S \subseteq 1..n
    OBVIOUS
  <2>2. PICK j \in S : \A k \in S : j <= k
    <3> HIDE DEF S
    <3> QED BY <2>1, LeastOf
  <2>3. \A k \in 1..(j - 1) : k \in 1..n /\ k < j
    BY <2>1
  <2>4. \A k \in 1..(j - 1) : src[k] # src[j]
    BY <2>1, <2>2, <2>3
  <2>5. j \in InRead(src)
    BY <2>4 DEF InRead
  <2> QED
    BY <2>5
<1> QED
  BY <1>1, <1>2, <1>3

\* A program takes rows of the file; forensics takes one of each.
LEMMA TakenFacts ==
  ASSUME NEW n \in Nat, NEW src \in [1..n -> Rows], NEW there, NEW program
  PROVE  LET taken == TakenFrom(src, there, program)
         IN  /\ IsFiniteSet(taken) /\ \A m \in taken : m.row \in Rows /\ m.place \in Nat
             /\ program = "forensics" => OnceEach(taken) /\ RowsOf(taken) = {src[i] : i \in DOMAIN src}
<1> DEFINE I == InputOf(src, there, program)
           taken == TakenFrom(src, there, program)
           f == [i \in I |-> [row |-> src[i], place |-> i]]
<1>1. I \subseteq 1..n
  BY FirstOfEqual DEF InputOf
<1>2. taken = {[row |-> src[i], place |-> i] : i \in I}
  BY DEF TakenFrom
<1>3. IsFiniteSet(taken)
  <2>1. IsFiniteSet(I)
    BY <1>1, FS_Interval, FS_Subset
  <2>2. f \in Surjection(I, taken)
    <3>1. f \in [I -> taken] /\ \A m \in taken : \E i \in I : f[i] = m
      BY <1>2
    <3> HIDE DEF f, taken, I
    <3> QED BY <3>1 DEF Surjection
  <2> HIDE DEF f, taken, I
  <2> QED
    BY <2>1, <2>2, FS_Surjection
<1>4. \A m \in taken : m.row \in Rows /\ m.place \in Nat
  BY <1>1, <1>2
<1>5. ASSUME program = "forensics"
      PROVE  OnceEach(taken) /\ RowsOf(taken) = {src[i] : i \in DOMAIN src}
  <2>1. I = InRead(src)
    BY <1>5 DEF InputOf
  <2>2. ASSUME NEW m \in taken, NEW o \in taken, m.row = o.row PROVE m = o
    <3> HIDE DEF taken, I
    <3>1. PICK i \in InRead(src) : m = [row |-> src[i], place |-> i]
      BY <1>2, <2>1
    <3>2. PICK j \in InRead(src) : o = [row |-> src[j], place |-> j]
      BY <1>2, <2>1
    <3>3. i = j
      BY <2>2, <3>1, <3>2, FirstOfEqual
    <3> QED
      BY <3>1, <3>2, <3>3
  <2>3. RowsOf(taken) = {src[i] : i \in DOMAIN src}
    <3>0. taken = {[row |-> src[i], place |-> i] : i \in InRead(src)}
      BY <1>2, <2>1
    <3> HIDE DEF taken
    <3>1. \A m \in taken : \E i \in InRead(src) : m.row = src[i]
      BY <3>0
    <3>2. ASSUME NEW i \in InRead(src) PROVE src[i] \in RowsOf(taken)
      <4>1. PICK m \in taken : m = [row |-> src[i], place |-> i]
        BY <3>0
      <4> QED
        BY <4>1 DEF RowsOf
    <3>3. RowsOf(taken) = {src[i] : i \in InRead(src)}
      BY <3>1, <3>2 DEF RowsOf
    <3> QED
      BY <3>3, FirstOfEqual
  <2> QED
    BY <1>3, <1>4, <2>2, <2>3 DEF OnceEach
<1> QED
  BY <1>3, <1>4, <1>5

\* Of a listing whose rows the normalizer knows, replication takes what forensics takes.
LEMMA SameOfListing ==
  ASSUME NEW n \in Nat, NEW src \in [1..n -> Rows], NEW there, NEW l,
         there => \A i \in 1..n : src[i].listing = l => Known(src[i]),
         there \/ ~\E i, j \in 1..n : i < j /\ src[i] = src[j]
  PROVE  OfListing(TakenFrom(src, there, "replication"), l) = OfListing(TakenFrom(src, there, "forensics"), l)
<1> DEFINE of(program) == {i \in InputOf(src, there, program) : src[i].listing = l}
<1>1. InputOf(src, there, "forensics") = InRead(src) /\ InRead(src) \subseteq 1..n
  BY FirstOfEqual DEF InputOf
<1>2. of("replication") = of("forensics")
  <2>1. CASE there
    <3>1. InputOf(src, there, "replication") = {i \in InRead(src) : Known(src[i])}
      BY <2>1 DEF InputOf
    <3>2. \A i \in InRead(src) : src[i].listing = l => Known(src[i])
      BY <1>1, <2>1
    <3> QED
      BY <1>1, <3>1, <3>2
  <2>2. CASE ~there
    <3>1. InputOf(src, there, "replication") = 1..n
      BY <2>2 DEF InputOf
    <3>2. \A i \in 1..n : \A j \in 1..(i - 1) : j \in 1..n /\ j < i
      OBVIOUS
    <3>3. InRead(src) = 1..n
      BY <2>2, <3>2 DEF InRead
    <3> QED
      BY <1>1, <3>1, <3>3
  <2> QED
    BY <2>1, <2>2
<1>3. ASSUME NEW program
      PROVE  OfListing(TakenFrom(src, there, program), l) = {[row |-> src[i], place |-> i] : i \in of(program)}
  <2> DEFINE taken(i) == [row |-> src[i], place |-> i]
  <2>1. \A i : taken(i).row.listing = src[i].listing
    OBVIOUS
  <2>2. TakenFrom(src, there, program) = {taken(i) : i \in InputOf(src, there, program)}
    BY DEF TakenFrom
  <2> HIDE DEF taken
  <2>3. {m \in {taken(i) : i \in InputOf(src, there, program)} : m.row.listing = l} = {taken(i) : i \in of(program)}
    BY <2>1
  <2> QED
    BY <2>2, <2>3 DEF OfListing, taken
<1> QED
  BY <1>2, <1>3

\* The flags of a listing are found in the rows of it alone.
LEMMA FlagsOfListing ==
  ASSUME NEW program, NEW some, NEW others, NEW l, OfListing(some, l) = OfListing(others, l)
  PROVE  FlagsFound(program, some, ThreadsIn(some), l) = FlagsFound(program, others, ThreadsIn(others), l)
<1> DEFINE keys(taken) == {j \in ThreadsIn(taken) : j[1] = l}
<1>1. \A taken : keys(taken) = ThreadsIn(OfListing(taken, l))
  BY DEF ThreadsIn, OfListing, ThreadOf
<1>2. ASSUME NEW taken, NEW k \in keys(taken)
      PROVE  InThread(taken, k) = InThread(OfListing(taken, l), k)
  BY DEF InThread, OfListing, ThreadOf
<1>3. \A k \in keys(some) : ViolatedIn(program, some, k) = ViolatedIn(program, others, k)
  BY <1>1, <1>2 DEF ViolatedIn
<1>4. keys(some) = keys(others)
  BY <1>1
<1> QED
  BY <1>3, <1>4 DEF FlagsFound

\* The rows of one thread, and its flags among those of its listing.
LEMMA ThreadRows ==
  ASSUME NEW taken, OnceEach(taken), NEW l, NEW b
  PROVE  /\ OnceEach(InThread(taken, <<l, b>>))
         /\ RowsOf(InThread(taken, <<l, b>>)) = {r \in RowsOf(taken) : r.listing = l /\ r.buyer = b}
<1>1. InThread(taken, <<l, b>>) \subseteq taken /\ IsFiniteSet(InThread(taken, <<l, b>>))
  BY FS_Subset DEF InThread, OnceEach
<1>2. OnceEach(InThread(taken, <<l, b>>))
  BY <1>1 DEF OnceEach
<1>3. RowsOf(InThread(taken, <<l, b>>)) = {r \in RowsOf(taken) : r.listing = l /\ r.buyer = b}
  BY DEF RowsOf, InThread, ThreadOf
<1> QED
  BY <1>2, <1>3

BuyersOf(R, l) == {r.buyer : r \in {s \in R : s.listing = l}}
ThreadIn(R, l, b) == {r \in R : r.listing = l /\ r.buyer = b}

\* A flag of a listing is a flag of one of its threads.
LEMMA FoundIs ==
  ASSUME NEW taken, OnceEach(taken), NEW program, NEW l, NEW f
  PROVE  f \in FlagsFound(program, taken, ThreadsIn(taken), l) <=>
           \E b \in BuyersOf(RowsOf(taken), l) : f \in Violations(program, InThread(taken, <<l, b>>), l)
<1>1. {k \in ThreadsIn(taken) : k[1] = l} = {<<l, b>> : b \in BuyersOf(RowsOf(taken), l)}
  BY DEF ThreadsIn, ThreadOf, BuyersOf, RowsOf
<1>2. \A b : ViolatedIn(program, taken, <<l, b>>) = Violations(program, InThread(taken, <<l, b>>), l)
  BY DEF ViolatedIn
<1> QED
  BY <1>1, <1>2 DEF FlagsFound

\* The flags of a listing, in words of the rows taken in.
LEMMA ListingFlags ==
  ASSUME NEW taken, OnceEach(taken), NEW program, NEW l
  PROVE  LET R == RowsOf(taken)
             V == FlagsFound(program, taken, ThreadsIn(taken), l)
             start == IF l \in DOMAIN Listings THEN Listings[l].start ELSE Missing
             tied == \E b \in BuyersOf(R, l) : ~Untied(ThreadIn(R, l, b))
         IN  /\ V \subseteq Flags
             /\ "T1" \in V <=> /\ program = "replication" /\ start # Missing
                               /\ \E b \in BuyersOf(R, l) : \E r \in ThreadIn(R, l, b) : r.price > start
             /\ "T2buyer" \in V <=>
                  \E b \in BuyersOf(R, l) : Cardinality({r \in ThreadIn(R, l, b) : r.type \in {0, 1}}) > OfferLimit
             /\ "T2seller" \in V <=>
                  \E b \in BuyersOf(R, l) : Cardinality({r \in ThreadIn(R, l, b) : r.type \in {2}}) > OfferLimit
             /\ "T5" \in V <=> tied
             /\ ~tied => ("T3" \in V <=>
                  \E b \in BuyersOf(R, l) : \E r \in ThreadIn(R, l, b) :
                    r.status = 7 /\ Unanswered(ThreadIn(R, l, b), r))
             /\ ~tied => ("T4" \in V <=>
                  \E b \in BuyersOf(R, l) : \E r, q \in ThreadIn(R, l, b) :
                    r.status \in {1, 9} /\ q.time > r.time)
<1> DEFINE R == RowsOf(taken)
           V == FlagsFound(program, taken, ThreadsIn(taken), l)
           start == IF l \in DOMAIN Listings THEN Listings[l].start ELSE Missing
           Of(b) == Violations(program, InThread(taken, <<l, b>>), l)
<1>1. \A f : f \in V <=> \E b \in BuyersOf(R, l) : f \in Of(b)
  BY FoundIs
<1>2. ASSUME NEW b
      PROVE  LET T == ThreadIn(R, l, b)
             IN  /\ Of(b) \subseteq Flags
                 /\ "T1" \in Of(b) <=> program = "replication" /\ start # Missing /\ \E r \in T : r.price > start
                 /\ "T2buyer" \in Of(b) <=> Cardinality({r \in T : r.type \in {0, 1}}) > OfferLimit
                 /\ "T2seller" \in Of(b) <=> Cardinality({r \in T : r.type \in {2}}) > OfferLimit
                 /\ "T5" \in Of(b) <=> ~Untied(T)
                 /\ Untied(T) => ("T3" \in Of(b) <=> \E r \in T : r.status = 7 /\ Unanswered(T, r))
                 /\ Untied(T) => ("T4" \in Of(b) <=> \E r, q \in T : r.status \in {1, 9} /\ q.time > r.time)
  <2>1. OnceEach(InThread(taken, <<l, b>>)) /\ RowsOf(InThread(taken, <<l, b>>)) = ThreadIn(R, l, b)
    BY ThreadRows DEF ThreadIn
  <2>2. PICK M : M = InThread(taken, <<l, b>>)
    OBVIOUS
  <2>3. OnceEach(M) /\ RowsOf(M) = ThreadIn(R, l, b) /\ Of(b) = Violations(program, M, l)
    BY <2>1, <2>2
  <2> HIDE DEF R, Of
  <2>4. FlagsTell(Of(b), RowsOf(M), program, l)
    BY <2>3, ThreadFlags
  <2>5. FlagsTell(Of(b), ThreadIn(R, l, b), program, l)
    BY <2>3, <2>4
  <2> QED
    BY <2>5 DEF FlagsTell
<1> HIDE DEF V, Of, R, start
<1>3. V \subseteq Flags
  BY <1>1, <1>2
<1>4. "T1" \in V <=> /\ program = "replication" /\ start # Missing
                     /\ \E b \in BuyersOf(R, l) : \E r \in ThreadIn(R, l, b) : r.price > start
  BY <1>1, <1>2
<1>5. "T2buyer" \in V <=>
        \E b \in BuyersOf(R, l) : Cardinality({r \in ThreadIn(R, l, b) : r.type \in {0, 1}}) > OfferLimit
  BY <1>1, <1>2
<1>6. "T2seller" \in V <=>
        \E b \in BuyersOf(R, l) : Cardinality({r \in ThreadIn(R, l, b) : r.type \in {2}}) > OfferLimit
  BY <1>1, <1>2
<1>7. "T5" \in V <=> \E b \in BuyersOf(R, l) : ~Untied(ThreadIn(R, l, b))
  BY <1>1, <1>2
<1>8. ASSUME \A b \in BuyersOf(R, l) : Untied(ThreadIn(R, l, b))
      PROVE  /\ "T3" \in V <=> \E b \in BuyersOf(R, l) : \E r \in ThreadIn(R, l, b) :
                                 r.status = 7 /\ Unanswered(ThreadIn(R, l, b), r)
             /\ "T4" \in V <=> \E b \in BuyersOf(R, l) : \E r, q \in ThreadIn(R, l, b) :
                                 r.status \in {1, 9} /\ q.time > r.time
  BY <1>1, <1>2, <1>8
<1> QED
  BY <1>3, <1>4, <1>5, <1>6, <1>7, <1>8 DEF V, R, start

\* The threads of the buckets before one, and how far a program has come.
UpTo(taken, a) == {k \in ThreadsIn(taken) : BucketOf[k] < a}
ThroughWith(st, j) ==
  IF st.program < j THEN 0 ELSE IF st.program = j THEN st.at ELSE Cardinality(Buckets) + 1
BucketsOf(taken) == [b \in Buckets |-> {m \in taken : BucketOf[ThreadOf(m)] = b}]
FlagsIn(table, l) == IF l \in DOMAIN table THEN table[l] ELSE {}

IsRead(src) == \E n \in 0..MaxRows : src \in [1..n -> Rows]
IsStage(st) ==
  /\ st \in [program : 1..3, at : 0..(Cardinality(Buckets) + 1)]
  /\ st.program = 3 => st.at = 0

\* Between two steps a program's table holds the flags of the threads of the buckets done.
TablesSoFar(src, there, st, tables) ==
  /\ tables = [p \in ToSet(Programs) |-> tables[p]]
  /\ \A j \in 1..2 :
       TableIs(tables[Programs[j]], Programs[j], TakenFrom(src, there, Programs[j]),
               UpTo(TakenFrom(src, there, Programs[j]), ThroughWith(st, j)))
BucketsFilled(src, there, st, buckets) ==
  st.program <= 2 /\ st.at >= 1 => buckets = BucketsOf(TakenFrom(src, there, Programs[st.program]))
SampleBuilt(st, tables, sampled) ==
  st.program = 3 =>
    \A l \in DOMAIN Listings : sampled[l].withT5 <=> InSample(l, FlagsIn(tables["replication"], l))

RestrictionInv ==
  /\ IsRead(source) /\ kept \in BOOLEAN /\ IsStage(stage)
  /\ TablesSoFar(source, kept, stage, flags)
  /\ BucketsFilled(source, kept, stage, bucket)
  /\ SampleBuilt(stage, flags, sample)

\* Forensics is the first of the two programs, replication the second.
LEMMA ProgramNames ==
  /\ Len(Programs) = 2 /\ DOMAIN Programs = 1..2 /\ Programs[1] = "forensics" /\ Programs[2] = "replication"
  /\ ToSet(Programs) = {"forensics", "replication"}
<1>1. Len(Programs) = 2 /\ DOMAIN Programs = 1..2 /\ Programs[1] = "forensics" /\ Programs[2] = "replication"
  BY DEF Programs
<1>2. 1..2 = {1, 2}
  OBVIOUS
<1> QED
  BY <1>1, <1>2 DEF ToSet

\* A row falls into the bucket of its thread, one of a few.
LEMMA BucketOfRow ==
  ASSUME NEW r \in Rows
  PROVE  BucketOf[<<r.listing, r.buyer>>] \in 1..Cardinality(Buckets)
<1>1. <<r.listing, r.buyer>> \in Threads
  BY DEF Threads
<1>2. BucketOf[<<r.listing, r.buyer>>] \in Buckets
  BY <1>1 DEF Buckets
<1> QED
  BY <1>2, RestrictionAssumption

\* No thread is done before the first bucket, all are after the last, a bucket adds its own.
LEMMA UpToFacts ==
  ASSUME NEW taken, \A m \in taken : m.row \in Rows
  PROVE  /\ UpTo(taken, 0) = {} /\ UpTo(taken, 1) = {}
         /\ UpTo(taken, Cardinality(Buckets) + 1) = ThreadsIn(taken)
         /\ \A a \in Buckets :
              UpTo(taken, a + 1) = UpTo(taken, a) \cup ThreadsIn({m \in taken : BucketOf[ThreadOf(m)] = a})
<1>1. Cardinality(Buckets) \in Nat /\ Buckets \subseteq Nat
  BY RestrictionAssumption, FS_CardinalityType
<1>2. \A k \in ThreadsIn(taken) : BucketOf[k] \in 1..Cardinality(Buckets)
  BY BucketOfRow DEF ThreadsIn, ThreadOf
<1>3. UpTo(taken, 0) = {} /\ UpTo(taken, 1) = {}
  BY <1>1, <1>2 DEF UpTo
<1>4. UpTo(taken, Cardinality(Buckets) + 1) = ThreadsIn(taken)
  BY <1>1, <1>2 DEF UpTo
<1>5. ASSUME NEW a \in Buckets
      PROVE  UpTo(taken, a + 1) = UpTo(taken, a) \cup ThreadsIn({m \in taken : BucketOf[ThreadOf(m)] = a})
  <2>1. ThreadsIn({m \in taken : BucketOf[ThreadOf(m)] = a}) = {k \in ThreadsIn(taken) : BucketOf[k] = a}
    BY DEF ThreadsIn
  <2>2. \A k \in ThreadsIn(taken) : BucketOf[k] < a + 1 <=> BucketOf[k] < a \/ BucketOf[k] = a
    BY <1>1, <1>2
  <2> QED
    BY <2>1, <2>2 DEF UpTo
<1> QED
  BY <1>3, <1>4, <1>5

\* The flags of some threads more, read from the bucket they all lie in.
LEMMA BucketFolded ==
  ASSUME NEW program, NEW taken, IsFiniteSet(taken), \A m \in taken : m.row \in Rows,
         NEW a \in Buckets, NEW in, in = {m \in taken : BucketOf[ThreadOf(m)] = a},
         NEW base, TableIs(base, program, taken, UpTo(taken, a))
  PROVE  LET keys == SetToSeq({<<m.row.listing, m.row.buyer>> : m \in in})
         IN  TableIs(Folded(program, in, base, keys), program, taken, UpTo(taken, a + 1))
<1> DEFINE K == ThreadsIn(in)
           new == Folded(program, in, base, SetToSeq(K))
<1>1. IsFiniteSet(K)
  <2>1. IsFiniteSet(in)
    BY FS_Subset
  <2> DEFINE f == [m \in in |-> ThreadOf(m)]
  <2>2. f \in [in -> K] /\ \A k \in K : \E m \in in : f[m] = k
    BY DEF ThreadsIn
  <2> HIDE DEF f, K
  <2>3. f \in Surjection(in, K)
    BY <2>2 DEF Surjection
  <2> QED
    BY <2>1, <2>3, FS_Surjection
<1>2. K = {<<m.row.listing, m.row.buyer>> : m \in in}
  BY DEF ThreadsIn, ThreadOf
<1>3. IsTable(base)
  BY DEF TableIs
<1> HIDE DEF K
<1>4. new = [l \in DOMAIN base \cup {k[1] : k \in K} |->
               (IF l \in DOMAIN base THEN base[l] ELSE {}) \cup FlagsFound(program, in, K, l)]
  <2>1. new = WithFlagsOf(program, in, base, K)
    BY <1>1, <1>3, MergedAll
  <2> QED
    BY <2>1 DEF WithFlagsOf
<1> HIDE DEF new
<1> HIDE DEF new
<1>5. UpTo(taken, a + 1) = UpTo(taken, a) \cup K
  BY UpToFacts DEF K
<1>6. ASSUME NEW k \in K PROVE ViolatedIn(program, in, k) = ViolatedIn(program, taken, k)
  <2>1. PICK m \in in : k = ThreadOf(m)
    BY DEF K, ThreadsIn
  <2>2. InThread(in, k) = InThread(taken, k)
    BY <2>1 DEF InThread
  <2> QED
    BY <2>2 DEF ViolatedIn
<1>7. ASSUME NEW l
      PROVE  FlagsFound(program, taken, UpTo(taken, a + 1), l)
               = FlagsFound(program, taken, UpTo(taken, a), l) \cup FlagsFound(program, in, K, l)
  BY <1>5, <1>6 DEF FlagsFound
<1>8. ASSUME NEW l \in DOMAIN new PROVE new[l] = FlagsFound(program, taken, UpTo(taken, a + 1), l)
  <2>1. CASE l \in DOMAIN base
    <3>1. new[l] = base[l] \cup FlagsFound(program, in, K, l)
      BY <1>4, <1>8, <2>1
    <3>2. base[l] = FlagsFound(program, taken, UpTo(taken, a), l)
      BY <2>1 DEF TableIs
    <3> QED
      BY <1>7, <3>1, <3>2
  <2>2. CASE l \notin DOMAIN base
    <3>1. new[l] = FlagsFound(program, in, K, l)
      BY <1>4, <1>8, <2>2
    <3>2. FlagsFound(program, taken, UpTo(taken, a), l) = {}
      BY <2>2 DEF TableIs, FlagsFound
    <3> QED
      BY <1>7, <3>1, <3>2
  <2> QED
    BY <2>1, <2>2
<1>9. DOMAIN new = {k[1] : k \in UpTo(taken, a + 1)}
  BY <1>4, <1>5 DEF TableIs
<1>10. IsTable(new)
  BY <1>4 DEF IsTable
<1> QED
  BY <1>2, <1>8, <1>9, <1>10 DEF TableIs, new

\* The file is a sequence of rows.
LEMMA ReadIs == ASSUME NEW src, IsRead(src) PROVE \E n \in Nat : src \in [1..n -> Rows]
<1>1. PICK n \in 0..MaxRows : src \in [1..n -> Rows]
  BY DEF IsRead
<1> QED
  BY <1>1, RestrictionAssumption

\* A set of flags put together from five of them.
LEMMA FiveFlags ==
  ASSUME NEW D, NEW a, NEW b, NEW c, NEW d, NEW e,
         D = (IF a THEN {"T2buyer"} ELSE {}) \cup (IF b THEN {"T2seller"} ELSE {})
               \cup (IF c THEN {"T3"} ELSE {}) \cup (IF d THEN {"T4"} ELSE {}) \cup (IF e THEN {"T5"} ELSE {})
  PROVE  /\ D \subseteq Flags \ {"T1"}
         /\ "T2buyer" \in D <=> a
         /\ "T2seller" \in D <=> b
         /\ "T3" \in D <=> c
         /\ "T4" \in D <=> d
         /\ "T5" \in D <=> e
BY DEF Flags

TiedIn(R, l) == \E b \in BuyersOf(R, l) : ~Untied(ThreadIn(R, l, b))

\* What is defined of the rows is what is found in the threads, ties of time apart.
LEMMA DefinedIs ==
  ASSUME NEW l
  PROVE  /\ Defined(l) \subseteq Flags \ {"T1"}
         /\ "T2buyer" \in Defined(l) <=>
              \E b \in BuyersOf(Distinct, l) : Cardinality({r \in ThreadIn(Distinct, l, b) : r.type \in {0, 1}}) > OfferLimit
         /\ "T2seller" \in Defined(l) <=>
              \E b \in BuyersOf(Distinct, l) : Cardinality({r \in ThreadIn(Distinct, l, b) : r.type \in {2}}) > OfferLimit
         /\ "T3" \in Defined(l) <=>
              \E b \in BuyersOf(Distinct, l) : \E r \in ThreadIn(Distinct, l, b) :
                r.status = 7 /\ Unanswered(ThreadIn(Distinct, l, b), r)
         /\ "T4" \in Defined(l) <=>
              \E b \in BuyersOf(Distinct, l) : \E r, q \in ThreadIn(Distinct, l, b) :
                r.status \in {1, 9} /\ q.time > r.time
         /\ "T5" \in Defined(l) <=> TiedIn(Distinct, l)
         /\ Tied(l) <=> TiedIn(Distinct, l)
<1> DEFINE R == Distinct
           buyers == {r.buyer : r \in {s \in R : s.listing = l}}
           over(types) == \E b \in buyers : Cardinality({r \in OfThread(l, b) : r.type \in types}) > OfferLimit
           next(r) == {s \in OfThread(l, r.buyer) :
                         s.time > r.time /\ \A q \in OfThread(l, r.buyer) : q.time > r.time => q.time >= s.time}
           countered == {r \in R : r.listing = l /\ r.status = 7}
           c == \E r \in countered : \/ r.type \in {0, 1} /\ \A s \in next(r) : s.type # 2
                                     \/ r.type = 2 /\ \A s \in next(r) : s.type # 1
           d == \E r, s \in R : /\ r.listing = l /\ s.listing = l /\ r.buyer = s.buyer
                                /\ r.status \in {1, 9} /\ s.time > r.time
           e == Tied(l)
<1>1. Defined(l) = (IF over({0, 1}) THEN {"T2buyer"} ELSE {}) \cup (IF over({2}) THEN {"T2seller"} ELSE {})
                     \cup (IF c THEN {"T3"} ELSE {}) \cup (IF d THEN {"T4"} ELSE {}) \cup (IF e THEN {"T5"} ELSE {})
  BY DEF Defined
<1>2. buyers = BuyersOf(R, l) /\ \A b : OfThread(l, b) = ThreadIn(R, l, b)
  BY DEF BuyersOf, OfThread, ThreadIn
<1>3. \A r : next(r) = NextIn(ThreadIn(R, l, r.buyer), r)
  BY <1>2 DEF NextIn
<1> HIDE DEF R, next
<1>4. over({0, 1}) <=> \E b \in BuyersOf(R, l) : Cardinality({r \in ThreadIn(R, l, b) : r.type \in {0, 1}}) > OfferLimit
  BY <1>2
<1>5. over({2}) <=> \E b \in BuyersOf(R, l) : Cardinality({r \in ThreadIn(R, l, b) : r.type \in {2}}) > OfferLimit
  BY <1>2
<1>6. c <=> \E b \in BuyersOf(R, l) : \E r \in ThreadIn(R, l, b) :
              r.status = 7 /\ Unanswered(ThreadIn(R, l, b), r)
  <2>1. \A r \in R : r.listing = l => r.buyer \in BuyersOf(R, l) /\ r \in ThreadIn(R, l, r.buyer)
    BY DEF BuyersOf, ThreadIn
  <2>2. \A b : \A r \in ThreadIn(R, l, b) : r \in R /\ r.listing = l /\ r.buyer = b
    BY DEF ThreadIn
  <2>3. \A r : Unanswered(ThreadIn(R, l, r.buyer), r) <=>
                 \/ r.type \in {0, 1} /\ \A s \in next(r) : s.type # 2
                 \/ r.type = 2 /\ \A s \in next(r) : s.type # 1
    BY <1>3 DEF Unanswered
  <2> QED
    BY <2>1, <2>2, <2>3
<1>7. d <=> \E b \in BuyersOf(R, l) : \E r, q \in ThreadIn(R, l, b) : r.status \in {1, 9} /\ q.time > r.time
  BY DEF BuyersOf, ThreadIn
<1>8. e <=> TiedIn(R, l)
  <2>1. e <=> \E r, s \in R : r # s /\ r.listing = l /\ s.listing = l /\ r.buyer = s.buyer /\ r.time = s.time
    BY DEF Tied, R
  <2> QED
    BY <2>1 DEF TiedIn, Untied, BuyersOf, ThreadIn
<1> HIDE DEF over, c, d, e
<1>9. /\ Defined(l) \subseteq Flags \ {"T1"}
      /\ "T2buyer" \in Defined(l) <=> over({0, 1})
      /\ "T2seller" \in Defined(l) <=> over({2})
      /\ "T3" \in Defined(l) <=> c
      /\ "T4" \in Defined(l) <=> d
      /\ "T5" \in Defined(l) <=> e
  BY <1>1, FiveFlags
<1>10. Tied(l) <=> TiedIn(R, l)
  BY <1>8 DEF e
<1> QED
  BY <1>4, <1>5, <1>6, <1>7, <1>8, <1>9, <1>10 DEF R

\* The flags of forensics are those defined.
LEMMA ForensicsIsDefined ==
  ASSUME IsRead(source), NEW l
  PROVE  LET taken == TakenFrom(source, kept, "forensics")
             found == FlagsFound("forensics", taken, ThreadsIn(taken), l)
         IN  IF Tied(l) THEN found \ {"T3", "T4"} = Defined(l) \ {"T3", "T4"} ELSE found = Defined(l)
<1>1. PICK taken : taken = TakenFrom(source, kept, "forensics")
  OBVIOUS
<1> DEFINE found == FlagsFound("forensics", taken, ThreadsIn(taken), l)
<1>2. OnceEach(taken) /\ RowsOf(taken) = Distinct
  <2>1. PICK n \in Nat : source \in [1..n -> Rows]
    BY ReadIs
  <2> QED
    BY <1>1, <2>1, TakenFacts DEF Distinct
<1>3. /\ found \subseteq Flags
      /\ "T1" \notin found
      /\ "T2buyer" \in found <=> "T2buyer" \in Defined(l)
      /\ "T2seller" \in found <=> "T2seller" \in Defined(l)
      /\ "T5" \in found <=> "T5" \in Defined(l)
      /\ ~Tied(l) => ("T3" \in found <=> "T3" \in Defined(l))
      /\ ~Tied(l) => ("T4" \in found <=> "T4" \in Defined(l))
  <2> HIDE DEF found
  <2>0. "forensics" # "replication"
    OBVIOUS
  <2>1. PICK R : R = Distinct
    OBVIOUS
  <2>2. found \subseteq Flags /\ ("T1" \in found => "forensics" = "replication")
    BY <1>2, ListingFlags DEF found
  <2>3. "T2buyer" \in found <=>
          \E b \in BuyersOf(R, l) : Cardinality({r \in ThreadIn(R, l, b) : r.type \in {0, 1}}) > OfferLimit
    BY <1>2, <2>1, ListingFlags DEF found
  <2>4. "T2seller" \in found <=>
          \E b \in BuyersOf(R, l) : Cardinality({r \in ThreadIn(R, l, b) : r.type \in {2}}) > OfferLimit
    BY <1>2, <2>1, ListingFlags DEF found
  <2>5. "T5" \in found <=> TiedIn(R, l)
    BY <1>2, <2>1, ListingFlags DEF found, TiedIn
  <2>6. ~TiedIn(R, l) => ("T3" \in found <=>
          \E b \in BuyersOf(R, l) : \E r \in ThreadIn(R, l, b) :
            r.status = 7 /\ Unanswered(ThreadIn(R, l, b), r))
    BY <1>2, <2>1, ListingFlags DEF found, TiedIn
  <2>7. ~TiedIn(R, l) => ("T4" \in found <=>
          \E b \in BuyersOf(R, l) : \E r, q \in ThreadIn(R, l, b) :
            r.status \in {1, 9} /\ q.time > r.time)
    BY <1>2, <2>1, ListingFlags DEF found, TiedIn
  <2> QED
    BY <2>0, <2>1, <2>2, <2>3, <2>4, <2>5, <2>6, <2>7, DefinedIs
<1>4. Defined(l) \subseteq Flags \ {"T1"}
  BY DefinedIs
<1> HIDE DEF found
<1>5. CASE Tied(l)
  <2>1. found \ {"T3", "T4"} = Defined(l) \ {"T3", "T4"}
    BY <1>3, <1>4 DEF Flags
  <2> QED
    BY <1>1, <1>5, <2>1 DEF found
<1>6. CASE ~Tied(l)
  <2>1. \A f \in Flags : f \in found <=> f \in Defined(l)
    BY <1>3, <1>4, <1>6 DEF Flags
  <2>2. found = Defined(l)
    BY <1>3, <1>4, <2>1
  <2> QED
    BY <1>1, <1>6, <2>2 DEF found
<1> QED
  BY <1>5, <1>6

\* Replication flags what forensics flags and the offers above the start price.
LEMMA ReplicationClears ==
  ASSUME IsRead(source), kept \/ ~Repeated, NEW l \in DOMAIN Listings, Listings[l].start # Missing,
         kept => \A r \in Distinct : r.listing = l => Known(r)
  PROVE  LET found(p) == LET taken == TakenFrom(source, kept, p) IN FlagsFound(p, taken, ThreadsIn(taken), l)
         IN  found("replication") = {} <=>
               /\ found("forensics") = {}
               /\ \A r \in Distinct : r.listing = l => r.price <= Listings[l].start
<1>1. PICK taken : taken = TakenFrom(source, kept, "forensics")
  OBVIOUS
<1>0. PICK copied : copied = TakenFrom(source, kept, "replication")
  OBVIOUS
<1>2. OnceEach(taken) /\ RowsOf(taken) = Distinct /\ OfListing(copied, l) = OfListing(taken, l)
  <2>1. PICK n \in Nat : source \in [1..n -> Rows]
    BY ReadIs
  <2>2. OnceEach(taken) /\ RowsOf(taken) = Distinct
    BY <1>1, <2>1, TakenFacts DEF Distinct
  <2>3. kept => \A i \in 1..n : source[i].listing = l => Known(source[i])
    BY <2>1 DEF Distinct
  <2>4. kept \/ ~\E i, j \in 1..n : i < j /\ source[i] = source[j]
    BY <2>1 DEF Repeated
  <2>5. OfListing(copied, l) = OfListing(taken, l)
    BY <1>0, <1>1, <2>1, <2>3, <2>4, SameOfListing
  <2> QED
    BY <2>2, <2>5
<1>3. PICK R : R = Distinct
  OBVIOUS
<1> DEFINE F == FlagsFound("forensics", taken, ThreadsIn(taken), l)
           P == FlagsFound("replication", taken, ThreadsIn(taken), l)
           t1 == \E b \in BuyersOf(R, l) : \E r \in ThreadIn(R, l, b) : r.price > Listings[l].start
<1>4. F \subseteq Flags /\ P \subseteq Flags
  BY <1>2, ListingFlags
<1>5. "T1" \notin F /\ ("T1" \in P <=> t1)
  <2>1. "T1" \in F => "forensics" = "replication"
    BY <1>2, ListingFlags
  <2>2. "T1" \in P <=> t1
    BY <1>2, <1>3, ListingFlags
  <2> QED
    BY <2>1, <2>2
<1>6. ASSUME NEW f \in {"T2buyer", "T2seller", "T5"} PROVE f \in F <=> f \in P
  <2>1. CASE f = "T2buyer"
    BY <1>2, <2>1, ListingFlags
  <2>2. CASE f = "T2seller"
    BY <1>2, <2>2, ListingFlags
  <2>3. CASE f = "T5"
    BY <1>2, <2>3, ListingFlags
  <2> QED
    BY <2>1, <2>2, <2>3
<1>7. ("T5" \in F <=> TiedIn(R, l)) /\ (~TiedIn(R, l) => \A f \in {"T3", "T4"} : f \in F <=> f \in P)
  <2>1. "T5" \in F <=> TiedIn(R, l)
    BY <1>2, <1>3, ListingFlags DEF TiedIn
  <2>2. ~TiedIn(R, l) => ("T3" \in F <=> "T3" \in P)
    BY <1>2, <1>3, ListingFlags DEF TiedIn
  <2>3. ~TiedIn(R, l) => ("T4" \in F <=> "T4" \in P)
    BY <1>2, <1>3, ListingFlags DEF TiedIn
  <2> QED
    BY <2>1, <2>2, <2>3
<1>8. ~t1 <=> \A r \in R : r.listing = l => r.price <= Listings[l].start
  <2>1. Listings[l].start \in Nat
    BY RestrictionAssumption
  <2>2. \A r \in R : r.price \in Int
    <3>1. \A m \in taken : m.row \in Rows
      BY <1>2 DEF OnceEach
    <3> QED
      BY <1>2, <1>3, <3>1, RestrictionAssumption DEF RowsOf
  <2>3. t1 <=> \E r \in R : r.listing = l /\ r.price > Listings[l].start
    BY DEF BuyersOf, ThreadIn
  <2> QED
    BY <2>1, <2>2, <2>3
<1> HIDE DEF F, P, t1
<1>9. P = {} <=> F = {} /\ ~t1
  <2>1. P = {} => F = {} /\ ~t1
    BY <1>4, <1>5, <1>6, <1>7 DEF Flags
  <2>2. F = {} /\ ~t1 => P = {}
    BY <1>4, <1>5, <1>6, <1>7 DEF Flags
  <2> QED
    BY <2>1, <2>2
<1>10. FlagsFound("replication", copied, ThreadsIn(copied), l) = P
  BY <1>2, FlagsOfListing DEF P
<1> QED
  BY <1>0, <1>1, <1>2, <1>3, <1>8, <1>9, <1>10 DEF F

\* What a program takes in, and what is left of it when all its buckets are done.
LEMMA TakenRows ==
  ASSUME NEW src, IsRead(src), NEW there, NEW p
  PROVE  /\ IsFiniteSet(TakenFrom(src, there, p)) /\ \A m \in TakenFrom(src, there, p) : m.row \in Rows
<1>1. PICK n \in Nat : src \in [1..n -> Rows]
  BY ReadIs
<1> QED
  BY <1>1, TakenFacts

\* The buckets are numbered from one.
LEMMA BucketCount == Cardinality(Buckets) \in Nat /\ Buckets = 1..Cardinality(Buckets)
BY RestrictionAssumption, FS_CardinalityType

\* A table of all threads has the flags of every listing.
LEMMA WholeTable ==
  ASSUME NEW table, NEW p, NEW taken, TableIs(table, p, taken, ThreadsIn(taken)), NEW l
  PROVE  FlagsIn(table, l) = FlagsFound(p, taken, ThreadsIn(taken), l)
<1>1. CASE l \in DOMAIN table
  BY <1>1 DEF FlagsIn, TableIs
<1>2. CASE l \notin DOMAIN table
  <2>1. FlagsFound(p, taken, ThreadsIn(taken), l) = {}
    BY <1>2 DEF TableIs, FlagsFound
  <2> QED
    BY <1>2, <2>1 DEF FlagsIn
<1> QED
  BY <1>1, <1>2

\* The invariant holds at the start: no thread is done.
LEMMA RestrictionInitInv == RestrictionInit => RestrictionInv
<1> SUFFICES ASSUME RestrictionInit PROVE RestrictionInv
  OBVIOUS
<1>1. IsRead(source) /\ kept \in BOOLEAN
  BY DEF RestrictionInit, IsRead
<1>2. stage = [program |-> 1, at |-> 0] /\ IsStage(stage)
  BY BucketCount DEF RestrictionInit, IsStage
<1>3. TablesSoFar(source, kept, stage, flags)
  <2>1. flags = [p \in ToSet(Programs) |-> <<>>]
    BY DEF RestrictionInit
  <2>2. ASSUME NEW j \in 1..2
        PROVE  TableIs(flags[Programs[j]], Programs[j], TakenFrom(source, kept, Programs[j]),
                       UpTo(TakenFrom(source, kept, Programs[j]), ThroughWith(stage, j)))
    <3>1. ThroughWith(stage, j) = 0
      BY <1>2 DEF ThroughWith
    <3>2. UpTo(TakenFrom(source, kept, Programs[j]), ThroughWith(stage, j)) = {}
      BY <1>1, <3>1, TakenRows, UpToFacts
    <3>3. flags[Programs[j]] = <<>>
      BY <2>1, ProgramNames
    <3>4. IsTable(<<>>) /\ DOMAIN <<>> = {}
      BY DEF IsTable
    <3>5. DOMAIN flags[Programs[j]] = {} /\ IsTable(flags[Programs[j]])
      BY <3>3, <3>4
    <3>6. PICK taken : taken = TakenFrom(source, kept, Programs[j])
      OBVIOUS
    <3>7. TableIs(flags[Programs[j]], Programs[j], taken, {})
      BY <3>5 DEF TableIs
    <3> QED
      BY <3>2, <3>6, <3>7
  <2>3. flags = [p \in ToSet(Programs) |-> flags[p]]
    BY <2>1
  <2> QED
    BY <2>2, <2>3 DEF TablesSoFar
<1>4. BucketsFilled(source, kept, stage, bucket)
  BY <1>2 DEF BucketsFilled
<1>5. SampleBuilt(stage, flags, sample)
  BY <1>2 DEF SampleBuilt
<1> QED
  BY <1>1, <1>2, <1>3, <1>4, <1>5 DEF RestrictionInv

\* The tables stay what they are as long as no more threads are done.
LEMMA TablesKept ==
  ASSUME NEW src, IsRead(src), NEW there, NEW st, NEW st2, NEW tables,
         TablesSoFar(src, there, st, tables),
         \A j \in 1..2 : \A taken : (\A m \in taken : m.row \in Rows) =>
           UpTo(taken, ThroughWith(st2, j)) = UpTo(taken, ThroughWith(st, j))
  PROVE  TablesSoFar(src, there, st2, tables)
<1>1. ASSUME NEW j \in 1..2
      PROVE  TableIs(tables[Programs[j]], Programs[j], TakenFrom(src, there, Programs[j]),
                     UpTo(TakenFrom(src, there, Programs[j]), ThroughWith(st2, j)))
  <2>1. PICK taken : taken = TakenFrom(src, there, Programs[j])
    OBVIOUS
  <2>2. \A m \in taken : m.row \in Rows
    BY <2>1, TakenRows
  <2>3. UpTo(taken, ThroughWith(st2, j)) = UpTo(taken, ThroughWith(st, j))
    BY <2>2
  <2>4. TableIs(tables[Programs[j]], Programs[j], taken, UpTo(taken, ThroughWith(st, j)))
    BY <2>1 DEF TablesSoFar
  <2> QED
    BY <2>1, <2>3, <2>4
<1> QED
  BY <1>1 DEF TablesSoFar

\* Reading fills the buckets with what the program takes in.
LEMMA BucketRowsInv == RestrictionInv /\ BucketRows => RestrictionInv'
<1> SUFFICES ASSUME RestrictionInv, BucketRows PROVE RestrictionInv'
  OBVIOUS
<1>1. /\ IsRead(source) /\ kept \in BOOLEAN /\ IsStage(stage)
      /\ TablesSoFar(source, kept, stage, flags)
  BY DEF RestrictionInv
<1>2. /\ stage.program \in 1..2 /\ stage.at = 0
      /\ UNCHANGED <<source, kept, flags, sample>>
  BY <1>1, ProgramNames DEF BucketRows, IsStage
<1>3. stage' = [program |-> stage.program, at |-> 1]
  BY <1>1 DEF BucketRows, IsStage
<1>4. IsStage(stage')
  BY <1>2, <1>3, BucketCount DEF IsStage
<1>5. TablesSoFar(source, kept, stage', flags)
  <2>1. ASSUME NEW j \in 1..2, NEW taken, \A m \in taken : m.row \in Rows
        PROVE  UpTo(taken, ThroughWith(stage', j)) = UpTo(taken, ThroughWith(stage, j))
    <3>1. UpTo(taken, 0) = UpTo(taken, 1)
      BY <2>1, UpToFacts
    <3>2. \/ ThroughWith(stage', j) = ThroughWith(stage, j)
          \/ ThroughWith(stage', j) = 1 /\ ThroughWith(stage, j) = 0
      BY <1>2, <1>3 DEF ThroughWith
    <3> QED
      BY <3>1, <3>2
  <2>2. PICK st2 : st2 = stage'
    OBVIOUS
  <2>3. \A j \in 1..2 : \A taken : (\A m \in taken : m.row \in Rows) =>
          UpTo(taken, ThroughWith(st2, j)) = UpTo(taken, ThroughWith(stage, j))
    BY <2>1, <2>2
  <2>4. TablesSoFar(source, kept, st2, flags)
    BY <1>1, <2>3, TablesKept
  <2> QED
    BY <2>2, <2>4
<1>6. BucketsFilled(source, kept, stage', bucket')
  <2>1. PICK p : p = Programs[stage.program]
    OBVIOUS
  <2>2. Input(p) = InputOf(source, kept, p)
    BY DEF Input, InputOf
  <2>3. bucket' = [b \in Buckets |->
          {[row |-> source[i], place |-> i] :
             i \in {j \in Input(p) : BucketOf[<<source[j].listing, source[j].buyer>>] = b}}]
    BY <2>1 DEF BucketRows, Program
  <2>4. TakenFrom(source, kept, p) = {[row |-> source[i], place |-> i] : i \in Input(p)}
    BY <2>2 DEF TakenFrom
  <2>5. ASSUME NEW b
        PROVE  {[row |-> source[i], place |-> i] :
                  i \in {j \in Input(p) : BucketOf[<<source[j].listing, source[j].buyer>>] = b}}
                 = {m \in TakenFrom(source, kept, p) : BucketOf[ThreadOf(m)] = b}
    <3> DEFINE taken(i) == [row |-> source[i], place |-> i]
    <3>1. \A i : ThreadOf(taken(i)) = <<source[i].listing, source[i].buyer>>
      BY DEF ThreadOf
    <3>2. TakenFrom(source, kept, p) = {taken(i) : i \in Input(p)}
      BY <2>4
    <3> HIDE DEF taken
    <3>3. {taken(i) : i \in {j \in Input(p) : BucketOf[<<source[j].listing, source[j].buyer>>] = b}}
            = {m \in {taken(i) : i \in Input(p)} : BucketOf[ThreadOf(m)] = b}
      BY <3>1
    <3> QED
      BY <3>2, <3>3 DEF taken
  <2>6. bucket' = BucketsOf(TakenFrom(source, kept, p))
    BY <2>3, <2>5 DEF BucketsOf
  <2>7. Programs[stage'.program] = p
    BY <1>3, <2>1
  <2> QED
    BY <2>6, <2>7 DEF BucketsFilled
<1>7. SampleBuilt(stage', flags, sample)
  BY <1>2, <1>3 DEF SampleBuilt
<1> QED
  BY <1>1, <1>2, <1>4, <1>5, <1>6, <1>7 DEF RestrictionInv

\* A bucket adds the flags of its threads, which lie in no other bucket.
LEMMA ConsumeBucketInv == RestrictionInv /\ ConsumeBucket => RestrictionInv'
<1> SUFFICES ASSUME RestrictionInv, ConsumeBucket PROVE RestrictionInv'
  OBVIOUS
<1>1. /\ IsRead(source) /\ kept \in BOOLEAN /\ IsStage(stage)
      /\ TablesSoFar(source, kept, stage, flags) /\ BucketsFilled(source, kept, stage, bucket)
  BY DEF RestrictionInv
<1>0. /\ stage.program <= Len(Programs) /\ stage.at \in Buckets
      /\ stage' = [stage EXCEPT !.at = stage.at + 1]
      /\ UNCHANGED <<source, kept, bucket, sample>>
  BY Zenon DEF ConsumeBucket
<1>2. /\ stage.program \in 1..2 /\ stage.at \in Buckets
      /\ UNCHANGED <<source, kept, bucket, sample>>
  BY <1>0, <1>1, ProgramNames DEF IsStage
<1>3. stage' = [program |-> stage.program, at |-> stage.at + 1]
  BY <1>0, <1>1 DEF IsStage
<1>4. IsStage(stage')
  BY <1>2, <1>3, BucketCount DEF IsStage
<1>5. PICK p : p = Programs[stage.program]
  OBVIOUS
<1>6. PICK taken : taken = TakenFrom(source, kept, p)
  OBVIOUS
<1>7. PICK in : in = bucket[stage.at]
  OBVIOUS
<1>8. PICK new : new = Folded(p, in, flags[p], SetToSeq({<<m.row.listing, m.row.buyer>> : m \in in}))
  OBVIOUS
<1>9. flags' = [flags EXCEPT ![p] = new]
  <2>1. flags' = [flags EXCEPT ![Program] =
           Folded(Program, bucket[stage.at], flags[Program],
                  SetToSeq({<<m.row.listing, m.row.buyer>> : m \in bucket[stage.at]}))]
    BY Zenon DEF ConsumeBucket, Folded
  <2> QED
    BY <1>5, <1>7, <1>8, <2>1 DEF Program
<1>10. in = {m \in taken : BucketOf[ThreadOf(m)] = stage.at}
  <2>1. bucket = BucketsOf(taken)
    BY <1>1, <1>2, <1>5, <1>6, BucketCount DEF BucketsFilled
  <2> QED
    BY <1>2, <1>7, <2>1 DEF BucketsOf
<1>11. IsFiniteSet(taken) /\ \A m \in taken : m.row \in Rows
  BY <1>1, <1>6, TakenRows
<1>12. TableIs(flags[p], p, taken, UpTo(taken, stage.at))
  <2>1. ThroughWith(stage, stage.program) = stage.at
    BY <1>2 DEF ThroughWith
  <2> QED
    BY <1>1, <1>2, <1>5, <1>6, <2>1 DEF TablesSoFar
<1>13. TableIs(new, p, taken, UpTo(taken, stage.at + 1))
  <2>1. PICK a \in Buckets : a = stage.at
    BY <1>2
  <2> QED
    BY <1>8, <1>10, <1>11, <1>12, <2>1, BucketFolded
<1>14. TablesSoFar(source, kept, stage', flags')
  <2>0. p \in ToSet(Programs) /\ flags = [q \in ToSet(Programs) |-> flags[q]]
    BY <1>1, <1>2, <1>5, ProgramNames DEF TablesSoFar
  <2>1. flags' = [q \in ToSet(Programs) |-> flags'[q]] /\ p \in ToSet(Programs)
    BY <1>9, <2>0
  <2>2. ASSUME NEW j \in 1..2
        PROVE  TableIs(flags'[Programs[j]], Programs[j], TakenFrom(source, kept, Programs[j]),
                       UpTo(TakenFrom(source, kept, Programs[j]), ThroughWith(stage', j)))
    <3>1. CASE j = stage.program
      <4>1. flags'[Programs[j]] = new /\ Programs[j] = p
        BY <1>1, <1>5, <1>9, <2>1, <3>1 DEF TablesSoFar
      <4>2. ThroughWith(stage', j) = stage.at + 1
        BY <1>3, <3>1 DEF ThroughWith
      <4> QED
        BY <1>6, <1>13, <4>1, <4>2
    <3>2. CASE j # stage.program
      <4>1. Programs[j] # p /\ Programs[j] \in ToSet(Programs)
        BY <1>2, <1>5, <3>2, ProgramNames
      <4>2. flags'[Programs[j]] = flags[Programs[j]]
        BY <1>1, <1>9, <4>1 DEF TablesSoFar
      <4>3. ThroughWith(stage', j) = ThroughWith(stage, j)
        BY <1>3, <3>2 DEF ThroughWith
      <4> QED
        BY <1>1, <4>2, <4>3 DEF TablesSoFar
    <3> QED
      BY <3>1, <3>2
  <2> QED
    BY <2>1, <2>2 DEF TablesSoFar
<1>15. BucketsFilled(source, kept, stage', bucket)
  BY <1>1, <1>2, <1>3, BucketCount DEF BucketsFilled
<1>16. SampleBuilt(stage', flags', sample)
  BY <1>2, <1>3 DEF SampleBuilt
<1> QED
  BY <1>1, <1>2, <1>4, <1>14, <1>15, <1>16 DEF RestrictionInv

\* The second program starts with an empty table.
LEMMA EndForensicsInv == RestrictionInv /\ EndForensics => RestrictionInv'
<1> SUFFICES ASSUME RestrictionInv, EndForensics PROVE RestrictionInv'
  OBVIOUS
<1>1. /\ IsRead(source) /\ kept \in BOOLEAN /\ IsStage(stage)
      /\ TablesSoFar(source, kept, stage, flags)
  BY DEF RestrictionInv
<1>2. /\ stage.program = 1 /\ stage.at = Cardinality(Buckets) + 1
      /\ stage' = [program |-> 2, at |-> 0] /\ UNCHANGED <<source, kept, flags, sample>>
  BY <1>1, BucketCount DEF EndForensics, IsStage
<1>3. IsStage(stage')
  BY <1>2, BucketCount DEF IsStage
<1>4. TablesSoFar(source, kept, stage', flags)
  <2>1. PICK st2 : st2 = stage'
    OBVIOUS
  <2>2. \A j \in 1..2 : ThroughWith(st2, j) = ThroughWith(stage, j)
    BY <1>2, <2>1 DEF ThroughWith
  <2>3. TablesSoFar(source, kept, st2, flags)
    BY <1>1, <2>2, TablesKept
  <2> QED
    BY <2>1, <2>3
<1>5. BucketsFilled(source, kept, stage', bucket')
  BY <1>2 DEF BucketsFilled
<1>6. SampleBuilt(stage', flags, sample)
  BY <1>2 DEF SampleBuilt
<1> QED
  BY <1>1, <1>2, <1>3, <1>4, <1>5, <1>6 DEF RestrictionInv

\* The sample is built from the table of the second program.
LEMMA BuildSampleInv == RestrictionInv /\ BuildSample => RestrictionInv'
<1> SUFFICES ASSUME RestrictionInv, BuildSample PROVE RestrictionInv'
  OBVIOUS
<1>1. /\ IsRead(source) /\ kept \in BOOLEAN /\ IsStage(stage)
      /\ TablesSoFar(source, kept, stage, flags)
  BY DEF RestrictionInv
<1>2. /\ stage.program = 2 /\ stage.at = Cardinality(Buckets) + 1
      /\ stage' = [program |-> 3, at |-> 0] /\ UNCHANGED <<source, kept, flags>>
  BY <1>1, BucketCount DEF BuildSample, IsStage
<1>3. IsStage(stage')
  BY <1>2, BucketCount DEF IsStage
<1>4. TablesSoFar(source, kept, stage', flags)
  <2>1. PICK st2 : st2 = stage'
    OBVIOUS
  <2>2. \A j \in 1..2 : ThroughWith(st2, j) = ThroughWith(stage, j)
    BY <1>2, <2>1 DEF ThroughWith
  <2>3. TablesSoFar(source, kept, st2, flags)
    BY <1>1, <2>2, TablesKept
  <2> QED
    BY <2>1, <2>3
<1>5. BucketsFilled(source, kept, stage', bucket')
  BY <1>2 DEF BucketsFilled
<1>6. SampleBuilt(stage', flags, sample')
  <2> DEFINE violated(l) == IF l \in DOMAIN flags["replication"] THEN flags["replication"][l] ELSE {}
  <2>1. sample' = [l \in DOMAIN Listings |->
          [noT5 |-> InSample(l, violated(l) \ {"T5"}), withT5 |-> InSample(l, violated(l))]]
    BY DEF BuildSample
  <2>2. \A l : violated(l) = FlagsIn(flags["replication"], l)
    BY DEF FlagsIn
  <2> HIDE DEF violated
  <2>3. ASSUME NEW l \in DOMAIN Listings PROVE sample'[l].withT5 <=> InSample(l, violated(l))
    BY <2>1
  <2> QED
    BY <2>2, <2>3 DEF SampleBuilt
<1> QED
  BY <1>1, <1>2, <1>3, <1>4, <1>5, <1>6 DEF RestrictionInv

\* Every step keeps the invariant.
LEMMA RestrictionStepInv == RestrictionInv /\ [RestrictionNext]_restrictionVars => RestrictionInv'
<1> SUFFICES ASSUME RestrictionInv, [RestrictionNext]_restrictionVars PROVE RestrictionInv'
  OBVIOUS
<1>1. CASE BucketRows
  BY <1>1, BucketRowsInv
<1>2. CASE ConsumeBucket
  BY <1>2, ConsumeBucketInv
<1>3. CASE EndForensics
  BY <1>3, EndForensicsInv
<1>4. CASE BuildSample
  BY <1>4, BuildSampleInv
<1>5. CASE UNCHANGED restrictionVars
  BY <1>5 DEF restrictionVars, RestrictionInv
<1> QED
  BY <1>1, <1>2, <1>3, <1>4, <1>5 DEF RestrictionNext

\* At any time the table of a program holds the flags of the threads in the buckets it is
\* through with, whatever rows, listings, buckets and hash (_process_buckets, _consume_group).
THEOREM RestrictionsInvariant == RestrictionSpec => []RestrictionInv
BY RestrictionInitInv, RestrictionStepInv, PTL DEF RestrictionSpec

\* A program that is through has the flags of all its threads.
LEMMA ThroughIs ==
  ASSUME RestrictionInv, NEW j \in 1..2, stage.program > j
  PROVE  LET p == Programs[j]
             taken == TakenFrom(source, kept, p)
         IN  /\ DOMAIN flags[p] = {k[1] : k \in ThreadsIn(taken)}
             /\ \A l : FlagsIn(flags[p], l) = FlagsFound(p, taken, ThreadsIn(taken), l)
<1>1. IsRead(source) /\ IsStage(stage) /\ TablesSoFar(source, kept, stage, flags)
  BY DEF RestrictionInv
<1>2. PICK p : p = Programs[j]
  OBVIOUS
<1>3. PICK taken : taken = TakenFrom(source, kept, p)
  OBVIOUS
<1>4. PICK table : table = flags[p]
  OBVIOUS
<1>5. ThroughWith(stage, j) = Cardinality(Buckets) + 1
  BY <1>1 DEF ThroughWith, IsStage
<1>6. UpTo(taken, Cardinality(Buckets) + 1) = ThreadsIn(taken)
  BY <1>1, <1>3, TakenRows, UpToFacts
<1>7. TableIs(table, p, taken, ThreadsIn(taken))
  BY <1>1, <1>2, <1>3, <1>4, <1>5, <1>6 DEF TablesSoFar
<1>8. DOMAIN table = {k[1] : k \in ThreadsIn(taken)}
  BY <1>7 DEF TableIs
<1>9. \A l : FlagsIn(table, l) = FlagsFound(p, taken, ThreadsIn(taken), l)
  BY <1>7, WholeTable
<1> QED
  BY <1>2, <1>3, <1>4, <1>8, <1>9

\* The invariant is enough for the flags of forensics.
LEMMA InvFlagsAsDefined == RestrictionInv => FlagsAsDefined
<1> SUFFICES ASSUME RestrictionInv, stage.program > 1, NEW l \in {r.listing : r \in Distinct}
             PROVE  LET found == flags["forensics"][l]
                    IN  IF Tied(l) THEN found \ {"T3", "T4"} = Defined(l) \ {"T3", "T4"} ELSE found = Defined(l)
  BY DEF FlagsAsDefined
<1>1. PICK taken : taken = TakenFrom(source, kept, "forensics")
  OBVIOUS
<1>2. IsRead(source)
  BY DEF RestrictionInv
<1>3. /\ DOMAIN flags["forensics"] = {k[1] : k \in ThreadsIn(taken)}
      /\ FlagsIn(flags["forensics"], l) = FlagsFound("forensics", taken, ThreadsIn(taken), l)
  BY <1>1, ThroughIs, ProgramNames
<1>4. RowsOf(taken) = Distinct
  <2>1. PICK n \in Nat : source \in [1..n -> Rows]
    BY <1>2, ReadIs
  <2> QED
    BY <1>1, <2>1, TakenFacts DEF Distinct
<1>5. l \in DOMAIN flags["forensics"]
  <2>1. PICK m \in taken : m.row.listing = l
    BY <1>4 DEF RowsOf
  <2>2. ThreadOf(m) \in ThreadsIn(taken) /\ ThreadOf(m)[1] = l
    BY <2>1 DEF ThreadsIn, ThreadOf
  <2> QED
    BY <1>3, <2>2
<1>6. flags["forensics"][l] = FlagsFound("forensics", taken, ThreadsIn(taken), l)
  BY <1>3, <1>5 DEF FlagsIn
<1> QED
  BY <1>1, <1>2, <1>6, ForensicsIsDefined

\* The invariant is enough for the replicated sample.
LEMMA InvSampleAsCleared == RestrictionInv => SampleAsCleared
<1> SUFFICES ASSUME RestrictionInv, stage.program > 2, kept \/ ~Repeated,
                    NEW l \in DOMAIN Listings, Listings[l].start # Missing,
                    kept => \A r \in Distinct : r.listing = l => Known(r)
             PROVE  sample[l].withT5 <=>
                      /\ ~L1(l) /\ ~L2(l)
                      /\ l \in DOMAIN flags["forensics"] => flags["forensics"][l] = {}
                      /\ \A r \in Distinct : r.listing = l => r.price <= Listings[l].start
  BY DEF SampleAsCleared
<1>1. IsRead(source) /\ stage.program = 3 /\ SampleBuilt(stage, flags, sample)
  BY DEF RestrictionInv, IsStage
<1> DEFINE found(p) == LET taken == TakenFrom(source, kept, p) IN FlagsFound(p, taken, ThreadsIn(taken), l)
<1>2. FlagsIn(flags["forensics"], l) = found("forensics")
  BY <1>1, ThroughIs, ProgramNames
<1>3. FlagsIn(flags["replication"], l) = found("replication")
  BY <1>1, ThroughIs, ProgramNames
<1>4. found("replication") = {} <=>
        /\ found("forensics") = {}
        /\ \A r \in Distinct : r.listing = l => r.price <= Listings[l].start
  BY <1>1, ReplicationClears
<1> HIDE DEF found
<1>5. sample[l].withT5 <=> InSample(l, FlagsIn(flags["replication"], l))
  BY <1>1 DEF SampleBuilt
<1>6. FlagsIn(flags["forensics"], l) = {} <=> (l \in DOMAIN flags["forensics"] => flags["forensics"][l] = {})
  BY DEF FlagsIn
<1>7. InSample(l, FlagsIn(flags["replication"], l)) <=> ~L1(l) /\ ~L2(l) /\ found("replication") = {}
  BY <1>3 DEF InSample
<1> QED
  BY <1>2, <1>4, <1>5, <1>6, <1>7

\* The restrictions found are the ones defined of the set of distinct rows, and the replicated
\* sample is what the listing pass and forensics clear (_build_listing_sample_table).
THEOREM RestrictionsDoAgree == RestrictionSpec => []RestrictionsAgree
<1>1. RestrictionInv => RestrictionsAgree
  BY InvFlagsAsDefined, InvSampleAsCleared DEF RestrictionsAgree
<1> QED
  BY <1>1, RestrictionsInvariant, PTL
=============================================================================
