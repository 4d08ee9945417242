--------------------------- MODULE BenchmarkBuild ---------------------------
(***************************************************************************)
(* The build of Benchmark v2 (offerlab_models/benchmark_v2.py): the cases  *)
(* of a normalized release are written as public task partitions, split in *)
(* several ways, and the hidden part of the chronological split becomes a  *)
(* lockbox that leaves out what Benchmark v1 has shown.  A build writes    *)
(* over the directory of the one before it, file by file, and may die.     *)
(***************************************************************************)
EXTENDS Naturals, Sequences, FiniteSets, SequencesExt

CONSTANTS
  Targets,    \* the prediction targets, as a sequence
  Releases,   \* normalized releases: [cases, v1 (ids of cases v1 has shown), audited]
  Sizes,      \* values of partition_rows
  HashRank,   \* the order of group ids by stable_hash; their names are numbers
  MaxBuilds, MaxDeaths  \* bounds of the model, not of the code

ASSUME BuildAssumption ==
  /\ Sizes \subseteq Nat \ {0} /\ MaxBuilds \in Nat /\ MaxDeaths \in Nat
  /\ Len(Targets) \in Nat \ {0} /\ DOMAIN Targets = 1..Len(Targets)
  /\ \A r \in Releases : r.v1 \subseteq {c.id : c \in r.cases}

\* A database of cases, with the id as their primary key.
ASSUME CasesAssumption ==
  \A r \in Releases :
    /\ IsFiniteSet(r.cases)
    /\ \A c \in r.cases : c.time \in Nat /\ c.id \in Nat
    /\ \A c, d \in r.cases : c.id = d.id => c = d

VARIABLES
  parts,    \* the task partitions of each target, in the order of their names
  splits,   \* the split manifest of each split and target
  lockbox,  \* the lockbox manifest of each target
  manifest, \* manifest.json: the hashes of the split and lockbox manifests
  build,    \* the build under way
  builds, deaths

benchmarkVars == <<parts, splits, lockbox, manifest, build, builds, deaths>>

Regions == {"train", "development", "hidden"}
Splits == <<"listing", "seller", "buyer", "thread">>  \* each by the identifier it separates
NoFile == [none |-> TRUE]
NoBuild == [pc |-> "none"]
Named == {<<Splits[i], Targets[j]>> : i \in DOMAIN Splits, j \in DOMAIN Targets}

\* ORDER BY timestamp, row_id: the n-th case is the one with n - 1 before it.
ComesBefore(c, d) == c.time < d.time \/ (c.time = d.time /\ c.id < d.id)
InTime(cases) ==
  [n \in 1..Cardinality(cases) |->
     CHOOSE c \in cases : Cardinality({d \in cases : ComesBefore(d, c)}) = n - 1]

Larger(m, n) == IF m < n THEN n ELSE m
Smaller(m, n) == IF m < n THEN m ELSE n

\* _split_boundaries: 60, 20 and 20 per cent, with a hidden part from three on.
Boundaries(n) ==
  LET train == Larger(1, (3 * n) \div 5)
      development == Larger(train, (4 * n) \div 5)
  IN  [train |-> train, development |-> IF n >= 3 THEN Smaller(development, n - 1) ELSE development]

RegionOf(i, n) ==
  IF i <= Boundaries(n).train THEN "train"
  ELSE IF i <= Boundaries(n).development THEN "development" ELSE "hidden"

\* Mutant: a listing is retained in the region of its first case.
ChronologicalUnpurged(cases) ==
  LET order == InTime(cases)
      region == [i \in DOMAIN order |-> RegionOf(i, Len(order))]
  IN  [r \in Regions |-> {order[i].id : i \in {j \in DOMAIN order : region[j] = r}}]

\* Regions by time; a listing that would be in two of them is left out of all.
Chronological(cases) ==
  LET order == InTime(cases)
      region == [i \in DOMAIN order |-> RegionOf(i, Len(order))]
      whole(i) == \A j \in DOMAIN order : order[j].listing = order[i].listing => region[j] = region[i]
  IN  [r \in Regions |-> {order[i].id : i \in {j \in DOMAIN order : region[j] = r /\ whole(j)}}]

\* Regions by the place of the group among the groups; 0 is a missing identifier.
Grouped(cases, key) ==
  LET groups == SetToSortSeq({c[key] : c \in cases} \ {0}, LAMBDA g, h : HashRank[g] < HashRank[h])
      region == [g \in ToSet(groups) |-> RegionOf(CHOOSE i \in DOMAIN groups : groups[i] = g, Len(groups))]
  IN  [r \in Regions |-> {c.id : c \in {d \in cases : d[key] # 0 /\ region[d[key]] = r}}]

Assignment(cases, split) ==
  IF split = "listing" THEN Chronological(cases) ELSE Grouped(cases, split)

CasesOf(release, t) == {c \in release.cases : c.target = t}

\* The partitions a target needs: there is always a first one.
PartsNeeded(cases, size) == Larger(1, (Cardinality(cases) + size - 1) \div size)

\* Mutant: the row that finds its partition full is not carried over.
PartRowsDropping(cases, size, k) ==
  LET order == InTime(cases) IN SubSeq(order, (k - 1) * size + k, Smaller(k * size + k - 1, Len(order)))

PartRows(cases, size, k) ==
  LET order == InTime(cases) IN SubSeq(order, (k - 1) * size + 1, Smaller(k * size, Len(order)))

BenchmarkInit ==
  /\ parts = [t \in ToSet(Targets) |-> <<>>]
  /\ splits = [n \in Named |-> NoFile]
  /\ lockbox = [t \in ToSet(Targets) |-> NoFile]
  /\ manifest = NoFile /\ build = NoBuild /\ builds = 0 /\ deaths = 0

Doing(pc) == build.pc = pc
At(pc, i, k) == [build EXCEPT !.pc = pc, !.i = i, !.k = k]
Target == Targets[build.i]

\* The gate on the release, and the index of its cases in a database of its own.
StartBuild(release, size) ==
  /\ Doing("none") /\ builds < MaxBuilds /\ release.audited
  /\ build' = [pc |-> "tasks", release |-> release, size |-> size, i |-> 1, k |-> 1]
  /\ builds' = builds + 1
  /\ UNCHANGED <<parts, splits, lockbox, manifest, deaths>>

PutFile(list, k, rows) == IF k <= Len(list) THEN [list EXCEPT ![k] = rows] ELSE Append(list, rows)

WritePart ==
  /\ Doing("tasks")
  /\ LET cases == CasesOf(build.release, Target)
     IN  /\ parts' = [parts EXCEPT ![Target] = PutFile(@, build.k, PartRows(cases, build.size, build.k))]
         /\ build' = IF build.k < PartsNeeded(cases, build.size) THEN At("tasks", build.i, build.k + 1)
                     ELSE IF build.i < Len(Targets) THEN At("tasks", build.i + 1, 1)
                     ELSE At("splits", 1, 1)
  /\ UNCHANGED <<splits, lockbox, manifest, builds, deaths>>

\* A split that needs an identifier ends the build when a case has none; buyers may be
\* missing.
WriteSplit ==
  /\ Doing("splits")
  /\ LET split == Splits[build.k]
         cases == CasesOf(build.release, Target)
     IN  IF split \in {"seller", "thread"} /\ \E c \in cases : c[split] = 0
         THEN build' = NoBuild /\ UNCHANGED splits
         ELSE /\ splits' = [splits EXCEPT ![<<split, Target>>] = Assignment(cases, split)]
              /\ build' = IF build.i < Len(Targets) THEN At("splits", build.i + 1, build.k)
                          ELSE IF build.k < Len(Splits) THEN At("splits", 1, build.k + 1)
                          ELSE At("lockbox", 1, 1)
  /\ UNCHANGED <<parts, lockbox, manifest, builds, deaths>>

\* Mutant: what v1 has shown is not left out.
FreshSeen(hidden, release) == hidden

Fresh(hidden, release) == hidden \ release.v1

\* The hidden ids are read back from the file; without any fresh one, or without v1's
\* tokens, the build fails.
WriteLockbox ==
  /\ Doing("lockbox")
  /\ LET retained == Fresh(splits[<<"listing", Target>>].hidden, build.release)
     IN  IF retained = {} \/ build.release.v1 = {}
         THEN build' = NoBuild /\ UNCHANGED lockbox
         ELSE /\ lockbox' = [lockbox EXCEPT ![Target] = [hidden |-> retained]]
              /\ build' = IF build.i < Len(Targets) THEN At("lockbox", build.i + 1, 1) ELSE At("publish", 1, 1)
  /\ UNCHANGED <<parts, splits, manifest, builds, deaths>>

PublishFiles ==
  /\ Doing("publish")
  /\ manifest' = [release |-> build.release, splits |-> splits, lockbox |-> lockbox]
  /\ build' = NoBuild
  /\ UNCHANGED <<parts, splits, lockbox, builds, deaths>>

\* The build dies; the partition it is in holds what has been flushed of it.
Die ==
  /\ ~Doing("none") /\ deaths < MaxDeaths
  /\ \/ UNCHANGED parts
     \/ /\ Doing("tasks")
        /\ \E n \in 0..build.size :
             LET rows == PartRows(CasesOf(build.release, Target), build.size, build.k)
             IN  /\ n < Len(rows)
                 /\ parts' = [parts EXCEPT ![Target] = PutFile(@, build.k, SubSeq(rows, 1, n))]
  /\ build' = NoBuild /\ deaths' = deaths + 1
  /\ UNCHANGED <<splits, lockbox, manifest, builds>>

BenchmarkNext ==
  \/ \E r \in Releases, size \in Sizes : StartBuild(r, size)
  \/ WritePart \/ WriteSplit \/ WriteLockbox \/ PublishFiles \/ Die

BenchmarkSpec == BenchmarkInit /\ [][BenchmarkNext]_benchmarkVars

-----------------------------------------------------------------------------
\* What read_v2_task_rows yields for a target, as a sequence of cases.
RowsRead(t) == FlattenSeq(parts[t])

\* Whatever builds died before it, at the end of a build a reader gets each case of the
\* release once: a torn or old partition has been written over.  The one exception is a
\* partition with a number the build has not reached, which nothing removes and the glob
\* still finds (_write_public_task_files, read_v2_task_rows).
RowsReadOnce ==
  Doing("publish") =>
    \A t \in ToSet(Targets) :
      LET cases == CasesOf(build.release, t)
      IN  \/ RowsRead(t) = InTime(cases)
          \/ Len(parts[t]) > PartsNeeded(cases, build.size)

\* A lockbox the manifest names is hidden from everything earlier: no case of it was shown
\* by v1, none comes before a training case, and no listing of it is in the training or
\* development region of the chronological split (_write_fresh_hidden_lockbox,
\* _chronological_purged_assignment).
LockboxFresh ==
  manifest # NoFile =>
    \A t \in ToSet(Targets) :
      LET cases == CasesOf(manifest.release, t)
          split == manifest.splits[<<"listing", t>>]
          box == {c \in cases : c.id \in manifest.lockbox[t].hidden}
          seen == {c \in cases : c.id \in split.train \cup split.development}
      IN  /\ box # {} /\ \A c \in box : c.id \notin manifest.release.v1
          /\ \A c \in box, d \in seen : d.time <= c.time /\ d.listing # c.listing

\* Together: what a build leaves for the runner, after earlier builds and builds cut short.
BenchmarkSound == RowsReadOnce /\ LockboxFresh
=============================================================================
