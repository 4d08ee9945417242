------------------------------- MODULE MCData -------------------------------
(***************************************************************************)
(* The components that collect, keep and release data, on small instances, *)
(* in one run.  They share no state: studied is the component whose        *)
(* actions are taken, the others stay as they begin, and what is checked   *)
(* of each is what its own specification, run alone, would be checked for. *)
(***************************************************************************)
EXTENDS EpisodeCollector, BatchRunner, SourceDownload, NormalizeRelease,
        ThreadRestrictions, BenchmarkBuild, PublicationEvidence, IntegrationGate

CONSTANT Studied  \* the components a run is about

VARIABLE studied

MCBlocksOf == <<3, 2>>

\* Offers of one thread in every order and with ties, of another buyer, and of a listing of
\* whose rows the normalizer refuses one; statuses and types on both sides of the restrictions.
ThreadRow(l, b, t, k, s, p) == [listing |-> l, buyer |-> b, time |-> t, type |-> k, status |-> s, price |-> p]
MCRows ==
  {ThreadRow(1, 1, t, k[1], k[2], 2) : t \in 1..3, k \in {<<0, 7>>, <<2, 7>>, <<2, 2>>, <<1, 9>>}}
    \cup {ThreadRow(1, 2, t, 0, 0, p) : t \in 1..2, p \in {2, 4}}
    \cup {ThreadRow(3, 1, 1, -1, 7, 1), ThreadRow(3, 1, 1, 0, 6, 1)}
Priced(start, item) == [start |-> start, item |-> item]
MCListings == <<Priced(3, Missing), Priced(Missing, 2), Priced(2, 1), Priced(9, 1), Priced(2, 3)>>
MCBucketOf == [t \in Threads |-> IF t = <<1, 1>> THEN 2 ELSE 1]

\* Releases of five cases in several orders of time, of listings, sellers and buyers, some of
\* which version 1 has shown; and a small one with and without an audit.
MCTargets == <<"agreement">>
CaseOf(i, t, l) ==
  [id |-> i, target |-> "agreement", time |-> t, listing |-> l, seller |-> l % 4,
   buyer |-> IF i = 2 THEN 0 ELSE 1 + (i % 2), thread |-> i, labelled |-> i # 1]
ReleaseOf(ts, ls, v1, audited) ==
  [cases |-> {CaseOf(i, ts[i], ls[i]) : i \in DOMAIN ts}, v1 |-> v1, audited |-> audited]
MCReleases ==
  {ReleaseOf(ts, ls, v1, TRUE) :
     ts \in {<<1, 1, 1, 1, 1>>, <<1, 2, 3, 4, 5>>, <<2, 2, 1, 3, 2>>},
     ls \in {<<1, 1, 2, 3, 3>>, <<1, 2, 3, 2, 5>>, <<5, 3, 3, 2, 1>>, <<4, 1, 2, 3, 5>>},
     v1 \in {{}, {1}, {5}, {4, 5}}}
    \cup {ReleaseOf(<<1, 2, 3>>, <<1, 2, 3>>, {1}, audited) : audited \in BOOLEAN}
MCHashRank == <<3, 1, 5, 2, 4>>

\* The other file of listings has the rows of the official one, not the size of its database.
MCVersions == <<"O", "X">>
MCRowCount(l) == 2
MCBytes(c) == IF c = Absent THEN 0 ELSE IF c.listings = "O" THEN 7 ELSE 8

\* A directory the gate signals on, of one classification and one regression, and those that
\* differ from it in one thing, as a board; in one of them the regression's baseline makes no
\* error.
MCBaselinesOf == [agreement |-> {1, 2}, price |-> {1}]
GoodBoards ==
  [nested |-> <<100, 90, 80>>, chronological |-> <<100, 90, 90>>, seller |-> <<80, 90, 70>>,
   rotated |-> <<90, 90, 95>>, random |-> <<100, 90, 80>>, reordered |-> <<100, 90, 80>>]
GoodTarget == [boards |-> GoodBoards, missed |-> {}, coverage |-> 80, tied |-> TRUE]
GoodDirectory ==
  [audited |-> TRUE, clean |-> TRUE, assignable |-> DevelopmentSplits,
   target |-> [t \in {"agreement", "price"} |-> GoodTarget]]
OtherBoards ==
  [agreement |->
     {<<"nested", <<>>>>, <<"nested", <<100, 90, 86>>>>, <<"nested", <<0, 10, 3>>>>,
      <<"nested", <<80, 90, 85>>>>, <<"chronological", <<>>>>, <<"chronological", <<80, 90, 85>>>>,
      <<"seller", <<0, 10, 3>>>>, <<"rotated", <<>>>>, <<"rotated", <<100, 90, 86>>>>,
      <<"random", <<100, 90, 60>>>>, <<"reordered", <<80, 90, 85>>>>},
   price |->
     {<<"nested", <<80, 90, 79>>>>, <<"nested", <<0, 0, 0>>>>, <<"seller", <<>>>>,
      <<"seller", <<80, 90, 85>>>>, <<"chronological", <<0, 0, 0>>>>, <<"rotated", <<80, 90, 79>>>>,
      <<"rotated", <<0, 0, 0>>>>, <<"random", <<>>>>, <<"random", <<80, 90, 60>>>>}]
MCNormalized ==
  {GoodDirectory, [GoodDirectory EXCEPT !.audited = FALSE], [GoodDirectory EXCEPT !.clean = FALSE],
   [GoodDirectory EXCEPT !.assignable = {"chronological", "seller", "nested"}],
   [GoodDirectory EXCEPT !.target["price"].boards = [b \in Boards |-> <<0, 0, 0>>]],
   [GoodDirectory EXCEPT !.target["agreement"].missed = {"ece"}],
   [GoodDirectory EXCEPT !.target["agreement"].coverage = 79]}
    \cup UNION {{[GoodDirectory EXCEPT !.target[t].boards[o[1]] = o[2]] : o \in OtherBoards[t]} :
                  t \in {"agreement", "price"}}
MCProtocols == {DevelopmentSplits, DevelopmentSplits \cup {Lockbox}}

-----------------------------------------------------------------------------
DataSideInit ==
  /\ studied \in Studied
  /\ CollectorInit /\ BatchInit
  /\ DownloadInit /\ NormalizeInit /\ BenchmarkInit /\ EvidenceInit
  /\ IF studied = "gate" THEN GateInit ELSE GateInit /\ normalized = GoodDirectory
  /\ IF studied = "restrictions" THEN RestrictionInit
     ELSE RestrictionInit /\ source = <<>> /\ kept

Only(name) ==
  /\ studied = name /\ UNCHANGED studied
  /\ name # "collector" => UNCHANGED collectorVars
  /\ name # "batch" => UNCHANGED batchVars
  /\ name # "download" => UNCHANGED downloadVars
  /\ name # "normalize" => UNCHANGED normalizeVars
  /\ name # "restrictions" => UNCHANGED restrictionVars
  /\ name # "benchmark" => UNCHANGED benchmarkVars
  /\ name # "publication" => UNCHANGED evidenceVars
  /\ name # "gate" => UNCHANGED gateVars

DataSideNext ==
  \/ Only("collector") /\ CollectorNext
  \/ Only("batch") /\ BatchNext
  \/ Only("download") /\ DownloadNext
  \/ Only("normalize") /\ NormalizeNext
  \/ Only("restrictions") /\ RestrictionNext
  \/ Only("benchmark") /\ BenchmarkNext
  \/ Only("publication") /\ EvidenceNext
  \/ Only("gate") /\ GateNext

DataSideSpec ==
  DataSideInit
    /\ [][DataSideNext]_<<studied, collectorVars, batchVars, downloadVars,
                           normalizeVars, restrictionVars, benchmarkVars, evidenceVars, gateVars>>
=============================================================================
