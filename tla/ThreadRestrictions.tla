------------------------- MODULE ThreadRestrictions -------------------------
(***************************************************************************)
(* The sample restrictions of the Best Offer replication.  Two programs    *)
(* stream the thread file, sort its rows into buckets by thread, evaluate  *)
(* each thread and fold the result into one row per listing:               *)
(*   forensics    restriction_forensics.py, which drops complete           *)
(*                duplicates and breaks ties of time by the source order;  *)
(*   replication  replication.py, which reads the buckets the normalizer   *)
(*                left (without duplicates) or, if they are gone, the file *)
(*                itself, breaks ties by the content, and joins the        *)
(*                listings into the sample.                                *)
(* The first to run is immaterial: they share nothing but the source.      *)
(***************************************************************************)
EXTENDS Integers, Sequences, FiniteSets, SequencesExt

CONSTANTS
  Rows,        \* thread rows: [listing, buyer, time, type, status, price]
  Listings,    \* the listings, with [start, item]: prices, or Missing
  MaxRows,     \* bound of the model, not of the code
  BucketOf,    \* the bucket of a thread, by hash
  OfferLimit,  \* 3 in the code
  PriceCap     \* 1000 in the code

Missing == -1
Programs == <<"forensics", "replication">>
Flags == {"T1", "T2buyer", "T2seller", "T3", "T4", "T5"}
Threads == {<<r.listing, r.buyer>> : r \in Rows}
Buckets == {BucketOf[t] : t \in Threads}

ASSUME RestrictionAssumption ==
  /\ MaxRows \in Nat /\ OfferLimit \in Nat /\ Threads \subseteq DOMAIN BucketOf
  /\ IsFiniteSet(Buckets) /\ Buckets = 1..Cardinality(Buckets)
  /\ \A r \in Rows : r.time \in Nat /\ r.price \in Int
  /\ \A l \in DOMAIN Listings : Listings[l].start = Missing \/ Listings[l].start \in Nat

VARIABLES
  source,  \* the rows of the thread file
  kept,    \* the normalizer's buckets are still there
  stage,    \* the program under way, "read" or the bucket it is at
  bucket,  \* its buckets: rows with their place in the file
  flags,   \* of each program: a row of flags for each listing with a thread
  sample   \* the listing_sample table: listing -> in the sample without and with T5

restrictionVars == <<source, kept, stage, bucket, flags, sample>>

InRead(rows) == {i \in DOMAIN rows : \A j \in 1..(i - 1) : rows[j] # rows[i]}

\* The normalizer's buckets have no row with a code it does not know, nor one without the ids of
\* its thread and seller, which is like one here.  (Nobody keeps a row without listing or buyer.)
Known(row) == row.type \in {0, 1, 2} /\ row.status \in {0, 1, 2, 6, 7, 8, 9}

\* INSERT OR IGNORE of the row's hash: the first of equal rows stays.
Input(program) ==
  IF program = "forensics" THEN InRead(source)
  ELSE IF kept THEN {i \in InRead(source) : Known(source[i])} ELSE DOMAIN source

\* Content order of replication's sort; a missing value comes first.
ByContent(r, s) ==
  \/ r.type < s.type
  \/ r.type = s.type /\ r.price < s.price
  \/ r.type = s.type /\ r.price = s.price /\ r.status < s.status

\* Mutant: rows of a thread stay in the order of the file.
SortsByPlace(program, m, n) == m.place < n.place

SortsBefore(program, m, n) ==
  \/ m.row.time < n.row.time
  \/ /\ m.row.time = n.row.time
     /\ IF program = "forensics" \/ m.row = n.row THEN m.place < n.place ELSE
          ByContent(m.row, n.row)

\* The sorted rows of a thread: the n-th is the one with n - 1 before it.
InOrder(program, members) ==
  [n \in 1..Cardinality(members) |->
     CHOOSE m \in members : Cardinality({o \in members : SortsBefore(program, o, m)}) = n - 1]

IsAnswered(rows, i) ==
  LET next == IF i < Len(rows) THEN rows[i + 1].row.type ELSE Missing
  IN  CASE rows[i].row.type \in {0, 1} -> next = 2
        [] rows[i].row.type = 2        -> next = 1
        [] OTHER                       -> TRUE

\* Mutant: the limit is already reached with the last offer it allows.
MoreThanAllowedOff(members, types) == Cardinality({m \in members : m.row.type \in types}) >= OfferLimit

MoreThanAllowed(members, types) == Cardinality({m \in members : m.row.type \in types}) > OfferLimit

\* evaluate_thread_rows and _append_group_records: the restrictions a thread violates.
\* T1, an offer above the listing's start price, is only replication's.
Violations(program, members, listing) ==
  LET rows == InOrder(program, members)
      start == IF listing \in DOMAIN Listings THEN Listings[listing].start ELSE Missing
  IN  {f \in Flags :
        \/ f = "T1" /\ program = "replication" /\ start # Missing
             /\ \E m \in members : m.row.price > start
        \/ f = "T2buyer" /\ MoreThanAllowed(members, {0, 1})
        \/ f = "T2seller" /\ MoreThanAllowed(members, {2})
        \/ f = "T3" /\ \E i \in DOMAIN rows : rows[i].row.status = 7 /\ ~IsAnswered(rows, i)
        \/ f = "T4" /\ \E i \in 1..(Len(rows) - 1) : rows[i].row.status \in {1, 9}
        \/ f = "T5" /\ \E m, n \in members : m # n /\ m.row.time = n.row.time}

RestrictionInit ==
  /\ \E n \in 0..MaxRows : source \in [1..n -> Rows]
  /\ kept \in BOOLEAN
  /\ stage = [program |-> 1, at |-> 0]
  /\ bucket = [b \in Buckets |-> {}]
  /\ flags = [p \in ToSet(Programs) |-> <<>>]
  /\ sample = <<>>

Program == Programs[stage.program]

\* One pass over the input; each row goes to the bucket of its thread.
BucketRows ==
  /\ stage.program <= Len(Programs) /\ stage.at = 0
  /\ bucket' = [b \in Buckets |->
       {[row |-> source[i], place |-> i] :
          i \in {j \in Input(Program) : BucketOf[<<source[j].listing, source[j].buyer>>] = b}}]
  /\ stage' = [stage EXCEPT !.at = 1]
  /\ UNCHANGED <<source, kept, flags, sample>>

\* Mutant: a listing keeps the flags of the last of its threads.
MergedLast(table, listing, violated) ==
  [l \in DOMAIN table \cup {listing} |-> IF l = listing THEN violated ELSE table[l]]

Merged(table, listing, violated) ==
  [l \in DOMAIN table \cup {listing} |->
     (IF l \in DOMAIN table THEN table[l] ELSE {}) \cup (IF l = listing THEN violated ELSE {})]

\* The threads of one bucket, one after the other, each upserted into its listing's row.
ConsumeBucket ==
  /\ stage.program <= Len(Programs) /\ stage.at \in Buckets
  /\ LET in == bucket[stage.at]
         keys == SetToSeq({<<m.row.listing, m.row.buyer>> : m \in in})
         of(key) == {m \in in : <<m.row.listing, m.row.buyer>> = key}
     IN  flags' = [flags EXCEPT ![Program] =
           FoldLeft(LAMBDA table, key : Merged(table, key[1], Violations(Program, of(key), key[1])),
                    flags[Program], keys)]
  /\ stage' = [stage EXCEPT !.at = @ + 1]
  /\ UNCHANGED <<source, kept, bucket, sample>>

EndForensics ==
  /\ stage.program = 1 /\ stage.at > Cardinality(Buckets)
  /\ stage' = [program |-> 2, at |-> 0]
  /\ bucket' = [b \in Buckets |-> {}]
  /\ UNCHANGED <<source, kept, flags, sample>>

L1(l) == Listings[l].start # Missing /\ Listings[l].start > PriceCap
L2(l) == Listings[l].start # Missing /\ Listings[l].item # Missing /\ Listings[l].item > Listings[l].start

\* Mutant: a listing without a thread is left out of the sample.
InSampleThreaded(l, violated) ==
  Listings[l].start # Missing /\ ~L1(l) /\ ~L2(l) /\ violated = {} /\ l \in DOMAIN flags["replication"]

\* NULL > 1000 is NULL, and so is NOT of a disjunction of it and falsehoods: a listing
\* without a start price is in no sample.
InSample(l, violated) == Listings[l].start # Missing /\ ~L1(l) /\ ~L2(l) /\ violated = {}

BuildSample ==
  /\ stage.program = 2 /\ stage.at > Cardinality(Buckets)
  /\ LET violated(l) == IF l \in DOMAIN flags["replication"] THEN flags["replication"][l] ELSE {}
     IN  sample' = [l \in DOMAIN Listings |->
           [noT5 |-> InSample(l, violated(l) \ {"T5"}), withT5 |-> InSample(l, violated(l))]]
  /\ stage' = [program |-> 3, at |-> 0]
  /\ bucket' = [b \in Buckets |-> {}]
  /\ UNCHANGED <<source, kept, flags>>

RestrictionNext == BucketRows \/ ConsumeBucket \/ EndForensics \/ BuildSample

RestrictionSpec == RestrictionInit /\ [][RestrictionNext]_restrictionVars

-----------------------------------------------------------------------------
Distinct == {source[i] : i \in DOMAIN source}
OfThread(l, b) == {r \in Distinct : r.listing = l /\ r.buyer = b}
Tied(l) == \E r, s \in Distinct : r # s /\ r.listing = l /\ s.listing = l /\ r.buyer = s.buyer /\ r.time = s.time
Repeated == \E i, j \in DOMAIN source : i < j /\ source[i] = source[j]

\* The restrictions, stated of the set of distinct rows: a countered event is answered by
\* the next one, no event follows an acceptance.  A tie of time leaves T3 and T4 open.
Defined(l) ==
  LET buyers == {r.buyer : r \in {s \in Distinct : s.listing = l}}
      over(types) == \E b \in buyers : Cardinality({r \in OfThread(l, b) : r.type \in types}) > OfferLimit
      next(r) == {s \in OfThread(l, r.buyer) :
                    s.time > r.time /\ \A q \in OfThread(l, r.buyer) : q.time > r.time => q.time >= s.time}
      countered == {r \in Distinct : r.listing = l /\ r.status = 7}
  IN  (IF over({0, 1}) THEN {"T2buyer"} ELSE {}) \cup (IF over({2}) THEN {"T2seller"} ELSE {})
      \cup (IF \E r \in countered : \/ r.type \in {0, 1} /\ \A s \in next(r) : s.type # 2
                                    \/ r.type = 2 /\ \A s \in next(r) : s.type # 1 THEN {"T3"} ELSE {})
      \cup (IF \E r, s \in Distinct : /\ r.listing = l /\ s.listing = l /\ r.buyer = s.buyer
                                     /\ r.status \in {1, 9} /\ s.time > r.time THEN {"T4"} ELSE {})
      \cup (IF Tied(l) THEN {"T5"} ELSE {})

\* Whatever order the rows come in and whatever buckets and threads they fall into, a
\* listing ends with the flags of the restrictions that some thread of it violates
\* (evaluate_thread_rows, _process_buckets, _consume_group).
FlagsAsDefined ==
  stage.program > 1 =>
    \A l \in {r.listing : r \in Distinct} :
      LET found == flags["forensics"][l]
      IN  IF Tied(l) THEN found \ {"T3", "T4"} = Defined(l) \ {"T3", "T4"} ELSE found = Defined(l)

\* A listing is in the replicated sample with T5 exactly when the other two passes clear it:
\* L1 and L2 of the listing pass, T2 to T5 of forensics, and no offer above the start price.
\* The exceptions are a listing without a start price, which the listing pass calls
\* eligible; repeated rows read again after the normalizer's buckets are gone
\* (_iter_deduped_thread_rows); and, while they are there, a listing of whose rows the
\* normalizer refused one.  _build_listing_sample_table, _listing_restriction_row.
SampleAsCleared ==
  stage.program > 2 /\ (kept \/ ~Repeated) =>
    \A l \in DOMAIN Listings :
      Listings[l].start # Missing /\ (kept => \A r \in Distinct : r.listing = l => Known(r)) =>
        (sample[l].withT5 <=>
           /\ ~L1(l) /\ ~L2(l)
           /\ l \in DOMAIN flags["forensics"] => flags["forensics"][l] = {}
           /\ \A r \in Distinct : r.listing = l => r.price <= Listings[l].start)

\* Together: two programs with different passes, in different orders, decide alike.
RestrictionsAgree == FlagsAsDefined /\ SampleAsCleared
=============================================================================
