-------------------------- MODULE Campaigns_proofs --------------------------
(***************************************************************************)
(* What holds of the research campaigns of the laboratory and of the pilot *)
(* beside them for any number of processes, cases and files.  The two      *)
(* share no state: each has its own part, with the inductive invariant,    *)
(* its steps and its theorems.                                             *)
(***************************************************************************)
EXTENDS ResearchCampaign, Counterpilot, FoldFacts

-----------------------------------------------------------------------------
(* Research campaigns of the laboratory.                                   *)

\* The steps of a call, by the operation and the place in it.
Operations == {"open", "fit", "freeze", "hidden", "submit"}
OnSplit(c)     == c.op \in {"hidden", "submit"}
ToRead(c)      == c.at = 1 \/ (c.op = "freeze" /\ c.at = 4) \/ (c.op = "hidden" /\ c.at = 5)
ToAssign(c)    == c.at = 2 \/ (c.op = "freeze" /\ c.at = 5) \/ (c.op = "hidden" /\ c.at = 6)
ToFit(c)       == c.op = "fit" /\ c.at = 3
ToCut(c)       == c.op = "freeze" /\ c.at = 3
ToHead(c)      == c.op = "freeze" /\ c.at = 6
ToFreeze(c)    == c.op = "freeze" /\ c.at = 7
ToReadRows(c)  == OnSplit(c) /\ c.at = 3
ToReserve(c)   == OnSplit(c) /\ c.at = 4
ToScore(c)     == (c.op = "hidden" /\ c.at = 7) \/ (c.op = "submit" /\ c.at = 5)
Paid(c)        == OnSplit(c) /\ c.at > 4

LengthOf(op) == IF op = "open" THEN 2 ELSE IF op = "fit" THEN 3 ELSE IF op = "submit" THEN 5 ELSE 7
InPlace(c) == c.op \in Operations /\ c.at \in 0..LengthOf(c.op)

LEMMA StepsAsPlaces ==
  ASSUME NEW c, InPlace(c), c.at > 0
  PROVE  /\ Len(Steps[c.op]) = LengthOf(c.op)
         /\ Steps[c.op][c.at] = "read" <=> ToRead(c)
         /\ Steps[c.op][c.at] = "assign" <=> ToAssign(c)
         /\ Steps[c.op][c.at] = "fit" <=> ToFit(c)
         /\ Steps[c.op][c.at] = "cut" <=> ToCut(c)
         /\ Steps[c.op][c.at] = "head" <=> ToHead(c)
         /\ Steps[c.op][c.at] = "freeze" <=> ToFreeze(c)
         /\ Steps[c.op][c.at] = "rows" <=> ToReadRows(c)
         /\ Steps[c.op][c.at] = "reserve" <=> ToReserve(c)
         /\ Steps[c.op][c.at] = "score" <=> ToScore(c)
<1> USE DEF InPlace, LengthOf, ToRead, ToAssign, ToFit, ToCut, ToHead, ToFreeze, ToReadRows, ToReserve,
            ToScore, OnSplit
<1>1. CASE c.op = "open"
  <2>1. Steps[c.op] = <<"read", "assign">> /\ c.at \in 1..2
    BY <1>1 DEF Steps
  <2> QED
    BY <1>1, <2>1
<1>2. CASE c.op = "fit"
  <2>1. Steps[c.op] = <<"read", "assign", "fit">> /\ c.at \in 1..3
    BY <1>2 DEF Steps
  <2> QED
    BY <1>2, <2>1
<1>3. CASE c.op = "freeze"
  <2>1. Steps[c.op] = <<"read", "assign", "cut", "read", "assign", "head", "freeze">> /\ c.at \in 1..7
    BY <1>3 DEF Steps
  <2> QED
    BY <1>3, <2>1
<1>4. CASE c.op = "hidden"
  <2>1. Steps[c.op] = <<"read", "assign", "rows", "reserve", "read", "assign", "score">> /\ c.at \in 1..7
    BY <1>4 DEF Steps
  <2> QED
    BY <1>4, <2>1
<1>5. CASE c.op = "submit"
  <2>1. Steps[c.op] = <<"read", "assign", "rows", "reserve", "score">> /\ c.at \in 1..5
    BY <1>5 DEF Steps
  <2> QED
    BY <1>5, <2>1
<1> QED
  BY <1>1, <1>2, <1>3, <1>4, <1>5 DEF Operations

-----------------------------------------------------------------------------
\* The cases of a campaign in one split, and those its candidate is selected on.
Filed(g, s) == {x \in Assigned(g) : manifest[g][x] = s}
Covered(g, cut) == \A x \in Assigned(g) : manifest[g][x] \in {"training", "development", "hidden"} => x <= cut

UseRecords ==
  [op : {"hidden", "submit"}, g : Campaigns,
   scope : {"hidden", "prospective"} \X ((SUBSET Cases) \cup (SUBSET Campaigns)), cases : SUBSET Cases]

\* The records: what is assigned is a row, a trial has begun before its outcome is known, a
\* frozen campaign was started, what was spent was spent on a frozen campaign.
LedgerOK ==
  /\ known \subseteq Cases /\ begun \subseteq Trials /\ known \cap Trials \subseteq begun
  /\ scenario \in Scenarios
  /\ manifest = [g \in DOMAIN manifest |-> manifest[g]]
  /\ \A g \in DOMAIN manifest : g \in Campaigns /\ DOMAIN manifest[g] \subseteq Rows
  /\ DOMAIN freeze = Campaigns
  /\ \A g \in Campaigns : freeze[g] # {} => g \in DOMAIN manifest
  /\ uses \in Seq(UseRecords)
  /\ \A i \in DOMAIN uses : freeze[uses[i].g] # {}
  /\ \A e \in evals : e.use \in DOMAIN uses

Whole(c) == c = [op |-> c.op, at |-> c.at, g |-> c.g, m |-> c.m, rows |-> c.rows, frozen |-> c.frozen,
                 new |-> c.new, cut |-> c.cut, head |-> c.head, tries |-> c.tries, outer |-> c.outer,
                 use |-> c.use]

\* What a call carries, by the place it is at: rows to assign by the freeze that was read, or by
\* none when every one of them has been assigned since; a cut that covers the selection; the
\* cases that were paid for.
ReadsAgree(c) ==
  ToAssign(c) =>
    /\ c.rows \subseteq Rows /\ (c.new \/ c.g \in DOMAIN manifest)
    /\ c.frozen = freeze[c.g] \/ (c.frozen = {} /\ c.rows \subseteq Assigned(c.g))
CutKept(c) == c.op = "freeze" /\ c.at > 3 => Covered(c.g, c.cut)
RowsRead(c) == ToReserve(c) => freeze[c.g] # {} /\ (c.op = "hidden" => c.rows = Filed(c.g, "hidden"))
Reserved(c) ==
  Paid(c) =>
    /\ c.use \in DOMAIN uses /\ uses[c.use].g = c.g
    /\ uses[c.use].cases = IF c.op = "hidden" THEN Filed(c.g, "hidden") ELSE c.rows
CallOK(c) ==
  /\ Whole(c) /\ InPlace(c) /\ c.rows \subseteq Cases
  /\ c.at > 0 => /\ c.g \in Campaigns /\ (c.at > 2 => c.g \in DOMAIN manifest)
                 /\ ReadsAgree(c) /\ CutKept(c) /\ RowsRead(c) /\ Reserved(c)

CallsOK == DOMAIN call = Clients /\ \A p \in Clients : CallOK(call[p])

\* A reservation belongs to one call, until its score is in the ledger.
PaidOnce ==
  \A p \in Clients : Paid(call[p]) =>
    /\ \A e \in evals : e.use # call[p].use
    /\ \A q \in Clients \ {p} : Paid(call[q]) => call[q].use # call[p].use

CampaignInv == LedgerOK /\ FreezeSound /\ HiddenPaidOnce /\ CallsOK /\ PaidOnce

\* The ledger only grows: cases that are assigned stay in their split, later ones are in none that
\* is selected on, a freeze is made when everything known is assigned.
Grows ==
  /\ known \subseteq known'
  /\ DOMAIN manifest \subseteq DOMAIN manifest'
  /\ \A g \in DOMAIN manifest :
       /\ DOMAIN manifest[g] \subseteq DOMAIN manifest'[g]
       /\ \A x \in DOMAIN manifest'[g] :
            IF x \in DOMAIN manifest[g] THEN manifest'[g][x] = manifest[g][x]
            ELSE manifest'[g][x] \in {"prospective", "staging"}
  /\ \A g \in Campaigns :
       freeze'[g] = freeze[g]
         \/ (freeze[g] = {} /\ freeze'[g] # {} /\ known \subseteq Assigned(g) /\ manifest' = manifest /\ known' = known)
  /\ \A i \in DOMAIN uses : i \in DOMAIN uses' /\ uses'[i] = uses[i]

LEMMA FiledStays ==
  ASSUME Grows, NEW g \in DOMAIN manifest
  PROVE  Filed(g, "hidden")' = Filed(g, "hidden") /\ Assigned(g) \subseteq Assigned(g)'
<1>1. g \in DOMAIN manifest' /\ Assigned(g) = DOMAIN manifest[g] /\ Assigned(g)' = DOMAIN manifest'[g]
  BY DEF Grows, Assigned
<1>2. \A x : x \in Filed(g, "hidden")' <=> x \in Filed(g, "hidden")
  BY <1>1 DEF Grows, Filed
<1> QED
  BY <1>1, <1>2 DEF Grows

LEMMA CallStays ==
  ASSUME LedgerOK, LedgerOK', Grows, NEW c, CallOK(c)
  PROVE  CallOK(c)'
<1>1. Whole(c) /\ InPlace(c) /\ c.rows \subseteq Cases
  BY DEF CallOK
<1> SUFFICES ASSUME c.at > 0
             PROVE  /\ c.g \in Campaigns /\ (c.at > 2 => c.g \in DOMAIN manifest')
                    /\ ReadsAgree(c)' /\ CutKept(c)' /\ RowsRead(c)' /\ Reserved(c)'
  BY <1>1 DEF CallOK
<1>2. /\ c.g \in Campaigns /\ (c.at > 2 => c.g \in DOMAIN manifest)
      /\ ReadsAgree(c) /\ CutKept(c) /\ RowsRead(c) /\ Reserved(c)
  BY DEF CallOK
<1>3. c.at > 2 => c.g \in DOMAIN manifest'
  BY <1>2 DEF Grows
<1>4. ReadsAgree(c)'
  <2> SUFFICES ASSUME ToAssign(c) PROVE ReadsAgree(c)'
    BY DEF ReadsAgree
  <2>1. c.rows \subseteq Rows' /\ (c.new \/ c.g \in DOMAIN manifest')
    BY <1>2 DEF ReadsAgree, Grows, Rows
  <2>2. Assigned(c.g) \subseteq Assigned(c.g)'
    BY FiledStays DEF Assigned
  <2>3. c.frozen = freeze'[c.g] \/ (c.frozen = {} /\ c.rows \subseteq Assigned(c.g)')
    <3>1. CASE freeze'[c.g] = freeze[c.g]
      BY <3>1, <1>2, <2>2 DEF ReadsAgree
    <3>2. CASE freeze'[c.g] # freeze[c.g]
      <4>1. freeze[c.g] = {} /\ known \subseteq Assigned(c.g) /\ Rows \subseteq known
        BY <3>2, <1>2 DEF Grows, Rows
      <4> QED
        BY <4>1, <1>2, <2>2 DEF ReadsAgree
    <3> QED
      BY <3>1, <3>2
  <2> QED
    BY <2>1, <2>3 DEF ReadsAgree
<1>5. CutKept(c)'
  <2> SUFFICES ASSUME c.op = "freeze", c.at > 3 PROVE Covered(c.g, c.cut)'
    BY DEF CutKept
  <2>1. c.g \in DOMAIN manifest /\ Covered(c.g, c.cut) /\ c.g \in DOMAIN manifest'
    BY <1>1, <1>2, <1>3 DEF CutKept, InPlace
  <2> QED
    BY <2>1 DEF Grows, Covered, Assigned
<1>6. RowsRead(c)'
  <2> SUFFICES ASSUME ToReserve(c) PROVE RowsRead(c)'
    BY DEF RowsRead
  <2>1. c.g \in DOMAIN manifest
    BY <1>1, <1>2 DEF ToReserve, InPlace
  <2>2. freeze'[c.g] # {}
    BY <1>2 DEF RowsRead, Grows
  <2> QED
    BY <2>1, <2>2, <1>2, FiledStays DEF RowsRead
<1>7. Reserved(c)'
  <2> SUFFICES ASSUME Paid(c) PROVE Reserved(c)'
    BY DEF Reserved
  <2>1. c.g \in DOMAIN manifest
    BY <1>1, <1>2 DEF Paid, InPlace
  <2> QED
    BY <2>1, <1>2, FiledStays DEF Reserved, Grows
<1> QED
  BY <1>2, <1>3, <1>4, <1>5, <1>6, <1>7

LEMMA LedgerSame ==
  ASSUME CampaignInv, UNCHANGED ledger, UNCHANGED scenario
  PROVE  LedgerOK' /\ FreezeSound' /\ HiddenPaidOnce' /\ Grows
<1> USE DEF ledger
<1>1. LedgerOK'
  BY DEF CampaignInv, LedgerOK, Rows
<1>2. FreezeSound'
  BY DEF CampaignInv, FreezeSound, ProspectiveExactlyFuture, CutCoversSelection, Assigned
<1>3. HiddenPaidOnce'
  BY DEF CampaignInv, HiddenPaidOnce, HiddenOnce, ScoresArePaid
<1> QED
  BY <1>1, <1>2, <1>3 DEF Grows

LEMMA NothingOK == CallOK(Nothing)' /\ CallOK(Nothing) /\ ~Paid(Nothing) /\ Nothing.at = 0
BY DEF CallOK, Nothing, Whole, InPlace, LengthOf, Operations, Paid, OnSplit

\* One call goes on or ends, the others stay as they are.
LEMMA OthersStay ==
  ASSUME CampaignInv, LedgerOK', FreezeSound', HiddenPaidOnce', Grows,
         NEW p \in Clients, NEW d, call' = [call EXCEPT ![p] = d], CallOK(d)', PaidOnce'
  PROVE  CampaignInv'
<1>1. CallsOK'
  <2>1. DOMAIN call' = Clients
    BY DEF CampaignInv, CallsOK
  <2>2. ASSUME NEW q \in Clients PROVE (CallOK(call[q]))'
    <3>1. CASE q = p
      BY <3>1 DEF CampaignInv, CallsOK
    <3>2. CASE q # p
      <4>1. call'[q] = call[q] /\ CallOK(call[q]) /\ LedgerOK
        BY <3>2 DEF CampaignInv, CallsOK
      <4>2. PICK c : c = call[q]
        OBVIOUS
      <4>3. CallOK(c)'
        BY <4>1, <4>2, CallStays
      <4> QED
        BY <4>1, <4>2, <4>3
    <3> QED
      BY <3>1, <3>2
  <2> QED
    BY <2>1, <2>2 DEF CallsOK
<1> QED
  BY <1>1 DEF CampaignInv

\* A reservation stays with the call that has it, which ends with its score.
LEMMA PaidOnceKept ==
  ASSUME CampaignInv, NEW p \in Clients, NEW d, call' = [call EXCEPT ![p] = d],
         \/ Paid(d) /\ Paid(call[p]) /\ d.use = call[p].use /\ evals' = evals
         \/ Paid(d) /\ d.use \notin DOMAIN uses /\ evals' = evals
         \/ ~Paid(d) /\ evals' = evals
         \/ ~Paid(d) /\ Paid(call[p]) /\ \E e : evals' = evals \cup {e} /\ e.use = call[p].use
  PROVE  PaidOnce'
<1>1. call'[p] = d /\ \A q \in Clients \ {p} : call'[q] = call[q]
  BY DEF CampaignInv, CallsOK
<1>2. \A q \in Clients : Paid(call[q]) => call[q].use \in DOMAIN uses
  BY DEF CampaignInv, CallsOK, CallOK, Reserved, Paid, InPlace, OnSplit
<1>3. \A e \in evals : e.use \in DOMAIN uses
  BY DEF CampaignInv, LedgerOK
<1>4. PaidOnce
  BY DEF CampaignInv
<1> HIDE DEF CampaignInv
<1>5. CASE Paid(d) /\ Paid(call[p]) /\ d.use = call[p].use /\ evals' = evals
  BY <1>1, <1>4, <1>5 DEF PaidOnce
<1>6. CASE Paid(d) /\ d.use \notin DOMAIN uses /\ evals' = evals
  BY <1>1, <1>2, <1>3, <1>4, <1>6 DEF PaidOnce
<1>7. CASE ~Paid(d) /\ evals' = evals
  BY <1>1, <1>4, <1>7 DEF PaidOnce
<1>8. ASSUME ~Paid(d), Paid(call[p]), NEW e, evals' = evals \cup {e}, e.use = call[p].use PROVE PaidOnce'
  BY <1>1, <1>4, <1>8 DEF PaidOnce
<1> QED
  BY <1>5, <1>6, <1>7, <1>8

\* A step that only reads: the call goes on with what it has read.
LEMMA ReadingKeeps ==
  ASSUME CampaignInv, UNCHANGED ledger, UNCHANGED scenario, NEW p \in Clients, NEW d,
         call' = [call EXCEPT ![p] = d], CallOK(d),
         Paid(d) => Paid(call[p]) /\ d.use = call[p].use
  PROVE  CampaignInv'
<1>1. LedgerOK' /\ FreezeSound' /\ HiddenPaidOnce' /\ Grows
  BY LedgerSame
<1>2. CallOK(d)'
  BY <1>1, CallStays DEF CampaignInv
<1>3. evals' = evals
  BY DEF ledger
<1>4. PaidOnce'
  BY <1>3, PaidOnceKept
<1> QED
  BY <1>1, <1>2, <1>4, OthersStay

\* What follows a step.
After(c) == IF c.at = Len(Steps[c.op]) THEN Nothing ELSE [c EXCEPT !.at = c.at + 1]
LEMMA ContinueFacts ==
  ASSUME NEW p, NEW c
  PROVE  Continue(p, c) <=> call' = [call EXCEPT ![p] = After(c)]
BY DEF Continue, Return, Jump, After

\* Records of a call, with other values in some of their fields.
LEMMA BegunRecord ==
  ASSUME NEW o, NEW g, NEW m, NEW d, d = [Nothing EXCEPT !.op = o, !.at = 1, !.g = g, !.m = m]
  PROVE  d = [op |-> o, at |-> 1, g |-> g, m |-> m, rows |-> {}, frozen |-> {}, new |-> FALSE, cut |-> 0,
            head |-> 0, tries |-> 1, outer |-> 1, use |-> 0]
BY DEF Nothing

Reading(c, x, y, z) == [c EXCEPT !.rows = x, !.frozen = y, !.new = z]
LEMMA ReadRecord ==
  ASSUME NEW c, Whole(c), NEW x, NEW y, NEW z, NEW r, r = Reading(c, x, y, z)
  PROVE  /\ Whole(r) /\ r.rows = x /\ r.frozen = y /\ r.new = z
         /\ r.op = c.op /\ r.at = c.at /\ r.g = c.g /\ r.m = c.m /\ r.cut = c.cut /\ r.use = c.use
<1>1. r = [op |-> c.op, at |-> c.at, g |-> c.g, m |-> c.m, rows |-> x, frozen |-> y,
           new |-> z, cut |-> c.cut, head |-> c.head, tries |-> c.tries, outer |-> c.outer, use |-> c.use]
  BY DEF Whole, Reading
<1> QED
  BY <1>1 DEF Whole

\* A record whose rows and frozen are taken back and that keeps the rest of c.
EndsRead(c, r) ==
  /\ Whole(r) /\ r.rows = {} /\ r.frozen = {}
  /\ r.op = c.op /\ r.at = c.at /\ r.g = c.g /\ r.m = c.m /\ r.cut = c.cut /\ r.use = c.use

LEMMA DoneReading ==
  ASSUME NEW c, Whole(c), NEW z, NEW r, r = Reading(c, {}, {}, z)
  PROVE  EndsRead(c, r)
BY ReadRecord DEF EndsRead

LEMMA DoneRecord ==
  ASSUME NEW c, Whole(c), NEW r, r = Reading(c, {}, {}, FALSE)
  PROVE  /\ Whole(r) /\ r.rows = {} /\ r.frozen = {}
         /\ r.op = c.op /\ r.at = c.at /\ r.g = c.g /\ r.m = c.m /\ r.cut = c.cut /\ r.use = c.use
<1>1. EndsRead(c, r)
  BY DoneReading, Zenon
<1> QED
  BY <1>1 DEF EndsRead

LEMMA AfterRecord ==
  ASSUME NEW c, Whole(c), InPlace(c), c.at > 0, c.at < LengthOf(c.op)
  PROVE  LET d == After(c)
         IN  /\ Whole(d) /\ InPlace(d) /\ d.at = c.at + 1
             /\ d.op = c.op /\ d.g = c.g /\ d.m = c.m /\ d.rows = c.rows /\ d.frozen = c.frozen
             /\ d.new = c.new /\ d.cut = c.cut /\ d.use = c.use
<1>1. c.at # Len(Steps[c.op])
  BY StepsAsPlaces DEF InPlace
<1>2. After(c) = [c EXCEPT !.at = c.at + 1]
  BY <1>1 DEF After
<1> DEFINE d == [c EXCEPT !.at = c.at + 1]
<1>3. Whole(d) /\ d.at = c.at + 1
             /\ d.op = c.op /\ d.g = c.g /\ d.m = c.m /\ d.rows = c.rows /\ d.frozen = c.frozen
             /\ d.new = c.new /\ d.cut = c.cut /\ d.use = c.use
  BY DEF Whole
<1> HIDE DEF d
<1>4. InPlace(d)
  BY <1>3 DEF InPlace, LengthOf, Operations
<1> QED
  BY <1>2, <1>3, <1>4 DEF d

LEMMA BeginKeeps ==
  ASSUME CampaignInv, NEW p \in Clients, Begin(p), UNCHANGED scenario
  PROVE  CampaignInv'
<1>1. PICK w \in scenario.work[p] :
        call' = [call EXCEPT ![p] = [Nothing EXCEPT !.op = w[1], !.at = 1, !.g = w[2], !.m = w[3]]]
  BY DEF Begin
<1>2. w \in {"open", "fit", "freeze", "hidden", "submit"} \X Campaigns \X Models
  BY CampaignAssumption DEF CampaignAssumption, CampaignInv, LedgerOK
<1> DEFINE d == [Nothing EXCEPT !.op = w[1], !.at = 1, !.g = w[2], !.m = w[3]]
<1>3. d = [op |-> w[1], at |-> 1, g |-> w[2], m |-> w[3], rows |-> {}, frozen |-> {},
           new |-> FALSE, cut |-> 0, head |-> 0, tries |-> 1, outer |-> 1, use |-> 0]
  BY BegunRecord
<1> HIDE DEF d
<1>4. w[1] \in Operations /\ w[2] \in Campaigns
  BY <1>2 DEF Operations
<1>5. CallOK(d) /\ ~Paid(d)
  BY <1>3, <1>4 DEF CallOK, Whole, InPlace, LengthOf, Operations, ReadsAgree, CutKept, RowsRead, Reserved,
     Paid, ToAssign, ToReserve, OnSplit
<1>6. UNCHANGED ledger /\ call' = [call EXCEPT ![p] = d]
  BY <1>1 DEF Begin, d
<1> QED
  BY <1>5, <1>6, ReadingKeeps

LEMMA ReturnKeeps ==
  ASSUME CampaignInv, NEW p \in Clients, Return(p), UNCHANGED ledger, UNCHANGED scenario
  PROVE  CampaignInv'
<1>1. call' = [call EXCEPT ![p] = Nothing]
  BY DEF Return
<1> QED
  BY <1>1, NothingOK, ReadingKeeps

\* The place of a call that is under way.
LEMMA CallFacts ==
  ASSUME CampaignInv, NEW p \in Clients, call[p].at > 0
  PROVE  /\ CallOK(call[p]) /\ InPlace(call[p]) /\ Whole(call[p]) /\ call[p].g \in Campaigns
         /\ ReadsAgree(call[p]) /\ CutKept(call[p]) /\ RowsRead(call[p]) /\ Reserved(call[p])
         /\ call[p].at > 2 => call[p].g \in DOMAIN manifest
         /\ call[p].rows \subseteq Cases
BY DEF CampaignInv, CallsOK, CallOK

LEMMA ReadManifestKeeps ==
  ASSUME CampaignInv, NEW p \in Clients, ReadManifest(p), UNCHANGED scenario
  PROVE  CampaignInv'
<1> DEFINE c == call[p]
           r == [c EXCEPT !.rows = Rows \ Assigned(c.g), !.frozen = freeze[c.g], !.new = c.g \notin DOMAIN manifest]
<1>1. c.at > 0 /\ Steps[c.op][c.at] = "read" /\ Continue(p, r) /\ UNCHANGED ledger
  BY DEF ReadManifest, At
<1>2. /\ CallOK(c) /\ InPlace(c) /\ Whole(c) /\ c.g \in Campaigns /\ CutKept(c) /\ Reserved(c)
      /\ c.at > 2 => c.g \in DOMAIN manifest
  BY <1>1, CallFacts
<1>3. ToRead(c)
  BY <1>1, <1>2, StepsAsPlaces
<1>a. r = [c EXCEPT !.rows = Rows \ Assigned(c.g), !.frozen = freeze[c.g], !.new = c.g \notin DOMAIN manifest]
  OBVIOUS
<1> HIDE DEF r, c
<1>b. PICK z : z = (c.g \notin DOMAIN manifest)
  OBVIOUS
<1>c. r = Reading(c, Rows \ Assigned(c.g), freeze[c.g], z)
  BY <1>a, <1>b, Zenon DEF Reading
<1>4. /\ Whole(r) /\ r.rows = Rows \ Assigned(c.g) /\ r.frozen = freeze[c.g] /\ r.new = z
      /\ r.op = c.op /\ r.at = c.at /\ r.g = c.g /\ r.cut = c.cut /\ r.use = c.use
  BY <1>c, <1>2, ReadRecord
<1>5. InPlace(r)
  BY <1>2, <1>4 DEF InPlace
<1>6. r.at < LengthOf(r.op) /\ r.at > 0
  BY <1>1, <1>2, <1>3, <1>4 DEF ToRead, InPlace, LengthOf, Operations
<1> DEFINE d == After(r)
<1>7. /\ Whole(d) /\ InPlace(d) /\ d.at = r.at + 1
      /\ d.op = r.op /\ d.g = r.g /\ d.m = r.m /\ d.rows = r.rows /\ d.frozen = r.frozen
      /\ d.new = r.new /\ d.cut = r.cut /\ d.use = r.use
  BY <1>4, <1>5, <1>6, AfterRecord, Zenon
<1> HIDE DEF d
<1>8. d.new \/ c.g \in DOMAIN manifest
  BY <1>b, <1>4, <1>7, Zenon
<1>9. Whole(d) /\ InPlace(d) /\ d.at = c.at + 1 /\ d.op = c.op /\ d.g = c.g /\ d.cut = c.cut /\ d.use = c.use
      /\ d.rows = Rows \ Assigned(c.g) /\ d.frozen = freeze[c.g]
  BY <1>4, <1>7, Zenon
<1>10. ToAssign(d) /\ ~ToReserve(d) /\ (d.op = "freeze" /\ d.at > 3 => c.at > 3)
       /\ (Paid(d) => Paid(c) /\ c.op = "hidden") /\ (d.at > 2 => c.at > 2)
  BY <1>2, <1>3, <1>9 DEF ToRead, ToAssign, ToReserve, Paid, OnSplit, InPlace
<1>11. CallOK(d)
  <2>1. Rows \subseteq Cases
    BY DEF Rows, CampaignInv, LedgerOK
  <2>2. ReadsAgree(d)
    BY <1>8, <1>9, Zenon DEF ReadsAgree
  <2>3. CutKept(d)
    BY <1>2, <1>9, <1>10 DEF CutKept
  <2>4. RowsRead(d)
    BY <1>10 DEF RowsRead
  <2>5. Reserved(d)
    BY <1>2, <1>9, <1>10 DEF Reserved
  <2> QED
    BY <1>2, <1>9, <1>10, <2>1, <2>2, <2>3, <2>4, <2>5 DEF CallOK
<1>12. call' = [call EXCEPT ![p] = d]
  BY <1>1, ContinueFacts DEF d
<1>13. Paid(d) => Paid(call[p]) /\ d.use = call[p].use
  BY <1>9, <1>10 DEF c
<1> QED
  BY <1>1, <1>11, <1>12, <1>13, ReadingKeeps

-----------------------------------------------------------------------------
\* What a call carries past its assignment.
LEMMA AssignAdvances ==
  ASSUME NEW c, InPlace(c), c.at > 0, ToAssign(c), CallOK(c)', c.g \in DOMAIN manifest'
  PROVE  LET d == After(Reading(c, {}, {}, FALSE))
         IN  CallOK(d)' /\ (Paid(d) => Paid(c) /\ d.use = c.use)
<1> DEFINE r == Reading(c, {}, {}, FALSE)
           d == After(r)
<1>1. CASE c.at = LengthOf(c.op)
  <2>0. Whole(c) /\ r = Reading(c, {}, {}, FALSE)
    BY DEF CallOK
  <2>1. Whole(r) /\ r.op = c.op /\ r.at = c.at
    <3> HIDE DEF r, d
    <3> QED
      BY <2>0, DoneRecord
  <2> HIDE DEF r
  <2>2. After(r) = Nothing
    BY <1>1, <2>1, StepsAsPlaces DEF After, InPlace
  <2> QED
    BY <2>2, NothingOK DEF r
<1>2. CASE c.at # LengthOf(c.op)
  <2>0. Whole(c) /\ r = Reading(c, {}, {}, FALSE)
    BY DEF CallOK
  <2>1. /\ Whole(r) /\ r.rows = {} /\ r.op = c.op /\ r.at = c.at /\ r.g = c.g /\ r.m = c.m /\ r.cut = c.cut
        /\ r.use = c.use
    <3> HIDE DEF r, d
    <3> QED
      BY <2>0, DoneRecord
  <2> HIDE DEF r
  <2>2. InPlace(r) /\ r.at > 0 /\ r.at < LengthOf(r.op)
    BY <1>2, <2>1 DEF InPlace, LengthOf, Operations
  <2>3. /\ Whole(d) /\ InPlace(d) /\ d.at = c.at + 1
        /\ d.op = c.op /\ d.g = c.g /\ d.rows = {} /\ d.cut = c.cut /\ d.use = c.use
    BY <2>1, <2>2, AfterRecord
  <2> HIDE DEF d
  <2>4. /\ ~ToAssign(d) /\ ~ToReserve(d) /\ d.at > 0 /\ (d.op = "freeze" /\ d.at > 3 => c.at > 3)
        /\ (Paid(d) => Paid(c) /\ c.op = "hidden")
    BY <2>3 DEF ToAssign, ToReserve, Paid, OnSplit, InPlace, Operations
  <2>5. c.g \in Campaigns /\ CutKept(c)' /\ Reserved(c)'
    BY DEF CallOK
  <2>6. CutKept(d)' /\ Reserved(d)'
    BY <2>3, <2>4, <2>5 DEF CutKept, Reserved
  <2>7. CallOK(d)'
    BY <2>3, <2>4, <2>5, <2>6 DEF CallOK, ReadsAgree, RowsRead
  <2> QED
    BY <2>3, <2>4, <2>7 DEF d, r
<1> QED
  BY <1>1, <1>2

LEMMA SplitFacts ==
  ASSUME NEW rows
  PROVE  DOMAIN SplitRows(rows) = rows /\ \A x \in rows : SplitRows(rows)[x] \in {"training", "development", "hidden"}
<1>1. PICK rank : rank = [x \in rows |-> SplitRows(rows)[x]]
  OBVIOUS
<1> QED
  BY DEF SplitRows

LEMMA ClassifyFacts == ASSUME NEW x, NEW frozen PROVE Classify(x, frozen) \in {"prospective", "staging"}
BY DEF Classify

\* A campaign is started: some of its cases are split, and none is frozen on yet.
LEMMA StartKeeps ==
  ASSUME CampaignInv, NEW c, c.g \in Campaigns, c.g \notin DOMAIN manifest, c.rows \subseteq Rows,
         NEW rows, rows \subseteq c.rows, manifest' = Started(c, rows),
         UNCHANGED <<known, begun, fits, freeze, uses, evals, scenario>>
  PROVE  LedgerOK' /\ FreezeSound' /\ HiddenPaidOnce' /\ Grows /\ c.g \in DOMAIN manifest'
<1>1. PICK g : g = c.g
  OBVIOUS
<1>2. /\ DOMAIN manifest' = {g} \cup DOMAIN manifest
      /\ manifest' = [x \in DOMAIN manifest' |-> manifest'[x]]
      /\ DOMAIN manifest'[g] = rows
      /\ \A x \in rows : manifest'[g][x] \in {"training", "development", "hidden"}
      /\ \A h \in DOMAIN manifest : manifest'[h] = manifest[h]
  <2>1. manifest' = [h \in DOMAIN manifest \cup {g} |->
                       IF h = g THEN [r \in rows |-> SplitRows(c.rows)[r]] ELSE manifest[h]]
    BY <1>1 DEF Started
  <2>2. \A x \in rows : SplitRows(c.rows)[x] \in {"training", "development", "hidden"}
    BY SplitFacts
  <2> QED
    BY <1>1, <2>1, <2>2
<1>3. freeze[g] = {} /\ g \in Campaigns /\ g \notin DOMAIN manifest /\ freeze' = freeze /\ known' = known /\ begun' = begun /\ uses' = uses /\ evals' = evals
      /\ scenario' = scenario
  BY <1>1 DEF CampaignInv, LedgerOK
<1>4. LedgerOK'
  BY <1>1, <1>2, <1>3 DEF CampaignInv, LedgerOK, Rows
<1>5. ProspectiveExactlyFuture'
  <2> SUFFICES ASSUME NEW h \in DOMAIN manifest', NEW x \in DOMAIN manifest'[h]
               PROVE  manifest'[h][x] = "prospective" <=> \E f \in freeze[h] : x > f.cutoff /\ x \notin f.before
    BY <1>3 DEF ProspectiveExactlyFuture, Assigned
  <2>1. CASE h = g
    BY <1>2, <1>3, <2>1
  <2>2. CASE h # g
    BY <1>2, <2>2 DEF CampaignInv, FreezeSound, ProspectiveExactlyFuture, Assigned
  <2> QED
    BY <2>1, <2>2
<1>6. CutCoversSelection'
  BY <1>2, <1>3 DEF CampaignInv, FreezeSound, CutCoversSelection, Assigned
<1>7. HiddenPaidOnce'
  BY <1>3 DEF CampaignInv, HiddenPaidOnce, HiddenOnce, ScoresArePaid
<1>8. Grows
  BY <1>2, <1>3 DEF Grows
<1> QED
  BY <1>1, <1>2, <1>4, <1>5, <1>6, <1>7, <1>8 DEF FreezeSound

\* Cases are added to a campaign: by the freeze that is on record, since cases read before one
\* are assigned by the time it is made.
LEMMA AddKeeps ==
  ASSUME CampaignInv, NEW g \in DOMAIN manifest, NEW rows, rows \subseteq Rows, rows \cap Assigned(g) = {},
         NEW frozen, frozen = freeze[g] \/ (frozen = {} /\ rows \subseteq Assigned(g)), g \in Campaigns,
         manifest' = [manifest EXCEPT ![g] = [r \in DOMAIN @ \cup rows |->
                                                IF r \in DOMAIN @ THEN @[r] ELSE Classify(r, frozen)]],
         UNCHANGED <<known, begun, fits, freeze, uses, evals, scenario>>
  PROVE  LedgerOK' /\ FreezeSound' /\ HiddenPaidOnce' /\ Grows /\ g \in DOMAIN manifest'
<1> DEFINE old == manifest[g]
           new == [r \in DOMAIN old \cup rows |-> IF r \in DOMAIN old THEN old[r] ELSE Classify(r, frozen)]
<1>1. /\ DOMAIN manifest' = DOMAIN manifest
      /\ manifest' = [x \in DOMAIN manifest' |-> manifest'[x]]
      /\ manifest'[g] = new
      /\ \A h \in DOMAIN manifest \ {g} : manifest'[h] = manifest[h]
  OBVIOUS
<1>2. DOMAIN new = DOMAIN old \cup rows /\ \A x \in DOMAIN old \cup rows :
        new[x] = IF x \in DOMAIN old THEN old[x] ELSE Classify(x, frozen)
  OBVIOUS
<1>3. Assigned(g) = DOMAIN old
  BY DEF Assigned
<1> HIDE DEF new, old
<1>4. /\ DOMAIN manifest'[g] = DOMAIN old \cup rows
      /\ \A x \in DOMAIN old : manifest'[g][x] = old[x]
      /\ \A x \in rows : manifest'[g][x] = Classify(x, frozen) /\ x \notin DOMAIN old /\ frozen = freeze[g]
  BY <1>1, <1>2, <1>3
<1>5. freeze' = freeze /\ known' = known /\ begun' = begun /\ uses' = uses /\ evals' = evals /\ scenario' = scenario
  OBVIOUS
<1>6. LedgerOK'
  BY <1>1, <1>4, <1>5 DEF CampaignInv, LedgerOK, Rows, old
<1>7. ProspectiveExactlyFuture'
  <2> SUFFICES ASSUME NEW h \in DOMAIN manifest', NEW x \in DOMAIN manifest'[h]
               PROVE  manifest'[h][x] = "prospective" <=> \E f \in freeze[h] : x > f.cutoff /\ x \notin f.before
    BY <1>5 DEF ProspectiveExactlyFuture, Assigned
  <2>1. CASE h # g \/ x \in DOMAIN old
    BY <1>1, <1>4, <2>1 DEF CampaignInv, FreezeSound, ProspectiveExactlyFuture, Assigned, old
  <2>2. CASE h = g /\ x \notin DOMAIN old
    <3>1. manifest'[g][x] = Classify(x, freeze[g])
      BY <1>4, <2>2
    <3> QED
      BY <2>2, <3>1 DEF Classify
  <2> QED
    BY <2>1, <2>2
<1>8. CutCoversSelection'
  <2> SUFFICES ASSUME NEW h \in DOMAIN manifest', NEW f \in freeze[h], NEW x \in DOMAIN manifest'[h],
                      manifest'[h][x] \in {"training", "development", "hidden"}
               PROVE  x <= f.cutoff
    BY <1>5 DEF CutCoversSelection, Assigned
  <2>1. x \in DOMAIN manifest[h] /\ manifest'[h][x] = manifest[h][x]
    BY <1>1, <1>4, ClassifyFacts DEF old
  <2> QED
    BY <1>1, <2>1 DEF CampaignInv, FreezeSound, CutCoversSelection, Assigned
<1>9. HiddenPaidOnce'
  BY <1>5 DEF CampaignInv, HiddenPaidOnce, HiddenOnce, ScoresArePaid
<1>10. Grows
  BY <1>1, <1>4, <1>5, ClassifyFacts DEF Grows, old
<1> QED
  BY <1>1, <1>6, <1>7, <1>8, <1>9, <1>10 DEF FreezeSound

LEMMA AssignKeeps ==
  ASSUME CampaignInv, NEW p \in Clients, Assign(p), UNCHANGED scenario
  PROVE  CampaignInv'
<1>0. PICK c : c = call[p]
  OBVIOUS
<1> DEFINE done == Reading(c, {}, {}, FALSE)
<1>1. c.at > 0 /\ Steps[c.op][c.at] = "assign" /\ UNCHANGED <<known, begun, fits, freeze, uses, evals, scenario>>
  BY <1>0 DEF Assign, At
<1>2. \/ /\ manifest' = manifest /\ Return(p)
      \/ /\ c.new /\ c.g \notin DOMAIN manifest
         /\ manifest' = Started(c, c.rows) /\ Continue(p, done)
      \/ /\ ~c.new /\ manifest' = manifest /\ Continue(p, done)
      \/ /\ ~c.new /\ c.rows \cap Assigned(c.g) = {}
         /\ manifest' = Extended(c, c.rows) /\ Continue(p, done)
  BY <1>0, Zenon DEF Assign, Reading
<1>3. CallOK(c) /\ InPlace(c) /\ c.g \in Campaigns /\ ReadsAgree(c)
  BY <1>0, <1>1, CallFacts
<1>4. ToAssign(c)
  BY <1>1, <1>3, StepsAsPlaces
<1>5. c.rows \subseteq Rows /\ (c.new \/ c.g \in DOMAIN manifest)
      /\ (c.frozen = freeze[c.g] \/ (c.frozen = {} /\ c.rows \subseteq Assigned(c.g)))
  BY <1>3, <1>4, Zenon DEF ReadsAgree
<1> HIDE DEF done
<1>6. CASE manifest' = manifest /\ Return(p)
  <2>1. UNCHANGED ledger
    BY <1>1, <1>6 DEF ledger
  <2> QED
    BY <1>1, <1>6, <2>1, ReturnKeeps
<1>7. ASSUME LedgerOK', FreezeSound', HiddenPaidOnce', Grows, c.g \in DOMAIN manifest', Continue(p, done)
      PROVE  CampaignInv'
  <2>1. PICK d : d = After(done)
    OBVIOUS
  <2>2. call' = [call EXCEPT ![p] = d]
    BY <1>7, <2>1, ContinueFacts
  <2>3. LedgerOK
    BY DEF CampaignInv
  <2>4. CallOK(c)'
    BY <1>3, <1>7, <2>3, CallStays
  <2>5. CallOK(d)' /\ (Paid(d) => Paid(c) /\ d.use = c.use)
    BY <1>1, <1>3, <1>4, <1>7, <2>1, <2>4, AssignAdvances DEF done
  <2>6. PaidOnce'
    BY <1>0, <1>1, <2>2, <2>5, PaidOnceKept
  <2> QED
    BY <1>7, <2>2, <2>5, <2>6, OthersStay
<1>8. CASE c.new /\ c.g \notin DOMAIN manifest /\ Continue(p, done) /\ manifest' = Started(c, c.rows)
  BY <1>1, <1>3, <1>5, <1>7, <1>8, StartKeeps
<1>9. CASE ~c.new /\ manifest' = manifest /\ Continue(p, done)
  <2>1. UNCHANGED ledger
    BY <1>1, <1>9 DEF ledger
  <2> QED
    BY <1>1, <1>5, <1>7, <1>9, <2>1, LedgerSame
<1>10. CASE ~c.new /\ c.rows \cap Assigned(c.g) = {} /\ Continue(p, done) /\ manifest' = Extended(c, c.rows)
  <2>1. manifest' = [manifest EXCEPT ![c.g] = [r \in DOMAIN @ \cup c.rows |->
                                                IF r \in DOMAIN @ THEN @[r] ELSE Classify(r, c.frozen)]]
    BY <1>10 DEF Extended
  <2>2. /\ c.g \in DOMAIN manifest /\ c.rows \subseteq Rows /\ c.rows \cap Assigned(c.g) = {}
        /\ c.frozen = freeze[c.g] \/ (c.frozen = {} /\ c.rows \subseteq Assigned(c.g))
    BY <1>5, <1>10
  <2>3. LedgerOK' /\ FreezeSound' /\ HiddenPaidOnce' /\ Grows /\ c.g \in DOMAIN manifest'
    BY <1>1, <1>3, <2>1, <2>2, AddKeeps
  <2> QED
    BY <1>7, <1>10, <2>3
<1> QED
  BY <1>2, <1>6, <1>8, <1>9, <1>10, Zenon

\* A batch that is cut short leaves a prefix of its records, and no call.
LEMMA DieInAssignKeeps ==
  ASSUME CampaignInv, NEW p \in Clients, DieInAssign(p), UNCHANGED scenario
  PROVE  CampaignInv'
<1>0. PICK c : c = call[p]
  OBVIOUS
<1>1. /\ c.at > 0 /\ Steps[c.op][c.at] = "assign" /\ UNCHANGED <<known, begun, fits, freeze, uses, evals, scenario>>
      /\ call' = [call EXCEPT ![p] = Nothing]
  BY <1>0 DEF DieInAssign, At, Return
<1>2. PICK rows \in SUBSET c.rows :
        \/ c.new /\ c.g \notin DOMAIN manifest /\ manifest' = Started(c, rows)
        \/ ~c.new /\ c.rows \cap Assigned(c.g) = {} /\ manifest' = Extended(c, rows)
  <2>1. PICK last : LET rows == {r \in c.rows : r <= last} IN
          IF c.new THEN c.g \notin DOMAIN manifest /\ manifest' = Started(c, rows)
          ELSE c.rows \cap Assigned(c.g) = {} /\ manifest' = Extended(c, rows)
    BY <1>0 DEF DieInAssign
  <2> WITNESS {r \in c.rows : r <= last} \in SUBSET c.rows
  <2> QED
    BY <2>1
<1>3. CallOK(c) /\ InPlace(c) /\ c.g \in Campaigns /\ ReadsAgree(c)
  BY <1>0, <1>1, CallFacts
<1>4. ToAssign(c)
  BY <1>1, <1>3, StepsAsPlaces
<1>5. c.rows \subseteq Rows /\ (c.new \/ c.g \in DOMAIN manifest)
      /\ (c.frozen = freeze[c.g] \/ (c.frozen = {} /\ c.rows \subseteq Assigned(c.g)))
  BY <1>3, <1>4, Zenon DEF ReadsAgree
<1>6. LedgerOK' /\ FreezeSound' /\ HiddenPaidOnce' /\ Grows
  <2>1. CASE c.new /\ c.g \notin DOMAIN manifest /\ manifest' = Started(c, rows)
    BY <1>1, <1>3, <1>5, <2>1, StartKeeps
  <2>2. CASE ~c.new /\ c.rows \cap Assigned(c.g) = {} /\ manifest' = Extended(c, rows)
    <3>1. /\ rows \subseteq Rows /\ rows \cap Assigned(c.g) = {}
          /\ c.frozen = freeze[c.g] \/ (c.frozen = {} /\ rows \subseteq Assigned(c.g))
      BY <1>5, <2>2
    <3>2. manifest' = [manifest EXCEPT ![c.g] = [r \in DOMAIN @ \cup rows |->
                                                  IF r \in DOMAIN @ THEN @[r] ELSE Classify(r, c.frozen)]]
      BY <2>2 DEF Extended
    <3>3. c.g \in DOMAIN manifest
      BY <1>5, <2>2
    <3> QED
      BY <1>1, <1>3, <3>1, <3>2, <3>3, AddKeeps
  <2> QED
    BY <1>2, <2>1, <2>2
<1>7. PaidOnce'
  BY <1>1, NothingOK, PaidOnceKept
<1> QED
  BY <1>1, <1>6, <1>7, NothingOK, OthersStay

-----------------------------------------------------------------------------
\* A step that returns, or goes on with another cut, head or rows.
LEMMA NoteKeeps ==
  ASSUME CampaignInv, UNCHANGED ledger, UNCHANGED scenario, NEW p \in Clients, NEW r,
         Whole(r), r.op = call[p].op, r.at = call[p].at, r.g = call[p].g, r.use = call[p].use,
         call[p].at > 0, r.rows \subseteq Cases,
         ToCut(r) => Covered(r.g, r.cut),
         ToHead(r) => r.cut = call[p].cut,
         ToReadRows(r) => freeze[r.g] # {} /\ (r.op = "hidden" => r.rows = Filed(r.g, "hidden")),
         ToCut(r) \/ ToHead(r) \/ ToReadRows(r), Continue(p, r)
  PROVE  CampaignInv'
<1> DEFINE c == call[p]
           d == After(r)
<1>1. /\ CallOK(c) /\ InPlace(c) /\ c.g \in Campaigns /\ CutKept(c)
      /\ (c.at > 2 => c.g \in DOMAIN manifest)
  BY CallFacts
<1>2. InPlace(r) /\ r.at > 0 /\ r.at < LengthOf(r.op)
  BY <1>1 DEF InPlace, LengthOf, ToCut, ToHead, ToReadRows, OnSplit, Operations
<1>3. /\ Whole(d) /\ InPlace(d) /\ d.at = r.at + 1
      /\ d.op = r.op /\ d.g = r.g /\ d.rows = r.rows /\ d.cut = r.cut /\ d.use = r.use
  BY <1>2, AfterRecord
<1>4. call' = [call EXCEPT ![p] = d]
  BY ContinueFacts
<1> HIDE DEF d
<1>5. ~ToAssign(d) /\ ~Paid(d) /\ d.at > 2 /\ (ToReserve(d) => ToReadRows(r))
      /\ (d.op = "freeze" => ToCut(r) \/ (ToHead(r) /\ c.op = "freeze" /\ c.at > 3))
  BY <1>2, <1>3 DEF ToAssign, Paid, ToCut, ToHead, ToReadRows, ToReserve, OnSplit, InPlace
<1>6. c.g \in DOMAIN manifest /\ c.g \in Campaigns
  BY <1>1 DEF ToCut, ToHead, ToReadRows
<1>7. CutKept(d)
  BY <1>1, <1>3, <1>5 DEF CutKept
<1>8. RowsRead(d)
  BY <1>3, <1>5 DEF RowsRead
<1>9. CallOK(d)
  BY <1>3, <1>5, <1>6, <1>7, <1>8 DEF CallOK, ReadsAgree, Reserved
<1> QED
  BY <1>4, <1>5, <1>9, ReadingKeeps

LEMMA RowsAreCases == CampaignInv => Rows \subseteq Cases /\ \A g \in DOMAIN manifest : DOMAIN manifest[g] \subseteq Rows
BY DEF CampaignInv, LedgerOK, Rows

LEMMA SplitIsFiled ==
  ASSUME CampaignInv, NEW g, NEW s
  PROVE  InSplit(g, s) = Filed(g, s) /\ InSplit(g, s) \subseteq Cases
<1>1. Assigned(g) \subseteq Rows
  BY RowsAreCases DEF Assigned
<1> QED
  BY <1>1, RowsAreCases DEF InSplit, Filed

LEMMA CutOffKeeps ==
  ASSUME CampaignInv, NEW p \in Clients, CutOff(p), UNCHANGED scenario
  PROVE  CampaignInv'
<1>0. PICK c : c = call[p]
  OBVIOUS
<1>1. PICK r : r = [c EXCEPT !.cut = Max(Rows)]
  OBVIOUS
<1>2. /\ c.at > 0 /\ Steps[c.op][c.at] = "cut" /\ UNCHANGED ledger
      /\ (Return(p) \/ (Rows # {} /\ Continue(p, r)))
  BY <1>0, <1>1, Zenon DEF CutOff, At
<1>3. CallOK(c) /\ InPlace(c) /\ c.rows \subseteq Cases /\ Whole(c)
  BY <1>0, <1>2, CallFacts
<1>4. ToCut(c)
  BY <1>2, <1>3, StepsAsPlaces
<1>5. /\ Whole(r) /\ r.rows = c.rows /\ r.cut = Max(Rows) /\ r.op = c.op /\ r.at = c.at /\ r.g = c.g /\ r.use = c.use
  BY <1>1, <1>3 DEF Whole
<1>6. ASSUME Rows # {} PROVE Covered(c.g, Max(Rows))
  <2>1. PICK n \in Nat : Cases = 1..n
    BY CampaignAssumption, FS_CardinalityType DEF CampaignAssumption
  <2>2. Rows \subseteq 1..n
    BY <2>1, RowsAreCases
  <2>3. Max(Rows) \in Rows /\ \A y \in Rows : Max(Rows) >= y
    BY <1>6, <2>2, MaxFacts
  <2>4. \A x \in Assigned(c.g) : x \in Rows
    BY RowsAreCases DEF Assigned
  <2> QED
    BY <2>2, <2>3, <2>4 DEF Covered
<1>7. CASE Return(p)
  BY <1>2, <1>7, ReturnKeeps
<1>8. CASE Rows # {} /\ Continue(p, r)
  <2>1. ToCut(r) /\ ~ToHead(r) /\ ~ToReadRows(r)
    BY <1>4, <1>5 DEF ToCut, ToHead, ToReadRows, OnSplit
  <2> QED
    BY <1>0, <1>2, <1>3, <1>5, <1>6, <1>8, <2>1, NoteKeeps
<1> QED
  BY <1>2, <1>7, <1>8

LEMMA ReadHeadKeeps ==
  ASSUME CampaignInv, NEW p \in Clients, ReadHead(p), UNCHANGED scenario
  PROVE  CampaignInv'
<1>0. PICK c : c = call[p]
  OBVIOUS
<1>1. PICK r : r = [c EXCEPT !.head = LedgerHead]
  OBVIOUS
<1>2. /\ c.at > 0 /\ Steps[c.op][c.at] = "head" /\ UNCHANGED ledger /\ (Return(p) \/ Continue(p, r))
  BY <1>0, <1>1, Zenon DEF ReadHead, At
<1>3. CallOK(c) /\ InPlace(c) /\ c.rows \subseteq Cases /\ Whole(c)
  BY <1>0, <1>2, CallFacts
<1>4. ToHead(c)
  BY <1>2, <1>3, StepsAsPlaces
<1>5. /\ Whole(r) /\ r.rows = c.rows /\ r.cut = c.cut /\ r.op = c.op /\ r.at = c.at /\ r.g = c.g /\ r.use = c.use
  BY <1>1, <1>3 DEF Whole
<1>6. ToHead(r) /\ ~ToCut(r) /\ ~ToReadRows(r)
  BY <1>4, <1>5 DEF ToCut, ToHead, ToReadRows, OnSplit
<1> QED
  BY <1>0, <1>2, <1>3, <1>5, <1>6, NoteKeeps, ReturnKeeps

LEMMA ReadRowsKeeps ==
  ASSUME CampaignInv, NEW p \in Clients, ReadRows(p), UNCHANGED scenario
  PROVE  CampaignInv'
<1>0. PICK c : c = call[p]
  OBVIOUS
<1> DEFINE rows == InSplit(c.g, IF c.op = "hidden" THEN "hidden" ELSE "prospective")
<1>1. PICK r : r = [c EXCEPT !.rows = rows]
  OBVIOUS
<1>2. /\ c.at > 0 /\ Steps[c.op][c.at] = "rows" /\ UNCHANGED ledger
      /\ (Return(p) \/ (freeze[c.g] # {} /\ Continue(p, r)))
  <2>1. \/ Return(p)
        \/ ~(\A f \in freeze[c.g] : f.model # c.m) /\ Continue(p, r)
    BY <1>0, <1>1, Zenon DEF ReadRows
  <2>2. c.at > 0 /\ Steps[c.op][c.at] = "rows" /\ UNCHANGED ledger
    BY <1>0, Zenon DEF ReadRows, At
  <2> QED
    BY <2>1, <2>2, Zenon
<1>3. CallOK(c) /\ InPlace(c) /\ Whole(c)
  BY <1>0, <1>2, CallFacts
<1>4. ToReadRows(c)
  BY <1>2, <1>3, StepsAsPlaces
<1>5. /\ Whole(r) /\ r.rows = rows /\ r.cut = c.cut /\ r.op = c.op /\ r.at = c.at /\ r.g = c.g /\ r.use = c.use
  BY <1>1, <1>3 DEF Whole
<1>6. rows \subseteq Cases /\ (c.op = "hidden" => rows = Filed(c.g, "hidden"))
  BY SplitIsFiled
<1> HIDE DEF rows
<1>7. ~ToHead(r) /\ ~ToCut(r) /\ ToReadRows(r)
  BY <1>4, <1>5 DEF ToCut, ToHead, ToReadRows, OnSplit
<1>8. CASE Return(p)
  BY <1>2, <1>8, ReturnKeeps
<1>9. CASE freeze[c.g] # {} /\ Continue(p, r)
  BY <1>0, <1>2, <1>5, <1>6, <1>7, <1>9, NoteKeeps
<1> QED
  BY <1>2, <1>8, <1>9

-----------------------------------------------------------------------------
\* A freeze: everything known is assigned, and everything known was eligible before it; the
\* selection is covered by the cut that the call has kept.
LEMMA FreezeMakes ==
  ASSUME CampaignInv, NEW c, CallOK(c), ToFreeze(c), freeze[c.g] = {}, Unassigned(c.g) = {}, c.at > 0,
         freeze' = [freeze EXCEPT ![c.g] = @ \cup {FrozenRecord(c)}],
         UNCHANGED <<known, begun, manifest, fits, uses, evals, scenario>>
  PROVE  LedgerOK' /\ FreezeSound' /\ HiddenPaidOnce' /\ Grows
<1>1. c.g \in Campaigns /\ c.g \in DOMAIN manifest /\ Covered(c.g, c.cut)
  BY DEF CallOK, ToFreeze, CutKept
<1>2. /\ DOMAIN freeze' = Campaigns /\ freeze'[c.g] = {FrozenRecord(c)}
      /\ \A h \in Campaigns \ {c.g} : freeze'[h] = freeze[h]
  BY <1>1 DEF CampaignInv, LedgerOK
<1>3. manifest' = manifest /\ known' = known /\ begun' = begun /\ uses' = uses /\ evals' = evals /\ scenario' = scenario
  OBVIOUS
<1>4. known \subseteq Assigned(c.g)
  BY DEF Unassigned
<1>5. FrozenRecord(c).cutoff = c.cut /\ FrozenRecord(c).before = Eligible
  BY DEF FrozenRecord
<1>6. LedgerOK'
  <2>0. uses \in Seq(UseRecords)
    BY DEF CampaignInv, LedgerOK
  <2>1. \A i \in DOMAIN uses : uses[i].g \in Campaigns
    <3>1. \A i \in DOMAIN uses : uses[i] \in UseRecords
      BY <2>0
    <3> QED
      BY <3>1 DEF UseRecords
  <2>2. \A i \in DOMAIN uses : freeze'[uses[i].g] # {}
    BY <1>2, <2>1 DEF CampaignInv, LedgerOK
  <2> QED
    BY <1>1, <1>2, <1>3, <2>2 DEF CampaignInv, LedgerOK, Rows
<1>7. \A h \in DOMAIN manifest : h # c.g => freeze'[h] = freeze[h]
  <2>1. ASSUME NEW h \in DOMAIN manifest, h # c.g PROVE freeze'[h] = freeze[h]
    <3>1. h \in Campaigns
      BY DEF CampaignInv, LedgerOK
    <3> QED
      BY <1>2, <2>1, <3>1
  <2> QED
    BY <2>1
<1>8. ProspectiveExactlyFuture'
  <2> SUFFICES ASSUME NEW h \in DOMAIN manifest, NEW x \in DOMAIN manifest[h]
               PROVE  manifest[h][x] = "prospective" <=> \E f \in freeze'[h] : x > f.cutoff /\ x \notin f.before
    BY <1>3 DEF ProspectiveExactlyFuture, Assigned
  <2>1. manifest[h][x] = "prospective" <=> \E f \in freeze[h] : x > f.cutoff /\ x \notin f.before
    BY DEF CampaignInv, FreezeSound, ProspectiveExactlyFuture, Assigned
  <2>2. CASE h # c.g
    BY <1>7, <2>1, <2>2
  <2>3. CASE h = c.g
    <3>1. x \in known
      BY RowsAreCases DEF Rows
    <3>2. x \in Eligible
      BY <3>1 DEF Eligible, CampaignInv, LedgerOK
    <3> QED
      BY <1>2, <1>5, <2>1, <2>3, <3>2
  <2> QED
    BY <2>2, <2>3
<1>9. CutCoversSelection'
  <2> SUFFICES ASSUME NEW h \in DOMAIN manifest, NEW f \in freeze'[h], NEW x \in DOMAIN manifest[h],
                      manifest[h][x] \in {"training", "development", "hidden"}
               PROVE  x <= f.cutoff
    BY <1>3 DEF CutCoversSelection, Assigned
  <2>1. CASE h # c.g
    BY <1>7, <2>1 DEF CampaignInv, FreezeSound, CutCoversSelection, Assigned
  <2>2. CASE h = c.g
    BY <1>1, <1>2, <1>5, <2>2 DEF Covered, Assigned
  <2> QED
    BY <2>1, <2>2
<1>10. HiddenPaidOnce'
  <2>1. HiddenOnce'
    BY <1>3 DEF CampaignInv, HiddenPaidOnce, HiddenOnce
  <2>2. \A i \in DOMAIN uses : freeze'[uses[i].g] # {}
    BY <1>3, <1>6 DEF LedgerOK
  <2>3. \A e \in evals : e.use \in DOMAIN uses
    BY DEF CampaignInv, LedgerOK
  <2>4. ScoresArePaid'
    BY <1>3, <2>2, <2>3 DEF CampaignInv, HiddenPaidOnce, ScoresArePaid
  <2> QED
    BY <2>1, <2>4 DEF HiddenPaidOnce
<1>11. Grows
  BY <1>1, <1>2, <1>3, <1>4 DEF Grows
<1> QED
  BY <1>6, <1>8, <1>9, <1>10, <1>11 DEF FreezeSound

\* Going back in a freeze: to the ledger head, or to the split manifest.
LEMMA JumpKeeps ==
  ASSUME CampaignInv, UNCHANGED ledger, UNCHANGED scenario, NEW p \in Clients, NEW d,
         call[p].at > 0, ToFreeze(call[p]), call' = [call EXCEPT ![p] = d],
         Whole(d), d.op = "freeze", d.at \in {1, 6}, d.g = call[p].g, d.cut = call[p].cut, d.rows = call[p].rows
  PROVE  CampaignInv'
<1>1. /\ call[p].g \in Campaigns /\ CutKept(call[p]) /\ call[p].g \in DOMAIN manifest
      /\ call[p].rows \subseteq Cases
  BY CallFacts DEF ToFreeze
<1>2. InPlace(d) /\ ~ToAssign(d) /\ ~ToReserve(d) /\ ~Paid(d)
  BY DEF InPlace, LengthOf, Operations, ToAssign, ToReserve, Paid, OnSplit
<1>3. CutKept(d)
  BY <1>1 DEF CutKept, ToFreeze
<1>4. CallOK(d)
  BY <1>1, <1>2, <1>3 DEF CallOK, ReadsAgree, RowsRead, Reserved
<1> QED
  BY <1>2, <1>4, ReadingKeeps

LEMMA FreezeKeeps ==
  ASSUME CampaignInv, NEW p \in Clients, Freeze(p), UNCHANGED scenario
  PROVE  CampaignInv'
<1>0. PICK c : c = call[p]
  OBVIOUS
<1>a. PICK d1 : d1 = [[c EXCEPT !.tries = @ + 1] EXCEPT !.at = 6]
  OBVIOUS
<1>b. PICK d2 : d2 = [[c EXCEPT !.outer = @ + 1, !.tries = 1] EXCEPT !.at = 1]
  OBVIOUS
<1>1. c.at > 0 /\ Steps[c.op][c.at] = "freeze" /\ UNCHANGED <<known, begun, manifest, fits, uses, evals, scenario>>
  BY <1>0 DEF Freeze, At
<1>2. \/ UNCHANGED freeze /\ Return(p)
      \/ UNCHANGED freeze /\ call' = [call EXCEPT ![p] = d1]
      \/ UNCHANGED freeze /\ call' = [call EXCEPT ![p] = d2]
      \/ /\ freeze[c.g] = {} /\ Unassigned(c.g) = {} /\ Return(p)
         /\ freeze' = [freeze EXCEPT ![c.g] = @ \cup {FrozenRecord(c)}]
  <2>1. CASE LedgerHead # c.head
    BY <1>0, <1>a, <2>1, Zenon DEF Freeze, Jump
  <2>2. CASE LedgerHead = c.head /\ freeze[c.g] # {}
    BY <1>0, <2>2, Zenon DEF Freeze
  <2>3. CASE LedgerHead = c.head /\ freeze[c.g] = {} /\ Unassigned(c.g) # {}
    BY <1>0, <1>b, <2>3, Zenon DEF Freeze, Jump
  <2>4. CASE LedgerHead = c.head /\ freeze[c.g] = {} /\ Unassigned(c.g) = {}
    BY <1>0, <2>4, Zenon DEF Freeze
  <2> QED
    BY <2>1, <2>2, <2>3, <2>4
<1>3. CallOK(c) /\ InPlace(c) /\ Whole(c)
  BY <1>0, <1>1, CallFacts
<1>4. ToFreeze(c)
  BY <1>1, <1>3, StepsAsPlaces
<1>5. UNCHANGED freeze => UNCHANGED ledger
  BY <1>1 DEF ledger
<1>6. Whole(d1) /\ d1.op = "freeze" /\ d1.at \in {1, 6} /\ d1.g = c.g /\ d1.cut = c.cut /\ d1.rows = c.rows
  BY <1>a, <1>3, <1>4 DEF Whole, ToFreeze
<1>7. Whole(d2) /\ d2.op = "freeze" /\ d2.at \in {1, 6} /\ d2.g = c.g /\ d2.cut = c.cut /\ d2.rows = c.rows
  <2>1. PICK e : e = [c EXCEPT !.outer = c.outer + 1, !.tries = 1]
    OBVIOUS
  <2>2. Whole(e) /\ e.op = c.op /\ e.g = c.g /\ e.cut = c.cut /\ e.rows = c.rows
    BY <2>1, <1>3 DEF Whole
  <2>3. d2 = [e EXCEPT !.at = 1]
    BY <1>b, <2>1, Zenon
  <2> QED
    BY <1>4, <2>2, <2>3 DEF Whole, ToFreeze
<1>8. CASE UNCHANGED freeze /\ Return(p)
  BY <1>1, <1>5, <1>8, ReturnKeeps
<1>9. CASE UNCHANGED freeze /\ call' = [call EXCEPT ![p] = d1]
  BY <1>0, <1>1, <1>4, <1>5, <1>6, <1>9, JumpKeeps
<1>10. CASE UNCHANGED freeze /\ call' = [call EXCEPT ![p] = d2]
  BY <1>0, <1>1, <1>4, <1>5, <1>7, <1>10, JumpKeeps
<1>11. CASE /\ freeze[c.g] = {} /\ Unassigned(c.g) = {} /\ Return(p)
            /\ freeze' = [freeze EXCEPT ![c.g] = @ \cup {FrozenRecord(c)}]
  <2>1. LedgerOK' /\ FreezeSound' /\ HiddenPaidOnce' /\ Grows
    BY <1>1, <1>3, <1>4, <1>11, FreezeMakes
  <2>2. call' = [call EXCEPT ![p] = Nothing]
    BY <1>11 DEF Return
  <2>3. PaidOnce'
    BY <1>1, <2>2, NothingOK, PaidOnceKept
  <2> QED
    BY <2>1, <2>2, <2>3, NothingOK, OthersStay
<1> QED
  BY <1>2, <1>8, <1>9, <1>10, <1>11

LEMMA FitKeeps ==
  ASSUME CampaignInv, NEW p \in Clients, Fit(p), UNCHANGED scenario
  PROVE  CampaignInv'
<1>1. /\ known' = known /\ begun' = begun /\ manifest' = manifest /\ freeze' = freeze /\ uses' = uses
      /\ evals' = evals /\ scenario' = scenario /\ call' = [call EXCEPT ![p] = Nothing]
  BY DEF Fit, Return
<1>2. LedgerOK'
  BY <1>1 DEF CampaignInv, LedgerOK, Rows
<1>3. FreezeSound'
  BY <1>1 DEF CampaignInv, FreezeSound, ProspectiveExactlyFuture, CutCoversSelection, Assigned
<1>4. HiddenPaidOnce'
  BY <1>1 DEF CampaignInv, HiddenPaidOnce, HiddenOnce, ScoresArePaid
<1>5. Grows
  BY <1>1 DEF Grows
<1>6. PaidOnce'
  BY <1>1, NothingOK, PaidOnceKept
<1> QED
  BY <1>1, <1>2, <1>3, <1>4, <1>5, <1>6, NothingOK, OthersStay

-----------------------------------------------------------------------------
\* A reservation: of cases no hidden query has seen before.
LEMMA UseFacts ==
  ASSUME NEW c, c.g \in Campaigns, c.op \in {"hidden", "submit"}, c.rows \subseteq Cases
  PROVE  /\ Use(c) \in UseRecords /\ Use(c).g = c.g /\ Use(c).op = c.op /\ Use(c).cases = c.rows
<1>1. Scope(c) \in {"hidden", "prospective"} \X ((SUBSET Cases) \cup (SUBSET Campaigns))
  <2>0. c.rows \in SUBSET Cases /\ {c.g} \in SUBSET Campaigns
    OBVIOUS
  <2>1. c.rows \in (SUBSET Cases) \cup (SUBSET Campaigns) /\ {c.g} \in (SUBSET Cases) \cup (SUBSET Campaigns)
    BY <2>0, Zenon
  <2>2. Scope(c) = <<"hidden", c.rows>> \/ Scope(c) = <<"prospective", {c.g}>>
    BY DEF Scope
  <2> QED
    BY <2>1, <2>2
<1> QED
  BY <1>1 DEF Use, UseRecords

LEMMA ReserveMakes ==
  ASSUME CampaignInv, NEW u \in UseRecords, freeze[u.g] # {},
         u.op = "hidden" => \A i \in DOMAIN uses : uses[i].op = "hidden" => uses[i].cases \cap u.cases = {},
         uses' = Append(uses, u),
         UNCHANGED <<known, begun, manifest, fits, freeze, evals, scenario>>
  PROVE  /\ LedgerOK' /\ FreezeSound' /\ HiddenPaidOnce' /\ Grows
         /\ Len(uses) + 1 \in DOMAIN uses' /\ uses'[Len(uses) + 1] = u /\ Len(uses) + 1 \notin DOMAIN uses
<1>1. uses \in Seq(UseRecords)
  BY DEF CampaignInv, LedgerOK
<1> DEFINE n == Len(uses)
<1>2. /\ n \in Nat /\ DOMAIN uses = 1..n
      /\ uses' \in Seq(UseRecords) /\ DOMAIN uses' = 1..(n + 1) /\ uses'[n + 1] = u
      /\ \A i \in 1..n : uses'[i] = uses[i]
  BY <1>1
<1>3. /\ known' = known /\ begun' = begun /\ manifest' = manifest /\ freeze' = freeze
      /\ evals' = evals /\ scenario' = scenario
  OBVIOUS
<1> HIDE DEF n
<1>4. \A i \in DOMAIN uses' : i \in DOMAIN uses \/ (i = n + 1 /\ i \notin DOMAIN uses)
  BY <1>2
<1>5. LedgerOK'
  <2>1. \A i \in DOMAIN uses' : freeze[uses'[i].g] # {}
    <3>1. \A i \in DOMAIN uses : freeze[uses[i].g] # {} /\ uses'[i] = uses[i]
      BY <1>2 DEF CampaignInv, LedgerOK
    <3> QED
      BY <1>2, <1>4, <3>1
  <2>2. \A e \in evals : e.use \in DOMAIN uses'
    BY <1>2 DEF CampaignInv, LedgerOK
  <2> QED
    BY <1>2, <1>3, <2>1, <2>2 DEF CampaignInv, LedgerOK, Rows
<1>6. FreezeSound'
  BY <1>3 DEF CampaignInv, FreezeSound, ProspectiveExactlyFuture, CutCoversSelection, Assigned
<1>7. HiddenOnce'
  <2> SUFFICES ASSUME NEW i \in DOMAIN uses', NEW j \in DOMAIN uses', uses'[i].op = "hidden",
                      uses'[j].op = "hidden", i # j
               PROVE  uses'[i].cases \cap uses'[j].cases = {}
    BY DEF HiddenOnce
  <2>1. CASE i \in DOMAIN uses /\ j \in DOMAIN uses
    BY <1>2, <2>1 DEF CampaignInv, HiddenPaidOnce, HiddenOnce
  <2>2. CASE i \in DOMAIN uses /\ j = n + 1
    BY <1>2, <2>2
  <2>3. CASE i = n + 1 /\ j \in DOMAIN uses
    BY <1>2, <2>3
  <2> QED
    BY <1>4, <2>1, <2>2, <2>3
<1>8. ScoresArePaid'
  <2>1. \A e \in evals : e.use \in DOMAIN uses /\ uses'[e.use] = uses[e.use]
    BY <1>2 DEF CampaignInv, LedgerOK
  <2> QED
    BY <1>3, <2>1 DEF CampaignInv, HiddenPaidOnce, ScoresArePaid
<1>9. Grows
  BY <1>2, <1>3 DEF Grows
<1> QED
  BY <1>2, <1>4, <1>5, <1>6, <1>7, <1>8, <1>9 DEF HiddenPaidOnce, n

LEMMA ReserveKeeps ==
  ASSUME CampaignInv, NEW p \in Clients, Reserve(p), UNCHANGED scenario
  PROVE  CampaignInv'
<1>0. PICK c : c = call[p]
  OBVIOUS
<1>a. PICK n : n = Len(uses) + 1
  OBVIOUS
<1>b. PICK r : r = [c EXCEPT !.use = n]
  OBVIOUS
<1>c. PICK d : d = After(r)
  OBVIOUS
<1>1. c.at > 0 /\ Steps[c.op][c.at] = "reserve" /\ UNCHANGED <<known, begun, manifest, fits, freeze, evals, scenario>>
  BY <1>0 DEF Reserve, At
<1>2. \/ uses' = uses /\ Return(p)
      \/ ~Exposed(c) /\ uses' = Append(uses, Use(c)) /\ call' = [call EXCEPT ![p] = d]
  <2>1. Continue(p, r) <=> call' = [call EXCEPT ![p] = d]
    BY <1>c, ContinueFacts
  <2> QED
    BY <1>0, <1>a, <1>b, <2>1, Zenon DEF Reserve
<1>3. /\ CallOK(c) /\ InPlace(c) /\ Whole(c) /\ c.g \in Campaigns /\ RowsRead(c) /\ c.rows \subseteq Cases
      /\ (c.at > 2 => c.g \in DOMAIN manifest)
  BY <1>0, <1>1, CallFacts
<1>4. ToReserve(c)
  BY <1>1, <1>3, StepsAsPlaces
<1>5. CASE uses' = uses /\ Return(p)
  BY <1>1, <1>5, ReturnKeeps DEF ledger
<1>6. CASE ~Exposed(c) /\ uses' = Append(uses, Use(c)) /\ call' = [call EXCEPT ![p] = d]
  <2>1. PICK u : u = Use(c)
    OBVIOUS
  <2>2. u \in UseRecords /\ u.g = c.g /\ u.op = c.op /\ u.cases = c.rows
    BY <1>3, <1>4, <2>1, UseFacts DEF ToReserve, OnSplit
  <2>3. freeze[u.g] # {} /\ (c.op = "hidden" => c.rows = Filed(c.g, "hidden"))
    BY <1>3, <1>4, <2>2 DEF RowsRead
  <2>4. u.op = "hidden" => \A i \in DOMAIN uses : uses[i].op = "hidden" => uses[i].cases \cap u.cases = {}
    BY <1>6, <2>2 DEF Exposed
  <2>5. /\ LedgerOK' /\ FreezeSound' /\ HiddenPaidOnce' /\ Grows
        /\ n \in DOMAIN uses' /\ uses'[n] = u /\ n \notin DOMAIN uses
    BY <1>1, <1>6, <1>a, <2>1, <2>2, <2>3, <2>4, ReserveMakes
  <2>6. /\ Whole(r) /\ r.rows = c.rows /\ r.op = c.op /\ r.at = c.at /\ r.g = c.g /\ r.use = n
    BY <1>b, <1>3 DEF Whole
  <2>7. InPlace(r) /\ r.at > 0 /\ r.at < LengthOf(r.op)
    BY <1>3, <1>4, <2>6 DEF InPlace, LengthOf, ToReserve, OnSplit, Operations
  <2>8. /\ Whole(d) /\ InPlace(d) /\ d.at = c.at + 1
        /\ d.op = c.op /\ d.g = c.g /\ d.rows = c.rows /\ d.use = n
    BY <1>c, <2>6, <2>7, AfterRecord
  <2>9. Paid(d) /\ ~ToAssign(d) /\ ~ToReserve(d) /\ d.op # "freeze"
    BY <1>4, <2>8 DEF Paid, ToAssign, ToReserve, OnSplit
  <2>10. manifest' = manifest /\ evals' = evals
    BY <1>1
  <2>11. Reserved(d)'
    BY <2>2, <2>3, <2>5, <2>8, <2>10 DEF Reserved, Filed, Assigned
  <2>12. CallOK(d)'
    BY <1>3, <1>4, <2>8, <2>9, <2>10, <2>11 DEF CallOK, ReadsAgree, CutKept, RowsRead, ToReserve
  <2>13. PaidOnce'
    BY <1>6, <2>5, <2>8, <2>9, <2>10, PaidOnceKept
  <2> QED
    BY <1>6, <2>5, <2>12, <2>13, OthersStay
<1> QED
  BY <1>2, <1>5, <1>6

\* A score: of the cases its reservation paid for.
LEMMA ScoreKeeps ==
  ASSUME CampaignInv, NEW p \in Clients, Score(p), UNCHANGED scenario
  PROVE  CampaignInv'
<1>0. PICK c : c = call[p]
  OBVIOUS
<1>a. PICK e : e = [use |-> c.use, cases |-> IF c.op = "hidden" THEN InSplit(c.g, "hidden") ELSE c.rows]
  OBVIOUS
<1>1. /\ c.at > 0 /\ Steps[c.op][c.at] = "score" /\ evals' = evals \cup {e} /\ call' = [call EXCEPT ![p] = Nothing]
      /\ known' = known /\ begun' = begun /\ manifest' = manifest /\ freeze' = freeze /\ uses' = uses
      /\ scenario' = scenario
  BY <1>0, <1>a DEF Score, At, Return
<1>2. CallOK(c) /\ InPlace(c) /\ Reserved(c)
  BY <1>0, <1>1, CallFacts
<1>3. Paid(c)
  <2>1. ToScore(c)
    BY <1>1, <1>2, StepsAsPlaces
  <2> QED
    BY <2>1 DEF ToScore, Paid, OnSplit
<1>4. e.use = c.use /\ e.use \in DOMAIN uses /\ e.cases = uses[e.use].cases
  BY <1>2, <1>3, <1>a, SplitIsFiled DEF Reserved
<1>5. \A d \in evals : d.use # e.use
  BY <1>0, <1>3, <1>4 DEF CampaignInv, PaidOnce
<1>6. LedgerOK'
  BY <1>1, <1>4 DEF CampaignInv, LedgerOK, Rows
<1>7. FreezeSound'
  BY <1>1 DEF CampaignInv, FreezeSound, ProspectiveExactlyFuture, CutCoversSelection, Assigned
<1>8. HiddenPaidOnce'
  <2>1. HiddenOnce'
    BY <1>1 DEF CampaignInv, HiddenPaidOnce, HiddenOnce
  <2>2. freeze[uses[e.use].g] # {}
    BY <1>4 DEF CampaignInv, LedgerOK
  <2>3. ScoresArePaid
    BY DEF CampaignInv, HiddenPaidOnce
  <2>4. ScoresArePaid'
    BY <1>1, <1>4, <1>5, <2>2, <2>3 DEF ScoresArePaid
  <2> QED
    BY <2>1, <2>4 DEF HiddenPaidOnce
<1>9. Grows
  BY <1>1 DEF Grows
<1>10. PaidOnce'
  BY <1>0, <1>1, <1>3, <1>4, NothingOK, PaidOnceKept
<1> QED
  BY <1>1, <1>6, <1>7, <1>8, <1>9, <1>10, NothingOK, OthersStay

-----------------------------------------------------------------------------
\* A step that no call takes part in.
LEMMA CallsStay ==
  ASSUME CampaignInv, LedgerOK', Grows, call' = call, evals' = evals
  PROVE  CallsOK' /\ PaidOnce'
<1>1. ASSUME NEW q \in Clients PROVE (CallOK(call[q]))'
  <2>1. PICK c : c = call[q]
    OBVIOUS
  <2>2. CallOK(c) /\ LedgerOK
    BY <2>1 DEF CampaignInv, CallsOK
  <2>3. CallOK(c)'
    BY <2>2, CallStays
  <2> QED
    BY <2>1, <2>3
<1>2. CallsOK'
  BY <1>1 DEF CampaignInv, CallsOK
<1>3. PaidOnce'
  BY DEF CampaignInv, PaidOnce
<1> QED
  BY <1>2, <1>3

\* Recorders: a trial begins, its outcome or an episode becomes known.
LEMMA RecordKeeps ==
  ASSUME CampaignInv, RecordEpisode \/ BeginTrial \/ TrialOutcome
  PROVE  CampaignInv'
<1>1. /\ manifest' = manifest /\ freeze' = freeze /\ uses' = uses /\ evals' = evals /\ call' = call
      /\ scenario' = scenario /\ known \subseteq known' /\ begun \subseteq begun'
  BY DEF RecordEpisode, BeginTrial, TrialOutcome
<1>2. scenario \in Scenarios
  BY DEF CampaignInv, LedgerOK
<1>3. scenario.future \subseteq Cases /\ Trials \subseteq Cases
  BY <1>2, CampaignAssumption DEF CampaignAssumption
<1>4. known' \subseteq Cases /\ begun' \subseteq Trials /\ known' \cap Trials \subseteq begun'
  <2>1. known \subseteq Cases /\ begun \subseteq Trials /\ known \cap Trials \subseteq begun
    BY DEF CampaignInv, LedgerOK
  <2>2. CASE RecordEpisode
    BY <1>3, <2>1, <2>2 DEF RecordEpisode
  <2>3. CASE BeginTrial
    BY <1>3, <2>1, <2>3 DEF BeginTrial
  <2>4. CASE TrialOutcome
    BY <1>3, <2>1, <2>4 DEF TrialOutcome
  <2> QED
    BY <2>2, <2>3, <2>4
<1>5. LedgerOK'
  BY <1>1, <1>4 DEF CampaignInv, LedgerOK, Rows
<1>6. FreezeSound'
  BY <1>1 DEF CampaignInv, FreezeSound, ProspectiveExactlyFuture, CutCoversSelection, Assigned
<1>7. HiddenPaidOnce'
  BY <1>1 DEF CampaignInv, HiddenPaidOnce, HiddenOnce, ScoresArePaid
<1>8. Grows
  BY <1>1 DEF Grows
<1>9. CallsOK' /\ PaidOnce'
  BY <1>1, <1>5, <1>8, CallsStay
<1> QED
  BY <1>5, <1>6, <1>7, <1>9 DEF CampaignInv

LEMMA InitCampaign == CampaignInit => CampaignInv
<1> SUFFICES ASSUME CampaignInit PROVE CampaignInv
  OBVIOUS
<1>1. /\ scenario \in Scenarios /\ known = scenario.seeded /\ begun = {} /\ manifest = <<>>
      /\ freeze = [g \in Campaigns |-> {}] /\ uses = <<>> /\ evals = {} /\ call = [p \in Clients |-> Nothing]
  BY DEF CampaignInit
<1>2. known \subseteq Cases /\ known \cap Trials = {}
  BY <1>1, CampaignAssumption DEF CampaignAssumption
<1>3. DOMAIN manifest = {} /\ manifest = [g \in DOMAIN manifest |-> manifest[g]]
  BY <1>1
<1>4. LedgerOK
  BY <1>1, <1>2, <1>3 DEF LedgerOK
<1>5. FreezeSound
  BY <1>3 DEF FreezeSound, ProspectiveExactlyFuture, CutCoversSelection
<1>6. HiddenPaidOnce
  BY <1>1 DEF HiddenPaidOnce, HiddenOnce, ScoresArePaid
<1>7. CallsOK /\ PaidOnce
  BY <1>1, NothingOK DEF CallsOK, PaidOnce
<1> QED
  BY <1>4, <1>5, <1>6, <1>7 DEF CampaignInv

\* The records of a campaign and the calls under way agree, whoever calls, records or dies, for
\* any cases, campaigns, clients and budgets.
THEOREM CampaignInvariant == CampaignSpec => []CampaignInv
<1>1. ASSUME CampaignInv, [CampaignNext]_campaignVars PROVE CampaignInv'
  <2>1. CASE UNCHANGED campaignVars
    <3>1. UNCHANGED ledger /\ UNCHANGED scenario /\ call' = call /\ evals' = evals
      BY <2>1 DEF campaignVars, ledger
    <3>2. LedgerOK' /\ FreezeSound' /\ HiddenPaidOnce' /\ Grows
      BY <1>1, <3>1, LedgerSame
    <3>3. CallsOK' /\ PaidOnce'
      BY <1>1, <3>1, <3>2, CallsStay
    <3> QED
      BY <3>2, <3>3 DEF CampaignInv
  <2>2. CASE RecordEpisode \/ BeginTrial \/ TrialOutcome
    BY <1>1, <2>2, RecordKeeps
  <2>4. ASSUME NEW p \in Clients, DieInAssign(p), UNCHANGED scenario PROVE CampaignInv'
    BY <1>1, <2>4, DieInAssignKeeps
  <2>3. ASSUME NEW p \in Clients, Client(p), UNCHANGED scenario PROVE CampaignInv'
    <3>1. CASE Crash(p)
      BY <1>1, <2>3, <3>1, ReturnKeeps DEF Crash
    <3> QED
      BY <1>1, <2>3, <3>1, BeginKeeps, ReadManifestKeeps, AssignKeeps, FitKeeps, CutOffKeeps, ReadHeadKeeps,
         FreezeKeeps, ReadRowsKeeps, ReserveKeeps, ScoreKeeps, Zenon DEF Client
  <2> QED
    BY <1>1, <2>1, <2>2, <2>3, <2>4 DEF CampaignNext
<1> QED
  BY InitCampaign, <1>1, PTL DEF CampaignSpec

\* freeze_candidate and ensure_split_manifest: a case is prospective for a frozen campaign exactly when
\* it was not on record at the freeze and is later than its cut, and the cut covers every case the
\* candidate was selected on.
THEOREM CampaignFreezeSound == CampaignSpec => []FreezeSound
BY CampaignInvariant, PTL DEF CampaignInv

\* evaluate_hidden and submit: no hidden case is paid for twice, and every score is the only one of a
\* reservation made on a frozen campaign, on its cases, although callers die between the two.
THEOREM CampaignHiddenPaidOnce == CampaignSpec => []HiddenPaidOnce
BY CampaignInvariant, PTL DEF CampaignInv

-----------------------------------------------------------------------------
(* The pilot of Counterpilot.                                              *)

\* What a record to be appended keeps, as long as nothing else is appended too.
ClashesOnlyLater(r) == \A i \in DOMAIN records : Clash(records[i], r) => r.seen < i
OfAPlan(r) == r.kind = "assignment" => r.body \in DOMAIN plan
FileHas(f, k) == \E i \in DOMAIN records : Id(records[i]) = <<f[k].kind, f[k].id>> /\ records[i].body = f[k].body
ImportedBefore(f, n) == \A k \in DOMAIN f : k < n => FileHas(f, k)

\* A caller that has read the ledger, and one that is about to append.
HasRead(c) ==
  /\ c = [at |-> "read", command |-> c.command, seen |-> c.seen, next |-> c.next]
  /\ c.command \in Commands /\ c.seen \in 0..Len(records) /\ c.next \in Nat \ {0}
  /\ c.command.op = "assign" => c.command.exp \in DOMAIN plan
  /\ c.command.op = "import" => ImportedBefore(c.command.file, c.next)
IsToAppend(c) ==
  /\ c = [at |-> "append", record |-> c.record, of |-> c.of]
  /\ HasRead(c.of) /\ OfAPlan(c.record) /\ ClashesOnlyLater(c.record)
  /\ c.record.seen \in 0..Len(records)
  /\ c.of.command.op = "import" =>
       /\ c.of.next \in DOMAIN c.of.command.file
       /\ c.record = Event(c.of.command.file[c.of.next])
CallerFine(c) == c = NoCommand \/ HasRead(c) \/ IsToAppend(c)

\* Assignments that have passed the count and are not yet in the ledger.
Pends(c, e) == c.at = "append" /\ c.record.kind = "assignment" /\ c.record.body = e
PendingOf(e) == {p \in Callers : Pends(running[p], e)}

PilotTyped ==
  /\ AnySequence(records) /\ \A i \in DOMAIN records : OfAPlan(records[i])
  /\ plan = [e \in DOMAIN plan |-> plan[e]] /\ \A e \in DOMAIN plan : plan[e] \in Nat \ {0}
  /\ imported \subseteq Files /\ work \in [Callers -> SUBSET Commands]
  /\ running = [p \in Callers |-> running[p]] /\ \A p \in Callers : CallerFine(running[p])
WithinPlanWithPending ==
  \A e \in DOMAIN plan :
    Cardinality(AssignedIn(e)) + Cardinality(PendingOf(e)) <= plan[e] + Cardinality(Callers) - 1

PilotInv == PilotTyped /\ ClashOnlyByOverlap /\ WithinPlanWithPending /\ ImportedIsOnRecord

-----------------------------------------------------------------------------
LEMMA Positions ==
  ASSUME AnySequence(records)
  PROVE  Len(records) \in Nat /\ DOMAIN records = 1..Len(records)
BY DEF AnySequence

LEMMA AssignedFinite ==
  ASSUME AnySequence(records), NEW e
  PROVE  IsFiniteSet(AssignedIn(e)) /\ Cardinality(AssignedIn(e)) \in Nat /\ AssignedIn(e) \subseteq 1..Len(records)
<1>1. Len(records) \in Nat /\ AssignedIn(e) \subseteq 1..Len(records)
  BY DEF AnySequence, AssignedIn
<1>2. IsFiniteSet(1..Len(records))
  BY <1>1, FS_Interval
<1>3. IsFiniteSet(AssignedIn(e))
  BY <1>1, <1>2, FS_Subset, Zenon
<1> QED
  BY <1>1, <1>3, FS_CardinalityType

LEMMA PendingFinite ==
  ASSUME NEW e
  PROVE  /\ IsFiniteSet(PendingOf(e)) /\ Cardinality(PendingOf(e)) \in Nat
         /\ IsFiniteSet(Callers) /\ Cardinality(Callers) \in Nat
         /\ Cardinality(PendingOf(e)) <= Cardinality(Callers)
         /\ \A p \in Callers : Pends(running[p], e) \/ Cardinality(PendingOf(e)) + 1 <= Cardinality(Callers)
<1>1. IsFiniteSet(Callers) /\ PendingOf(e) \subseteq Callers
  BY CounterpilotAssumption DEF PendingOf
<1>2. /\ IsFiniteSet(PendingOf(e)) /\ Cardinality(PendingOf(e)) \in Nat /\ Cardinality(Callers) \in Nat
      /\ Cardinality(PendingOf(e)) <= Cardinality(Callers)
      /\ Cardinality(PendingOf(e)) = Cardinality(Callers) => PendingOf(e) = Callers
  BY <1>1, FS_Subset, FS_CardinalityType
<1>3. \A p \in Callers : Pends(running[p], e) \/ p \notin PendingOf(e)
  BY DEF PendingOf
<1> QED
  BY <1>1, <1>2, <1>3

\* One caller moves on.
LEMMA PendingMoves ==
  ASSUME NEW p \in Callers, NEW v, running = [q \in Callers |-> running[q]],
         running' = [running EXCEPT ![p] = v], NEW e
  PROVE  /\ ~Pends(v, e) => (PendingOf(e))' = PendingOf(e) \ {p}
         /\ Pends(v, e) => (PendingOf(e))' = PendingOf(e) \cup {p}
<1>1. running'[p] = v /\ \A q \in Callers : q # p => running'[q] = running[q]
  OBVIOUS
<1>2. (PendingOf(e))' = {q \in Callers : Pends(running'[q], e)}
  BY DEF PendingOf, Pends
<1> QED
  BY <1>1, <1>2 DEF PendingOf

\* A step of one caller that appends nothing.
LEMMA QuietMove ==
  ASSUME PilotInv, NEW p \in Callers, NEW v, records' = records, plan' = plan, work' = work,
         running' = [running EXCEPT ![p] = v], CallerFine(v),
         \A e : Pends(v, e) => ~Full(e),
         imported' \subseteq Files,
         \A f \in imported' \ imported : \A k \in DOMAIN f : FileHas(f, k)
  PROVE  PilotInv'
<1> USE DEF PilotInv
<1>1. PilotTyped'
  <2>1. \A c : CallerFine(c)' <=> CallerFine(c)
    BY DEF CallerFine, HasRead, IsToAppend, OfAPlan, ClashesOnlyLater, ImportedBefore, FileHas
  <2>2. running' = [q \in Callers |-> running'[q]] /\ \A q \in Callers : CallerFine(running'[q])
    BY DEF PilotTyped
  <2>3. \A q \in Callers : (CallerFine(running[q]))'
    <3> SUFFICES ASSUME NEW q \in Callers PROVE (CallerFine(running[q]))'
      OBVIOUS
    <3>1. PICK c : c = running'[q]
      OBVIOUS
    <3>2. CallerFine(c)'
      BY <2>1, <2>2, <3>1
    <3> QED
      BY <3>1, <3>2
  <2> QED
    BY <2>2, <2>3 DEF PilotTyped, OfAPlan
<1>2. ClashOnlyByOverlap'
  BY DEF ClashOnlyByOverlap
<1>3. WithinPlanWithPending'
  <2> SUFFICES ASSUME NEW e \in DOMAIN plan
               PROVE  Cardinality(AssignedIn(e)') + Cardinality(PendingOf(e)') <= plan[e] + Cardinality(Callers) - 1
    BY DEF WithinPlanWithPending
  <2>1. AssignedIn(e)' = AssignedIn(e)
    BY DEF AssignedIn
  <2>2. Cardinality(AssignedIn(e)) + Cardinality(PendingOf(e)) <= plan[e] + Cardinality(Callers) - 1
    BY DEF WithinPlanWithPending
  <2>3. AnySequence(records) /\ plan[e] \in Nat /\ running = [q \in Callers |-> running[q]]
    BY DEF PilotTyped
  <2>4. /\ Cardinality(AssignedIn(e)) \in Nat /\ Cardinality(PendingOf(e)) \in Nat /\ Cardinality(Callers) \in Nat
        /\ IsFiniteSet(PendingOf(e))
    BY <2>3, AssignedFinite, PendingFinite
  <2>5. CASE ~Pends(v, e)
    <3>1. PendingOf(e)' = PendingOf(e) \ {p}
      BY <2>3, <2>5, PendingMoves
    <3>2. Cardinality(PendingOf(e) \ {p}) <= Cardinality(PendingOf(e)) /\ Cardinality(PendingOf(e) \ {p}) \in Nat
      <4>1. /\ IsFiniteSet(PendingOf(e) \ {p})
            /\ Cardinality(PendingOf(e) \ {p})
                 = IF p \in PendingOf(e) THEN Cardinality(PendingOf(e)) - 1 ELSE Cardinality(PendingOf(e))
        BY <2>4, FS_RemoveElement, Zenon
      <4>2. Cardinality(PendingOf(e) \ {p}) \in Nat
        BY <4>1, FS_CardinalityType, Zenon
      <4> QED
        BY <2>4, <4>1, <4>2
    <3> QED
      BY <2>1, <2>2, <2>3, <2>4, <3>1, <3>2
  <2>6. CASE Pends(v, e)
    <3>1. PendingOf(e)' = PendingOf(e) \cup {p}
      BY <2>3, <2>6, PendingMoves
    <3>2. /\ Cardinality(PendingOf(e)') <= Cardinality(Callers) /\ Cardinality(PendingOf(e)') \in Nat
      <4>1. PendingOf(e)' \subseteq Callers /\ IsFiniteSet(Callers)
        BY CounterpilotAssumption, <3>1 DEF PendingOf
      <4> QED
        BY <4>1, FS_Subset, FS_CardinalityType
    <3>3. ~(Cardinality(AssignedIn(e)) >= plan[e])
      BY <2>6 DEF Full
    <3> QED
      BY <2>1, <2>3, <2>4, <3>2, <3>3
  <2> QED
    BY <2>5, <2>6
<1>4. ImportedIsOnRecord'
  BY DEF ImportedIsOnRecord, FileHas
<1> QED
  BY <1>1, <1>2, <1>3, <1>4

-----------------------------------------------------------------------------
\* What one more record leaves of the others.
LEMMA OneMore ==
  ASSUME AnySequence(records), NEW r, records' = Append(records, r)
  PROVE  /\ AnySequence(records)' /\ Len(records) \in Nat /\ Len(records') = Len(records) + 1
         /\ DOMAIN records = 1..Len(records) /\ DOMAIN records' = 1..(Len(records) + 1)
         /\ records'[Len(records) + 1] = r /\ \A i \in DOMAIN records : records'[i] = records[i]
BY AppendFacts DEF AnySequence

LEMMA FilesKept ==
  ASSUME AnySequence(records), NEW r, records' = Append(records, r), NEW f, NEW k, FileHas(f, k)
  PROVE  FileHas(f, k)'
<1>1. PICK i \in DOMAIN records : Id(records[i]) = <<f[k].kind, f[k].id>> /\ records[i].body = f[k].body
  BY DEF FileHas
<1>2. i \in DOMAIN records' /\ records'[i] = records[i]
  BY OneMore
<1>3. Id(records[i])' = Id(records[i])
  BY <1>2 DEF Id
<1> QED
  BY <1>1, <1>2, <1>3 DEF FileHas

LEMMA CallerKept ==
  ASSUME AnySequence(records), NEW r, records' = Append(records, r), plan' = plan, NEW c, CallerFine(c)
  PROVE  CallerFine(c)'
<1>1. ASSUME NEW d, HasRead(d) PROVE HasRead(d)'
  <2>1. d.command.op = "import" => ImportedBefore(d.command.file, d.next)'
    BY <1>1, FilesKept DEF HasRead, ImportedBefore
  <2>2. d.seen \in 0..Len(records')
    BY <1>1, OneMore DEF HasRead
  <2> QED
    BY <1>1, <2>1, <2>2 DEF HasRead
<1>2. ASSUME IsToAppend(c) PROVE IsToAppend(c)'
  <2>1. HasRead(c.of)'
    BY <1>1, <1>2 DEF IsToAppend
  <2>2. c.record.seen \in 0..Len(records)'
    BY <1>2, OneMore DEF IsToAppend
  <2>3. ClashesOnlyLater(c.record)'
    <3> SUFFICES ASSUME NEW i \in DOMAIN records', Clash(records'[i], c.record) PROVE c.record.seen < i
      BY DEF ClashesOnlyLater, Clash
    <3>1. CASE i \in DOMAIN records
      BY <1>2, <3>1, OneMore DEF IsToAppend, ClashesOnlyLater, Clash
    <3>2. CASE i = Len(records) + 1
      BY <1>2, <3>2, OneMore DEF IsToAppend
    <3> QED
      BY <3>1, <3>2, OneMore
  <2>4. OfAPlan(c.record)'
    BY <1>2 DEF IsToAppend, OfAPlan
  <2> QED
    BY <1>2, <2>1, <2>2, <2>3, <2>4 DEF IsToAppend
<1> QED
  BY <1>1, <1>2 DEF CallerFine

\* A caller appends its record.
LEMMA AppendMove ==
  ASSUME PilotInv, NEW p \in Callers, NEW v, NEW r, IsToAppend(running[p]), r = running[p].record,
         records' = Append(records, r), plan' = plan, work' = work, imported' = imported,
         running' = [running EXCEPT ![p] = v], CallerFine(v)', v.at # "append"
  PROVE  PilotInv'
<1> USE DEF PilotInv
<1>a. AnySequence(records) /\ running = [q \in Callers |-> running[q]] /\ \A q \in Callers : CallerFine(running[q])
  BY DEF PilotTyped
<1>b. OfAPlan(r) /\ ClashesOnlyLater(r)
  BY DEF IsToAppend
<1>1. PilotTyped'
  <2>1. running' = [q \in Callers |-> running'[q]]
    BY <1>a
  <2>2. \A q \in Callers : (CallerFine(running[q]))'
    <3> SUFFICES ASSUME NEW q \in Callers PROVE (CallerFine(running[q]))'
      OBVIOUS
    <3>1. CASE q = p
      <4>1. running'[q] = v
        BY <1>a, <3>1
      <4> QED
        BY <4>1
    <3>2. CASE q # p
      <4>1. PICK c : c = running'[q]
        OBVIOUS
      <4>2. c = running[q]
        BY <1>a, <3>2, <4>1
      <4>3. CallerFine(c)'
        BY <1>a, <4>2, CallerKept
      <4> QED
        BY <4>1, <4>3
    <3> QED
      BY <3>1, <3>2
  <2>3. \A i \in DOMAIN records' : (OfAPlan(records[i]))'
    <3>1. \A c : OfAPlan(c)' <=> OfAPlan(c)
      BY DEF OfAPlan
    <3>2. \A i \in DOMAIN records' : OfAPlan(records'[i])
      BY <1>a, <1>b, OneMore DEF PilotTyped
    <3> QED
      BY <3>2 DEF OfAPlan
  <2>4. AnySequence(records)'
    BY <1>a, OneMore
  <2> QED
    BY <2>1, <2>2, <2>3, <2>4 DEF PilotTyped
<1>2. ClashOnlyByOverlap'
  <2> SUFFICES ASSUME NEW i \in DOMAIN records', NEW j \in DOMAIN records', i < j, Clash(records'[i], records'[j])
               PROVE  records'[j].seen < i
    BY DEF ClashOnlyByOverlap, Clash
  <2>1. CASE j \in DOMAIN records
    BY <1>a, <2>1, OneMore DEF ClashOnlyByOverlap
  <2>2. CASE j = Len(records) + 1
    BY <1>a, <1>b, <2>2, OneMore DEF ClashesOnlyLater
  <2> QED
    BY <1>a, <2>1, <2>2, OneMore
<1>3. WithinPlanWithPending'
  <2> SUFFICES ASSUME NEW e \in DOMAIN plan
               PROVE  Cardinality(AssignedIn(e)') + Cardinality(PendingOf(e)') <= plan[e] + Cardinality(Callers) - 1
    BY DEF WithinPlanWithPending
  <2>1. Cardinality(AssignedIn(e)) + Cardinality(PendingOf(e)) <= plan[e] + Cardinality(Callers) - 1
    BY DEF WithinPlanWithPending
  <2>2. plan[e] \in Nat
    BY DEF PilotTyped
  <2>3. /\ Cardinality(AssignedIn(e)) \in Nat /\ Cardinality(PendingOf(e)) \in Nat /\ Cardinality(Callers) \in Nat
        /\ IsFiniteSet(PendingOf(e)) /\ IsFiniteSet(AssignedIn(e)) /\ AssignedIn(e) \subseteq 1..Len(records)
    BY <1>a, AssignedFinite, PendingFinite
  <2>4. PendingOf(e)' = PendingOf(e) \ {p}
    BY <1>a, PendingMoves DEF Pends
  <2>5. /\ IsFiniteSet(PendingOf(e) \ {p})
        /\ Cardinality(PendingOf(e) \ {p})
             = IF p \in PendingOf(e) THEN Cardinality(PendingOf(e)) - 1 ELSE Cardinality(PendingOf(e))
    BY <2>3, FS_RemoveElement, Zenon
  <2>6. CASE r.kind = "assignment" /\ r.body = e
    <3>1. p \in PendingOf(e)
      BY <2>6 DEF PendingOf, Pends, IsToAppend
    <3>2. AssignedIn(e)' = AssignedIn(e) \cup {Len(records) + 1}
      BY <1>a, <2>6, OneMore DEF AssignedIn
    <3>3. Cardinality(AssignedIn(e) \cup {Len(records) + 1}) = Cardinality(AssignedIn(e)) + 1
      <4>1. Len(records) + 1 \notin AssignedIn(e)
        BY <1>a, <2>3, OneMore
      <4> QED
        BY <2>3, <4>1, FS_AddElement, Zenon
    <3> QED
      BY <2>1, <2>2, <2>3, <2>4, <2>5, <3>1, <3>2, <3>3
  <2>7. CASE ~(r.kind = "assignment" /\ r.body = e)
    <3>1. AssignedIn(e)' = AssignedIn(e)
      BY <1>a, <2>7, OneMore DEF AssignedIn
    <3>2. Cardinality(PendingOf(e) \ {p}) <= Cardinality(PendingOf(e)) /\ Cardinality(PendingOf(e) \ {p}) \in Nat
      BY <2>3, <2>5, FS_CardinalityType
    <3> QED
      BY <2>1, <2>2, <2>3, <2>4, <3>1, <3>2
  <2> QED
    BY <2>6, <2>7
<1>4. ImportedIsOnRecord'
  <2>1. \A f \in imported : \A k \in DOMAIN f : FileHas(f, k)'
    BY <1>a, FilesKept DEF ImportedIsOnRecord, FileHas
  <2> QED
    BY <2>1 DEF ImportedIsOnRecord, FileHas
<1> QED
  BY <1>1, <1>2, <1>3, <1>4

-----------------------------------------------------------------------------
\* The steps, one by one.
LEMMA FileFacts ==
  ASSUME NEW f \in Files
  PROVE  Len(f) \in Nat /\ DOMAIN f = 1..Len(f) /\ \A k \in DOMAIN f : f[k].kind # "assignment"
<1>1. Len(f) \in Nat /\ f = [k \in 1..Len(f) |-> f[k]] /\ \A k \in DOMAIN f : f[k].kind # "assignment"
  BY CounterpilotAssumption
<1> QED
  BY <1>1

LEMMA CommandFacts ==
  ASSUME NEW c \in Commands
  PROVE  /\ c.op = "import" => c.file \in Files
         /\ c.op = "shadow" => DOMAIN c = {"op", "offer", "config"}
         /\ c.op = "preregister" => c.units \in Nat \ {0}
         /\ c.op = "assign" => DOMAIN c = {"op", "exp", "offer"}
         /\ c.op = "result" => DOMAIN c = {"op", "exp", "offer", "value"}
BY CounterpilotAssumption DEF Commands

LEMMA ReadFacts ==
  ASSUME NEW p \in Callers, HasRead(running[p])
  PROVE  /\ Read(p).seen = running[p].seen
         /\ Doing(p, "shadow") => Read(p).offer = running[p].command.offer
         /\ Doing(p, "assign") => Read(p).exp = running[p].command.exp /\ Read(p).offer = running[p].command.offer
BY CommandFacts DEF Read, HasRead, Doing

LEMMA RunMoves ==
  ASSUME PilotInv, NEW p \in Callers, Run(p), work' = work
  PROVE  PilotInv'
<1>1. PICK c \in work[p] : /\ c.op = "assign" => c.exp \in DOMAIN plan
                           /\ running' = [running EXCEPT ![p] = [at |-> "read", command |-> c, seen |-> Len(records), next |-> 1]]
  BY DEF Run
<1>2. PICK v : v = [at |-> "read", command |-> c, seen |-> Len(records), next |-> 1]
  OBVIOUS
<1>3. HasRead(v)
  <2>1. c \in Commands /\ Len(records) \in Nat
    BY Positions DEF PilotInv, PilotTyped
  <2>2. c.op = "import" => ImportedBefore(c.file, 1)
    BY <2>1, CommandFacts, FileFacts DEF ImportedBefore
  <2> QED
    BY <1>1, <1>2, <2>1, <2>2 DEF HasRead
<1>4. CallerFine(v) /\ \A e : ~Pends(v, e)
  BY <1>2, <1>3 DEF CallerFine, Pends
<1>5. records' = records /\ plan' = plan /\ imported' = imported /\ imported \subseteq Files
  BY DEF Run, PilotInv, PilotTyped
<1>6. running' = [running EXCEPT ![p] = v]
  BY <1>1, <1>2
<1> QED
  BY <1>4, <1>5, <1>6, QuietMove

LEMMA FinishMoves ==
  ASSUME PilotInv, NEW p \in Callers, Finish(p), UNCHANGED <<records, plan, work>>,
         \/ imported' = imported
         \/ \E f \in Files : imported' = imported \cup {f} /\ \A k \in DOMAIN f : FileHas(f, k)
  PROVE  PilotInv'
<1>1. PICK v : v = NoCommand
  OBVIOUS
<1>2. CallerFine(v) /\ \A e : ~Pends(v, e)
  BY <1>1 DEF CallerFine, Pends, NoCommand
<1>3. running' = [running EXCEPT ![p] = v]
  BY <1>1 DEF Finish
<1>4. imported' \subseteq Files /\ \A f \in imported' \ imported : \A k \in DOMAIN f : FileHas(f, k)
  BY DEF PilotInv, PilotTyped
<1> QED
  BY <1>2, <1>3, <1>4, QuietMove

LEMMA PrepareMoves ==
  ASSUME PilotInv, NEW p \in Callers, NEW r, Prepare(p, r), UNCHANGED <<records, plan, imported, work>>,
         HasRead(running[p]), OfAPlan(r), ClashesOnlyLater(r), r.seen \in 0..Len(records),
         r.kind = "assignment" => ~Full(r.body),
         running[p].command.op = "import" =>
           /\ running[p].next \in DOMAIN running[p].command.file
           /\ r = Event(running[p].command.file[running[p].next])
  PROVE  PilotInv'
<1>1. PICK v : v = [at |-> "append", record |-> r, of |-> running[p]]
  OBVIOUS
<1>2. CallerFine(v)
  BY <1>1 DEF CallerFine, IsToAppend
<1>3. \A e : Pends(v, e) => ~Full(e)
  BY <1>1 DEF Pends
<1>4. running' = [running EXCEPT ![p] = v] /\ imported' \subseteq Files
  BY <1>1 DEF Prepare, PilotInv, PilotTyped
<1> QED
  BY <1>2, <1>3, <1>4, QuietMove

LEMMA AtRead ==
  ASSUME PilotInv, NEW p \in Callers, NEW op, Doing(p, op)
  PROVE  HasRead(running[p])
BY DEF Doing, PilotInv, PilotTyped, CallerFine, NoCommand, IsToAppend

LEMMA NextKept ==
  ASSUME NEW c, HasRead(c), c.command.op = "import", NEW v, v = [c EXCEPT !.next = c.next + 1],
         FileHas(c.command.file, c.next)
  PROVE  HasRead(v) /\ v.at = "read"
<1>1. v = [at |-> "read", command |-> c.command, seen |-> c.seen, next |-> c.next + 1]
  BY DEF HasRead
<1>2. ImportedBefore(c.command.file, c.next + 1)
  <2>1. DOMAIN c.command.file \subseteq Nat /\ c.next \in Nat
    BY CommandFacts, FileFacts DEF HasRead
  <2>2. ImportedBefore(c.command.file, c.next)
    BY DEF HasRead
  <2>3. \A k \in DOMAIN c.command.file : k < c.next + 1 => k < c.next \/ k = c.next
    BY <2>1
  <2> QED
    BY <2>2, <2>3 DEF ImportedBefore
<1> QED
  BY <1>1, <1>2 DEF HasRead

LEMMA ImportMoves ==
  ASSUME PilotInv, NEW p \in Callers, Import(p), work' = work
  PROVE  PilotInv'
<1>1. HasRead(running[p]) /\ running[p].command.op = "import"
  BY AtRead DEF Import, Doing
<1>2. PICK f, k : f = running[p].command.file /\ k = running[p].next
  OBVIOUS
<1>3. f \in Files /\ k \in Nat \ {0} /\ Len(f) \in Nat /\ DOMAIN f = 1..Len(f) /\ ImportedBefore(f, k)
  BY <1>1, <1>2, CommandFacts, FileFacts DEF HasRead
<1>4. records' = records /\ plan' = plan
  BY DEF Import
<1>5. CASE k > Len(f)
  <2>1. Finish(p) /\ imported' = imported \cup {f}
    BY <1>2, <1>5 DEF Import
  <2>2. \A j \in DOMAIN f : FileHas(f, j)
    BY <1>3, <1>5 DEF ImportedBefore
  <2> QED
    BY <1>3, <1>4, <2>1, <2>2, FinishMoves
<1>6. CASE ~(k > Len(f))
  <2>1. k \in DOMAIN f /\ imported' = imported
    <3>1. k \in DOMAIN f
      BY <1>3, <1>6
    <3>2. imported' = imported
      BY <1>2, <1>6, Zenon DEF Import
    <3> QED
      BY <3>1, <3>2
  <2>e. PICK e : e = f[k]
    OBVIOUS
  <2> DEFINE contradicts == ~e.valid \/ (\E i \in DOMAIN records : Id(records[i]) = <<e.kind, e.id>>
                                                                  /\ records[i].body # e.body)
             missing == e.valid /\ ~OnRecord(<<e.kind, e.id>>)
  <2>2. CASE contradicts
    <3>a. ~missing
      <4>1. e.valid => \E i \in DOMAIN records : Id(records[i]) = <<e.kind, e.id>>
        BY <2>2
      <4> QED
        BY <4>1 DEF OnRecord
    <3>1. Finish(p)
      BY <1>2, <1>6, <2>e, <2>2, <3>a, Zenon DEF Import
    <3> QED
      BY <1>4, <2>1, <3>1, FinishMoves
  <2>3. CASE ~contradicts /\ missing
    <3>1. Prepare(p, Event(e))
      BY <1>2, <1>6, <2>e, <2>3 DEF Import
    <3>2. PICK r : r = Event(e)
      OBVIOUS
    <3>3. /\ OfAPlan(r) /\ ClashesOnlyLater(r) /\ r.seen \in 0..Len(records) /\ r.kind # "assignment"
      <4>1. r.seen = 0 /\ r.kind = e.kind /\ e.kind # "assignment"
        BY <1>3, <2>1, <2>e, <3>2, FileFacts DEF Event
      <4>2. Len(records) \in Nat /\ DOMAIN records = 1..Len(records)
        BY Positions DEF PilotInv, PilotTyped
      <4> QED
        BY <4>1, <4>2 DEF OfAPlan, ClashesOnlyLater
    <3> HIDE DEF contradicts, missing
    <3>4. Prepare(p, r)
      BY <3>1, <3>2, Zenon
    <3>5. /\ running[p].next \in DOMAIN running[p].command.file
          /\ r = Event(running[p].command.file[running[p].next])
      BY <1>2, <2>e, <2>1, <3>2, Zenon
    <3>6. UNCHANGED <<records, plan, imported, work>>
      BY <1>4, <2>1
    <3> QED
      BY <1>1, <3>3, <3>4, <3>5, <3>6, PrepareMoves, Zenon
  <2>4. CASE ~contradicts /\ ~missing
    <3>1. FileHas(f, k)
      BY <2>e, <2>4 DEF OnRecord, FileHas
    <3>2. running' = [running EXCEPT ![p].next = k + 1]
      BY <1>2, <1>6, <2>e, <2>4 DEF Import
    <3>3. PICK c : c = running[p]
      OBVIOUS
    <3>4. PICK v : v = [c EXCEPT !.next = c.next + 1]
      OBVIOUS
    <3>5. HasRead(v) /\ v.at = "read"
      BY <1>1, <1>2, <3>1, <3>3, <3>4, NextKept
    <3>6. CallerFine(v) /\ \A d : ~Pends(v, d)
      BY <3>5 DEF CallerFine, Pends
    <3>7. running' = [running EXCEPT ![p] = v] /\ imported' \subseteq Files
      BY <1>2, <2>1, <3>2, <3>3, <3>4 DEF PilotInv, PilotTyped
    <3> QED
      BY <1>4, <2>1, <3>6, <3>7, QuietMove
  <2> QED
    BY <2>2, <2>3, <2>4
<1> QED
  BY <1>5, <1>6

LEMMA ShadowMoves ==
  ASSUME PilotInv, NEW p \in Callers, ShadowRecommend(p), work' = work
  PROVE  PilotInv'
<1>1. HasRead(running[p]) /\ Doing(p, "shadow") /\ running[p].command.op = "shadow"
  BY AtRead DEF ShadowRecommend, Doing
<1>2. UNCHANGED <<records, plan, imported>>
  BY DEF ShadowRecommend
<1>3. PICK c : c = Read(p)
  OBVIOUS
<1> DEFINE blocked == ~Has(c.seen, "offer", c.offer) \/ HeldOut(c.offer)
                      \/ Has(c.seen, "decision", c.offer) \/ Has(c.seen, "shadow", c.offer)
<1>4. CASE blocked
  <2>1. Finish(p)
    BY <1>3, <1>4 DEF ShadowRecommend
  <2> QED
    BY <1>2, <2>1, FinishMoves
<1>5. CASE ~blocked
  <2>1. PICK r : r = Shadow(c)
    OBVIOUS
  <2>2. Prepare(p, r)
    BY <1>3, <1>5, <2>1 DEF ShadowRecommend
  <2>3. /\ Len(records) \in Nat /\ DOMAIN records = 1..Len(records)
        /\ c.seen \in 0..Len(records)
    BY <1>1, <1>3, ReadFacts, Positions DEF HasRead, PilotInv, PilotTyped
  <2>4. r.kind = "shadow" /\ r.seen = c.seen /\ r.offer = c.offer
    BY <2>1 DEF Shadow
  <2>5. ClashesOnlyLater(r)
    <3> SUFFICES ASSUME NEW i \in DOMAIN records, Clash(records[i], r), i <= c.seen PROVE FALSE
      BY <2>3, <2>4 DEF ClashesOnlyLater
    <3>1. i \in 1..c.seen
      BY <2>3
    <3>2. CASE records[i].kind \in {"decision", "shadow"}
      <4>1. records[i].offer = c.offer
        BY <2>4 DEF Clash
      <4> QED
        BY <1>5, <3>1, <3>2, <4>1 DEF Has
    <3>3. CASE records[i].kind = "assignment" /\ records[i].body \in Exposure /\ <<records[i].body, c.offer>> \in Control
      <4>1. records[i].offer = c.offer
        BY <2>4 DEF Clash
      <4> QED
        BY <1>5, <3>3, <4>1 DEF HeldOut
    <3> QED
      BY <2>4, <3>2, <3>3 DEF Clash
  <2>6. OfAPlan(r)
    BY <2>4 DEF OfAPlan
  <2> QED
    BY <1>1, <1>2, <2>2, <2>3, <2>4, <2>5, <2>6, PrepareMoves
<1> QED
  BY <1>4, <1>5

LEMMA AssignMoves ==
  ASSUME PilotInv, NEW p \in Callers, AssignOffer(p), work' = work
  PROVE  PilotInv'
<1>1. HasRead(running[p]) /\ Doing(p, "assign") /\ running[p].command.op = "assign"
  BY AtRead DEF AssignOffer, Doing
<1>2. UNCHANGED <<records, plan, imported>>
  BY DEF AssignOffer
<1>3. PICK c : c = Read(p)
  OBVIOUS
<1> DEFINE blocked == ~Has(c.seen, "offer", c.offer) \/ OnRecord(<<"assignment", <<c.exp, c.offer>>>>)
                      \/ Has(c.seen, "shadow", c.offer) \/ Has(c.seen, "decision", c.offer)
                      \/ Has(c.seen, "outcome", c.offer) \/ Full(c.exp)
<1>4. CASE blocked
  <2>1. Finish(p)
    BY <1>3, <1>4 DEF AssignOffer
  <2> QED
    BY <1>2, <2>1, FinishMoves
<1>5. CASE ~blocked
  <2>1. PICK r : r = Assignment(c)
    OBVIOUS
  <2>2. Prepare(p, r)
    BY <1>3, <1>5, <2>1 DEF AssignOffer
  <2>3. /\ Len(records) \in Nat /\ DOMAIN records = 1..Len(records)
        /\ c.seen \in 0..Len(records) /\ c.exp \in DOMAIN plan
    BY <1>1, <1>3, ReadFacts, Positions DEF HasRead, PilotInv, PilotTyped
  <2>4. r.kind = "assignment" /\ r.seen = c.seen /\ r.offer = c.offer /\ r.body = c.exp
    BY <2>1 DEF Assignment
  <2>5. ClashesOnlyLater(r)
    <3> SUFFICES ASSUME NEW i \in DOMAIN records, Clash(records[i], r), i <= c.seen PROVE FALSE
      BY <2>3, <2>4 DEF ClashesOnlyLater
    <3>1. i \in 1..c.seen
      BY <2>3
    <3>2. records[i].kind \in {"shadow", "decision", "outcome"} /\ records[i].offer = c.offer
      BY <2>4 DEF Clash
    <3> QED
      BY <1>5, <3>1, <3>2 DEF Has
  <2>6. OfAPlan(r) /\ ~Full(r.body)
    BY <1>5, <2>3, <2>4 DEF OfAPlan
  <2> QED
    BY <1>1, <1>2, <2>2, <2>3, <2>4, <2>5, <2>6, PrepareMoves
<1> QED
  BY <1>4, <1>5

LEMMA ResultMoves ==
  ASSUME PilotInv, NEW p \in Callers, RecordResult(p), work' = work
  PROVE  PilotInv'
<1>1. HasRead(running[p]) /\ running[p].command.op = "result"
  BY AtRead DEF RecordResult, Doing
<1>2. UNCHANGED <<records, plan, imported>>
  BY DEF RecordResult
<1>3. CASE Finish(p)
  BY <1>2, <1>3, FinishMoves
<1>4. CASE Prepare(p, Result(Read(p)))
  <2>1. PICK r : r = Result(Read(p))
    OBVIOUS
  <2>2. r.kind = "result" /\ r.seen = running[p].seen
    BY <1>1, <2>1, ReadFacts DEF Result
  <2>3. Len(records) \in Nat /\ DOMAIN records = 1..Len(records) /\ running[p].seen \in 0..Len(records)
    BY <1>1, Positions DEF HasRead, PilotInv, PilotTyped
  <2>4. OfAPlan(r) /\ ClashesOnlyLater(r)
    BY <2>2 DEF OfAPlan, ClashesOnlyLater, Clash
  <2> QED
    BY <1>1, <1>2, <1>4, <2>1, <2>2, <2>3, <2>4, PrepareMoves
<1> QED
  BY <1>3, <1>4 DEF RecordResult

LEMMA PreregisterMoves ==
  ASSUME PilotInv, NEW p \in Callers, PreregisterExperiment(p), work' = work
  PROVE  PilotInv'
<1>1. HasRead(running[p]) /\ running[p].command.op = "preregister"
  BY AtRead DEF PreregisterExperiment, Doing
<1>2. PICK c : c = running[p].command
  OBVIOUS
<1>3. records' = records /\ imported' = imported /\ Finish(p)
  BY DEF PreregisterExperiment
<1>4. CASE plan' = plan
  BY <1>3, <1>4, FinishMoves
<1>5. CASE plan' # plan
  <2>1. /\ c.exp \notin DOMAIN plan
        /\ plan' = [e \in DOMAIN plan \cup {c.exp} |-> IF e = c.exp THEN c.units ELSE plan[e]]
    BY <1>2, <1>5 DEF PreregisterExperiment
  <2>2. c.units \in Nat \ {0}
    BY <1>1, <1>2, CommandFacts DEF HasRead
  <2>3. /\ DOMAIN plan \subseteq DOMAIN plan' /\ \A e \in DOMAIN plan : plan'[e] = plan[e]
        /\ DOMAIN plan' = DOMAIN plan \cup {c.exp} /\ plan'[c.exp] = c.units
        /\ plan' = [e \in DOMAIN plan' |-> plan'[e]]
    BY <2>1
  <2>4. /\ AnySequence(records) /\ running = [q \in Callers |-> running[q]]
        /\ \A q \in Callers : CallerFine(running[q])
    BY DEF PilotInv, PilotTyped
  <2>5. \A e : /\ AssignedIn(e)' = AssignedIn(e)
               /\ PendingOf(e)' = PendingOf(e) \ {p}
    <3> SUFFICES ASSUME NEW e PROVE AssignedIn(e)' = AssignedIn(e) /\ PendingOf(e)' = PendingOf(e) \ {p}
      OBVIOUS
    <3>1. PICK v : v = NoCommand
      OBVIOUS
    <3>2. ~Pends(v, e) /\ running' = [running EXCEPT ![p] = v]
      BY <1>3, <3>1 DEF Finish, Pends, NoCommand
    <3> QED
      BY <1>3, <2>4, <3>2, PendingMoves DEF AssignedIn
  <2>6. PilotTyped'
    <3>1. \A d : HasRead(d) => HasRead(d)'
      BY <1>3, <2>3 DEF HasRead, ImportedBefore, FileHas
    <3>2. \A d : IsToAppend(d) => IsToAppend(d)'
      BY <1>3, <2>3, <3>1 DEF IsToAppend, OfAPlan, ClashesOnlyLater
    <3>3. \A q \in Callers : (CallerFine(running[q]))'
      <4> SUFFICES ASSUME NEW q \in Callers PROVE (CallerFine(running[q]))'
        OBVIOUS
      <4>1. PICK d : d = running'[q]
        OBVIOUS
      <4>2. d = NoCommand \/ d = running[q]
        BY <1>3, <2>4, <4>1 DEF Finish
      <4>3. CallerFine(d)'
        BY <2>4, <3>1, <3>2, <4>2 DEF CallerFine
      <4> QED
        BY <4>1, <4>3
    <3>4. running' = [q \in Callers |-> running'[q]]
      BY <1>3, <2>4 DEF Finish
    <3>5. \A e \in DOMAIN plan' : plan'[e] \in Nat \ {0}
      BY <2>2, <2>3 DEF PilotInv, PilotTyped
    <3>6. \A i \in DOMAIN records' : (OfAPlan(records[i]))'
      BY <1>3, <2>3 DEF PilotInv, PilotTyped, OfAPlan
    <3> QED
      BY <1>3, <2>3, <3>3, <3>4, <3>5, <3>6 DEF PilotInv, PilotTyped
  <2>7. WithinPlanWithPending'
    <3> SUFFICES ASSUME NEW e \in DOMAIN plan'
                 PROVE  Cardinality(AssignedIn(e)') + Cardinality(PendingOf(e)') <= plan'[e] + Cardinality(Callers) - 1
      BY DEF WithinPlanWithPending
    <3>1. /\ Cardinality(AssignedIn(e)) \in Nat /\ Cardinality(PendingOf(e)) \in Nat /\ Cardinality(Callers) \in Nat
          /\ IsFiniteSet(PendingOf(e))
      BY <2>4, AssignedFinite, PendingFinite
    <3>2. /\ IsFiniteSet(PendingOf(e) \ {p})
          /\ Cardinality(PendingOf(e) \ {p})
               = IF p \in PendingOf(e) THEN Cardinality(PendingOf(e)) - 1 ELSE Cardinality(PendingOf(e))
      BY <3>1, FS_RemoveElement, Zenon
    <3>3. Cardinality(PendingOf(e) \ {p}) \in Nat
      BY <3>2, FS_CardinalityType
    <3>4. CASE e \in DOMAIN plan
      <4>1. Cardinality(AssignedIn(e)) + Cardinality(PendingOf(e)) <= plan[e] + Cardinality(Callers) - 1
        BY <3>4 DEF PilotInv, WithinPlanWithPending
      <4>2. plan[e] \in Nat /\ plan'[e] = plan[e]
        BY <2>3, <3>4 DEF PilotInv, PilotTyped
      <4>3. Cardinality(PendingOf(e) \ {p}) <= Cardinality(PendingOf(e))
        BY <3>1, <3>2
      <4>4. AssignedIn(e)' = AssignedIn(e) /\ PendingOf(e)' = PendingOf(e) \ {p}
        BY <2>5
      <4> QED
        BY <3>1, <3>3, <4>1, <4>2, <4>3, <4>4
    <3>5. CASE e = c.exp
      <4>a. AssignedIn(e) = {}
        BY <2>1, <3>5 DEF PilotInv, PilotTyped, AssignedIn, OfAPlan
      <4>b. ASSUME NEW q \in Callers, Pends(running[q], e) PROVE FALSE
        <5>1. IsToAppend(running[q])
          BY <2>4, <4>b DEF Pends, CallerFine, HasRead, NoCommand
        <5> QED
          BY <2>1, <3>5, <4>b, <5>1 DEF Pends, IsToAppend, OfAPlan
      <4>1. AssignedIn(e) = {} /\ PendingOf(e) = {}
        BY <4>a, <4>b DEF PendingOf
      <4>2. Cardinality(AssignedIn(e)) = 0 /\ Cardinality(PendingOf(e)) = 0
        BY <4>1, FS_EmptySet
      <4>3. Cardinality(Callers) >= 1
        <5>1. IsFiniteSet(Callers) /\ Callers # {}
          BY CounterpilotAssumption
        <5> QED
          BY <3>1, <5>1, FS_EmptySet
      <4>4. PendingOf(e) \ {p} = {}
        BY <4>1
      <4> QED
        BY <2>2, <2>3, <2>5, <3>1, <3>5, <4>1, <4>2, <4>3, <4>4
    <3> QED
      BY <2>3, <3>4, <3>5
  <2>8. ClashOnlyByOverlap' /\ ImportedIsOnRecord'
    BY <1>3 DEF PilotInv, ClashOnlyByOverlap, ImportedIsOnRecord
  <2> QED
    BY <2>6, <2>7, <2>8 DEF PilotInv
<1> QED
  BY <1>4, <1>5

LEMMA AppendMoves ==
  ASSUME PilotInv, NEW p \in Callers, AppendRecord(p), work' = work
  PROVE  PilotInv'
<1>1. IsToAppend(running[p])
  BY DEF AppendRecord, PilotInv, PilotTyped, CallerFine, NoCommand, HasRead
<1>2. PICK r, c : r = running[p].record /\ c = running[p].of
  OBVIOUS
<1>3. plan' = plan /\ imported' = imported
  BY DEF AppendRecord
<1>4. CASE OnRecord(Id(r))
  <2>1. records' = records /\ Finish(p)
    BY <1>2, <1>4 DEF AppendRecord
  <2> QED
    BY <1>3, <2>1, FinishMoves
<1>5. CASE ~OnRecord(Id(r))
  <2>1. records' = Append(records, r)
    BY <1>2, <1>5 DEF AppendRecord
  <2>2. AnySequence(records) /\ CallerFine(NoCommand)
    BY DEF PilotInv, PilotTyped, CallerFine
  <2>3. CASE c.command.op = "import"
    <3>1. running' = [running EXCEPT ![p] = [c EXCEPT !.next = @ + 1]]
      BY <1>2, <1>5, <2>3 DEF AppendRecord
    <3>2. HasRead(c) /\ r = Event(c.command.file[c.next])
      BY <1>1, <1>2, <2>3 DEF IsToAppend
    <3>3. HasRead(c)'
      <4>1. CallerFine(c)'
        BY <1>3, <2>1, <2>2, <3>2, CallerKept DEF CallerFine
      <4>2. c.at = "read"
        BY <3>2 DEF HasRead
      <4> QED
        BY <4>1, <4>2 DEF CallerFine, NoCommand, IsToAppend
    <3>4. FileHas(c.command.file, c.next)'
      <4>1. Len(records) + 1 \in DOMAIN records' /\ records'[Len(records) + 1] = r
        BY <2>1, <2>2, OneMore
      <4>2. /\ Id(r) = <<c.command.file[c.next].kind, c.command.file[c.next].id>>
            /\ r.body = c.command.file[c.next].body
        BY <3>2 DEF Event, Id
      <4> QED
        BY <4>1, <4>2 DEF FileHas, Id
    <3>5. PICK v : v = [c EXCEPT !.next = c.next + 1]
      OBVIOUS
    <3>6. HasRead(v)' /\ v.at = "read"
      <4>1. v = [at |-> "read", command |-> c.command, seen |-> c.seen, next |-> c.next + 1]
        BY <3>2, <3>5 DEF HasRead
      <4>2. DOMAIN c.command.file \subseteq Nat /\ c.next \in Nat
        BY <2>3, <3>2, CommandFacts, FileFacts DEF HasRead
      <4>3. ImportedBefore(c.command.file, c.next)'
        BY <2>3, <3>3 DEF HasRead
      <4>4. \A k \in DOMAIN c.command.file : k < c.next + 1 => k < c.next \/ k = c.next
        BY <4>2
      <4>5. ImportedBefore(c.command.file, c.next + 1)'
        BY <3>4, <4>3, <4>4 DEF ImportedBefore
      <4> QED
        BY <2>3, <3>3, <4>1, <4>2, <4>5 DEF HasRead
    <3>7. running' = [running EXCEPT ![p] = v] /\ CallerFine(v)'
      BY <3>1, <3>5, <3>6 DEF CallerFine
    <3> QED
      BY <1>1, <1>2, <1>3, <2>1, <3>6, <3>7, AppendMove
  <2>4. CASE c.command.op # "import"
    <3>1. PICK v : v = NoCommand
      OBVIOUS
    <3>2. running' = [running EXCEPT ![p] = v] /\ CallerFine(v)' /\ v.at # "append"
      BY <1>2, <1>5, <2>4, <3>1 DEF AppendRecord, Finish, CallerFine, NoCommand
    <3> QED
      BY <1>1, <1>2, <1>3, <2>1, <3>2, AppendMove
  <2> QED
    BY <2>3, <2>4
<1> QED
  BY <1>4, <1>5

-----------------------------------------------------------------------------
LEMMA PilotStarts ==
  ASSUME PilotInit
  PROVE  PilotInv
<1>1. PICK s \in PilotScenarios : work = s.work /\ records = [i \in DOMAIN s.seed |-> Event(s.seed[i])]
  BY DEF PilotInit
<1>2. s.seed \in Files /\ s.work \in [Callers -> SUBSET Commands]
  BY CounterpilotAssumption
<1>3. PICK f \in Files : f = s.seed
  BY <1>2
<1>4. Len(f) \in Nat /\ DOMAIN f = 1..Len(f) /\ \A k \in DOMAIN f : f[k].kind # "assignment"
  BY FileFacts
<1>5. DOMAIN records = 1..Len(f) /\ records = [i \in DOMAIN records |-> records[i]]
  BY <1>1, <1>3, <1>4
<1>6. AnySequence(records)
  BY <1>4, <1>5, SequenceFacts
<1>7. \A i \in DOMAIN records : records[i].kind # "assignment" /\ records[i].seen = 0
  BY <1>1, <1>3, <1>4 DEF Event
<1>8. DOMAIN plan = {} /\ plan = [e \in DOMAIN plan |-> plan[e]]
  BY DEF PilotInit
<1>9. PilotTyped
  BY <1>1, <1>2, <1>6, <1>7, <1>8 DEF PilotInit, PilotTyped, OfAPlan, CallerFine
<1>10. ClashOnlyByOverlap
  BY <1>4, <1>5, <1>7 DEF ClashOnlyByOverlap
<1> QED
  BY <1>8, <1>9, <1>10 DEF PilotInit, PilotInv, WithinPlanWithPending, ImportedIsOnRecord

LEMMA PilotStep ==
  ASSUME PilotInv, [PilotNext]_pilotVars
  PROVE  PilotInv'
<1>1. CASE UNCHANGED pilotVars
  <2>1. records' = records /\ plan' = plan /\ running' = running /\ imported' = imported /\ work' = work
    BY <1>1 DEF pilotVars
  <2>2. PilotTyped'
    <3>1. \A r : OfAPlan(r)' <=> OfAPlan(r)
      BY <2>1 DEF OfAPlan
    <3>2. \A c : CallerFine(c)' <=> CallerFine(c)
      BY <2>1 DEF CallerFine, HasRead, IsToAppend, ClashesOnlyLater, OfAPlan, ImportedBefore, FileHas
    <3> QED
      BY <2>1, <3>1, <3>2 DEF PilotInv, PilotTyped
  <2>3. ClashOnlyByOverlap' /\ ImportedIsOnRecord'
    BY <2>1 DEF PilotInv, ClashOnlyByOverlap, ImportedIsOnRecord
  <2>4. WithinPlanWithPending'
    BY <2>1 DEF PilotInv, WithinPlanWithPending, AssignedIn, PendingOf, Pends
  <2> QED
    BY <2>2, <2>3, <2>4 DEF PilotInv
<1>2. CASE PilotNext
  <2>1. PICK p \in Callers : Caller(p)
    BY <1>2 DEF PilotNext
  <2>2. work' = work
    BY <1>2 DEF PilotNext
  <2>3. CASE Run(p)
    BY <2>2, <2>3, RunMoves
  <2>4. CASE Import(p)
    BY <2>2, <2>4, ImportMoves
  <2>5. CASE ShadowRecommend(p)
    BY <2>2, <2>5, ShadowMoves
  <2>6. CASE PreregisterExperiment(p)
    BY <2>2, <2>6, PreregisterMoves
  <2>7. CASE AssignOffer(p)
    BY <2>2, <2>7, AssignMoves
  <2>8. CASE RecordResult(p)
    BY <2>2, <2>8, ResultMoves
  <2>9. CASE AppendRecord(p)
    BY <2>2, <2>9, AppendMoves
  <2>10. CASE Die(p)
    BY <2>2, <2>10, FinishMoves DEF Die
  <2> QED
    BY <2>1, <2>3, <2>4, <2>5, <2>6, <2>7, <2>8, <2>9, <2>10 DEF Caller
<1> QED
  BY <1>1, <1>2

\* The state of the ledger and of the callers between any two steps: what a caller is about
\* to append contradicts no record that it has read, and the assignments on record and under
\* way pass a plan by one fewer than there are callers (counterpilot.py).
THEOREM PilotInvariant == PilotSpec => []PilotInv
<1> QED
  BY PilotStarts, PilotStep, PTL DEF PilotSpec

\* For every number of callers, files and experiments, records that contradict each other
\* were written by commands that overlapped, and the limit of an experiment is passed by
\* one fewer than there are callers at most (counterpilot_experiment_assign).
THEOREM PilotProtocolKept == PilotSpec => []ProtocolKept
<1>1. PilotInv => ProtocolKept
  <2> SUFFICES ASSUME PilotInv, NEW e \in DOMAIN plan
               PROVE  Cardinality(AssignedIn(e)) <= plan[e] + Cardinality(Callers) - 1
    BY DEF PilotInv, ProtocolKept, WithinPlan
  <2>1. AnySequence(records) /\ plan[e] \in Nat
    BY DEF PilotInv, PilotTyped
  <2>2. Cardinality(AssignedIn(e)) \in Nat /\ Cardinality(PendingOf(e)) \in Nat /\ Cardinality(Callers) \in Nat
    BY <2>1, AssignedFinite, PendingFinite
  <2>3. Cardinality(AssignedIn(e)) + Cardinality(PendingOf(e)) <= plan[e] + Cardinality(Callers) - 1
    BY DEF PilotInv, WithinPlanWithPending
  <2> QED
    BY <2>1, <2>2, <2>3
<1> QED
  BY <1>1, PilotInvariant, PTL

\* For every file and whoever imports at the same time, a finished import has left each of
\* its events in the ledger (ingest_counterpilot_events).
THEOREM PilotImportedIsOnRecord == PilotSpec => []ImportedIsOnRecord
<1>1. PilotInv => ImportedIsOnRecord
  BY DEF PilotInv
<1> QED
  BY <1>1, PilotInvariant, PTL
=============================================================================
