------------------------ MODULE ResearchSide_proofs ------------------------
(***************************************************************************)
(* What holds of a locked ledger, of the ledgers of money, of experiments  *)
(* and of consent, of the seller pilot and of OfferLab's research          *)
(* campaigns for any number of processes, records and files.  The          *)
(* components share no state: each has its own part, with the inductive    *)
(* invariant, its steps and its theorems.  For the ledger that is mutual   *)
(* exclusion and the unbroken chain, as long as no lock of a living        *)
(* process was broken.                                                     *)
(***************************************************************************)
EXTENDS LedgerLock, MoneyLedger, SellerPilot, ExperimentScheduler, OfferLabResearch,
        ConsentLedger, FoldFacts

-----------------------------------------------------------------------------
(* The lock and the chain of a ledger.                                     *)

\* Whoever is in the critical section created the file that is at the path.
LockInv == ~robbed => \A p \in Procs : Holds(p) => lock.owner = p

\* b continues the chain of the ledger, with ids that are new to it.
Continues(b) ==
  /\ \A i \in DOMAIN b : b[i].prev = IF i = 1 THEN LastHash ELSE HashOf(b[i - 1])
  /\ \A i, k \in DOMAIN b : b[i].id = b[k].id => i = k
  /\ \A i \in DOMAIN b : \A k \in DOMAIN records : records[k].id # b[i].id

\* What is about to be written continues the chain, with new ids.
WriteInv ==
  ~robbed => \A p \in Procs : pc[p] = "write" =>
    Continues(bodies[p])

LedgerInv == TypeOK /\ LockInv /\ WriteInv /\ ChainKept

StepTypes == Inside \cup Waiting \cup {"idle", "dead"}
LockType  == [owner : Procs, stamped : BOOLEAN, aged : BOOLEAN] \cup {NoLock}

\* What an append builds is a batch of records.
LEMMA BodiesType ==
  ASSUME TypeOK, NEW p \in Procs, NEW ids \in Batches
  PROVE  /\ Bodies(p, ids) \in Seq(Record)
         /\ DOMAIN Bodies(p, ids) = DOMAIN ids
         /\ \A i \in DOMAIN ids :
              /\ Bodies(p, ids)[i].id = ids[i]
              /\ HashOf(Bodies(p, ids)[i]) = <<p, Len(records) + i>>
              /\ Bodies(p, ids)[i].prev =
                   IF i = 1 THEN LastHash ELSE <<p, Len(records) + (i - 1)>>
<1> DEFINE n == Len(ids)
<1>1. ids \in Seq(Ids) /\ n \in Nat /\ DOMAIN ids = 1..n
  BY BatchesAssumption
<1>2. records \in Seq(Record) /\ Len(records) \in Nat
  BY DEF TypeOK
<1>3. LastHash \in Hashes
  <2>1. CASE records = <<>>
    BY <2>1 DEF LastHash, Hashes
  <2>2. CASE records # <<>>
    <3>1. Len(records) \in 1..Len(records)
      BY <1>2, <2>2
    <3>2. records[Len(records)] \in Record
      BY <1>2, <3>1
    <3> QED BY <2>2, <3>2 DEF LastHash, HashOf, Hashes, Record
  <2> QED BY <2>1, <2>2
<1>4. \A i \in 1..n : Bodies(p, ids)[i] \in Record
  <2> SUFFICES ASSUME NEW i \in 1..n PROVE Bodies(p, ids)[i] \in Record
    OBVIOUS
  <2>1. ids[i] \in Ids /\ Len(records) + i \in Nat
    BY <1>1, <1>2
  <2>2. (IF i = 1 THEN LastHash ELSE <<p, Len(records) + (i - 1)>>) \in Hashes
    <3>1. CASE i = 1
      BY <1>3, <3>1
    <3>2. CASE i # 1
      <4>1. Len(records) + (i - 1) \in Nat
        BY <1>1, <1>2, <3>2
      <4> QED BY <3>2, <4>1 DEF Hashes
    <3> QED BY <3>1, <3>2
  <2> QED BY <1>1, <2>1, <2>2 DEF Bodies, Record
<1>5. DOMAIN Bodies(p, ids) = 1..n
  BY <1>1 DEF Bodies
<1>6. Bodies(p, ids) \in Seq(Record)
  BY <1>1, <1>4, <1>5, Bodies(p, ids) = [i \in 1..n |-> Bodies(p, ids)[i]] DEF Bodies
<1> QED
  BY <1>1, <1>5, <1>6 DEF Bodies, HashOf

\* A sequence followed by the first n elements of another.
LEMMA ConcatStart ==
  ASSUME NEW S, NEW s \in Seq(S), NEW t \in Seq(S), NEW n \in 0..Len(t)
  PROVE  /\ s \o SubSeq(t, 1, n) \in Seq(S)
         /\ Len(s \o SubSeq(t, 1, n)) = Len(s) + n
         /\ \A i \in 1..Len(s) : (s \o SubSeq(t, 1, n))[i] = s[i]
         /\ \A i \in 1..n : (s \o SubSeq(t, 1, n))[Len(s) + i] = t[i]
<1> DEFINE b == SubSeq(t, 1, n)
<1>1. b \in Seq(S) /\ Len(b) = n /\ \A i \in 1..n : b[i] = t[i]
  OBVIOUS
<1> HIDE DEF b
<1>2. /\ s \o b \in Seq(S)
      /\ Len(s \o b) = Len(s) + n
      /\ \A i \in 1..(Len(s) + n) :
           (s \o b)[i] = IF i <= Len(s) THEN s[i] ELSE b[i - Len(s)]
  BY <1>1, ConcatProperties
<1>3. Len(s) \in Nat /\ n \in Nat
  OBVIOUS
<1>4. \A i \in 1..Len(s) : (s \o b)[i] = s[i]
  BY <1>2, <1>3
<1>5. \A i \in 1..n : (s \o b)[Len(s) + i] = b[i]
  <2> SUFFICES ASSUME NEW i \in 1..n PROVE (s \o b)[Len(s) + i] = b[i]
    OBVIOUS
  <2>1. Len(s) + i \in 1..(Len(s) + n) /\ ~(Len(s) + i <= Len(s)) /\ (Len(s) + i) - Len(s) = i
    BY <1>3
  <2> QED BY <1>2, <2>1
<1> QED BY <1>1, <1>2, <1>4, <1>5 DEF b

\* Part of a batch written: the ledger is still one of records, what it held
\* is in its place, and the rest is the start of the batch.
LEMMA WrittenRecords ==
  ASSUME TypeOK, NEW p \in Procs, NEW n \in 0..Len(bodies[p]), Written(p, n)
  PROVE  /\ records' \in Seq(Record) /\ torn' \in BOOLEAN
         /\ \/ records' = records
            \/ /\ Len(records') = Len(records) + n
               /\ \A i \in 1..Len(records) : records'[i] = records[i]
               /\ \A i \in 1..n : records'[Len(records) + i] = bodies[p][i]
<1>1. records \in Seq(Record) /\ bodies[p] \in Seq(Record) /\ torn \in BOOLEAN
  BY DEF TypeOK
<1>2. torn' \in BOOLEAN
  BY <1>1 DEF Written
<1>4. CASE torn
  BY <1>1, <1>2, <1>4 DEF Written
<1>5. CASE ~torn
  <2>1. records' = records \o SubSeq(bodies[p], 1, n)
    BY <1>5 DEF Written
  <2> QED BY <1>1, <1>2, <2>1, ConcatStart
<1> QED BY <1>1, <1>4, <1>5

\* Type correctness.
LEMMA InitType == Init => TypeOK
<1> SUFFICES ASSUME Init PROVE TypeOK
  OBVIOUS
<1>1. records \in Seq(Record) /\ bodies \in [Procs -> Seq(Record)]
  BY DEF Init
<1>2. pc \in [Procs -> Inside \cup Waiting \cup {"idle", "dead"}]
  BY DEF Init
<1>3. faults \in 0..MaxFaults
  BY LedgerBoundsAssumption DEF Init
<1> QED
  BY <1>1, <1>2, <1>3 DEF Init, TypeOK

\* One step of a process or of time keeps the types.
LEMMA NextType == TypeOK /\ [Next]_ledgerVars => TypeOK'
<1> SUFFICES ASSUME TypeOK, [Next]_ledgerVars PROVE TypeOK'
  OBVIOUS
<1> DEFINE File == [owner : Procs, stamped : BOOLEAN, aged : BOOLEAN]
<1>1. lock # NoLock => lock \in File
  BY DEF TypeOK
<1>2. \A p \in Procs : lock.owner = p => lock \in File
  BY NoProcAssumption DEF TypeOK, NoLock
<1>3. MaxFaults \in Nat
  BY LedgerBoundsAssumption
<1>4. \A p \in Procs : \A step \in StepTypes :
        [pc EXCEPT ![p] = step] \in [Procs -> StepTypes]
  BY DEF TypeOK, StepTypes
<1> USE DEF Goto
<1>5. ASSUME NEW p \in Procs, Open(p) PROVE TypeOK'
  <2>1. pc' \in [Procs -> StepTypes]
    BY <1>4, <1>5, "stamp" \in StepTypes, "stat" \in StepTypes
       DEF Open, StepTypes, Inside, Waiting
  <2>2. lock' \in File \cup {NoLock}
    <3>1. [owner |-> p, stamped |-> FALSE, aged |-> FALSE] \in File
      OBVIOUS
    <3>2. lock' = [owner |-> p, stamped |-> FALSE, aged |-> FALSE] \/ lock' = lock
      BY <1>5 DEF Open
    <3>3. lock \in File \cup {NoLock}
      BY DEF TypeOK
    <3> HIDE DEF File
    <3> QED BY <3>1, <3>2, <3>3
  <2> QED BY <1>5, <2>1, <2>2 DEF Open, TypeOK, StepTypes
<1>6. ASSUME NEW p \in Procs, Stamp(p) \/ StampFails(p) PROVE TypeOK'
  <2>1. pc' \in [Procs -> StepTypes]
    BY <1>4, <1>6, "scan" \in StepTypes, "idle" \in StepTypes
       DEF Stamp, StampFails, StepTypes, Inside, Waiting
  <2>2. lock' \in File \cup {NoLock}
    BY <1>2, <1>6 DEF Stamp, StampFails, TypeOK
  <2>3. faults' \in 0..MaxFaults
    BY <1>3, <1>6 DEF Stamp, StampFails, TypeOK
  <2> QED BY <1>6, <2>1, <2>2, <2>3 DEF Stamp, StampFails, TypeOK, StepTypes
<1>7. ASSUME NEW p \in Procs, Stat(p) \/ ReadOwner(p) PROVE TypeOK'
  <2>1. pc' \in [Procs -> StepTypes]
    BY <1>4, <1>7, "read" \in StepTypes, "idle" \in StepTypes, "unlink" \in StepTypes
       DEF Stat, ReadOwner, StepTypes, Inside, Waiting
  <2> QED BY <1>7, <2>1 DEF Stat, ReadOwner, TypeOK, StepTypes
<1>8. ASSUME NEW p \in Procs, Break(p) PROVE TypeOK'
  <2>1. pc' \in [Procs -> StepTypes]
    BY <1>4, <1>8 DEF Break, StepTypes
  <2>2. robbed' \in BOOLEAN
    BY <1>8 DEF Break, TypeOK, Holds
  <2> QED BY <1>8, <2>1, <2>2 DEF Break, TypeOK, StepTypes
<1>9. ASSUME NEW p \in Procs, Scan(p) PROVE TypeOK'
  <2>1. pc' \in [Procs -> StepTypes]
    BY <1>4, <1>9, "write" \in StepTypes, "release" \in StepTypes
       DEF Scan, StepTypes, Inside, Waiting
  <2>2. bodies' \in [Procs -> Seq(Record)]
    <3>1. \A ids \in Batches : Bodies(p, ids) \in Seq(Record)
      BY BodiesType
    <3>2. bodies \in [Procs -> Seq(Record)]
      BY DEF TypeOK
    <3> QED BY <1>9, <3>1, <3>2 DEF Scan
  <2> QED BY <1>9, <2>1, <2>2 DEF Scan, TypeOK, StepTypes
<1>10. ASSUME NEW p \in Procs, Release(p) PROVE TypeOK'
  <2>1. pc' \in [Procs -> StepTypes]
    BY <1>4, <1>10 DEF Release, StepTypes
  <2>2. bodies' \in [Procs -> Seq(Record)]
    BY <1>10 DEF Release, TypeOK
  <2> QED BY <1>10, <2>1, <2>2 DEF Release, TypeOK, StepTypes
<1>11. ASSUME NEW p \in Procs, Write(p) \/ WriteFails(p) \/ Die(p) PROVE TypeOK'
  <2>1. pc' \in [Procs -> StepTypes]
    BY <1>4, <1>11, "dead" \in StepTypes, "release" \in StepTypes
       DEF Write, WriteFails, Die, StepTypes, Inside, Waiting
  <2>2. faults' \in 0..MaxFaults
    BY <1>3, <1>11 DEF Write, WriteFails, Die, TypeOK
  <2>3. Len(bodies[p]) \in 0..Len(bodies[p]) /\ 0..(Len(bodies[p]) - 1) \subseteq 0..Len(bodies[p])
    BY DEF TypeOK
  <2>4. (\E n \in 0..Len(bodies[p]) : Written(p, n)) \/ UNCHANGED <<records, torn>>
    BY <1>11, <2>3 DEF Write, WriteFails, Die
  <2>5. records' \in Seq(Record) /\ torn' \in BOOLEAN
    BY <2>4, WrittenRecords DEF TypeOK
  <2> QED BY <1>11, <2>1, <2>2, <2>5 DEF Write, WriteFails, Die, TypeOK, StepTypes
<1>12. CASE Age
  <2>1. lock' \in File
    BY <1>1, <1>12 DEF Age
  <2>2. faults' \in 0..MaxFaults
    BY <1>3, <1>12 DEF Age, TypeOK
  <2> QED BY <1>12, <2>1, <2>2 DEF Age, TypeOK
<1>13. CASE UNCHANGED ledgerVars
  BY <1>13 DEF ledgerVars, TypeOK
<1> QED
  BY <1>5, <1>6, <1>7, <1>8, <1>9, <1>10, <1>11, <1>12, <1>13 DEF Next, CallStep

\* Every variable keeps its type (LedgerLock!TypeOK).
THEOREM LedgerTypeOK == Spec => []TypeOK
BY InitType, NextType, PTL DEF Spec

\* The lock.

LEMMA InitInv == Init => LockInv /\ WriteInv /\ ChainKept
BY DEF Init, LockInv, WriteInv, ChainKept, Holds, Inside, Unbroken

\* No step takes the lock from a process inside without a trace in robbed.
LEMMA NextLock == TypeOK /\ LockInv /\ [Next]_ledgerVars => LockInv'
<1> SUFFICES ASSUME TypeOK, LockInv, [Next]_ledgerVars, ~robbed',
                    NEW q \in Procs, Holds(q)'
             PROVE  lock'.owner = q
  BY DEF LockInv
<1>1. ~robbed /\ pc \in [Procs -> StepTypes] /\ pc'[q] \in Inside
  <2>1. ~robbed
    BY DEF Next, CallStep, Open, Stamp, StampFails, Stat, ReadOwner, Break, Scan,
           Write, WriteFails, Release, Die, Age, ledgerVars
  <2> QED BY <2>1 DEF TypeOK, Holds, StepTypes
<1>2. \A p \in Procs : pc[p] \in Inside => lock.owner = p
  BY <1>1 DEF LockInv, Holds
<1>3. ASSUME NEW p \in Procs, Open(p) PROVE lock'.owner = q
  <2>1. CASE lock = NoLock
    <3>1. q = p
      <4>1. pc[q] \notin Inside
        BY <1>2, <2>1, NoProcAssumption DEF NoLock
      <4> QED BY <1>1, <1>3, <4>1 DEF Open, Goto
    <3> QED BY <1>3, <2>1, <3>1 DEF Open
  <2>2. CASE lock # NoLock
    <3>1. pc[q] \in Inside
      BY <1>1, <1>3, <2>2 DEF Open, Goto, Inside
    <3> QED BY <1>2, <1>3, <2>2, <3>1 DEF Open
  <2> QED BY <2>1, <2>2
<1>4. ASSUME NEW p \in Procs, Stamp(p) \/ StampFails(p) PROVE lock'.owner = q
  <2>1. pc[q] \in Inside
    BY <1>1, <1>4 DEF Stamp, StampFails, Goto, Inside
  <2>2. lock'.owner = lock.owner
    <3>1. lock' = lock \/ (lock.owner = p /\ lock' = [lock EXCEPT !.stamped = TRUE, !.aged = FALSE])
      BY <1>4 DEF Stamp, StampFails
    <3>2. lock \in [owner : Procs, stamped : BOOLEAN, aged : BOOLEAN] \cup {NoLock}
      BY DEF TypeOK
    <3> QED BY <3>1, <3>2, NoProcAssumption DEF NoLock
  <2> QED BY <1>2, <2>1, <2>2
<1>5. ASSUME NEW p \in Procs,
             Stat(p) \/ ReadOwner(p) \/ Scan(p) \/ Write(p) \/ WriteFails(p) \/ Die(p)
      PROVE  lock'.owner = q
  <2>1. pc[q] \in Inside
    BY <1>1, <1>5 DEF Stat, ReadOwner, Scan, Write, WriteFails, Die, Goto, Inside
  <2>2. lock' = lock
    BY <1>5 DEF Stat, ReadOwner, Scan, Write, WriteFails, Die
  <2> QED BY <1>2, <2>1, <2>2
<1>6. ASSUME NEW p \in Procs, Break(p) PROVE lock'.owner = q
  <2>1. pc[q] \in Inside
    BY <1>1, <1>6 DEF Break, Goto, Inside
  <2>2. lock.owner = q
    BY <1>2, <2>1
  <2>3. ~Holds(lock.owner)
    BY <1>6 DEF Break
  <2> QED BY <2>1, <2>2, <2>3 DEF Holds
<1>7. ASSUME NEW p \in Procs, Release(p) PROVE lock'.owner = q
  <2>1. pc[q] \in Inside /\ q # p
    BY <1>1, <1>7 DEF Release, Goto, Inside
  <2>2. pc[p] \in Inside
    BY <1>7 DEF Release, Inside
  <2> QED BY <1>2, <2>1, <2>2
<1>8. CASE Age
  <2>1. pc[q] \in Inside
    BY <1>1, <1>8 DEF Age
  <2>2. lock'.owner = lock.owner
    BY <1>8 DEF Age, TypeOK
  <2> QED BY <1>2, <2>1, <2>2
<1>9. CASE UNCHANGED ledgerVars
  BY <1>1, <1>2, <1>9 DEF ledgerVars
<1> QED
  BY <1>3, <1>4, <1>5, <1>6, <1>7, <1>8, <1>9 DEF Next, CallStep

\* The chain.

UniqueIds == \A i, k \in DOMAIN records : records[i].id = records[k].id => i = k

\* The records an append builds continue the chain.
LEMMA BodiesContinue ==
  ASSUME TypeOK, NEW p \in Procs, NEW ids \in Batches, ~Duplicates(ids)
  PROVE  Continues(Bodies(p, ids))
<1> DEFINE b == Bodies(p, ids)
<1>1. /\ DOMAIN b = DOMAIN ids
      /\ \A i \in DOMAIN ids :
           /\ b[i].id = ids[i]
           /\ HashOf(b[i]) = <<p, Len(records) + i>>
           /\ b[i].prev = IF i = 1 THEN LastHash ELSE <<p, Len(records) + (i - 1)>>
  BY BodiesType
<1> HIDE DEF b
<1>2. ASSUME NEW i \in DOMAIN b
      PROVE  b[i].prev = IF i = 1 THEN LastHash ELSE HashOf(b[i - 1])
  <2>1. CASE i = 1
    BY <1>1, <1>2, <2>1
  <2>2. CASE i # 1
    <3>1. i - 1 \in DOMAIN ids
      BY <1>1, <1>2, <2>2, BatchesAssumption
    <3> QED BY <1>1, <1>2, <2>2, <3>1
  <2> QED BY <2>1, <2>2
<1>3. ASSUME NEW i \in DOMAIN b, NEW k \in DOMAIN b, b[i].id = b[k].id
      PROVE  i = k
  <2>1. i \in DOMAIN ids /\ k \in DOMAIN ids /\ ids[i] = ids[k]
    BY <1>1, <1>3
  <2> QED BY <2>1 DEF Duplicates
<1>4. ASSUME NEW i \in DOMAIN b, NEW k \in DOMAIN records
      PROVE  records[k].id # b[i].id
  <2>1. i \in DOMAIN ids /\ b[i].id = ids[i]
    BY <1>1, <1>4
  <2> QED BY <2>1 DEF Duplicates
<1>5. Continues(b)
  BY <1>2, <1>3, <1>4 DEF Continues
<1> QED BY <1>5 DEF b

\* The start of such a batch, written, leaves an unbroken chain.
LEMMA WrittenContinues ==
  ASSUME TypeOK, NEW p \in Procs, NEW n \in 0..Len(bodies[p]), Written(p, n),
         Unbroken, UniqueIds, Continues(bodies[p])
  PROVE  Unbroken' /\ UniqueIds'
<1> DEFINE b == bodies[p]
           m == Len(records)
<1>1. records \in Seq(Record) /\ b \in Seq(Record) /\ m \in Nat /\ n \in Nat
      /\ DOMAIN records = 1..m /\ n <= Len(b) /\ DOMAIN b = 1..Len(b) /\ Len(b) \in Nat
  BY DEF TypeOK
<1>2. CASE records' = records
  BY <1>2 DEF Unbroken, UniqueIds
<1>3. CASE /\ Len(records') = m + n
           /\ \A i \in 1..m : records'[i] = records[i]
           /\ \A i \in 1..n : records'[m + i] = b[i]
  <2>1. DOMAIN records' = 1..(m + n)
    BY <1>1, <1>3, WrittenRecords
  <2>2. \A i \in 1..(m + n) : i \in 1..m \/ (i - m \in 1..n /\ i - m \in DOMAIN b /\ m + (i - m) = i)
    BY <1>1
  <2>3. \A i \in 1..(m + n) : i \notin 1..m => records'[i] = b[i - m]
    BY <1>3, <2>2
  <2>4. ASSUME NEW i \in 1..(m + n)
        PROVE  records'[i].prev = IF i = 1 THEN Genesis ELSE HashOf(records'[i - 1])
    <3>1. CASE i \in 1..m
      <4>1. i # 1 => i - 1 \in 1..m
        BY <1>1, <3>1
      <4> QED BY <1>1, <1>3, <3>1, <4>1 DEF Unbroken
    <3>2. CASE i \notin 1..m /\ i = m + 1
      <4>1. records'[i] = b[1] /\ 1 \in DOMAIN b
        BY <1>1, <2>2, <2>3, <3>2
      <4>2. b[1].prev = LastHash
        BY <4>1 DEF Continues
      <4>3. CASE m = 0
        BY <1>1, <3>2, <4>1, <4>2, <4>3 DEF LastHash
      <4>4. CASE m # 0
        <5>1. i # 1 /\ i - 1 = m /\ m \in 1..m /\ records # <<>>
          BY <1>1, <3>2, <4>4
        <5> QED BY <1>3, <4>1, <4>2, <5>1 DEF LastHash
      <4> QED BY <4>3, <4>4
    <3>3. CASE i \notin 1..m /\ i # m + 1
      <4>1. i - 1 \in 1..(m + n) /\ i - 1 \notin 1..m /\ (i - 1) - m = (i - m) - 1
            /\ i # 1 /\ i - m # 1 /\ i - m \in DOMAIN b
        <5>1. i - m \in DOMAIN b
          BY <2>2, <3>3
        <5>2. i - 1 \in 1..(m + n) /\ i - 1 \notin 1..m /\ (i - 1) - m = (i - m) - 1 /\ i # 1 /\ i - m # 1
          <6>1. m \in Nat /\ n \in Nat
            BY <1>1
          <6> HIDE DEF m
          <6> QED
            BY <3>3, <6>1
        <5> QED
          BY <5>1, <5>2
      <4>2. b[i - m].prev = HashOf(b[(i - m) - 1])
        BY <4>1 DEF Continues
      <4>3. records'[i - 1] = b[(i - m) - 1]
        BY <2>3, <4>1
      <4> QED BY <2>3, <3>3, <4>1, <4>2, <4>3
    <3> QED BY <3>1, <3>2, <3>3
  <2>5. ASSUME NEW i \in 1..(m + n), NEW k \in 1..(m + n), records'[i].id = records'[k].id
        PROVE  i = k
    <3>1. CASE i \in 1..m /\ k \in 1..m
      BY <1>1, <1>3, <2>5, <3>1 DEF UniqueIds
    <3>2. CASE i \notin 1..m /\ k \notin 1..m
      <4>1. i - m \in DOMAIN b /\ k - m \in DOMAIN b /\ b[i - m].id = b[k - m].id
        BY <2>2, <2>3, <2>5, <3>2
      <4>2. i - m = k - m
        BY <4>1 DEF Continues
      <4> QED BY <1>1, <4>2
    <3>3. CASE i \in 1..m /\ k \notin 1..m
      <4>1. i \in DOMAIN records /\ k - m \in DOMAIN b /\ records[i].id = b[k - m].id
        BY <1>1, <1>3, <2>2, <2>3, <2>5, <3>3
      <4> QED BY <4>1 DEF Continues
    <3>4. CASE i \notin 1..m /\ k \in 1..m
      <4>1. k \in DOMAIN records /\ i - m \in DOMAIN b /\ records[k].id = b[i - m].id
        BY <1>1, <1>3, <2>2, <2>3, <2>5, <3>4
      <4> QED BY <4>1 DEF Continues
    <3> QED BY <3>1, <3>2, <3>3, <3>4
  <2>6. Unbroken'
    BY <2>1, <2>4 DEF Unbroken, HashOf
  <2>7. UniqueIds'
    BY <2>1, <2>5 DEF UniqueIds
  <2> QED BY <2>6, <2>7
<1> QED BY <1>2, <1>3, WrittenRecords

\* Every step keeps the chain, and what a process in "write" relies on.
LEMMA NextChain ==
  TypeOK /\ LockInv /\ WriteInv /\ ChainKept /\ [Next]_ledgerVars => WriteInv' /\ ChainKept'
<1> SUFFICES ASSUME TypeOK, LockInv, WriteInv, ChainKept, [Next]_ledgerVars, ~robbed'
             PROVE  /\ \A q \in Procs : pc'[q] = "write" => Continues(bodies[q])'
                    /\ Unbroken' /\ UniqueIds'
  BY DEF WriteInv, ChainKept, UniqueIds
<1>1. ~robbed /\ pc \in [Procs -> StepTypes] /\ bodies \in [Procs -> Seq(Record)]
  <2>1. ~robbed
    BY DEF Next, CallStep, Open, Stamp, StampFails, Stat, ReadOwner, Break, Scan,
           Write, WriteFails, Release, Die, Age, ledgerVars
  <2> QED BY <2>1 DEF TypeOK, StepTypes
<1>2. Unbroken /\ UniqueIds
  BY <1>1 DEF ChainKept, UniqueIds
<1>3. \A q \in Procs : pc[q] = "write" => Continues(bodies[q])
  BY <1>1 DEF WriteInv
<1>4. ASSUME UNCHANGED records, NEW q \in Procs, bodies'[q] = bodies[q], Continues(bodies[q])
      PROVE  Continues(bodies[q])'
  BY <1>4 DEF Continues, LastHash, HashOf
<1>5. UNCHANGED records => Unbroken' /\ UniqueIds'
  BY <1>2 DEF Unbroken, UniqueIds
<1>6. ASSUME NEW p \in Procs,
             \/ Open(p) \/ Stamp(p) \/ StampFails(p) \/ Stat(p) \/ ReadOwner(p)
             \/ Break(p) \/ Release(p)
      PROVE  /\ \A q \in Procs : pc'[q] = "write" => Continues(bodies[q])'
             /\ Unbroken' /\ UniqueIds'
  <2>1. UNCHANGED records
    BY <1>6 DEF Open, Stamp, StampFails, Stat, ReadOwner, Break, Release
  <2>2. ASSUME NEW q \in Procs, pc'[q] = "write"
        PROVE  pc[q] = "write" /\ bodies'[q] = bodies[q]
    BY <1>1, <1>6, <2>2
       DEF Open, Stamp, StampFails, Stat, ReadOwner, Break, Release, Goto
  <2> QED BY <1>3, <1>4, <1>5, <2>1, <2>2
<1>7. ASSUME NEW p \in Procs, Scan(p)
      PROVE  /\ \A q \in Procs : pc'[q] = "write" => Continues(bodies[q])'
             /\ Unbroken' /\ UniqueIds'
  <2>1. UNCHANGED records
    BY <1>7 DEF Scan
  <2>2. ASSUME NEW q \in Procs, pc'[q] = "write", q # p
        PROVE  Continues(bodies[q])'
    <3>1. pc[q] = "write" /\ bodies'[q] = bodies[q]
      BY <1>1, <1>7, <2>2 DEF Scan, Goto
    <3> QED BY <1>3, <1>4, <2>1, <3>1
  <2>3. ASSUME pc'[p] = "write"
        PROVE  Continues(bodies[p])'
    <3>1. PICK ids \in Batches : ~Duplicates(ids) /\ bodies'[p] = Bodies(p, ids)
      BY <1>1, <1>7, <2>3 DEF Scan, Goto
    <3>2. Continues(Bodies(p, ids))
      BY <3>1, BodiesContinue
    <3>3. Continues(bodies'[p])
      BY <3>1, <3>2
    <3> QED BY <2>1, <3>3 DEF Continues, LastHash, HashOf
  <2> QED BY <1>5, <2>1, <2>2, <2>3
<1>8. ASSUME NEW p \in Procs, Write(p) \/ WriteFails(p) \/ (Die(p) /\ pc[p] = "write")
      PROVE  /\ \A q \in Procs : pc'[q] = "write" => Continues(bodies[q])'
             /\ Unbroken' /\ UniqueIds'
  <2>1. pc[p] = "write"
    BY <1>8 DEF Write, WriteFails
  <2>2. ASSUME NEW q \in Procs PROVE pc'[q] # "write"
    <3>1. CASE q = p
      BY <1>1, <1>8, <3>1 DEF Write, WriteFails, Die, Goto
    <3>2. CASE q # p
      <4>1. pc[q] = "write" => lock.owner = q /\ lock.owner = p
        BY <1>1, <2>1 DEF LockInv, Holds, Inside
      <4>2. pc'[q] = pc[q]
        BY <1>1, <1>8, <3>2 DEF Write, WriteFails, Die, Goto
      <4> QED BY <3>2, <4>1, <4>2
    <3> QED BY <3>1, <3>2
  <2>3. Len(bodies[p]) \in 0..Len(bodies[p]) /\ 0..(Len(bodies[p]) - 1) \subseteq 0..Len(bodies[p])
    BY <1>1
  <2>4. PICK n \in 0..Len(bodies[p]) : Written(p, n)
    BY <1>8, <2>3 DEF Write, WriteFails, Die
  <2>5. Unbroken' /\ UniqueIds'
    BY <1>2, <1>3, <2>1, <2>4, WrittenContinues
  <2> QED BY <2>2, <2>5
<1>9. ASSUME NEW p \in Procs, Die(p), pc[p] # "write"
      PROVE  /\ \A q \in Procs : pc'[q] = "write" => Continues(bodies[q])'
             /\ Unbroken' /\ UniqueIds'
  <2>1. UNCHANGED records
    BY <1>9 DEF Die
  <2>2. ASSUME NEW q \in Procs, pc'[q] = "write"
        PROVE  pc[q] = "write" /\ bodies'[q] = bodies[q]
    BY <1>1, <1>9, <2>2 DEF Die, Goto
  <2> QED BY <1>3, <1>4, <1>5, <2>1, <2>2
<1>10. CASE Age \/ UNCHANGED ledgerVars
  <2>1. UNCHANGED <<records, pc, bodies>>
    BY <1>10 DEF Age, ledgerVars
  <2> QED BY <1>3, <1>4, <1>5, <2>1
<1> QED
  BY <1>6, <1>7, <1>8, <1>9, <1>10 DEF Next, CallStep

\* The invariants together: types, the lock, what is about to be written, and
\* the chain.
THEOREM LedgerInvariant == Spec => []LedgerInv
<1>1. Init => LedgerInv
  BY InitType, InitInv DEF LedgerInv
<1>2. LedgerInv /\ [Next]_ledgerVars => LedgerInv'
  BY NextType, NextLock, NextChain DEF LedgerInv
<1> QED BY <1>1, <1>2, PTL DEF Spec

\* Two processes are never inside together unless one of them was robbed of
\* its lock (_ExclusiveFileLock).
THEOREM LedgerExclusive == Spec => []Exclusive
<1>1. LedgerInv => Exclusive
  BY DEF LedgerInv, LockInv, Exclusive
<1> QED BY <1>1, LedgerInvariant, PTL

\* Under the same condition the chain is unbroken and every record id is
\* unique, for batches of any length and writes cut short at any place
\* (append_guarded, append_many_guarded).
THEOREM LedgerChainKept == Spec => []ChainKept
<1>1. LedgerInv => ChainKept
  BY DEF LedgerInv
<1> QED BY <1>1, LedgerInvariant, PTL

-----------------------------------------------------------------------------
(* The money ledger.                                                       *)

MoneyEntries ==
  [decision : Decisions, forecast : Forecasts, state : EvidenceStates, outcome : Outcomes \cup {"none"},
   supersedes : Nat, reason : BOOLEAN, by : {"entry", "correction", "resolution"}]

MoneyTypeOK ==
  /\ entries \in Seq(MoneyEntries)
  /\ draft \in [Bookkeepers -> {NoDraft} \cup [ready : {TRUE}, entry : MoneyEntries]]

\* The entries of a decision before the i-th entry, and 0 for none.
Before(i, d) == {0} \cup {j \in 1..i-1 : entries[j].decision = d}

\* Every decision has a last one among them.
LastExists ==
  \A i \in 1..Len(entries)+1, d \in Decisions :
    \E m \in Before(i, d) : \A j \in Before(i, d) : j <= m

MoneyInv == MoneyTypeOK /\ LastExists /\ HistoryLinked

\* What Max returns for a set of positions that has a greatest.
LEMMA MaxIsGreatest ==
  ASSUME NEW S, S \subseteq Nat, \E m \in S : \A j \in S : j <= m
  PROVE  Max(S) \in S /\ \A j \in S : j <= Max(S)
<1>1. PICK m \in S : \A j \in S : j <= m
  OBVIOUS
<1>2. \E x \in S : \A y \in S : x >= y
  BY <1>1
<1> QED
  BY <1>2 DEF Max

\* The latest entry of a decision is the last one before the next to come.
LEMMA LatestIsLast ==
  ASSUME MoneyTypeOK, LastExists, NEW d \in Decisions
  PROVE  /\ LatestEntry(d) \in Before(Len(entries) + 1, d)
         /\ \A j \in Before(Len(entries) + 1, d) : j <= LatestEntry(d)
         /\ LatestEntry(d) \in 0..Len(entries)
<1>1. Len(entries) \in Nat /\ DOMAIN entries = 1..Len(entries)
  BY DEF MoneyTypeOK
<1>2. {0} \cup {i \in DOMAIN entries : entries[i].decision = d} = Before(Len(entries) + 1, d)
  BY <1>1 DEF Before
<1>3. Before(Len(entries) + 1, d) \subseteq Nat
  BY <1>1 DEF Before
<1>4. \E m \in Before(Len(entries) + 1, d) : \A j \in Before(Len(entries) + 1, d) : j <= m
  BY <1>1 DEF LastExists
<1>5. LatestEntry(d) = Max(Before(Len(entries) + 1, d))
  BY <1>2 DEF LatestEntry
<1>6. /\ LatestEntry(d) \in Before(Len(entries) + 1, d)
      /\ \A j \in Before(Len(entries) + 1, d) : j <= LatestEntry(d)
  BY <1>3, <1>4, <1>5, MaxIsGreatest
<1> QED
  BY <1>1, <1>6 DEF Before

\* A ledger without entries has nothing to link.
LEMMA MoneyInitInv == MoneyInit => MoneyInv
<1> SUFFICES ASSUME MoneyInit PROVE MoneyInv
  OBVIOUS
<1>1. MoneyTypeOK
  BY DEF MoneyInit, MoneyTypeOK
<1>2. \A d \in Decisions : Before(1, d) = {0}
  BY DEF Before
<1>3. LastExists
  BY <1>2 DEF MoneyInit, LastExists
<1>4. HistoryLinked
  BY DEF MoneyInit, HistoryLinked
<1> QED
  BY <1>1, <1>3, <1>4 DEF MoneyInv

\* A draft that is ready holds an entry.
LEMMA DraftIsEntry ==
  ASSUME MoneyTypeOK, NEW p \in Bookkeepers, draft[p].ready
  PROVE  draft[p].entry \in MoneyEntries
<1>1. draft[p] # NoDraft
  BY DEF NoDraft
<1>2. draft[p] \in [ready : {TRUE}, entry : MoneyEntries]
  BY <1>1 DEF MoneyTypeOK
<1> QED
  BY <1>2

\* What is about to be appended is an entry.
LEMMA MoneyTypeStep == MoneyInv /\ [MoneyNext]_moneyVars => MoneyTypeOK'
<1> SUFFICES ASSUME MoneyInv, [MoneyNext]_moneyVars PROVE MoneyTypeOK'
  OBVIOUS
<1> USE DEF MoneyInv
<1>1. ASSUME NEW p \in Bookkeepers, NEW e \in MoneyEntries, Build(p, e), UNCHANGED entries
      PROVE  MoneyTypeOK'
  BY <1>1 DEF Build, MoneyTypeOK
<1>2. ASSUME NEW d \in Decisions PROVE LatestEntry(d) \in 0..Len(entries) /\ LatestEntry(d) \in Nat
  <2>1. LatestEntry(d) \in 0..Len(entries)
    BY LatestIsLast
  <2> QED
    BY <2>1 DEF MoneyTypeOK
<1>3. ASSUME NEW p \in Bookkeepers, ProposeEntry(p) PROVE MoneyTypeOK'
  <2>1. PICK d \in Decisions, f \in Forecasts, s \in InitialStates :
          Build(p, [decision |-> d, forecast |-> f, state |-> s, outcome |-> "none",
                    supersedes |-> 0, reason |-> FALSE, by |-> "entry"])
    BY <1>3 DEF ProposeEntry
  <2>2. [decision |-> d, forecast |-> f, state |-> s, outcome |-> "none",
         supersedes |-> 0, reason |-> FALSE, by |-> "entry"] \in MoneyEntries
    BY DEF MoneyEntries, EvidenceStates
  <2> QED
    BY <1>1, <1>3, <2>1, <2>2 DEF ProposeEntry
<1>4. ASSUME NEW p \in Bookkeepers, SupersedeEntry(p) PROVE MoneyTypeOK'
  <2>1. PICK d \in Decisions, f \in Forecasts, s \in EvidenceStates, v \in Outcomes \cup {"none"}, r \in BOOLEAN :
          Build(p, [decision |-> d, forecast |-> f, state |-> s, outcome |-> v,
                    supersedes |-> LatestEntry(d), reason |-> r,
                    by |-> IF r THEN "correction" ELSE "entry"])
    BY <1>4 DEF SupersedeEntry
  <2>2. [decision |-> d, forecast |-> f, state |-> s, outcome |-> v, supersedes |-> LatestEntry(d),
         reason |-> r, by |-> IF r THEN "correction" ELSE "entry"] \in MoneyEntries
    BY <1>2 DEF MoneyEntries
  <2> QED
    BY <1>1, <1>4, <2>1, <2>2 DEF SupersedeEntry
<1>5. ASSUME NEW p \in Bookkeepers, ResolveEntry(p) PROVE MoneyTypeOK'
  <2>1. PICK d \in Decisions, v \in Outcomes :
          /\ LatestEntry(d) # 0
          /\ Build(p, [entries[LatestEntry(d)] EXCEPT !.state = "resolved_paper", !.outcome = v,
                                                      !.supersedes = LatestEntry(d), !.by = "resolution"])
    BY <1>5 DEF ResolveEntry
  <2> DEFINE n == LatestEntry(d)
  <2>2. entries[n] \in MoneyEntries /\ n \in Nat
    BY <1>2, <2>1 DEF MoneyTypeOK
  <2> HIDE DEF n
  <2> DEFINE a == [entries[n] EXCEPT !.state = "resolved_paper"]
             b == [a EXCEPT !.outcome = v]
             c == [b EXCEPT !.supersedes = n]
             e == [c EXCEPT !.by = "resolution"]
  <2>3. a \in MoneyEntries
    BY <2>2 DEF MoneyEntries, EvidenceStates
  <2>4. b \in MoneyEntries
    <3> HIDE DEF a
    <3> QED BY <2>3 DEF MoneyEntries
  <2>5. c \in MoneyEntries
    <3> HIDE DEF b
    <3> QED BY <2>2, <2>4 DEF MoneyEntries
  <2>6. e \in MoneyEntries
    <3> HIDE DEF c
    <3> QED BY <2>5 DEF MoneyEntries
  <2>7. Build(p, e)
    BY <2>1 DEF n
  <2> HIDE DEF e
  <2> QED
    BY <1>1, <1>5, <2>6, <2>7 DEF ResolveEntry
<1>6. ASSUME NEW p \in Bookkeepers, AppendEntry(p) PROVE MoneyTypeOK'
  <2>1. draft[p].entry \in MoneyEntries
    BY <1>6, DraftIsEntry DEF AppendEntry
  <2>2. entries' \in Seq(MoneyEntries)
    BY <1>6, <2>1 DEF AppendEntry, MoneyTypeOK
  <2> QED
    BY <1>6, <2>2 DEF AppendEntry, MoneyTypeOK
<1>7. ASSUME NEW p \in Bookkeepers, AbandonEntry(p) PROVE MoneyTypeOK'
  BY <1>7 DEF AbandonEntry, MoneyTypeOK
<1>8. CASE UNCHANGED moneyVars
  BY <1>8 DEF moneyVars, MoneyTypeOK
<1> QED
  BY <1>3, <1>4, <1>5, <1>6, <1>7, <1>8 DEF MoneyNext

\* An admissible entry is linked to the last one of its decision, and so to all of them.
LEMMA AppendLinked ==
  ASSUME MoneyInv, NEW e \in MoneyEntries, Admissible(e), entries' = Append(entries, e)
  PROVE  LastExists' /\ HistoryLinked'
<1> USE DEF MoneyInv
<1> DEFINE n == Len(entries) + 1
           d == e.decision
           latest == LatestEntry(d)
<1>1. /\ n \in Nat \ {0} /\ Len(entries) \in Nat /\ Len(entries') = n /\ entries'[n] = e
      /\ \A j \in 1..n-1 : entries'[j] = entries[j]
      /\ DOMAIN entries' = 1..n /\ DOMAIN entries = 1..n-1
  BY DEF MoneyTypeOK
<1>2. d \in Decisions
  BY DEF MoneyEntries
<1>3. latest \in Before(n, d) /\ (\A j \in Before(n, d) : j <= latest) /\ latest \in 0..n-1
  BY <1>1, <1>2, LatestIsLast
<1>4. e.supersedes = latest /\ (latest # 0 => /\ e.forecast = entries[latest].forecast
                                              /\ entries[latest].state = "resolved_paper" => e.reason)
  BY DEF Admissible
<1> HIDE DEF latest, n
<1>5. \A i \in 1..n, c \in Decisions : Before(i, c)' = Before(i, c)
  BY <1>1 DEF Before
<1>6. LastExists'
  <2> SUFFICES ASSUME NEW i \in 1..n+1, NEW c \in Decisions
               PROVE  \E m \in Before(i, c)' : \A j \in Before(i, c)' : j <= m
    BY <1>1 DEF LastExists
  <2>1. CASE i \in 1..n
    BY <1>1, <1>5, <2>1 DEF LastExists, n
  <2>2. CASE i = n + 1
    <3>1. PICK m \in Before(n, c) : \A j \in Before(n, c) : j <= m
      BY <1>1 DEF LastExists, n
    <3>2. Before(i, c)' = IF c = d THEN Before(n, c) \cup {n} ELSE Before(n, c)
      BY <1>1, <2>2 DEF Before
    <3>3. \A j \in Before(n, c) : j <= n
      BY <1>1 DEF Before
    <3>4. n \in Nat /\ Before(n, c) \subseteq Nat
      BY <1>1 DEF Before
    <3>5. CASE c = d
      <4>1. n \in Before(i, c)' /\ \A j \in Before(i, c)' : j <= n
        BY <3>2, <3>3, <3>4, <3>5
      <4> QED
        BY <4>1
    <3>6. CASE c # d
      BY <3>1, <3>2, <3>6
    <3> QED
      BY <3>5, <3>6
  <2> QED
    BY <1>1, <2>1, <2>2
<1>7. HistoryLinked'
  <2> SUFFICES ASSUME NEW i \in 1..n
               PROVE  LET x == entries'[i]
                          earlier == {j \in 1..i-1 : entries'[j].decision = x.decision}
                      IN  /\ x.supersedes = Max({0} \cup earlier)
                          /\ \A j \in earlier : entries'[j].forecast = x.forecast
                          /\ earlier # {} /\ entries'[x.supersedes].state = "resolved_paper" => x.reason
    BY <1>1 DEF HistoryLinked
  <2>1. CASE i \in 1..n-1
    <3> DEFINE x == entries[i]
               earlier == {j \in 1..i-1 : entries[j].decision = x.decision}
    <3>1. entries'[i] = x /\ {j \in 1..i-1 : entries'[j].decision = x.decision} = earlier
      BY <1>1, <2>1
    <3>2. /\ x.supersedes = Max({0} \cup earlier)
          /\ \A j \in earlier : entries[j].forecast = x.forecast
          /\ earlier # {} /\ entries[x.supersedes].state = "resolved_paper" => x.reason
      BY <1>1, <2>1 DEF HistoryLinked
    <3>3. x.decision \in Decisions
      <4>1. i \in 1..Len(entries)
        BY <2>1 DEF n, MoneyTypeOK
      <4>2. entries[i] \in MoneyEntries
        BY <4>1 DEF MoneyTypeOK
      <4> QED
        BY <4>2 DEF MoneyEntries
    <3>4. {0} \cup earlier = Before(i, x.decision)
      BY DEF Before
    <3>5. Max(Before(i, x.decision)) \in Before(i, x.decision)
      <4>1. Before(i, x.decision) \subseteq Nat
        BY <1>1, <2>1 DEF Before
      <4>2. \E m \in Before(i, x.decision) : \A j \in Before(i, x.decision) : j <= m
        BY <1>1, <2>1, <3>3 DEF LastExists, n
      <4> QED
        BY <4>1, <4>2, MaxIsGreatest
    <3>6. earlier # {} => x.supersedes \in 1..n-1
      <4> SUFFICES ASSUME earlier # {} PROVE x.supersedes \in 1..n-1
        OBVIOUS
      <4>1. Before(i, x.decision) \subseteq Nat
        BY <1>1, <2>1 DEF Before
      <4>2. \E m \in Before(i, x.decision) : \A j \in Before(i, x.decision) : j <= m
        BY <1>1, <2>1, <3>3 DEF LastExists, n
      <4>3. \A j \in Before(i, x.decision) : j <= x.supersedes
        BY <3>2, <3>4, <4>1, <4>2, MaxIsGreatest
      <4>4. PICK k \in earlier : TRUE
        OBVIOUS
      <4>5. k >= 1 /\ k <= x.supersedes
        BY <3>4, <4>3, <4>4, <1>1, <2>1
      <4> QED
        BY <1>1, <2>1, <3>2, <3>4, <3>5, <4>5 DEF Before
    <3>7. \A j \in earlier : entries'[j] = entries[j]
      BY <1>1, <2>1
    <3>8. x.supersedes \in 1..n-1 => entries'[x.supersedes] = entries[x.supersedes]
      BY <1>1
    <3> HIDE DEF x, earlier
    <3>9. /\ \A j \in earlier : entries'[j].forecast = x.forecast
          /\ earlier # {} /\ entries'[x.supersedes].state = "resolved_paper" => x.reason
      BY <3>2, <3>6, <3>7, <3>8
    <3> QED
      BY <3>1, <3>2, <3>9
  <2>2. CASE i = n
    <3> DEFINE earlier == {j \in 1..n-1 : entries'[j].decision = d}
    <3>1. earlier = {j \in 1..n-1 : entries[j].decision = d} /\ {0} \cup earlier = Before(n, d)
      BY <1>1 DEF Before
    <3>2. latest = Max({0} \cup earlier)
      BY <1>1, <3>1 DEF latest, LatestEntry
    <3>3. \A j \in earlier : latest # 0 /\ entries[j].forecast = e.forecast
      <4> SUFFICES ASSUME NEW j \in earlier PROVE latest # 0 /\ entries[j].forecast = e.forecast
        OBVIOUS
      <4>1. j \in 1..n-1 /\ entries[j].decision = d /\ j <= latest
        BY <1>3, <3>1
      <4>2. latest \in 1..n-1 /\ entries[latest].decision = d
        BY <1>1, <1>3, <4>1 DEF Before
      <4>3. j = latest \/ j \in 1..latest-1
        BY <1>1, <4>1, <4>2
      <4>4. j \in 1..latest-1 => entries[j].forecast = entries[latest].forecast
        <5>1. latest \in DOMAIN entries
          BY <1>1, <4>2
        <5>2. \A k \in {l \in 1..latest-1 : entries[l].decision = entries[latest].decision} :
                entries[k].forecast = entries[latest].forecast
          BY <5>1 DEF HistoryLinked
        <5> QED
          BY <4>1, <4>2, <5>2
      <4> QED
        BY <1>1, <1>4, <4>2, <4>3, <4>4
    <3>4. earlier # {} => entries'[latest] = entries[latest]
      BY <1>1, <1>3, <3>3
    <3>5. /\ e.supersedes = Max({0} \cup earlier)
          /\ \A j \in earlier : entries'[j].forecast = e.forecast
          /\ earlier # {} /\ entries'[e.supersedes].state = "resolved_paper" => e.reason
      <4>1. \A j \in earlier : entries'[j] = entries[j]
        BY <1>1
      <4> HIDE DEF earlier
      <4> QED
        BY <1>4, <3>2, <3>3, <3>4, <4>1
    <3>6. entries'[i] = e /\ {j \in 1..i-1 : entries'[j].decision = e.decision} = earlier
      BY <1>1, <2>2
    <3> HIDE DEF earlier
    <3> QED
      BY <3>5, <3>6
  <2>3. i \in 1..n-1 \/ i = n
    BY <1>1
  <2> QED
    BY <2>1, <2>2, <2>3
<1> QED
  BY <1>6, <1>7

\* The invariant, for any processes, decisions and entries.
THEOREM MoneyInvariant == MoneySpec => []MoneyInv
<1>1. MoneyInv /\ [MoneyNext]_moneyVars => MoneyInv'
  <2> SUFFICES ASSUME MoneyInv, [MoneyNext]_moneyVars PROVE LastExists' /\ HistoryLinked'
    BY MoneyTypeStep DEF MoneyInv
  <2>1. CASE UNCHANGED entries
    <3>1. entries' = entries
      BY <2>1
    <3>2. LastExists'
      BY <3>1 DEF MoneyInv, LastExists, Before
    <3>3. HistoryLinked'
      BY <3>1 DEF MoneyInv, HistoryLinked
    <3> QED
      BY <3>2, <3>3
  <2>2. ASSUME NEW p \in Bookkeepers, AppendEntry(p), Admissible(draft[p].entry)
        PROVE  LastExists' /\ HistoryLinked'
    <3>1. draft[p].entry \in MoneyEntries /\ entries' = Append(entries, draft[p].entry)
      BY <2>2, DraftIsEntry DEF AppendEntry, MoneyInv
    <3> QED
      BY <2>2, <3>1, AppendLinked
  <2> QED
    BY <2>1, <2>2
       DEF MoneyNext, moneyVars, ProposeEntry, SupersedeEntry, ResolveEntry, AppendEntry, AbandonEntry
<1> QED
  BY <1>1, MoneyInitInv, PTL DEF MoneySpec

\* Whoever appends, the entries of a decision are one chain.
THEOREM MoneyHistoryLinked == MoneySpec => []HistoryLinked
BY MoneyInvariant, PTL DEF MoneyInv

-----------------------------------------------------------------------------
(* The seller pilot.                                                       *)

ImportRecords == [rows : Wellformed, sha : Folders]
Recorded(import) == \E i \in DOMAIN imports : imports[i] = import

\* The orders with a margin on a given day: of some rows, and of a whole folder.
RowMargins(orders, day) == {o.id : o \in {p \in orders : p.done /\ p.priced /\ p.matures <= day}}
WithMargin(v, day) == RowMargins(Orders[v], day)

SellerTypeOK ==
  /\ folder \in Folders /\ imports \in Seq(ImportRecords) /\ today \in Nat
  /\ DOMAIN importing = Importers /\ DOMAIN reporting = Reporters

\* What an import has read is a version that was there, and well formed.
ReadWellformed == \A i \in Importers : importing[i].stage = "read" => importing[i].rows \in Wellformed

\* An import is on record with a prefix of its rows, and with all of them unless it was cut short.
RowsRecorded(m) ==
  /\ RowsOf(m) \in RowPrefixes(Orders[m.rows])
  /\ m \notin cutShort => RowsOf(m) = Orders[m.rows]

ImportsOnRecord ==
  /\ \A i \in DOMAIN imports : RowsRecorded(imports[i])
  /\ \A row \in pilotRows : Recorded(row.import)

\* An audit counts orders on record that have a margin by now, and is ready with enough of them
\* only.
AuditOK(audit) ==
  /\ Recorded(audit.import)
  /\ audit.margins \subseteq RowMargins(RowsOf(audit.import), today)
  /\ audit.ready => Cardinality(audit.margins) >= MinMature

AuditsSound == \A r \in Reporters :
  /\ reporting[r].stage \in {"auditing", "comparing"} => Recorded(reporting[r].import)
  /\ reporting[r].stage \in {"audited", "comparing"} => AuditOK(reporting[r].audit)

SellerInv == SellerTypeOK /\ ReadWellformed /\ ImportsOnRecord /\ AuditsSound /\ ReportOfOneImport

LEMMA OrdersFinite ==
  ASSUME NEW v \in Folders, NEW day \in Nat
  PROVE  /\ IsFiniteSet(WithMargin(v, day))
         /\ \A T \in SUBSET WithMargin(v, day) : IsFiniteSet(T) /\ Cardinality(T) \in Nat
               /\ Cardinality(T) <= Cardinality(WithMargin(v, day)) /\ Cardinality(WithMargin(v, day)) \in Nat
<1> DEFINE orders == {p \in Orders[v] : p.done /\ p.priced /\ p.matures <= day}
<1>1. IsFiniteSet(orders)
  <2>1. IsFiniteSet(Orders[v]) /\ orders \subseteq Orders[v]
    BY PilotAssumption DEF PilotAssumption
  <2> QED
    BY <2>1, FS_Subset, Zenon
<1> DEFINE f == [o \in orders |-> o.id]
<1> HIDE DEF orders
<1>2. f \in Surjection(orders, {o.id : o \in orders})
  BY DEF Surjection
<1>3. IsFiniteSet({o.id : o \in orders})
  BY <1>1, <1>2, FS_Surjection, Zenon
<1>4. {o.id : o \in orders} = WithMargin(v, day)
  BY DEF orders, WithMargin, RowMargins
<1>5. IsFiniteSet(WithMargin(v, day))
  BY <1>3, <1>4
<1> QED
  BY <1>5, FS_Subset, FS_CardinalityType, Zenon

\* A prefix of a folder's rows has margins of that folder's orders only, and more on a later day.
LEMMA PrefixMargins ==
  ASSUME NEW v \in Folders, NEW orders \in RowPrefixes(Orders[v]), NEW day \in Nat
  PROVE  /\ RowMargins(orders, day) \subseteq WithMargin(v, day)
         /\ RowMargins(orders, day) \subseteq RowMargins(orders, day + 1)
<1>1. \A o \in Orders[v] : o.matures \in Nat
  BY PilotAssumption DEF PilotAssumption
<1>2. \A some : \A o \in Unpriced(some) : o.priced = FALSE
  BY DEF Unpriced
<1>3. PICK some \in SUBSET Orders[v] : orders = Unpriced(some) \/ orders = some \cup Unpriced(Orders[v] \ some)
  BY DEF RowPrefixes
<1>4. \A o \in orders : o.priced => o \in Orders[v]
  BY <1>2, <1>3
<1> QED
  BY <1>1, <1>4 DEF WithMargin, RowMargins

\* All the rows are a prefix of them.
LEMMA AllRows == ASSUME NEW orders PROVE orders \in RowPrefixes(orders)
<1>1. orders \cup Unpriced(orders \ orders) = orders
  BY DEF Unpriced
<1> QED
  BY <1>1 DEF RowPrefixes

\* What a program computes from the rows it found.
LEMMA RowsSay ==
  ASSUME NEW orders
  PROVE  /\ AuditedMargins(orders) = RowMargins(orders, today)
         /\ {m.id : m \in DecisionMargins(orders)} = RowMargins(orders, today)
<1>1. AuditedMargins(orders) = RowMargins(orders, today)
  BY DEF AuditedMargins, Matured, RowMargins
<1>2. ASSUME NEW x
      PROVE  x \in {m.id : m \in DecisionMargins(orders)} <=> x \in RowMargins(orders, today)
  <2>1. ASSUME x \in {m.id : m \in DecisionMargins(orders)} PROVE x \in RowMargins(orders, today)
    BY <2>1 DEF DecisionMargins, Matured, RowMargins
  <2>2. ASSUME NEW o \in orders, o.done, o.priced, o.matures <= today
        PROVE  o.id \in {m.id : m \in DecisionMargins(orders)}
    <3>1. [id |-> o.id, decision |-> o.decision] \in DecisionMargins(orders)
      BY <2>2 DEF DecisionMargins, Matured
    <3> QED
      BY <3>1
  <2> QED
    BY <2>1, <2>2 DEF RowMargins
<1> QED
  BY <1>1, <1>2

LEMMA SellerInitInv == SellerInit => SellerInv
<1> SUFFICES ASSUME SellerInit PROVE SellerInv
  OBVIOUS
<1>1. SellerTypeOK
  BY PilotAssumption DEF PilotAssumption, SellerInit, SellerTypeOK, ImportRecords
<1>2. ReadWellformed /\ ImportsOnRecord /\ AuditsSound /\ ReportOfOneImport
  BY DEF SellerInit, ReadWellformed, ImportsOnRecord, AuditsSound, ReportOfOneImport, NotReading
<1> QED
  BY <1>1, <1>2 DEF SellerInv

\* A report that is done stays right.
LEMMA DoneStays ==
  ASSUME ReportOfOneImport, cutShort \subseteq cutShort',
         \A q \in Reporters : reporting'[q].stage = "done" => reporting'[q] = reporting[q]
  PROVE  ReportOfOneImport'
BY Zenon DEF ReportOfOneImport

\* A report's own step leaves the other reports as they are.
LEMMA ReportsApart ==
  ASSUME SellerInv, NEW r \in Reporters, NEW new, reporting' = [reporting EXCEPT ![r] = new],
         UNCHANGED <<folder, imports, pilotRows, today, edits, importing, cutShort>>,
         /\ new.stage \in {"auditing", "comparing"} => Recorded(new.import)
         /\ new.stage \in {"audited", "comparing"} => AuditOK(new.audit),
         new.stage # "done"
  PROVE  SellerInv'
<1> USE DEF SellerInv
<1>1. \A q \in Reporters : reporting'[q] = IF q = r THEN new ELSE reporting[q]
  BY DEF SellerTypeOK
<1>2. SellerTypeOK'
  BY DEF SellerTypeOK
<1>3. ReadWellformed' /\ ImportsOnRecord'
  BY DEF ReadWellformed, ImportsOnRecord, RowsRecorded, Recorded, RowsOf
<1>4. \A a : AuditOK(a) <=> AuditOK(a)'
  BY DEF AuditOK, Recorded, RowsOf
<1>5. AuditsSound'
  BY <1>1, <1>4 DEF AuditsSound, Recorded
<1>6. ReportOfOneImport'
  <2>1. \A q \in Reporters : reporting'[q].stage = "done" => reporting'[q] = reporting[q]
    BY <1>1
  <2> QED
    BY <2>1, DoneStays
<1> QED
  BY <1>2, <1>3, <1>5, <1>6

\* What the rows of a recorded import say.
LEMMA RecordedRows ==
  ASSUME SellerInv, NEW m, Recorded(m)
  PROVE  /\ m \in ImportRecords /\ m.rows \in Folders /\ RowsRecorded(m)
         /\ RowMargins(RowsOf(m), today) \subseteq WithMargin(m.rows, today)
         /\ RowMargins(RowsOf(m), today) \subseteq RowMargins(RowsOf(m), today + 1)
<1>1. PICK i \in DOMAIN imports : imports[i] = m
  BY DEF Recorded
<1>2. m \in ImportRecords
  BY <1>1 DEF SellerInv, SellerTypeOK
<1>3. m.rows \in Folders
  BY <1>2, PilotAssumption DEF PilotAssumption, ImportRecords
<1>4. RowsRecorded(m)
  BY <1>1 DEF SellerInv, ImportsOnRecord
<1>5. RowsOf(m) \in RowPrefixes(Orders[m.rows]) /\ today \in Nat
  BY <1>4 DEF RowsRecorded, SellerInv, SellerTypeOK
<1> QED
  BY <1>2, <1>3, <1>4, <1>5, PrefixMargins

LEMMA ReadLatestOK ==
  ASSUME SellerInv, NEW r \in Reporters, ReadLatest(r) PROVE SellerInv'
<1> DEFINE new == IF reporting[r].stage = "idle" THEN [stage |-> "auditing", import |-> Last(imports)]
                  ELSE [stage |-> "comparing", import |-> Last(imports), audit |-> reporting[r].audit]
<1>1. reporting' = [reporting EXCEPT ![r] = new] /\ reporting[r].stage \in {"idle", "audited"} /\ imports # <<>>
  BY DEF ReadLatest
<1>2. Recorded(Last(imports))
  <2>1. imports \in Seq(ImportRecords)
    BY DEF SellerInv, SellerTypeOK
  <2>2. Len(imports) \in DOMAIN imports
    BY <2>1, <1>1
  <2> QED
    BY <2>2 DEF Last, Recorded
<1>3. reporting[r].stage = "audited" => AuditOK(reporting[r].audit)
  BY DEF SellerInv, AuditsSound
<1>4. new.stage \in {"auditing", "comparing"} /\ Recorded(new.import)
  BY <1>2
<1>5. new.stage \in {"audited", "comparing"} => AuditOK(new.audit)
  BY <1>1, <1>3
<1>6. UNCHANGED <<folder, imports, pilotRows, today, edits, importing, cutShort>>
  BY DEF ReadLatest
<1> HIDE DEF new
<1> QED
  BY <1>1, <1>4, <1>5, <1>6, ReportsApart

LEMMA AuditStepOK ==
  ASSUME SellerInv, NEW r \in Reporters, Audit(r) PROVE SellerInv'
<1> DEFINE orders == RowsOf(reporting[r].import)
           made == [import |-> reporting[r].import, margins |-> AuditedMargins(orders),
                    ready |-> ReadinessGate(orders)]
           new == [stage |-> "audited", audit |-> made]
<1>1. reporting' = [reporting EXCEPT ![r] = new] /\ reporting[r].stage = "auditing"
  BY DEF Audit
<1>2. Recorded(reporting[r].import)
  BY <1>1 DEF SellerInv, AuditsSound
<1>3. AuditOK(made)
  <2>1. AuditedMargins(orders) = RowMargins(orders, today)
    BY RowsSay
  <2>2. ReadinessGate(orders) => Cardinality(AuditedMargins(orders)) >= MinMature
    BY DEF ReadinessGate
  <2> QED
    BY <1>2, <2>1, <2>2 DEF AuditOK
<1>4. UNCHANGED <<folder, imports, pilotRows, today, edits, importing, cutShort>>
  BY DEF Audit
<1> HIDE DEF made
<1>5. new.stage = "audited" /\ AuditOK(new.audit)
  BY <1>3
<1> HIDE DEF new
<1> QED
  BY <1>1, <1>4, <1>5, ReportsApart

\* The report: what the audit counted is in the breakdown, which has no fewer orders.
LEMMA WriteShadowReportOK ==
  ASSUME SellerInv, NEW r \in Reporters, WriteShadowReport(r) PROVE SellerInv'
<1> DEFINE m == reporting[r].import
           a == reporting[r].audit
           new == reporting'[r]
<1>0. /\ DOMAIN reporting' = DOMAIN reporting
      /\ \A q \in Reporters : q # r => reporting'[q] = reporting[q]
      /\ r \in DOMAIN reporting /\ reporting[r].stage = "comparing"
  BY DEF SellerInv, SellerTypeOK, WriteShadowReport
<1>1. /\ new.stage = "done" /\ new.at = today /\ new.import = m /\ new.audit = a
      /\ new.breakdown = DecisionMargins(RowsOf(m))
      /\ new.policy => a.ready
  BY <1>0 DEF WriteShadowReport
<1>2. UNCHANGED <<folder, imports, pilotRows, today, edits, importing, cutShort>>
  BY DEF WriteShadowReport
<1>3. Recorded(m) /\ AuditOK(a) /\ today \in Nat
  BY <1>0 DEF SellerInv, AuditsSound, SellerTypeOK
<1> DEFINE ids == RowMargins(RowsOf(m), today)
<1>4. /\ {d.id : d \in new.breakdown} = ids /\ ids \subseteq WithMargin(m.rows, today)
      /\ m \notin cutShort => ids = WithMargin(m.rows, today)
      /\ m.rows \in Folders
  BY <1>1, <1>3, RecordedRows, RowsSay DEF RowsRecorded, WithMargin
<1>5. m = a.import => a.margins \subseteq ids /\ (new.policy => Cardinality(ids) >= MinMature)
  <2> SUFFICES ASSUME m = a.import
               PROVE  a.margins \subseteq ids /\ (new.policy => Cardinality(ids) >= MinMature)
    OBVIOUS
  <2>1. a.margins \subseteq ids /\ (a.ready => Cardinality(a.margins) >= MinMature)
    BY <1>3 DEF AuditOK
  <2>2. IsFiniteSet(ids)
    BY <1>3, <1>4, OrdersFinite
  <2> HIDE DEF ids
  <2>3. /\ Cardinality(a.margins) \in Nat /\ Cardinality(ids) \in Nat
        /\ Cardinality(a.margins) <= Cardinality(ids)
    BY <2>1, <2>2, FS_Subset, FS_CardinalityType, Zenon
  <2> QED
    BY <1>1, <2>1, <2>3, PilotAssumption DEF PilotAssumption
<1> HIDE DEF ids
<1> HIDE DEF new, m, a
<1>6. SellerTypeOK'
  BY <1>0, <1>2 DEF SellerInv, SellerTypeOK
<1>7. ReadWellformed' /\ ImportsOnRecord'
  BY <1>2 DEF SellerInv, ReadWellformed, ImportsOnRecord, RowsRecorded, Recorded, RowsOf
<1>8. \A b : AuditOK(b) <=> AuditOK(b)'
  BY <1>2 DEF AuditOK, Recorded, RowsOf
<1>9. AuditsSound'
  BY <1>0, <1>1, <1>2, <1>8 DEF new, SellerInv, AuditsSound, Recorded
<1>10. ReportOfOneImport'
  <2> SUFFICES ASSUME NEW q \in Reporters, reporting'[q].stage = "done",
                      reporting'[q].import = reporting'[q].audit.import
               PROVE  LET all == WithMargin(reporting'[q].import.rows, reporting'[q].at)
                          shown == {d.id : d \in reporting'[q].breakdown}
                      IN  /\ shown \subseteq all
                          /\ reporting'[q].import \notin cutShort' => shown = all
                          /\ reporting'[q].audit.margins \subseteq shown
                          /\ reporting'[q].policy => Cardinality(shown) >= MinMature
    BY DEF ReportOfOneImport, WithMargin, RowMargins
  <2>1. CASE q = r
    BY <2>1, <1>1, <1>2, <1>4, <1>5 DEF new
  <2>2. CASE q # r
    BY <2>2, <1>0, <1>2 DEF SellerInv, ReportOfOneImport, WithMargin, RowMargins
  <2> QED
    BY <2>1, <2>2
<1> QED
  BY <1>6, <1>7, <1>9, <1>10 DEF SellerInv

\* A new import comes with a prefix of its rows; those of the imports before it stay.
LEMMA RecordImportOK ==
  ASSUME SellerInv, NEW m \in ImportRecords, ~Recorded(m), NEW orders \in RowPrefixes(Orders[m.rows]),
         RecordImport(m, orders), cutShort \subseteq cutShort',
         m \notin cutShort' => orders = Orders[m.rows]
  PROVE  /\ imports' \in Seq(ImportRecords) /\ ImportsOnRecord'
         /\ \A n : Recorded(n) => Recorded(n)' /\ RowsOf(n)' = RowsOf(n)
<1>1. /\ imports \in Seq(ImportRecords) /\ imports' = Append(imports, m)
      /\ pilotRows' = pilotRows \cup {[import |-> m, order |-> o] : o \in orders}
  BY DEF SellerInv, SellerTypeOK, RecordImport
<1>2. /\ imports' \in Seq(ImportRecords) /\ DOMAIN imports \subseteq DOMAIN imports'
      /\ \A i \in DOMAIN imports : imports'[i] = imports[i]
      /\ \A i \in DOMAIN imports' : i \in DOMAIN imports \/ imports'[i] = m
      /\ \E i \in DOMAIN imports' : imports'[i] = m
  BY <1>1
<1>3. \A n : n # m => {s \in pilotRows' : s.import = n} = {s \in pilotRows : s.import = n}
  BY <1>1
<1>4. {s \in pilotRows' : s.import = m} = {[import |-> m, order |-> o] : o \in orders}
  <2>1. \A s \in pilotRows : s.import # m
    BY DEF SellerInv, ImportsOnRecord
  <2> QED
    BY <1>1, <2>1
<1>5. RowsOf(m)' = orders
  <2>1. RowsOf(m)' = {s.order : s \in {[import |-> m, order |-> o] : o \in orders}}
    BY <1>4, Zenon DEF RowsOf
  <2> DEFINE rows == {[import |-> m, order |-> o] : o \in orders}
  <2>2. ASSUME NEW o \in orders PROVE \E s \in rows : s.order = o
    <3>1. [import |-> m, order |-> o] \in rows /\ [import |-> m, order |-> o].order = o
      OBVIOUS
    <3> QED
      BY <3>1
  <2>3. \A s \in rows : s.order \in orders
    OBVIOUS
  <2> QED
    BY <2>1, <2>2, <2>3
<1>6. \A n : n # m => RowsOf(n)' = RowsOf(n)
  BY <1>3 DEF RowsOf
<1>7. \A n : Recorded(n) => Recorded(n)' /\ RowsOf(n)' = RowsOf(n)
  BY <1>2, <1>6 DEF Recorded
<1>8. ASSUME NEW i \in DOMAIN imports' PROVE RowsRecorded(imports[i])'
  <2>1. CASE imports'[i] = m
    BY <2>1, <1>5 DEF RowsRecorded
  <2>2. CASE imports'[i] # m
    <3>1. i \in DOMAIN imports /\ imports'[i] = imports[i]
      BY <2>2, <1>2
    <3>2. RowsRecorded(imports[i])
      BY <3>1 DEF SellerInv, ImportsOnRecord
    <3>3. PICK n : n = imports'[i]
      OBVIOUS
    <3>4. RowsOf(n)' = RowsOf(n)
      BY <2>2, <3>3, <1>6
    <3> QED
      BY <3>1, <3>2, <3>3, <3>4 DEF RowsRecorded
  <2> QED
    BY <2>1, <2>2
<1>9. ASSUME NEW row \in pilotRows' PROVE Recorded(row.import)'
  <2>1. CASE row \in pilotRows
    BY <2>1, <1>7 DEF SellerInv, ImportsOnRecord
  <2>2. CASE row \notin pilotRows
    BY <2>2, <1>1, <1>2 DEF Recorded
  <2> QED
    BY <2>1, <2>2
<1> QED
  BY <1>2, <1>7, <1>8, <1>9 DEF ImportsOnRecord

\* An audit stays true on later days and with more imports, and a report as it was made.
LEMMA AuditsLater ==
  ASSUME SellerInv, UNCHANGED reporting, today' \in Nat, today' = today \/ today' = today + 1,
         cutShort \subseteq cutShort', \A n : Recorded(n) => Recorded(n)' /\ RowsOf(n)' = RowsOf(n)
  PROVE  AuditsSound' /\ ReportOfOneImport'
<1>1. ASSUME NEW a, AuditOK(a) PROVE AuditOK(a)'
  <2>1. RowMargins(RowsOf(a.import), today) \subseteq RowMargins(RowsOf(a.import), today')
    BY <1>1, RecordedRows DEF AuditOK
  <2>2. Recorded(a.import)' /\ RowsOf(a.import)' = RowsOf(a.import)
    BY <1>1 DEF AuditOK
  <2> QED
    BY <1>1, <2>1, <2>2 DEF AuditOK, RowMargins
<1>2. AuditsSound'
  BY <1>1 DEF SellerInv, AuditsSound
<1>3. ReportOfOneImport'
  BY DoneStays DEF SellerInv
<1> QED
  BY <1>2, <1>3

\* An import that ends, in one of the two ways.
LEMMA ImportEndsOK ==
  ASSUME SellerInv, NEW i \in Importers, FinishImport(i) \/ DieInImport(i) PROVE SellerInv'
<1> DEFINE m == Reading(i)
<1>1. /\ importing[i].stage = "read" /\ importing' = [importing EXCEPT ![i] = NotReading]
      /\ UNCHANGED <<folder, today, edits, reporting>> /\ cutShort \subseteq cutShort'
  BY DEF FinishImport, DieInImport
<1>2. m \in ImportRecords /\ m.rows = importing[i].rows
  BY <1>1 DEF SellerInv, SellerTypeOK, ReadWellformed, ImportRecords, Reading
<1>3. Contains(imports, m) <=> Recorded(m)
  BY DEF SellerInv, SellerTypeOK, Contains, Recorded
<1>4. \/ UNCHANGED <<imports, pilotRows, cutShort>>
      \/ /\ ~Recorded(m)
         /\ \E orders \in RowPrefixes(Orders[m.rows]) :
              RecordImport(m, orders) /\ (m \notin cutShort' => orders = Orders[m.rows])
  <2>1. CASE FinishImport(i)
    BY <2>1, <1>2, <1>3, AllRows DEF FinishImport
  <2>2. CASE DieInImport(i)
    BY <2>2, <1>2, <1>3 DEF DieInImport
  <2> QED
    BY <2>1, <2>2
<1> HIDE DEF m
<1>5. /\ imports' \in Seq(ImportRecords) /\ ImportsOnRecord'
      /\ \A n : Recorded(n) => Recorded(n)' /\ RowsOf(n)' = RowsOf(n)
  <2>1. CASE UNCHANGED <<imports, pilotRows, cutShort>>
    BY <2>1 DEF SellerInv, SellerTypeOK, ImportsOnRecord, RowsRecorded, Recorded, RowsOf
  <2>2. CASE ~UNCHANGED <<imports, pilotRows, cutShort>>
    BY <2>2, <1>1, <1>2, <1>4, RecordImportOK
  <2> QED
    BY <2>1, <2>2
<1>6. SellerTypeOK'
  BY <1>1, <1>5 DEF SellerInv, SellerTypeOK
<1>7. ReadWellformed'
  BY <1>1 DEF SellerInv, SellerTypeOK, ReadWellformed, NotReading
<1>8. AuditsSound' /\ ReportOfOneImport'
  BY <1>1, <1>5, AuditsLater DEF SellerInv, SellerTypeOK
<1> QED
  BY <1>5, <1>6, <1>7, <1>8 DEF SellerInv

\* The steps that touch neither the ledger nor a report: of the seller, of the calendar, and of an
\* import that reads the folder.
LEMMA OutsideOK ==
  ASSUME SellerInv, EditFolder \/ DayPasses \/ (\E i \in Importers : ReadFolder(i))
  PROVE  SellerInv'
<1>1. UNCHANGED <<imports, pilotRows, reporting, cutShort>> /\ today' \in Nat /\ (today' = today \/ today' = today + 1)
  BY DEF SellerInv, SellerTypeOK, EditFolder, DayPasses, ReadFolder
<1>2. SellerTypeOK'
  BY <1>1, PilotAssumption DEF PilotAssumption, SellerInv, SellerTypeOK, EditFolder, DayPasses, ReadFolder
<1>3. ReadWellformed'
  BY DEF SellerInv, SellerTypeOK, ReadWellformed, EditFolder, DayPasses, ReadFolder
<1>4. ImportsOnRecord' /\ \A n : Recorded(n) => Recorded(n)' /\ RowsOf(n)' = RowsOf(n)
  BY <1>1 DEF SellerInv, ImportsOnRecord, RowsRecorded, Recorded, RowsOf
<1>5. AuditsSound' /\ ReportOfOneImport'
  BY <1>1, <1>4, AuditsLater
<1> QED
  BY <1>2, <1>3, <1>4, <1>5 DEF SellerInv

LEMMA SellerStutter == SellerInv /\ UNCHANGED sellerVars => SellerInv'
<1> SUFFICES ASSUME SellerInv, UNCHANGED sellerVars PROVE SellerInv'
  OBVIOUS
<1>1. SellerTypeOK' /\ ReadWellformed'
  BY DEF sellerVars, SellerInv, SellerTypeOK, ReadWellformed
<1>2. ImportsOnRecord' /\ \A n : Recorded(n) => Recorded(n)' /\ RowsOf(n)' = RowsOf(n)
  BY DEF sellerVars, SellerInv, ImportsOnRecord, RowsRecorded, Recorded, RowsOf
<1>3. AuditsSound' /\ ReportOfOneImport'
  BY <1>2, AuditsLater DEF sellerVars, SellerInv, SellerTypeOK
<1> QED
  BY <1>1, <1>2, <1>3 DEF SellerInv

\* Seller pilot: an import is on record with all its rows, or with a prefix of them if it was cut
\* short, and what a report has audited are orders on record with a margin by now.
THEOREM SellerInvariant == SellerSpec => []SellerInv
<1>1. SellerInv /\ [SellerNext]_sellerVars => SellerInv'
  BY OutsideOK, ImportEndsOK, ReadLatestOK, AuditStepOK, WriteShadowReportOK, SellerStutter
     DEF SellerNext
<1> QED
  BY <1>1, SellerInitInv, PTL DEF SellerSpec

\* A shadow report of one import agrees with itself, whatever was imported or cut short and
\* whatever days passed while it was made (shadow_report_pilot).
THEOREM SellerReportOfOneImport == SellerSpec => []ReportOfOneImport
<1>1. SellerInv => ReportOfOneImport
  BY DEF SellerInv
<1> QED
  BY <1>1, SellerInvariant, PTL

-----------------------------------------------------------------------------
(* The experiment scheduler.                                               *)

\* Counting in a sequence.
LEMMA CountFacts ==
  ASSUME NEW n \in Nat, NEW S, S \subseteq 1..n
  PROVE  /\ Cardinality(S) \in Nat /\ Cardinality(S \cup {n + 1}) = Cardinality(S) + 1
         /\ \A T : T \subseteq S => Cardinality(T) \in Nat /\ Cardinality(T) <= Cardinality(S)
         /\ \A T : T \subseteq S /\ T # S => Cardinality(T) < Cardinality(S)
<1>1. IsFiniteSet(1..n)
  BY FS_Interval
<1>2. IsFiniteSet(S)
  BY <1>1, FS_Subset, Zenon
<1>3. Cardinality(S \cup {n + 1}) = Cardinality(S) + 1
  <2>1. n + 1 \notin S
    OBVIOUS
  <2> QED
    BY <1>2, <2>1, FS_AddElement, Zenon
<1>4. Cardinality(S) \in Nat
  BY <1>2, FS_CardinalityType, Zenon
<1>5. ASSUME NEW T, T \subseteq S
      PROVE  /\ Cardinality(T) \in Nat /\ Cardinality(T) <= Cardinality(S)
             /\ Cardinality(T) = Cardinality(S) => T = S
  <2>1. IsFiniteSet(T) /\ Cardinality(T) <= Cardinality(S) /\ (Cardinality(S) = Cardinality(T) => S = T)
    BY <1>2, <1>5, FS_Subset, Zenon
  <2>2. Cardinality(T) \in Nat
    BY <2>1, FS_CardinalityType, Zenon
  <2> QED
    BY <2>1, <2>2
<1> QED
  BY <1>3, <1>4, <1>5

PreregsOf(d) == {i \in DOMAIN preregs : preregs[i].design = d}
AllocationsOf(g) == {i \in DOMAIN allocations : allocations[i].group = g}

\* A call under way: it has been overtaken in each attempt it has made.
Shaped(w) == w = [at |-> w.at, op |-> w.op, of |-> w.of, try |-> w.try, first |-> w.first, read |-> w.read]
InCall(w) ==
  /\ Shaped(w) /\ w.at \in {"scan", "append"} /\ w.op \in {"preregister", "assign"}
  /\ w.op = "preregister" => w.of \in Designs
  /\ w.op = "assign" => w.of \in Groups
  /\ w.try \in 1..Attempts /\ w.first \in Nat /\ w.read \in Nat
  /\ w.first + w.try <= CountedNow(w) + 1
  /\ w.at = "append" => w.first + w.try <= w.read + 1 /\ w.read <= CountedNow(w)
GaveUp(w) == w = [at |-> "gaveUp", overtaken |-> w.overtaken] /\ w.overtaken >= Attempts
WorkerFine(w) == w = Resting \/ InCall(w) \/ GaveUp(w)

SchedulerTyped ==
  /\ AnySequence(preregs) /\ \A i \in DOMAIN preregs : preregs[i].design \in Designs
  /\ AnySequence(allocations)
  /\ \A i \in DOMAIN allocations :
       /\ allocations[i].group \in Groups
       /\ allocations[i].id = <<Namespace(allocations[i].group), allocations[i].index>>
WorkersFine ==
  worker = [p \in Workers |-> worker[p]] /\ \A p \in Workers : WorkerFine(worker[p])

SchedulerInv == SchedulerTyped /\ AllocationReproducible /\ WorkersFine

LEMMA Counts ==
  ASSUME SchedulerTyped
  PROVE  /\ Len(preregs) \in Nat /\ DOMAIN preregs = 1..Len(preregs)
         /\ Len(allocations) \in Nat /\ DOMAIN allocations = 1..Len(allocations)
         /\ \A d : PreregsOf(d) \subseteq 1..Len(preregs) /\ CountPreregs(d) = Cardinality(PreregsOf(d))
         /\ \A g : AllocationsOf(g) \subseteq 1..Len(allocations) /\ CountAllocations(g) = Cardinality(AllocationsOf(g))
         /\ \A d : CountPreregs(d) \in Nat
         /\ \A g : CountAllocations(g) \in Nat
<1>1. /\ Len(preregs) \in Nat /\ DOMAIN preregs = 1..Len(preregs)
      /\ Len(allocations) \in Nat /\ DOMAIN allocations = 1..Len(allocations)
  BY DEF SchedulerTyped, AnySequence
<1>2. \A d : PreregsOf(d) \subseteq 1..Len(preregs) /\ CountPreregs(d) = Cardinality(PreregsOf(d))
  BY <1>1 DEF PreregsOf, CountPreregs
<1>3. \A g : AllocationsOf(g) \subseteq 1..Len(allocations) /\ CountAllocations(g) = Cardinality(AllocationsOf(g))
  BY <1>1 DEF AllocationsOf, CountAllocations
<1>4. \A d : CountPreregs(d) \in Nat
  BY <1>1, <1>2, CountFacts
<1>5. \A g : CountAllocations(g) \in Nat
  BY <1>1, <1>3, CountFacts
<1> QED
  BY <1>1, <1>2, <1>3, <1>4, <1>5

\* No two groups draw from one namespace.
LEMMA NamespacesDiffer ==
  ASSUME SchedulerTyped, AllocationReproducible, NEW g \in Groups, NEW h \in Groups, Namespace(g) = Namespace(h)
  PROVE  g = h
<1>1. AdHoc \cap Designs = {} /\ AdHoc \cap Nat = {}
  BY SchedulerAssumption
<1>2. DOMAIN preregs \subseteq Nat /\ \A i \in DOMAIN preregs : preregs[i].design \in Designs
  BY Counts DEF SchedulerTyped
<1>3. CASE g \in AdHoc \/ h \in AdHoc
  BY <1>1, <1>2, <1>3 DEF Groups, Namespace
<1>4. CASE g \notin AdHoc /\ h \notin AdHoc
  <2>1. g \in DOMAIN preregs /\ h \in DOMAIN preregs
    BY <1>4 DEF Groups
  <2>2. preregs[g].design = preregs[h].design /\ preregs[g].sequence = preregs[h].sequence
    BY <1>4 DEF Namespace
  <2>3. ASSUME NEW i \in DOMAIN preregs, NEW j \in DOMAIN preregs, i < j,
               preregs[i].design = preregs[j].design, preregs[i].sequence = preregs[j].sequence
        PROVE  FALSE
    <3> DEFINE S == {k \in 1..i-1 : preregs[k].design = preregs[i].design}
               T == {k \in 1..j-1 : preregs[k].design = preregs[j].design}
    <3>1. preregs[i].sequence = Cardinality(S) /\ preregs[j].sequence = Cardinality(T)
      BY DEF AllocationReproducible
    <3>2. j - 1 \in Nat /\ T \subseteq 1..(j - 1) /\ S \subseteq T /\ i \in T /\ i \notin S
      BY <2>3, Counts
    <3> HIDE DEF S, T
    <3>3. Cardinality(S) < Cardinality(T) /\ Cardinality(T) \in Nat /\ Cardinality(S) \in Nat
      BY <3>2, CountFacts
    <3>4. Cardinality(S) = Cardinality(T)
      BY <2>3, <3>1, Zenon
    <3> QED
      BY <3>3, <3>4
  <2> QED
    BY <1>2, <2>1, <2>2, <2>3
<1> QED
  BY <1>3, <1>4

\* The next index of a group is free, so an id that exists is never the reason to retry.
LEMMA IndexIsFree ==
  ASSUME SchedulerTyped, AllocationReproducible, NEW g \in Groups, NEW i \in DOMAIN allocations
  PROVE  allocations[i].id # <<Namespace(g), CountAllocations(g)>>
<1> SUFFICES ASSUME allocations[i].id = <<Namespace(g), CountAllocations(g)>> PROVE FALSE
  OBVIOUS
<1>1. /\ allocations[i].group \in Groups
      /\ Namespace(allocations[i].group) = Namespace(g) /\ allocations[i].index = CountAllocations(g)
  BY DEF SchedulerTyped
<1>2. allocations[i].group = g
  BY <1>1, NamespacesDiffer
<1> DEFINE S == {j \in 1..i-1 : allocations[j].group = allocations[i].group}
<1>3. allocations[i].index = Cardinality(S)
  BY DEF AllocationReproducible
<1>4. S \subseteq AllocationsOf(g) /\ i \in AllocationsOf(g) /\ i \notin S
  BY <1>2, Counts DEF AllocationsOf
<1> HIDE DEF S
<1>5. /\ Len(allocations) \in Nat /\ AllocationsOf(g) \subseteq 1..Len(allocations)
      /\ CountAllocations(g) = Cardinality(AllocationsOf(g))
  BY Counts
<1>6. Cardinality(S) < Cardinality(AllocationsOf(g)) /\ Cardinality(S) \in Nat /\ Cardinality(AllocationsOf(g)) \in Nat
  BY <1>4, <1>5, CountFacts
<1>7. Cardinality(S) = Cardinality(AllocationsOf(g))
  BY <1>1, <1>3, <1>5, Zenon
<1> QED
  BY <1>6, <1>7

-----------------------------------------------------------------------------
\* A worker moves on and nothing is appended.
LEMMA WorkerMoves ==
  ASSUME SchedulerInv, NEW p \in Workers, NEW v, worker' = [worker EXCEPT ![p] = v], WorkerFine(v),
         UNCHANGED <<preregs, allocations>>
  PROVE  SchedulerInv'
<1>1. preregs' = preregs /\ allocations' = allocations
  OBVIOUS
<1>2. SchedulerTyped'
  BY <1>1 DEF SchedulerInv, SchedulerTyped, Groups, Namespace
<1>3. AllocationReproducible'
  BY <1>1 DEF SchedulerInv, AllocationReproducible, CountAllocations
<1>4. \A c : WorkerFine(c)' <=> WorkerFine(c)
  BY <1>1 DEF WorkerFine, InCall, Shaped, GaveUp, Groups, CountedNow, CountPreregs, CountAllocations
<1>5. \A q \in Workers : (WorkerFine(worker[q]))'
  <2> SUFFICES ASSUME NEW q \in Workers PROVE (WorkerFine(worker[q]))'
    OBVIOUS
  <2>1. PICK c : c = worker'[q]
    OBVIOUS
  <2>2. WorkerFine(c)
    BY <2>1 DEF SchedulerInv, WorkersFine
  <2>3. WorkerFine(c)'
    BY <1>4, <2>2
  <2> QED
    BY <2>1, <2>3
<1>6. WorkersFine'
  BY <1>5 DEF SchedulerInv, WorkersFine
<1> QED
  BY <1>2, <1>3, <1>6 DEF SchedulerInv

LEMMA AtCall ==
  ASSUME SchedulerInv, NEW p \in Workers, worker[p].at \in {"scan", "append"}
  PROVE  InCall(worker[p])
BY DEF SchedulerInv, WorkersFine, WorkerFine, Resting, GaveUp

LEMMA RestMoves ==
  ASSUME SchedulerInv, NEW p \in Workers, Rest(p), UNCHANGED <<preregs, allocations>>
  PROVE  SchedulerInv'
<1>1. PICK v : v = Resting
  OBVIOUS
<1>2. worker' = [worker EXCEPT ![p] = v] /\ WorkerFine(v)
  BY <1>1 DEF Rest, WorkerFine
<1> QED
  BY <1>2, WorkerMoves

LEMMA BeginMoves ==
  ASSUME SchedulerInv, NEW p \in Workers, BeginCall(p)
  PROVE  SchedulerInv'
<1>1. SchedulerTyped /\ UNCHANGED <<preregs, allocations>> /\ Attempts \in Nat \ {0}
  BY SchedulerAssumption DEF SchedulerInv, BeginCall
<1>2. CASE \E d \in Designs :
             worker' = [worker EXCEPT ![p] = [at |-> "scan", op |-> "preregister", of |-> d,
                                              try |-> 1, first |-> CountPreregs(d), read |-> 0]]
  <2>1. PICK d \in Designs :
             worker' = [worker EXCEPT ![p] = [at |-> "scan", op |-> "preregister", of |-> d,
                                              try |-> 1, first |-> CountPreregs(d), read |-> 0]]
    BY <1>2
  <2>2. PICK v : v = [at |-> "scan", op |-> "preregister", of |-> d,
                      try |-> 1, first |-> CountPreregs(d), read |-> 0]
    OBVIOUS
  <2>3. CountPreregs(d) \in Nat
    BY <1>1, Counts
  <2>4. InCall(v)
    BY <1>1, <2>2, <2>3 DEF InCall, Shaped, CountedNow
  <2> QED
    BY <1>1, <2>1, <2>2, <2>4, WorkerMoves DEF WorkerFine
<1>3. CASE \E g \in Groups :
             worker' = [worker EXCEPT ![p] = [at |-> "scan", op |-> "assign", of |-> g,
                                              try |-> 1, first |-> CountAllocations(g), read |-> 0]]
  <2>1. PICK g \in Groups :
             worker' = [worker EXCEPT ![p] = [at |-> "scan", op |-> "assign", of |-> g,
                                              try |-> 1, first |-> CountAllocations(g), read |-> 0]]
    BY <1>3
  <2>2. PICK v : v = [at |-> "scan", op |-> "assign", of |-> g,
                      try |-> 1, first |-> CountAllocations(g), read |-> 0]
    OBVIOUS
  <2>3. CountAllocations(g) \in Nat
    BY <1>1, Counts
  <2>4. InCall(v)
    BY <1>1, <2>2, <2>3 DEF InCall, Shaped, CountedNow
  <2> QED
    BY <1>1, <2>1, <2>2, <2>4, WorkerMoves DEF WorkerFine
<1> QED
  BY <1>2, <1>3 DEF BeginCall

Scanned(w, n) == [w EXCEPT !.at = "append", !.read = n]
Again(w) == [w EXCEPT !.at = "scan", !.try = @ + 1, !.read = 0]
LEMMA CallShapes ==
  ASSUME NEW w, Shaped(w), NEW n, NEW x, NEW y, x = Scanned(w, n), y = Again(w)
  PROVE  /\ x = [at |-> "append", op |-> w.op, of |-> w.of, try |-> w.try, first |-> w.first, read |-> n]
         /\ y = [at |-> "scan", op |-> w.op, of |-> w.of, try |-> w.try + 1, first |-> w.first, read |-> 0]
BY DEF Shaped, Scanned, Again

LEMMA CountedNowIsNat ==
  ASSUME SchedulerTyped, NEW w
  PROVE  CountedNow(w) \in Nat
BY Counts DEF CountedNow

LEMMA ScanMoves ==
  ASSUME SchedulerInv, NEW p \in Workers, ScanLedger(p)
  PROVE  SchedulerInv'
<1>1. PICK w : w = worker[p]
  OBVIOUS
<1>2. InCall(w) /\ UNCHANGED <<preregs, allocations>> /\ SchedulerTyped
  BY <1>1, AtCall DEF ScanLedger, SchedulerInv
<1>3. PICK v : v = Scanned(w, CountedNow(w))
  OBVIOUS
<1>4. worker' = [worker EXCEPT ![p] = v]
  BY <1>1, <1>3, Zenon DEF ScanLedger, Scanned
<1>5. PICK n : n = CountedNow(w)
  OBVIOUS
<1>6. v = [at |-> "append", op |-> w.op, of |-> w.of, try |-> w.try, first |-> w.first, read |-> n]
  <2>1. PICK y : y = Again(w)
    OBVIOUS
  <2>2. v = Scanned(w, n) /\ Shaped(w)
    BY <1>2, <1>3, <1>5, Zenon DEF InCall
  <2> QED
    BY <2>1, <2>2, CallShapes
<1>7. n \in Nat /\ CountedNow(v) = n
  BY <1>2, <1>5, <1>6, CountedNowIsNat DEF CountedNow
<1>8. InCall(v)
  BY <1>2, <1>5, <1>6, <1>7 DEF InCall, Shaped
<1> QED
  BY <1>2, <1>4, <1>8, WorkerMoves DEF WorkerFine

\* An attempt that was overtaken.
LEMMA RetryMoves ==
  ASSUME SchedulerInv, NEW p \in Workers, Retry(p), UNCHANGED <<preregs, allocations>>,
         worker[p].at = "append", CountedNow(worker[p]) # worker[p].read
  PROVE  SchedulerInv'
<1>1. PICK w : w = worker[p]
  OBVIOUS
<1>2. InCall(w) /\ SchedulerTyped /\ w.at = "append"
  BY <1>1, AtCall DEF SchedulerInv
<1>3. PICK n : n = CountedNow(w)
  OBVIOUS
<1>4. n \in Nat /\ n # w.read /\ w.read \in Nat /\ w.read <= n /\ w.first + w.try <= w.read + 1
      /\ w.first \in Nat /\ w.try \in 1..Attempts /\ Attempts \in Nat
  BY <1>1, <1>2, <1>3, CountedNowIsNat, SchedulerAssumption DEF InCall
<1>5. CASE w.try < Attempts
  <2>1. PICK v, x : v = Again(w) /\ x = Scanned(w, n)
    OBVIOUS
  <2>2. worker' = [worker EXCEPT ![p] = v]
    BY <1>1, <1>5, <2>1, Zenon DEF Retry, Again
  <2>3. v = [at |-> "scan", op |-> w.op, of |-> w.of, try |-> w.try + 1, first |-> w.first, read |-> 0]
    <3>1. Shaped(w) /\ v = Again(w) /\ x = Scanned(w, n)
      BY <1>2, <2>1, Zenon DEF InCall
    <3> QED
      BY <3>1, CallShapes
  <2>4. CountedNow(v) = n
    BY <1>3, <2>3 DEF CountedNow
  <2>5. InCall(v)
    BY <1>2, <1>4, <1>5, <2>3, <2>4 DEF InCall, Shaped
  <2> QED
    BY <2>2, <2>5, WorkerMoves DEF WorkerFine
<1>6. CASE ~(w.try < Attempts)
  <2>1. PICK v : v = [at |-> "gaveUp", overtaken |-> n - w.first]
    OBVIOUS
  <2>2. worker' = [worker EXCEPT ![p] = v]
    BY <1>1, <1>3, <1>6, <2>1 DEF Retry
  <2>3. GaveUp(v)
    BY <1>4, <1>6, <2>1 DEF GaveUp
  <2> QED
    BY <2>2, <2>3, WorkerMoves DEF WorkerFine
<1> QED
  BY <1>5, <1>6

-----------------------------------------------------------------------------
\* Calls under way when something is appended.
LEMMA WorkersKept ==
  ASSUME SchedulerInv, NEW p \in Workers, Rest(p), Groups \subseteq Groups',
         \A w : w.op \in {"preregister", "assign"} => CountedNow(w) <= CountedNow(w)' /\ CountedNow(w)' \in Nat
  PROVE  WorkersFine'
<1>1. ASSUME NEW c, WorkerFine(c) PROVE WorkerFine(c)'
  <2>1. CASE InCall(c)
    <3>1. CountedNow(c) <= CountedNow(c)' /\ CountedNow(c)' \in Nat /\ CountedNow(c) \in Nat
      BY <2>1, CountedNowIsNat DEF InCall, SchedulerInv
    <3>2. c.op = "assign" => c.of \in Groups'
      BY <2>1 DEF InCall
    <3>3. c.first + c.try <= CountedNow(c)' + 1
      BY <2>1, <3>1, SchedulerAssumption DEF InCall
    <3>4. c.at = "append" => c.read <= CountedNow(c)'
      BY <2>1, <3>1 DEF InCall
    <3> QED
      BY <2>1, <3>2, <3>3, <3>4 DEF InCall, WorkerFine
  <2>2. CASE ~InCall(c)
    BY <1>1, <2>2 DEF WorkerFine, GaveUp
  <2> QED
    BY <2>1, <2>2
<1>2. \A q \in Workers : (WorkerFine(worker[q]))'
  <2> SUFFICES ASSUME NEW q \in Workers PROVE (WorkerFine(worker[q]))'
    OBVIOUS
  <2>1. PICK c : c = worker'[q]
    OBVIOUS
  <2>2. WorkerFine(c)
    BY <2>1 DEF SchedulerInv, WorkersFine, Rest, WorkerFine
  <2>3. WorkerFine(c)'
    BY <1>1, <2>2
  <2> QED
    BY <2>1, <2>3
<1>3. worker' = [q \in Workers |-> worker'[q]]
  BY DEF SchedulerInv, WorkersFine, Rest
<1> QED
  BY <1>2, <1>3 DEF WorkersFine

LEMMA RegisterMoves ==
  ASSUME SchedulerInv, NEW p \in Workers, Rest(p), allocations' = allocations,
         NEW d \in Designs, NEW e, e = [design |-> d, sequence |-> CountPreregs(d)],
         preregs' = Append(preregs, e)
  PROVE  SchedulerInv'
<1> USE DEF SchedulerInv
<1>1. PICK n : n = Len(preregs)
  OBVIOUS
<1>2. /\ n \in Nat /\ DOMAIN preregs = 1..n /\ DOMAIN preregs' = 1..(n + 1) /\ AnySequence(preregs)'
      /\ preregs'[n + 1] = e /\ \A i \in 1..n : preregs'[i] = preregs[i]
  BY <1>1, AppendFacts DEF SchedulerTyped
<1>3. e.design = d /\ e.sequence = CountPreregs(d)
  OBVIOUS
<1>4. \A c : PreregsOf(c)' = IF c = d THEN PreregsOf(c) \cup {n + 1} ELSE PreregsOf(c)
  BY <1>2, <1>3 DEF PreregsOf
<1>5. \A c : /\ CountPreregs(c) \in Nat
             /\ Cardinality(PreregsOf(c) \cup {n + 1}) = CountPreregs(c) + 1
             /\ CountPreregs(c) = Cardinality(PreregsOf(c))
  BY <1>1, <1>2, Counts, CountFacts
<1>6. \A c : CountPreregs(c) <= CountPreregs(c)' /\ CountPreregs(c)' \in Nat
  <2>1. \A c : CountPreregs(c)' = Cardinality(PreregsOf(c)')
    BY DEF CountPreregs, PreregsOf
  <2> QED
    BY <1>4, <1>5, <2>1
<1>7. \A g : CountAllocations(g)' = CountAllocations(g) /\ CountAllocations(g) \in Nat
  BY Counts DEF CountAllocations
<1>8. Groups \subseteq Groups'
  BY <1>2 DEF Groups
<1>9. WorkersFine'
  <2>1. \A w : w.op \in {"preregister", "assign"} => CountedNow(w) <= CountedNow(w)' /\ CountedNow(w)' \in Nat
    BY <1>6, <1>7 DEF CountedNow
  <2> QED
    BY <1>8, <2>1, WorkersKept
<1>10. SchedulerTyped'
  <2>1. \A g \in Groups : Namespace(g)' = Namespace(g)
    BY <1>2 DEF Groups, Namespace
  <2> QED
    BY <1>2, <1>3, <1>8, <2>1 DEF SchedulerTyped
<1>11. \A i \in DOMAIN preregs' :
         preregs'[i].sequence = Cardinality({j \in 1..i-1 : preregs'[j].design = preregs'[i].design})
  <2> SUFFICES ASSUME NEW i \in 1..(n + 1)
               PROVE  preregs'[i].sequence = Cardinality({j \in 1..i-1 : preregs'[j].design = preregs'[i].design})
    BY <1>2
  <2>1. CASE i \in 1..n
    <3>1. preregs'[i] = preregs[i] /\ \A j \in 1..i-1 : preregs'[j] = preregs[j]
      BY <1>2, <2>1
    <3>2. {j \in 1..i-1 : preregs'[j].design = preregs'[i].design}
            = {j \in 1..i-1 : preregs[j].design = preregs[i].design}
      BY <3>1
    <3>3. preregs[i].sequence = Cardinality({j \in 1..i-1 : preregs[j].design = preregs[i].design})
      BY <1>2, <2>1 DEF AllocationReproducible
    <3> QED
      BY <3>1, <3>2, <3>3, Zenon
  <2>2. CASE i = n + 1
    <3>1. {j \in 1..i-1 : preregs'[j].design = preregs'[i].design} = PreregsOf(d)
      BY <1>2, <1>3, <2>2 DEF PreregsOf
    <3> QED
      BY <1>2, <1>3, <1>5, <2>2, <3>1
  <2>3. i \in 1..n \/ i = n + 1
    BY <1>2
  <2> QED
    BY <2>1, <2>2, <2>3, Zenon
<1>12. \A g \in DOMAIN preregs' : CountAllocations(g)' <= Planned[preregs'[g].design]
  <2>1. \A g \in DOMAIN preregs : CountAllocations(g)' <= Planned[preregs'[g].design]
    BY <1>2, <1>7 DEF AllocationReproducible
  <2>2. CountAllocations(n + 1)' <= Planned[preregs'[n + 1].design]
    <3>1. AllocationsOf(n + 1) = {}
      BY <1>2, SchedulerAssumption DEF AllocationsOf, SchedulerTyped, Groups
    <3>2. CountAllocations(n + 1) = 0
      BY <3>1, Counts, FS_EmptySet
    <3> QED
      BY <1>2, <1>3, <1>7, <3>2, SchedulerAssumption
  <2> QED
    BY <1>2, <2>1, <2>2
<1>13. AllocationReproducible'
  BY <1>11, <1>12 DEF AllocationReproducible
<1> QED
  BY <1>9, <1>10, <1>13

LEMMA AppendPreregistrationMoves ==
  ASSUME SchedulerInv, NEW p \in Workers, AppendPreregistration(p)
  PROVE  SchedulerInv'
<1>1. PICK w : w = worker[p]
  OBVIOUS
<1>2. InCall(w) /\ w.at = "append" /\ w.op = "preregister" /\ allocations' = allocations
  BY <1>1, AtCall DEF AppendPreregistration
<1>3. CASE CountPreregs(w.of) # w.read
  <2>1. preregs' = preregs /\ Retry(p) /\ CountedNow(worker[p]) # worker[p].read
    BY <1>1, <1>2, <1>3 DEF AppendPreregistration, CountedNow
  <2> QED
    BY <1>1, <1>2, <2>1, RetryMoves
<1>4. CASE CountPreregs(w.of) = w.read
  <2>1. PICK e : e = [design |-> w.of, sequence |-> w.read]
    OBVIOUS
  <2>2. preregs' = Append(preregs, e) /\ Rest(p)
    BY <1>1, <1>4, <2>1 DEF AppendPreregistration
  <2>3. PICK d : d = w.of
    OBVIOUS
  <2>4. d \in Designs /\ e = [design |-> d, sequence |-> CountPreregs(d)]
    BY <1>2, <1>4, <2>1, <2>3 DEF InCall
  <2> QED
    BY <1>2, <2>2, <2>4, RegisterMoves
<1> QED
  BY <1>3, <1>4

LEMMA AllocateMoves ==
  ASSUME SchedulerInv, NEW p \in Workers, Rest(p), preregs' = preregs,
         NEW g \in Groups, NEW e, e = [group |-> g, index |-> CountAllocations(g), id |-> <<Namespace(g), CountAllocations(g)>>],
         allocations' = Append(allocations, e), ~LimitReached(g)
  PROVE  SchedulerInv'
<1> USE DEF SchedulerInv
<1>1. PICK n : n = Len(allocations)
  OBVIOUS
<1>2. /\ n \in Nat /\ DOMAIN allocations = 1..n /\ DOMAIN allocations' = 1..(n + 1) /\ AnySequence(allocations)'
      /\ allocations'[n + 1] = e /\ \A i \in 1..n : allocations'[i] = allocations[i]
  BY <1>1, AppendFacts DEF SchedulerTyped
<1>3. e.group = g /\ e.index = CountAllocations(g) /\ e.id = <<Namespace(e.group), e.index>>
  OBVIOUS
<1>4. \A c : AllocationsOf(c)' = IF c = g THEN AllocationsOf(c) \cup {n + 1} ELSE AllocationsOf(c)
  BY <1>2, <1>3 DEF AllocationsOf
<1>5. \A c : /\ CountAllocations(c) \in Nat
             /\ Cardinality(AllocationsOf(c) \cup {n + 1}) = CountAllocations(c) + 1
             /\ CountAllocations(c) = Cardinality(AllocationsOf(c))
  BY <1>1, <1>2, Counts, CountFacts
<1>6. \A c : CountAllocations(c)' = IF c = g THEN CountAllocations(c) + 1 ELSE CountAllocations(c)
  <2>1. \A c : CountAllocations(c)' = Cardinality(AllocationsOf(c)')
    BY DEF CountAllocations, AllocationsOf
  <2> QED
    BY <1>4, <1>5, <2>1
<1>7. \A d : CountPreregs(d)' = CountPreregs(d) /\ CountPreregs(d) \in Nat
  BY Counts DEF CountPreregs
<1>8. Groups' = Groups
  BY DEF Groups
<1>9. WorkersFine'
  <2>1. \A w : w.op \in {"preregister", "assign"} => CountedNow(w) <= CountedNow(w)' /\ CountedNow(w)' \in Nat
    <3>1. \A c : CountAllocations(c) <= CountAllocations(c)' /\ CountAllocations(c)' \in Nat
      BY <1>5, <1>6
    <3>2. \A d : CountPreregs(d) <= CountPreregs(d)' /\ CountPreregs(d)' \in Nat
      BY <1>7
    <3> QED
      BY <3>1, <3>2 DEF CountedNow
  <2> QED
    BY <1>8, <2>1, WorkersKept
<1>10. SchedulerTyped'
  <2>1. \A c \in Groups : Namespace(c)' = Namespace(c)
    BY DEF Groups, Namespace
  <2>2. \A i \in 1..n : allocations[i].group \in Groups
                        /\ allocations[i].id = <<Namespace(allocations[i].group), allocations[i].index>>
    BY <1>2 DEF SchedulerTyped
  <2>3. \A i \in 1..(n + 1) : /\ allocations'[i].group \in Groups
                              /\ allocations'[i].id = <<Namespace(allocations'[i].group), allocations'[i].index>>
    BY <1>2, <1>3, <2>2
  <2>4. \A i \in DOMAIN allocations' : /\ allocations'[i].group \in Groups'
                                       /\ allocations'[i].id = <<(Namespace(allocations[i].group))', allocations'[i].index>>
    BY <1>2, <1>8, <2>3 DEF Namespace
  <2> QED
    BY <1>2, <2>4 DEF SchedulerTyped
<1>11. \A i \in DOMAIN allocations' :
         allocations'[i].index = Cardinality({j \in 1..i-1 : allocations'[j].group = allocations'[i].group})
  <2> SUFFICES ASSUME NEW i \in 1..(n + 1)
               PROVE  allocations'[i].index = Cardinality({j \in 1..i-1 : allocations'[j].group = allocations'[i].group})
    BY <1>2
  <2>1. CASE i \in 1..n
    <3>1. allocations'[i] = allocations[i] /\ \A j \in 1..i-1 : allocations'[j] = allocations[j]
      BY <1>2, <2>1
    <3>2. {j \in 1..i-1 : allocations'[j].group = allocations'[i].group}
            = {j \in 1..i-1 : allocations[j].group = allocations[i].group}
      BY <3>1
    <3>3. allocations[i].index = Cardinality({j \in 1..i-1 : allocations[j].group = allocations[i].group})
      BY <1>2, <2>1 DEF AllocationReproducible
    <3> QED
      BY <3>1, <3>2, <3>3, Zenon
  <2>2. CASE i = n + 1
    <3>1. {j \in 1..i-1 : allocations'[j].group = allocations'[i].group} = AllocationsOf(g)
      BY <1>2, <1>3, <2>2 DEF AllocationsOf
    <3> QED
      BY <1>2, <1>3, <1>5, <2>2, <3>1
  <2>3. i \in 1..n \/ i = n + 1
    BY <1>2
  <2> QED
    BY <2>1, <2>2, <2>3, Zenon
<1>12. \A c \in DOMAIN preregs : CountAllocations(c)' <= Planned[preregs[c].design]
  <2> SUFFICES ASSUME NEW c \in DOMAIN preregs PROVE CountAllocations(c)' <= Planned[preregs[c].design]
    OBVIOUS
  <2>1. CountAllocations(c) <= Planned[preregs[c].design] /\ Planned[preregs[c].design] \in Nat
    BY SchedulerAssumption DEF AllocationReproducible, SchedulerTyped
  <2>2. CASE c = g
    <3>1. AllocationLimit(g) = Planned[preregs[c].design]
      BY <2>2, Counts, SchedulerAssumption DEF AllocationLimit
    <3> QED
      BY <1>5, <1>6, <2>1, <2>2, <3>1 DEF LimitReached
  <2> QED
    BY <1>6, <2>1, <2>2
<1>13. AllocationReproducible'
  BY <1>11, <1>12 DEF AllocationReproducible
<1> QED
  BY <1>9, <1>10, <1>13

LEMMA AppendAllocationMoves ==
  ASSUME SchedulerInv, NEW p \in Workers, AppendAllocation(p)
  PROVE  SchedulerInv'
<1>1. PICK w : w = worker[p]
  OBVIOUS
<1>2. InCall(w) /\ w.at = "append" /\ w.op = "assign" /\ preregs' = preregs /\ w.of \in Groups
  BY <1>1, AtCall DEF AppendAllocation, InCall
<1>3. PICK g, id : g = w.of /\ id = <<Namespace(g), w.read>>
  OBVIOUS
<1> DEFINE overtaken == CountAllocations(g) # w.read \/ \E i \in DOMAIN allocations : allocations[i].id = id
<1>4. CASE LimitReached(g)
  <2>1. allocations' = allocations /\ Rest(p)
    BY <1>1, <1>3, <1>4 DEF AppendAllocation
  <2> QED
    BY <1>2, <2>1, RestMoves
<1>5. CASE ~LimitReached(g) /\ overtaken
  <2>1. allocations' = allocations /\ Retry(p)
    BY <1>1, <1>3, <1>5 DEF AppendAllocation
  <2>2. CountAllocations(g) # w.read
    BY <1>2, <1>3, <1>5, IndexIsFree DEF SchedulerInv
  <2>3. CountedNow(worker[p]) # worker[p].read
    BY <1>1, <1>2, <1>3, <2>2 DEF CountedNow
  <2> QED
    BY <1>1, <1>2, <2>1, <2>3, RetryMoves
<1>6. CASE ~LimitReached(g) /\ ~overtaken
  <2>1. PICK e : e = [group |-> g, index |-> w.read, id |-> id]
    OBVIOUS
  <2>2. allocations' = Append(allocations, e) /\ Rest(p)
    BY <1>1, <1>3, <1>6, <2>1 DEF AppendAllocation
  <2>3. e = [group |-> g, index |-> CountAllocations(g), id |-> <<Namespace(g), CountAllocations(g)>>]
    BY <1>3, <1>6, <2>1
  <2> QED
    BY <1>2, <1>3, <1>6, <2>2, <2>3, AllocateMoves
<1> QED
  BY <1>4, <1>5, <1>6

-----------------------------------------------------------------------------
LEMMA SchedulerStarts ==
  ASSUME SchedulerInit
  PROVE  SchedulerInv
<1>1. preregs = <<>> /\ allocations = <<>> /\ worker = [p \in Workers |-> Resting]
  BY DEF SchedulerInit
<1>2. AnySequence(preregs) /\ DOMAIN preregs = {} /\ AnySequence(allocations) /\ DOMAIN allocations = {}
  BY <1>1 DEF AnySequence
<1> QED
  BY <1>1, <1>2 DEF SchedulerInv, SchedulerTyped, AllocationReproducible, WorkersFine, WorkerFine

LEMMA SchedulerStep ==
  ASSUME SchedulerInv, [SchedulerNext]_schedulerVars
  PROVE  SchedulerInv'
<1>1. CASE preregs' = preregs /\ allocations' = allocations /\ worker' = worker
  <2>1. SchedulerTyped' /\ AllocationReproducible'
    BY <1>1 DEF SchedulerInv, SchedulerTyped, Groups, Namespace, AllocationReproducible, CountAllocations
  <2>2. WorkersFine'
    BY <1>1 DEF SchedulerInv, WorkersFine, WorkerFine, InCall, Shaped, GaveUp, Groups, CountedNow, CountPreregs,
                CountAllocations
  <2> QED
    BY <2>1, <2>2 DEF SchedulerInv
<1>2. CASE SchedulerNext /\ ~RecordTrialOutcome
  <2>1. PICK p \in Workers : \/ BeginCall(p) \/ ScanLedger(p) \/ AppendPreregistration(p)
                             \/ AppendAllocation(p) \/ WorkerDies(p)
    BY <1>2 DEF SchedulerNext
  <2>2. CASE BeginCall(p)
    BY <2>2, BeginMoves
  <2>3. CASE ScanLedger(p)
    BY <2>3, ScanMoves
  <2>4. CASE AppendPreregistration(p)
    BY <2>4, AppendPreregistrationMoves
  <2>5. CASE AppendAllocation(p)
    BY <2>5, AppendAllocationMoves
  <2>6. CASE WorkerDies(p)
    BY <2>6, RestMoves DEF WorkerDies
  <2> QED
    BY <2>1, <2>2, <2>3, <2>4, <2>5, <2>6
<1> QED
  BY <1>1, <1>2 DEF RecordTrialOutcome, schedulerVars

\* The state of the ledger and of the workers between any two steps: sequences and indexes
\* count the records before them, and a call has been overtaken once for each attempt it has
\* made (experiments.py).
THEOREM SchedulerInvariant == SchedulerSpec => []SchedulerInv
<1> QED
  BY SchedulerStarts, SchedulerStep, PTL DEF SchedulerSpec

\* For every number of workers, designs and attempts: an allocation can be recomputed from
\* its design alone, no experiment assigns more than it planned, and a call gives up only
\* after others of its kind overtook each of its attempts (assign_intervention).
THEOREM SchedulerIsSound == SchedulerSpec => []SchedulerSound
<1>1. SchedulerInv => SchedulerSound
  <2> SUFFICES ASSUME SchedulerInv, NEW p \in Workers, worker[p].at = "gaveUp"
               PROVE  worker[p].overtaken >= Attempts
    BY DEF SchedulerInv, SchedulerSound, GivesUpOnlyOvertaken
  <2>1. GaveUp(worker[p])
    BY DEF SchedulerInv, WorkersFine, WorkerFine, Resting, InCall
  <2> QED
    BY <2>1 DEF GaveUp
<1> QED
  BY <1>1, SchedulerInvariant, PTL

-----------------------------------------------------------------------------
(* Research campaigns of OfferLab.                                         *)

\* A formula that has a development result, as it is, in its campaign.
Evaluated(g, f, c) ==
  \E j \in DOMAIN eventLog : /\ eventLog[j].topic = g /\ eventLog[j].type = "evaluated"
                             /\ eventLog[j].formula = f /\ eventLog[j].content = c
Knows(c) ==
  /\ ~Conflicting(c.proposals) /\ \A q \in c.proposals : q = <<q[1], q[2]>>
  /\ \A q \in c.results : q = <<q[1], q[2]>> /\ Evaluated(c.topic, q[1], q[2])
HasOpen(c) ==
  /\ c = [at |-> c.at, topic |-> c.topic, rows |-> c.rows, proposals |-> c.proposals, results |-> c.results]
  /\ c.at \in {"open", "create"} /\ Knows(c)
WorksOn(c) ==
  /\ c = [at |-> c.at, topic |-> c.topic, rows |-> c.rows, results |-> c.results,
          proposals |-> c.proposals, formula |-> c.formula, content |-> c.content]
  /\ c.at \in {"register", "reserve", "result", "hide", "submit"} /\ Knows(c)
  /\ <<c.formula, c.content>> \in c.proposals
  /\ c.at = "hide" => Evaluated(c.topic, c.formula, c.content)
AgentFine(c) == c = Closed \/ HasOpen(c) \/ WorksOn(c)

\* What has been reserved is at least what has been recorded and what is still to be.
Busy(step, g) == {a \in Agents : agent[a].at = step /\ agent[a].topic = g}
PaidFirst(step, paid, done, limit) ==
  \A g : /\ Cardinality(Of(g, done)) + Cardinality(Busy(step, g)) <= Cardinality(Of(g, paid))
         /\ Cardinality(Of(g, paid)) <= limit
HiddenOnce ==
  /\ \A i, j \in DOMAIN eventLog :
       eventLog[i].type = "hidden" /\ eventLog[j].type = "hidden" /\ i # j
         => eventLog[i].rows \cap eventLog[j].rows = {}
  /\ \A i \in DOMAIN eventLog : eventLog[i].type = "hidden" =>
       \E j \in Of(eventLog[i].topic, "evaluated") :
         j < i /\ eventLog[j].formula = eventLog[i].formula /\ eventLog[j].content = eventLog[i].content

\* A campaign that was never shared is known to the one process that has it open.
KnownToOne ==
  \A g : g \notin shared =>
    /\ ~Conflicting(Known(g))
    /\ \A a \in Agents : agent[a] # Closed /\ agent[a].topic = g =>
         /\ Known(g) \subseteq agent[a].proposals
         /\ \A b \in Agents : agent[b] # Closed /\ agent[b].topic = g => b = a

AgentsTyped ==
  /\ AnySequence(eventLog) /\ agenda \in Agendas
  /\ agent = [a \in Agents |-> agent[a]] /\ \A a \in Agents : AgentFine(agent[a])
ResearchInv ==
  /\ AgentsTyped /\ HiddenOnce /\ KnownToOne
  /\ PaidFirst("result", "reserved", "evaluated", DevBudget)
  /\ PaidFirst("submit", "hidden", "submitted", HidBudget)

-----------------------------------------------------------------------------
LEMMA OneEventMore ==
  ASSUME AnySequence(eventLog), NEW e, eventLog' = Append(eventLog, e)
  PROVE  /\ AnySequence(eventLog)' /\ Len(eventLog) \in Nat
         /\ DOMAIN eventLog = 1..Len(eventLog) /\ DOMAIN eventLog' = 1..(Len(eventLog) + 1)
         /\ eventLog'[Len(eventLog) + 1] = e /\ \A i \in DOMAIN eventLog : eventLog'[i] = eventLog[i]
BY AppendFacts DEF AnySequence

LEMMA OfOneMore ==
  ASSUME AnySequence(eventLog), NEW e, eventLog' = Append(eventLog, e), NEW g, NEW t
  PROVE  /\ Of(g, t)' = IF e.topic = g /\ e.type = t THEN Of(g, t) \cup {Len(eventLog) + 1} ELSE Of(g, t)
         /\ Cardinality(Of(g, t)') = IF e.topic = g /\ e.type = t THEN Cardinality(Of(g, t)) + 1
                                     ELSE Cardinality(Of(g, t))
         /\ Cardinality(Of(g, t)) \in Nat
<1>1. Of(g, t)' = IF e.topic = g /\ e.type = t THEN Of(g, t) \cup {Len(eventLog) + 1} ELSE Of(g, t)
  BY OneEventMore DEF Of
<1>2. Of(g, t) \subseteq 1..Len(eventLog) /\ Len(eventLog) \in Nat
  BY OneEventMore DEF Of
<1>3. IsFiniteSet(1..Len(eventLog))
  BY <1>2, FS_Interval
<1>4. IsFiniteSet(Of(g, t))
  BY <1>2, <1>3, FS_Subset, Zenon
<1>5. Len(eventLog) + 1 \notin Of(g, t)
  BY <1>2
<1>6. Cardinality(Of(g, t) \cup {Len(eventLog) + 1}) = Cardinality(Of(g, t)) + 1
  BY <1>4, <1>5, FS_AddElement, Zenon
<1>7. Cardinality(Of(g, t)) \in Nat
  BY <1>4, FS_CardinalityType
<1> QED
  BY <1>1, <1>6, <1>7

LEMMA OfCount ==
  ASSUME AnySequence(eventLog), NEW g, NEW t
  PROVE  Cardinality(Of(g, t)) \in Nat
<1>2. Of(g, t) \subseteq 1..Len(eventLog) /\ Len(eventLog) \in Nat
  BY DEF Of, AnySequence
<1>3. IsFiniteSet(1..Len(eventLog))
  BY <1>2, FS_Interval
<1>4. IsFiniteSet(Of(g, t))
  BY <1>2, <1>3, FS_Subset, Zenon
<1> QED
  BY <1>4, FS_CardinalityType

LEMMA BusyMoves ==
  ASSUME agent = [a \in Agents |-> agent[a]], NEW a \in Agents, NEW v, agent' = [agent EXCEPT ![a] = v],
         NEW step, NEW g
  PROVE  /\ Cardinality(Busy(step, g)) \in Nat /\ Cardinality(Busy(step, g)') \in Nat
         /\ ~(v.at = step /\ v.topic = g) => Cardinality(Busy(step, g)') <= Cardinality(Busy(step, g))
         /\ ~(v.at = step /\ v.topic = g) /\ agent[a].at = step /\ agent[a].topic = g =>
              Cardinality(Busy(step, g)') + 1 = Cardinality(Busy(step, g))
         /\ Cardinality(Busy(step, g)') <= Cardinality(Busy(step, g)) + 1
<1>1. agent'[a] = v /\ \A b \in Agents : b # a => agent'[b] = agent[b]
  OBVIOUS
<1>2. IsFiniteSet(Busy(step, g)) /\ IsFiniteSet(Busy(step, g)')
  <2>1. IsFiniteSet(Agents)
    BY ResearchAssumption
  <2>2. Busy(step, g) \subseteq Agents /\ Busy(step, g)' \subseteq Agents
    BY DEF Busy
  <2> QED
    BY <2>1, <2>2, FS_Subset, Zenon
<1>3. Cardinality(Busy(step, g)) \in Nat /\ Cardinality(Busy(step, g)') \in Nat
  BY <1>2, FS_CardinalityType, Zenon
<1>4. /\ Cardinality(Busy(step, g) \ {a})
           = IF a \in Busy(step, g) THEN Cardinality(Busy(step, g)) - 1 ELSE Cardinality(Busy(step, g))
      /\ Cardinality(Busy(step, g) \cup {a})
           = IF a \in Busy(step, g) THEN Cardinality(Busy(step, g)) ELSE Cardinality(Busy(step, g)) + 1
  BY <1>2, FS_RemoveElement, FS_AddElement, Zenon
<1>5. CASE v.at = step /\ v.topic = g
  <2>1. Busy(step, g)' = Busy(step, g) \cup {a}
    BY <1>1, <1>5 DEF Busy
  <2> QED
    BY <1>3, <1>4, <1>5, <2>1
<1>6. CASE ~(v.at = step /\ v.topic = g)
  <2>1. Busy(step, g)' = Busy(step, g) \ {a}
    BY <1>1, <1>6 DEF Busy
  <2>2. a \in Busy(step, g) <=> (agent[a].at = step /\ agent[a].topic = g)
    BY DEF Busy
  <2> QED
    BY <1>3, <1>4, <1>6, <2>1, <2>2
<1> QED
  BY <1>5, <1>6

LEMMA PaidFirstMoves ==
  ASSUME AnySequence(eventLog), agent = [a \in Agents |-> agent[a]], NEW a \in Agents, NEW v,
         agent' = [agent EXCEPT ![a] = v],
         NEW step, NEW paid, NEW done, paid # done, NEW limit \in Nat, PaidFirst(step, paid, done, limit),
         \/ eventLog' = eventLog /\ v.at # step
         \/ \E e : /\ eventLog' = Append(eventLog, e)
                   /\ v.at = step => e.type = paid /\ v.topic = e.topic
                   /\ e.type = paid => v.at = step /\ Cardinality(Of(e.topic, paid)) < limit
                   /\ e.type = done => agent[a].at = step /\ agent[a].topic = e.topic
  PROVE  PaidFirst(step, paid, done, limit)'
<1> SUFFICES ASSUME NEW g
             PROVE  /\ Cardinality(Of(g, done)') + Cardinality(Busy(step, g)') <= Cardinality(Of(g, paid)')
                    /\ Cardinality(Of(g, paid)') <= limit
  BY DEF PaidFirst
<1>1. /\ Cardinality(Of(g, done)) + Cardinality(Busy(step, g)) <= Cardinality(Of(g, paid))
      /\ Cardinality(Of(g, paid)) <= limit
  BY DEF PaidFirst
<1>2. /\ Cardinality(Busy(step, g)) \in Nat /\ Cardinality(Busy(step, g)') \in Nat
      /\ ~(v.at = step /\ v.topic = g) => Cardinality(Busy(step, g)') <= Cardinality(Busy(step, g))
      /\ ~(v.at = step /\ v.topic = g) /\ agent[a].at = step /\ agent[a].topic = g =>
           Cardinality(Busy(step, g)') + 1 = Cardinality(Busy(step, g))
      /\ Cardinality(Busy(step, g)') <= Cardinality(Busy(step, g)) + 1
  BY BusyMoves
<1>3. Cardinality(Of(g, done)) \in Nat /\ Cardinality(Of(g, paid)) \in Nat
  BY OfCount
<1>4. CASE eventLog' = eventLog /\ v.at # step
  <2>1. Of(g, done)' = Of(g, done) /\ Of(g, paid)' = Of(g, paid)
    BY <1>4 DEF Of
  <2> QED
    BY <1>1, <1>2, <1>3, <1>4, <2>1
<1>5. ASSUME NEW e, eventLog' = Append(eventLog, e),
             v.at = step => e.type = paid /\ v.topic = e.topic,
             e.type = paid => v.at = step /\ Cardinality(Of(e.topic, paid)) < limit,
             e.type = done => agent[a].at = step /\ agent[a].topic = e.topic
      PROVE  /\ Cardinality(Of(g, done)') + Cardinality(Busy(step, g)') <= Cardinality(Of(g, paid)')
             /\ Cardinality(Of(g, paid)') <= limit
  <2>1. /\ Cardinality(Of(g, done)') = IF e.topic = g /\ e.type = done THEN Cardinality(Of(g, done)) + 1
                                       ELSE Cardinality(Of(g, done))
        /\ Cardinality(Of(g, paid)') = IF e.topic = g /\ e.type = paid THEN Cardinality(Of(g, paid)) + 1
                                       ELSE Cardinality(Of(g, paid))
    BY <1>5, OfOneMore
  <2>2. CASE e.topic = g /\ e.type = paid
    BY <1>1, <1>2, <1>3, <1>5, <2>1, <2>2
  <2>3. CASE e.topic = g /\ e.type = done
    BY <1>1, <1>2, <1>3, <1>5, <2>1, <2>3
  <2>4. CASE ~(e.topic = g /\ e.type = paid) /\ ~(e.topic = g /\ e.type = done)
    BY <1>1, <1>2, <1>3, <1>5, <2>1, <2>4
  <2> QED
    BY <2>2, <2>3, <2>4
<1> QED
  BY <1>4, <1>5

-----------------------------------------------------------------------------
\* What agents know stays true.
LEMMA AgentFineKept ==
  ASSUME AnySequence(eventLog), eventLog' = eventLog \/ \E e : eventLog' = Append(eventLog, e),
         NEW c, AgentFine(c)
  PROVE  AgentFine(c)'
<1>1. ASSUME NEW g, NEW f, NEW k, Evaluated(g, f, k) PROVE Evaluated(g, f, k)'
  <2>1. CASE eventLog' = eventLog
    BY <1>1, <2>1 DEF Evaluated
  <2>2. CASE \E e : eventLog' = Append(eventLog, e)
    BY <1>1, <2>2, OneEventMore DEF Evaluated
  <2> QED
    BY <2>1, <2>2
<1>2. Knows(c) => Knows(c)'
  BY <1>1 DEF Knows
<1>3. HasOpen(c) => HasOpen(c)'
  BY <1>2 DEF HasOpen
<1>4. WorksOn(c) => WorksOn(c)'
  BY <1>1, <1>2 DEF WorksOn
<1> QED
  BY <1>3, <1>4 DEF AgentFine

LEMMA HiddenStays ==
  ASSUME AnySequence(eventLog), HiddenOnce, NEW e, eventLog' = Append(eventLog, e),
         e.type = "hidden" => ~Overlaps(e.topic, e.rows) /\ Evaluated(e.topic, e.formula, e.content)
  PROVE  HiddenOnce'
<1>1. ASSUME NEW i \in DOMAIN eventLog', NEW j \in DOMAIN eventLog',
             eventLog'[i].type = "hidden", eventLog'[j].type = "hidden", i # j
      PROVE  eventLog'[i].rows \cap eventLog'[j].rows = {}
  <2>1. CASE i \in DOMAIN eventLog /\ j \in DOMAIN eventLog
    BY <1>1, <2>1, OneEventMore DEF HiddenOnce
  <2>2. CASE i \in DOMAIN eventLog /\ j = Len(eventLog) + 1
    BY <1>1, <2>2, OneEventMore DEF Overlaps
  <2>3. CASE i = Len(eventLog) + 1 /\ j \in DOMAIN eventLog
    BY <1>1, <2>3, OneEventMore DEF Overlaps
  <2> QED
    BY <1>1, <2>1, <2>2, <2>3, OneEventMore
<1>2. ASSUME NEW i \in DOMAIN eventLog', eventLog'[i].type = "hidden"
      PROVE  \E j \in DOMAIN eventLog' :
               /\ eventLog'[j].topic = eventLog'[i].topic /\ eventLog'[j].type = "evaluated" /\ j < i
               /\ eventLog'[j].formula = eventLog'[i].formula /\ eventLog'[j].content = eventLog'[i].content
  <2>1. CASE i \in DOMAIN eventLog
    <3>1. PICK j \in Of(eventLog[i].topic, "evaluated") :
            j < i /\ eventLog[j].formula = eventLog[i].formula /\ eventLog[j].content = eventLog[i].content
      BY <1>2, <2>1, OneEventMore DEF HiddenOnce
    <3> QED
      BY <2>1, <3>1, OneEventMore DEF Of
  <2>2. CASE i = Len(eventLog) + 1
    <3>1. Evaluated(e.topic, e.formula, e.content) /\ eventLog'[i] = e
      BY <1>2, <2>2, OneEventMore
    <3>2. PICK j \in DOMAIN eventLog : /\ eventLog[j].topic = e.topic /\ eventLog[j].type = "evaluated"
                                      /\ eventLog[j].formula = e.formula /\ eventLog[j].content = e.content
      BY <3>1 DEF Evaluated
    <3>3. j < i /\ j \in DOMAIN eventLog' /\ eventLog'[j] = eventLog[j]
      BY <2>2, OneEventMore
    <3> QED
      BY <3>1, <3>2, <3>3
  <2> QED
    BY <2>1, <2>2, OneEventMore
<1> QED
  BY <1>1, <1>2 DEF HiddenOnce, Of

LEMMA KnownOneMore ==
  ASSUME AnySequence(eventLog), NEW e, eventLog' = Append(eventLog, e), NEW g
  PROVE  /\ Known(g)' \subseteq Known(g) \cup {<<e.formula, e.content>>}
         /\ e.topic # g \/ e.type # "registered" => Known(g)' = Known(g)
<1> DEFINE pair(i) == <<eventLog[i].formula, eventLog[i].content>>
<1>1. /\ Of(g, "registered")' \subseteq Of(g, "registered") \cup {Len(eventLog) + 1}
      /\ e.topic # g \/ e.type # "registered" => Of(g, "registered")' = Of(g, "registered")
  BY OfOneMore
<1>2. Known(g)' = {<<eventLog'[i].formula, eventLog'[i].content>> : i \in Of(g, "registered")'}
  BY DEF Known
<1>3. Of(g, "registered") \subseteq DOMAIN eventLog
  BY DEF Of
<1> QED
  BY <1>1, <1>2, <1>3, OneEventMore DEF Known

\* A step of one process in the campaign that it has open.
LEMMA AgentMoves ==
  ASSUME ResearchInv, NEW a \in Agents, NEW v, agent' = [agent EXCEPT ![a] = v],
         shared' = shared, agenda' = agenda, agent[a] # Closed,
         AgentFine(v)',
         v = Closed \/ (v.topic = agent[a].topic /\ agent[a].proposals \subseteq v.proposals),
         \/ eventLog' = eventLog
         \/ \E e : /\ eventLog' = Append(eventLog, e) /\ e.topic = agent[a].topic
                   /\ e.type = "hidden" => ~Overlaps(e.topic, e.rows) /\ Evaluated(e.topic, e.formula, e.content)
                   /\ e.type = "registered" => <<e.formula, e.content>> \in agent[a].proposals,
         PaidFirst("result", "reserved", "evaluated", DevBudget)',
         PaidFirst("submit", "hidden", "submitted", HidBudget)'
  PROVE  ResearchInv'
<1>1. AnySequence(eventLog) /\ agent = [b \in Agents |-> agent[b]] /\ \A b \in Agents : AgentFine(agent[b])
  BY DEF ResearchInv, AgentsTyped
<1>2. agent'[a] = v /\ \A b \in Agents : b # a => agent'[b] = agent[b]
  BY <1>1
<1>3. AgentsTyped'
  <2>1. \A b \in Agents : (AgentFine(agent[b]))'
    <3> SUFFICES ASSUME NEW b \in Agents PROVE (AgentFine(agent[b]))'
      OBVIOUS
    <3>1. PICK c : c = agent'[b]
      OBVIOUS
    <3>2. AgentFine(c)'
      <4>1. CASE b = a
        BY <1>2, <3>1, <4>1
      <4>2. CASE b # a
        <5>1. AgentFine(c)
          BY <1>1, <1>2, <3>1, <4>2
        <5> QED
          BY <1>1, <5>1, AgentFineKept
      <4> QED
        BY <4>1, <4>2
    <3> QED
      BY <3>1, <3>2
  <2>2. AnySequence(eventLog)'
    BY <1>1, OneEventMore
  <2> QED
    BY <1>1, <2>1, <2>2 DEF AgentsTyped, ResearchInv
<1>4. HiddenOnce'
  <2>1. CASE eventLog' = eventLog
    BY <2>1 DEF ResearchInv, HiddenOnce, Of
  <2>2. CASE eventLog' # eventLog
    BY <1>1, <2>2, HiddenStays DEF ResearchInv
  <2> QED
    BY <2>1, <2>2
<1>5. \A g : /\ g # agent[a].topic => Known(g)' = Known(g)
             /\ Known(g) \subseteq agent[a].proposals => Known(g)' \subseteq agent[a].proposals
  <2>1. CASE eventLog' = eventLog
    BY <2>1 DEF Known, Of
  <2>2. CASE eventLog' # eventLog
    <3> SUFFICES ASSUME NEW g
                 PROVE  /\ g # agent[a].topic => Known(g)' = Known(g)
                        /\ Known(g) \subseteq agent[a].proposals => Known(g)' \subseteq agent[a].proposals
      OBVIOUS
    <3>1. PICK e : /\ eventLog' = Append(eventLog, e) /\ e.topic = agent[a].topic
                   /\ e.type = "registered" => <<e.formula, e.content>> \in agent[a].proposals
      BY <2>2
    <3> QED
      BY <1>1, <3>1, KnownOneMore
  <2> QED
    BY <2>1, <2>2
<1>6. ~Conflicting(agent[a].proposals)
  BY <1>1 DEF AgentFine, HasOpen, WorksOn, Knows
<1>7. KnownToOne'
  <2> SUFFICES ASSUME NEW g, g \notin shared
               PROVE  /\ ~Conflicting(Known(g)')
                      /\ \A b \in Agents : agent'[b] # Closed /\ agent'[b].topic = g =>
                           /\ Known(g)' \subseteq agent'[b].proposals
                           /\ \A d \in Agents : agent'[d] # Closed /\ agent'[d].topic = g => d = b
    BY DEF KnownToOne, Conflicting
  <2>1. /\ ~Conflicting(Known(g))
        /\ \A b \in Agents : agent[b] # Closed /\ agent[b].topic = g =>
             /\ Known(g) \subseteq agent[b].proposals
             /\ \A d \in Agents : agent[d] # Closed /\ agent[d].topic = g => d = b
    BY DEF ResearchInv, KnownToOne
  <2>2. \A b \in Agents : agent'[b] # Closed /\ agent'[b].topic = g =>
           /\ agent[b] # Closed /\ agent[b].topic = g /\ agent[b].proposals \subseteq agent'[b].proposals
    BY <1>2
  <2>3. CASE g = agent[a].topic
    <3>1. Known(g)' \subseteq agent[a].proposals
      BY <1>5, <2>1, <2>3
    <3>2. ~Conflicting(Known(g)')
      BY <1>6, <3>1 DEF Conflicting
    <3> QED
      BY <2>1, <2>2, <2>3, <3>1, <3>2
  <2>4. CASE g # agent[a].topic
    <3>1. Known(g)' = Known(g)
      BY <1>5, <2>4
    <3> QED
      BY <2>1, <2>2, <3>1
  <2> QED
    BY <2>3, <2>4
<1> QED
  BY <1>3, <1>4, <1>7 DEF ResearchInv

\* The same, with the budgets.
LEMMA StepKeeps ==
  ASSUME ResearchInv, NEW a \in Agents, NEW v, agent' = [agent EXCEPT ![a] = v],
         shared' = shared, agenda' = agenda, agent[a] # Closed,
         AgentFine(v)',
         v = Closed \/ (v.topic = agent[a].topic /\ agent[a].proposals \subseteq v.proposals),
         \/ eventLog' = eventLog /\ v.at # "result" /\ v.at # "submit"
         \/ \E e : /\ eventLog' = Append(eventLog, e) /\ e.topic = agent[a].topic
                   /\ v.at = "result" => e.type = "reserved" /\ v.topic = e.topic
                   /\ v.at = "submit" => e.type = "hidden" /\ v.topic = e.topic
                   /\ e.type = "reserved" => v.at = "result" /\ Cardinality(Of(e.topic, "reserved")) < DevBudget
                   /\ e.type = "hidden" => v.at = "submit" /\ Cardinality(Of(e.topic, "hidden")) < HidBudget
                   /\ e.type = "evaluated" => agent[a].at = "result"
                   /\ e.type = "submitted" => agent[a].at = "submit"
                   /\ e.type = "hidden" => ~Overlaps(e.topic, e.rows) /\ Evaluated(e.topic, e.formula, e.content)
                   /\ e.type = "registered" => <<e.formula, e.content>> \in agent[a].proposals
  PROVE  ResearchInv'
<1>1. AnySequence(eventLog) /\ agent = [b \in Agents |-> agent[b]]
  BY DEF ResearchInv, AgentsTyped
<1>2. DevBudget \in Nat /\ HidBudget \in Nat
  BY ResearchAssumption
<1>3. /\ PaidFirst("result", "reserved", "evaluated", DevBudget)
      /\ PaidFirst("submit", "hidden", "submitted", HidBudget)
  BY DEF ResearchInv
<1>4. PaidFirst("result", "reserved", "evaluated", DevBudget)'
  <2>1. \/ eventLog' = eventLog /\ v.at # "result"
        \/ \E e : /\ eventLog' = Append(eventLog, e)
                  /\ v.at = "result" => e.type = "reserved" /\ v.topic = e.topic
                  /\ e.type = "reserved" => v.at = "result" /\ Cardinality(Of(e.topic, "reserved")) < DevBudget
                  /\ e.type = "evaluated" => agent[a].at = "result" /\ agent[a].topic = e.topic
    OBVIOUS
  <2> QED
    BY <1>1, <1>2, <1>3, <2>1, PaidFirstMoves
<1>5. PaidFirst("submit", "hidden", "submitted", HidBudget)'
  <2>1. \/ eventLog' = eventLog /\ v.at # "submit"
        \/ \E e : /\ eventLog' = Append(eventLog, e)
                  /\ v.at = "submit" => e.type = "hidden" /\ v.topic = e.topic
                  /\ e.type = "hidden" => v.at = "submit" /\ Cardinality(Of(e.topic, "hidden")) < HidBudget
                  /\ e.type = "submitted" => agent[a].at = "submit" /\ agent[a].topic = e.topic
    OBVIOUS
  <2> QED
    BY <1>1, <1>2, <1>3, <2>1, PaidFirstMoves
<1>6. \/ eventLog' = eventLog
      \/ \E e : /\ eventLog' = Append(eventLog, e) /\ e.topic = agent[a].topic
                /\ e.type = "hidden" => ~Overlaps(e.topic, e.rows) /\ Evaluated(e.topic, e.formula, e.content)
                /\ e.type = "registered" => <<e.formula, e.content>> \in agent[a].proposals
  OBVIOUS
<1> QED
  BY <1>4, <1>5, <1>6, AgentMoves

LEMMA CloseKeeps ==
  ASSUME ResearchInv, NEW a \in Agents, agent[a] # Closed, CloseCampaign(a), UNCHANGED <<eventLog, shared, agenda>>
  PROVE  ResearchInv'
<1>1. PICK v : v = Closed
  OBVIOUS
<1>2. agent' = [agent EXCEPT ![a] = v] /\ v.at # "result" /\ v.at # "submit" /\ AgentFine(v)'
  BY <1>1 DEF CloseCampaign, Closed, AgentFine
<1> QED
  BY <1>1, <1>2, StepKeeps

LEMMA AgentIsFine ==
  ASSUME ResearchInv, NEW a \in Agents, agent[a].at # "closed"
  PROVE  /\ agent[a] # Closed /\ Knows(agent[a])
         /\ agent[a].at \in {"open", "create"} \/ WorksOn(agent[a])
BY DEF ResearchInv, AgentsTyped, AgentFine, Closed, HasOpen, WorksOn

LEMMA ReadyKeeps ==
  ASSUME ResearchInv, NEW a \in Agents, agent[a].at # "closed", Ready(a), UNCHANGED <<shared, agenda>>,
         \/ eventLog' = eventLog
         \/ \E e : /\ eventLog' = Append(eventLog, e) /\ e.topic = agent[a].topic
                   /\ \/ e.type = "created"
                      \/ e.type = "submitted" /\ agent[a].at = "submit"
                      \/ e.type = "registered" /\ <<e.formula, e.content>> \in agent[a].proposals
  PROVE  ResearchInv'
<1>1. PICK v : v = [at |-> "open", topic |-> agent[a].topic, rows |-> agent[a].rows,
                    proposals |-> agent[a].proposals, results |-> agent[a].results]
  OBVIOUS
<1>2. agent' = [agent EXCEPT ![a] = v]
  BY <1>1 DEF Ready
<1>3. AgentFine(v)
  BY <1>1, AgentIsFine DEF AgentFine, HasOpen, Knows
<1>4. AgentFine(v)'
  BY <1>3, AgentFineKept DEF ResearchInv, AgentsTyped
<1>5. v.at = "open" /\ v.topic = agent[a].topic /\ v.proposals = agent[a].proposals
  BY <1>1
<1>6. agent[a] # Closed
  BY AgentIsFine
<1> QED
  BY <1>2, <1>4, <1>5, <1>6, StepKeeps

LEMMA StartKeeps ==
  ASSUME ResearchInv, NEW a \in Agents, agent[a].at = "open", UNCHANGED <<shared, agenda>>,
         NEW step \in {"register", "reserve", "hide"}, NEW f, NEW c, NEW P,
         Start(a, step, f, c, P), agent[a].proposals \subseteq P,
         ~Conflicting(P), \A q \in P : q = <<q[1], q[2]>>, <<f, c>> \in P,
         step = "hide" => <<f, c>> \in agent[a].results
  PROVE  ResearchInv'
<1>1. PICK v : v = [at |-> step, topic |-> agent[a].topic, rows |-> agent[a].rows,
                    results |-> agent[a].results, proposals |-> P, formula |-> f, content |-> c]
  OBVIOUS
<1>2. agent' = [agent EXCEPT ![a] = v] /\ eventLog' = eventLog
  BY <1>1 DEF Start
<1>3. Knows(agent[a])
  BY AgentIsFine
<1>4. AgentFine(v)
  <2>1. Knows(v)
    BY <1>1, <1>3 DEF Knows
  <2>2. step = "hide" => Evaluated(agent[a].topic, f, c)
    BY <1>3 DEF Knows
  <2> QED
    BY <1>1, <2>1, <2>2 DEF AgentFine, WorksOn
<1>5. AgentFine(v)'
  BY <1>2, <1>4, AgentFineKept DEF ResearchInv, AgentsTyped
<1>6. v.at # "result" /\ v.at # "submit" /\ v.topic = agent[a].topic /\ v.proposals = P /\ agent[a] # Closed
  BY <1>1, AgentIsFine
<1> QED
  BY <1>2, <1>5, <1>6, StepKeeps

-----------------------------------------------------------------------------
\* The steps, one by one.
LEMMA OpenKeeps ==
  ASSUME ResearchInv, NEW a \in Agents, OpenCampaign(a), agenda' = agenda
  PROVE  ResearchInv'
<1>1. PICK o \in agenda[a].opens :
        /\ ~Conflicting(Known(o[1]))
        /\ agent' = [agent EXCEPT ![a] =
             [at |-> IF Pinned(o[1]) = {} THEN "create" ELSE "open", topic |-> o[1], rows |-> o[2],
              proposals |-> Known(o[1]),
              results |-> {<<eventLog[i].formula, eventLog[i].content>> : i \in Of(o[1], "evaluated")}]]
        /\ shared' = shared \cup {t \in {o[1]} : \E b \in Agents : agent[b] # Closed /\ agent[b].topic = o[1]}
  BY DEF OpenCampaign
<1>2. eventLog' = eventLog /\ agent[a] = Closed
  BY DEF OpenCampaign
<1>3. PICK g : g = o[1]
  OBVIOUS
<1>4. PICK v : v = [at |-> IF Pinned(g) = {} THEN "create" ELSE "open", topic |-> g, rows |-> o[2],
                    proposals |-> Known(g),
                    results |-> {<<eventLog[i].formula, eventLog[i].content>> : i \in Of(g, "evaluated")}]
  OBVIOUS
<1>5. AnySequence(eventLog) /\ agent = [b \in Agents |-> agent[b]] /\ \A b \in Agents : AgentFine(agent[b])
  BY DEF ResearchInv, AgentsTyped
<1>6. agent' = [agent EXCEPT ![a] = v] /\ agent'[a] = v /\ \A b \in Agents : b # a => agent'[b] = agent[b]
  BY <1>1, <1>3, <1>4, <1>5
<1>7. AgentFine(v)
  <2>1. \A q \in v.results : q = <<q[1], q[2]>> /\ Evaluated(g, q[1], q[2])
    BY <1>4 DEF Evaluated, Of
  <2>2. \A q \in v.proposals : q = <<q[1], q[2]>>
    BY <1>4 DEF Known
  <2>3. v.proposals = Known(g) /\ ~Conflicting(Known(g)) /\ v.topic = g /\ v.at \in {"open", "create"}
    BY <1>1, <1>3, <1>4
  <2>4. Knows(v)
    BY <2>1, <2>2, <2>3 DEF Knows
  <2>5. v = [at |-> v.at, topic |-> v.topic, rows |-> v.rows, proposals |-> v.proposals, results |-> v.results]
    BY <1>4
  <2> QED
    BY <2>3, <2>4, <2>5 DEF AgentFine, HasOpen
<1>8. AgentsTyped'
  <2>1. \A c : AgentFine(c)' <=> AgentFine(c)
    BY <1>2 DEF AgentFine, HasOpen, WorksOn, Knows, Evaluated
  <2>2. \A b \in Agents : (AgentFine(agent[b]))'
    <3> SUFFICES ASSUME NEW b \in Agents PROVE (AgentFine(agent[b]))'
      OBVIOUS
    <3>1. PICK c : c = agent'[b]
      OBVIOUS
    <3>2. AgentFine(c)'
      BY <1>5, <1>6, <1>7, <2>1, <3>1
    <3> QED
      BY <3>1, <3>2
  <2>3. agent' = [b \in Agents |-> agent'[b]]
    BY <1>5, <1>6
  <2> QED
    BY <1>2, <2>2, <2>3 DEF ResearchInv, AgentsTyped
<1>9. HiddenOnce'
  BY <1>2 DEF ResearchInv, HiddenOnce, Of
<1>10. KnownToOne'
  <2> SUFFICES ASSUME NEW t, t \notin shared'
               PROVE  /\ ~Conflicting(Known(t)')
                      /\ \A b \in Agents : agent'[b] # Closed /\ agent'[b].topic = t =>
                           /\ Known(t)' \subseteq agent'[b].proposals
                           /\ \A d \in Agents : agent'[d] # Closed /\ agent'[d].topic = t => d = b
    BY DEF KnownToOne, Conflicting
  <2>1. Known(t)' = Known(t) /\ t \notin shared
    BY <1>1, <1>2 DEF Known, Of
  <2>2. /\ ~Conflicting(Known(t))
        /\ \A b \in Agents : agent[b] # Closed /\ agent[b].topic = t =>
             /\ Known(t) \subseteq agent[b].proposals
             /\ \A d \in Agents : agent[d] # Closed /\ agent[d].topic = t => d = b
    BY <2>1 DEF ResearchInv, KnownToOne
  <2>3. v.topic = g /\ v.proposals = Known(g)
    BY <1>4
  <2>4. t = g => \A b \in Agents : agent[b] # Closed => agent[b].topic # t
    BY <1>1, <1>3
  <2> QED
    BY <1>2, <1>6, <2>1, <2>2, <2>3, <2>4
<1>11. v.at # "result" /\ v.at # "submit" /\ DevBudget \in Nat /\ HidBudget \in Nat
  BY <1>4, ResearchAssumption
<1>12. PaidFirst("result", "reserved", "evaluated", DevBudget)'
  BY <1>2, <1>5, <1>6, <1>11, PaidFirstMoves DEF ResearchInv
<1>13. PaidFirst("submit", "hidden", "submitted", HidBudget)'
  BY <1>2, <1>5, <1>6, <1>11, PaidFirstMoves DEF ResearchInv
<1> QED
  BY <1>8, <1>9, <1>10, <1>12, <1>13 DEF ResearchInv

LEMMA CreateKeeps ==
  ASSUME ResearchInv, NEW a \in Agents, CreateCampaign(a), UNCHANGED <<shared, agenda>>
  PROVE  ResearchInv'
<1>1. agent[a].at = "create" /\ agent[a] # Closed
  BY DEF CreateCampaign, Closed
<1>2. CASE eventLog' = eventLog /\ CloseCampaign(a)
  BY <1>1, <1>2, CloseKeeps
<1>3. CASE LogEvent(a, "created", "none", "none") /\ Ready(a)
  <2>1. PICK e : e = [type |-> "created", topic |-> agent[a].topic, rows |-> agent[a].rows,
                      formula |-> "none", content |-> "none"]
    OBVIOUS
  <2>2. eventLog' = Append(eventLog, e) /\ e.topic = agent[a].topic /\ e.type = "created"
    BY <1>3, <2>1 DEF LogEvent
  <2> QED
    BY <1>1, <1>3, <2>2, ReadyKeeps
<1> QED
  BY <1>2, <1>3 DEF CreateCampaign

LEMMA RegisterKeeps ==
  ASSUME ResearchInv, NEW a \in Agents, RegisterFormula(a), UNCHANGED <<shared, agenda>>
  PROVE  ResearchInv'
<1>1. agent[a].at = "open" /\ Knows(agent[a])
  BY AgentIsFine DEF RegisterFormula
<1>2. PICK i \in agenda[a].ideas :
        /\ \A q \in agent[a].proposals : q[1] # i[1]
        /\ Start(a, "register", i[1], i[2], agent[a].proposals \cup {i})
  BY DEF RegisterFormula
<1>3. i = <<i[1], i[2]>>
  BY ResearchAssumption DEF ResearchInv, AgentsTyped
<1>4. PICK P : P = agent[a].proposals \cup {i}
  OBVIOUS
<1>5. ~Conflicting(P) /\ \A q \in P : q = <<q[1], q[2]>>
  BY <1>1, <1>2, <1>3, <1>4 DEF Knows, Conflicting
<1>6. Start(a, "register", i[1], i[2], P) /\ agent[a].proposals \subseteq P /\ <<i[1], i[2]>> \in P
  BY <1>2, <1>3, <1>4
<1> QED
  BY <1>1, <1>5, <1>6, StartKeeps

LEMMA EvaluateKeeps ==
  ASSUME ResearchInv, NEW a \in Agents, EvaluateDevelopment(a), UNCHANGED <<shared, agenda>>
  PROVE  ResearchInv'
<1>1. agent[a].at = "open" /\ Knows(agent[a])
  BY AgentIsFine DEF EvaluateDevelopment
<1>2. PICK q \in agent[a].proposals : Start(a, "reserve", q[1], q[2], agent[a].proposals)
  BY DEF EvaluateDevelopment
<1>3. q = <<q[1], q[2]>>
  BY <1>1 DEF Knows
<1>4. PICK P : P = agent[a].proposals
  OBVIOUS
<1>5. ~Conflicting(P) /\ (\A r \in P : r = <<r[1], r[2]>>) /\ <<q[1], q[2]>> \in P
  BY <1>1, <1>3, <1>4 DEF Knows
<1>6. Start(a, "reserve", q[1], q[2], P)
  BY <1>2, <1>4
<1> QED
  BY <1>1, <1>4, <1>5, <1>6, StartKeeps

LEMMA SubmitKeeps ==
  ASSUME ResearchInv, NEW a \in Agents, SubmitHidden(a), UNCHANGED <<shared, agenda>>
  PROVE  ResearchInv'
<1>1. agent[a].at = "open" /\ Knows(agent[a])
  BY AgentIsFine DEF SubmitHidden
<1>2. PICK q \in agent[a].proposals \cap agent[a].results : Start(a, "hide", q[1], q[2], agent[a].proposals)
  BY DEF SubmitHidden
<1>3. q = <<q[1], q[2]>>
  BY <1>1 DEF Knows
<1>4. PICK P : P = agent[a].proposals
  OBVIOUS
<1>5. ~Conflicting(P) /\ (\A r \in P : r = <<r[1], r[2]>>) /\ <<q[1], q[2]>> \in P
  BY <1>1, <1>3, <1>4 DEF Knows
<1>6. Start(a, "hide", q[1], q[2], P) /\ <<q[1], q[2]>> \in agent[a].results
  BY <1>2, <1>3, <1>4
<1> QED
  BY <1>1, <1>4, <1>5, <1>6, StartKeeps

\* The record that a process appends.
Logged(a, t) == [type |-> t, topic |-> agent[a].topic, rows |-> agent[a].rows,
                 formula |-> agent[a].formula, content |-> agent[a].content]

LEMMA AppendProposalKeeps ==
  ASSUME ResearchInv, NEW a \in Agents, AppendProposal(a), UNCHANGED <<shared, agenda>>
  PROVE  ResearchInv'
<1>1. agent[a].at = "register" /\ WorksOn(agent[a]) /\ Ready(a)
  BY AgentIsFine DEF AppendProposal
<1>2. PICK e : e = Logged(a, "registered")
  OBVIOUS
<1>3. eventLog' = Append(eventLog, e)
  BY <1>2 DEF AppendProposal, LogEvent, Logged
<1>4. e.topic = agent[a].topic /\ e.type = "registered" /\ <<e.formula, e.content>> \in agent[a].proposals
  BY <1>1, <1>2 DEF Logged, WorksOn
<1> QED
  BY <1>1, <1>3, <1>4, ReadyKeeps

LEMMA RecordHiddenKeeps ==
  ASSUME ResearchInv, NEW a \in Agents, RecordHidden(a), UNCHANGED <<shared, agenda>>
  PROVE  ResearchInv'
<1>1. agent[a].at = "submit" /\ Ready(a)
  BY DEF RecordHidden
<1>2. PICK e : e = Logged(a, "submitted")
  OBVIOUS
<1>3. eventLog' = Append(eventLog, e)
  BY <1>2 DEF RecordHidden, LogEvent, Logged
<1>4. e.topic = agent[a].topic /\ e.type = "submitted"
  BY <1>2 DEF Logged
<1> QED
  BY <1>1, <1>3, <1>4, ReadyKeeps

\* A reservation, of either kind.
LEMMA ReservationKeeps ==
  ASSUME ResearchInv, NEW a \in Agents, UNCHANGED <<shared, agenda>>,
         NEW t, NEW step, NEW e, e = Logged(a, t), eventLog' = Append(eventLog, e),
         agent' = [agent EXCEPT ![a].at = step],
         \/ /\ t = "reserved" /\ step = "result" /\ agent[a].at = "reserve"
            /\ Cardinality(Of(agent[a].topic, "reserved")) < DevBudget
         \/ /\ t = "hidden" /\ step = "submit" /\ agent[a].at = "hide"
            /\ Cardinality(Of(agent[a].topic, "hidden")) < HidBudget
            /\ ~Overlaps(agent[a].topic, agent[a].rows)
  PROVE  ResearchInv'
<1>1. WorksOn(agent[a]) /\ agent[a] # Closed
  BY AgentIsFine
<1>2. agent = [b \in Agents |-> agent[b]] /\ AnySequence(eventLog)
  BY DEF ResearchInv, AgentsTyped
<1>3. PICK c : c = agent[a]
  OBVIOUS
<1>4. PICK v : v = [at |-> step, topic |-> c.topic, rows |-> c.rows, results |-> c.results,
                    proposals |-> c.proposals, formula |-> c.formula, content |-> c.content]
  OBVIOUS
<1>5. v = [c EXCEPT !.at = step]
  BY <1>1, <1>3, <1>4 DEF WorksOn
<1>6. agent' = [agent EXCEPT ![a] = v]
  BY <1>2, <1>3, <1>5
<1>7. AgentFine(v)
  <2>1. Knows(v)
    BY <1>1, <1>3, <1>4 DEF WorksOn, Knows
  <2>2. v = [at |-> v.at, topic |-> v.topic, rows |-> v.rows, results |-> v.results,
             proposals |-> v.proposals, formula |-> v.formula, content |-> v.content]
    BY <1>4
  <2>3. v.at \in {"result", "submit"} /\ <<v.formula, v.content>> \in v.proposals
    BY <1>1, <1>3, <1>4 DEF WorksOn
  <2> QED
    BY <2>1, <2>2, <2>3 DEF AgentFine, WorksOn
<1>8. AgentFine(v)'
  BY <1>2, <1>7, AgentFineKept
<1>9. /\ v.at = step /\ v.topic = agent[a].topic /\ v.proposals = agent[a].proposals
      /\ e.type = t /\ e.topic = agent[a].topic /\ e.rows = agent[a].rows
      /\ e.formula = agent[a].formula /\ e.content = agent[a].content
  BY <1>3, <1>4 DEF Logged
<1>10. t = "hidden" => Evaluated(e.topic, e.formula, e.content) /\ ~Overlaps(e.topic, e.rows)
  BY <1>1, <1>9 DEF WorksOn
<1>11. /\ v.at = "result" => e.type = "reserved" /\ v.topic = e.topic
       /\ v.at = "submit" => e.type = "hidden" /\ v.topic = e.topic
       /\ e.type = "reserved" => v.at = "result" /\ Cardinality(Of(e.topic, "reserved")) < DevBudget
       /\ e.type = "hidden" => v.at = "submit" /\ Cardinality(Of(e.topic, "hidden")) < HidBudget
       /\ e.type # "evaluated" /\ e.type # "submitted" /\ e.type # "registered"
  BY <1>9
<1> QED
  BY <1>1, <1>6, <1>8, <1>9, <1>10, <1>11, StepKeeps

LEMMA ReserveDevelopmentKeeps ==
  ASSUME ResearchInv, NEW a \in Agents, ReserveDevelopment(a), UNCHANGED <<shared, agenda>>
  PROVE  ResearchInv'
<1>1. agent[a].at = "reserve"
  BY DEF ReserveDevelopment
<1>2. CASE Spent(agent[a].topic, "reserved") >= DevBudget
  <2>1. eventLog' = eventLog /\ Ready(a)
    BY <1>2 DEF ReserveDevelopment
  <2> QED
    BY <1>1, <2>1, ReadyKeeps
<1>3. CASE ~(Spent(agent[a].topic, "reserved") >= DevBudget)
  <2>1. PICK e : e = Logged(a, "reserved")
    OBVIOUS
  <2>2. eventLog' = Append(eventLog, e) /\ agent' = [agent EXCEPT ![a].at = "result"]
    BY <1>3, <2>1 DEF ReserveDevelopment, LogEvent, Logged
  <2>3. Cardinality(Of(agent[a].topic, "reserved")) < DevBudget
    BY <1>3, OfCount, ResearchAssumption DEF Spent, ResearchInv, AgentsTyped
  <2> QED
    BY <1>1, <2>1, <2>2, <2>3, ReservationKeeps
<1> QED
  BY <1>2, <1>3

LEMMA ReserveHiddenKeeps ==
  ASSUME ResearchInv, NEW a \in Agents, ReserveHidden(a), UNCHANGED <<shared, agenda>>
  PROVE  ResearchInv'
<1>1. agent[a].at = "hide"
  BY DEF ReserveHidden
<1> DEFINE refused == Spent(agent[a].topic, "hidden") >= HidBudget \/ Overlaps(agent[a].topic, agent[a].rows)
<1>2. CASE refused
  <2>1. eventLog' = eventLog /\ Ready(a)
    BY <1>2 DEF ReserveHidden
  <2> QED
    BY <1>1, <2>1, ReadyKeeps
<1>3. CASE ~refused
  <2>1. PICK e : e = Logged(a, "hidden")
    OBVIOUS
  <2>2. eventLog' = Append(eventLog, e) /\ agent' = [agent EXCEPT ![a].at = "submit"]
    BY <1>3, <2>1 DEF ReserveHidden, LogEvent, Logged
  <2>3. Cardinality(Of(agent[a].topic, "hidden")) < HidBudget /\ ~Overlaps(agent[a].topic, agent[a].rows)
    BY <1>3, OfCount, ResearchAssumption DEF Spent, ResearchInv, AgentsTyped
  <2> QED
    BY <1>1, <2>1, <2>2, <2>3, ReservationKeeps
<1> QED
  BY <1>2, <1>3

LEMMA RecordDevelopmentKeeps ==
  ASSUME ResearchInv, NEW a \in Agents, RecordDevelopment(a), UNCHANGED <<shared, agenda>>
  PROVE  ResearchInv'
<1>1. agent[a].at = "result"
  BY DEF RecordDevelopment
<1>2. WorksOn(agent[a]) /\ Knows(agent[a]) /\ agent[a] # Closed
  BY <1>1, AgentIsFine
<1>3. PICK c : c = agent[a]
  OBVIOUS
<1>4. PICK e : e = Logged(a, "evaluated")
  OBVIOUS
<1>5. eventLog' = Append(eventLog, e)
  BY <1>4 DEF RecordDevelopment, LogEvent, Logged
<1>6. PICK R : R = {r \in c.results : r[1] # c.formula} \cup {<<c.formula, c.content>>}
  OBVIOUS
<1>7. PICK v : v = [at |-> "open", topic |-> c.topic, rows |-> c.rows, proposals |-> c.proposals, results |-> R]
  OBVIOUS
<1>8. agent' = [agent EXCEPT ![a] = v]
  BY <1>3, <1>6, <1>7 DEF RecordDevelopment
<1>9. AnySequence(eventLog)
  BY DEF ResearchInv, AgentsTyped
<1>10. e.topic = c.topic /\ e.type = "evaluated" /\ e.formula = c.formula /\ e.content = c.content
  BY <1>3, <1>4 DEF Logged
<1>11. Evaluated(c.topic, c.formula, c.content)'
  <2>1. Len(eventLog) + 1 \in DOMAIN eventLog' /\ eventLog'[Len(eventLog) + 1] = e
    BY <1>5, <1>9, OneEventMore
  <2> QED
    BY <1>10, <2>1 DEF Evaluated
<1>12. Knows(c)'
  <2>1. AgentFine(c)'
    BY <1>2, <1>3, <1>5, <1>9, AgentFineKept DEF AgentFine
  <2> QED
    BY <1>2, <1>3, <2>1 DEF AgentFine, HasOpen, WorksOn
<1>13. Knows(v)'
  <2>1. \A q \in R : q = <<q[1], q[2]>> /\ Evaluated(c.topic, q[1], q[2])'
    BY <1>6, <1>11, <1>12 DEF Knows
  <2>2. v.topic = c.topic /\ v.proposals = c.proposals /\ v.results = R
    BY <1>7
  <2> QED
    BY <1>12, <2>1, <2>2 DEF Knows
<1>14. AgentFine(v)'
  BY <1>7, <1>13 DEF AgentFine, HasOpen
<1>15. v.at = "open" /\ v.topic = agent[a].topic /\ v.proposals = agent[a].proposals
  BY <1>3, <1>7
<1> QED
  BY <1>1, <1>2, <1>3, <1>5, <1>8, <1>10, <1>14, <1>15, StepKeeps

-----------------------------------------------------------------------------
LEMMA ResearchStarts ==
  ASSUME ResearchInit
  PROVE  ResearchInv
<1>1. eventLog = <<>> /\ shared = {} /\ agent = [a \in Agents |-> Closed] /\ agenda \in Agendas
  BY DEF ResearchInit
<1>2. AnySequence(eventLog) /\ DOMAIN eventLog = {}
  BY <1>1 DEF AnySequence
<1>3. AgentsTyped /\ HiddenOnce
  BY <1>1, <1>2 DEF AgentsTyped, AgentFine, HiddenOnce
<1>4. KnownToOne
  BY <1>1, <1>2 DEF KnownToOne, Known, Of, Conflicting
<1>5. ASSUME NEW step \in {"result", "submit"}, NEW paid, NEW done, NEW limit \in Nat
      PROVE  PaidFirst(step, paid, done, limit)
  <2>1. \A g : Of(g, done) = {} /\ Of(g, paid) = {} /\ Busy(step, g) = {}
    BY <1>1, <1>2 DEF Of, Busy, Closed
  <2> QED
    BY <2>1, FS_EmptySet DEF PaidFirst
<1> QED
  BY <1>3, <1>4, <1>5, ResearchAssumption DEF ResearchInv

LEMMA ResearchSteps ==
  ASSUME ResearchInv, [ResearchNext]_researchVars
  PROVE  ResearchInv'
<1>1. CASE UNCHANGED researchVars
  <2>1. eventLog' = eventLog /\ shared' = shared /\ agent' = agent /\ agenda' = agenda
    BY <1>1 DEF researchVars
  <2>2. AgentsTyped'
    BY <2>1 DEF ResearchInv, AgentsTyped, AgentFine, HasOpen, WorksOn, Knows, Evaluated
  <2>3. HiddenOnce'
    BY <2>1 DEF ResearchInv, HiddenOnce, Of
  <2>a. \A g : Known(g)' = Known(g)
    BY <2>1 DEF Known, Of
  <2>b. \A g : Conflicting(Known(g))' <=> Conflicting(Known(g))
    BY <2>a DEF Conflicting
  <2>4. KnownToOne'
    BY <2>1, <2>a, <2>b DEF ResearchInv, KnownToOne
  <2>5. \A g, t : Of(g, t)' = Of(g, t) /\ Busy(t, g)' = Busy(t, g)
    BY <2>1 DEF Of, Busy
  <2>6. /\ PaidFirst("result", "reserved", "evaluated", DevBudget)'
        /\ PaidFirst("submit", "hidden", "submitted", HidBudget)'
    BY <2>5 DEF ResearchInv, PaidFirst
  <2> QED
    BY <2>2, <2>3, <2>4, <2>6 DEF ResearchInv
<1>2. CASE ResearchNext
  <2>1. PICK a \in Agents : ResearchStep(a)
    BY <1>2 DEF ResearchNext
  <2>2. agenda' = agenda
    BY <1>2 DEF ResearchNext
  <2>3. CASE OpenCampaign(a)
    BY <2>2, <2>3, OpenKeeps
  <2>4. CASE ~OpenCampaign(a)
    <3>1. shared' = shared
      BY <2>1, <2>4 DEF ResearchStep
    <3>2. CASE CreateCampaign(a)
      BY <2>2, <3>1, <3>2, CreateKeeps
    <3>3. CASE RegisterFormula(a)
      BY <2>2, <3>1, <3>3, RegisterKeeps
    <3>4. CASE AppendProposal(a)
      BY <2>2, <3>1, <3>4, AppendProposalKeeps
    <3>5. CASE EvaluateDevelopment(a)
      BY <2>2, <3>1, <3>5, EvaluateKeeps
    <3>6. CASE ReserveDevelopment(a)
      BY <2>2, <3>1, <3>6, ReserveDevelopmentKeeps
    <3>7. CASE RecordDevelopment(a)
      BY <2>2, <3>1, <3>7, RecordDevelopmentKeeps
    <3>8. CASE SubmitHidden(a)
      BY <2>2, <3>1, <3>8, SubmitKeeps
    <3>9. CASE ReserveHidden(a)
      BY <2>2, <3>1, <3>9, ReserveHiddenKeeps
    <3>10. CASE RecordHidden(a)
      BY <2>2, <3>1, <3>10, RecordHiddenKeeps
    <3>11. CASE LeaveCampaign(a)
      BY <2>2, <3>1, <3>11, CloseKeeps DEF LeaveCampaign
    <3>12. CASE FailDevelopment(a)
      BY <2>2, <3>1, <3>12, ReadyKeeps DEF FailDevelopment
    <3> QED
      BY <2>1, <2>4, <3>2, <3>3, <3>4, <3>5, <3>6, <3>7, <3>8, <3>9, <3>10, <3>11, <3>12 DEF ResearchStep
  <2> QED
    BY <2>3, <2>4
<1> QED
  BY <1>1, <1>2

\* The state of the store and of the processes between any two steps: whoever records a
\* result has reserved it, and a campaign that one process at a time has had open holds only
\* proposals that this process knows (OfferLabResearch).
THEOREM ResearchInvariant == ResearchSpec => []ResearchInv
<1> QED
  BY ResearchStarts, ResearchSteps, PTL DEF ResearchSpec

\* For every number of processes, campaigns and proposals, and whatever the budgets are: no
\* more results than the budgets allow, hidden cases submitted once and for what was
\* evaluated, and no campaign unreadable unless two processes had it open (api.py).
THEOREM ResearchCampaignSound == ResearchSpec => []CampaignSound
<1>1. ResearchInv => CampaignSound
  <2> SUFFICES ASSUME ResearchInv PROVE CampaignSound
    OBVIOUS
  <2>1. AnySequence(eventLog) /\ agent = [a \in Agents |-> agent[a]]
    BY DEF ResearchInv, AgentsTyped
  <2>2. \A step, g : Cardinality(Busy(step, g)) \in Nat
    <3>1. \A step, g : IsFiniteSet(Busy(step, g))
      <4>1. IsFiniteSet(Agents) /\ \A step, g : Busy(step, g) \subseteq Agents
        BY ResearchAssumption DEF Busy
      <4> QED
        BY <4>1, FS_Subset, Zenon
    <3> QED
      BY <3>1, FS_CardinalityType, Zenon
  <2>3. \A g, t : Cardinality(Of(g, t)) \in Nat
    BY <2>1, OfCount
  <2>4. ASSUME NEW g
        PROVE  Cardinality(Of(g, "evaluated")) <= DevBudget /\ Cardinality(Of(g, "submitted")) <= HidBudget
    <3>1. /\ Cardinality(Of(g, "evaluated")) + Cardinality(Busy("result", g)) <= Cardinality(Of(g, "reserved"))
          /\ Cardinality(Of(g, "reserved")) <= DevBudget
          /\ Cardinality(Of(g, "submitted")) + Cardinality(Busy("submit", g)) <= Cardinality(Of(g, "hidden"))
          /\ Cardinality(Of(g, "hidden")) <= HidBudget
      BY DEF ResearchInv, PaidFirst
    <3>2. Cardinality(Busy("result", g)) \in Nat /\ Cardinality(Busy("submit", g)) \in Nat
      BY <2>2
    <3>3. /\ Cardinality(Of(g, "evaluated")) \in Nat /\ Cardinality(Of(g, "reserved")) \in Nat
          /\ Cardinality(Of(g, "submitted")) \in Nat /\ Cardinality(Of(g, "hidden")) \in Nat
      BY <2>3
    <3>4. DevBudget \in Nat /\ HidBudget \in Nat
      BY ResearchAssumption
    <3> QED
      BY <3>1, <3>2, <3>3, <3>4
  <2>5. ResearchWithinBudget
    BY <2>4 DEF ResearchInv, HiddenOnce, ResearchWithinBudget
  <2>6. UnreadableOnlyByOverlap
    BY DEF ResearchInv, KnownToOne, UnreadableOnlyByOverlap, Reopens
  <2> QED
    BY <2>5, <2>6 DEF CampaignSound
<1> QED
  BY <1>1, ResearchInvariant, PTL

-----------------------------------------------------------------------------
(* The consent ledger and the exports made under it.                       *)

OneRecord(r) ==
  r.store \in Stores /\ r.at \in Times /\ r.granted \cap r.prohibited = {}
RecordsOK == AnySequence(consents) /\ \A i \in 1..Len(consents) : OneRecord(consents[i])

\* Among the first n records one that granted p to the store, effective by c, is later than
\* all that prohibited it.
Held(s, p, n, c) ==
  \E m \in 1..n :
    /\ Relevant(consents[m], s, p, c) /\ p \in consents[m].granted
    /\ \A k \in 1..n : Relevant(consents[k], s, p, c) /\ p \in consents[k].prohibited
                         => consents[k].at < consents[m].at

LEMMA RelevantFacts ==
  ASSUME RecordsOK, NEW s, NEW p, NEW c
  PROVE  /\ RelevantRecords(s, p, c) = {i \in 1..Len(consents) : Relevant(consents[i], s, p, c)}
         /\ Len(consents) \in Nat
         /\ IsFiniteSet(RelevantRecords(s, p, c))
         /\ \A i \in RelevantRecords(s, p, c) : i \in 1..Len(consents) /\ consents[i].at \in Nat /\ consents[i].at <= c
         /\ \A i \in RelevantRecords(s, p, c) : p \in consents[i].granted <=> p \notin consents[i].prohibited
<1>1. Len(consents) \in Nat /\ DOMAIN consents = 1..Len(consents)
  BY AppendFacts DEF RecordsOK
<1>2. RelevantRecords(s, p, c) = {i \in 1..Len(consents) : Relevant(consents[i], s, p, c)}
  BY <1>1 DEF RelevantRecords
<1>3. IsFiniteSet(1..Len(consents))
  BY <1>1, FS_Interval
<1>4. IsFiniteSet(RelevantRecords(s, p, c))
  BY <1>2, <1>3, FS_Subset
<1>5. ASSUME NEW i \in RelevantRecords(s, p, c)
      PROVE  /\ i \in 1..Len(consents) /\ consents[i].at \in Nat /\ consents[i].at <= c
             /\ p \in consents[i].granted <=> p \notin consents[i].prohibited
  <2>1. i \in 1..Len(consents) /\ Relevant(consents[i], s, p, c) /\ OneRecord(consents[i])
    BY <1>2 DEF RecordsOK
  <2> QED
    BY <2>1, ConsentAssumption DEF Relevant, OneRecord, Times
<1> QED
  BY <1>1, <1>2, <1>4, <1>5, Zenon

\* Of the relevant records one comes last.
LEMMA OneIsLast ==
  ASSUME RecordsOK, NEW s, NEW p, NEW c \in Nat, RelevantRecords(s, p, c) # {}
  PROVE  \E m \in RelevantRecords(s, p, c) : \A k \in RelevantRecords(s, p, c) : k # m => Earlier(k, m, p)
<1> DEFINE R == RelevantRecords(s, p, c)
           n == Len(consents)
<1>0. /\ n \in Nat /\ R \subseteq 1..n /\ R # {}
      /\ \A i \in R : consents[i].at \in Nat /\ consents[i].at <= c
  BY RelevantFacts
<1> HIDE DEF R, n
<1> DEFINE A == {consents[i].at + 1 : i \in R}
<1>1. A \subseteq 1..(c + 1) /\ A # {} /\ c + 1 \in Nat
  <2>1. ASSUME NEW i \in R PROVE consents[i].at + 1 \in 1..(c + 1)
    <3>1. consents[i].at \in Nat /\ consents[i].at <= c
      BY <1>0
    <3> QED
      BY <3>1
  <2>2. A # {}
    BY <1>0
  <2> QED
    BY <2>1, <2>2
<1>2. PICK t \in Nat : \E i \in R : consents[i].at = t /\ \A k \in R : consents[k].at <= t
  <2>1. Max(A) \in A /\ \A y \in A : Max(A) >= y
    BY <1>1, MaxFacts
  <2>2. PICK i \in R : Max(A) = consents[i].at + 1
    BY <2>1
  <2>3. \A k \in R : consents[k].at + 1 \in A
    OBVIOUS
  <2>4. ASSUME NEW k \in R PROVE consents[k].at <= consents[i].at
    <3>1. consents[i].at + 1 >= consents[k].at + 1
      BY <2>1, <2>2, <2>3 
    <3> QED
      BY <1>0, <3>1
  <2> QED
    BY <1>0, <2>2, <2>4
<1> DEFINE B == {i \in R : consents[i].at = t}
           P == {i \in B : p \in consents[i].prohibited}
           C == IF P = {} THEN B ELSE P
<1>3. C \subseteq 1..n /\ C # {} /\ C \subseteq R
  BY <1>0, <1>2
<1>4. \A k \in R \ C : \A m \in C : Earlier(k, m, p)
  BY <1>0, <1>2 DEF Earlier
<1>5. \A k, m \in C : k < m => Earlier(k, m, p)
  BY <1>0, <1>2 DEF Earlier
<1>6. PICK m \in C : \A y \in C : m >= y
  <2> HIDE DEF C
  <2> QED BY <1>0, <1>3, MaxFacts
<1>7. ASSUME NEW k \in R, k # m PROVE Earlier(k, m, p)
  <2>1. CASE k \in C
    <3>1. k < m
      BY <1>0, <1>3, <1>6, <1>7, <2>1
    <3> QED
      BY <1>5, <2>1, <3>1
  <2>2. CASE k \notin C
    BY <1>4, <2>2
  <2> QED
    BY <2>1, <2>2
<1>8. m \in R
  BY <1>3
<1>9. \E x \in R : \A k \in R : k # x => Earlier(k, x, p)
  BY <1>7, <1>8
<1> QED
  BY <1>9 DEF R

LEMMA EarlierIsStrict ==
  ASSUME RecordsOK, NEW p, NEW i \in 1..Len(consents), NEW j \in 1..Len(consents), Earlier(i, j, p)
  PROVE  i # j /\ ~Earlier(j, i, p)
<1>1. consents[i].at \in Nat /\ consents[j].at \in Nat /\ i \in Nat /\ j \in Nat
  BY ConsentAssumption DEF RecordsOK, OneRecord, Times
<1> QED
  BY <1>1 DEF Earlier

\* The last of them is the last of the sorted sequence.
LEMMA LastIsLast ==
  ASSUME RecordsOK, NEW s, NEW p, NEW c \in Nat, NEW m \in RelevantRecords(s, p, c),
         \A k \in RelevantRecords(s, p, c) : k # m => Earlier(k, m, p)
  PROVE  /\ Cardinality(RelevantRecords(s, p, c)) \in Nat \ {0}
         /\ Effective(s, p, c)[Cardinality(RelevantRecords(s, p, c))] = m
<1> DEFINE R == RelevantRecords(s, p, c)
           Earliers(i) == {j \in R : Earlier(j, i, p)}
           n == Cardinality(R)
<1>1. IsFiniteSet(R) /\ m \in R /\ \A i \in R : i \in 1..Len(consents)
  BY RelevantFacts
<1>2. \A i, j \in R : Earlier(i, j, p) => i # j /\ ~Earlier(j, i, p)
  BY <1>1, EarlierIsStrict
<1>3. \A k \in R : k # m => Earlier(k, m, p)
  OBVIOUS
<1>0. Effective(s, p, c) = [x \in 1..n |-> CHOOSE i \in R : Cardinality(Earliers(i)) = x - 1]
  BY DEF Effective
<1> HIDE DEF R
<1>4. n \in Nat /\ IsFiniteSet(R \ {m}) /\ Cardinality(R \ {m}) = n - 1
  BY <1>1, FS_RemoveElement, FS_CardinalityType
<1>5. n # 0
  BY <1>1, FS_EmptySet
<1>6. Earliers(m) = R \ {m}
  BY <1>2, <1>3
<1>7. ASSUME NEW i \in R, i # m PROVE Cardinality(Earliers(i)) # n - 1
  <2>1. i \in R \ {m}
    BY <1>7
  <2>2. IsFiniteSet((R \ {m}) \ {i}) /\ Cardinality((R \ {m}) \ {i}) = n - 1 - 1
    BY <1>4, <2>1, FS_RemoveElement
  <2>3. Earliers(i) \subseteq (R \ {m}) \ {i}
    BY <1>2, <1>3, <1>7
  <2>4. Cardinality(Earliers(i)) <= Cardinality((R \ {m}) \ {i}) /\ Cardinality(Earliers(i)) \in Nat
    BY <2>2, <2>3, FS_Subset, FS_CardinalityType
  <2> QED
    BY <1>4, <2>2, <2>4
<1>8. (CHOOSE i \in R : Cardinality(Earliers(i)) = n - 1) = m
  BY <1>1, <1>4, <1>6, <1>7
<1>9. Effective(s, p, c)[n] = m /\ n \in Nat \ {0}
  <2> HIDE DEF Earliers
  <2>1. n \in 1..n
    BY <1>4, <1>5
  <2> HIDE DEF n
  <2> QED
    BY <1>0, <1>4, <1>5, <1>8, <2>1
<1> QED
  BY <1>9 DEF R

\* The last record decides.
LEMMA LastDecides ==
  ASSUME NEW s, NEW p, NEW c, Cardinality(RelevantRecords(s, p, c)) \in Nat
  PROVE  IsActive(s, p, c) <=>
           /\ Cardinality(RelevantRecords(s, p, c)) # 0
           /\ p \in consents[Effective(s, p, c)[Cardinality(RelevantRecords(s, p, c))]].granted
<1> DEFINE e == Effective(s, p, c)
           n == Cardinality(RelevantRecords(s, p, c))
           G == [T \in SUBSET (1..n) |-> IF T = {} THEN FALSE ELSE p \in consents[e[Max(T)]].granted]
<1>1. DOMAIN e = 1..n
  BY DEF Effective
<1> HIDE DEF e
<1>2. FoldLeft(LAMBDA state, i : p \in consents[i].granted, FALSE, e)
        = (CHOOSE iter : iter = [T \in SUBSET DOMAIN e |-> IF T = {} THEN FALSE ELSE p \in consents[e[Max(T)]].granted])[DOMAIN e]
  BY DEF FoldLeft, MapThenFoldSet
<1>3. IsActive(s, p, c) <=> G[1..n]
  BY <1>1, <1>2, Zenon DEF IsActive, e
<1>4. CASE n = 0
  <2>1. 1..n = {}
    BY <1>4
  <2>2. ~G[1..n]
    BY <2>1, Zenon
  <2> QED
    BY <1>3, <1>4, <2>2, Zenon
<1>5. CASE n # 0
  <2>1. 1..n # {} /\ Max(1..n) = n
    <3> HIDE DEF n
    <3>1. n \in Nat /\ 1..n # {}
      BY <1>5 DEF n
    <3>2. Max(1..n) \in 1..n /\ \A y \in 1..n : Max(1..n) >= y
      BY <3>1, MaxFacts
    <3>3. n \in 1..n
      BY <3>1
    <3> QED
      BY <3>1, <3>2, <3>3
  <2>2. G[1..n] <=> p \in consents[e[n]].granted
    BY <2>1, Zenon
  <2> QED
    BY <1>3, <1>5, <2>2, Zenon DEF e
<1> QED
  BY <1>4, <1>5

\* is_active, as declared: what was granted is later than all that was prohibited.
LEMMA ActiveIsHeld ==
  ASSUME RecordsOK, NEW s, NEW p, NEW c \in Nat
  PROVE  IsActive(s, p, c) <=> Held(s, p, Len(consents), c)
<1> DEFINE R == RelevantRecords(s, p, c)
           n == Cardinality(R)
<1>1. /\ R = {i \in 1..Len(consents) : Relevant(consents[i], s, p, c)} /\ IsFiniteSet(R)
      /\ \A i \in R : i \in 1..Len(consents) /\ consents[i].at \in Nat /\ consents[i].at <= c
      /\ \A i \in R : p \in consents[i].granted <=> p \notin consents[i].prohibited
  BY RelevantFacts
<1>2. n \in Nat /\ (n = 0 <=> R = {})
  BY <1>1, FS_CardinalityType, FS_EmptySet
<1>3. IsActive(s, p, c) <=> n # 0 /\ p \in consents[Effective(s, p, c)[n]].granted
  BY <1>2, LastDecides
<1>4. CASE R = {}
  BY <1>1, <1>2, <1>3, <1>4 DEF Held
<1>5. CASE R # {}
  <2>1. PICK m \in R : \A k \in R : k # m => Earlier(k, m, p)
    BY <1>5, OneIsLast
  <2>2. Effective(s, p, c)[n] = m
    BY <2>1, LastIsLast
  <2>3. IsActive(s, p, c) <=> p \in consents[m].granted
    BY <1>2, <1>3, <1>5, <2>2
  <2>4. \A k \in R : k # m => \/ consents[k].at < consents[m].at
                              \/ consents[k].at = consents[m].at /\ (p \in consents[k].prohibited => p \in consents[m].prohibited)
    BY <2>1 DEF Earlier
  <2> HIDE DEF R, n
  <2>5. ASSUME p \in consents[m].granted PROVE Held(s, p, Len(consents), c)
    <3>1. ASSUME NEW k \in R, p \in consents[k].prohibited PROVE consents[k].at < consents[m].at
      <4>1. k # m /\ p \notin consents[m].prohibited
        BY <1>1, <2>5, <3>1, Zenon
      <4> QED
        BY <2>4, <3>1, <4>1
    <3> QED
      BY <1>1, <2>1, <2>5, <3>1 DEF Held
  <2>6. ASSUME Held(s, p, Len(consents), c), p \notin consents[m].granted PROVE FALSE
    <3>1. PICK h \in R : \A k \in R : p \in consents[k].prohibited => consents[k].at < consents[h].at
      BY <1>1, <2>6 DEF Held
    <3>2. consents[m].at < consents[h].at
      BY <1>1, <2>1, <2>6, <3>1
    <3>3. consents[m].at \in Nat /\ consents[h].at \in Nat
      BY <1>1, Zenon
    <3>4. h # m
      BY <3>2, <3>3
    <3>5. consents[h].at < consents[m].at \/ consents[h].at = consents[m].at
      BY <2>4, <3>4
    <3> QED
      BY <3>2, <3>3, <3>5
  <2> QED
    BY <2>3, <2>5, <2>6
<1> QED
  BY <1>4, <1>5

LEMMA RecordsGiveDeclared ==
  ASSUME RecordsOK PROVE ConsentAsDeclared
<1> SUFFICES ASSUME NEW s \in Stores, NEW p \in Purposes, NEW t \in Times
    PROVE LET effective == {r \in Range(consents) : Relevant(r, s, p, t)}
              latest == {r \in effective : \A q \in effective : q.at <= r.at}
          IN  IsActive(s, p, t) <=> (latest # {} /\ \A r \in latest : p \notin r.prohibited)
  BY DEF ConsentAsDeclared
<1> DEFINE effective == {r \in Range(consents) : Relevant(r, s, p, t)}
           latest == {r \in effective : \A q \in effective : q.at <= r.at}
           R == RelevantRecords(s, p, t)
<1>0. t \in Nat
  BY ConsentAssumption DEF Times
<1>1. /\ R = {i \in 1..Len(consents) : Relevant(consents[i], s, p, t)}
      /\ \A i \in R : i \in 1..Len(consents) /\ consents[i].at \in Nat /\ consents[i].at <= t
      /\ \A i \in R : p \in consents[i].granted <=> p \notin consents[i].prohibited
  BY RelevantFacts
<1>2. effective = {consents[i] : i \in R}
  <2>1. DOMAIN consents = 1..Len(consents)
    BY AppendFacts DEF RecordsOK
  <2> QED
    BY <1>1, <2>1 DEF Range
<1>3. IsActive(s, p, t) <=> Held(s, p, Len(consents), t)
  BY <1>0, ActiveIsHeld
<1>4. ASSUME NEW m \in R, \A k \in R : k # m => Earlier(k, m, p) PROVE consents[m] \in latest
  <2>1. ASSUME NEW k \in R PROVE consents[k].at <= consents[m].at
    <3>1. consents[m].at \in Nat /\ consents[k].at \in Nat
      BY <1>1, Zenon
    <3>2. CASE k = m
      BY <3>1, <3>2
    <3>3. CASE k # m
      BY <1>4, <3>1, <3>3 DEF Earlier
    <3> QED
      BY <3>2, <3>3
  <2> QED
    BY <1>2, <2>1
<1>5. \A r \in latest : r \in effective /\ \A q \in effective : q.at <= r.at
  OBVIOUS
<1> HIDE DEF R, effective, latest
<1>6. ASSUME Held(s, p, Len(consents), t) PROVE latest # {} /\ \A r \in latest : p \notin r.prohibited
  <2>1. PICK h \in R : p \in consents[h].granted /\ \A k \in R : p \in consents[k].prohibited => consents[k].at < consents[h].at
    BY <1>1, <1>6 DEF Held
  <2>2. latest # {}
    BY <1>0, <1>4, <2>1, OneIsLast DEF R
  <2>3. ASSUME NEW r \in latest, p \in r.prohibited PROVE FALSE
    <3>1. PICK k \in R : r = consents[k]
      BY <1>2, <1>5, <2>3
    <3>2. consents[h].at <= consents[k].at
      BY <1>2, <1>5, <2>1, <2>3, <3>1
    <3>3. consents[k].at < consents[h].at /\ consents[k].at \in Nat /\ consents[h].at \in Nat
      BY <1>1, <2>1, <2>3, <3>1, Zenon
    <3> QED
      BY <3>2, <3>3
  <2> QED
    BY <2>2, <2>3
<1>7. ASSUME latest # {}, \A r \in latest : p \notin r.prohibited PROVE Held(s, p, Len(consents), t)
  <2>1. PICK m \in R : \A k \in R : k # m => Earlier(k, m, p)
    BY <1>0, <1>2, <1>5, <1>7, OneIsLast DEF R
  <2>2. p \in consents[m].granted /\ p \notin consents[m].prohibited
    BY <1>1, <1>4, <1>7, <2>1
  <2>3. \A k \in R : p \in consents[k].prohibited => consents[k].at < consents[m].at
    BY <1>1, <2>1, <2>2 DEF Earlier
  <2> QED
    BY <1>1, <2>2, <2>3 DEF Held
<1> QED
  BY <1>3, <1>6, <1>7 DEF latest, effective

-----------------------------------------------------------------------------
\* A record that excuses an inactive consent in the lineage of an export.
Excused(e, s) ==
  \E i \in 1..Len(consents) :
    /\ consents[i].store = s /\ e.purpose \in consents[i].prohibited
    /\ i > e.from \/ (consents[i].at > e.began /\ e.asOf > MaxTime)

\* The consent of the next store was found active, in what was on record then.
Asked(e) ==
  \E n \in e.from..Len(consents), c \in Nat :
    /\ IF e.asOf > MaxTime THEN e.began <= c /\ c <= clock ELSE c = e.asOf
    /\ Held(NextStore(e), e.purpose, n, c)

ExportFields(e) ==
  e = [at |-> e.at, purpose |-> e.purpose, asOf |-> e.asOf, rows |-> e.rows, todo |-> e.todo,
       lineage |-> e.lineage, from |-> e.from, began |-> e.began]
Entered(e) == {l.store : l \in e.lineage}
ExportOK(e) ==
  /\ ExportFields(e) /\ e.todo \subseteq Stores
  /\ e.from \in 0..Len(consents) /\ e.began \in 0..clock /\ e.asOf \in Nat
  /\ {StoreOf[k] : k \in e.rows} = Entered(e) \cup e.todo
  /\ e.at \in {"require", "evidence", "state", "returned"} /\ (e.at = "returned" <=> e.todo = {})
  /\ \A l \in e.lineage : ~l.active => Excused(e, l.store) \/ (e.at = "state" /\ l.store = NextStore(e))
  /\ e.at \in {"evidence", "state"} => Asked(e)
  /\ e.at = "state" => NextStore(e) \in Entered(e)

Idle(e) == e.at = "none" \/ (e.at = "project" /\ e.sale \in Sales)
ConsentInv ==
  /\ RecordsOK /\ clock \in Times /\ sold \subseteq Sales
  /\ exporting = [x \in Exporters |-> exporting[x]]
  /\ \A x \in Exporters : Idle(exporting[x]) \/ ExportOK(exporting[x])

LEMMA InvGivesConsented ==
  ASSUME ConsentInv PROVE DatasetConsented
<1> SUFFICES ASSUME NEW x \in Exporters, Exporting(x, "returned")
    PROVE LET e == exporting[x]
          IN  /\ {StoreOf[k] : k \in e.rows} = {l.store : l \in e.lineage}
              /\ \A l \in e.lineage : ~l.active =>
                   \E i \in DOMAIN consents :
                     /\ consents[i].store = l.store /\ e.purpose \in consents[i].prohibited
                     /\ i > e.from \/ (consents[i].at > e.began /\ e.asOf > MaxTime)
  BY DEF DatasetConsented
<1>0. PICK e : e = exporting[x]
  OBVIOUS
<1>1. e.at = "returned" /\ ExportOK(e)
  BY <1>0 DEF ConsentInv, Idle, Exporting
<1>2. {StoreOf[k] : k \in e.rows} = {l.store : l \in e.lineage}
  BY <1>1 DEF ExportOK, Entered
<1>3. ASSUME NEW l \in e.lineage, ~l.active PROVE Excused(e, l.store)
  BY <1>1, <1>3 DEF ExportOK
<1>4. DOMAIN consents = 1..Len(consents)
  BY AppendFacts DEF ConsentInv, RecordsOK
<1> QED
  BY <1>0, <1>2, <1>3, <1>4, Zenon DEF Excused

\* What excuses an export that finds the consent gone that it found before.
LEMMA GoneIsExcused ==
  ASSUME RecordsOK, clock \in Times, NEW e, ExportOK(e), Asked(e),
         ~IsActive(NextStore(e), e.purpose, Cutoff(e))
  PROVE  Excused(e, NextStore(e))
<1> DEFINE s == NextStore(e)
           p == e.purpose
           d == Cutoff(e)
<1>1. PICK n \in e.from..Len(consents), c \in Nat :
        /\ IF e.asOf > MaxTime THEN e.began <= c /\ c <= clock ELSE c = e.asOf
        /\ Held(s, p, n, c)
  BY DEF Asked
<1>2. /\ MaxTime \in Nat /\ clock \in Nat /\ Len(consents) \in Nat /\ e.asOf \in Nat /\ e.from \in Nat /\ e.began \in Nat
      /\ n \in Nat /\ n <= Len(consents) /\ e.from <= n
  <2>1. Len(consents) \in Nat
    BY AppendFacts DEF RecordsOK
  <2> QED
    BY <2>1, ConsentAssumption DEF ExportOK, Times
<1>3. d \in Nat /\ c <= d /\ (~(e.asOf > MaxTime) => c = d)
  BY <1>1, <1>2 DEF Cutoff
<1>4. ~Held(s, p, Len(consents), d)
  BY <1>3, ActiveIsHeld
<1>5. \A i \in 1..Len(consents) : consents[i].at \in Nat
  BY ConsentAssumption DEF RecordsOK, OneRecord, Times
<1> HIDE DEF s, p, d
<1>6. PICK m \in 1..n : /\ Relevant(consents[m], s, p, c) /\ p \in consents[m].granted
                        /\ \A k \in 1..n : Relevant(consents[k], s, p, c) /\ p \in consents[k].prohibited
                                             => consents[k].at < consents[m].at
  BY <1>1 DEF Held
<1>7. m \in 1..Len(consents) /\ consents[m].at \in Nat
  BY <1>2, <1>5, <1>6
<1>8. Relevant(consents[m], s, p, d)
  BY <1>3, <1>6, <1>7 DEF Relevant
<1>9. PICK k \in 1..Len(consents) : /\ Relevant(consents[k], s, p, d) /\ p \in consents[k].prohibited
                                    /\ ~(consents[k].at < consents[m].at)
  BY <1>4, <1>6, <1>7, <1>8 DEF Held
<1>10. k > n \/ consents[k].at > c
  <2> SUFFICES ASSUME ~(k > n), ~(consents[k].at > c) PROVE FALSE
    OBVIOUS
  <2>1. k \in 1..n
    BY <1>2, <1>9
  <2>2. consents[k].at <= c
    BY <1>5, <1>9
  <2>3. Relevant(consents[k], s, p, c)
    BY <1>9, <2>2 DEF Relevant
  <2> QED
    BY <1>6, <1>9, <2>1, <2>3
<1>11. consents[k].store = s /\ consents[k].at <= d /\ consents[k].at \in Nat
  BY <1>5, <1>9 DEF Relevant
<1>12. k > e.from \/ (consents[k].at > e.began /\ e.asOf > MaxTime)
  <2>1. CASE k > n
    BY <1>2, <1>9, <2>1
  <2>2. CASE consents[k].at > c
    <3>1. e.asOf > MaxTime
      BY <1>2, <1>3, <1>11, <2>2
    <3>2. e.began <= c
      BY <1>1, <3>1
    <3> QED
      BY <1>2, <1>11, <2>2, <3>1, <3>2
  <2> QED
    BY <1>10, <2>1, <2>2
<1> QED
  BY <1>9, <1>11, <1>12 DEF Excused, s, p

\* What is so stays so when a record is added or time passes.
LEMMA ExportStays ==
  ASSUME RecordsOK, clock \in Nat, NEW e, ExportOK(e), clock' \in Nat, clock <= clock',
         Len(consents)' \in Nat, Len(consents) <= Len(consents)',
         \A i \in 1..Len(consents) : consents'[i] = consents[i]
  PROVE  ExportOK(e)'
<1>0. Len(consents) \in Nat
  BY AppendFacts DEF RecordsOK
<1>1. \A s : Excused(e, s) => Excused(e, s)'
  <2> SUFFICES ASSUME NEW s, Excused(e, s) PROVE Excused(e, s)'
    OBVIOUS
  <2>1. PICK i \in 1..Len(consents) :
          /\ consents[i].store = s /\ e.purpose \in consents[i].prohibited
          /\ i > e.from \/ (consents[i].at > e.began /\ e.asOf > MaxTime)
    BY DEF Excused
  <2>2. i \in 1..Len(consents)' /\ consents'[i] = consents[i]
    BY <1>0, <2>1
  <2> QED
    BY <2>1, <2>2 DEF Excused
<1>2. Asked(e) => Asked(e)'
  <2> SUFFICES ASSUME Asked(e) PROVE Asked(e)'
    OBVIOUS
  <2>1. PICK n \in e.from..Len(consents), c \in Nat :
          /\ IF e.asOf > MaxTime THEN e.began <= c /\ c <= clock ELSE c = e.asOf
          /\ Held(NextStore(e), e.purpose, n, c)
    BY DEF Asked
  <2>2. n \in e.from..Len(consents)' /\ \A k \in 1..n : k \in 1..Len(consents)
    BY <1>0, <2>1 DEF ExportOK
  <2>3. Held(NextStore(e), e.purpose, n, c)'
    <3>1. \A k \in 1..n : consents'[k] = consents[k]
      BY <2>2
    <3> QED
      BY <2>1, <3>1 DEF Held, Relevant, NextStore
  <2>4. (IF e.asOf > MaxTime THEN e.began <= c /\ c <= clock ELSE c = e.asOf)'
    BY <2>1
  <2> QED
    BY <2>2, <2>3, <2>4 DEF Asked
<1>3. e.from \in 0..Len(consents)' /\ e.began \in 0..clock'
  BY <1>0 DEF ExportOK
<1>4. ASSUME NEW l \in e.lineage, ~l.active
      PROVE  Excused(e, l.store)' \/ (e.at = "state" /\ l.store = NextStore(e))
  BY <1>1, <1>4 DEF ExportOK
<1> QED
  BY <1>2, <1>3, <1>4 DEF ExportOK, Entered, ExportFields, NextStore

-----------------------------------------------------------------------------
\* The ledger of consents grows and time does not go back.
Grows ==
  /\ RecordsOK' /\ clock' \in Times /\ clock <= clock' /\ sold' \subseteq Sales
  /\ Len(consents)' \in Nat /\ Len(consents) <= Len(consents)'
  /\ \A i \in 1..Len(consents) : consents'[i] = consents[i]

LEMMA StillSo ==
  ASSUME ConsentInv, consents' = consents, clock' = clock, sold' \subseteq Sales
  PROVE  Grows
<1>1. Len(consents) \in Nat /\ clock \in Nat /\ RecordsOK'
  BY AppendFacts, ConsentAssumption DEF ConsentInv, RecordsOK, OneRecord, Times
<1> QED
  BY <1>1 DEF Grows, ConsentInv

LEMMA OneRecordMore ==
  ASSUME ConsentInv, NEW r, OneRecord(r), consents' = Append(consents, r), clock' = clock, sold' = sold
  PROVE  Grows
<1> DEFINE n == Len(consents)
<1>1. AnySequence(consents)
  BY DEF ConsentInv, RecordsOK
<1>2. PICK l : l = Append(consents, r)
  OBVIOUS
<1>3. /\ n \in Nat /\ AnySequence(l) /\ Len(l) = n + 1 /\ l[n + 1] = r
      /\ \A i \in 1..n : l[i] = consents[i]
  BY <1>1, <1>2, AppendFacts
<1>4. \A i \in 1..(n + 1) : OneRecord(l[i])
  <2>1. \A i \in 1..n : OneRecord(consents[i])
    BY DEF ConsentInv, RecordsOK
  <2>2. \A i \in 1..(n + 1) : i \in 1..n \/ i = n + 1
    BY <1>3
  <2> QED
    BY <1>3, <2>1, <2>2
<1>5. consents' = l
  BY <1>2
<1>6. RecordsOK'
  BY <1>3, <1>4, <1>5 DEF RecordsOK, OneRecord, AnySequence
<1>7. clock \in Nat
  BY ConsentAssumption DEF ConsentInv, Times
<1> QED
  BY <1>3, <1>5, <1>6, <1>7 DEF Grows, ConsentInv

LEMMA ExportsStay ==
  ASSUME ConsentInv, Grows, NEW y \in Exporters, NEW e, e = exporting[y]
  PROVE  Idle(e) \/ ExportOK(e)'
<1>1. RecordsOK /\ clock \in Nat /\ clock' \in Nat /\ (Idle(e) \/ ExportOK(e))
  BY ConsentAssumption DEF ConsentInv, Grows, Times
<1>2. clock <= clock' /\ Len(consents)' \in Nat /\ Len(consents) <= Len(consents)'
  BY DEF Grows
<1>3. \A i \in 1..Len(consents) : consents'[i] = consents[i]
  BY DEF Grows
<1> QED
  BY <1>1, <1>2, <1>3, ExportStays

LEMMA NobodyMoves ==
  ASSUME ConsentInv, Grows, exporting' = exporting
  PROVE  ConsentInv'
<1>1. ASSUME NEW y \in Exporters PROVE Idle(exporting'[y]) \/ (ExportOK(exporting[y]))'
  <2>1. PICK e : e = exporting[y]
    OBVIOUS
  <2>2. Idle(e) \/ ExportOK(e)'
    BY <2>1, ExportsStay
  <2>3. e = exporting'[y]
    BY <2>1
  <2> QED
    BY <2>2, <2>3
<1> QED
  BY <1>1 DEF ConsentInv, Grows

LEMMA OneMoves ==
  ASSUME ConsentInv, Grows, NEW x \in Exporters, NEW d, exporting' = [exporting EXCEPT ![x] = d],
         Idle(d) \/ ExportOK(d)'
  PROVE  ConsentInv'
<1>0. exporting = [y \in Exporters |-> exporting[y]]
  BY DEF ConsentInv
<1>1. ASSUME NEW y \in Exporters PROVE Idle(exporting'[y]) \/ (ExportOK(exporting[y]))'
  <2>1. PICK e : e = exporting[y]
    OBVIOUS
  <2>2. Idle(e) \/ ExportOK(e)'
    BY <2>1, ExportsStay
  <2>3. IF y = x THEN exporting'[y] = d ELSE exporting'[y] = e
    BY <1>0, <2>1
  <2> QED
    BY <2>2, <2>3
<1>2. (exporting = [y \in Exporters |-> exporting[y]])'
  BY <1>0
<1> QED
  BY <1>1, <1>2 DEF ConsentInv, Grows

\* What an export is when it begins.
LEMMA NewExportOK ==
  ASSUME ConsentInv, NEW stores, stores \subseteq Stores, stores # {}, NEW p, NEW asOf \in Nat, NEW rows,
         {StoreOf[k] : k \in rows} = stores
  PROVE  ExportOK(Export(stores, p, asOf, rows))
<1>1. PICK e : e = Export(stores, p, asOf, rows)
  OBVIOUS
<1>2. e = [at |-> "require", purpose |-> p, asOf |-> asOf, rows |-> rows, todo |-> stores, lineage |-> {},
           from |-> Len(consents), began |-> clock]
  BY <1>1 DEF Export
<1>3. ExportFields(e) /\ e.at = "require" /\ e.lineage = {} /\ e.todo = stores /\ e.asOf \in Nat
  BY <1>2 DEF ExportFields
<1>4. e.from \in 0..Len(consents) /\ e.began \in 0..clock
  <2>1. Len(consents) \in Nat /\ clock \in Nat
    BY AppendFacts, ConsentAssumption DEF ConsentInv, RecordsOK, Times
  <2> QED
    BY <1>2, <2>1
<1>5. {StoreOf[k] : k \in e.rows} = Entered(e) \cup e.todo
  BY <1>2 DEF Entered
<1>6. ExportOK(e)
  BY <1>3, <1>4, <1>5 DEF ExportOK
<1> QED
  BY <1>1, <1>6

\* An export whose next step leaves the ledger alone.
LEMMA ExportMoves ==
  ASSUME ConsentInv, NEW x \in Exporters, NEW d, ExportOK(d), exporting' = [exporting EXCEPT ![x] = d],
         consents' = consents, clock' = clock, sold' \subseteq Sales
  PROVE  ConsentInv'
<1>1. Grows
  BY StillSo
<1>2. ExportOK(d)'
  <2>1. RecordsOK /\ clock \in Nat /\ clock' \in Nat
    BY ConsentAssumption DEF ConsentInv, Grows, Times
  <2>2. clock <= clock' /\ Len(consents)' \in Nat /\ Len(consents) <= Len(consents)'
    BY <1>1 DEF Grows
  <2>3. \A i \in 1..Len(consents) : consents'[i] = consents[i]
    OBVIOUS
  <2> QED
    BY <2>1, <2>2, <2>3, ExportStays
<1> QED
  BY <1>1, <1>2, OneMoves

LEMMA NextStoreIsOne ==
  ASSUME NEW e, ExportOK(e), e.todo # {}
  PROVE  NextStore(e) \in e.todo /\ NextStore(e) \in Stores
<1>1. e.todo \subseteq Nat /\ e.todo \subseteq Stores
  BY ConsentAssumption DEF ExportOK
<1>2. PICK s \in e.todo : \A y \in e.todo : s <= y
  BY <1>1, LeastOf
<1> QED
  BY <1>1, <1>2 DEF NextStore, Min

LEMMA GrantKeeps ==
  ASSUME ConsentInv, ConsentGrant PROVE ConsentInv'
<1>1. PICK r : OneRecord(r) /\ consents' = Append(consents, r)
  <2>1. PICK s \in Stores, at \in Times, granted \in (SUBSET Purposes) \ {{}}, cross \in BOOLEAN :
          LET r == ConsentOf(s, at, granted, IF cross THEN {} ELSE {CrossPurpose})
          IN  /\ r.granted \cap r.prohibited = {} /\ ~OnFile(r)
              /\ consents' = Append(consents, r)
    BY DEF ConsentGrant
  <2>2. PICK r : r = ConsentOf(s, at, granted, IF cross THEN {} ELSE {CrossPurpose})
    OBVIOUS
  <2>3. OneRecord(r)
    BY <2>1, <2>2 DEF ConsentOf, OneRecord
  <2> QED
    BY <2>1, <2>2, <2>3
<1>2. Grows
  BY <1>1, OneRecordMore DEF ConsentGrant
<1> QED
  BY <1>2, NobodyMoves DEF ConsentGrant

LEMMA RevokeKeeps ==
  ASSUME ConsentInv, ConsentRevoke PROVE ConsentInv'
<1>1. PICK r : OneRecord(r) /\ consents' = Append(consents, r)
  <2>1. PICK s \in Stores, at \in Times, p \in Purposes :
          LET r == ConsentOf(s, at, {}, {p})
          IN  ~OnFile(r) /\ consents' = Append(consents, r)
    BY DEF ConsentRevoke
  <2>2. PICK r : r = ConsentOf(s, at, {}, {p})
    OBVIOUS
  <2>3. OneRecord(r)
    BY <2>1, <2>2 DEF ConsentOf, OneRecord
  <2> QED
    BY <2>1, <2>2, <2>3
<1>2. Grows
  BY <1>1, OneRecordMore DEF ConsentRevoke
<1> QED
  BY <1>2, NobodyMoves DEF ConsentRevoke

LEMMA TickKeeps ==
  ASSUME ConsentInv, Tick PROVE ConsentInv'
<1>1. clock' \in Times /\ clock <= clock' /\ consents' = consents /\ sold' = sold /\ exporting' = exporting
  BY ConsentAssumption DEF ConsentInv, Tick, Times
<1>2. Grows
  <2>1. Len(consents) \in Nat /\ RecordsOK'
    BY <1>1, AppendFacts, ConsentAssumption DEF ConsentInv, RecordsOK, OneRecord, Times
  <2> QED
    BY <1>1, <2>1 DEF Grows, ConsentInv
<1> QED
  BY <1>1, <1>2, NobodyMoves

LEMMA BeginExportKeeps ==
  ASSUME ConsentInv, NEW x \in Exporters, BeginExport(x) PROVE ConsentInv'
<1>1. PICK chosen \in (SUBSET EventStores) \ {{}}, p \in Purposes, asOf \in Times \cup {MaxTime + 1} :
        To(x, Export(chosen, p, asOf, {k \in sold : StoreOf[k] \in chosen}))
  BY DEF BeginExport
<1>2. chosen \subseteq Stores /\ chosen # {} /\ asOf \in Nat
  BY ConsentAssumption DEF EventStores, ConsentInv, Times
<1>3. {StoreOf[k] : k \in {i \in sold : StoreOf[i] \in chosen}} = chosen
  BY DEF EventStores
<1>4. PICK d : d = Export(chosen, p, asOf, {k \in sold : StoreOf[k] \in chosen})
  OBVIOUS
<1>5. ExportOK(d)
  BY <1>2, <1>3, <1>4, NewExportOK
<1>6. exporting' = [exporting EXCEPT ![x] = d]
  BY <1>1, <1>4 DEF To
<1>7. consents' = consents /\ clock' = clock /\ sold' \subseteq Sales
  BY DEF BeginExport, ConsentInv
<1> QED
  BY <1>5, <1>6, <1>7, ExportMoves

LEMMA MatureGrantKeeps ==
  ASSUME ConsentInv, NEW x \in Exporters, MatureGrant(x) PROVE ConsentInv'
<1>1. PICK k \in Sales \ sold :
        LET r == ConsentOf(StoreOf[k], 0, DefaultPurposes, {CrossPurpose})
        IN  IF OnFile(r) THEN UNCHANGED consents /\ To(x, NotExporting)
            ELSE /\ Len(consents) < MaxConsents
                 /\ consents' = Append(consents, r)
                 /\ \E p \in DefaultPurposes : To(x, [at |-> "project", sale |-> k, purpose |-> p])
  BY DEF MatureGrant
<1>2. PICK r : r = ConsentOf(StoreOf[k], 0, DefaultPurposes, {CrossPurpose})
  OBVIOUS
<1>3. OneRecord(r)
  BY <1>2, ConsentAssumption DEF ConsentOf, OneRecord, DefaultPurposes, Times
<1>4. sold' = sold /\ clock' = clock /\ sold' \subseteq Sales
  BY DEF MatureGrant, ConsentInv
<1>5. CASE consents' = consents /\ To(x, NotExporting)
  <2>1. Idle(NotExporting)
    BY DEF Idle, NotExporting
  <2>2. exporting' = [exporting EXCEPT ![x] = NotExporting]
    BY <1>5 DEF To
  <2>3. Grows
    BY <1>4, <1>5, StillSo
  <2> QED
    BY <2>1, <2>2, <2>3, OneMoves
<1>6. CASE consents' = Append(consents, r) /\ \E p \in DefaultPurposes : To(x, [at |-> "project", sale |-> k, purpose |-> p])
  <2>1. PICK d : Idle(d) /\ exporting' = [exporting EXCEPT ![x] = d]
    <3>1. PICK p : To(x, [at |-> "project", sale |-> k, purpose |-> p])
      BY <1>6
    <3>2. Idle([at |-> "project", sale |-> k, purpose |-> p])
      BY DEF Idle
    <3> QED
      BY <3>1, <3>2 DEF To
  <2>2. Grows
    BY <1>3, <1>4, <1>6, OneRecordMore
  <2> QED
    BY <2>1, <2>2, OneMoves
<1> QED
  BY <1>1, <1>2, <1>5, <1>6, Zenon

LEMMA ProjectSaleKeeps ==
  ASSUME ConsentInv, NEW x \in Exporters, ProjectSale(x) PROVE ConsentInv'
<1>1. PICK e : e = exporting[x]
  OBVIOUS
<1>2. e.at = "project" /\ consents' = consents /\ clock' = clock
  BY <1>1 DEF ProjectSale, Exporting
<1>3. CASE sold' = sold /\ To(x, NotExporting)
  <2>1. Idle(NotExporting)
    BY DEF Idle, NotExporting
  <2>2. exporting' = [exporting EXCEPT ![x] = NotExporting]
    BY <1>3 DEF To
  <2>3. Grows
    BY <1>2, <1>3, StillSo DEF ConsentInv
  <2> QED
    BY <2>1, <2>2, <2>3, OneMoves
<1>4. CASE /\ sold' = sold \cup {e.sale}
           /\ To(x, Export({StoreOf[e.sale]}, e.purpose, clock, {k \in sold' : StoreOf[k] = StoreOf[e.sale]}))
  <2>1. e.sale \in Sales
    <3>1. Idle(e) \/ ExportOK(e)
      BY <1>1 DEF ConsentInv
    <3>2. ASSUME ExportOK(e) PROVE FALSE
      <4>1. e.at \in {"require", "evidence", "state", "returned"}
        BY <3>2 DEF ExportOK
      <4> QED
        BY <1>2, <4>1
    <3> QED
      BY <1>2, <3>1, <3>2 DEF Idle
  <2>2. PICK s : s = StoreOf[e.sale]
    OBVIOUS
  <2>3. PICK rows : rows = {k \in sold' : StoreOf[k] = s}
    OBVIOUS
  <2>4. {s} \subseteq Stores /\ {s} # {} /\ {StoreOf[k] : k \in rows} = {s} /\ clock \in Nat
    BY <1>4, <2>1, <2>2, <2>3, ConsentAssumption DEF ConsentInv, Times
  <2>5. PICK d : d = Export({s}, e.purpose, clock, rows)
    OBVIOUS
  <2>6. ExportOK(d)
    BY <2>4, <2>5, NewExportOK
  <2>7. exporting' = [exporting EXCEPT ![x] = d]
    BY <1>4, <2>2, <2>3, <2>5, Zenon DEF To
  <2>8. sold' \subseteq Sales
    BY <1>4, <2>1 DEF ConsentInv
  <2> QED
    BY <1>2, <2>6, <2>7, <2>8, ExportMoves
<1> QED
  BY <1>1, <1>3, <1>4, Zenon DEF ProjectSale

-----------------------------------------------------------------------------
\* The three steps of an export at a store, as what they make of it.
Found(e) == [e EXCEPT !.at = "evidence"]
WithRecord(e, record) ==
  [e EXCEPT !.at = "state", !.lineage = @ \cup {Evidence(NextStore(e), record, FALSE)}]
Reported(e, active) ==
  [e EXCEPT !.at = IF e.todo = {NextStore(e)} THEN "returned" ELSE "require", !.todo = @ \ {NextStore(e)},
            !.lineage = {Evidence(l.store, l.record, IF l.store = NextStore(e) THEN active ELSE l.active) : l \in @}]

LEMMA RequireActiveKeeps ==
  ASSUME ConsentInv, NEW x \in Exporters, RequireActive(x) PROVE ConsentInv'
<1>1. PICK e : e = exporting[x]
  OBVIOUS
<1>2. e.at = "require" /\ consents' = consents /\ clock' = clock /\ sold' = sold /\ sold' \subseteq Sales
  BY <1>1 DEF RequireActive, Exporting, ConsentInv
<1>3. CASE To(x, NotExporting)
  <2>1. Idle(NotExporting)
    BY DEF Idle, NotExporting
  <2>2. exporting' = [exporting EXCEPT ![x] = NotExporting]
    BY <1>3 DEF To
  <2>3. Grows
    BY <1>2, StillSo
  <2> QED
    BY <2>1, <2>2, <2>3, OneMoves
<1>4. CASE IsActive(NextStore(e), e.purpose, Cutoff(e)) /\ To(x, Found(e))
  <2>1. ExportOK(e)
    BY <1>1, <1>2 DEF ConsentInv, Idle
  <2>2. PICK d : d = Found(e)
    OBVIOUS
  <2>3. d = [at |-> "evidence", purpose |-> e.purpose, asOf |-> e.asOf, rows |-> e.rows, todo |-> e.todo,
             lineage |-> e.lineage, from |-> e.from, began |-> e.began]
    BY <2>1, <2>2 DEF Found, ExportOK, ExportFields
  <2>4. /\ d.at = "evidence" /\ d.purpose = e.purpose /\ d.asOf = e.asOf /\ d.rows = e.rows /\ d.todo = e.todo
        /\ d.lineage = e.lineage /\ d.from = e.from /\ d.began = e.began
    BY <2>3
  <2>5. e.todo # {}
    BY <1>2, <2>1 DEF ExportOK
  <2>6. NextStore(d) = NextStore(e) /\ Entered(d) = Entered(e) /\ ExportFields(d)
    BY <2>3, <2>4 DEF NextStore, Entered, ExportFields
  <2>7. Asked(d)
    <3>1. Len(consents) \in Nat /\ clock \in Nat /\ MaxTime \in Nat
      BY AppendFacts, ConsentAssumption DEF ConsentInv, RecordsOK, Times
    <3>2. /\ Len(consents) \in e.from..Len(consents) /\ Cutoff(e) \in Nat
          /\ IF e.asOf > MaxTime THEN e.began <= Cutoff(e) /\ Cutoff(e) <= clock ELSE Cutoff(e) = e.asOf
      BY <2>1, <3>1 DEF Cutoff, ExportOK
    <3>3. Held(NextStore(e), e.purpose, Len(consents), Cutoff(e))
      BY <1>4, <3>2, ActiveIsHeld DEF ConsentInv
    <3> QED
      BY <2>4, <2>6, <3>2, <3>3 DEF Asked
  <2>8. ASSUME NEW l \in d.lineage, ~l.active PROVE Excused(d, l.store)
    <3>1. Excused(e, l.store)
      BY <1>2, <2>1, <2>4, <2>8 DEF ExportOK
    <3> QED
      BY <2>4, <3>1 DEF Excused
  <2>9. ExportOK(d)
    BY <2>1, <2>4, <2>5, <2>6, <2>7, <2>8 DEF ExportOK
  <2>10. exporting' = [exporting EXCEPT ![x] = d]
    BY <1>4, <2>2 DEF To
  <2> QED
    BY <1>2, <2>9, <2>10, ExportMoves
<1> QED
  BY <1>1, <1>3, <1>4, Zenon DEF RequireActive, Found

LEMMA LatestEvidenceKeeps ==
  ASSUME ConsentInv, NEW x \in Exporters, LatestEvidence(x) PROVE ConsentInv'
<1>1. PICK e : e = exporting[x]
  OBVIOUS
<1>2. e.at = "evidence" /\ consents' = consents /\ clock' = clock /\ sold' = sold /\ sold' \subseteq Sales
  BY <1>1 DEF LatestEvidence, Exporting, ConsentInv
<1>3. PICK record : To(x, WithRecord(e, record))
  BY <1>1, Zenon DEF LatestEvidence, WithRecord
<1>4. ExportOK(e) /\ e.todo # {} /\ Asked(e)
  BY <1>1, <1>2 DEF ConsentInv, Idle, ExportOK
<1>5. PICK d : d = WithRecord(e, record)
  OBVIOUS
<1>6. PICK v : v = Evidence(NextStore(e), record, FALSE)
  OBVIOUS
<1>7. v.store = NextStore(e)
  BY <1>6 DEF Evidence
<1>8. d = [at |-> "state", purpose |-> e.purpose, asOf |-> e.asOf, rows |-> e.rows, todo |-> e.todo,
           lineage |-> e.lineage \cup {v}, from |-> e.from, began |-> e.began]
  BY <1>4, <1>5, <1>6 DEF WithRecord, ExportOK, ExportFields
<1>9. /\ d.at = "state" /\ d.purpose = e.purpose /\ d.asOf = e.asOf /\ d.rows = e.rows /\ d.todo = e.todo
      /\ d.lineage = e.lineage \cup {v} /\ d.from = e.from /\ d.began = e.began
  BY <1>8
<1>10. NextStore(d) = NextStore(e) /\ ExportFields(d) /\ NextStore(e) \in e.todo
  BY <1>4, <1>8, <1>9, NextStoreIsOne DEF NextStore, ExportFields
<1>11. Entered(d) = Entered(e) \cup {NextStore(e)}
  BY <1>7, <1>9 DEF Entered
<1>12. {StoreOf[k] : k \in d.rows} = Entered(d) \cup d.todo
  BY <1>4, <1>9, <1>10, <1>11 DEF ExportOK
<1>13. Asked(d)
  BY <1>4, <1>9, <1>10 DEF Asked
<1>14. ASSUME NEW l \in d.lineage, ~l.active PROVE Excused(d, l.store) \/ l.store = NextStore(d)
  <2>1. CASE l = v
    BY <1>7, <1>10, <2>1
  <2>2. CASE l \in e.lineage
    <3>1. Excused(e, l.store)
      BY <1>2, <1>4, <1>14, <2>2 DEF ExportOK
    <3> QED
      BY <1>9, <3>1 DEF Excused
  <2> QED
    BY <1>9, <1>14, <2>1, <2>2
<1>15. ExportOK(d)
  BY <1>4, <1>9, <1>10, <1>11, <1>12, <1>13, <1>14 DEF ExportOK
<1>16. exporting' = [exporting EXCEPT ![x] = d]
  BY <1>3, <1>5 DEF To
<1> QED
  BY <1>2, <1>15, <1>16, ExportMoves

LEMMA ReportStateKeeps ==
  ASSUME ConsentInv, NEW x \in Exporters, ReportState(x) PROVE ConsentInv'
<1>1. PICK e : e = exporting[x]
  OBVIOUS
<1>2. e.at = "state" /\ consents' = consents /\ clock' = clock /\ sold' = sold /\ sold' \subseteq Sales
  BY <1>1 DEF ReportState, Exporting, ConsentInv
<1>3. PICK active : active = IsActive(NextStore(e), e.purpose, Cutoff(e))
  OBVIOUS
<1>4. To(x, Reported(e, active))
  BY <1>1, <1>3, Zenon DEF ReportState, Reported
<1>5. ExportOK(e) /\ e.todo # {} /\ Asked(e)
  BY <1>1, <1>2 DEF ConsentInv, Idle, ExportOK
<1>6. PICK d : d = Reported(e, active)
  OBVIOUS
<1>7. PICK s : s = NextStore(e)
  OBVIOUS
<1>8. s \in e.todo
  BY <1>5, <1>7, NextStoreIsOne
<1> DEFINE Lineage == {Evidence(l.store, l.record, IF l.store = s THEN active ELSE l.active) : l \in e.lineage}
           at == IF e.todo = {s} THEN "returned" ELSE "require"
<1>9. d = [at |-> at, purpose |-> e.purpose, asOf |-> e.asOf, rows |-> e.rows, todo |-> e.todo \ {s},
           lineage |-> Lineage, from |-> e.from, began |-> e.began]
  BY <1>5, <1>6, <1>7 DEF Reported, ExportOK, ExportFields
<1>10. ASSUME NEW l \in Lineage, ~l.active PROVE Excused(e, l.store)
  <2>1. PICK k \in e.lineage : l = Evidence(k.store, k.record, IF k.store = s THEN active ELSE k.active)
    OBVIOUS
  <2>2. l.store = k.store /\ l.active = (IF k.store = s THEN active ELSE k.active)
    <3>1. PICK b : b = IF k.store = s THEN active ELSE k.active
      OBVIOUS
    <3>2. l = Evidence(k.store, k.record, b)
      BY <2>1, <3>1, Zenon
    <3>3. l.store = k.store /\ l.active = b
      BY <3>2 DEF Evidence
    <3> QED
      BY <3>1, <3>3, Zenon
  <2>3. CASE k.store = s
    <3>1. ~IsActive(NextStore(e), e.purpose, Cutoff(e))
      BY <1>3, <1>10, <2>2, <2>3, Zenon
    <3>2. RecordsOK /\ clock \in Times
      BY DEF ConsentInv
    <3> QED
      BY <1>5, <1>7, <2>2, <2>3, <3>1, <3>2, GoneIsExcused
  <2>4. CASE k.store # s
    <3>1. ~k.active
      BY <1>10, <2>2, <2>4, Zenon
    <3> QED
      BY <1>5, <1>7, <2>2, <2>4, <3>1 DEF ExportOK
  <2> QED
    BY <2>3, <2>4
<1>11. {l.store : l \in Lineage} = Entered(e)
  <2>1. \A l \in e.lineage : Evidence(l.store, l.record, IF l.store = s THEN active ELSE l.active).store = l.store
    BY DEF Evidence
  <2> QED
    BY <2>1 DEF Entered
<1> HIDE DEF Lineage
<1>12. /\ d.at = at /\ d.purpose = e.purpose /\ d.asOf = e.asOf /\ d.rows = e.rows /\ d.todo = e.todo \ {s}
       /\ d.lineage = Lineage /\ d.from = e.from /\ d.began = e.began
  BY <1>9
<1>13. ExportFields(d) /\ Entered(d) = Entered(e)
  BY <1>9, <1>11, <1>12 DEF ExportFields, Entered
<1>14. s \in Entered(e)
  BY <1>2, <1>5, <1>7 DEF ExportOK
<1>15. {StoreOf[k] : k \in d.rows} = Entered(d) \cup d.todo
  BY <1>5, <1>8, <1>12, <1>13, <1>14 DEF ExportOK
<1>16. ASSUME NEW l \in d.lineage, ~l.active PROVE Excused(d, l.store)
  BY <1>10, <1>12, <1>16 DEF Excused
<1>17. d.at \in {"require", "returned"} /\ (d.at = "returned" <=> d.todo = {})
  BY <1>8, <1>12
<1>18. ExportOK(d)
  BY <1>5, <1>12, <1>13, <1>15, <1>16, <1>17 DEF ExportOK
<1>19. exporting' = [exporting EXCEPT ![x] = d]
  BY <1>4, <1>6 DEF To
<1> QED
  BY <1>2, <1>18, <1>19, ExportMoves

LEMMA ConsentStep ==
  ASSUME ConsentInv, [ConsentNext]_consentVars PROVE ConsentInv'
<1>1. CASE ConsentGrant
  BY <1>1, GrantKeeps
<1>2. CASE ConsentRevoke
  BY <1>2, RevokeKeeps
<1>3. CASE Tick
  BY <1>3, TickKeeps
<1>4. ASSUME NEW x \in Exporters,
             \/ BeginExport(x) \/ MatureGrant(x) \/ ProjectSale(x)
             \/ RequireActive(x) \/ LatestEvidence(x) \/ ReportState(x)
      PROVE  ConsentInv'
  BY <1>4, BeginExportKeeps, MatureGrantKeeps, ProjectSaleKeeps, RequireActiveKeeps, LatestEvidenceKeeps,
     ReportStateKeeps
<1>5. CASE UNCHANGED consentVars
  <2>1. consents' = consents /\ clock' = clock /\ sold' = sold /\ exporting' = exporting
    BY <1>5 DEF consentVars
  <2>2. Grows
    BY <2>1, StillSo DEF ConsentInv
  <2> QED
    BY <2>1, <2>2, NobodyMoves
<1> QED
  BY <1>1, <1>2, <1>3, <1>4, <1>5 DEF ConsentNext

LEMMA ConsentStart ==
  ConsentInit => ConsentInv
<1> SUFFICES ASSUME ConsentInit PROVE ConsentInv
  OBVIOUS
<1>1. RecordsOK
  <2>1. consents = <<>> /\ Len(consents) = 0 /\ DOMAIN consents = 1..0
    BY DEF ConsentInit
  <2>2. AnySequence(consents)
    BY <2>1 DEF AnySequence
  <2> QED
    BY <2>1, <2>2 DEF RecordsOK
<1>2. exporting = [x \in Exporters |-> exporting[x]] /\ \A x \in Exporters : Idle(exporting[x])
  BY DEF ConsentInit, Idle, NotExporting
<1> QED
  BY <1>1, <1>2, ConsentAssumption DEF ConsentInit, ConsentInv, Times

\* The inductive invariant: what an export has found of a store was so of the records there
\* were when it asked, and they are all still there.
THEOREM ConsentInvariant ==
  ConsentSpec => []ConsentInv
<1>1. ConsentInit => ConsentInv
  BY ConsentStart
<1>2. ConsentInv /\ [ConsentNext]_consentVars => ConsentInv'
  BY ConsentStep
<1> QED
  BY <1>1, <1>2, PTL DEF ConsentSpec

\* A purpose is active iff the latest records about it say so, whatever the order they were
\* written in (ConsentLedger.is_active); a dataset has the consent of every store in it, and
\* an inactive one in its lineage was prohibited while it was made (training_dataset).
THEOREM ConsentIsKept ==
  ConsentSpec => []ConsentKept
<1>1. ConsentInv => ConsentKept
  BY RecordsGiveDeclared, InvGivesConsented DEF ConsentInv, ConsentKept
<1> QED
  BY <1>1, ConsentInvariant, PTL
=============================================================================
