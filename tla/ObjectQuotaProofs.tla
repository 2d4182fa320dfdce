------------------------- MODULE ObjectQuotaProofs -------------------------
(***************************************************************************)
(* Theorems about ObjectQuota: the counters agree with the records, and a  *)
(* limit is overshot by less than one object per session, for any number   *)
(* of sessions, sitegroups and records.                                    *)
(***************************************************************************)
EXTENDS ObjectQuota, FiniteSetTheorems, TLAPS

TypeOK ==
  /\ table \in [RowId -> Row \cup {NoRow}]
  /\ nextId \in Nat \ {0}
  /\ updates \in Nat
  /\ sgRecords \in [Sitegroup -> Nat]
  /\ typeRecords \in [Sitegroup -> Nat]
  /\ sgSize \in [Sitegroup -> Int]
  /\ typeSize \in [Sitegroup -> Int]
  /\ pc \in [Session -> Statement]
  /\ job \in [Session -> Job \cup {NoJob}]
  /\ ret \in [Session -> BOOLEAN]
  /\ refused \in Nat
  /\ tooHigh \subseteq Sitegroup
  /\ tooLow \subseteq Sitegroup

(* What a session in a call works on: an object to be created, or a row there *)
(* is or was.                                                                 *)
JobFits ==
  \A s \in Session :
    /\ pc[s] # "idle" => job[s] \in Job
    /\ pc[s] \in Creating => job[s].size \in Size
    /\ pc[s] \notin Creating \cup {"idle"} => job[s].id \in 1..(nextId - 1)

(* The bound on rows: every session that is creating will find one free.      *)
RoomLeft == nextId + Cardinality(In(Creating)) <= MaxRow + 1

(* An id that was not given out is free.                                      *)
FreshIsFree == \A i \in RowId : i >= nextId => table[i] = NoRow

(* A session that is about to delete a row knows its sitegroup: no id is      *)
(* given out twice and no row changes its sitegroup.                          *)
DeletesItsOwn ==
  \A s \in Session :
    pc[s] = "delete" /\ table[job[s].id] # NoRow => table[job[s].id].sg = job[s].sg

(* Who purged an object of another sitegroup has been recorded.               *)
MisbookingsKnown ==
  \A s \in Session :
    pc[s] \in {"uncount_type", "uncount_sg"} /\ job[s].sg # SessionSg[s]
      => job[s].sg \in tooHigh /\ SessionSg[s] \in tooLow

StateInv == TypeOK /\ JobFits /\ RoomLeft /\ FreshIsFree /\ DeletesItsOwn /\ MisbookingsKnown

SgOwed == {"insert", "uncount_type", "uncount_sg"}
TypeOwed == {"count_sg", "insert", "uncount_type"}

There(owed, x) == Cardinality(RowsOf(x)) + Cardinality(Busy(owed, x))

(* The two halves of RecordsCounted: a counter is too high or too low only    *)
(* where that has been recorded.                                              *)
Agrees(counter, owed) ==
  \A x \in Counted :
    /\ x \notin tooHigh => counter[x] <= There(owed, x)
    /\ x \notin tooLow => counter[x] >= There(owed, x)

(* Those who passed the check and have not counted yet.                       *)
Passed == {"check_size", "count_type"}
CheckHolds ==
  MaxRecords > 0 => \A x \in Counted :
    typeRecords[x] + Cardinality(Busy(Passed, x)) < MaxRecords + Cardinality(Session)

QuotaInv == /\ StateInv
            /\ Agrees(sgRecords, SgOwed)
            /\ Agrees(typeRecords, TypeOwed)
            /\ CheckHolds

-----------------------------------------------------------------------------
Bit(b) == IF b THEN 1 ELSE 0

(* Two sets that differ in one element at most.                               *)
LEMMA OneDiffers ==
  ASSUME NEW U, IsFiniteSet(U), NEW A \in SUBSET U, NEW B \in SUBSET U, NEW e,
         \A t \in U \ {e} : t \in A <=> t \in B
  PROVE  /\ Cardinality(A) \in Nat /\ Cardinality(B) \in Nat
         /\ Cardinality(B) = Cardinality(A) + Bit(e \in B) - Bit(e \in A)
PROOF
<1>1. IsFiniteSet(A) /\ IsFiniteSet(B)
  BY FS_Subset
<1>2. A \ {e} = B \ {e}
  OBVIOUS
<1>3. Cardinality(A \ {e}) = IF e \in A THEN Cardinality(A) - 1 ELSE Cardinality(A)
  BY <1>1, FS_RemoveElement
<1>4. Cardinality(B \ {e}) = IF e \in B THEN Cardinality(B) - 1 ELSE Cardinality(B)
  BY <1>1, FS_RemoveElement
<1>5. Cardinality(A) \in Nat /\ Cardinality(B) \in Nat
  BY <1>1, FS_CardinalityType
<1> QED
  BY <1>2, <1>3, <1>4, <1>5 DEF Bit

LEMMA RowIdFinite == IsFiniteSet(RowId)
PROOF
<1>1. 1 \in Int /\ MaxRow \in Int
  BY QuotaAssumption
<1> QED
  BY <1>1, FS_Interval DEF RowId

(* The sessions that are at some statements, and those of them whose object   *)
(* is of a sitegroup, before and after a step of one session.                 *)
LEMMA BusyChange ==
  ASSUME NEW s \in Session, NEW L, NEW x,
         \A t \in Session \ {s} : pc'[t] = pc[t] /\ job'[t] = job[t]
  PROVE  /\ Cardinality(Busy(L, x)) \in Nat /\ Cardinality(Busy(L, x)') \in Nat
         /\ Cardinality(Busy(L, x)') = Cardinality(Busy(L, x))
              + Bit(pc'[s] \in L /\ job'[s].sg = x) - Bit(pc[s] \in L /\ job[s].sg = x)
PROOF
<1> DEFINE A == Busy(L, x)
           B == Busy(L, x)'
<1>1. A \in SUBSET Session /\ B \in SUBSET Session
  BY DEF Busy, In
<1>2. \A t \in Session \ {s} : t \in A <=> t \in B
  BY DEF Busy, In
<1>3. (s \in A <=> pc[s] \in L /\ job[s].sg = x) /\ (s \in B <=> pc'[s] \in L /\ job'[s].sg = x)
  BY DEF Busy, In
<1>4. IsFiniteSet(Session)
  BY QuotaAssumption
<1> HIDE DEF A, B
<1>5. /\ Cardinality(A) \in Nat /\ Cardinality(B) \in Nat
      /\ Cardinality(B) = Cardinality(A) + Bit(s \in B) - Bit(s \in A)
  BY <1>1, <1>2, <1>4, OneDiffers
<1>6. Bit(s \in B) = Bit(pc'[s] \in L /\ job'[s].sg = x)
  BY <1>3 DEF Bit
<1>7. Bit(s \in A) = Bit(pc[s] \in L /\ job[s].sg = x)
  BY <1>3 DEF Bit
<1>8. /\ Cardinality(A) \in Nat /\ Cardinality(B) \in Nat
      /\ Cardinality(B) = Cardinality(A)
              + Bit(pc'[s] \in L /\ job'[s].sg = x) - Bit(pc[s] \in L /\ job[s].sg = x)
  BY <1>5, <1>6, <1>7
<1> QED
  BY <1>8 DEF A, B

LEMMA InChange ==
  ASSUME NEW s \in Session, NEW L, \A t \in Session \ {s} : pc'[t] = pc[t]
  PROVE  /\ Cardinality(In(L)) \in Nat
         /\ Cardinality(In(L)') = Cardinality(In(L)) + Bit(pc'[s] \in L) - Bit(pc[s] \in L)
PROOF
<1> DEFINE A == In(L)
           B == In(L)'
<1>1. A \in SUBSET Session /\ B \in SUBSET Session
  BY DEF In
<1>2. \A t \in Session \ {s} : t \in A <=> t \in B
  BY DEF In
<1>3. (s \in A <=> pc[s] \in L) /\ (s \in B <=> pc'[s] \in L)
  BY DEF In
<1>4. IsFiniteSet(Session)
  BY QuotaAssumption
<1> HIDE DEF A, B
<1>5. /\ Cardinality(A) \in Nat /\ Cardinality(B) \in Nat
      /\ Cardinality(B) = Cardinality(A) + Bit(s \in B) - Bit(s \in A)
  BY <1>1, <1>2, <1>4, OneDiffers
<1>6. /\ Cardinality(A) \in Nat /\ Cardinality(B) \in Nat
      /\ Cardinality(B) = Cardinality(A) + Bit(pc'[s] \in L) - Bit(pc[s] \in L)
  BY <1>3, <1>5 DEF Bit
<1> QED
  BY <1>6 DEF A, B

(* The rows of a sitegroup when one row at most comes, goes or changes its    *)
(* sitegroup.                                                                 *)
OfSg(row, x) == row # NoRow /\ row.sg = x

LEMMA RowsChange ==
  ASSUME NEW i \in RowId, NEW x,
         \A k \in RowId \ {i} : OfSg(table'[k], x) <=> OfSg(table[k], x)
  PROVE  /\ Cardinality(RowsOf(x)) \in Nat /\ Cardinality(RowsOf(x)') \in Nat
         /\ Cardinality(RowsOf(x)') = Cardinality(RowsOf(x))
              + Bit(OfSg(table'[i], x)) - Bit(OfSg(table[i], x))
PROOF
<1> DEFINE A == RowsOf(x)
           B == RowsOf(x)'
<1>1. A \in SUBSET RowId /\ B \in SUBSET RowId
  BY DEF RowsOf
<1>2. \A k \in RowId \ {i} : k \in A <=> k \in B
  BY DEF RowsOf, OfSg
<1>3. (i \in A <=> OfSg(table[i], x)) /\ (i \in B <=> OfSg(table'[i], x))
  BY DEF RowsOf, OfSg
<1> HIDE DEF A, B
<1>5. /\ Cardinality(A) \in Nat /\ Cardinality(B) \in Nat
      /\ Cardinality(B) = Cardinality(A) + Bit(i \in B) - Bit(i \in A)
  BY <1>1, <1>2, RowIdFinite, OneDiffers
<1>6. /\ Cardinality(A) \in Nat /\ Cardinality(B) \in Nat
      /\ Cardinality(B) = Cardinality(A) + Bit(OfSg(table'[i], x)) - Bit(OfSg(table[i], x))
  BY <1>3, <1>5 DEF Bit
<1> QED
  BY <1>6 DEF A, B

LEMMA RowsStay ==
  ASSUME NEW x, \A k \in RowId : OfSg(table'[k], x) <=> OfSg(table[k], x)
  PROVE  /\ Cardinality(RowsOf(x)) \in Nat /\ Cardinality(RowsOf(x)') \in Nat
         /\ Cardinality(RowsOf(x)') = Cardinality(RowsOf(x))
PROOF
<1>1. RowsOf(x)' = RowsOf(x)
  BY DEF RowsOf, OfSg
<1>2. RowsOf(x) \in SUBSET RowId
  BY DEF RowsOf
<1>3. IsFiniteSet(RowsOf(x))
  BY <1>2, RowIdFinite, FS_Subset
<1> QED
  BY <1>1, <1>3, FS_CardinalityType

-----------------------------------------------------------------------------
LEMMA QuotaInit == Init => QuotaInv
PROOF
<1> SUFFICES ASSUME Init PROVE QuotaInv
  OBVIOUS
<1> USE QuotaAssumption
<1>1. TypeOK
  BY DEF Init, TypeOK, Statement
<1>2. In(Creating) = {}
  BY DEF Init, In, Creating
<1>3. RoomLeft
  BY <1>2, FS_EmptySet DEF Init, RoomLeft
<1>4. StateInv
  BY <1>1, <1>3 DEF Init, StateInv, JobFits, FreshIsFree, DeletesItsOwn, MisbookingsKnown, Creating
<1>5. ASSUME NEW x, NEW L \in {SgOwed, TypeOwed, Passed}
      PROVE  Cardinality(RowsOf(x)) = 0 /\ Cardinality(Busy(L, x)) = 0
  <2>1. RowsOf(x) = {}
    BY DEF Init, RowsOf
  <2>2. Busy(L, x) = {}
    BY DEF Init, Busy, In, SgOwed, TypeOwed, Passed
  <2> QED
    BY <2>1, <2>2, FS_EmptySet
<1>6. Cardinality(Session) \in Nat
  BY FS_CardinalityType
<1>7. \A x \in Counted : sgRecords[x] = 0 /\ typeRecords[x] = 0
  BY DEF Init, Counted
<1>8. Agrees(sgRecords, SgOwed) /\ Agrees(typeRecords, TypeOwed)
  BY <1>5, <1>7 DEF Agrees, There
<1>9. CheckHolds
  BY <1>5, <1>6, <1>7 DEF CheckHolds
<1> QED
  BY <1>4, <1>8, <1>9 DEF QuotaInv

(* A step is one session's: it moves no other.                                *)
Step(s) ==
  \/ \E x \in Sitegroup, n \in Size : Create(s, x, n)
  \/ CheckSg(s) \/ CheckType(s) \/ CheckSize(s) \/ CountType(s) \/ CountSg(s)
  \/ Insert(s)
  \/ \E i \in RowId, x \in Sitegroup :
       Purge(s, i, x) \/ \E n \in Size : Update(s, i, x, n)
  \/ Measure(s) \/ AddRow(s) \/ AddType(s) \/ AddSg(s)
  \/ Delete(s) \/ UncountType(s) \/ UncountSg(s) \/ DropType(s) \/ DropSg(s)
  \/ Refused(s)

LEMMA OthersRest ==
  ASSUME TypeOK, NEW s \in Session, Step(s)
  PROVE  \A t \in Session \ {s} : pc'[t] = pc[t] /\ job'[t] = job[t]
PROOF
  BY DEF TypeOK, Step, Create, CheckSg, CheckType, CheckSize, CountType, CountSg, Insert, Purge,
     Update, Measure, AddRow, AddType, AddSg, Delete, UncountType, UncountSg, DropType, DropSg, Refused,
     Goto, Return

LEMMA CounterTypes ==
  ASSUME NEW x \in Sitegroup, NEW rowsOf
  PROVE  /\ \A c \in [Sitegroup -> Nat] : Add(c, rowsOf, x, 1) \in [Sitegroup -> Nat]
         /\ \A c \in [Sitegroup -> Nat] : Subtract(c, rowsOf, x, 1) \in [Sitegroup -> Nat]
         /\ \A c \in [Sitegroup -> Int], n \in Int :
              /\ Add(c, rowsOf, x, n) \in [Sitegroup -> Int]
              /\ Subtract(c, rowsOf, x, n) \in [Sitegroup -> Int]
PROOF
  BY DEF Add, Subtract

(* The row of an id a session works on, with the types of what it holds.      *)
LEMMA JobTypes ==
  ASSUME TypeOK, JobFits, RoomLeft, NEW s \in Session, pc[s] # "idle"
  PROVE  /\ job[s] \in Job
         /\ nextId \in 1..(MaxRow + 1)
         /\ pc[s] \in Creating => nextId \in RowId /\ job[s].size \in Size
         /\ pc[s] \notin Creating => job[s].id \in RowId /\ job[s].id < nextId
         /\ pc[s] \notin Creating => StoredSize(job[s].id) \in Int
PROOF
<1>1. IsFiniteSet(Session) /\ In(Creating) \in SUBSET Session
  BY QuotaAssumption DEF In
<1>2. IsFiniteSet(In(Creating)) /\ Cardinality(In(Creating)) \in Nat
  BY <1>1, FS_Subset, FS_CardinalityType
<1>3. MaxRow \in Nat /\ nextId \in Nat \ {0}
  BY QuotaAssumption DEF TypeOK
<1>4. nextId \in 1..(MaxRow + 1)
  BY <1>2, <1>3 DEF RoomLeft
<1>5. ASSUME pc[s] \in Creating PROVE nextId \in RowId
  <2>1. s \in In(Creating)
    BY <1>5 DEF In
  <2>2. Cardinality(In(Creating)) # 0
    BY <2>1, <1>2, FS_EmptySet
  <2> QED
    BY <2>2, <1>2, <1>3 DEF RoomLeft, RowId
<1>6. pc[s] \notin Creating => job[s].id \in RowId /\ job[s].id < nextId
  BY <1>3, <1>4 DEF JobFits, RowId
<1>7. job[s] \in Job /\ (pc[s] \in Creating => job[s].size \in Size)
  BY DEF JobFits
<1>8. pc[s] \notin Creating => StoredSize(job[s].id) \in Int
  BY <1>6 DEF TypeOK, StoredSize, Row
<1> QED
  BY <1>4, <1>5, <1>6, <1>7, <1>8

LEMMA JobRecords ==
  /\ \A x \in Sitegroup, i \in 0..MaxRow, n \in Int :
       [sg |-> x, id |-> i, size |-> n, diff |-> 0] \in Job
  /\ \A j \in Job : j.sg \in Sitegroup /\ j.id \in 0..MaxRow /\ j.size \in Int /\ j.diff \in Int
  /\ \A j \in Job, i \in 0..MaxRow : [j EXCEPT !.id = i] \in Job
  /\ \A j \in Job, n \in Int : [j EXCEPT !.diff = n] \in Job
  /\ \A j \in Job, x \in Sitegroup : [j EXCEPT !.sg = x] \in Job
  /\ Size \subseteq Int
PROOF
<1>1. Size \subseteq Int
  BY QuotaAssumption
<1> QED
  BY <1>1 DEF Job

LEMMA RowRecords ==
  /\ \A x \in Sitegroup, n \in Size : [sg |-> x, content |-> n, size |-> n] \in Row
  /\ \A r \in Row : r.sg \in Sitegroup /\ r.size \in Int
  /\ \A r \in Row, n \in Size : [r EXCEPT !.content = n] \in Row
  /\ \A r \in Row, n \in Int : [r EXCEPT !.size = @ + n] \in Row
PROOF
<1>1. Size \subseteq Int
  BY QuotaAssumption
<1> QED
  BY <1>1 DEF Row

LEMMA TypeStep ==
  ASSUME TypeOK, JobFits, RoomLeft, NEW s \in Session, Step(s)
  PROVE  TypeOK'
PROOF
<1> USE DEF TypeOK, Goto, Return, counters, drift, Statement
<1>1. ASSUME pc[s] # "idle"
      PROVE  /\ job[s] \in Job /\ job[s].sg \in Sitegroup /\ job[s].id \in 0..MaxRow
             /\ job[s].size \in Int /\ job[s].diff \in Int
  BY <1>1, JobTypes, JobRecords
<1>2. SessionSg[s] \in Sitegroup
  BY QuotaAssumption
<1>3. ASSUME NEW x \in Sitegroup, NEW n \in Size, Create(s, x, n) PROVE TypeOK'
  <2>1. [sg |-> x, id |-> 0, size |-> n, diff |-> 0] \in Job
    BY JobRecords, QuotaAssumption
  <2> QED
    BY <1>3, <2>1 DEF Create
<1>4. ASSUME CheckSg(s) \/ CheckType(s) \/ CheckSize(s) PROVE TypeOK'
  BY <1>4 DEF CheckSg, CheckType, CheckSize
<1>5. ASSUME CountType(s) PROVE TypeOK'
  BY <1>5, <1>1, CounterTypes DEF CountType
<1>6. ASSUME CountSg(s) PROVE TypeOK'
  BY <1>6, <1>1, CounterTypes DEF CountSg
<1>7. ASSUME Insert(s) PROVE TypeOK'
  <2>1. pc[s] = "insert" /\ pc[s] \in Creating
    BY <1>7 DEF Insert, Creating
  <2>2. nextId \in RowId /\ nextId \in 0..MaxRow /\ job[s].size \in Size
    BY <2>1, JobTypes DEF RowId
  <2>3. [job[s] EXCEPT !.id = nextId] \in Job
    BY <2>1, <2>2, <1>1, JobRecords
  <2>4. [sg |-> job[s].sg, content |-> job[s].size, size |-> job[s].size] \in Row
    BY <2>1, <2>2, <1>1, RowRecords
  <2>5. job' \in [Session -> Job \cup {NoJob}]
    BY <1>7, <2>3 DEF Insert
  <2>6. table' \in [RowId -> Row \cup {NoRow}]
    BY <1>7, <2>4 DEF Insert
  <2>8. pc' \in [Session -> Statement]
    BY <1>7 DEF Insert
  <2>9. ret' \in [Session -> BOOLEAN]
    BY <1>7 DEF Insert
  <2>10. nextId' \in Nat \ {0}
    BY <1>7 DEF Insert
  <2> QED
    BY <1>7, <2>5, <2>6, <2>8, <2>9, <2>10 DEF Insert
<1>8. ASSUME NEW i \in RowId, NEW x \in Sitegroup, Purge(s, i, x) PROVE TypeOK'
  <2>1. i \in 0..MaxRow /\ StoredSize(i) \in Int
    BY RowRecords DEF RowId, StoredSize
  <2>2. \A n \in {0, StoredSize(i)} : [sg |-> x, id |-> i, size |-> n, diff |-> 0] \in Job
    BY <2>1, JobRecords
  <2> QED
    BY <1>8, <2>2 DEF Purge, SizeRead, Refuse
<1>9. ASSUME NEW i \in RowId, NEW x \in Sitegroup, NEW n \in Size, Update(s, i, x, n) PROVE TypeOK'
  <2>1. i \in 0..MaxRow /\ n \in Int
    BY JobRecords DEF RowId
  <2>2. [sg |-> x, id |-> i, size |-> n, diff |-> 0] \in Job
    BY <2>1, JobRecords
  <2>3. table[i] # NoRow => [table[i] EXCEPT !.content = n] \in Row
    BY RowRecords
  <2>4. table' \in [RowId -> Row \cup {NoRow}]
    BY <1>9, <2>3 DEF Update
  <2>5. job' \in [Session -> Job \cup {NoJob}]
    BY <1>9, <2>2 DEF Update
  <2>6. pc' \in [Session -> Statement]
    BY <1>9 DEF Update
  <2>7. ret' \in [Session -> BOOLEAN]
    BY <1>9 DEF Update
  <2>8. updates' \in Nat /\ refused' \in Nat
    BY <1>9 DEF Update, Refuse
  <2> QED
    BY <1>9, <2>4, <2>5, <2>6, <2>7, <2>8 DEF Update
<1>10. ASSUME Measure(s) PROVE TypeOK'
  <2>1. pc[s] = "measure"
    BY <1>10 DEF Measure
  <2>2. job[s].size - StoredSize(job[s].id) \in Int
    BY <2>1, <1>1, JobTypes DEF Creating
  <2>3. [job[s] EXCEPT !.diff = job[s].size - StoredSize(job[s].id)] \in Job
    BY <2>1, <2>2, <1>1, JobRecords
  <2> QED
    BY <1>10, <2>3 DEF Measure
<1>11. ASSUME AddRow(s) PROVE TypeOK'
  <2>1. job[s].diff \in Int
    BY <1>11, <1>1 DEF AddRow
  <2>2. \A i \in RowId : table[i] # NoRow => [table[i] EXCEPT !.size = @ + job[s].diff] \in Row
    BY <2>1, RowRecords
  <2>3. table' \in [RowId -> Row \cup {NoRow}]
    BY <1>11, <2>2 DEF AddRow
  <2> QED
    BY <1>11, <2>3 DEF AddRow
<1>12. ASSUME AddType(s) PROVE TypeOK'
  BY <1>12, <1>1, CounterTypes DEF AddType
<1>13. ASSUME AddSg(s) PROVE TypeOK'
  BY <1>13, <1>1, CounterTypes DEF AddSg
<1>14. ASSUME Delete(s) PROVE TypeOK'
  BY <1>14, <1>1, <1>2 DEF Delete, Misbook
<1>15. ASSUME UncountType(s) PROVE TypeOK'
  BY <1>15, <1>2, CounterTypes DEF UncountType
<1>16. ASSUME UncountSg(s) PROVE TypeOK'
  BY <1>16, <1>2, CounterTypes DEF UncountSg
<1>17. ASSUME DropType(s) PROVE TypeOK'
  BY <1>17, <1>1, <1>2, CounterTypes DEF DropType
<1>18. ASSUME DropSg(s) PROVE TypeOK'
  BY <1>18, <1>1, <1>2, CounterTypes DEF DropSg
<1>19. ASSUME Refused(s) PROVE TypeOK'
  <2>1. pc[s] # "idle" /\ refused' \in Nat
    BY <1>19 DEF Refused, Refuse
  <2>2. job[s].sg \in Sitegroup /\ job[s] \in Job
    BY <1>1, <2>1
  <2>3. [job[s] EXCEPT !.sg = SessionSg[s]] \in Job
    BY <1>2, <2>2, JobRecords
  <2>4. pc[s] = "measure" => \A n \in {0, StoredSize(job[s].id)} :
          [job[s] EXCEPT !.diff = job[s].size - n] \in Job
    <3> SUFFICES ASSUME pc[s] = "measure", NEW n \in {0, StoredSize(job[s].id)}
                 PROVE  [job[s] EXCEPT !.diff = job[s].size - n] \in Job
      OBVIOUS
    <3>1. n \in Int
      BY <2>1, JobTypes DEF Creating
    <3>2. job[s].size - n \in Int
      BY <1>1, <2>1, <3>1
    <3> QED
      BY <2>2, <3>2, JobRecords
  <2>5. job' \in [Session -> Job \cup {NoJob}]
    BY <1>19, <2>3, <2>4 DEF Refused
  <2>6. pc' \in [Session -> Statement]
    BY <1>19 DEF Refused, AfterRefusal
  <2>7. ret' \in [Session -> BOOLEAN]
    BY <1>19 DEF Refused
  <2>8. tooHigh' \subseteq Sitegroup /\ tooLow' \subseteq Sitegroup
    BY <1>19, <1>2, <2>2 DEF Refused
  <2> QED
    BY <1>19, <2>1, <2>5, <2>6, <2>7, <2>8 DEF Refused
<1> QED
  BY <1>3, <1>4, <1>5, <1>6, <1>7, <1>8, <1>9, <1>10, <1>11, <1>12, <1>13, <1>14, <1>15, <1>16,
     <1>17, <1>18, <1>19 DEF Step

LEMMA IdsGrow ==
  ASSUME TypeOK, NEW s \in Session, Step(s)
  PROVE  /\ nextId' \in {nextId, nextId + 1}
         /\ nextId' # nextId => pc[s] = "insert" /\ pc'[s] = "measure"
PROOF
  BY DEF TypeOK, Step, Create, CheckSg, CheckType, CheckSize, CountType, CountSg, Insert, Purge,
     Update, Measure, AddRow, AddType, AddSg, Delete, UncountType, UncountSg, DropType, DropSg, Refused,
     Goto

LEMMA FitStep ==
  ASSUME TypeOK, JobFits, RoomLeft, NEW s \in Session, Step(s)
  PROVE  JobFits'
PROOF
<1> DEFINE Fit(t) == /\ pc[t] # "idle" => job[t] \in Job
                     /\ pc[t] \in Creating => job[t].size \in Size
                     /\ pc[t] \notin Creating \cup {"idle"} => job[t].id \in 1..(nextId - 1)
<1>1. \A t \in Session : Fit(t)
  BY DEF JobFits
<1>2. nextId \in Nat /\ nextId' \in {nextId, nextId + 1}
  BY IdsGrow DEF TypeOK
<1>3. ASSUME NEW t \in Session \ {s} PROVE Fit(t)'
  BY <1>1, <1>2, OthersRest DEF TypeOK
<1> USE DEF Goto, Return, Creating
<1>5. Fit(s)'
  <2> USE DEF TypeOK
  <2>1. ASSUME NEW x \in Sitegroup, NEW n \in Size, Create(s, x, n) PROVE Fit(s)'
    <3>1. [sg |-> x, id |-> 0, size |-> n, diff |-> 0] \in Job
      BY JobRecords, QuotaAssumption
    <3> QED
      BY <2>1, <3>1 DEF Create
  <2>2. CASE CheckSg(s) \/ CheckType(s) \/ CheckSize(s)
    BY <2>2, <1>1 DEF CheckSg, CheckType, CheckSize
  <2>3. CASE CountType(s) \/ CountSg(s)
    BY <2>3, <1>1 DEF CountType, CountSg
  <2>4. CASE Insert(s)
    <3>1. pc[s] = "insert" /\ nextId \in RowId
      BY <2>4, JobTypes DEF Insert
    <3>2. CASE pc'[s] = "idle"
      BY <3>2
    <3>3. CASE pc'[s] # "idle"
      <4>1. pc'[s] = "measure" /\ job'[s] = [job[s] EXCEPT !.id = nextId] /\ nextId' = nextId + 1
        BY <2>4, <3>3 DEF Insert
      <4>2. nextId \in 0..MaxRow
        BY <3>1 DEF RowId
      <4>3. job'[s] \in Job /\ job'[s].id = nextId
        BY <4>1, <4>2, <3>1, <1>1, JobRecords DEF Job
      <4> QED
        BY <4>1, <4>3, <3>1, <1>2 DEF RowId
    <3> QED
      BY <3>2, <3>3
  <2>5. ASSUME NEW i \in RowId, NEW x \in Sitegroup, Purge(s, i, x) PROVE Fit(s)'
    <3>1. i \in 0..MaxRow /\ StoredSize(i) \in Int
      BY RowRecords DEF RowId, StoredSize
    <3>2. \A n \in {0, StoredSize(i)} : [sg |-> x, id |-> i, size |-> n, diff |-> 0] \in Job
      BY <3>1, JobRecords
    <3>3. i \in 1..(nextId - 1)
      BY <2>5, <1>2 DEF Purge, Holds, RowId
    <3> QED
      BY <2>5, <3>2, <3>3 DEF Purge
  <2>6. ASSUME NEW i \in RowId, NEW x \in Sitegroup, NEW n \in Size, Update(s, i, x, n)
        PROVE  Fit(s)'
    <3>1. i \in 0..MaxRow /\ n \in Int
      BY JobRecords DEF RowId
    <3>2. [sg |-> x, id |-> i, size |-> n, diff |-> 0] \in Job
      BY <3>1, JobRecords
    <3>3. i \in 1..(nextId - 1)
      BY <2>6, <1>2 DEF Update, Holds, RowId
    <3>4. \/ pc'[s] = "idle"
          \/ /\ pc'[s] = "measure" /\ nextId' = nextId
             /\ job'[s] = [sg |-> x, id |-> i, size |-> n, diff |-> 0]
      BY <2>6 DEF Update
    <3> QED
      BY <3>2, <3>3, <3>4
  <2>7. CASE Measure(s)
    <3>1. CASE pc'[s] = "idle"
      BY <3>1
    <3>2. CASE pc'[s] # "idle"
      <4>1. /\ pc[s] = "measure" /\ pc'[s] = "add_row" /\ nextId' = nextId
            /\ job'[s] = [job[s] EXCEPT !.diff = job[s].size - StoredSize(job[s].id)]
        BY <2>7, <3>2 DEF Measure
      <4>2. job[s] \in Job /\ job[s].id \in 1..(nextId - 1)
        BY <4>1, <1>1
      <4>3. job[s].size - StoredSize(job[s].id) \in Int
        BY <4>1, <4>2, JobTypes, JobRecords
      <4>4. job'[s] \in Job
        BY <4>1, <4>2, <4>3, JobRecords
      <4>5. job'[s].id = job[s].id
        BY <4>1, <4>2 DEF Job
      <4> QED
        BY <4>1, <4>2, <4>4, <4>5
    <3> QED
      BY <3>1, <3>2
  <2>8. CASE AddRow(s) \/ AddType(s) \/ AddSg(s)
    BY <2>8, <1>1 DEF AddRow, AddType, AddSg
  <2>9. CASE Delete(s)
    BY <2>9, <1>1 DEF Delete
  <2>10. CASE UncountType(s) \/ UncountSg(s) \/ DropType(s) \/ DropSg(s)
    BY <2>10, <1>1 DEF UncountType, UncountSg, DropType, DropSg, Refused
  <2>11. CASE Refused(s)
    <3>1. pc[s] # "idle" /\ nextId' = nextId
      BY <2>11 DEF Refused
    <3>2. job[s] \in Job /\ SessionSg[s] \in Sitegroup
      BY <3>1, <1>1, QuotaAssumption
    <3>3. CASE pc[s] = "delete"
      <4>1. job'[s] = [job[s] EXCEPT !.sg = SessionSg[s]] /\ pc'[s] = "uncount_type"
        BY <2>11, <3>3 DEF Refused, AfterRefusal
      <4>2. job'[s] \in Job /\ job'[s].id = job[s].id
        BY <4>1, <3>2, JobRecords DEF Job
      <4> QED
        BY <4>1, <4>2, <3>1, <3>3, <1>1
    <3>4. CASE pc[s] = "measure"
      <4>1. PICK n \in {0, StoredSize(job[s].id)} :
              job'[s] = [job[s] EXCEPT !.diff = job[s].size - n]
        BY <2>11, <3>4 DEF Refused
      <4>2. job[s].size - n \in Int
        BY <3>2, <3>4, JobTypes, JobRecords
      <4>3. job'[s] \in Job /\ job'[s].id = job[s].id
        BY <4>1, <4>2, <3>2, JobRecords DEF Job
      <4>4. pc'[s] = "add_row"
        BY <2>11, <3>4 DEF Refused, AfterRefusal
      <4> QED
        BY <4>3, <4>4, <3>1, <3>4, <1>1
    <3>5. CASE pc[s] \notin {"delete", "measure"}
      <4>1. \/ pc'[s] = "idle"
            \/ /\ job'[s] = job[s] /\ pc'[s] = AfterRefusal[pc[s]]
               /\ pc[s] \in DOMAIN AfterRefusal
        BY <2>11, <3>5 DEF Refused, AfterRefusal
      <4>2. CASE pc[s] \in Creating
        BY <4>1, <4>2, <3>1, <1>1 DEF AfterRefusal
      <4>3. CASE pc[s] \notin Creating
        BY <4>1, <4>3, <3>1, <1>1, <3>5 DEF AfterRefusal
      <4> QED
        BY <4>2, <4>3
    <3> QED
      BY <3>3, <3>4, <3>5
  <2> QED
    BY <2>1, <2>2, <2>3, <2>4, <2>5, <2>6, <2>7, <2>8, <2>9, <2>10, <2>11 DEF Step
<1> QED
  BY <1>3, <1>5 DEF JobFits

(* Where a session goes from a statement the server refused.                  *)
LEMMA RefusedGoes ==
  ASSUME TypeOK, NEW s \in Session, Refused(s)
  PROVE  /\ pc[s] # "idle" /\ pc'[s] \notin {"delete", "measure", "check_sg", "check_type"}
         /\ pc'[s] \in Creating => pc[s] \in Creating
         /\ pc'[s] = "uncount_type" =>
              pc[s] = "delete" /\ (job[s] \in Job => job'[s].sg = SessionSg[s])
         /\ pc'[s] = "uncount_sg" => pc[s] = "uncount_type" /\ job'[s] = job[s]
         /\ pc[s] = "delete" => pc'[s] = "uncount_type" /\ SessionSg[s] \in tooLow'
         /\ pc[s] = "insert" => pc'[s] = "idle" /\ job[s].sg \in tooHigh'
         /\ pc[s] = "uncount_type" => pc'[s] = "uncount_sg" /\ SessionSg[s] \in tooHigh'
         /\ pc[s] = "uncount_sg" => pc'[s] = "drop_type" /\ SessionSg[s] \in tooHigh'
         /\ pc[s] \in {"check_sg", "check_type", "count_sg"} => pc'[s] = "insert"
         /\ pc[s] = "check_size" => pc'[s] = "count_type"
         /\ pc[s] = "count_type" => pc'[s] = "count_sg"
         /\ pc[s] \in {"check_sg", "check_type", "count_type", "count_sg"} => job[s].sg \in tooLow'
         /\ pc[s] \in Creating /\ pc[s] # "insert" => job'[s] = job[s]
         /\ pc[s] \notin Creating \cup {"delete", "uncount_type", "uncount_sg"}
              => pc'[s] \in {"idle", "add_row", "add_type", "add_sg", "drop_sg"}
         /\ refused' = refused + 1 /\ sgRecords' = sgRecords /\ typeRecords' = typeRecords
PROOF
<1>1. refused' = refused + 1 /\ refused \in Nat /\ counters' = counters
  BY DEF TypeOK, Refused, Refuse
<1>2. sgRecords' = sgRecords /\ typeRecords' = typeRecords
  BY <1>1 DEF counters
<1> USE DEF TypeOK, Goto, Return, Creating
<1>3. CASE pc[s] \in {"check_sg", "check_type", "count_type", "count_sg", "check_size"}
  BY <1>1, <1>2, <1>3 DEF Refused, AfterRefusal
<1>4. CASE pc[s] \in {"insert", "delete"}
  <2>1. pc[s] = "delete" => job'[s] = [job[s] EXCEPT !.sg = SessionSg[s]]
    BY <1>4 DEF Refused
  <2>2. pc[s] = "delete" /\ job[s] \in Job => job'[s].sg = SessionSg[s]
    BY <2>1 DEF Job
  <2> QED
    BY <1>1, <1>2, <1>4, <2>2 DEF Refused, AfterRefusal
<1>5. CASE pc[s] \in {"uncount_type", "uncount_sg"}
  BY <1>1, <1>2, <1>5 DEF Refused, AfterRefusal
<1>6. CASE pc[s] \in {"add_row", "add_type", "drop_type", "measure", "add_sg", "drop_sg"}
  BY <1>1, <1>2, <1>6 DEF Refused, AfterRefusal
<1> QED
  BY <1>3, <1>4, <1>5, <1>6 DEF Refused

LEMMA RoomStep ==
  ASSUME TypeOK, RoomLeft, NEW s \in Session, Step(s)
  PROVE  RoomLeft'
PROOF
<1>1. \A t \in Session \ {s} : pc'[t] = pc[t]
  BY OthersRest
<1>2. /\ Cardinality(In(Creating)) \in Nat
      /\ Cardinality(In(Creating)') = Cardinality(In(Creating))
           + Bit(pc'[s] \in Creating) - Bit(pc[s] \in Creating)
  BY <1>1, InChange
<1>3. MaxRow \in Nat /\ nextId \in Nat
  BY QuotaAssumption DEF TypeOK
<1>4. CASE nextId' # nextId
  <2>1. nextId' = nextId + 1 /\ pc[s] \in Creating /\ pc'[s] \notin Creating
    BY <1>4, IdsGrow DEF Creating
  <2> QED
    BY <2>1, <1>2, <1>3 DEF RoomLeft, Bit
<1>5. CASE nextId' = nextId
  <2>1. CASE pc[s] = "idle" /\ pc'[s] \in Creating
    <3>1. nextId + Cardinality(In(Creating)) <= MaxRow
      BY <2>1, RefusedGoes DEF TypeOK, Step, Create, CheckSg, CheckType, CheckSize, CountType, CountSg, Insert, Purge,
     Update, Measure, AddRow, AddType, AddSg, Delete, UncountType, UncountSg, DropType, DropSg, Refused,
         Goto, Return, Creating
    <3> QED
      BY <3>1, <2>1, <1>2, <1>3, <1>5 DEF RoomLeft, Bit
  <2>2. CASE ~(pc[s] = "idle" /\ pc'[s] \in Creating)
    <3>1. pc'[s] \in Creating => pc[s] \in Creating
      BY <2>2, RefusedGoes DEF TypeOK, Step, Create, CheckSg, CheckType, CheckSize, CountType,
         CountSg, Insert, Purge, Update, Measure, AddRow, AddType, AddSg, Delete, UncountType,
         UncountSg, DropType, DropSg,
         Goto, Return, Creating
    <3> QED
      BY <3>1, <1>2, <1>3, <1>5 DEF RoomLeft, Bit
  <2> QED
    BY <2>1, <2>2
<1> QED
  BY <1>4, <1>5

(* What a step does to the table: a new row where an id comes next, one row    *)
(* less, or other sizes.                                                      *)
LEMMA TableChanges ==
  ASSUME TypeOK, JobFits, RoomLeft, NEW s \in Session, Step(s)
  PROVE  \/ /\ Insert(s) /\ nextId \in RowId /\ nextId' = nextId + 1
            /\ pc[s] = "insert" /\ pc'[s] = "measure" /\ job'[s].sg = job[s].sg
            /\ table'[nextId] # NoRow /\ table'[nextId].sg = job[s].sg
            /\ \A i \in RowId \ {nextId} : table'[i] = table[i]
            /\ tooHigh' = tooHigh /\ tooLow' = tooLow
         \/ /\ Delete(s) /\ nextId' = nextId
            /\ job[s].id \in RowId /\ table[job[s].id] # NoRow /\ table'[job[s].id] = NoRow
            /\ pc[s] = "delete" /\ pc'[s] = "uncount_type" /\ job'[s] = job[s]
            /\ refused' = refused
            /\ \A i \in RowId \ {job[s].id} : table'[i] = table[i]
         \/ /\ nextId' = nextId /\ ~(pc[s] = "delete" /\ pc'[s] = "uncount_type" /\ refused' = refused)
            /\ ~(pc[s] = "insert" /\ pc'[s] = "measure")
            /\ \A i \in RowId : /\ table'[i] = NoRow <=> table[i] = NoRow
                                /\ table[i] # NoRow => table'[i].sg = table[i].sg
PROOF
<1> USE DEF Goto
<1>1. pc[s] # "idle" => job[s] \in Job /\ job[s].sg \in Sitegroup
  BY JobTypes, JobRecords
<1>2. CASE Insert(s)
  <2>1. pc[s] = "insert" /\ pc[s] \in Creating
    BY <1>2 DEF Insert, Creating
  <2>2. nextId \in RowId /\ job[s].size \in Size /\ job[s].sg \in Sitegroup
    BY <2>1, <1>1, JobTypes
  <2>3. [sg |-> job[s].sg, content |-> job[s].size, size |-> job[s].size] \in Row
    BY <2>2, RowRecords
  <2>4. CASE pc'[s] = "measure"
    <3>1. /\ table' = [table EXCEPT ![nextId] =
              [sg |-> job[s].sg, content |-> job[s].size, size |-> job[s].size]]
          /\ nextId' = nextId + 1 /\ job' = [job EXCEPT ![s].id = nextId]
          /\ tooHigh' = tooHigh /\ tooLow' = tooLow
      BY <1>2, <2>1, <2>4 DEF Insert, Return, TypeOK, drift
    <3>2. job'[s].sg = job[s].sg
      BY <3>1, <1>1, <2>1 DEF TypeOK, Job
    <3>3. table'[nextId] # NoRow /\ table'[nextId].sg = job[s].sg
      BY <3>1, <2>2, <2>3, NoRowAssumption DEF TypeOK
    <3>4. \A i \in RowId \ {nextId} : table'[i] = table[i]
      BY <3>1 DEF TypeOK
    <3> QED
      BY <1>2, <2>1, <2>2, <2>4, <3>1, <3>2, <3>3, <3>4
  <2>5. CASE pc'[s] # "measure"
    <3>1. nextId' = nextId /\ table' = table
      BY <1>2, <2>5 DEF Insert, TypeOK
    <3> QED
      BY <2>1, <2>5, <3>1
  <2> QED
    BY <2>4, <2>5
<1>3. CASE Delete(s)
  <2>1. pc[s] = "delete" /\ job[s].id \in RowId /\ nextId' = nextId
    BY <1>3, JobTypes DEF Delete, Creating
  <2>2. CASE pc'[s] = "uncount_type"
    <3>1. /\ table[job[s].id] # NoRow /\ job' = job
          /\ table' = [table EXCEPT ![job[s].id] = NoRow] /\ refused' = refused
      BY <1>3, <2>2 DEF Delete, Return, TypeOK, Misbook
    <3> QED
      BY <1>3, <2>1, <2>2, <3>1 DEF TypeOK
  <2>3. CASE pc'[s] # "uncount_type"
    <3>1. table' = table
      BY <1>3, <2>3 DEF Delete, TypeOK
    <3> QED
      BY <2>1, <2>3, <3>1
  <2> QED
    BY <2>2, <2>3
<1>4. ASSUME NEW i \in RowId, NEW x \in Sitegroup, NEW n \in Size, Update(s, i, x, n),
             NEW k \in RowId
      PROVE  /\ table'[k] = NoRow <=> table[k] = NoRow
             /\ table[k] # NoRow => table'[k].sg = table[k].sg
  <2>1. table[i] # NoRow => [table[i] EXCEPT !.content = n] \in Row
    BY RowRecords DEF TypeOK
  <2>2. table[i] # NoRow => [table[i] EXCEPT !.content = n].sg = table[i].sg
    BY DEF TypeOK, Row
  <2>3. CASE table' = table
    BY <2>3
  <2>4. CASE table[i] # NoRow /\ table' = [table EXCEPT ![i] = [table[i] EXCEPT !.content = n]]
    BY <2>1, <2>2, <2>4, NoRowAssumption DEF TypeOK
  <2> QED
    BY <1>4, <2>3, <2>4 DEF Update
<1>5. ASSUME AddRow(s), NEW k \in RowId
      PROVE  /\ table'[k] = NoRow <=> table[k] = NoRow
             /\ table[k] # NoRow => table'[k].sg = table[k].sg
  <2>1. job[s].diff \in Int
    BY <1>5, JobTypes, JobRecords DEF AddRow
  <2>2. table[k] # NoRow => [table[k] EXCEPT !.size = @ + job[s].diff] \in Row
    BY <2>1, RowRecords DEF TypeOK
  <2>3. table[k] # NoRow => [table[k] EXCEPT !.size = @ + job[s].diff].sg = table[k].sg
    BY DEF TypeOK, Row
  <2> QED
    BY <1>5, <2>2, <2>3, NoRowAssumption DEF AddRow
<1>7. CASE Refused(s)
  <2>1. table' = table /\ nextId' = nextId /\ refused' # refused /\ pc'[s] # "measure"
    BY <1>7 DEF Refused, Refuse, Return, AfterRefusal, TypeOK
  <2> QED
    BY <2>1
<1>6. CASE ~Insert(s) /\ ~Delete(s) /\ ~Refused(s)
  <2>1. nextId' = nextId /\ pc[s] \notin {"delete", "insert"}
    BY <1>6 DEF Step, Create, CheckSg, CheckType, CheckSize, CountType, CountSg, Purge,
       Update, Measure, AddRow, AddType, AddSg, UncountType, UncountSg, DropType, DropSg, Refused
  <2>2. \/ table' = table \/ AddRow(s)
        \/ \E i \in RowId, x \in Sitegroup, n \in Size : Update(s, i, x, n)
    BY <1>6 DEF Step, Create, CheckSg, CheckType, CheckSize, CountType, CountSg, Purge,
       Measure, AddType, AddSg, UncountType, UncountSg, DropType, DropSg, Refused
  <2>3. \A k \in RowId : /\ table'[k] = NoRow <=> table[k] = NoRow
                         /\ table[k] # NoRow => table'[k].sg = table[k].sg
    BY <2>2, <1>4, <1>5
  <2> QED
    BY <2>1, <2>3
<1> QED
  BY <1>2, <1>3, <1>6, <1>7

LEMMA RowsKept ==
  ASSUME TypeOK, JobFits, RoomLeft, NEW s \in Session, Step(s), NEW i \in RowId,
         table'[i] # NoRow, table[i] = NoRow \/ table'[i].sg # table[i].sg
  PROVE  i = nextId /\ nextId' = nextId + 1
PROOF
<1>1. CASE nextId' = nextId + 1 /\ \A k \in RowId \ {nextId} : table'[k] = table[k]
  BY <1>1
<1>2. CASE table'[job[s].id] = NoRow /\ \A k \in RowId \ {job[s].id} : table'[k] = table[k]
  BY <1>2
<1>3. CASE \A k \in RowId : /\ table'[k] = NoRow <=> table[k] = NoRow
                            /\ table[k] # NoRow => table'[k].sg = table[k].sg
  <2>1. (table'[i] = NoRow <=> table[i] = NoRow) /\ (table[i] # NoRow => table'[i].sg = table[i].sg)
    BY <1>3
  <2> QED
    BY <2>1
<1> QED
  BY <1>1, <1>2, <1>3, TableChanges

LEMMA FreshStep ==
  ASSUME TypeOK, JobFits, RoomLeft, FreshIsFree, NEW s \in Session, Step(s)
  PROVE  FreshIsFree'
PROOF
<1>1. nextId \in Nat /\ \A i \in RowId : i \in Nat
  BY DEF TypeOK, RowId
<1>2. ASSUME NEW i \in RowId, i >= nextId' PROVE table'[i] = NoRow
  <2>2. i >= nextId /\ table[i] = NoRow
    BY <1>1, <1>2, IdsGrow DEF FreshIsFree
  <2>3. nextId' = nextId + 1 => i # nextId
    BY <1>1, <1>2
  <2> QED
    BY <2>2, <2>3, RowsKept
<1> QED
  BY <1>2 DEF FreshIsFree

LEMMA DeletesStep ==
  ASSUME TypeOK, JobFits, RoomLeft, DeletesItsOwn, NEW s \in Session, Step(s)
  PROVE  DeletesItsOwn'
PROOF
<1> SUFFICES ASSUME NEW t \in Session, pc'[t] = "delete", table'[job'[t].id] # NoRow
             PROVE  table'[job'[t].id].sg = job'[t].sg
  BY DEF DeletesItsOwn
<1>1. CASE pc[t] = "delete" /\ job'[t] = job[t]
  <2>1. job[t].id \in RowId /\ job[t].id < nextId /\ nextId \in Nat
    BY <1>1, JobTypes DEF Creating, TypeOK
  <2>2. job[t].id # nextId
    BY <2>1 DEF RowId
  <2>3. table[job[t].id] # NoRow => table[job[t].id].sg = job[t].sg
    BY <1>1 DEF DeletesItsOwn
  <2> QED
    BY <1>1, <2>1, <2>2, <2>3, RowsKept
<1>2. CASE t = s
  <2>1. PICK i \in RowId, x \in Sitegroup : Purge(s, i, x)
    BY <1>2, RefusedGoes DEF TypeOK, Step, Create, CheckSg, CheckType, CheckSize, CountType,
       CountSg, Insert, Purge, Update, Measure, AddRow, AddType, AddSg, Delete, UncountType,
       UncountSg, DropType, DropSg, Goto, Return
  <2>2. job'[s].id = i /\ job'[s].sg = x /\ table' = table
    BY <2>1 DEF Purge, TypeOK
  <2> QED
    BY <1>2, <2>1, <2>2 DEF Purge, Holds
<1> QED
  BY <1>1, <1>2, OthersRest

LEMMA DriftGrows ==
  ASSUME NEW s \in Session, Step(s)
  PROVE  tooHigh \subseteq tooHigh' /\ tooLow \subseteq tooLow'
PROOF
  BY DEF Step, Create, CheckSg, CheckType, CheckSize, CountType, CountSg, Insert, Purge,
     Update, Measure, AddRow, AddType, AddSg, Delete, UncountType, UncountSg, DropType, DropSg, Refused,
     drift, Misbook

LEMMA MisbookStep ==
  ASSUME TypeOK, JobFits, MisbookingsKnown, NEW s \in Session, Step(s)
  PROVE  MisbookingsKnown'
PROOF
<1> SUFFICES ASSUME NEW t \in Session, pc'[t] \in {"uncount_type", "uncount_sg"},
                    job'[t].sg # SessionSg[t]
             PROVE  job'[t].sg \in tooHigh' /\ SessionSg[t] \in tooLow'
  BY DEF MisbookingsKnown
<1>1. CASE pc[t] \in {"uncount_type", "uncount_sg"} /\ job'[t] = job[t]
  BY <1>1, DriftGrows DEF MisbookingsKnown
<1>2. CASE t = s /\ ~(pc[t] \in {"uncount_type", "uncount_sg"} /\ job'[t] = job[t])
  <2> USE DEF JobFits
  <2>1. Delete(s) /\ pc'[s] # "idle"
    BY <1>2, RefusedGoes DEF TypeOK, Step, Create, CheckSg, CheckType, CheckSize, CountType,
       CountSg, Insert, Purge, Update, Measure, AddRow, AddType, AddSg, Delete, UncountType,
       UncountSg, DropType, DropSg, Goto, Return
  <2>2. Misbook(s) /\ job' = job
    BY <2>1 DEF Delete, Return, TypeOK
  <2> QED
    BY <1>2, <2>2 DEF Misbook
<1> QED
  BY <1>1, <1>2, OthersRest

LEMMA StateStep ==
  ASSUME StateInv, NEW s \in Session, Step(s)
  PROVE  StateInv'
PROOF
  BY TypeStep, FitStep, RoomStep, FreshStep, DeletesStep, MisbookStep DEF StateInv

-----------------------------------------------------------------------------
Inserts(s) == pc[s] = "insert" /\ pc'[s] = "measure"
Deletes(s) == pc[s] = "delete" /\ pc'[s] = "uncount_type" /\ refused' = refused

(* What a step changes in the number of records there are and of objects      *)
(* sessions owe a statement for.                                              *)
LEMMA ThereChange ==
  ASSUME StateInv, NEW s \in Session, Step(s), NEW L, NEW x
  PROVE  /\ There(L, x) \in Nat /\ There(L, x)' \in Nat
         /\ There(L, x)' = There(L, x)
              + Bit(pc'[s] \in L /\ job'[s].sg = x) - Bit(pc[s] \in L /\ job[s].sg = x)
              + Bit(Inserts(s) /\ job[s].sg = x) - Bit(Deletes(s) /\ job[s].sg = x)
PROOF
<1> USE DEF StateInv
<1>1. /\ Cardinality(Busy(L, x)) \in Nat /\ Cardinality(Busy(L, x)') \in Nat
      /\ Cardinality(Busy(L, x)') = Cardinality(Busy(L, x))
           + Bit(pc'[s] \in L /\ job'[s].sg = x) - Bit(pc[s] \in L /\ job[s].sg = x)
  BY BusyChange, OthersRest
<1>2. /\ Cardinality(RowsOf(x)) \in Nat /\ Cardinality(RowsOf(x)') \in Nat
      /\ Cardinality(RowsOf(x)') = Cardinality(RowsOf(x))
           + Bit(Inserts(s) /\ job[s].sg = x) - Bit(Deletes(s) /\ job[s].sg = x)
  <2>1. CASE /\ nextId \in RowId /\ pc[s] = "insert" /\ pc'[s] = "measure"
             /\ table'[nextId] # NoRow /\ table'[nextId].sg = job[s].sg
             /\ \A i \in RowId \ {nextId} : table'[i] = table[i]
    <3>1. table[nextId] = NoRow
      BY <2>1 DEF FreshIsFree, TypeOK
    <3>2. \A i \in RowId \ {nextId} : OfSg(table'[i], x) <=> OfSg(table[i], x)
      BY <2>1 DEF OfSg
    <3>3. /\ Cardinality(RowsOf(x)) \in Nat /\ Cardinality(RowsOf(x)') \in Nat
          /\ Cardinality(RowsOf(x)') = Cardinality(RowsOf(x))
               + Bit(OfSg(table'[nextId], x)) - Bit(OfSg(table[nextId], x))
      BY <2>1, <3>2, RowsChange
    <3> QED
      BY <2>1, <3>1, <3>3 DEF OfSg, Bit, Inserts, Deletes
  <2>2. CASE /\ job[s].id \in RowId /\ table[job[s].id] # NoRow /\ table'[job[s].id] = NoRow
             /\ pc[s] = "delete" /\ pc'[s] = "uncount_type" /\ refused' = refused
             /\ \A i \in RowId \ {job[s].id} : table'[i] = table[i]
    <3>1. table[job[s].id].sg = job[s].sg
      BY <2>2 DEF DeletesItsOwn
    <3>2. \A i \in RowId \ {job[s].id} : OfSg(table'[i], x) <=> OfSg(table[i], x)
      BY <2>2 DEF OfSg
    <3>3. /\ Cardinality(RowsOf(x)) \in Nat /\ Cardinality(RowsOf(x)') \in Nat
          /\ Cardinality(RowsOf(x)') = Cardinality(RowsOf(x))
               + Bit(OfSg(table'[job[s].id], x)) - Bit(OfSg(table[job[s].id], x))
      BY <2>2, <3>2, RowsChange
    <3> QED
      BY <2>2, <3>1, <3>3 DEF OfSg, Bit, Inserts, Deletes
  <2>3. CASE /\ ~Inserts(s) /\ ~Deletes(s)
             /\ \A i \in RowId :
                  /\ table'[i] = NoRow <=> table[i] = NoRow
                  /\ table[i] # NoRow => table'[i].sg = table[i].sg
    <3>1. \A i \in RowId : OfSg(table'[i], x) <=> OfSg(table[i], x)
      BY <2>3 DEF OfSg
    <3>2. Cardinality(RowsOf(x)) \in Nat /\ Cardinality(RowsOf(x)') = Cardinality(RowsOf(x))
      BY <3>1, RowsStay
    <3> QED
      BY <2>3, <3>2 DEF Bit
  <2> QED
    BY <2>1, <2>2, <2>3, TableChanges DEF Inserts, Deletes
<1> QED
  BY <1>1, <1>2 DEF There, Bit

(* The counters of one sitegroup.                                             *)
LEMMA CounterChanges ==
  ASSUME NEW c \in [Sitegroup -> Nat], NEW rowsOf, NEW x \in rowsOf \cap Sitegroup,
         NEW y \in Sitegroup
  PROVE  /\ c[x] \in Nat
         /\ Add(c, rowsOf, y, 1)[x] = c[x] + Bit(x = y)
         /\ Subtract(c, rowsOf, y, 1)[x] = IF x = y /\ c[x] > 0 THEN c[x] - 1 ELSE c[x]
PROOF
  BY DEF Add, Subtract, Bit

LEMMA CountedIsMetered == Counted \subseteq Metered \cap TypeMetered \cap Sitegroup
PROOF
  BY QuotaAssumption DEF Counted

LEMMA SgStep ==
  ASSUME StateInv, Agrees(sgRecords, SgOwed), NEW s \in Session, Step(s)
  PROVE  Agrees(sgRecords, SgOwed)'
PROOF
<1> SUFFICES ASSUME NEW x \in Counted
             PROVE  /\ x \notin tooHigh' => sgRecords'[x] <= There(SgOwed, x)'
                    /\ x \notin tooLow' => sgRecords'[x] >= There(SgOwed, x)'
  BY DEF Agrees
<1> DEFINE n == sgRecords[x]
           m == There(SgOwed, x)
           was == Bit(pc[s] \in SgOwed /\ job[s].sg = x)
           is == Bit(pc'[s] \in SgOwed /\ job'[s].sg = x)
           more == Bit(Inserts(s) /\ job[s].sg = x)
           less == Bit(Deletes(s) /\ job[s].sg = x)
<1> USE DEF StateInv, TypeOK, SgOwed, Bit, Inserts, Deletes, Goto, Return, counters, drift
<1>1. x \in Metered /\ x \in TypeMetered /\ x \in Sitegroup /\ n \in Nat
  BY CountedIsMetered
<1>2. m \in Nat /\ There(SgOwed, x)' \in Nat /\ There(SgOwed, x)' = m + is - was + more - less
  BY ThereChange
<1>3. (x \notin tooHigh => n <= m) /\ (x \notin tooLow => n >= m)
  BY DEF Agrees
<1>4. (x \notin tooHigh' => x \notin tooHigh) /\ (x \notin tooLow' => x \notin tooLow)
  BY DriftGrows
<1>5. pc[s] # "idle" => job[s] \in Job /\ job[s].sg \in Sitegroup
  BY JobTypes, JobRecords
<1> HIDE DEF n, m
<1>6. CASE sgRecords' = sgRecords /\ is + more = was + less
  BY <1>2, <1>3, <1>4, <1>6 DEF n
<1>7. CASE CountSg(s)
  <2>1. is = Bit(x = job[s].sg) /\ was = 0 /\ more = 0 /\ less = 0
    BY <1>7 DEF CountSg
  <2>2. sgRecords'[x] = n + Bit(x = job[s].sg)
    <3>1. job[s].sg \in Sitegroup /\ sgRecords' = Add(sgRecords, Metered, job[s].sg, 1)
      BY <1>5, <1>7 DEF CountSg
    <3>2. x \in Metered \cap Sitegroup /\ sgRecords \in [Sitegroup -> Nat]
      BY <1>1
    <3> QED
      BY <3>1, <3>2 DEF n, Add
  <2> QED
    BY <1>1, <1>2, <1>3, <1>4, <2>1, <2>2
<1>8. CASE UncountSg(s)
  <2>1. SessionSg[s] \in Sitegroup
    BY QuotaAssumption
  <2>2. /\ sgRecords'[x] = IF x = SessionSg[s] /\ n > 0 THEN n - 1 ELSE n
        /\ is = 0 /\ more = 0 /\ less = 0 /\ was = Bit(job[s].sg = x)
    BY <1>1, <1>8, <2>1, CounterChanges DEF UncountSg, n
  <2>3. job[s].sg # SessionSg[s] => job[s].sg \in tooHigh /\ SessionSg[s] \in tooLow
    BY <1>8 DEF UncountSg, MisbookingsKnown
  <2>4. CASE job[s].sg = SessionSg[s]
    BY <1>1, <1>2, <1>3, <1>4, <2>2, <2>4
  <2>5. CASE job[s].sg # SessionSg[s]
    BY <1>1, <1>2, <1>3, <1>4, <2>2, <2>3, <2>5
  <2> QED
    BY <2>4, <2>5
<1>9. CASE Insert(s)
  <2>1. pc[s] = "insert" /\ sgRecords' = sgRecords /\ is = 0 /\ was = Bit(job[s].sg = x) /\ less = 0
    BY <1>9 DEF Insert
  <2>2. CASE Inserts(s)
    BY <1>6, <2>1, <2>2
  <2>3. CASE ~Inserts(s)
    <3>1. tooHigh' = tooHigh \cup {job[s].sg} /\ more = 0
      BY <1>9, <2>1, <2>3 DEF Insert
    <3> QED
      BY <1>1, <1>2, <1>3, <1>4, <2>1, <3>1 DEF n
  <2> QED
    BY <2>2, <2>3
<1>10. CASE CheckSg(s) \/ CheckType(s)
  <2>1. /\ sgRecords' = sgRecords /\ was = 0 /\ more = 0 /\ less = 0
        /\ pc[s] \in {"check_sg", "check_type"}
    BY <1>10 DEF CheckSg, CheckType
  <2>2. pc'[s] = "insert" => job'[s].sg \notin Metered \cap TypeMetered
    BY <1>10, <2>1 DEF CheckSg, CheckType
  <2>3. pc'[s] \notin {"uncount_type", "uncount_sg"}
    BY <1>10, <2>1 DEF CheckSg, CheckType
  <2>4. is = 0
    BY <1>1, <2>2, <2>3
  <2> QED
    BY <1>6, <2>1, <2>4
<1>11. CASE Delete(s) \/ UncountType(s)
  <2>1. sgRecords' = sgRecords /\ is + more = was + less
    BY <1>11 DEF Delete, UncountType, Misbook
  <2> QED
    BY <1>6, <2>1
<1>12. CASE ~CountSg(s) /\ ~UncountSg(s) /\ ~Insert(s) /\ ~CheckSg(s) /\ ~CheckType(s)
            /\ ~Delete(s) /\ ~UncountType(s) /\ ~Refused(s)
  <2>1. /\ sgRecords' = sgRecords
        /\ pc[s] \notin SgOwed \cup {"delete"} /\ pc'[s] \notin SgOwed
    BY <1>12 DEF Step, Create, CheckSize, CountType, Purge, Update, Measure, AddRow, AddType, AddSg,
       DropType, DropSg
  <2>2. is = 0 /\ was = 0 /\ more = 0 /\ less = 0
    BY <2>1
  <2> QED
    BY <1>6, <2>1, <2>2
<1>13. CASE Refused(s)
  <2> USE DEF Creating
  <2>1. /\ sgRecords' = sgRecords /\ more = 0 /\ less = 0 /\ SessionSg[s] \in Sitegroup
    BY <1>13, RefusedGoes, QuotaAssumption
  <2>2. CASE pc[s] \in Creating \ {"insert"}
    <3>1. was <= is /\ (was # is => x \in tooLow')
      BY <1>13, <2>2, RefusedGoes
    <3> QED
      BY <1>1, <1>2, <1>3, <1>4, <2>1, <3>1 DEF n
  <2>3. CASE pc[s] \in {"insert", "uncount_type", "uncount_sg"}
    <3>1. is <= was /\ (was # is => job[s].sg = x)
      BY <1>13, <2>3, RefusedGoes
    <3>2. was # is => x \in tooHigh'
      BY <1>13, <2>3, <3>1, RefusedGoes, DriftGrows DEF MisbookingsKnown
    <3> QED
      BY <1>1, <1>2, <1>3, <1>4, <2>1, <3>1, <3>2 DEF n
  <2>4. CASE pc[s] = "delete"
    <3>1. was = 0 /\ (is # 0 => x \in tooLow')
      BY <1>5, <1>13, <2>4, RefusedGoes
    <3> QED
      BY <1>1, <1>2, <1>3, <1>4, <2>1, <3>1 DEF n
  <2>5. CASE pc[s] \notin Creating \cup {"delete", "uncount_type", "uncount_sg"}
    <3>1. was = 0 /\ is = 0
      BY <1>13, <2>5, RefusedGoes
    <3> QED
      BY <1>6, <2>1, <3>1
  <2> QED
    BY <2>2, <2>3, <2>4, <2>5
<1> QED
  BY <1>7, <1>8, <1>9, <1>10, <1>11, <1>12, <1>13

LEMMA TypeCounterStep ==
  ASSUME StateInv, Agrees(typeRecords, TypeOwed), NEW s \in Session, Step(s)
  PROVE  Agrees(typeRecords, TypeOwed)'
PROOF
<1> SUFFICES ASSUME NEW x \in Counted
             PROVE  /\ x \notin tooHigh' => typeRecords'[x] <= There(TypeOwed, x)'
                    /\ x \notin tooLow' => typeRecords'[x] >= There(TypeOwed, x)'
  BY DEF Agrees
<1> DEFINE n == typeRecords[x]
           m == There(TypeOwed, x)
           was == Bit(pc[s] \in TypeOwed /\ job[s].sg = x)
           is == Bit(pc'[s] \in TypeOwed /\ job'[s].sg = x)
           more == Bit(Inserts(s) /\ job[s].sg = x)
           less == Bit(Deletes(s) /\ job[s].sg = x)
<1> USE DEF StateInv, TypeOK, TypeOwed, Bit, Inserts, Deletes, Goto, Return, counters, drift
<1>1. x \in Metered /\ x \in TypeMetered /\ x \in Sitegroup /\ n \in Nat
  BY CountedIsMetered
<1>2. m \in Nat /\ There(TypeOwed, x)' \in Nat /\ There(TypeOwed, x)' = m + is - was + more - less
  BY ThereChange
<1>3. (x \notin tooHigh => n <= m) /\ (x \notin tooLow => n >= m)
  BY DEF Agrees
<1>4. (x \notin tooHigh' => x \notin tooHigh) /\ (x \notin tooLow' => x \notin tooLow)
  BY DriftGrows
<1>5. pc[s] # "idle" => job[s] \in Job /\ job[s].sg \in Sitegroup
  BY JobTypes, JobRecords
<1> HIDE DEF n, m
<1>6. CASE typeRecords' = typeRecords /\ is + more = was + less
  BY <1>2, <1>3, <1>4, <1>6 DEF n
<1>7. CASE CountType(s)
  <2>1. is = Bit(x = job[s].sg) /\ was = 0 /\ more = 0 /\ less = 0
    BY <1>7 DEF CountType
  <2>2. typeRecords'[x] = n + Bit(x = job[s].sg)
    <3>1. job[s].sg \in Sitegroup /\ typeRecords' = Add(typeRecords, TypeMetered, job[s].sg, 1)
      BY <1>5, <1>7 DEF CountType
    <3>2. x \in TypeMetered \cap Sitegroup /\ typeRecords \in [Sitegroup -> Nat]
      BY <1>1
    <3> QED
      BY <3>1, <3>2 DEF n, Add
  <2> QED
    BY <1>1, <1>2, <1>3, <1>4, <2>1, <2>2
<1>8. CASE UncountType(s)
  <2>1. SessionSg[s] \in Sitegroup
    BY QuotaAssumption
  <2>2. /\ typeRecords'[x] = IF x = SessionSg[s] /\ n > 0 THEN n - 1 ELSE n
        /\ is = 0 /\ more = 0 /\ less = 0 /\ was = Bit(job[s].sg = x)
    BY <1>1, <1>8, <2>1, CounterChanges DEF UncountType, n
  <2>3. job[s].sg # SessionSg[s] => job[s].sg \in tooHigh /\ SessionSg[s] \in tooLow
    BY <1>8 DEF UncountType, MisbookingsKnown
  <2>4. CASE job[s].sg = SessionSg[s]
    BY <1>1, <1>2, <1>3, <1>4, <2>2, <2>4
  <2>5. CASE job[s].sg # SessionSg[s]
    BY <1>1, <1>2, <1>3, <1>4, <2>2, <2>3, <2>5
  <2> QED
    BY <2>4, <2>5
<1>9. CASE Insert(s)
  <2>1. pc[s] = "insert" /\ typeRecords' = typeRecords /\ is = 0 /\ was = Bit(job[s].sg = x) /\ less = 0
    BY <1>9 DEF Insert
  <2>2. CASE Inserts(s)
    BY <1>6, <2>1, <2>2
  <2>3. CASE ~Inserts(s)
    <3>1. tooHigh' = tooHigh \cup {job[s].sg} /\ more = 0
      BY <1>9, <2>1, <2>3 DEF Insert
    <3> QED
      BY <1>1, <1>2, <1>3, <1>4, <2>1, <3>1 DEF n
  <2> QED
    BY <2>2, <2>3
<1>10. CASE CheckSg(s) \/ CheckType(s)
  <2>1. /\ typeRecords' = typeRecords /\ was = 0 /\ more = 0 /\ less = 0
        /\ pc[s] \in {"check_sg", "check_type"}
    BY <1>10 DEF CheckSg, CheckType
  <2>2. pc'[s] = "insert" => job'[s].sg \notin Metered \cap TypeMetered
    BY <1>10, <2>1 DEF CheckSg, CheckType
  <2>3. pc'[s] \notin {"count_sg", "uncount_type"}
    BY <1>10, <2>1 DEF CheckSg, CheckType
  <2>4. is = 0
    BY <1>1, <2>2, <2>3
  <2> QED
    BY <1>6, <2>1, <2>4
<1>11. CASE Delete(s) \/ CountSg(s)
  <2>1. typeRecords' = typeRecords /\ is + more = was + less
    BY <1>11 DEF Delete, CountSg, Misbook
  <2> QED
    BY <1>6, <2>1
<1>12. CASE ~CountType(s) /\ ~UncountType(s) /\ ~Insert(s) /\ ~CheckSg(s) /\ ~CheckType(s)
            /\ ~Delete(s) /\ ~CountSg(s) /\ ~Refused(s)
  <2>1. /\ typeRecords' = typeRecords
        /\ pc[s] \notin TypeOwed \cup {"delete"} /\ pc'[s] \notin TypeOwed
    BY <1>12 DEF Step, Create, CheckSize, Purge, Update, Measure, AddRow, AddType, AddSg,
       UncountSg, DropType, DropSg
  <2>2. is = 0 /\ was = 0 /\ more = 0 /\ less = 0
    BY <2>1
  <2> QED
    BY <1>6, <2>1, <2>2
<1>13. CASE Refused(s)
  <2> USE DEF Creating
  <2>1. /\ typeRecords' = typeRecords /\ more = 0 /\ less = 0 /\ SessionSg[s] \in Sitegroup
    BY <1>13, RefusedGoes, QuotaAssumption
  <2>2. CASE pc[s] \in Creating \ {"insert"}
    <3>1. was <= is /\ (was # is => x \in tooLow')
      BY <1>13, <2>2, RefusedGoes
    <3> QED
      BY <1>1, <1>2, <1>3, <1>4, <2>1, <3>1 DEF n
  <2>3. CASE pc[s] \in {"insert", "uncount_type", "uncount_sg"}
    <3>1. is <= was /\ (was # is => job[s].sg = x)
      BY <1>13, <2>3, RefusedGoes
    <3>2. was # is => x \in tooHigh'
      BY <1>13, <2>3, <3>1, RefusedGoes, DriftGrows DEF MisbookingsKnown
    <3> QED
      BY <1>1, <1>2, <1>3, <1>4, <2>1, <3>1, <3>2 DEF n
  <2>4. CASE pc[s] = "delete"
    <3>1. was = 0 /\ (is # 0 => x \in tooLow')
      BY <1>5, <1>13, <2>4, RefusedGoes
    <3> QED
      BY <1>1, <1>2, <1>3, <1>4, <2>1, <3>1 DEF n
  <2>5. CASE pc[s] \notin Creating \cup {"delete", "uncount_type", "uncount_sg"}
    <3>1. was = 0 /\ is = 0
      BY <1>13, <2>5, RefusedGoes
    <3> QED
      BY <1>6, <2>1, <3>1
  <2> QED
    BY <2>2, <2>3, <2>4, <2>5
<1> QED
  BY <1>7, <1>8, <1>9, <1>10, <1>11, <1>12, <1>13

(* Who passes the check of the records finds room for one more; everybody     *)
(* else may have passed it as well.                                           *)
LEMMA CheckStep ==
  ASSUME StateInv, CheckHolds, NEW s \in Session, Step(s)
  PROVE  CheckHolds'
PROOF
<1> SUFFICES ASSUME MaxRecords > 0, NEW x \in Counted
             PROVE  typeRecords'[x] + Cardinality(Busy(Passed, x)') < MaxRecords + Cardinality(Session)
  BY DEF CheckHolds
<1> DEFINE n == typeRecords[x]
           m == Cardinality(Busy(Passed, x))
           was == Bit(pc[s] \in Passed /\ job[s].sg = x)
           is == Bit(pc'[s] \in Passed /\ job'[s].sg = x)
<1> USE DEF StateInv, TypeOK, Passed, Bit, Goto, Return, counters
<1>1. x \in TypeMetered /\ x \in Sitegroup /\ n \in Nat
  BY CountedIsMetered
<1>2. /\ m \in Nat /\ Cardinality(Busy(Passed, x)') \in Nat
      /\ Cardinality(Busy(Passed, x)') = m + is - was
  BY BusyChange, OthersRest
<1>3. n + m < MaxRecords + Cardinality(Session)
  BY DEF CheckHolds
<1>4. MaxRecords \in Nat /\ IsFiniteSet(Session)
  BY QuotaAssumption
<1>5. Cardinality(Session) \in Nat
  BY <1>4, FS_CardinalityType
<1>6. Cardinality(Busy(Passed, x)') <= Cardinality(Session)
  <2>1. Busy(Passed, x)' \in SUBSET Session
    BY DEF Busy, In
  <2> QED
    BY <2>1, <1>4, FS_Subset
<1>7. pc[s] # "idle" => job[s] \in Job /\ job[s].sg \in Sitegroup
  BY JobTypes, JobRecords
<1> HIDE DEF n, m
<1>8. CASE typeRecords' = typeRecords /\ is <= was
  BY <1>2, <1>3, <1>4, <1>5, <1>8, <1>1 DEF n
<1>9. CASE CheckType(s) /\ pc'[s] = "check_size" /\ job[s].sg = x
  <2>1. typeRecords'[x] = n /\ n + 1 <= MaxRecords
    BY <1>1, <1>4, <1>9 DEF CheckType, Reached, n
  <2> QED
    BY <2>1, <1>1, <1>2, <1>4, <1>5, <1>6
<1>10. CASE CheckType(s) /\ ~(pc'[s] = "check_size" /\ job[s].sg = x)
  <2>1. typeRecords' = typeRecords /\ is = 0
    BY <1>10 DEF CheckType
  <2> QED
    BY <1>8, <2>1
<1>11. CASE CheckSize(s)
  <2>1. typeRecords' = typeRecords /\ is <= was
    BY <1>11 DEF CheckSize
  <2> QED
    BY <1>8, <2>1
<1>12. CASE CountType(s)
  <2>1. is = 0 /\ was = Bit(x = job[s].sg)
    BY <1>12 DEF CountType
  <2>2. typeRecords'[x] = n + Bit(x = job[s].sg)
    <3>1. job[s].sg \in Sitegroup /\ typeRecords' = Add(typeRecords, TypeMetered, job[s].sg, 1)
      BY <1>7, <1>12 DEF CountType
    <3> QED
      BY <3>1, <1>1 DEF n, Add
  <2> QED
    BY <1>1, <1>2, <1>3, <1>4, <1>5, <2>1, <2>2
<1>13. CASE UncountType(s)
  <2>1. SessionSg[s] \in Sitegroup
    BY QuotaAssumption
  <2>2. /\ typeRecords'[x] = IF x = SessionSg[s] /\ n > 0 THEN n - 1 ELSE n
        /\ is = 0 /\ was = 0
    BY <1>1, <1>13, <2>1, CounterChanges DEF UncountType, n
  <2> QED
    BY <1>1, <1>2, <1>3, <1>4, <1>5, <2>2
<1>15. CASE Refused(s)
  <2>1. typeRecords' = typeRecords /\ is <= was
    BY <1>15, RefusedGoes DEF Creating
  <2> QED
    BY <1>8, <2>1
<1>14. CASE ~CheckType(s) /\ ~CheckSize(s) /\ ~CountType(s) /\ ~UncountType(s) /\ ~Refused(s)
  <2>1. typeRecords' = typeRecords /\ pc'[s] \notin Passed
    BY <1>14 DEF Step, Create, CheckSg, CountSg, Insert, Purge, Update, Measure, AddRow, AddType,
       AddSg, Delete, UncountSg, DropType, DropSg
  <2> QED
    BY <1>8, <2>1
<1> QED
  BY <1>9, <1>10, <1>11, <1>12, <1>13, <1>14, <1>15

-----------------------------------------------------------------------------
LEMMA QuotaStep == QuotaInv /\ [Next]_vars => QuotaInv'
PROOF
<1> SUFFICES ASSUME QuotaInv, [Next]_vars PROVE QuotaInv'
  OBVIOUS
<1>1. CASE UNCHANGED vars
  BY <1>1 DEF QuotaInv, vars, counters, drift, StateInv, TypeOK, JobFits, RoomLeft, FreshIsFree,
     DeletesItsOwn, MisbookingsKnown, Agrees, There, CheckHolds, RowsOf, Busy, In
<1>2. CASE Next
  <2>1. PICK s \in Session : Step(s)
    BY <1>2 DEF Next, Step
  <2> QED
    BY <2>1, StateStep, SgStep, TypeCounterStep, CheckStep DEF QuotaInv
<1> QED
  BY <1>1, <1>2

(* The inductive invariant of the quota: the checks, the counters and the     *)
(* rows of any number of sessions fit together.                               *)
THEOREM QuotaInvariant == Spec => []QuotaInv
PROOF
  BY QuotaInit, QuotaStep, PTL DEF Spec

(* A counter of records differs from what there is only by the objects that   *)
(* sessions are about to create or have just purged.                          *)
THEOREM CountersAreTrue == Spec => []RecordsCounted
PROOF
<1>1. QuotaInv => RecordsCounted
  <2> SUFFICES ASSUME QuotaInv, NEW x \in Counted \ (tooHigh \cup tooLow)
               PROVE  sgRecords[x] = There(SgOwed, x) /\ typeRecords[x] = There(TypeOwed, x)
    BY DEF RecordsCounted, There, SgOwed, TypeOwed
  <2>1. \A L : There(L, x) \in Nat
    <3> SUFFICES ASSUME NEW L PROVE There(L, x) \in Nat
      OBVIOUS
    <3>1. RowsOf(x) \in SUBSET RowId /\ Busy(L, x) \in SUBSET Session
      BY DEF RowsOf, Busy, In
    <3>2. IsFiniteSet(RowsOf(x)) /\ IsFiniteSet(Busy(L, x))
      BY <3>1, RowIdFinite, QuotaAssumption, FS_Subset
    <3> QED
      BY <3>2, FS_CardinalityType DEF There
  <2>2. sgRecords[x] \in Nat /\ typeRecords[x] \in Nat
    BY CountedIsMetered DEF QuotaInv, StateInv, TypeOK
  <2>3. /\ sgRecords[x] <= There(SgOwed, x) /\ sgRecords[x] >= There(SgOwed, x)
        /\ typeRecords[x] <= There(TypeOwed, x) /\ typeRecords[x] >= There(TypeOwed, x)
    BY DEF QuotaInv, Agrees
  <2> QED
    BY <2>1, <2>2, <2>3
<1> QED
  BY <1>1, QuotaInvariant, PTL

(* A limit is overshot by less than one object per session.                   *)
THEOREM LimitsHold == Spec => []OvershootBounded
PROOF
<1>1. QuotaInv => OvershootBounded
  <2> SUFFICES ASSUME QuotaInv, MaxRecords > 0, NEW x \in Counted \ tooLow
               PROVE  Cardinality(RowsOf(x)) < MaxRecords + Cardinality(Session)
    BY DEF OvershootBounded
  <2>1. \A L : Busy(L, x) \in SUBSET Session
    BY DEF Busy, In
  <2>2. IsFiniteSet(Session) /\ MaxRecords \in Nat
    BY QuotaAssumption
  <2>3. \A L : Cardinality(Busy(L, x)) \in Nat
    <3> SUFFICES ASSUME NEW L PROVE Cardinality(Busy(L, x)) \in Nat
      OBVIOUS
    <3>1. IsFiniteSet(Busy(L, x))
      BY <2>1, <2>2, FS_Subset
    <3> QED
      BY <3>1, FS_CardinalityType
  <2>4. Cardinality(RowsOf(x)) \in Nat
    <3>1. RowsOf(x) \in SUBSET RowId
      BY DEF RowsOf
    <3>2. IsFiniteSet(RowsOf(x))
      BY <3>1, RowIdFinite, FS_Subset
    <3> QED
      BY <3>2, FS_CardinalityType
  <2>5. Cardinality(Session) \in Nat
    BY <2>2, FS_CardinalityType
  <2>6. typeRecords[x] \in Nat
    BY CountedIsMetered DEF QuotaInv, StateInv, TypeOK
  <2>7. typeRecords[x] >= Cardinality(RowsOf(x)) + Cardinality(Busy(TypeOwed, x))
    BY DEF QuotaInv, Agrees, There
  <2>8. typeRecords[x] + Cardinality(Busy(Passed, x)) < MaxRecords + Cardinality(Session)
    BY DEF QuotaInv, CheckHolds
  <2> QED
    BY <2>2, <2>3, <2>4, <2>5, <2>6, <2>7, <2>8
<1> QED
  BY <1>1, QuotaInvariant, PTL

=============================================================================
