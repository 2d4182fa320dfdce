----------------------------- MODULE TreeProofs -----------------------------
(***************************************************************************)
(* What the checks of ObjectTree and LegacyTree are worth for every number *)
(* of sessions, names and records.                                         *)
(*                                                                         *)
(* ObjectTree: a session that nobody overtook between its checks and its   *)
(* write adds no second object of a name and closes no cycle of two        *)
(* objects, and one that nobody overtook between its queries lists, walks  *)
(* and finds what is in the tree.                                          *)
(*                                                                         *)
(* LegacyTree: a delete that nobody disturbed, that has missed no row and  *)
(* answers 1 has removed the tree; a copy that nobody disturbed and that   *)
(* has missed no node stays apart from its source and, if nothing was      *)
(* refused, is the same tree again.                                        *)
(***************************************************************************)
EXTENDS ObjectTree, LegacyTree, FiniteSetTheorems, SequenceTheorems, WellFoundedInduction, TLAPS

-----------------------------------------------------------------------------
(* Sets of numbers have a least one: the form in which the proofs below do     *)
(* their inductions.                                                            *)
LEMMA LeastOf == ASSUME NEW S \in SUBSET Nat, S # {} PROVE \E k \in S : \A m \in S : k <= m
PROOF
<1>1. IsWellFoundedOn(OpToRel(<, Nat), Nat)
  BY NatLessThanWellFounded
<1>2. PICK k \in S : \A m \in S : ~ (<<m, k>> \in OpToRel(<, Nat))
  BY <1>1, WFMin, Zenon
<1>3. ASSUME NEW m \in S PROVE ~ (m < k)
  <2>1. m \in Nat /\ k \in Nat
    OBVIOUS
  <2> QED
    BY <1>2, <2>1, Zenon DEF OpToRel
<1> QED
  BY <1>3

(* Ids are the first numbers; a set of them is finite. *)
Numbers(n) == 1..n

LEMMA SomeNumbers ==
  ASSUME NEW N \in Nat, NEW S \in SUBSET Numbers(N)
  PROVE  IsFiniteSet(S) /\ S \in SUBSET Nat
PROOF
<1>1. 1 \in Int /\ N \in Int
  OBVIOUS
<1>2. IsFiniteSet(Numbers(N))
  BY <1>1, FS_Interval DEF Numbers
<1>3. IsFiniteSet(S)
  BY <1>2, FS_Subset
<1> QED
  BY <1>3 DEF Numbers

(* A finite set of numbers in ascending order. *)
LEMMA Ascending ==
  ASSUME NEW N \in Nat, NEW n \in Nat, NEW S \in SUBSET Numbers(N), Cardinality(S) = n
  PROVE  \E g \in [1..n -> S] : /\ \A x \in S : \E a \in 1..n : g[a] = x
                                /\ \A a, b \in 1..n : a < b => g[a] < g[b]
PROOF
<1> DEFINE Sorted(m, T, g) == /\ g \in [1..m -> T]
                              /\ \A x \in T : \E a \in 1..m : g[a] = x
                              /\ \A a, b \in 1..m : a < b => g[a] < g[b]
           bad == {m \in Nat : \E T \in SUBSET Numbers(N) : Cardinality(T) = m /\ ~ \E g : Sorted(m, T, g)}
<1>1. SUFFICES ASSUME bad # {} PROVE FALSE
  OBVIOUS
<1>2. PICK m \in bad : \A k \in bad : m <= k
  BY <1>1, LeastOf
<1>3. PICK T \in SUBSET Numbers(N) : Cardinality(T) = m /\ ~ \E g : Sorted(m, T, g)
  BY <1>2
<1>4. IsFiniteSet(T) /\ T \in SUBSET Nat
  BY SomeNumbers
<1>5. CASE m = 0
  <2>1. T = {}
    BY <1>3, <1>4, <1>5, FS_EmptySet
  <2>2. Sorted(0, {}, [a \in 1..0 |-> 0])
    OBVIOUS
  <2> QED
    BY <1>3, <1>5, <2>1, <2>2
<1>6. CASE m # 0
  <2>1. T # {}
    BY <1>3, <1>4, <1>6, FS_EmptySet
  <2>2. PICK x \in T : \A y \in T : y <= x
    <3> DEFINE D == {N - y : y \in T}
    <3>1. D \in SUBSET Nat /\ D # {}
      <4>1. \A y \in T : N - y \in Nat
        BY DEF Numbers
      <4> QED
        BY <2>1, <4>1
    <3>2. PICK d \in D : \A e \in D : d <= e
      BY <3>1, LeastOf
    <3>3. PICK x \in T : d = N - x
      BY <3>2
    <3>4. ASSUME NEW y \in T PROVE y <= x
      <4>1. N - y \in D
        OBVIOUS
      <4>2. N - x <= N - y
        BY <3>2, <3>3, <4>1
      <4> QED
        BY <1>4, <4>2
    <3> QED
      BY <3>4
  <2>3. PICK U : U = T \ {x}
    OBVIOUS
  <2>4. U \in SUBSET Numbers(N) /\ Cardinality(U) = m - 1
    BY <1>3, <1>4, <2>3, FS_RemoveElement
  <2>5. m - 1 \in Nat /\ m - 1 \notin bad
    <3>1. m - 1 \in Nat /\ ~ (m <= m - 1)
      BY <1>6
    <3> QED
      BY <1>2, <3>1
  <2>6. PICK g : Sorted(m - 1, U, g)
    BY <2>4, <2>5
  <2>7. PICK h : h = [a \in 1..m |-> IF a = m THEN x ELSE g[a]]
    OBVIOUS
  <2>8. \A a \in 1..m : a = m \/ a \in 1..(m - 1)
    BY <2>5
  <2>9. h \in [1..m -> T]
    BY <2>3, <2>6, <2>7, <2>8
  <2>10. ASSUME NEW y \in T PROVE \E a \in 1..m : h[a] = y
    <3>1. CASE y = x
      BY <1>6, <2>7, <3>1
    <3>2. CASE y # x
      <4>1. PICK a \in 1..(m - 1) : g[a] = y
        BY <2>3, <2>6, <3>2
      <4>2. a \in 1..m /\ a # m
        BY <2>5
      <4> QED
        BY <2>7, <4>1, <4>2
    <3> QED
      BY <3>1, <3>2
  <2>11. ASSUME NEW a \in 1..m, NEW b \in 1..m, a < b PROVE h[a] < h[b]
    <3>1. a \in 1..(m - 1) /\ h[a] = g[a] /\ g[a] \in U
      BY <2>5, <2>6, <2>7, <2>11
    <3>2. CASE b = m
      <4>1. h[b] = x /\ g[a] <= x /\ g[a] # x
        BY <2>2, <2>3, <2>7, <3>1, <3>2
      <4>2. g[a] \in Nat /\ x \in Nat
        BY <1>4, <2>3, <3>1
      <4> QED
        BY <3>1, <4>1, <4>2
    <3>3. CASE b # m
      BY <2>6, <2>7, <2>8, <2>11, <3>1, <3>3
    <3> QED
      BY <3>2, <3>3
  <2>12. Sorted(m, T, h)
    BY <2>9, <2>10, <2>11
  <2> QED
    BY <1>3, <2>12
<1> QED
  BY <1>5, <1>6

(* What the server sends sorted by id is each of the records once, in order. *)
LEMMA InOrderIs ==
  ASSUME NEW N \in Nat, NEW S \in SUBSET Numbers(N), NEW s, s = InOrder(S)
  PROVE  /\ s \in Seq(Numbers(N)) /\ DOMAIN s = 1..Len(s)
         /\ \A a \in 1..Len(s) : s[a] \in S
         /\ \A x \in S : \E a \in 1..Len(s) : s[a] = x
         /\ \A a, b \in 1..Len(s) : s[a] = s[b] => a = b
         /\ \A a, b \in 1..Len(s) : a < b => s[a] < s[b]
PROOF
<1>1. IsFiniteSet(S) /\ S \in SUBSET Nat
  BY SomeNumbers
<1>2. PICK n \in Nat : n = Cardinality(S)
  BY <1>1, FS_CardinalityType
<1>3. \E g \in [1..n -> S] : \A a, b \in DOMAIN g : a < b => g[a] < g[b]
  <2>1. PICK g \in [1..n -> S] : /\ \A x \in S : \E a \in 1..n : g[a] = x
                                 /\ \A a, b \in 1..n : a < b => g[a] < g[b]
    BY <1>2, Ascending
  <2> QED
    BY <2>1
<1>4. s \in [1..n -> S] /\ \A a, b \in DOMAIN s : a < b => s[a] < s[b]
  BY <1>2, <1>3 DEF InOrder
<1>5. \A a, b \in 1..n : s[a] = s[b] => a = b
  <2>1. ASSUME NEW a \in 1..n, NEW b \in 1..n, a < b PROVE s[a] # s[b]
    <3>1. s[a] < s[b]
      BY <1>4, <2>1
    <3>2. s[a] \in Nat /\ s[b] \in Nat
      BY <1>1, <1>4
    <3> QED
      BY <3>1, <3>2
  <2> QED
    BY <2>1
<1>6. s \in Surjection(1..n, S)
  <2>1. s \in Injection(1..n, S)
    BY <1>4, <1>5 DEF Injection, IsInjective
  <2>2. 1 \in Int /\ n \in Int
    OBVIOUS
  <2>3. Cardinality(1..n) = Cardinality(S)
    BY <1>2, <2>2, FS_Interval
  <2> QED
    BY <1>1, <2>1, <2>3, FS_Injection
<1>7. \A x \in S : \E a \in 1..n : s[a] = x
  BY <1>6 DEF Surjection
<1>8. s \in Seq(Numbers(N)) /\ Len(s) = n /\ DOMAIN s = 1..n
  <2>1. s \in [1..n -> Numbers(N)]
    BY <1>4
  <2>2. s \in Seq(Numbers(N)) /\ DOMAIN s = 1..n
    BY <2>1, SeqDef
  <2> QED
    BY <2>1, <2>2, LenProperties
<1> QED
  BY <1>4, <1>5, <1>7, <1>8

(* Several sequences one after the other: what the walks do over siblings. *)
IsFlat(f, ss, n) == f = [a \in 1..n |-> IF a = 1 THEN ss[a] ELSE f[a - 1] \o ss[a]]

LEMMA FlatExists == ASSUME NEW ss, NEW n \in Nat PROVE \E f : IsFlat(f, ss, n)
PROOF
<1> DEFINE bad == {m \in Nat : ~ \E f : IsFlat(f, ss, m)}
<1>1. SUFFICES ASSUME bad # {} PROVE FALSE
  OBVIOUS
<1>2. PICK m \in bad : \A k \in bad : m <= k
  BY <1>1, LeastOf
<1>3. CASE m = 0
  <2>1. IsFlat([a \in 1..0 |-> 0], ss, 0)
    BY DEF IsFlat
  <2> QED
    BY <1>2, <1>3, <2>1
<1>4. CASE m # 0
  <2>1. m - 1 \in Nat /\ m - 1 \notin bad
    BY <1>2, <1>4
  <2>2. PICK f : IsFlat(f, ss, m - 1)
    BY <2>1
  <2>3. PICK h : h = [a \in 1..m |-> IF a = 1 THEN ss[a] ELSE f[a - 1] \o ss[a]]
    OBVIOUS
  <2>4. ASSUME NEW a \in 1..(m - 1) PROVE h[a] = f[a]
    <3>1. a \in 1..m
      BY <2>1
    <3>2. h[a] = IF a = 1 THEN ss[a] ELSE f[a - 1] \o ss[a]
      BY <2>3, <3>1
    <3>3. f[a] = IF a = 1 THEN ss[a] ELSE f[a - 1] \o ss[a]
      BY <2>2 DEF IsFlat
    <3> QED
      BY <3>2, <3>3
  <2>5. ASSUME NEW a \in 1..m PROVE h[a] = IF a = 1 THEN ss[a] ELSE h[a - 1] \o ss[a]
    <3>1. a # 1 => a - 1 \in 1..(m - 1)
      BY <2>1
    <3> QED
      BY <2>3, <2>4, <3>1
  <2>6. IsFlat(h, ss, m)
    BY <2>3, <2>5 DEF IsFlat
  <2> QED
    BY <1>2, <2>6
<1> QED
  BY <1>3, <1>4

LEMMA FlatIs ==
  ASSUME NEW ss, Len(ss) \in Nat, Len(ss) # 0
  PROVE  \E f : IsFlat(f, ss, Len(ss)) /\ FlattenSeq(ss) = f[Len(ss)]
PROOF
<1> DEFINE f == CHOOSE g : g = [a \in 1..Len(ss) |-> IF a = 1 THEN ss[a] ELSE g[a - 1] \o ss[a]]
<1>1. \E g : g = [a \in 1..Len(ss) |-> IF a = 1 THEN ss[a] ELSE g[a - 1] \o ss[a]]
  <2>1. PICK g : IsFlat(g, ss, Len(ss))
    BY FlatExists
  <2> QED
    BY <2>1, Zenon DEF IsFlat
<1>2. f = [a \in 1..Len(ss) |-> IF a = 1 THEN ss[a] ELSE f[a - 1] \o ss[a]]
  BY <1>1
<1>3. FlattenSeq(ss) = f[Len(ss)]
  BY DEF FlattenSeq
<1> QED
  BY <1>2, <1>3 DEF IsFlat

-----------------------------------------------------------------------------
USE TreeAssumption

(* The inductive invariant.  Records link to what was created before, and so
   does what a session is about to write. *)
Pending == [op : {"create", "update"}, id : Link, content : Content, pc : {"name", "write"}]
Reading == {"level", "listed", "up", "found", "missed", "element", "fetch", "there", "nowhere"}

CallOK(s) ==
  \/ call[s] = Idle
  \/ /\ call[s] \in Pending
     /\ call[s].content.up < nextId
     /\ IF call[s].op = "create" THEN call[s].pc = "write" /\ call[s].id = 0
                                 ELSE call[s].id \in 1..(nextId - 1)
  \/ "pc" \in DOMAIN call[s] /\ call[s].pc \in Reading

TypeOK ==
  /\ row \in [RowId -> Node \cup {NoRow}]
  /\ nextId \in 1..(MaxRow + 1)
  /\ \A i \in RowId : IF i < nextId THEN row[i] # NoRow => row[i].up < nextId
                                   ELSE row[i] = NoRow
  /\ call = [s \in Session |-> call[s]] /\ \A s \in Session : CallOK(s)
  /\ late \subseteq Session

(* What a session has checked is still so, unless it was overtaken. *)
Checked(s) ==
  s \notin late =>
    /\ In(s, "write") => ~NameTaken(call[s].id, call[s].content)
    /\ In(s, "name") \/ In(s, "write") => ~IsCircular(call[s].id, call[s].content)

TreeInv == TypeOK /\ \A s \in Session : Checked(s)

-----------------------------------------------------------------------------
(* The first of several records is one of them. *)
LEMMA FirstIsThere == ASSUME NEW S \in SUBSET RowId, S # {} PROVE Min(S) \in S
PROOF
<1>1. S \in SUBSET Nat
  BY DEF RowId
<1>2. \E k \in S : \A m \in S : k <= m
  BY <1>1, LeastOf
<1> QED
  BY <1>2 DEF Min

(* Whoever finds the name of an object free may bear it already. *)
LEMMA FreeName ==
  ASSUME NEW i \in Link, NEW c \in Content, ~NameTaken(i, c), c.name # NoName,
         NEW j \in RowId, Live(j), Scope(row[j]) = Scope(c), row[j].name = c.name
  PROVE  i \in RowId /\ Live(i) /\ Scope(row[i]) = Scope(c) /\ row[i].name = c.name
PROOF
<1> DEFINE same == {k \in RowId : Live(k) /\ Scope(row[k]) = Scope(c) /\ row[k].name = c.name}
<1>1. same \in SUBSET RowId /\ same # {}
  OBVIOUS
<1>2. i = Min(same)
  BY <1>1 DEF NameTaken
<1>3. i \in same
  BY <1>1, <1>2, FirstIsThere
<1> QED
  BY <1>3

LEMMA TreeInit == Init => TreeInv
PROOF
  BY DEF Init, TreeInv, TypeOK, CallOK, Checked, In, RowId

(* A session that reads or gives up changes nothing the others rely on. *)
LEMMA QuietKeeps ==
  ASSUME TreeInv, NEW s \in Session, UNCHANGED <<row, nextId>>, NEW c,
         call' = [call EXCEPT ![s] = c], late' \in {late, late \ {s}},
         CallOK(s)', Checked(s)'
  PROVE  TreeInv'
PROOF
<1>1. \A t \in Session : t # s => call'[t] = call[t] /\ (t \in late' <=> t \in late)
  BY DEF TreeInv, TypeOK
<1>2. \A t \in Session : CallOK(t)'
  BY <1>1 DEF TreeInv, TypeOK, CallOK
<1>3. \A t \in Session : Checked(t)'
  <2> SUFFICES ASSUME NEW t \in Session, t # s PROVE Checked(t)'
    OBVIOUS
  <2>1. Checked(t) /\ call'[t] = call[t] /\ (t \in late' <=> t \in late)
    BY <1>1 DEF TreeInv
  <2> QED
    BY <2>1 DEF Checked, In, NameTaken, IsCircular, ChildrenOf, Live
<1>4. call' = [t \in Session |-> call'[t]] /\ late' \subseteq Session
  BY DEF TreeInv, TypeOK
<1> QED
  BY <1>2, <1>3, <1>4 DEF TreeInv, TypeOK

(* A session that writes ends its call and overtakes all others. *)
LEMMA WriteKeeps ==
  ASSUME TreeInv, NEW s \in Session, Overtake(s),
         (call[s] = Idle /\ UNCHANGED call) \/ Return(s),
         row' \in [RowId -> Node \cup {NoRow}], nextId' \in 1..(MaxRow + 1), nextId <= nextId',
         \A i \in RowId : IF i < nextId' THEN row'[i] # NoRow => row'[i].up < nextId'
                                         ELSE row'[i] = NoRow
  PROVE  TreeInv'
PROOF
<1>1. call'[s] = Idle /\ \A t \in Session : t # s => call'[t] = call[t]
  BY DEF Return, TreeInv, TypeOK
<1>2. call' = [t \in Session |-> call'[t]] /\ late' \subseteq Session
  BY DEF Return, Overtake, TreeInv, TypeOK
<1>3. \A t \in Session : t \in late' \/ call'[t] = Idle
  BY <1>1 DEF Overtake
<1>4. \A t \in Session : Checked(t)'
  BY <1>3 DEF Checked, In
<1>5. ASSUME NEW t \in Session PROVE CallOK(t)'
  <2>1. CASE call'[t] = Idle
    BY <2>1 DEF CallOK
  <2>2. CASE call'[t] # Idle
    <3>1. call'[t] = call[t] /\ CallOK(t) /\ call[t] # Idle
      BY <1>1, <2>2 DEF TreeInv, TypeOK
    <3>2. CASE call[t] \in Pending /\ call[t].content.up < nextId
               /\ (IF call[t].op = "create" THEN call[t].pc = "write" /\ call[t].id = 0
                                            ELSE call[t].id \in 1..(nextId - 1))
      <4>1. call[t].content.up \in Nat /\ nextId \in Nat /\ nextId' \in Nat
        BY <3>2 DEF Pending, Content, Link, TreeInv, TypeOK
      <4> QED
        BY <3>1, <3>2, <4>1 DEF CallOK
    <3> QED
      BY <3>1, <3>2 DEF CallOK
  <2> QED
    BY <2>1, <2>2
<1> QED
  BY <1>2, <1>4, <1>5 DEF TreeInv, TypeOK

(* A call begins with what its checks found, and goes on from check to check. *)
LEMMA CreateKeeps ==
  ASSUME TreeInv, NEW s \in Session, NEW c \in Contents, Create(s, c)
  PROVE  TreeInv'
PROOF
<1> DEFINE p == [op |-> "create", id |-> 0, content |-> c, pc |-> "write"]
<1>1. /\ call' = [call EXCEPT ![s] = p] /\ late' = late \ {s} /\ UNCHANGED <<row, nextId>>
      /\ ~NameTaken(0, c)
  BY DEF Create, Begin
<1>2. c \in Content /\ c.up < nextId
  BY DEF Contents
<1>3. call'[s] = p
  BY <1>1 DEF TreeInv, TypeOK
<1>4. CallOK(s)'
  BY <1>1, <1>2, <1>3 DEF CallOK, Pending, Link
<1>5. Checked(s)'
  <2>1. ~NameTaken(0, c)'
    BY <1>1 DEF NameTaken, Live
  <2> QED
    BY <1>3, <2>1 DEF Checked, In, IsCircular
<1> HIDE DEF p
<1> QED
  BY <1>1, <1>4, <1>5, QuietKeeps

LEMMA UpdateKeeps ==
  ASSUME TreeInv, NEW s \in Session, NEW i \in 1..(nextId - 1), NEW c \in Contents,
         Update(s, i, c)
  PROVE  TreeInv'
PROOF
<1> DEFINE p == [op |-> "update", id |-> i, content |-> c, pc |-> "name"]
<1>1. /\ call' = [call EXCEPT ![s] = p] /\ late' = late \ {s} /\ UNCHANGED <<row, nextId>>
      /\ ~IsCircular(i, c)
  BY DEF Update, Begin
<1>2. c \in Content /\ c.up < nextId /\ i \in Link
  BY DEF Contents, TreeInv, TypeOK, Link
<1>3. call'[s] = p
  BY <1>1 DEF TreeInv, TypeOK
<1>4. CallOK(s)'
  BY <1>1, <1>2, <1>3 DEF CallOK, Pending
<1>5. Checked(s)'
  <2>1. ~IsCircular(i, c)'
    BY <1>1 DEF IsCircular, ChildrenOf, Live
  <2> QED
    BY <1>3, <2>1 DEF Checked, In
<1> HIDE DEF p
<1> QED
  BY <1>1, <1>4, <1>5, QuietKeeps

LEMMA UpdateNameKeeps ==
  ASSUME TreeInv, NEW s \in Session, UpdateName(s)
  PROVE  TreeInv'
PROOF
<1>1. CASE NameTaken(call[s].id, call[s].content)
  <2>1. call' = [call EXCEPT ![s] = Idle] /\ late' = late \ {s} /\ UNCHANGED <<row, nextId>>
    BY <1>1 DEF UpdateName, Return
  <2>2. CallOK(s)' /\ Checked(s)'
    BY <2>1 DEF CallOK, Checked, In, TreeInv, TypeOK
  <2> QED
    BY <2>1, <2>2, QuietKeeps
<1>2. CASE ~NameTaken(call[s].id, call[s].content)
  <2> DEFINE p == [call[s] EXCEPT !.pc = "write"]
  <2>1. /\ call' = [call EXCEPT ![s] = p] /\ UNCHANGED <<row, nextId, late>>
        /\ call[s] # Idle /\ call[s].pc = "name"
    BY <1>2 DEF UpdateName, Goto, In
  <2>2. call[s] \in Pending /\ call[s].content.up < nextId /\ call[s].op # "create"
        /\ call[s].id \in 1..(nextId - 1)
    BY <2>1 DEF TreeInv, TypeOK, CallOK, Reading
  <2>3. p \in Pending /\ p.content = call[s].content /\ p.id = call[s].id /\ p.op = call[s].op
        /\ p.pc = "write"
    BY <2>2 DEF Pending
  <2> HIDE DEF p
  <2>4. call'[s] = p
    BY <2>1 DEF TreeInv, TypeOK
  <2>5. CallOK(s)'
    BY <2>1, <2>2, <2>3, <2>4 DEF CallOK
  <2>6. Checked(s)'
    <3>1. PICK i, c : i = call[s].id /\ c = call[s].content
      OBVIOUS
    <3>2. ~NameTaken(i, c)'
      BY <1>2, <2>1, <3>1 DEF NameTaken, Live
    <3>3. s \notin late => ~IsCircular(i, c)'
      <4>1. s \notin late => ~IsCircular(i, c)
        BY <2>1, <3>1 DEF TreeInv, Checked, In
      <4> QED
        BY <2>1, <4>1 DEF IsCircular, ChildrenOf, Live
    <3>4. call'[s].id = i /\ call'[s].content = c
      BY <2>3, <2>4, <3>1
    <3> QED
      BY <2>1, <3>2, <3>3, <3>4 DEF Checked
  <2> QED
    BY <2>1, <2>5, <2>6, QuietKeeps
<1> QED
  BY <1>1, <1>2

LEMMA InsertKeeps == ASSUME TreeInv, NEW s \in Session, InsertRow(s) PROVE TreeInv'
PROOF
<1> DEFINE c == call[s].content
           w == WithContent(c, FALSE)
<1>1. /\ In(s, "write") /\ nextId \in RowId /\ nextId' = nextId + 1
      /\ row' = [row EXCEPT ![nextId] = w] /\ Return(s) /\ Overtake(s)
  BY DEF InsertRow
<1>2. call[s] \in Pending /\ c.up < nextId
  BY <1>1 DEF In, TreeInv, TypeOK, CallOK, Reading
<1>3. w \in Node /\ w.up = c.up /\ c.up \in Nat
  BY <1>2 DEF Pending, Content, Node, WithContent, Link
<1> HIDE DEF w
<1>4. row' \in [RowId -> Node \cup {NoRow}] /\ nextId' \in 1..(MaxRow + 1) /\ nextId <= nextId'
  BY <1>1, <1>3 DEF TreeInv, TypeOK, RowId
<1>5. ASSUME NEW i \in RowId
      PROVE  IF i < nextId' THEN row'[i] # NoRow => row'[i].up < nextId' ELSE row'[i] = NoRow
  <2>1. CASE i = nextId
    BY <1>1, <1>2, <1>3, <2>1 DEF TreeInv, TypeOK, RowId
  <2>2. CASE i # nextId
    <3>1. row'[i] = row[i] /\ (row[i] # NoRow => row[i].up \in Nat)
      BY <1>1, <2>2 DEF TreeInv, TypeOK, Node, Link
    <3> QED
      BY <1>1, <2>2, <3>1 DEF TreeInv, TypeOK, RowId
  <2> QED
    BY <2>1, <2>2
<1> QED
  BY <1>1, <1>4, <1>5, WriteKeeps

LEMMA UpdateRowKeeps == ASSUME TreeInv, NEW s \in Session, UpdateRow(s) PROVE TreeInv'
PROOF
<1> DEFINE k == call[s].id
           w == IF row[k] = NoRow THEN NoRow ELSE WithContent(call[s].content, row[k].deleted)
<1>1. /\ In(s, "write") /\ call[s].op = "update" /\ UNCHANGED nextId
      /\ row' = [row EXCEPT ![k] = w] /\ Return(s) /\ Overtake(s)
  BY DEF UpdateRow
<1>2. call[s] \in Pending /\ call[s].content.up < nextId /\ k \in 1..(nextId - 1)
  BY <1>1 DEF In, TreeInv, TypeOK, CallOK, Reading
<1>3. k \in RowId /\ row[k] \in Node \cup {NoRow} /\ nextId \in 1..(MaxRow + 1)
  BY <1>2 DEF TreeInv, TypeOK, RowId
<1>4. w \in Node \cup {NoRow} /\ (w # NoRow => w.up < nextId)
  BY <1>2, <1>3 DEF Pending, Content, Node, WithContent
<1> HIDE DEF w
<1>5. row' \in [RowId -> Node \cup {NoRow}]
      /\ \A i \in RowId : row'[i] = IF i = k THEN w ELSE row[i]
  BY <1>1, <1>3, <1>4 DEF TreeInv, TypeOK
<1>6. \A i \in RowId : IF i < nextId THEN row'[i] # NoRow => row'[i].up < nextId
                                     ELSE row'[i] = NoRow
  BY <1>2, <1>3, <1>4, <1>5 DEF TreeInv, TypeOK, RowId
<1> QED
  BY <1>1, <1>3, <1>5, <1>6, WriteKeeps

LEMMA DeletedKeeps ==
  ASSUME TreeInv, NEW s \in Session, NEW i \in RowId,
         Delete(s, i) \/ Undelete(s, i) \/ Purge(s, i)
  PROVE  TreeInv'
PROOF
<1>1. ASSUME NEW w \in Node \cup {NoRow}, w # NoRow => row[i] # NoRow /\ w.up = row[i].up,
             row' = [row EXCEPT ![i] = w], Overtake(s), call[s] = Idle, UNCHANGED <<nextId, call>>
      PROVE  TreeInv'
  <2>1. row' \in [RowId -> Node \cup {NoRow}]
        /\ \A j \in RowId : row'[j] = IF j = i THEN w ELSE row[j]
    BY <1>1 DEF TreeInv, TypeOK
  <2>2. nextId \in 1..(MaxRow + 1)
    BY DEF TreeInv, TypeOK
  <2>3. \A j \in RowId : IF j < nextId THEN row'[j] # NoRow => row'[j].up < nextId
                                       ELSE row'[j] = NoRow
    BY <1>1, <2>1 DEF TreeInv, TypeOK
  <2> QED
    BY <1>1, <2>1, <2>2, <2>3, WriteKeeps
<1>2. ASSUME NEW d \in BOOLEAN, SetDeleted(s, i, d) PROVE TreeInv'
  <2> DEFINE w == [row[i] EXCEPT !.deleted = d]
  <2>1. row[i] # NoRow /\ row[i] \in Node
    BY <1>2 DEF SetDeleted, TreeInv, TypeOK
  <2>2. w \in Node /\ w.up = row[i].up
    BY <2>1 DEF Node
  <2>3. row' = [row EXCEPT ![i] = w] /\ Overtake(s) /\ call[s] = Idle /\ UNCHANGED <<nextId, call>>
    BY <1>2 DEF SetDeleted
  <2> HIDE DEF w
  <2> QED
    BY <1>1, <2>1, <2>2, <2>3
<1>3. CASE Purge(s, i)
  BY <1>1, <1>3 DEF Purge
<1> QED
  BY <1>2, <1>3 DEF Delete, Undelete

(* Readers and calls that end. *)
LEMMA ReaderKeeps ==
  ASSUME TreeInv, NEW s \in Session,
         \/ \E root \in Roots : \/ \E max \in Depths : List(s, root, max)
                                \/ ListChildren(s, root)
                                \/ \E i \in RowId : IsInTree(s, root, i)
         \/ \E path \in Paths : FindByPath(s, path)
         \/ ListLevel(s) \/ WalkUp(s) \/ PathElement(s) \/ PathFetch(s) \/ End(s)
  PROVE  TreeInv'
PROOF
<1>1. ASSUME UNCHANGED <<row, nextId>>, NEW c, call' = [call EXCEPT ![s] = c],
             late' \in {late, late \ {s}},
             c = Idle \/ ("pc" \in DOMAIN c /\ c.pc \in Reading)
      PROVE  TreeInv'
  <2>1. call'[s] = c
    BY <1>1 DEF TreeInv, TypeOK
  <2>2. CallOK(s)' /\ Checked(s)'
    BY <1>1, <2>1 DEF CallOK, Checked, In, Reading
  <2> QED
    BY <1>1, <2>2, QuietKeeps
<1>2. CASE End(s)
  BY <1>1, <1>2 DEF End, Return
<1>3. ASSUME NEW root, NEW max, List(s, root, max) PROVE TreeInv'
  BY <1>1, <1>3 DEF List, Begin, Reading
<1>4. ASSUME NEW root, NEW i, IsInTree(s, root, i) PROVE TreeInv'
  <2> DEFINE c == [op |-> "walk", root |-> root, from |-> i, id |-> i, level |-> 0,
                   pc |-> IF i = root THEN "found" ELSE "up"]
  <2>1. call' = [call EXCEPT ![s] = c] /\ late' = late \ {s} /\ UNCHANGED <<row, nextId>>
    BY <1>4 DEF IsInTree, Begin
  <2>2. "pc" \in DOMAIN c /\ c.pc \in Reading
    BY DEF Reading
  <2> HIDE DEF c
  <2> QED
    BY <1>1, <2>1, <2>2
<1>5. ASSUME NEW path, FindByPath(s, path) PROVE TreeInv'
  BY <1>1, <1>5 DEF FindByPath, Begin, Reading
<1>6. ASSUME call[s] # Idle, call[s].pc \in {"level", "up", "element", "fetch"}
      PROVE  "pc" \in DOMAIN call[s]
  BY <1>6 DEF TreeInv, TypeOK, CallOK, Pending
<1>7. ASSUME NEW p \in Reading, call[s] # Idle,
             call[s].pc \in {"level", "up", "element", "fetch"},
             Goto(s, p), UNCHANGED <<row, nextId>>
      PROVE  TreeInv'
  <2> DEFINE c == [call[s] EXCEPT !.pc = p]
  <2>1. "pc" \in DOMAIN c /\ c.pc = p /\ call' = [call EXCEPT ![s] = c] /\ UNCHANGED late
    BY <1>6, <1>7 DEF Goto
  <2> HIDE DEF c
  <2> QED
    BY <1>1, <1>7, <2>1
<1>8. CASE ListLevel(s)
  <2>1. call[s] # Idle /\ call[s].pc = "level" /\ UNCHANGED <<row, nextId>>
    BY <1>8 DEF ListLevel, In
  <2>2. CASE Goto(s, "listed")
    BY <1>7, <2>1, <2>2 DEF Reading
  <2>3. ASSUME NEW l, call' = [call EXCEPT ![s].levels = l], UNCHANGED late PROVE TreeInv'
    <3> DEFINE c == [call[s] EXCEPT !.levels = l]
    <3>1. "pc" \in DOMAIN c /\ c.pc = "level" /\ call' = [call EXCEPT ![s] = c]
      BY <1>6, <2>1, <2>3
    <3> HIDE DEF c
    <3> QED
      BY <1>1, <2>1, <2>3, <3>1 DEF Reading
  <2> QED
    BY <1>8, <2>2, <2>3 DEF ListLevel
<1>9. ASSUME NEW i, NEW n, NEW p \in Reading, call[s] # Idle,
             call[s].pc \in {"level", "up", "element", "fetch"},
             \/ call' = [call EXCEPT ![s].id = i, ![s].level = n, ![s].pc = p]
             \/ call' = [call EXCEPT ![s].id = i, ![s].at = n, ![s].pc = p],
             UNCHANGED <<row, nextId, late>>
      PROVE  TreeInv'
  <2>1. ASSUME NEW c, c = [call[s] EXCEPT !.id = i, !.level = n, !.pc = p]
                      \/ c = [call[s] EXCEPT !.id = i, !.at = n, !.pc = p]
        PROVE  "pc" \in DOMAIN c /\ c.pc = p
    BY <1>6, <1>9, <2>1
  <2>2. PICK c : /\ \/ c = [call[s] EXCEPT !.id = i, !.level = n, !.pc = p]
                    \/ c = [call[s] EXCEPT !.id = i, !.at = n, !.pc = p]
                 /\ call' = [call EXCEPT ![s] = c]
    BY <1>9 DEF TreeInv, TypeOK
  <2> QED
    BY <1>1, <1>9, <2>1, <2>2
<1>10. CASE WalkUp(s)
  <2>1. call[s] # Idle /\ call[s].pc = "up" /\ UNCHANGED <<row, nextId>>
    BY <1>10 DEF WalkUp, In
  <2>2. CASE Goto(s, "missed")
    BY <1>7, <2>1, <2>2 DEF Reading
  <2>3. CASE ~Goto(s, "missed")
    <3> DEFINE i == row[call[s].id].up
               n == IF call[s].level > MaxRow THEN call[s].level ELSE call[s].level + 1
               p == IF row[call[s].id].up = call[s].root THEN "found" ELSE "up"
    <3>1. call' = [call EXCEPT ![s].id = i, ![s].level = n, ![s].pc = p] /\ UNCHANGED late
      BY <1>10, <2>3 DEF WalkUp
    <3>2. p \in Reading
      BY DEF Reading
    <3> HIDE DEF i, n, p
    <3> QED
      BY <1>9, <2>1, <3>1, <3>2
  <2> QED
    BY <2>2, <2>3
<1>11. CASE PathElement(s)
  <2>1. call[s] # Idle /\ call[s].pc = "element" /\ UNCHANGED <<row, nextId>>
    BY <1>11 DEF PathElement, In
  <2>2. CASE Goto(s, "nowhere")
    BY <1>7, <2>1, <2>2 DEF Reading
  <2>3. CASE ~Goto(s, "nowhere")
    <3> DEFINE i == Min({k \in ChildrenOf(call[s].id) :
                           row[k].name = call[s].path[call[s].at]})
               n == call[s].at + 1
               p == IF call[s].at = Len(call[s].path) THEN "fetch" ELSE "element"
    <3>1. call' = [call EXCEPT ![s].id = i, ![s].at = n, ![s].pc = p] /\ UNCHANGED late
      BY <1>11, <2>3 DEF PathElement
    <3>2. p \in Reading
      BY DEF Reading
    <3> HIDE DEF i, n, p
    <3> QED
      BY <1>9, <2>1, <3>1, <3>2
  <2> QED
    BY <2>2, <2>3
<1>12. CASE PathFetch(s)
  <2>1. call[s] # Idle /\ call[s].pc = "fetch" /\ UNCHANGED <<row, nextId>>
        /\ (Goto(s, "there") \/ Goto(s, "nowhere"))
    BY <1>12 DEF PathFetch, In
  <2> QED
    BY <1>7, <2>1 DEF Reading
<1> QED
  BY <1>2, <1>3, <1>4, <1>5, <1>8, <1>10, <1>11, <1>12 DEF ListChildren

LEMMA TreeStep == TreeInv /\ [Next]_vars => TreeInv'
PROOF
<1> SUFFICES ASSUME TreeInv, [Next]_vars PROVE TreeInv'
  OBVIOUS
<1>1. CASE UNCHANGED vars
  <2>1. row' = row /\ nextId' = nextId /\ call' = call /\ late' = late
    BY <1>1 DEF vars
  <2>2. \A s \in Session : CallOK(s)'
    BY <2>1 DEF TreeInv, TypeOK, CallOK
  <2>3. \A s \in Session : Checked(s)'
    BY <2>1 DEF TreeInv, Checked, In, NameTaken, IsCircular, ChildrenOf, Live
  <2>4. \A i \in RowId : IF i < nextId' THEN row'[i] # NoRow => row'[i].up < nextId'
                                         ELSE row'[i] = NoRow
    BY <2>1 DEF TreeInv, TypeOK
  <2> QED
    BY <2>1, <2>2, <2>3, <2>4 DEF TreeInv, TypeOK
<1> QED
  BY <1>1, CreateKeeps, UpdateKeeps, UpdateNameKeeps, InsertKeeps, UpdateRowKeeps, DeletedKeeps,
     ReaderKeeps DEF Next

(* Whatever the sessions do, what one of them has checked still holds when it *)
(* writes, unless another one wrote in between.                               *)
THEOREM ChecksHold == Spec => []TreeInv
PROOF
  BY TreeInit, TreeStep, PTL DEF Spec

(* Who ends the call of a session that is about to write: only itself.        *)
LEMMA WhoEnds ==
  ASSUME TreeInv, [Next]_vars, NEW s \in Session, Writes(s)
  PROVE  InsertRow(s) \/ UpdateRow(s) \/ End(s)
PROOF
<1>1. call[s] # Idle /\ call[s].pc = "write" /\ call'[s] = Idle
  BY DEF Writes, In
<1>2. ASSUME NEW t \in Session, NEW c, call' = [call EXCEPT ![t] = c] PROVE t = s
  BY <1>1, <1>2 DEF TreeInv, TypeOK
<1>3. ASSUME NEW t \in Session, InsertRow(t) \/ UpdateRow(t) \/ End(t) PROVE t = s
  BY <1>2, <1>3 DEF InsertRow, UpdateRow, End, Return
<1>4. ASSUME NEW t \in Session, NEW c, Begin(t, c) PROVE FALSE
  BY <1>1, <1>2, <1>4 DEF Begin
<1>5. ASSUME NEW t \in Session, call[t].pc # "write", NEW c, call' = [call EXCEPT ![t] = c]
      PROVE  FALSE
  BY <1>1, <1>2, <1>5
<1>6. ASSUME NEW t \in Session, UpdateName(t) PROVE FALSE
  <2>1. call[t].pc # "write"
    BY <1>6 DEF UpdateName, In
  <2>2. Return(t) \/ Goto(t, "write")
    BY <1>6 DEF UpdateName
  <2>3. CASE Return(t)
    BY <1>5, <2>1, <2>3 DEF Return
  <2>4. CASE Goto(t, "write")
    BY <1>5, <2>1, <2>4 DEF Goto
  <2> QED
    BY <2>2, <2>3, <2>4
<1>7. ASSUME NEW t \in Session, ListLevel(t) PROVE FALSE
  BY <1>5, <1>7 DEF ListLevel, In, Goto
<1>8. ASSUME NEW t \in Session, WalkUp(t) PROVE FALSE
  BY <1>5, <1>8 DEF WalkUp, In, Goto
<1>9. ASSUME NEW t \in Session, PathElement(t) \/ PathFetch(t) PROVE FALSE
  <2>1. ASSUME NEW p, Goto(t, p), call[t].pc # "write" PROVE FALSE
    BY <1>5, <2>1 DEF Goto
  <2>2. CASE PathElement(t)
    <3>1. PICK i, n, p : \/ Goto(t, p)
                         \/ call' = [call EXCEPT ![t].id = i, ![t].at = n, ![t].pc = p]
      BY <2>2 DEF PathElement
    <3>2. call[t].pc # "write"
      BY <2>2 DEF PathElement, In
    <3> QED
      BY <1>5, <2>1, <3>1, <3>2
  <2>3. CASE PathFetch(t)
    BY <2>1, <2>3 DEF PathFetch, In
  <2> QED
    BY <1>9, <2>2, <2>3
<1>10. ASSUME UNCHANGED call PROVE FALSE
  BY <1>1, <1>10
<1>11. ASSUME NEW t \in Session, NEW i \in RowId, Delete(t, i) \/ Undelete(t, i) \/ Purge(t, i)
       PROVE  FALSE
  BY <1>10, <1>11 DEF Delete, Undelete, SetDeleted, Purge
<1>12. ASSUME NEW t \in Session,
              \/ \E c \in Contents : Create(t, c)
              \/ \E i \in 1..(nextId - 1), c \in Contents : Update(t, i, c)
       PROVE  FALSE
  BY <1>4, <1>12 DEF Create, Update
<1>13. ASSUME NEW t \in Session,
              \/ \E root \in Roots : \/ \E max \in Depths : List(t, root, max)
                                     \/ ListChildren(t, root)
                                     \/ \E i \in RowId : IsInTree(t, root, i)
              \/ \E path \in Paths : FindByPath(t, path)
       PROVE  FALSE
  BY <1>4, <1>13 DEF List, ListChildren, IsInTree, FindByPath
<1>14. ASSUME UNCHANGED vars PROVE FALSE
  BY <1>10, <1>14 DEF vars
<1> QED
  BY <1>3, <1>6, <1>7, <1>8, <1>9, <1>11, <1>12, <1>13, <1>14 DEF Next

(* What a session that was not overtaken writes: nothing, a new record whose  *)
(* name nobody has in its scope, or a record that may bear its name.          *)
LEMMA WhatIsWritten ==
  ASSUME TreeInv, [Next]_vars, NEW s \in Session, Writes(s), s \notin late
  PROVE  \/ UNCHANGED row
         \/ \E k \in RowId, c \in Content :
              /\ \A j \in RowId : j # k => row'[j] = row[j]
              /\ Live(k)' => /\ row'[k].up = c.up /\ row'[k].name = c.name
                             /\ Scope(row[k])' = Scope(c)
              /\ \/ k = nextId /\ c.up < nextId /\ ~NameTaken(0, c)
                 \/ (Live(k)' => Live(k)) /\ ~NameTaken(k, c) /\ ~IsCircular(k, c)
PROOF
<1> PICK c, i : c = call[s].content /\ i = call[s].id
  OBVIOUS
<1>1. call[s] # Idle /\ call[s].pc = "write" /\ call'[s] = Idle
  BY DEF Writes, In
<1>2. /\ call[s] \in Pending /\ c.up < nextId
      /\ call[s].op = "create" => i = 0
      /\ call[s].op = "update" => i \in 1..(nextId - 1)
      /\ nextId \in 1..(MaxRow + 1)
  BY <1>1 DEF TreeInv, TypeOK, CallOK, Reading, Pending
<1>3. ~NameTaken(i, c) /\ ~IsCircular(i, c)
  BY <1>1 DEF TreeInv, Checked, In
<1>4. c \in Content /\ (call[s].op = "update" => i \in RowId)
  BY <1>2 DEF Pending, RowId
<1>5. ASSUME NEW k \in RowId, NEW d, row'[k] = WithContent(c, d)
      PROVE  /\ row'[k].up = c.up /\ row'[k].name = c.name /\ row'[k].deleted = d
             /\ Scope(row[k])' = Scope(c)
  BY <1>5 DEF WithContent, Scope, HasParent
<1>6. CASE InsertRow(s)
  <2>1. PICK k \in RowId : k = nextId /\ row' = [row EXCEPT ![k] = WithContent(c, FALSE)]
    BY <1>6 DEF InsertRow
  <2>2. row'[k] = WithContent(c, FALSE) /\ \A j \in RowId : j # k => row'[j] = row[j]
    BY <2>1 DEF TreeInv, TypeOK
  <2>3. i = 0
    BY <1>2, <1>6 DEF InsertRow
  <2> QED
    BY <1>2, <1>3, <1>4, <1>5, <2>1, <2>2, <2>3
<1>7. CASE UpdateRow(s)
  <2>1. PICK w : /\ w = IF row[i] = NoRow THEN NoRow ELSE WithContent(c, row[i].deleted)
                 /\ row' = [row EXCEPT ![i] = w]
    BY <1>7 DEF UpdateRow
  <2>2. i \in RowId
    BY <1>4, <1>7 DEF UpdateRow
  <2>3. row'[i] = w /\ \A j \in RowId : j # i => row'[j] = row[j]
    BY <2>1, <2>2 DEF TreeInv, TypeOK
  <2>4. Live(i)' => row[i] # NoRow /\ row'[i] = WithContent(c, row[i].deleted)
    BY <2>1, <2>3 DEF Live
  <2>5. Live(i)' => Live(i)
    BY <1>5, <2>2, <2>4 DEF Live
  <2> QED
    BY <1>3, <1>4, <1>5, <2>2, <2>3, <2>4, <2>5
<1>8. CASE End(s)
  BY <1>8 DEF End
<1> QED
  BY <1>6, <1>7, <1>8, WhoEnds

(* A create or update during which nobody else wrote (_object_in_tree) leaves *)
(* no two objects of one name in a scope where there were none before.        *)
THEOREM NamesKept == Spec => NamesAreKept
PROOF
<1>1. ASSUME TreeInv, [Next]_vars, NEW s \in Session, Writes(s), s \notin late,
             NEW i \in RowId, NEW j \in RowId, Clash(i, j)'
      PROVE  Clash(i, j)
  <2>1. CASE UNCHANGED row
    BY <1>1, <2>1 DEF Clash, Live, Scope
  <2>2. ASSUME NEW k \in RowId, NEW c \in Content,
               \A m \in RowId : m # k => row'[m] = row[m],
               Live(k)' => /\ row'[k].up = c.up /\ row'[k].name = c.name
                           /\ Scope(row[k])' = Scope(c),
               \/ k = nextId /\ ~NameTaken(0, c)
               \/ (Live(k)' => Live(k)) /\ ~NameTaken(k, c),
               NEW m \in RowId, m # k, Clash(k, m)'
        PROVE  Clash(k, m)
    <3>1. Live(m) /\ Scope(row[m]) = Scope(c) /\ row[m].name = c.name /\ c.name # NoName
      BY <2>2 DEF Clash, Live, Scope
    <3>2. Live(k)'
      BY <2>2 DEF Clash
    <3>3. 0 \in Link /\ k \in Link /\ 0 \notin RowId
      BY DEF Link, RowId
    <3>4. ~NameTaken(k, c) /\ Live(k)
      BY <2>2, <3>1, <3>2, <3>3, FreeName
    <3>5. Scope(row[k]) = Scope(c) /\ row[k].name = c.name
      BY <3>1, <3>3, <3>4, FreeName
    <3> QED
      BY <2>2, <3>1, <3>4, <3>5 DEF Clash
  <2>3. ASSUME NEW k \in RowId, \A m \in RowId : m # k => row'[m] = row[m], i # k, j # k
        PROVE  Clash(i, j)
    <3>1. row'[i] = row[i] /\ row'[j] = row[j]
      BY <2>3
    <3> QED
      BY <1>1, <3>1 DEF Clash, Live, Scope
  <2>4. i # j /\ Clash(j, i)' /\ (Clash(j, i) => Clash(i, j))
    BY <1>1 DEF Clash
  <2> QED
    BY <1>1, <2>1, <2>2, <2>3, <2>4, WhatIsWritten
<1>2. TreeInv /\ [Next]_vars =>
        [\A s \in Session : Writes(s) /\ s \notin late =>
           \A i, j \in RowId : Clash(i, j)' => Clash(i, j)]_vars
  BY <1>1
<1> QED
  BY <1>2, ChecksHold, PTL DEF Spec, NamesAreKept

(* Nor does it leave two objects that are each other's parent (_is_circular): *)
(* a new record links to an older one, which cannot link to it, and a record  *)
(* that is updated has been seen not to link to one of its children.          *)
THEOREM NoNewCycles == Spec => NoMutualParents
PROOF
<1>1. ASSUME TreeInv, [Next]_vars, NEW s \in Session, Writes(s), s \notin late,
             NEW i \in RowId, NEW j \in RowId, TwoCycle(i, j)'
      PROVE  TwoCycle(i, j)
  <2>1. CASE UNCHANGED row
    BY <1>1, <2>1 DEF TwoCycle, Live
  <2>2. ASSUME NEW k \in RowId, NEW c \in Content,
               \A m \in RowId : m # k => row'[m] = row[m],
               Live(k)' => row'[k].up = c.up,
               \/ k = nextId /\ c.up < nextId
               \/ (Live(k)' => Live(k)) /\ ~IsCircular(k, c),
               NEW m \in RowId, m # k, TwoCycle(k, m)'
        PROVE  FALSE
    <3>1. Live(m) /\ row[m].up = k /\ c.up = m /\ Live(k)'
      BY <2>2 DEF TwoCycle, Live
    <3>2. k # nextId
      <4>1. m \in Nat /\ nextId \in Nat /\ k \in Nat
        BY <1>1 DEF RowId, TreeInv, TypeOK
      <4>2. m < nextId => row[m].up < nextId
        BY <1>1, <3>1 DEF TreeInv, TypeOK, Live
      <4>3. m < nextId
        BY <1>1, <3>1 DEF TreeInv, TypeOK, Live
      <4> QED
        BY <3>1, <4>1, <4>2, <4>3
    <3>3. ~IsCircular(k, c) /\ k # 0
      BY <2>2, <3>2 DEF RowId
    <3> QED
      BY <3>1, <3>3 DEF IsCircular, ChildrenOf
  <2>3. ASSUME NEW k \in RowId, \A m \in RowId : m # k => row'[m] = row[m], i # k, j # k
        PROVE  TwoCycle(i, j)
    <3>1. row'[i] = row[i] /\ row'[j] = row[j]
      BY <2>3
    <3> QED
      BY <1>1, <3>1 DEF TwoCycle, Live
  <2>4. i # j /\ TwoCycle(j, i)'
    BY <1>1 DEF TwoCycle
  <2> QED
    BY <1>1, <2>1, <2>2, <2>3, <2>4, WhatIsWritten
<1>2. TreeInv /\ [Next]_vars =>
        [\A s \in Session : Writes(s) /\ s \notin late =>
           \A i, j \in RowId : TwoCycle(i, j)' => TwoCycle(i, j)]_vars
  BY <1>1
<1> QED
  BY <1>2, ChecksHold, PTL DEF Spec, NoMutualParents

-----------------------------------------------------------------------------
(* What readers find.  First the chains of links: each of them exists, by the
   least element of what would be a counterexample, and there is one only. *)
IsChain(f, i, n) == f = [k \in 0..n |-> IF k = 0 THEN i ELSE LinkOf(f[k - 1])]

LEMMA ChainExists == ASSUME NEW i, NEW n \in Nat PROVE \E f : IsChain(f, i, n)
PROOF
<1> DEFINE bad == {m \in Nat : ~ \E f : IsChain(f, i, m)}
<1>1. SUFFICES ASSUME bad # {} PROVE FALSE
  OBVIOUS
<1>2. PICK m \in bad : \A k \in bad : m <= k
  BY <1>1, LeastOf
<1>3. CASE m = 0
  <2>1. IsChain([k \in 0..0 |-> i], i, 0)
    BY DEF IsChain
  <2> QED
    BY <1>2, <1>3, <2>1
<1>4. CASE m # 0
  <2>1. m - 1 \in Nat /\ m - 1 \notin bad
    BY <1>2, <1>4
  <2>2. PICK f : IsChain(f, i, m - 1)
    BY <2>1
  <2>3. PICK h : h = [k \in 0..m |-> IF k = 0 THEN i ELSE LinkOf(f[k - 1])]
    OBVIOUS
  <2>4. ASSUME NEW k \in 0..(m - 1) PROVE h[k] = f[k]
    BY <2>1, <2>2, <2>3 DEF IsChain
  <2>5. ASSUME NEW k \in 0..m PROVE h[k] = IF k = 0 THEN i ELSE LinkOf(h[k - 1])
    <3>1. k # 0 => k - 1 \in 0..(m - 1)
      BY <2>1
    <3> QED
      BY <2>3, <2>4, <3>1
  <2>6. IsChain(h, i, m)
    BY <2>3, <2>5 DEF IsChain
  <2> QED
    BY <1>2, <2>6
<1> QED
  BY <1>3, <1>4

LEMMA ChainsAgree ==
  ASSUME NEW i, NEW n \in Nat, NEW m \in Nat, NEW f, NEW h, IsChain(f, i, n), IsChain(h, i, m),
         NEW k \in Nat, k <= n, k <= m
  PROVE  f[k] = h[k]
PROOF
<1> DEFINE bad == {j \in Nat : j <= n /\ j <= m /\ f[j] # h[j]}
<1>1. SUFFICES ASSUME bad # {} PROVE FALSE
  OBVIOUS
<1>2. PICK j \in bad : \A l \in bad : j <= l
  BY <1>1, LeastOf
<1>3. /\ f[j] = IF j = 0 THEN i ELSE LinkOf(f[j - 1])
      /\ h[j] = IF j = 0 THEN i ELSE LinkOf(h[j - 1])
  BY <1>2 DEF IsChain
<1>4. j # 0 => j - 1 \in Nat /\ j - 1 \notin bad
  BY <1>2
<1> QED
  BY <1>2, <1>3, <1>4

LEMMA AncestorIs ==
  ASSUME NEW i, NEW n \in Nat
  PROVE  Ancestor(i, 0) = i /\ Ancestor(i, n + 1) = LinkOf(Ancestor(i, n))
PROOF
<1>1. ASSUME NEW m \in Nat PROVE \E f : IsChain(f, i, m) /\ Ancestor(i, m) = f[m]
  <2> DEFINE f == CHOOSE g : g = [k \in 0..m |-> IF k = 0 THEN i ELSE LinkOf(g[k - 1])]
  <2>1. \E g : g = [k \in 0..m |-> IF k = 0 THEN i ELSE LinkOf(g[k - 1])]
    <3>1. PICK g : IsChain(g, i, m)
      BY ChainExists
    <3> QED
      BY <3>1, Zenon DEF IsChain
  <2>2. f = [k \in 0..m |-> IF k = 0 THEN i ELSE LinkOf(f[k - 1])]
    BY <2>1
  <2>3. Ancestor(i, m) = f[m]
    BY DEF Ancestor
  <2> QED
    BY <2>2, <2>3 DEF IsChain
<1>2. PICK f : IsChain(f, i, n) /\ Ancestor(i, n) = f[n]
  BY <1>1
<1>3. PICK h : IsChain(h, i, n + 1) /\ Ancestor(i, n + 1) = h[n + 1]
  BY <1>1
<1>4. PICK z : IsChain(z, i, 0) /\ Ancestor(i, 0) = z[0]
  BY <1>1
<1>5. h[n] = f[n]
  BY <1>2, <1>3, ChainsAgree
<1>6. h[n + 1] = LinkOf(h[n])
  BY <1>3 DEF IsChain
<1>7. z[0] = i
  BY <1>4 DEF IsChain
<1> QED
  BY <1>2, <1>3, <1>4, <1>5, <1>6, <1>7

LEMMA SameAncestors == ASSUME row' = row PROVE \A i, n : Ancestor(i, n)' = Ancestor(i, n)
PROOF
  BY DEF Ancestor, LinkOf

(* The way up from j, but for j, is the way up from what it links to. *)
LEMMA OneUp == ASSUME NEW j, NEW n \in Nat PROVE Ancestor(j, n + 1) = Ancestor(LinkOf(j), n)
PROOF
<1> DEFINE bad == {m \in Nat : Ancestor(j, m + 1) # Ancestor(LinkOf(j), m)}
<1>1. SUFFICES ASSUME bad # {} PROVE FALSE
  OBVIOUS
<1>2. PICK m \in bad : \A k \in bad : m <= k
  BY <1>1, LeastOf
<1>3. CASE m = 0
  <2>1. Ancestor(j, 0) = j /\ Ancestor(j, 0 + 1) = LinkOf(Ancestor(j, 0)) /\ Ancestor(LinkOf(j), 0) = LinkOf(j)
    BY AncestorIs
  <2> QED
    BY <1>2, <1>3, <2>1
<1>4. CASE m # 0
  <2>1. PICK k \in Nat : m = k + 1 /\ k \notin bad
    <3>1. m - 1 \in Nat /\ m = (m - 1) + 1 /\ m - 1 \notin bad
      BY <1>2, <1>4
    <3> QED
      BY <3>1
  <2>2. Ancestor(j, m) = Ancestor(LinkOf(j), k)
    BY <2>1
  <2>3. Ancestor(j, m + 1) = LinkOf(Ancestor(j, m))
    BY <1>2, AncestorIs
  <2>4. Ancestor(LinkOf(j), m) = LinkOf(Ancestor(LinkOf(j), k))
    BY <2>1, AncestorIs
  <2> QED
    BY <1>2, <2>2, <2>3, <2>4
<1> QED
  BY <1>3, <1>4

(* Where the links end, they end for good. *)
LEMMA EndOfLinks ==
  ASSUME NEW i, NEW n \in Nat, LinkOf(Ancestor(i, n)) = -1, NEW m \in Nat, m > n
  PROVE  Ancestor(i, m) = -1
PROOF
<1> DEFINE bad == {k \in Nat : k > n /\ Ancestor(i, k) # -1}
<1>1. SUFFICES ASSUME bad # {} PROVE FALSE
  OBVIOUS
<1>2. PICK k \in bad : \A l \in bad : k <= l
  BY <1>1, LeastOf
<1>3. k - 1 \in Nat /\ k = (k - 1) + 1 /\ k - 1 >= n
  BY <1>2
<1>4. Ancestor(i, k) = LinkOf(Ancestor(i, k - 1))
  BY <1>3, AncestorIs
<1>5. CASE k - 1 = n
  BY <1>2, <1>4, <1>5
<1>6. CASE k - 1 > n
  <2>1. Ancestor(i, k - 1) = -1
    BY <1>2, <1>3, <1>6
  <2> QED
    BY <1>2, <1>4, <2>1 DEF LinkOf, RowId
<1> QED
  BY <1>3, <1>5, <1>6

(* Whoever is led to one of a set at every one of as many links as the set has *)
(* members is in a cycle and never led anywhere else.                          *)
LEMMA RoundTheCycle ==
  ASSUME NEW i, NEW S, IsFiniteSet(S), NEW N \in Nat, Cardinality(S) <= N,
         \A k \in 0..N : Ancestor(i, k) \in S, NEW n \in Nat
  PROVE  Ancestor(i, n) \in S
PROOF
<1>1. PICK f : f = [k \in 0..N |-> Ancestor(i, k)]
  OBVIOUS
<1>2. f \in [0..N -> S]
  BY <1>1
<1>3. IsFiniteSet(0..N) /\ Cardinality(0..N) = N + 1
  BY FS_Interval
<1>4. Cardinality(S) \in Nat /\ Cardinality(S) < Cardinality(0..N)
  BY <1>3, FS_CardinalityType
<1>5. PICK x, y \in 0..N : x # y /\ f[x] = f[y]
  BY <1>2, <1>3, <1>4, FS_PigeonHole
<1>6. PICK p, q \in 0..N : p < q /\ Ancestor(i, p) = Ancestor(i, q)
  BY <1>1, <1>5
<1> DEFINE bad == {m \in Nat : \A k \in 0..q : Ancestor(i, m) # Ancestor(i, k)}
<1>7. bad = {}
  <2>1. SUFFICES ASSUME bad # {} PROVE FALSE
    OBVIOUS
  <2>2. PICK m \in bad : \A l \in bad : m <= l
    BY <2>1, LeastOf
  <2>3. m - 1 \in Nat /\ m = (m - 1) + 1 /\ m - 1 \notin bad
    BY <1>6, <2>2
  <2>4. PICK k \in 0..q : Ancestor(i, m - 1) = Ancestor(i, k)
    BY <2>3
  <2>5. Ancestor(i, m) = LinkOf(Ancestor(i, m - 1)) /\ Ancestor(i, k + 1) = LinkOf(Ancestor(i, k))
    BY <2>3, AncestorIs
  <2>6. CASE k < q
    <3>1. k + 1 \in 0..q
      BY <1>6, <2>6
    <3> QED
      BY <2>2, <2>4, <2>5, <3>1
  <2>7. CASE k = q
    <3>1. p + 1 \in 0..q
      BY <1>6
    <3>2. Ancestor(i, p + 1) = LinkOf(Ancestor(i, p))
      BY <1>6, AncestorIs
    <3> QED
      BY <1>6, <2>2, <2>4, <2>5, <2>7, <3>1, <3>2
  <2> QED
    BY <2>6, <2>7
<1>8. PICK k \in 0..q : Ancestor(i, n) = Ancestor(i, k)
  BY <1>7
<1> QED
  BY <1>6, <1>8

(* So what was not found within as many links as there are records is not found *)
(* at all.                                                                      *)
LEMMA NotOnTheWay ==
  ASSUME NEW i, NEW r, \A k \in 0..MaxRow : Ancestor(i, k) \in RowId /\ Ancestor(i, k) # r, NEW n \in Nat
  PROVE  Ancestor(i, n) # r
PROOF
<1>1. IsFiniteSet(RowId) /\ Cardinality(RowId) = MaxRow
  BY FS_Interval DEF RowId
<1>2. PICK S : S = RowId \ {r}
  OBVIOUS
<1>3. S \in SUBSET RowId /\ IsFiniteSet(S) /\ Cardinality(S) <= MaxRow
  BY <1>1, <1>2, FS_Subset
<1>4. \A k \in 0..MaxRow : Ancestor(i, k) \in S
  BY <1>2
<1>5. Ancestor(i, n) \in S
  BY <1>3, <1>4, RoundTheCycle
<1> QED
  BY <1>2, <1>5

(* What a session has found is so, unless it was overtaken: a walk knows what
   is below it and that the root is not among it, *)
WalkCall == [op : {"walk"}, root : Roots, from : RowId, id : Link, level : 0..(MaxRow + 1),
             pc : {"up", "found", "missed"}]

WalkKnows(c) ==
  /\ c.pc = "up" /\ c.level <= MaxRow =>
       /\ c.id = Ancestor(c.from, c.level)
       /\ \A k \in 0..c.level : Ancestor(c.from, k) # c.root
       /\ \A k \in 0..c.level : k < c.level => Ancestor(c.from, k) \in RowId
  /\ c.pc = "up" /\ c.level > MaxRow =>
       /\ \E n \in Nat : c.id = Ancestor(c.from, n)
       /\ \A n \in Nat : Ancestor(c.from, n) # c.root
  /\ c.pc = "found" => Ancestor(c.from, c.level) = c.root
  /\ c.pc = "missed" => \A n \in Nat : Ancestor(c.from, n) # c.root

(* a path the object it has come to, *)
PathCall == [op : {"path"}, path : Paths, at : Nat, id : Link, pc : {"element", "fetch", "there", "nowhere"}]

Reached(i, path, n) == HangsBelow(i, 0, n) /\ \A k \in 1..n : row[Ancestor(i, n - k)].name = path[k]

PathKnows(c) ==
  /\ c.pc = "element" => c.at \in 1..Len(c.path) /\ Reached(c.id, c.path, c.at - 1)
  /\ c.pc \in {"fetch", "there"} => Reached(c.id, c.path, Len(c.path))
  /\ c.pc = "nowhere" => \A i \in RowId : IsAt(i, c.path) => Ambiguous(i, Len(c.path))

(* and a listing the levels it has read. *)
Level == SUBSET [id : RowId, up : Link]
ListCall == [op : {"list"}, root : Roots, max : Nat, levels : Seq(Level), pc : {"level", "listed"}]

Below(i, root, n) == Ancestor(i, n) = root /\ \A k \in 0..(n - 1) : Ancestor(i, k) \in RowId /\ Live(Ancestor(i, k))

LevelIs(root, n) == {[id |-> i, up |-> row[i].up] : i \in {j \in RowId : Below(j, root, n)}}

ListKnows(c) ==
  /\ \A n \in 1..Len(c.levels) : c.levels[n] = LevelIs(c.root, n)
  /\ c.max # 0 => Len(c.levels) <= c.max
  /\ c.pc = "listed" => LevelIs(c.root, Len(c.levels) + 1) = {} \/ (c.max # 0 /\ Len(c.levels) = c.max)

ReaderOK(s) ==
  /\ In(s, "up") \/ In(s, "found") \/ In(s, "missed") =>
       call[s] \in WalkCall /\ (s \notin late => WalkKnows(call[s]))
  /\ In(s, "element") \/ In(s, "fetch") \/ In(s, "there") \/ In(s, "nowhere") =>
       call[s] \in PathCall /\ (s \notin late => PathKnows(call[s]))
  /\ In(s, "level") \/ In(s, "listed") =>
       call[s] \in ListCall /\ (s \notin late => ListKnows(call[s]))

ReadInv == TreeInv /\ \A s \in Session : ReaderOK(s)

LEMMA SameTable ==
  ASSUME row' = row
  PROVE  /\ \A i, n : Ancestor(i, n)' = Ancestor(i, n)
         /\ \A i : Live(i)' = Live(i) /\ ChildrenOf(i)' = ChildrenOf(i)
         /\ \A i, r, n : HangsBelow(i, r, n)' = HangsBelow(i, r, n) /\ Below(i, r, n)' = Below(i, r, n)
         /\ \A i, p, n : Reached(i, p, n)' = Reached(i, p, n)
         /\ \A i, p : IsAt(i, p)' = IsAt(i, p)
         /\ \A i, n : Ambiguous(i, n)' = Ambiguous(i, n)
         /\ \A r, n : LevelIs(r, n)' = LevelIs(r, n)
PROOF
<1>1. \A i, n : Ancestor(i, n)' = Ancestor(i, n)
  BY SameAncestors
<1>2. \A i : Live(i)' = Live(i)
  BY DEF Live
<1>3. \A i : ChildrenOf(i)' = ChildrenOf(i)
  BY <1>2 DEF ChildrenOf
<1>4. \A i, r, n : HangsBelow(i, r, n)' = HangsBelow(i, r, n)
  BY <1>1, <1>2 DEF HangsBelow
<1>5. \A i, r, n : Below(i, r, n)' = Below(i, r, n)
  BY <1>1, <1>2 DEF Below
<1>6. \A i, p, n : Reached(i, p, n)' = Reached(i, p, n)
  BY <1>1, <1>4 DEF Reached
<1>7. \A i, p : IsAt(i, p)' = IsAt(i, p)
  BY <1>1, <1>4 DEF IsAt
<1>8. \A i, n : Ambiguous(i, n)' = Ambiguous(i, n)
  BY <1>1, <1>2 DEF Ambiguous
<1>9. \A r, n : LevelIs(r, n)' = LevelIs(r, n)
  BY <1>5 DEF LevelIs
<1> QED
  BY <1>1, <1>2, <1>3, <1>4, <1>5, <1>6, <1>7, <1>8, <1>9

LEMMA KnowsStays ==
  ASSUME row' = row, NEW c
  PROVE  /\ WalkKnows(c) => WalkKnows(c)'
         /\ PathKnows(c) => PathKnows(c)'
         /\ ListKnows(c) => ListKnows(c)'
PROOF
<1>1. WalkKnows(c) => WalkKnows(c)'
  BY SameTable DEF WalkKnows
<1>2. PathKnows(c) => PathKnows(c)'
  BY SameTable DEF PathKnows
<1>3. ListKnows(c) => ListKnows(c)'
  BY SameTable DEF ListKnows
<1> QED
  BY <1>1, <1>2, <1>3

(* A session that does not write moves nobody but itself. *)
LEMMA QuietReads ==
  ASSUME ReadInv, TreeInv', NEW s \in Session, row' = row, NEW c, call' = [call EXCEPT ![s] = c],
         late' \in {late, late \ {s}},
         \/ c = Idle \/ c.pc \in {"name", "write"}
         \/ c \in WalkCall /\ (s \notin late' => WalkKnows(c))
         \/ c \in PathCall /\ (s \notin late' => PathKnows(c))
         \/ c \in ListCall /\ (s \notin late' => ListKnows(c))
  PROVE  ReadInv'
PROOF
<1>1. call'[s] = c /\ \A t \in Session : t # s => call'[t] = call[t] /\ (t \in late' <=> t \in late)
  BY DEF ReadInv, TreeInv, TypeOK
<1>2. ASSUME NEW t \in Session PROVE ReaderOK(t)'
  <2>1. CASE t # s
    <3>1. PICK d : d = call[t]
      OBVIOUS
    <3>2. ReaderOK(t) /\ call'[t] = d /\ (t \in late' <=> t \in late)
      BY <1>1, <2>1, <3>1 DEF ReadInv
    <3>3. /\ WalkKnows(d) => WalkKnows(call[t])'
          /\ PathKnows(d) => PathKnows(call[t])'
          /\ ListKnows(d) => ListKnows(call[t])'
      <4>1. /\ WalkKnows(d) => WalkKnows(d)'
            /\ PathKnows(d) => PathKnows(d)'
            /\ ListKnows(d) => ListKnows(d)'
        BY KnowsStays
      <4> QED
        BY <3>2, <4>1 DEF WalkKnows, PathKnows, ListKnows
    <3> QED
      BY <3>1, <3>2, <3>3 DEF ReaderOK, In
  <2>2. CASE t = s
    <3>1. /\ WalkKnows(c) => WalkKnows(call[t])'
          /\ PathKnows(c) => PathKnows(call[t])'
          /\ ListKnows(c) => ListKnows(call[t])'
      <4>1. /\ WalkKnows(c) => WalkKnows(c)'
            /\ PathKnows(c) => PathKnows(c)'
            /\ ListKnows(c) => ListKnows(c)'
        BY KnowsStays
      <4> QED
        BY <1>1, <2>2, <4>1 DEF WalkKnows, PathKnows, ListKnows
    <3>2. CASE c = Idle \/ c.pc \in {"name", "write"}
      BY <1>1, <2>2, <3>2 DEF ReaderOK, In
    <3>3. CASE c \in WalkCall /\ (s \notin late' => WalkKnows(c))
      <4>1. c.pc \in {"up", "found", "missed"}
        BY <3>3 DEF WalkCall
      <4> QED
        BY <1>1, <2>2, <3>1, <3>3, <4>1 DEF ReaderOK, In
    <3>4. CASE c \in PathCall /\ (s \notin late' => PathKnows(c))
      <4>1. c.pc \in {"element", "fetch", "there", "nowhere"}
        BY <3>4 DEF PathCall
      <4> QED
        BY <1>1, <2>2, <3>1, <3>4, <4>1 DEF ReaderOK, In
    <3>5. CASE c \in ListCall /\ (s \notin late' => ListKnows(c))
      <4>1. c.pc \in {"level", "listed"}
        BY <3>5 DEF ListCall
      <4> QED
        BY <1>1, <2>2, <3>1, <3>5, <4>1 DEF ReaderOK, In
    <3> QED
      BY <3>2, <3>3, <3>4, <3>5
  <2> QED
    BY <2>1, <2>2
<1> QED
  BY <1>2 DEF ReadInv

LEMMA WriteReads ==
  ASSUME ReadInv, TreeInv', NEW s \in Session, Overtake(s),
         (call[s] = Idle /\ UNCHANGED call) \/ Return(s)
  PROVE  ReadInv'
PROOF
<1>1. call'[s] = Idle /\ \A t \in Session : t # s => call'[t] = call[t]
  BY DEF Return, ReadInv, TreeInv, TypeOK
<1>2. \A t \in Session : t # s => call[t] = Idle \/ t \in late'
  BY DEF Overtake
<1>3. ASSUME NEW t \in Session PROVE ReaderOK(t)'
  <2>1. CASE t = s
    BY <1>1, <2>1 DEF ReaderOK, In
  <2>2. CASE t # s
    <3>1. ReaderOK(t)
      BY DEF ReadInv
    <3> QED
      BY <1>1, <1>2, <2>2, <3>1 DEF ReaderOK, In
  <2> QED
    BY <2>1, <2>2
<1> QED
  BY <1>3 DEF ReadInv

(* What links to j has j above it. *)
LEMMA LinkIs ==
  ASSUME TreeInv, NEW i \in RowId, row[i] # NoRow
  PROVE  LinkOf(i) = row[i].up /\ row[i].up \in Link
PROOF
  BY DEF LinkOf, TreeInv, TypeOK, Node

(* midgard_object_is_in_tree *)
Walked(c, i, n, p) == [c EXCEPT !.id = i, !.level = n, !.pc = p]

LEMMA WalkedIs ==
  ASSUME NEW c \in WalkCall, NEW i \in Link, NEW n \in 0..(MaxRow + 1), NEW p \in {"up", "found", "missed"},
         NEW d, d = Walked(c, i, n, p)
  PROVE  d \in WalkCall /\ d.id = i /\ d.level = n /\ d.pc = p /\ d.from = c.from /\ d.root = c.root
PROOF
<1>1. d \in WalkCall
  BY DEF WalkCall, Walked
<1> QED
  BY <1>1 DEF WalkCall, Walked

LEMMA WalkBegins ==
  ASSUME ReadInv, TreeInv', NEW s \in Session, NEW root \in Roots, NEW i \in RowId, IsInTree(s, root, i)
  PROVE  ReadInv'
PROOF
<1>1. PICK p \in {"up", "found"} : p = IF i = root THEN "found" ELSE "up"
  OBVIOUS
<1>2. PICK c : c = [op |-> "walk", root |-> root, from |-> i, id |-> i, level |-> 0, pc |-> p]
  OBVIOUS
<1>3. call' = [call EXCEPT ![s] = c] /\ late' = late \ {s} /\ row' = row
  BY <1>1, <1>2 DEF IsInTree, Begin
<1>4. c \in WalkCall
  BY <1>2 DEF WalkCall, RowId, Link
<1>5. Ancestor(i, 0) = i
  BY AncestorIs
<1>6. WalkKnows(c)
  BY <1>1, <1>2, <1>5 DEF WalkKnows
<1> QED
  BY <1>3, <1>4, <1>6, QuietReads

LEMMA WalkGoesOn ==
  ASSUME TreeInv, NEW c \in WalkCall, c.pc = "up", WalkKnows(c), c.id \in RowId, row[c.id] # NoRow,
         NEW d \in WalkCall, d.from = c.from, d.root = c.root, d.id = row[c.id].up,
         d.level = IF c.level > MaxRow THEN c.level ELSE c.level + 1,
         d.pc = IF d.id = c.root THEN "found" ELSE "up"
  PROVE  WalkKnows(d)
PROOF
<1>1. c.from \in RowId /\ c.level \in 0..(MaxRow + 1) /\ c.level \in Nat /\ MaxRow \in Nat
  BY TreeAssumption DEF WalkCall
<1>2. PICK n \in Nat : n = d.level
  BY DEF WalkCall
<1>3. PICK i : i = d.id /\ LinkOf(c.id) = i
  BY LinkIs
<1>4. PICK p :
      /\ d.id = i /\ d.level = n /\ d.pc = p /\ d.from = c.from /\ d.root = c.root
      /\ n = IF c.level > MaxRow THEN c.level ELSE c.level + 1
      /\ p = IF i = c.root THEN "found" ELSE "up"
  BY <1>2, <1>3
<1>5. CASE c.level <= MaxRow
  <2>1. /\ c.id = Ancestor(c.from, c.level) /\ n = c.level + 1
        /\ \A k \in 0..c.level : Ancestor(c.from, k) # c.root
        /\ \A k \in 0..c.level : k < c.level => Ancestor(c.from, k) \in RowId
    BY <1>1, <1>4, <1>5 DEF WalkKnows
  <2>2. Ancestor(c.from, n) = i
    BY <1>1, <1>3, <2>1, AncestorIs
  <2>3. CASE i = c.root
    <3>1. d.pc = "found" /\ Ancestor(d.from, d.level) = d.root
      BY <1>4, <2>2, <2>3
    <3> QED
      BY <1>4, <2>3, <3>1 DEF WalkKnows
  <2>4. CASE i # c.root
    <3>1. ASSUME NEW k \in 0..n PROVE Ancestor(c.from, k) # c.root
      <4>1. k = n \/ k \in 0..c.level
        BY <1>1, <2>1
      <4> QED
        BY <2>1, <2>2, <2>4, <4>1
    <3>2. ASSUME NEW k \in 0..n, k < n PROVE Ancestor(c.from, k) \in RowId
      <4>1. k = c.level \/ (k \in 0..c.level /\ k < c.level)
        BY <1>1, <2>1, <3>2
      <4> QED
        BY <2>1, <4>1
    <3>3. CASE n > MaxRow
      <4>1. c.level = MaxRow
        BY <1>1, <1>5, <2>1, <3>3
      <4>2. \A k \in 0..MaxRow : Ancestor(c.from, k) \in RowId /\ Ancestor(c.from, k) # c.root
        <5>1. SUFFICES ASSUME NEW k \in 0..MaxRow PROVE Ancestor(c.from, k) \in RowId /\ Ancestor(c.from, k) # c.root
          OBVIOUS
        <5>2. k \in 0..n /\ k < n
          BY <1>1, <2>1, <4>1
        <5> QED
          BY <3>1, <3>2, <5>2
      <4>3. \A m \in Nat : Ancestor(c.from, m) # c.root
        BY <4>2, NotOnTheWay
      <4> QED
        BY <1>1, <1>4, <2>2, <2>4, <3>3, <4>3 DEF WalkKnows
    <3>4. CASE n <= MaxRow
      <4>1. p = "up" /\ ~ (n > MaxRow)
        BY <1>1, <1>4, <2>4, <3>4
      <4>2. \A k \in 0..d.level : Ancestor(d.from, k) # d.root
        BY <1>4, <3>1
      <4>3. \A k \in 0..d.level : k < d.level => Ancestor(d.from, k) \in RowId
        BY <1>4, <3>2
      <4>4. d.id = Ancestor(d.from, d.level)
        BY <1>4, <2>2
      <4> QED
        BY <1>4, <4>1, <4>2, <4>3, <4>4 DEF WalkKnows
    <3> QED
      BY <1>1, <3>3, <3>4
  <2> QED
    BY <2>3, <2>4
<1>6. CASE c.level > MaxRow
  <2>1. PICK m \in Nat : c.id = Ancestor(c.from, m)
    BY <1>6 DEF WalkKnows
  <2>2. \A k \in Nat : Ancestor(c.from, k) # c.root
    BY <1>6 DEF WalkKnows
  <2>3. i = Ancestor(c.from, m + 1) /\ m + 1 \in Nat
    BY <1>3, <2>1, AncestorIs
  <2>4. i # c.root
    BY <2>2, <2>3
  <2>5. p = "up" /\ n > MaxRow /\ ~ (n <= MaxRow)
    BY <1>1, <1>4, <1>6, <2>4
  <2>6. \A k \in Nat : Ancestor(d.from, k) # d.root
    BY <1>4, <2>2
  <2>7. \E k \in Nat : d.id = Ancestor(d.from, k)
    BY <1>4, <2>3
  <2> QED
    BY <1>4, <2>5, <2>6, <2>7 DEF WalkKnows
<1> QED
  BY <1>1, <1>5, <1>6

LEMMA WalkUpReads == ASSUME ReadInv, TreeInv', NEW s \in Session, WalkUp(s) PROVE ReadInv'
PROOF
<1>1. In(s, "up") /\ UNCHANGED <<row, nextId>> /\ TreeInv /\ ReaderOK(s)
  BY DEF WalkUp, ReadInv
<1>2. PICK c \in WalkCall : c = call[s] /\ c.pc = "up" /\ (s \notin late => WalkKnows(c))
  BY <1>1 DEF ReaderOK, In
<1>3. call \in [Session -> {call[t] : t \in Session}]
  BY <1>1 DEF TreeInv, TypeOK
<1>4. CASE c.id = 0 \/ row[c.id] = NoRow
  <2>1. PICK d : d = [c EXCEPT !.pc = "missed"]
    OBVIOUS
  <2>2. d \in WalkCall
    BY <2>1 DEF WalkCall
  <2>3. d.pc = "missed" /\ d.from = c.from /\ d.root = c.root /\ d.root \in Roots /\ c.from \in RowId
    BY <2>1, <2>2 DEF WalkCall
  <2>4. call' = [call EXCEPT ![s] = d] /\ late' = late
    BY <1>2, <1>3, <1>4, <2>1 DEF WalkUp, Goto
  <2>5. ASSUME WalkKnows(c) PROVE WalkKnows(d)
    <3>1. LinkOf(c.id) = -1
      BY <1>4 DEF LinkOf, RowId
    <3>2. ASSUME NEW n \in Nat PROVE Ancestor(c.from, n) # c.root
      <4>1. CASE c.level > MaxRow
        BY <1>2, <2>5, <4>1 DEF WalkKnows
      <4>2. CASE c.level <= MaxRow /\ n <= c.level
        <5>1. n \in 0..c.level
          BY <4>2 DEF WalkCall
        <5> QED
          BY <1>2, <2>5, <4>2, <5>1 DEF WalkKnows
      <4>3. CASE c.level <= MaxRow /\ n > c.level
        <5>1. c.level \in Nat /\ c.id = Ancestor(c.from, c.level)
          BY <1>2, <2>5, <4>3 DEF WalkKnows, WalkCall
        <5>2. Ancestor(c.from, n) = -1
          BY <3>1, <4>3, <5>1, EndOfLinks
        <5> QED
          BY <2>3, <5>2
      <4>4. c.level \in Nat
        BY DEF WalkCall
      <4> QED
        BY <4>1, <4>2, <4>3, <4>4
    <3> QED
      BY <2>3, <3>2 DEF WalkKnows
  <2> QED
    BY <1>1, <1>2, <2>2, <2>4, <2>5, QuietReads
<1>5. CASE c.id # 0 /\ row[c.id] # NoRow
  <2>1. c.id \in RowId
    BY <1>5 DEF WalkCall, Link, RowId
  <2>2. PICK i, n, p : /\ i = row[c.id].up
                       /\ n = IF c.level > MaxRow THEN c.level ELSE c.level + 1
                       /\ p = IF row[c.id].up = c.root THEN "found" ELSE "up"
    OBVIOUS
  <2>3. call' = [call EXCEPT ![s].id = i, ![s].level = n, ![s].pc = p] /\ late' = late
    BY <1>2, <1>5, <2>2 DEF WalkUp
  <2>4. PICK d : d = Walked(c, i, n, p)
    OBVIOUS
  <2>5. call' = [call EXCEPT ![s] = d]
    BY <1>2, <1>3, <2>3, <2>4 DEF Walked
  <2>6. i \in Link /\ n \in 0..(MaxRow + 1) /\ p \in {"up", "found", "missed"}
    BY <1>1, <1>5, <2>1, <2>2, LinkIs DEF WalkCall
  <2>7. d \in WalkCall /\ d.from = c.from /\ d.root = c.root /\ d.id = i /\ d.level = n /\ d.pc = p
    <3>1. d \in WalkCall
      BY <2>4, <2>6, WalkedIs
    <3> QED
      BY <2>4, <2>6, <3>1 DEF Walked, WalkCall
  <2>8. WalkKnows(c) => WalkKnows(d)
    BY <1>1, <1>2, <1>5, <2>1, <2>2, <2>7, WalkGoesOn
  <2> QED
    BY <1>1, <1>2, <2>3, <2>5, <2>7, <2>8, QuietReads
<1> QED
  BY <1>4, <1>5

(* midgard_object_get_by_path *)
Stepped(c, i, n, p) == [c EXCEPT !.id = i, !.at = n, !.pc = p]

LEMMA PathLength == ASSUME NEW p \in Paths PROVE Len(p) \in Nat /\ Len(p) >= 1
PROOF
<1>1. p # << >> /\ p \in Seq(Name \cup {NoName})
  BY TreeAssumption
<1> QED
  BY <1>1

LEMMA PathBegins ==
  ASSUME ReadInv, TreeInv', NEW s \in Session, NEW path \in Paths, FindByPath(s, path)
  PROVE  ReadInv'
PROOF
<1>1. PICK c : c = [op |-> "path", path |-> path, at |-> 1, id |-> 0, pc |-> "element"]
  OBVIOUS
<1>2. call' = [call EXCEPT ![s] = c] /\ late' = late \ {s} /\ row' = row
  BY <1>1 DEF FindByPath, Begin
<1>3. c \in PathCall
  BY <1>1, TreeAssumption DEF PathCall, Link
<1>4. Reached(0, path, 0)
  BY AncestorIs DEF Reached, HangsBelow
<1>5. c.at = 1 /\ c.id = 0 /\ c.path = path /\ c.pc = "element" /\ c.at - 1 = 0
  BY <1>1
<1>6. c.at \in 1..Len(c.path) /\ Reached(c.id, c.path, c.at - 1)
  BY <1>4, <1>5, PathLength
<1>7. PathKnows(c)
  BY <1>5, <1>6 DEF PathKnows
<1> QED
  BY <1>2, <1>3, <1>7, QuietReads

(* One element further down. *)
LEMMA ReachedChild ==
  ASSUME NEW r, NEW p, NEW m \in Nat, Reached(r, p, m),
         NEW j \in RowId, Live(j), row[j].up = r, row[j].name = p[m + 1]
  PROVE  Reached(j, p, m + 1)
PROOF
<1>1. LinkOf(j) = r /\ Ancestor(j, 0) = j
  BY AncestorIs DEF LinkOf, Live
<1>2. \A k \in Nat : Ancestor(j, k + 1) = Ancestor(r, k)
  BY <1>1, OneUp
<1>3. Ancestor(j, m + 1) = 0
  BY <1>2 DEF Reached, HangsBelow
<1>4. ASSUME NEW k \in 0..((m + 1) - 1)
      PROVE  Ancestor(j, k) \in RowId \ {0} /\ Live(Ancestor(j, k))
  <2>1. CASE k = 0
    BY <1>1, <2>1 DEF RowId
  <2>2. CASE k # 0
    <3>1. k - 1 \in 0..(m - 1) /\ k - 1 \in Nat /\ k = (k - 1) + 1
      BY <2>2
    <3>2. Ancestor(j, k) = Ancestor(r, k - 1)
      BY <1>2, <3>1
    <3> QED
      BY <3>1, <3>2 DEF Reached, HangsBelow
  <2> QED
    BY <2>1, <2>2
<1>5. ASSUME NEW k \in 1..(m + 1) PROVE row[Ancestor(j, (m + 1) - k)].name = p[k]
  <2>1. CASE k = m + 1
    BY <1>1, <2>1
  <2>2. CASE k # m + 1
    <3>1. k \in 1..m /\ m - k \in Nat /\ (m + 1) - k = (m - k) + 1
      BY <2>2
    <3>2. Ancestor(j, (m + 1) - k) = Ancestor(r, m - k)
      BY <1>2, <3>1
    <3> QED
      BY <3>1, <3>2 DEF Reached
  <2> QED
    BY <2>1, <2>2
<1> QED
  BY <1>3, <1>4, <1>5 DEF Reached, HangsBelow

(* An object at the path none of whose names is taken twice hangs below what *)
(* the path was followed to: two ways down by the same names cannot part.    *)
LEMMA SameWay ==
  ASSUME NEW i, NEW p, NEW n \in Nat, Reached(i, p, n), ~Ambiguous(i, n),
         NEW r, NEW m \in Nat, m <= n, Reached(r, p, m)
  PROVE  Ancestor(i, n - m) = r
PROOF
<1> DEFINE bad == {k \in Nat : k <= m /\ Ancestor(i, n - k) # Ancestor(r, m - k)}
<1>1. \A k \in Nat : k <= m => Ancestor(i, n - k) = Ancestor(r, m - k)
  <2>1. SUFFICES ASSUME bad # {} PROVE FALSE
    OBVIOUS
  <2>2. PICK k \in bad : \A l \in bad : k <= l
    BY <2>1, LeastOf
  <2>3. k # 0
    <3>1. Ancestor(i, n) = 0 /\ Ancestor(r, m) = 0 /\ n - 0 = n /\ m - 0 = m
      BY DEF Reached, HangsBelow
    <3> QED
      BY <2>2, <3>1
  <2>4. PICK a \in Nat, b \in Nat : a = n - k /\ b = m - k
    BY <2>2
  <2>5. n - (k - 1) = a + 1 /\ m - (k - 1) = b + 1 /\ k - 1 \in Nat /\ k - 1 \notin bad /\ k - 1 <= m
    BY <2>2, <2>3, <2>4
  <2>6. Ancestor(i, a + 1) = Ancestor(r, b + 1) /\ Ancestor(i, a) # Ancestor(r, b)
    BY <2>2, <2>4, <2>5
  <2>7. PICK j : j = Ancestor(r, b)
    OBVIOUS
  <2>8. j \in RowId /\ Live(j)
    <3>1. b \in 0..(m - 1)
      BY <2>2, <2>3, <2>4
    <3> QED
      BY <2>7, <3>1 DEF Reached, HangsBelow
  <2>9. row[j].up = Ancestor(i, a + 1)
    <3>1. Ancestor(r, b + 1) = LinkOf(j)
      BY <2>7, AncestorIs
    <3> QED
      BY <2>6, <2>8, <3>1 DEF LinkOf, Live
  <2>10. row[j].name = row[Ancestor(i, a)].name
    <3>1. k \in 1..m /\ k \in 1..n
      BY <2>2, <2>3
    <3>2. row[Ancestor(r, m - k)].name = p[k] /\ row[Ancestor(i, n - k)].name = p[k]
      BY <3>1 DEF Reached
    <3> QED
      BY <2>4, <2>7, <3>2
  <2>11. a \in 0..(n - 1)
    BY <2>2, <2>3, <2>4
  <2> QED
    BY <2>6, <2>7, <2>8, <2>9, <2>10, <2>11 DEF Ambiguous
<1>2. m \in Nat /\ m <= m /\ m - m = 0
  OBVIOUS
<1>3. Ancestor(i, n - m) = Ancestor(r, 0)
  BY <1>1, <1>2
<1> QED
  BY <1>3, AncestorIs

(* Where nothing carries the next name, nothing is at the path. *)
LEMMA NothingThere ==
  ASSUME NEW c \in PathCall, c.pc = "element", PathKnows(c),
         {i \in ChildrenOf(c.id) : row[i].name = c.path[c.at]} = {},
         NEW i \in RowId, IsAt(i, c.path)
  PROVE  Ambiguous(i, Len(c.path))
PROOF
<1>1. PICK n \in Nat, m \in Nat : n = Len(c.path) /\ m = c.at - 1 /\ m < n /\ c.at = m + 1
  <2>1. Len(c.path) \in Nat
    BY PathLength DEF PathCall
  <2>2. c.at \in 1..Len(c.path)
    BY DEF PathKnows
  <2> QED
    BY <2>1, <2>2
<1>2. Reached(i, c.path, n) /\ Reached(c.id, c.path, m)
  BY <1>1 DEF IsAt, Reached, PathKnows
<1>3. SUFFICES ASSUME ~Ambiguous(i, n) PROVE FALSE
  BY <1>1
<1>4. Ancestor(i, n - m) = c.id
  BY <1>1, <1>2, <1>3, SameWay
<1>5. PICK a \in Nat : a = n - (m + 1) /\ n - m = a + 1 /\ a \in 0..(n - 1)
  BY <1>1
<1>6. PICK j : j = Ancestor(i, a)
  OBVIOUS
<1>7. j \in RowId /\ Live(j)
  BY <1>2, <1>5, <1>6 DEF Reached, HangsBelow
<1>8. row[j].up = c.id
  <2>1. Ancestor(i, a + 1) = LinkOf(j)
    BY <1>6, AncestorIs
  <2> QED
    BY <1>4, <1>5, <1>7, <2>1 DEF LinkOf, Live
<1>9. row[j].name = c.path[c.at]
  <2>1. m + 1 \in 1..n
    BY <1>1
  <2>2. row[Ancestor(i, n - (m + 1))].name = c.path[m + 1]
    BY <1>2, <2>1 DEF Reached
  <2> QED
    BY <1>1, <1>5, <1>6, <2>2
<1> QED
  BY <1>7, <1>8, <1>9 DEF ChildrenOf

LEMMA PathGoesOn == ASSUME ReadInv, TreeInv', NEW s \in Session, PathElement(s) PROVE ReadInv'
PROOF
<1>1. In(s, "element") /\ UNCHANGED <<row, nextId>> /\ TreeInv /\ ReaderOK(s)
  BY DEF PathElement, ReadInv
<1>2. PICK c \in PathCall : c = call[s] /\ c.pc = "element" /\ (s \notin late => PathKnows(c))
  BY <1>1 DEF ReaderOK, In
<1>3. call \in [Session -> {call[t] : t \in Session}]
  BY <1>1 DEF TreeInv, TypeOK
<1>4. PICK named \in SUBSET RowId : named = {i \in ChildrenOf(c.id) : row[i].name = c.path[c.at]}
  BY DEF ChildrenOf
<1>5. CASE named = {}
  <2>1. PICK d : d = [c EXCEPT !.pc = "nowhere"]
    OBVIOUS
  <2>2. d \in PathCall
    BY <2>1 DEF PathCall
  <2>3. d.pc = "nowhere" /\ d.path = c.path
    BY <2>1, <2>2 DEF PathCall
  <2>4. call' = [call EXCEPT ![s] = d] /\ late' = late
    BY <1>2, <1>3, <1>4, <1>5, <2>1 DEF PathElement, Goto
  <2>5. PathKnows(c) => PathKnows(d)
    <3>1. PathKnows(c) => \A i \in RowId : IsAt(i, c.path) => Ambiguous(i, Len(c.path))
      BY <1>2, <1>4, <1>5, NothingThere
    <3> QED
      BY <2>3, <3>1 DEF PathKnows
  <2> QED
    BY <1>1, <1>2, <2>2, <2>4, <2>5, QuietReads
<1>6. CASE named # {}
  <2>1. PICK j \in RowId : j = Min(named) /\ j \in named
    BY <1>6, FirstIsThere
  <2>2. Live(j) /\ row[j].up = c.id /\ row[j].name = c.path[c.at] /\ j \in Link
    BY <1>4, <2>1 DEF ChildrenOf, RowId, Link
  <2>3. PICK p \in {"element", "fetch"} : p = IF c.at = Len(c.path) THEN "fetch" ELSE "element"
    OBVIOUS
  <2>4. PICK n \in Nat : n = c.at + 1
    BY DEF PathCall
  <2>5. PICK d : d = Stepped(c, j, n, p)
    OBVIOUS
  <2>6. d \in PathCall /\ d.id = j /\ d.at = n /\ d.pc = p /\ d.path = c.path
    <3>1. j \in Link /\ p \in {"element", "fetch", "there", "nowhere"}
      BY <2>2
    <3>2. c \in PathCall /\ j \in Link /\ n \in Nat
      BY <3>1
    <3>3. d \in PathCall
      BY <2>5, <3>1, <3>2 DEF PathCall, Stepped
    <3> QED
      BY <2>5, <3>2, <3>3 DEF PathCall, Stepped
  <2>7. call' = [call EXCEPT ![s] = d] /\ late' = late
    <3>1. call' = [call EXCEPT ![s].id = j, ![s].at = n, ![s].pc = p] /\ late' = late
      BY <1>2, <1>4, <1>6, <2>1, <2>3, <2>4 DEF PathElement
    <3> QED
      BY <1>2, <1>3, <2>5, <3>1 DEF Stepped
  <2>8. ASSUME PathKnows(c) PROVE PathKnows(d)
    <3>1. c.at \in 1..Len(c.path) /\ Reached(c.id, c.path, c.at - 1)
      BY <1>2, <2>8 DEF PathKnows
    <3>2. PICK m \in Nat : m = c.at - 1 /\ c.at = m + 1 /\ n = (m + 1) + 1
      BY <2>4, <3>1
    <3>3. Reached(j, c.path, m + 1)
      BY <2>2, <3>1, <3>2, ReachedChild
    <3>4. CASE p = "fetch"
      <4>1. Reached(d.id, d.path, Len(d.path))
        BY <2>3, <2>6, <3>2, <3>3, <3>4
      <4> QED
        BY <2>6, <3>4, <4>1 DEF PathKnows
    <3>5. CASE p = "element"
      <4>1. Len(c.path) \in Nat /\ c.at # Len(c.path)
        BY <2>3, <3>5, PathLength DEF PathCall
      <4>2. d.at \in 1..Len(d.path) /\ d.at - 1 = m + 1
        BY <2>4, <2>6, <3>1, <3>2, <4>1
      <4> QED
        BY <2>6, <3>3, <3>5, <4>2 DEF PathKnows
    <3> QED
      BY <3>4, <3>5
  <2> QED
    BY <1>1, <1>2, <2>6, <2>7, <2>8, QuietReads
<1> QED
  BY <1>5, <1>6

LEMMA PathEnds == ASSUME ReadInv, TreeInv', NEW s \in Session, PathFetch(s) PROVE ReadInv'
PROOF
<1>1. In(s, "fetch") /\ UNCHANGED <<row, nextId>> /\ TreeInv /\ ReaderOK(s)
  BY DEF PathFetch, ReadInv
<1>2. PICK c \in PathCall : c = call[s] /\ c.pc = "fetch" /\ (s \notin late => PathKnows(c))
  BY <1>1 DEF ReaderOK, In
<1>3. call \in [Session -> {call[t] : t \in Session}]
  BY <1>1 DEF TreeInv, TypeOK
<1>4. PICK p \in {"there", "nowhere"} : p = IF Live(c.id) THEN "there" ELSE "nowhere"
  OBVIOUS
<1>5. PICK d : d = [c EXCEPT !.pc = p]
  OBVIOUS
<1>6. d \in PathCall
  BY <1>5 DEF PathCall
<1>7. d.pc = p /\ d.path = c.path /\ d.id = c.id
  BY <1>5, <1>6 DEF PathCall
<1>8. call' = [call EXCEPT ![s] = d] /\ late' = late
  BY <1>2, <1>3, <1>4, <1>5 DEF PathFetch, Goto
<1>9. ASSUME PathKnows(c) PROVE PathKnows(d)
  <2>1. Reached(c.id, c.path, Len(c.path))
    BY <1>2, <1>9 DEF PathKnows
  <2>2. Live(c.id)
    <3>1. 0 \in 0..(Len(c.path) - 1)
      BY PathLength DEF PathCall
    <3>2. Ancestor(c.id, 0) = c.id
      BY AncestorIs
    <3> QED
      BY <2>1, <3>1, <3>2 DEF Reached, HangsBelow
  <2>3. p = "there"
    BY <1>4, <2>2
  <2> QED
    BY <1>7, <2>1, <2>3 DEF PathKnows
<1> QED
  BY <1>1, <1>2, <1>6, <1>8, <1>9, QuietReads

(* mgd_tree_build *)
LEMMA ListBegins ==
  ASSUME ReadInv, TreeInv', NEW s \in Session, NEW root \in Roots, NEW max \in Nat, List(s, root, max)
  PROVE  ReadInv'
PROOF
<1>1. PICK c : c = [op |-> "list", root |-> root, max |-> max, levels |-> << >>, pc |-> "level"]
  OBVIOUS
<1>2. call' = [call EXCEPT ![s] = c] /\ late' = late \ {s} /\ row' = row
  BY <1>1 DEF List, Begin
<1>3. << >> \in Seq(Level)
  OBVIOUS
<1>4. c \in ListCall
  BY <1>1, <1>3 DEF ListCall
<1>5. c.levels = << >> /\ c.max \in Nat /\ c.pc = "level" /\ Len(c.levels) = 0
  BY <1>1
<1>6. ListKnows(c)
  BY <1>5 DEF ListKnows
<1> QED
  BY <1>2, <1>4, <1>6, QuietReads

LEMMA BelowStep ==
  ASSUME NEW i \in RowId, NEW r, NEW n \in Nat
  PROVE  Below(i, r, n + 1) <=> Live(i) /\ Below(LinkOf(i), r, n)
PROOF
<1>1. Ancestor(i, 0) = i /\ \A k \in Nat : Ancestor(i, k + 1) = Ancestor(LinkOf(i), k)
  BY AncestorIs, OneUp
<1>2. ASSUME Below(i, r, n + 1) PROVE Live(i) /\ Below(LinkOf(i), r, n)
  <2>1. \A k \in 0..((n + 1) - 1) : Ancestor(i, k) \in RowId /\ Live(Ancestor(i, k))
    BY <1>2 DEF Below
  <2>2. Live(i)
    <3>1. 0 \in 0..((n + 1) - 1)
      OBVIOUS
    <3> QED
      BY <1>1, <2>1, <3>1
  <2>3. ASSUME NEW k \in 0..(n - 1) PROVE Ancestor(LinkOf(i), k) \in RowId /\ Live(Ancestor(LinkOf(i), k))
    <3>1. k + 1 \in 0..((n + 1) - 1) /\ k \in Nat
      OBVIOUS
    <3> QED
      BY <1>1, <2>1, <3>1
  <2> QED
    BY <1>1, <1>2, <2>2, <2>3 DEF Below
<1>3. ASSUME Live(i), Below(LinkOf(i), r, n) PROVE Below(i, r, n + 1)
  <2>1. ASSUME NEW k \in 0..((n + 1) - 1) PROVE Ancestor(i, k) \in RowId /\ Live(Ancestor(i, k))
    <3>1. CASE k = 0
      BY <1>1, <1>3, <3>1
    <3>2. CASE k # 0
      <4>1. k - 1 \in 0..(n - 1) /\ k - 1 \in Nat /\ k = (k - 1) + 1
        BY <3>2
      <4>2. Ancestor(i, k) = Ancestor(LinkOf(i), k - 1)
        BY <1>1, <4>1
      <4> QED
        BY <1>3, <4>1, <4>2 DEF Below
    <3> QED
      BY <3>1, <3>2
  <2> QED
    BY <1>1, <1>3, <2>1 DEF Below
<1> QED
  BY <1>2, <1>3

(* The SELECT of a level finds what is one link further down. *)
LEMMA NextLevelIs ==
  ASSUME TreeInv, NEW levels \in Seq(Level), NEW root,
         \A n \in 1..Len(levels) : levels[n] = LevelIs(root, n)
  PROVE  NextLevel(levels, root) = LevelIs(root, Len(levels) + 1)
PROOF
<1>1. PICK n \in Nat : n = Len(levels)
  OBVIOUS
<1>2. PICK above : above = IF levels = << >> THEN {root} ELSE {m.id : m \in Last(levels)}
  OBVIOUS
<1>3. ASSUME NEW i \in RowId PROVE Live(i) /\ row[i].up \in above <=> Below(i, root, n + 1)
  <2>1. Live(i) => LinkOf(i) = row[i].up /\ row[i].up \in Link
    BY LinkIs DEF Live
  <2>2. CASE n = 0
    <3>1. above = {root}
      <4>1. levels = << >>
        BY <1>1, <2>2, EmptySeq
      <4> QED
        BY <1>2, <4>1
    <3>2. Below(LinkOf(i), root, 0) <=> LinkOf(i) = root
      BY AncestorIs DEF Below
    <3> QED
      BY <2>1, <2>2, <3>1, <3>2, BelowStep
  <2>3. CASE n # 0
    <3>1. levels # << >> /\ Last(levels) = LevelIs(root, n)
      BY <1>1, <2>3 DEF Last
    <3>2. above = {m.id : m \in LevelIs(root, n)}
      BY <1>2, <3>1
    <3>3. \A j : j \in above <=> j \in RowId /\ Below(j, root, n)
      <4>1. \A j : j \in above <=> \E m \in LevelIs(root, n) : m.id = j
        BY <3>2
      <4>2. \A m : m \in LevelIs(root, n) <=> \E j \in RowId : Below(j, root, n) /\ m = [id |-> j, up |-> row[j].up]
        BY DEF LevelIs
      <4>3. ASSUME NEW j \in above PROVE j \in RowId /\ Below(j, root, n)
        <5>1. PICK m \in LevelIs(root, n) : m.id = j
          BY <4>1
        <5>2. PICK k \in RowId : Below(k, root, n) /\ m = [id |-> k, up |-> row[k].up]
          BY <4>2
        <5> QED
          BY <5>1, <5>2
      <4>4. ASSUME NEW j \in RowId, Below(j, root, n) PROVE j \in above
        <5>1. PICK m : m = [id |-> j, up |-> row[j].up]
          OBVIOUS
        <5>2. m \in LevelIs(root, n) /\ m.id = j
          BY <4>2, <4>4, <5>1
        <5> QED
          BY <4>1, <5>2
      <4> QED
        BY <4>3, <4>4
    <3>4. Below(LinkOf(i), root, n) => LinkOf(i) \in RowId
      <4>1. 0 \in 0..(n - 1) /\ Ancestor(LinkOf(i), 0) = LinkOf(i)
        BY <2>3, AncestorIs
      <4> QED
        BY <4>1 DEF Below
    <3> QED
      BY <2>1, <3>3, <3>4, BelowStep
  <2> QED
    BY <2>2, <2>3
<1>4. {k \in RowId : Live(k) /\ row[k].up \in above} = {j \in RowId : Below(j, root, n + 1)}
  BY <1>3
<1>5. NextLevel(levels, root) = {[id |-> i, up |-> row[i].up] : i \in {k \in RowId : Live(k) /\ row[k].up \in above}}
  BY <1>2 DEF NextLevel
<1> QED
  BY <1>1, <1>4, <1>5 DEF LevelIs

LEMMA ListGoesOn == ASSUME ReadInv, TreeInv', NEW s \in Session, ListLevel(s) PROVE ReadInv'
PROOF
<1>1. In(s, "level") /\ UNCHANGED <<row, nextId>> /\ TreeInv /\ ReaderOK(s)
  BY DEF ListLevel, ReadInv
<1>2. PICK c \in ListCall : c = call[s] /\ c.pc = "level" /\ (s \notin late => ListKnows(c))
  BY <1>1 DEF ReaderOK, In
<1>3. call \in [Session -> {call[t] : t \in Session}]
  BY <1>1 DEF TreeInv, TypeOK
<1>4. PICK next : next = NextLevel(c.levels, c.root)
  OBVIOUS
<1>5. c.levels \in Seq(Level) /\ Len(c.levels) \in Nat /\ c.max \in Nat
  BY DEF ListCall
<1>6. ListKnows(c) => next = LevelIs(c.root, Len(c.levels) + 1)
  BY <1>1, <1>4, <1>5, NextLevelIs DEF ListKnows
<1>7. CASE (next = {} \/ (c.max # 0 /\ Len(c.levels) = c.max)) /\ Goto(s, "listed")
  <2>1. PICK d : d = [c EXCEPT !.pc = "listed"]
    OBVIOUS
  <2>2. d \in ListCall
    BY <2>1 DEF ListCall
  <2>3. d.pc = "listed" /\ d.root = c.root /\ d.max = c.max /\ d.levels = c.levels
    BY <2>1, <2>2 DEF ListCall
  <2>4. call' = [call EXCEPT ![s] = d] /\ late' = late
    BY <1>2, <1>3, <1>7, <2>1 DEF Goto
  <2>5. ListKnows(c) => ListKnows(d)
    BY <1>6, <1>7, <2>3 DEF ListKnows
  <2> QED
    BY <1>1, <1>2, <2>2, <2>4, <2>5, QuietReads
<1>8. CASE /\ Len(c.levels) < (IF c.max = 0 THEN MaxDepth ELSE c.max)
           /\ call' = [call EXCEPT ![s].levels = Append(@, next)]
           /\ UNCHANGED late
  <2>1. next \in Level
    <3>1. PICK above : next = {[id |-> i, up |-> row[i].up] : i \in {k \in RowId : Live(k) /\ row[k].up \in above}}
      BY <1>4 DEF NextLevel
    <3>2. \A k \in RowId : Live(k) => row[k].up \in Link
      BY <1>1, LinkIs DEF Live
    <3> QED
      BY <3>1, <3>2 DEF Level
  <2>2. PICK levels \in Seq(Level) : levels = Append(c.levels, next)
    BY <1>5, <2>1, AppendProperties
  <2>3. PICK d : d = [c EXCEPT !.levels = levels]
    OBVIOUS
  <2>4. d \in ListCall
    BY <2>2, <2>3 DEF ListCall
  <2>5. d.pc = "level" /\ d.root = c.root /\ d.max = c.max /\ d.levels = levels
    BY <1>2, <2>2, <2>3, <2>4 DEF ListCall
  <2>6. call' = [call EXCEPT ![s] = d] /\ late' = late
    BY <1>2, <1>3, <1>8, <2>2, <2>3
  <2>7. ASSUME ListKnows(c) PROVE ListKnows(d)
    <3>1. Len(levels) = Len(c.levels) + 1
      BY <1>5, <2>1, <2>2
    <3>2. ASSUME NEW n \in 1..Len(levels) PROVE levels[n] = LevelIs(c.root, n)
      <4>1. CASE n = Len(c.levels) + 1
        BY <1>5, <1>6, <2>1, <2>2, <2>7, <4>1
      <4>2. CASE n \in 1..Len(c.levels)
        <5>1. levels[n] = c.levels[n]
          BY <1>5, <2>1, <2>2, <4>2
        <5> QED
          BY <2>7, <4>2, <5>1 DEF ListKnows
      <4> QED
        BY <1>5, <3>1, <4>1, <4>2
    <3>3. c.max # 0 => Len(levels) <= c.max
      BY <1>5, <1>8, <3>1
    <3> QED
      BY <2>5, <3>2, <3>3 DEF ListKnows
  <2> QED
    BY <1>1, <1>2, <2>4, <2>6, <2>7, QuietReads
<1> QED
  BY <1>2, <1>4, <1>7, <1>8 DEF ListLevel

LEMMA ReadInit == Init => ReadInv
PROOF
<1>1. ASSUME Init, NEW s \in Session PROVE ReaderOK(s)
  BY <1>1 DEF Init, ReaderOK, In
<1> QED
  BY <1>1, TreeInit DEF ReadInv

LEMMA ReadStep == ReadInv /\ [Next]_vars => ReadInv'
PROOF
<1> SUFFICES ASSUME ReadInv, [Next]_vars PROVE ReadInv'
  OBVIOUS
<1>1. TreeInv /\ TreeInv'
  BY TreeStep DEF ReadInv
<1>2. ASSUME UNCHANGED vars PROVE ReadInv'
  <2>1. row' = row /\ call' = call /\ late' = late
    BY <1>2 DEF vars
  <2>2. ASSUME NEW t \in Session PROVE ReaderOK(t)'
    <3>1. PICK c : c = call[t]
      OBVIOUS
    <3>2. ReaderOK(t) /\ call'[t] = c /\ (t \in late' <=> t \in late)
      BY <2>1, <3>1 DEF ReadInv
    <3>3. /\ WalkKnows(c) => WalkKnows(call[t])'
          /\ PathKnows(c) => PathKnows(call[t])'
          /\ ListKnows(c) => ListKnows(call[t])'
      <4>1. /\ WalkKnows(c) => WalkKnows(c)'
            /\ PathKnows(c) => PathKnows(c)'
            /\ ListKnows(c) => ListKnows(c)'
        BY <2>1, KnowsStays
      <4> QED
        BY <3>2, <4>1 DEF WalkKnows, PathKnows, ListKnows
    <3> QED
      BY <3>1, <3>2, <3>3 DEF ReaderOK, In
  <2> QED
    BY <1>1, <2>2 DEF ReadInv
<1>3. ASSUME NEW s \in Session, NEW c, Create(s, c) PROVE ReadInv'
  <2>1. PICK d : d = [op |-> "create", id |-> 0, content |-> c, pc |-> "write"]
    OBVIOUS
  <2>2. d.pc = "write" /\ call' = [call EXCEPT ![s] = d] /\ late' = late \ {s} /\ row' = row
    BY <1>3, <2>1 DEF Create, Begin
  <2> QED
    BY <1>1, <2>2, QuietReads
<1>4. ASSUME NEW s \in Session, NEW i, NEW c, Update(s, i, c) PROVE ReadInv'
  <2>1. PICK d : d = [op |-> "update", id |-> i, content |-> c, pc |-> "name"]
    OBVIOUS
  <2>2. d.pc = "name" /\ call' = [call EXCEPT ![s] = d] /\ late' = late \ {s} /\ row' = row
    BY <1>4, <2>1 DEF Update, Begin
  <2> QED
    BY <1>1, <2>2, QuietReads
<1>5. ASSUME NEW s \in Session, UpdateName(s) PROVE ReadInv'
  <2>1. call[s] # Idle /\ call[s].pc = "name" /\ CallOK(s) /\ row' = row
    BY <1>1, <1>5 DEF UpdateName, In, TreeInv, TypeOK
  <2>2. call[s] \in Pending
    BY <2>1 DEF CallOK, Reading
  <2>3. PICK c : c = call[s]
    OBVIOUS
  <2>4. CASE Return(s) /\ late' = late \ {s}
    BY <1>1, <2>1, <2>4, QuietReads DEF Return
  <2>5. CASE Goto(s, "write")
    <3>1. PICK d : d = [c EXCEPT !.pc = "write"]
      OBVIOUS
    <3>2. d.pc = "write"
      BY <2>2, <2>3, <3>1 DEF Pending
    <3>3. call' = [call EXCEPT ![s] = d] /\ late' = late
      BY <1>1, <2>3, <2>5, <3>1 DEF Goto, TreeInv, TypeOK
    <3> QED
      BY <1>1, <2>1, <3>2, <3>3, QuietReads
  <2> QED
    BY <1>5, <2>4, <2>5 DEF UpdateName
<1>6. ASSUME NEW s \in Session, InsertRow(s) \/ UpdateRow(s) PROVE ReadInv'
  BY <1>1, <1>6, WriteReads DEF InsertRow, UpdateRow
<1>7. ASSUME NEW s \in Session, End(s) PROVE ReadInv'
  BY <1>1, <1>7, QuietReads DEF End, Return
<1>8. ASSUME NEW s \in Session, NEW i \in RowId, Delete(s, i) \/ Undelete(s, i) \/ Purge(s, i)
      PROVE  ReadInv'
  BY <1>1, <1>8, WriteReads DEF Delete, Undelete, SetDeleted, Purge
<1>9. ASSUME NEW s \in Session, NEW root \in Roots,
             (\E max \in Depths : List(s, root, max)) \/ ListChildren(s, root)
      PROVE  ReadInv'
  <2>1. PICK max \in Nat : List(s, root, max)
    BY <1>9 DEF ListChildren
  <2> QED
    BY <1>1, <2>1, ListBegins
<1>10. ASSUME NEW s \in Session, NEW root \in Roots, NEW i \in RowId, IsInTree(s, root, i) PROVE ReadInv'
  BY <1>1, <1>10, WalkBegins
<1>11. ASSUME NEW s \in Session, NEW path \in Paths, FindByPath(s, path) PROVE ReadInv'
  BY <1>1, <1>11, PathBegins
<1>12. ASSUME NEW s \in Session, ListLevel(s) \/ WalkUp(s) \/ PathElement(s) \/ PathFetch(s) PROVE ReadInv'
  BY <1>1, <1>12, ListGoesOn, WalkUpReads, PathGoesOn, PathEnds
<1> QED
  BY <1>2, <1>3, <1>4, <1>5, <1>6, <1>7, <1>8, <1>9, <1>10, <1>11, <1>12 DEF Next

(* Whatever the sessions do, what a reader knows after each of its queries - the  *)
(* levels it has listed, how far up it has walked, the object its path has led to *)
(* - is what the table holds, unless somebody wrote in between.                   *)
THEOREM ReadsHold == Spec => []ReadInv
PROOF
  BY ReadInit, ReadStep, PTL DEF Spec

(* When mgd_is_in_tree ends and nobody wrote since the walk began, it has found   *)
(* whether the root is among the object's ancestors, deleted ones included. (On a *)
(* cycle the root is not on, its loop does not end.)                              *)
THEOREM WalksHold == Spec => []WalksAreExact
PROOF
<1>1. ReadInv => WalksAreExact
  <2>1. SUFFICES ASSUME ReadInv, NEW s \in Session, s \notin late
                 PROVE  /\ In(s, "missed") => ~ \E n \in 0..MaxRow : Ancestor(call[s].from, n) = call[s].root
                        /\ In(s, "found") => Ancestor(call[s].from, call[s].level) = call[s].root
    BY DEF WalksAreExact
  <2>2. ReaderOK(s)
    BY <2>1 DEF ReadInv
  <2> QED
    BY <2>1, <2>2 DEF ReaderOK, WalkKnows, In
<1> QED
  BY <1>1, ReadsHold, PTL

(* midgard_object_get_by_path returns an object whose ancestors bear the names of *)
(* the path, and fails only if there is none or two siblings share a name, when   *)
(* nobody wrote since it began.                                                   *)
THEOREM PathsHold == Spec => []PathsAreExact
PROOF
<1>1. ReadInv => PathsAreExact
  <2>1. SUFFICES ASSUME ReadInv, NEW s \in Session, s \notin late
                 PROVE  /\ In(s, "there") => IsAt(call[s].id, call[s].path)
                        /\ In(s, "nowhere") =>
                             \A i \in RowId : IsAt(i, call[s].path) => Ambiguous(i, Len(call[s].path))
    BY DEF PathsAreExact
  <2>2. ReaderOK(s)
    BY <2>1 DEF ReadInv
  <2> QED
    BY <2>1, <2>2 DEF ReaderOK, PathKnows, Reached, IsAt, In
<1> QED
  BY <1>1, ReadsHold, PTL

-----------------------------------------------------------------------------
(* A finished listing.  First the ways up from what is below its root. *)
LEMMA UpFurther ==
  ASSUME NEW i, NEW m \in Nat, NEW n \in Nat
  PROVE  Ancestor(Ancestor(i, m), n) = Ancestor(i, m + n)
PROOF
<1> DEFINE bad == {k \in Nat : Ancestor(Ancestor(i, m), k) # Ancestor(i, m + k)}
<1>1. SUFFICES ASSUME bad # {} PROVE FALSE
  OBVIOUS
<1>2. PICK k \in bad : \A l \in bad : k <= l
  BY <1>1, LeastOf
<1>3. CASE k = 0
  <2>1. Ancestor(Ancestor(i, m), 0) = Ancestor(i, m) /\ m + 0 = m
    BY AncestorIs
  <2> QED
    BY <1>2, <1>3, <2>1
<1>4. CASE k # 0
  <2>1. PICK l \in Nat : k = l + 1 /\ l \notin bad
    <3>1. k - 1 \in Nat /\ k = (k - 1) + 1 /\ k - 1 \notin bad
      BY <1>2, <1>4
    <3> QED
      BY <3>1
  <2>2. Ancestor(Ancestor(i, m), l) = Ancestor(i, m + l)
    BY <2>1
  <2>3. Ancestor(Ancestor(i, m), l + 1) = LinkOf(Ancestor(Ancestor(i, m), l))
    BY AncestorIs
  <2>4. Ancestor(i, (m + l) + 1) = LinkOf(Ancestor(i, m + l)) /\ (m + l) + 1 = m + k
    BY <2>1, AncestorIs
  <2> QED
    BY <1>2, <2>1, <2>2, <2>3, <2>4
<1> QED
  BY <1>3, <1>4

(* An object that is not among its MaxRow next ancestors is none of them. *)
LEMMA NeverBack ==
  ASSUME NEW r \in Link, ~OnCycle(r), NEW n \in Nat, n >= 1
  PROVE  Ancestor(r, n) # r
PROOF
<1>1. CASE r = 0
  <2>1. Ancestor(r, 0) = r /\ LinkOf(r) = -1
    BY <1>1, AncestorIs DEF LinkOf, RowId
  <2>2. Ancestor(r, n) = -1
    BY <2>1, EndOfLinks
  <2> QED
    BY <1>1, <2>2
<1>2. CASE r # 0
  <2>1. r \in RowId /\ MaxRow - 1 \in Nat
    BY <1>2 DEF Link, RowId
  <2>2. \A m \in 1..MaxRow : Ancestor(r, m) # r
    BY <1>2 DEF OnCycle
  <2>3. PICK i : i = LinkOf(r)
    OBVIOUS
  <2>4. \A k \in Nat : Ancestor(r, k + 1) = Ancestor(i, k)
    BY <2>3, OneUp
  <2>5. PICK m \in Nat : n = m + 1
    <3>1. n - 1 \in Nat /\ n = (n - 1) + 1
      OBVIOUS
    <3> QED
      BY <3>1
  <2>6. CASE \E k \in 0..(MaxRow - 1) : Ancestor(i, k) \notin RowId
    <3>1. PICK k \in 0..(MaxRow - 1) : Ancestor(i, k) \notin RowId
      BY <2>6
    <3>2. LinkOf(Ancestor(i, k)) = -1 /\ k \in Nat
      BY <3>1 DEF LinkOf
    <3>3. CASE m > k
      <4>1. Ancestor(i, m) = -1
        BY <3>2, <3>3, EndOfLinks
      <4> QED
        BY <2>1, <2>4, <2>5, <4>1 DEF RowId
    <3>4. CASE m <= k
      <4>1. m + 1 \in 1..MaxRow
        BY <2>1, <3>4
      <4> QED
        BY <2>2, <2>5, <4>1
    <3> QED
      BY <3>2, <3>3, <3>4
  <2>7. CASE \A k \in 0..(MaxRow - 1) : Ancestor(i, k) \in RowId
    <3>1. PICK S : S = RowId \ {r}
      OBVIOUS
    <3>2. IsFiniteSet(RowId) /\ Cardinality(RowId) = MaxRow
      BY FS_Interval DEF RowId
    <3>3. IsFiniteSet(S) /\ Cardinality(S) = MaxRow - 1
      BY <2>1, <3>1, <3>2, FS_RemoveElement
    <3>4. ASSUME NEW k \in 0..(MaxRow - 1) PROVE Ancestor(i, k) \in S
      <4>1. k + 1 \in 1..MaxRow /\ k \in Nat
        BY <2>1
      <4>2. Ancestor(i, k) # r
        BY <2>2, <2>4, <4>1
      <4> QED
        BY <2>7, <3>1, <4>2
    <3>5. Ancestor(i, m) \in S
      BY <2>1, <3>3, <3>4, RoundTheCycle
    <3> QED
      BY <2>4, <2>5, <3>1, <3>5
  <2> QED
    BY <2>6, <2>7
<1> QED
  BY <1>1, <1>2

(* What is below something below r is below r. *)
LEMMA BelowSum ==
  ASSUME NEW x, NEW c, NEW r, NEW n \in Nat, NEW d \in Nat, Below(x, c, n), Below(c, r, d)
  PROVE  Below(x, r, n + d)
PROOF
<1>1. Ancestor(x, n) = c
  BY DEF Below
<1>2. \A k \in Nat : Ancestor(c, k) = Ancestor(x, n + k)
  BY <1>1, UpFurther
<1>3. Ancestor(x, n + d) = r
  BY <1>2 DEF Below
<1>4. ASSUME NEW k \in 0..((n + d) - 1) PROVE Ancestor(x, k) \in RowId /\ Live(Ancestor(x, k))
  <2>1. CASE k < n
    <3>1. k \in 0..(n - 1)
      BY <2>1
    <3> QED
      BY <3>1 DEF Below
  <2>2. CASE k >= n
    <3>1. PICK l \in Nat : l = k - n /\ k = n + l /\ l \in 0..(d - 1)
      BY <2>2
    <3>2. Ancestor(x, k) = Ancestor(c, l)
      BY <1>2, <3>1
    <3> QED
      BY <3>1, <3>2 DEF Below
  <2> QED
    BY <2>1, <2>2
<1> QED
  BY <1>3, <1>4 DEF Below

(* And the other way round. *)
LEMMA BelowSplit ==
  ASSUME NEW x, NEW r, NEW n \in Nat, NEW d \in Nat, Below(x, r, n + d)
  PROVE  Below(x, Ancestor(x, n), n) /\ Below(Ancestor(x, n), r, d)
PROOF
<1>1. PICK c : c = Ancestor(x, n)
  OBVIOUS
<1>2. \A k \in Nat : Ancestor(c, k) = Ancestor(x, n + k)
  BY <1>1, UpFurther
<1>3. ASSUME NEW k \in 0..(n - 1) PROVE Ancestor(x, k) \in RowId /\ Live(Ancestor(x, k))
  <2>1. k \in 0..((n + d) - 1)
    OBVIOUS
  <2> QED
    BY <2>1 DEF Below
<1>4. ASSUME NEW k \in 0..(d - 1) PROVE Ancestor(c, k) \in RowId /\ Live(Ancestor(c, k))
  <2>1. n + k \in 0..((n + d) - 1) /\ k \in Nat
    OBVIOUS
  <2> QED
    BY <1>2, <2>1 DEF Below
<1>5. Ancestor(c, d) = r
  BY <1>2 DEF Below
<1> QED
  BY <1>1, <1>3, <1>4, <1>5 DEF Below

(* Below a root that is on no cycle an object is in one level only, and in none *)
(* deeper than there are records.                                               *)
LEMMA RootAbove ==
  ASSUME NEW r \in Link, ~OnCycle(r), NEW x, NEW n \in Nat, Below(x, r, n), NEW k \in 0..(n - 1)
  PROVE  Ancestor(x, k) # r
PROOF
<1>1. n - k \in Nat /\ n - k >= 1 /\ k + (n - k) = n /\ k \in Nat
  OBVIOUS
<1>2. Ancestor(Ancestor(x, k), n - k) = Ancestor(x, n)
  BY <1>1, UpFurther
<1>3. Ancestor(x, n) = r
  BY DEF Below
<1> QED
  BY <1>1, <1>2, <1>3, NeverBack

LEMMA HangsIsBelow ==
  ASSUME NEW r \in Link, ~OnCycle(r), NEW x, NEW n \in Nat
  PROVE  HangsBelow(x, r, n) <=> Below(x, r, n)
PROOF
  BY RootAbove DEF HangsBelow, Below

LEMMA OneLevel ==
  ASSUME NEW r \in Link, ~OnCycle(r), NEW x, NEW n \in Nat, NEW m \in Nat, Below(x, r, n), Below(x, r, m)
  PROVE  n = m
PROOF
<1>1. ASSUME NEW k \in Nat, NEW l \in Nat, Below(x, r, k), Below(x, r, l), k < l PROVE FALSE
  <2>1. k \in 0..(l - 1)
    BY <1>1
  <2>2. Ancestor(x, k) = r
    BY <1>1 DEF Below
  <2> QED
    BY <1>1, <2>1, <2>2, RootAbove
<1> QED
  BY <1>1

LEMMA LevelBound ==
  ASSUME NEW r \in Link, ~OnCycle(r), NEW x, NEW n \in Nat, Below(x, r, n)
  PROVE  n <= MaxRow
PROOF
<1>1. SUFFICES ASSUME n > MaxRow PROVE FALSE
  OBVIOUS
<1>2. ASSUME NEW k \in 0..MaxRow PROVE Ancestor(x, k) \in RowId /\ Ancestor(x, k) # r
  <2>1. k \in 0..(n - 1)
    BY <1>1
  <2> QED
    BY <2>1, RootAbove DEF Below
<1>3. Ancestor(x, n) # r
  BY <1>2, NotOnTheWay
<1> QED
  BY <1>3 DEF Below

(* Below an empty level there is nothing. *)
LEMMA LevelsEnd ==
  ASSUME NEW r, NEW l \in Nat, \A j \in RowId : ~Below(j, r, l + 1),
         NEW x, NEW n \in Nat, n > l
  PROVE  ~Below(x, r, n)
PROOF
<1>1. SUFFICES ASSUME Below(x, r, n) PROVE FALSE
  OBVIOUS
<1>2. PICK m \in Nat : m = n - (l + 1) /\ n = m + (l + 1) /\ m \in 0..(n - 1)
  OBVIOUS
<1>3. Below(Ancestor(x, m), r, l + 1)
  BY <1>1, <1>2, BelowSplit
<1>4. Ancestor(x, m) \in RowId
  BY <1>1, <1>2 DEF Below
<1> QED
  BY <1>3, <1>4

(* A sequence of objects that lists a set of them below i: each once, and each *)
(* either directly below i or after the one it hangs below.                    *)
Forest(s, i, S) ==
  /\ s \in Seq(RowId)
  /\ \A a \in 1..Len(s) : s[a] \in S
  /\ \A x \in S : \E a \in 1..Len(s) : s[a] = x
  /\ \A a, b \in 1..Len(s) : s[a] = s[b] => a = b
  /\ \A a \in 1..Len(s) : row[s[a]].up = i \/ \E b \in 1..(a - 1) : s[b] = row[s[a]].up

LEMMA NoForest == ASSUME NEW i PROVE Forest(<< >>, i, {})
PROOF
<1>1. << >> \in Seq(RowId) /\ Len(<< >>) = 0
  BY EmptySeq
<1> QED
  BY <1>1 DEF Forest

LEMMA ForestJoin ==
  ASSUME NEW i, NEW s, NEW S, NEW t, NEW T, Forest(s, i, S), Forest(t, i, T), S \cap T = {}
  PROVE  Forest(s \o t, i, S \cup T)
PROOF
<1>1. s \in Seq(RowId) /\ t \in Seq(RowId)
  BY DEF Forest
<1>2. PICK m \in Nat, n \in Nat : m = Len(s) /\ n = Len(t)
  BY <1>1, LenProperties
<1>3. PICK u : u = s \o t
  OBVIOUS
<1>4. /\ u \in Seq(RowId) /\ Len(u) = m + n
      /\ \A a \in 1..(m + n) : u[a] = IF a <= m THEN s[a] ELSE t[a - m]
  BY <1>1, <1>2, <1>3, ConcatProperties
<1>5. \A a \in 1..m : u[a] = s[a] /\ u[a] \in S
  BY <1>2, <1>4 DEF Forest
<1>6. \A a \in 1..n : u[m + a] = t[a] /\ u[m + a] \in T /\ m + a \in 1..(m + n)
  <2>1. SUFFICES ASSUME NEW a \in 1..n PROVE u[m + a] = t[a] /\ u[m + a] \in T /\ m + a \in 1..(m + n)
    OBVIOUS
  <2>2. m + a \in 1..(m + n) /\ ~ (m + a <= m) /\ (m + a) - m = a
    OBVIOUS
  <2>3. u[m + a] = t[a]
    BY <1>4, <2>2
  <2>4. t[a] \in T
    BY <1>2 DEF Forest
  <2> QED
    BY <2>2, <2>3, <2>4
<1>7. \A a \in 1..(m + n) : a \in 1..m \/ \E b \in 1..n : a = m + b
  <2>1. SUFFICES ASSUME NEW a \in 1..(m + n), a \notin 1..m PROVE \E b \in 1..n : a = m + b
    OBVIOUS
  <2>2. a - m \in 1..n /\ a = m + (a - m)
    BY <2>1
  <2> QED
    BY <2>2
<1>8. \A a \in 1..(m + n) : u[a] \in S \cup T
  BY <1>5, <1>6, <1>7
<1>9. ASSUME NEW x \in S \cup T PROVE \E a \in 1..(m + n) : u[a] = x
  <2>1. CASE x \in S
    <3>1. PICK a \in 1..m : s[a] = x
      BY <1>2, <2>1 DEF Forest
    <3>2. a \in 1..(m + n)
      OBVIOUS
    <3> QED
      BY <1>5, <3>1, <3>2
  <2>2. CASE x \in T
    <3>1. PICK a \in 1..n : t[a] = x
      BY <1>2, <2>2 DEF Forest
    <3> QED
      BY <1>6, <3>1
  <2> QED
    BY <2>1, <2>2
<1>10. ASSUME NEW a \in 1..(m + n), NEW b \in 1..(m + n), u[a] = u[b] PROVE a = b
  <2>1. CASE a \in 1..m /\ b \in 1..m
    BY <1>2, <1>5, <1>10, <2>1 DEF Forest
  <2>2. ASSUME NEW c \in 1..n, NEW d \in 1..n, a = m + c, b = m + d PROVE a = b
    <3>1. t[c] = t[d]
      BY <1>6, <1>10, <2>2
    <3> QED
      BY <1>2, <2>2, <3>1 DEF Forest
  <2>3. ASSUME NEW c \in 1..m, NEW d \in 1..n, u[c] = u[m + d] PROVE FALSE
    BY <1>5, <1>6, <2>3
  <2> QED
    BY <1>7, <1>10, <2>1, <2>2, <2>3
<1>11. ASSUME NEW a \in 1..(m + n)
       PROVE  row[u[a]].up = i \/ \E b \in 1..(a - 1) : u[b] = row[u[a]].up
  <2>1. CASE a \in 1..m
    <3>1. row[s[a]].up = i \/ \E b \in 1..(a - 1) : s[b] = row[s[a]].up
      BY <1>2, <2>1 DEF Forest
    <3>2. \A b \in 1..(a - 1) : b \in 1..m
      BY <2>1
    <3> QED
      BY <1>5, <2>1, <3>1, <3>2
  <2>2. ASSUME NEW c \in 1..n, a = m + c
        PROVE  row[u[a]].up = i \/ \E b \in 1..(a - 1) : u[b] = row[u[a]].up
    <3>1. row[t[c]].up = i \/ \E b \in 1..(c - 1) : t[b] = row[t[c]].up
      BY <1>2 DEF Forest
    <3>2. ASSUME NEW b \in 1..(c - 1) PROVE u[m + b] = t[b] /\ m + b \in 1..(a - 1)
      <4>1. b \in 1..n /\ m + b \in 1..(a - 1)
        BY <2>2
      <4> QED
        BY <1>6, <4>1
    <3>3. u[a] = t[c]
      BY <1>6, <2>2
    <3> QED
      BY <3>1, <3>2, <3>3
  <2> QED
    BY <1>7, <2>1, <2>2
<1>12. Forest(u, i, S \cup T)
  BY <1>4, <1>8, <1>9, <1>10, <1>11 DEF Forest
<1> QED
  BY <1>3, <1>12

(* An object and then what is listed below it. *)
LEMMA ForestRoot ==
  ASSUME NEW i, NEW c \in RowId, row[c].up = i, NEW t, NEW T, Forest(t, c, T), c \notin T
  PROVE  Forest(<<c>> \o t, i, {c} \cup T)
PROOF
<1>1. t \in Seq(RowId)
  BY DEF Forest
<1>2. PICK n \in Nat : n = Len(t)
  BY <1>1, LenProperties
<1>3. PICK h : h = <<c>>
  OBVIOUS
<1>4. h \in Seq(RowId) /\ Len(h) = 1 /\ h[1] = c
  BY <1>3
<1>5. PICK u : u = h \o t
  OBVIOUS
<1>6. /\ u \in Seq(RowId) /\ Len(u) = 1 + n
      /\ \A a \in 1..(1 + n) : u[a] = IF a <= 1 THEN h[a] ELSE t[a - 1]
  <2>1. /\ u \in Seq(RowId) /\ Len(u) = Len(h) + Len(t)
        /\ \A a \in 1..(Len(h) + Len(t)) : u[a] = IF a <= Len(h) THEN h[a] ELSE t[a - Len(h)]
    BY <1>1, <1>4, <1>5, ConcatProperties
  <2> QED
    BY <1>2, <1>4, <2>1
<1>7. u[1] = c /\ 1 \in 1..(1 + n)
  BY <1>4, <1>6
<1>8. \A a \in 1..n : u[1 + a] = t[a] /\ u[1 + a] \in T /\ 1 + a \in 1..(1 + n)
  <2>1. SUFFICES ASSUME NEW a \in 1..n PROVE u[1 + a] = t[a] /\ u[1 + a] \in T /\ 1 + a \in 1..(1 + n)
    OBVIOUS
  <2>2. 1 + a \in 1..(1 + n) /\ ~ (1 + a <= 1) /\ (1 + a) - 1 = a
    OBVIOUS
  <2> QED
    BY <1>2, <1>6, <2>2 DEF Forest
<1>9. \A a \in 1..(1 + n) : a = 1 \/ \E b \in 1..n : a = 1 + b
  <2>1. SUFFICES ASSUME NEW a \in 1..(1 + n), a # 1 PROVE \E b \in 1..n : a = 1 + b
    OBVIOUS
  <2>2. a - 1 \in 1..n /\ a = 1 + (a - 1)
    BY <2>1
  <2> QED
    BY <2>2
<1>10. \A a \in 1..(1 + n) : u[a] \in {c} \cup T
  BY <1>7, <1>8, <1>9
<1>11. ASSUME NEW x \in {c} \cup T PROVE \E a \in 1..(1 + n) : u[a] = x
  <2>1. CASE x = c
    BY <1>7, <2>1
  <2>2. CASE x \in T
    <3>1. PICK a \in 1..n : t[a] = x
      BY <1>2, <2>2 DEF Forest
    <3> QED
      BY <1>8, <3>1
  <2> QED
    BY <2>1, <2>2
<1>12. ASSUME NEW a \in 1..(1 + n), NEW b \in 1..(1 + n), u[a] = u[b] PROVE a = b
  <2>1. ASSUME NEW e \in 1..n, NEW d \in 1..n, a = 1 + e, b = 1 + d PROVE a = b
    <3>1. t[e] = t[d]
      BY <1>8, <1>12, <2>1
    <3> QED
      BY <1>2, <2>1, <3>1 DEF Forest
  <2>2. ASSUME NEW d \in 1..n, u[1] = u[1 + d] PROVE FALSE
    BY <1>7, <1>8, <2>2
  <2> QED
    BY <1>9, <1>12, <2>1, <2>2
<1>13. ASSUME NEW a \in 1..(1 + n)
       PROVE  row[u[a]].up = i \/ \E b \in 1..(a - 1) : u[b] = row[u[a]].up
  <2>1. CASE a = 1
    BY <1>7, <2>1
  <2>2. ASSUME NEW d \in 1..n, a = 1 + d
        PROVE  row[u[a]].up = i \/ \E b \in 1..(a - 1) : u[b] = row[u[a]].up
    <3>1. row[t[d]].up = c \/ \E b \in 1..(d - 1) : t[b] = row[t[d]].up
      BY <1>2 DEF Forest
    <3>2. ASSUME NEW b \in 1..(d - 1) PROVE u[1 + b] = t[b] /\ 1 + b \in 1..(a - 1)
      <4>1. b \in 1..n /\ 1 + b \in 1..(a - 1)
        BY <2>2
      <4> QED
        BY <1>8, <4>1
    <3>3. u[a] = t[d]
      BY <1>8, <2>2
    <3>4. u[1] = c /\ 1 \in 1..(a - 1)
      BY <1>7, <2>2
    <3> QED
      BY <3>1, <3>2, <3>3, <3>4
  <2> QED
    BY <1>9, <2>1, <2>2
<1>14. Forest(u, i, {c} \cup T)
  BY <1>6, <1>10, <1>11, <1>12, <1>13 DEF Forest
<1> QED
  BY <1>3, <1>5, <1>14

(* Several such sequences one after the other: mgd_tree_get_ids over siblings. *)
UpTo(T, q) == UNION {T[a] : a \in 1..q}

LEMMA ForestFlatten ==
  ASSUME NEW i, NEW q \in Nat, NEW ss \in Seq(Seq(RowId)), Len(ss) = q, NEW T,
         \A a \in 1..q : Forest(ss[a], i, T[a]),
         \A a, b \in 1..q : a # b => T[a] \cap T[b] = {}
  PROVE  Forest(FlattenSeq(ss), i, UpTo(T, q))
PROOF
<1>1. CASE q = 0
  <2>1. ss = << >> /\ FlattenSeq(ss) = ss
    BY <1>1, EmptySeq DEF FlattenSeq
  <2>2. UpTo(T, q) = {}
    BY <1>1 DEF UpTo
  <2> QED
    BY <2>1, <2>2, NoForest
<1>2. CASE q # 0
  <2>1. PICK f : IsFlat(f, ss, q) /\ FlattenSeq(ss) = f[q]
    BY <1>2, FlatIs
  <2> DEFINE bad == {m \in Nat : m \in 1..q /\ ~Forest(f[m], i, UpTo(T, m))}
  <2>2. bad = {}
    <3>1. SUFFICES ASSUME bad # {} PROVE FALSE
      OBVIOUS
    <3>2. PICK m \in bad : \A k \in bad : m <= k
      BY <3>1, LeastOf
    <3>3. f[m] = IF m = 1 THEN ss[m] ELSE f[m - 1] \o ss[m]
      BY <2>1, <3>2 DEF IsFlat
    <3>4. CASE m = 1
      <4>1. UpTo(T, m) = T[m]
        BY <3>4 DEF UpTo
      <4> QED
        BY <3>2, <3>3, <3>4, <4>1
    <3>5. CASE m # 1
      <4>1. m - 1 \in 1..q /\ m - 1 \in Nat /\ m - 1 \notin bad /\ m \in 1..q
        <5>1. m \in Nat /\ m \in 1..q /\ m - 1 \in 1..q /\ m - 1 \in Nat /\ ~ (m <= m - 1)
          BY <3>2, <3>5
        <5> QED
          BY <3>2, <5>1
      <4>2. PICK S : S = UpTo(T, m - 1)
        OBVIOUS
      <4>3. Forest(f[m - 1], i, S) /\ Forest(ss[m], i, T[m])
        BY <4>1, <4>2
      <4>4. S \cap T[m] = {}
        <5>1. \A a \in 1..(m - 1) : a \in 1..q /\ a # m
          BY <4>1
        <5> QED
          BY <4>1, <4>2, <5>1 DEF UpTo
      <4>5. Forest(f[m - 1] \o ss[m], i, S \cup T[m])
        BY <4>3, <4>4, ForestJoin
      <4>6. UpTo(T, m) = S \cup T[m]
        <5>1. \A a : a \in 1..m <=> a \in 1..(m - 1) \/ a = m
          BY <4>1
        <5> QED
          BY <4>2, <5>1 DEF UpTo
      <4> QED
        BY <3>2, <3>3, <3>5, <4>5, <4>6
    <3> QED
      BY <3>4, <3>5
  <2>3. q \in 1..q
    BY <1>2
  <2> QED
    BY <2>1, <2>2, <2>3
<1> QED
  BY <1>1, <1>2

(* mgd_tree_get_ids: each node and what is below it. *)
ChildrenAt(levels, h, i) == InOrder({n.id : n \in {m \in levels[Len(levels) - h + 1] : m.up = i}})

Subtree(levels, f, h, i) ==
  IF h = 0 THEN <<i>>
  ELSE <<i>> \o FlattenSeq([j \in DOMAIN ChildrenAt(levels, h, i) |-> f[h - 1][ChildrenAt(levels, h, i)[j]]])

IsIds(f, levels, n) == f = [h \in 0..n |-> [i \in Link |-> Subtree(levels, f, h, i)]]

LEMMA IdsExist == ASSUME NEW levels, NEW n \in Nat PROVE \E f : IsIds(f, levels, n)
PROOF
<1> DEFINE bad == {m \in Nat : ~ \E f : IsIds(f, levels, m)}
<1>1. SUFFICES ASSUME bad # {} PROVE FALSE
  OBVIOUS
<1>2. PICK m \in bad : \A k \in bad : m <= k
  BY <1>1, LeastOf
<1>3. CASE m = 0
  <2>1. PICK f : f = [h \in 0..0 |-> [i \in Link |-> Subtree(levels, levels, 0, i)]]
    OBVIOUS
  <2>2. \A i : Subtree(levels, levels, 0, i) = Subtree(levels, f, 0, i)
    BY DEF Subtree
  <2>3. f = [h \in 0..0 |-> [i \in Link |-> Subtree(levels, f, h, i)]]
    BY <2>1, <2>2
  <2> QED
    BY <1>2, <1>3, <2>3 DEF IsIds
<1>4. CASE m # 0
  <2>1. m - 1 \in Nat /\ m - 1 \notin bad
    BY <1>2, <1>4
  <2>2. PICK f : IsIds(f, levels, m - 1)
    BY <2>1
  <2>3. PICK g : g = [h \in 0..m |-> [i \in Link |-> Subtree(levels, f, h, i)]]
    OBVIOUS
  <2>4. ASSUME NEW h \in 0..(m - 1) PROVE g[h] = f[h]
    <3>1. h \in 0..m
      BY <2>1
    <3>2. g[h] = [i \in Link |-> Subtree(levels, f, h, i)]
      BY <2>3, <3>1
    <3>3. f[h] = [i \in Link |-> Subtree(levels, f, h, i)]
      BY <2>2 DEF IsIds
    <3> QED
      BY <3>2, <3>3
  <2>5. ASSUME NEW h \in 0..m, NEW i PROVE Subtree(levels, f, h, i) = Subtree(levels, g, h, i)
    <3>1. h # 0 => h - 1 \in 0..(m - 1)
      BY <2>1
    <3>2. h # 0 => f[h - 1] = g[h - 1]
      BY <2>4, <3>1
    <3> QED
      BY <3>2 DEF Subtree
  <2>6. g = [h \in 0..m |-> [i \in Link |-> Subtree(levels, g, h, i)]]
    BY <2>3, <2>5
  <2> QED
    BY <1>2, <2>6 DEF IsIds
<1> QED
  BY <1>3, <1>4

LEMMA IdsIs ==
  ASSUME NEW root, NEW levels, Len(levels) \in Nat
  PROVE  \E f : IsIds(f, levels, Len(levels)) /\ Ids(root, levels) = f[Len(levels)][root]
PROOF
<1> DEFINE depth == Len(levels)
           Kids(h, i) == InOrder({n.id : n \in {m \in levels[depth - h + 1] : m.up = i}})
           Whole(g) == g = [h \in 0..depth |->
                              [i \in Link |->
                                 IF h = 0 THEN <<i>>
                                 ELSE <<i>> \o FlattenSeq([j \in DOMAIN Kids(h, i) |->
                                                             g[h - 1][Kids(h, i)[j]]])]]
           f == CHOOSE g : Whole(g)
<1>1. \A g : IsIds(g, levels, depth) <=> Whole(g)
  BY DEF IsIds, Subtree, ChildrenAt
<1>2. \E g : Whole(g)
  <2>1. PICK g : IsIds(g, levels, depth)
    BY IdsExist
  <2> QED
    BY <1>1, <2>1
<1>3. Whole(f)
  BY <1>2
<1>4. Ids(root, levels) = f[depth][root]
  BY DEF Ids
<1> QED
  BY <1>1, <1>3, <1>4

(* The objects at most h links below i. *)
Under(i, h) == {j \in RowId : \E n \in 1..h : Below(j, i, n)}

ListsUnder(f, h, i) == \E t : f[h][i] = <<i>> \o t /\ Forest(t, i, Under(i, h))

LEMMA ChildIsBelow ==
  ASSUME TreeInv, NEW i \in Link, NEW j
  PROVE  j \in ChildrenOf(i) <=> j \in RowId /\ Below(j, i, 1)
PROOF
<1>1. ASSUME j \in RowId PROVE Live(j) /\ row[j].up = i <=> Below(j, i, 0 + 1)
  <2>1. Below(j, i, 0 + 1) <=> Live(j) /\ Below(LinkOf(j), i, 0)
    BY <1>1, BelowStep
  <2>2. Below(LinkOf(j), i, 0) <=> LinkOf(j) = i
    BY AncestorIs DEF Below
  <2>3. Live(j) => LinkOf(j) = row[j].up
    BY <1>1, LinkIs DEF Live
  <2> QED
    BY <2>1, <2>2, <2>3
<1>2. 0 + 1 = 1
  OBVIOUS
<1> QED
  BY <1>1, <1>2 DEF ChildrenOf

(* The nodes of a level that hang below one of the level above are its children. *)
LEMMA LevelChildren ==
  ASSUME TreeInv, NEW r, NEW d \in Nat, NEW i \in Link, Below(i, r, d)
  PROVE  {n.id : n \in {m \in LevelIs(r, d + 1) : m.up = i}} = ChildrenOf(i)
PROOF
<1>1. PICK X : X = {n.id : n \in {m \in LevelIs(r, d + 1) : m.up = i}}
  OBVIOUS
<1>2. \A j \in RowId : Below(j, r, d + 1) /\ row[j].up = i <=> Live(j) /\ row[j].up = i
  <2>1. SUFFICES ASSUME NEW j \in RowId, row[j].up = i PROVE Below(j, r, d + 1) <=> Live(j)
    OBVIOUS
  <2>2. Live(j) => LinkOf(j) = i
    BY <2>1, LinkIs DEF Live
  <2> QED
    BY <2>2, BelowStep
<1>3. ASSUME NEW x \in X PROVE x \in ChildrenOf(i)
  <2>1. PICK n \in LevelIs(r, d + 1) : n.up = i /\ n.id = x
    BY <1>1
  <2>2. PICK j \in RowId : Below(j, r, d + 1) /\ n = [id |-> j, up |-> row[j].up]
    BY <2>1 DEF LevelIs
  <2> QED
    BY <1>2, <2>1, <2>2 DEF ChildrenOf
<1>4. ASSUME NEW x \in ChildrenOf(i) PROVE x \in X
  <2>1. x \in RowId /\ row[x].up = i /\ Below(x, r, d + 1)
    BY <1>2 DEF ChildrenOf
  <2>2. PICK n : n = [id |-> x, up |-> row[x].up]
    OBVIOUS
  <2>3. n \in LevelIs(r, d + 1) /\ n.up = i /\ n.id = x
    BY <2>1, <2>2 DEF LevelIs
  <2> QED
    BY <1>1, <2>3
<1> QED
  BY <1>1, <1>3, <1>4

(* What is below the children of i, with them, is what is below i. *)
LEMMA UnderChildren ==
  ASSUME TreeInv, NEW i \in Link, NEW h \in Nat
  PROVE  /\ \A c \in ChildrenOf(i) : {c} \cup Under(c, h) \subseteq Under(i, h + 1)
         /\ \A x \in Under(i, h + 1) : \E c \in ChildrenOf(i) : x \in {c} \cup Under(c, h)
PROOF
<1>1. ASSUME NEW c \in ChildrenOf(i), NEW x \in {c} \cup Under(c, h) PROVE x \in Under(i, h + 1)
  <2>1. c \in RowId /\ Below(c, i, 1)
    BY ChildIsBelow
  <2>2. CASE x = c
    <3>1. 1 \in 1..(h + 1)
      OBVIOUS
    <3> QED
      BY <2>1, <2>2, <3>1 DEF Under
  <2>3. CASE x \in Under(c, h)
    <3>1. x \in RowId /\ \E n \in 1..h : Below(x, c, n)
      BY <2>3 DEF Under
    <3>2. PICK n \in 1..h : Below(x, c, n)
      BY <3>1
    <3>3. n + 1 \in 1..(h + 1) /\ n \in Nat /\ 1 \in Nat
      OBVIOUS
    <3>4. Below(x, i, n + 1)
      BY <2>1, <3>2, <3>3, BelowSum
    <3> QED
      BY <3>1, <3>3, <3>4 DEF Under
  <2> QED
    BY <2>2, <2>3
<1>2. ASSUME NEW x \in Under(i, h + 1) PROVE \E c \in ChildrenOf(i) : x \in {c} \cup Under(c, h)
  <2>1. x \in RowId /\ \E n \in 1..(h + 1) : Below(x, i, n)
    BY DEF Under
  <2>2. PICK n \in 1..(h + 1) : Below(x, i, n)
    BY <2>1
  <2>3. PICK m \in Nat : m = n - 1 /\ n = m + 1 /\ 1 \in Nat
    OBVIOUS
  <2>4. PICK c : c = Ancestor(x, m)
    OBVIOUS
  <2>5. Below(x, c, m) /\ Below(c, i, 1)
    BY <2>2, <2>3, <2>4, BelowSplit
  <2>6. c \in RowId
    <3>1. m \in 0..(n - 1)
      BY <2>3
    <3> QED
      BY <2>2, <2>4, <3>1 DEF Below
  <2>7. c \in ChildrenOf(i)
    BY <2>5, <2>6, ChildIsBelow
  <2>8. CASE m = 0
    <3>1. c = x
      BY <2>4, <2>8, AncestorIs
    <3> QED
      BY <2>7, <3>1
  <2>9. CASE m # 0
    <3>1. m \in 1..h
      BY <2>3, <2>9
    <3>2. x \in Under(c, h)
      BY <2>1, <2>5, <3>1 DEF Under
    <3> QED
      BY <2>7, <3>2
  <2> QED
    BY <2>8, <2>9
<1> QED
  BY <1>1, <1>2

(* No object is below two objects of a level. *)
LEMMA Apart ==
  ASSUME TreeInv, NEW r \in Link, ~OnCycle(r), NEW d \in Nat, NEW h \in Nat,
         NEW b, NEW c, Below(b, r, d), Below(c, r, d), b # c
  PROVE  (({b} \cup Under(b, h)) \cap ({c} \cup Under(c, h))) = {}
PROOF
<1>1. ASSUME NEW e, NEW x \in {e} \cup Under(e, h) PROVE \E n \in Nat : Below(x, e, n)
  <2>1. CASE x = e
    <3>1. Ancestor(x, 0) = x
      BY AncestorIs
    <3>2. Below(x, e, 0) /\ 0 \in Nat
      BY <2>1, <3>1 DEF Below
    <3> QED
      BY <3>2
  <2>2. CASE x \in Under(e, h)
    <3>1. PICK n \in 1..h : Below(x, e, n)
      BY <2>2 DEF Under
    <3>2. n \in Nat
      OBVIOUS
    <3> QED
      BY <3>1, <3>2
  <2> QED
    BY <2>1, <2>2
<1>2. SUFFICES ASSUME NEW x, x \in {b} \cup Under(b, h), x \in {c} \cup Under(c, h) PROVE FALSE
  OBVIOUS
<1>3. PICK n \in Nat : Below(x, b, n)
  BY <1>1, <1>2
<1>4. PICK m \in Nat : Below(x, c, m)
  BY <1>1, <1>2
<1>5. Below(x, r, n + d) /\ Below(x, r, m + d) /\ n + d \in Nat /\ m + d \in Nat
  BY <1>3, <1>4, BelowSum
<1>6. n + d = m + d
  BY <1>5, OneLevel
<1>7. n = m
  BY <1>6
<1> QED
  BY <1>3, <1>4, <1>7 DEF Below

LEMMA NotUnderItself ==
  ASSUME TreeInv, NEW r \in Link, ~OnCycle(r), NEW d \in Nat, NEW h \in Nat, NEW c, Below(c, r, d)
  PROVE  c \notin Under(c, h)
PROOF
<1>1. SUFFICES ASSUME c \in Under(c, h) PROVE FALSE
  OBVIOUS
<1>2. PICK n \in 1..h : Below(c, c, n)
  BY <1>1 DEF Under
<1>3. n \in Nat /\ n + d \in Nat /\ n + d # d
  OBVIOUS
<1>4. Below(c, r, n + d)
  BY <1>2, <1>3, BelowSum
<1> QED
  BY <1>3, <1>4, OneLevel

(* One level further up, *)
LEMMA ListedStep ==
  ASSUME TreeInv, NEW r \in Link, ~OnCycle(r), NEW levels \in Seq(Level),
         \A n \in 1..Len(levels) : levels[n] = LevelIs(r, n),
         NEW f, IsIds(f, levels, Len(levels)), NEW h \in Nat, h + 1 <= Len(levels),
         \A c \in Link : Below(c, r, Len(levels) - h) => ListsUnder(f, h, c),
         NEW i \in Link, Below(i, r, Len(levels) - (h + 1))
  PROVE  ListsUnder(f, h + 1, i)
PROOF
<1>1. PICK d \in Nat : d = Len(levels) - (h + 1) /\ Len(levels) \in Nat
  <2>1. Len(levels) \in Nat
    BY LenProperties
  <2>2. Len(levels) - (h + 1) \in Nat
    BY <2>1
  <2> QED
    BY <2>1, <2>2
<1>2. /\ Len(levels) - (h + 1) + 1 = d + 1 /\ Len(levels) - h = d + 1 /\ d + 1 \in 1..Len(levels)
      /\ h + 1 \in 0..Len(levels) /\ h + 1 # 0 /\ (h + 1) - 1 = h /\ d + 1 \in Nat
  BY <1>1
<1>3. PICK s : s = ChildrenAt(levels, h + 1, i)
  OBVIOUS
<1>4. s = InOrder(ChildrenOf(i))
  <2>1. levels[Len(levels) - (h + 1) + 1] = LevelIs(r, d + 1)
    BY <1>2
  <2>2. {n.id : n \in {m \in LevelIs(r, d + 1) : m.up = i}} = ChildrenOf(i)
    BY <1>1, LevelChildren
  <2> QED
    BY <1>3, <2>1, <2>2 DEF ChildrenAt
<1>5. /\ s \in Seq(RowId)
      /\ \A a \in 1..Len(s) : s[a] \in ChildrenOf(i)
      /\ \A x \in ChildrenOf(i) : \E a \in 1..Len(s) : s[a] = x
      /\ \A a, b \in 1..Len(s) : s[a] = s[b] => a = b
  <2>1. ChildrenOf(i) \in SUBSET Numbers(MaxRow)
    BY DEF ChildrenOf, RowId, Numbers
  <2>2. /\ s \in Seq(Numbers(MaxRow))
        /\ \A a \in 1..Len(s) : s[a] \in ChildrenOf(i)
        /\ \A x \in ChildrenOf(i) : \E a \in 1..Len(s) : s[a] = x
        /\ \A a, b \in 1..Len(s) : s[a] = s[b] => a = b
    BY <1>4, <2>1, InOrderIs
  <2> QED
    BY <2>2 DEF RowId, Numbers
<1>6. PICK q \in Nat : q = Len(s) /\ DOMAIN s = 1..q
  BY <1>5, LenProperties
<1>7. ASSUME NEW a \in 1..q
      PROVE  /\ s[a] \in RowId /\ s[a] \in Link /\ row[s[a]].up = i
             /\ Below(s[a], r, d + 1)
  <2>1. s[a] \in ChildrenOf(i)
    BY <1>5, <1>6
  <2>2. s[a] \in RowId /\ row[s[a]].up = i /\ Below(s[a], i, 1)
    BY <2>1, ChildIsBelow DEF ChildrenOf
  <2>3. Below(s[a], r, 1 + d)
    BY <1>1, <2>2, BelowSum
  <2> QED
    BY <1>1, <2>2, <2>3 DEF RowId, Link
<1>8. PICK T : T = [a \in 1..q |-> {s[a]} \cup Under(s[a], h)]
  OBVIOUS
<1>9. PICK ss : ss = [a \in DOMAIN s |-> f[h][s[a]]]
  OBVIOUS
<1>10. ASSUME NEW a \in 1..q PROVE Forest(ss[a], i, T[a])
  <2>1. PICK c \in RowId : c = s[a] /\ c \in Link /\ row[c].up = i /\ Below(c, r, d + 1)
    BY <1>7
  <2>2. PICK t : f[h][c] = <<c>> \o t /\ Forest(t, c, Under(c, h))
    BY <1>2, <2>1 DEF ListsUnder
  <2>3. c \notin Under(c, h)
    BY <1>1, <2>1, NotUnderItself
  <2>4. Forest(<<c>> \o t, i, {c} \cup Under(c, h))
    BY <2>1, <2>2, <2>3, ForestRoot
  <2>5. ss[a] = <<c>> \o t /\ T[a] = {c} \cup Under(c, h)
    BY <1>6, <1>8, <1>9, <2>1, <2>2
  <2> QED
    BY <2>4, <2>5
<1>11. ss \in Seq(Seq(RowId)) /\ Len(ss) = q
  <2>1. \A a \in 1..q : ss[a] \in Seq(RowId)
    BY <1>10 DEF Forest
  <2>2. ss \in [1..q -> Seq(RowId)]
    BY <1>6, <1>9, <2>1
  <2>3. ss \in Seq(Seq(RowId))
    BY <2>2, SeqDef
  <2> QED
    BY <2>2, <2>3, LenProperties
<1>12. ASSUME NEW a \in 1..q, NEW b \in 1..q, a # b PROVE T[a] \cap T[b] = {}
  <2>1. PICK x, y : x = s[a] /\ y = s[b] /\ x # y
    BY <1>5, <1>6, <1>12
  <2>2. Below(x, r, d + 1) /\ Below(y, r, d + 1)
    BY <1>7, <2>1
  <2>3. (({x} \cup Under(x, h)) \cap ({y} \cup Under(y, h))) = {}
    BY <1>2, <2>1, <2>2, Apart
  <2> QED
    BY <1>8, <2>1, <2>3
<1>13. UpTo(T, q) = Under(i, h + 1)
  <2>1. ASSUME NEW x \in UpTo(T, q) PROVE x \in Under(i, h + 1)
    <3>1. PICK a \in 1..q : x \in T[a]
      BY <2>1 DEF UpTo
    <3>2. s[a] \in ChildrenOf(i) /\ x \in {s[a]} \cup Under(s[a], h)
      BY <1>5, <1>6, <1>8, <3>1
    <3> QED
      BY <3>2, UnderChildren
  <2>2. ASSUME NEW x \in Under(i, h + 1) PROVE x \in UpTo(T, q)
    <3>1. PICK c \in ChildrenOf(i) : x \in {c} \cup Under(c, h)
      BY <2>2, UnderChildren
    <3>2. PICK a \in 1..q : s[a] = c
      BY <1>5, <1>6
    <3>3. x \in T[a]
      BY <1>8, <3>1, <3>2
    <3> QED
      BY <3>3 DEF UpTo
  <2> QED
    BY <2>1, <2>2
<1>14. Forest(FlattenSeq(ss), i, Under(i, h + 1))
  <2>1. (\A a \in 1..q : Forest(ss[a], i, T[a])) /\ \A a, b \in 1..q : a # b => T[a] \cap T[b] = {}
    BY <1>10, <1>12
  <2>2. Forest(FlattenSeq(ss), i, UpTo(T, q))
    BY <1>11, <2>1, ForestFlatten
  <2> QED
    BY <1>13, <2>2
<1>15. f[h + 1][i] = <<i>> \o FlattenSeq(ss)
  <2>1. f[h + 1][i] = Subtree(levels, f, h + 1, i)
    <3>1. f[h + 1] = [j \in Link |-> Subtree(levels, f, h + 1, j)]
      BY <1>2 DEF IsIds
    <3> QED
      BY <3>1
  <2>2. Subtree(levels, f, h + 1, i) = <<i>> \o FlattenSeq([a \in DOMAIN s |-> f[(h + 1) - 1][s[a]]])
    BY <1>2, <1>3 DEF Subtree
  <2> QED
    BY <1>2, <1>9, <2>1, <2>2
<1> QED
  BY <1>14, <1>15 DEF ListsUnder

(* and so on up to the root. *)
LEMMA ListedBelow ==
  ASSUME TreeInv, NEW r \in Link, ~OnCycle(r), NEW levels \in Seq(Level),
         \A n \in 1..Len(levels) : levels[n] = LevelIs(r, n),
         NEW f, IsIds(f, levels, Len(levels))
  PROVE  ListsUnder(f, Len(levels), r)
PROOF
<1>1. Len(levels) \in Nat
  BY LenProperties
<1> DEFINE Lists(h) == \A i \in Link : Below(i, r, Len(levels) - h) => ListsUnder(f, h, i)
           bad == {h \in Nat : h <= Len(levels) /\ ~Lists(h)}
<1>2. bad = {}
  <2>1. SUFFICES ASSUME bad # {} PROVE FALSE
    OBVIOUS
  <2>2. PICK h \in bad : \A k \in bad : h <= k
    BY <2>1, LeastOf
  <2>3. CASE h = 0
    <3>1. ASSUME NEW i \in Link PROVE ListsUnder(f, 0, i)
      <4>1. f[0][i] = <<i>>
        <5>1. 0 \in 0..Len(levels)
          BY <1>1
        <5>2. f[0][i] = Subtree(levels, f, 0, i)
          <6>1. f[0] = [j \in Link |-> Subtree(levels, f, 0, j)]
            BY <5>1 DEF IsIds
          <6> QED
            BY <6>1
        <5> QED
          BY <5>2 DEF Subtree
      <4>2. <<i>> \o << >> = <<i>>
        BY ConcatEmptySeq
      <4>3. Under(i, 0) = {}
        BY DEF Under
      <4>4. Forest(<< >>, i, Under(i, 0))
        BY <4>3, NoForest
      <4> QED
        BY <4>1, <4>2, <4>4 DEF ListsUnder
    <3> QED
      BY <2>2, <2>3, <3>1
  <2>4. CASE h # 0
    <3>1. PICK k \in Nat : h = k + 1 /\ k \notin bad /\ k + 1 <= Len(levels) /\ k <= Len(levels)
      <4>1. h \in Nat /\ h <= Len(levels) /\ h - 1 \in Nat /\ h = (h - 1) + 1 /\ ~ (h <= h - 1)
        BY <2>2, <2>4
      <4>2. h - 1 \notin bad /\ h - 1 <= Len(levels)
        BY <1>1, <2>2, <4>1
      <4> QED
        BY <4>1, <4>2
    <3>2. Lists(k)
      BY <3>1
    <3>3. Lists(k + 1)
      <4>1. SUFFICES ASSUME NEW i \in Link, Below(i, r, Len(levels) - (k + 1)) PROVE ListsUnder(f, k + 1, i)
        OBVIOUS
      <4> QED
        BY <3>1, <3>2, <4>1, ListedStep
    <3> QED
      BY <2>2, <3>1, <3>3
  <2> QED
    BY <2>3, <2>4
<1>3. Lists(Len(levels))
  BY <1>1, <1>2
<1>4. Below(r, r, Len(levels) - Len(levels))
  <2>1. Len(levels) - Len(levels) = 0
    BY <1>1
  <2>2. Below(r, r, 0)
    BY AncestorIs DEF Below
  <2> QED
    BY <2>1, <2>2
<1> QED
  BY <1>3, <1>4

(* The objects a finished listing knows are those within the depth asked for. *)
Depth(c) == IF c.max = 0 THEN MaxRow ELSE c.max
Expected(c) == {i \in RowId : \E n \in 1..Depth(c) : HangsBelow(i, c.root, n)}

LEMMA AllLevelsRead ==
  ASSUME NEW c \in ListCall, c.pc = "listed", ListKnows(c), ~OnCycle(c.root)
  PROVE  Expected(c) = Under(c.root, Len(c.levels))
PROOF
<1>1. PICK r \in Link : r = c.root /\ ~OnCycle(r)
  BY DEF ListCall, Link
<1>2. PICK l \in Nat : l = Len(c.levels)
  BY LenProperties DEF ListCall
<1>3. PICK d \in Nat : d = Depth(c)
  BY DEF ListCall, Depth
<1>4. c.max \in Nat
  BY DEF ListCall
<1>5. ASSUME NEW x \in RowId, NEW n \in 1..d, HangsBelow(x, r, n) PROVE n \in 1..l /\ Below(x, r, n)
  <2>1. n \in Nat
    OBVIOUS
  <2>2. Below(x, r, n)
    BY <1>1, <1>5, <2>1, HangsIsBelow
  <2>3. CASE LevelIs(r, l + 1) = {}
    <3>1. \A j \in RowId : ~Below(j, r, l + 1)
      BY <2>3 DEF LevelIs
    <3>2. ~ (n > l)
      BY <2>1, <2>2, <3>1, LevelsEnd
    <3> QED
      BY <2>2, <3>2
  <2>4. CASE c.max # 0 /\ l = c.max
    <3>1. d = l
      BY <1>3, <2>4 DEF Depth
    <3> QED
      BY <2>2, <3>1
  <2> QED
    BY <1>1, <1>2, <2>3, <2>4 DEF ListKnows
<1>6. ASSUME NEW x \in RowId, NEW n \in 1..l, Below(x, r, n) PROVE n \in 1..d /\ HangsBelow(x, r, n)
  <2>1. n \in Nat
    OBVIOUS
  <2>2. HangsBelow(x, r, n)
    BY <1>1, <1>6, <2>1, HangsIsBelow
  <2>3. CASE c.max = 0
    <3>1. n <= MaxRow
      BY <1>1, <1>6, <2>1, LevelBound
    <3> QED
      BY <1>3, <2>2, <2>3, <3>1 DEF Depth
  <2>4. CASE c.max # 0
    <3>1. l <= c.max
      BY <1>2, <2>4 DEF ListKnows
    <3>2. d = c.max
      BY <1>3, <2>4 DEF Depth
    <3> QED
      BY <1>4, <2>2, <3>1, <3>2
  <2> QED
    BY <2>3, <2>4
<1>7. \A x \in RowId : (\E n \in 1..d : HangsBelow(x, r, n)) <=> (\E n \in 1..l : Below(x, r, n))
  BY <1>5, <1>6
<1> QED
  BY <1>1, <1>2, <1>3, <1>7 DEF Expected, Under

\* ids lists the row r first and then the rows of S, each once and after the row it hangs from.
IsListing(ids, r, S) ==
  /\ ToSet(ids) = S \cup {r}
  /\ Len(ids) = Cardinality(S) + 1
  /\ \A k \in 2..Len(ids) : \E m \in 1..(k - 1) : ids[m] = row[ids[k]].up

LEMMA ListingIs ==
  ASSUME NEW r \in Link, NEW t, NEW S, Forest(t, r, S), NEW ids, ids = <<r>> \o t
  PROVE  IsListing(ids, r, S)
PROOF
<1>1. t \in Seq(RowId) /\ t \in Seq(Link)
  <2>1. t \in Seq(RowId)
    BY DEF Forest
  <2>2. RowId \subseteq Link
    BY DEF RowId, Link
  <2> QED
    BY <2>1, <2>2, SeqMonotonic
<1>2. PICK n \in Nat : n = Len(t)
  BY <1>1, LenProperties
<1>3. PICK h : h = <<r>>
  OBVIOUS
<1>4. h \in Seq(Link) /\ Len(h) = 1 /\ h[1] = r
  BY <1>3
<1>5. /\ ids \in Seq(Link) /\ Len(ids) = 1 + n
      /\ \A a \in 1..(1 + n) : ids[a] = IF a <= 1 THEN h[a] ELSE t[a - 1]
  <2>1. /\ ids \in Seq(Link) /\ Len(ids) = Len(h) + Len(t)
        /\ \A a \in 1..(Len(h) + Len(t)) : ids[a] = IF a <= Len(h) THEN h[a] ELSE t[a - Len(h)]
    BY <1>1, <1>3, <1>4, ConcatProperties
  <2> QED
    BY <1>2, <1>4, <2>1
<1>6. DOMAIN ids = 1..(1 + n)
  BY <1>5, LenProperties
<1>7. ids[1] = r /\ 1 \in 1..(1 + n)
  BY <1>4, <1>5
<1>8. \A a \in 1..n : ids[1 + a] = t[a] /\ 1 + a \in 1..(1 + n)
  <2>1. SUFFICES ASSUME NEW a \in 1..n PROVE ids[1 + a] = t[a] /\ 1 + a \in 1..(1 + n)
    OBVIOUS
  <2>2. 1 + a \in 1..(1 + n) /\ ~ (1 + a <= 1) /\ (1 + a) - 1 = a
    OBVIOUS
  <2> QED
    BY <1>5, <2>2
<1>9. \A a \in 1..(1 + n) : a = 1 \/ \E b \in 1..n : a = 1 + b
  <2>1. SUFFICES ASSUME NEW a \in 1..(1 + n), a # 1 PROVE \E b \in 1..n : a = 1 + b
    OBVIOUS
  <2>2. a - 1 \in 1..n /\ a = 1 + (a - 1)
    BY <2>1
  <2> QED
    BY <2>2
<1>10. ToSet(ids) = S \cup {r}
  <2>1. \A x : x \in ToSet(ids) <=> \E a \in 1..(1 + n) : ids[a] = x
    BY <1>6 DEF ToSet
  <2>2. \A a \in 1..n : t[a] \in S
    BY <1>2 DEF Forest
  <2>3. \A x \in S : \E a \in 1..n : t[a] = x
    BY <1>2 DEF Forest
  <2>4. ASSUME NEW x \in ToSet(ids) PROVE x \in S \cup {r}
    <3>1. PICK a \in 1..(1 + n) : ids[a] = x
      BY <2>1, <2>4
    <3>2. CASE a = 1
      BY <1>7, <3>1, <3>2
    <3>3. ASSUME NEW b \in 1..n, a = 1 + b PROVE x \in S
      BY <1>8, <2>2, <3>1, <3>3
    <3> QED
      BY <1>9, <3>2, <3>3
  <2>5. ASSUME NEW x \in S \cup {r} PROVE x \in ToSet(ids)
    BY <1>7, <1>8, <2>1, <2>3
  <2> QED
    BY <2>4, <2>5
<1>11. Cardinality(S) = n
  <2>1. t \in [1..n -> S]
    <3>1. t \in [1..n -> RowId]
      BY <1>1, <1>2, LenProperties
    <3> QED
      BY <1>2, <3>1 DEF Forest
  <2>2. t \in Bijection(1..n, S)
    BY <1>2, <2>1 DEF Forest, Bijection, Injection, Surjection, IsInjective
  <2> QED
    BY <2>2, FS_CountingElements DEF ExistsBijection
<1>12. ASSUME NEW k \in 2..(1 + n) PROVE \E m \in 1..(k - 1) : ids[m] = row[ids[k]].up
  <2>1. PICK a \in 1..n : k = 1 + a
    BY <1>9
  <2>2. ids[k] = t[a]
    BY <1>8, <2>1
  <2>3. CASE row[t[a]].up = r
    <3>1. 1 \in 1..(k - 1)
      OBVIOUS
    <3> QED
      BY <1>7, <2>2, <2>3, <3>1
  <2>4. ASSUME NEW b \in 1..(a - 1), t[b] = row[t[a]].up
        PROVE  \E m \in 1..(k - 1) : ids[m] = row[ids[k]].up
    <3>1. b \in 1..n /\ 1 + b \in 1..(k - 1)
      BY <2>1
    <3>2. ids[1 + b] = row[ids[k]].up
      BY <1>8, <2>2, <2>4, <3>1
    <3> QED
      BY <3>1, <3>2
  <2> QED
    BY <1>2, <2>3, <2>4 DEF Forest
<1>13. Len(ids) = 1 + n /\ 1 + n = Cardinality(S) + 1
  BY <1>5, <1>11
<1> QED
  BY <1>10, <1>12, <1>13 DEF IsListing

LEMMA ListedIsExact ==
  ASSUME TreeInv, NEW s \in Session, call[s] \in ListCall, call[s].pc = "listed", ListKnows(call[s]),
         ~OnCycle(call[s].root)
  PROVE  ListedExactly(s)
PROOF
<1>1. PICK c \in ListCall : c = call[s]
  OBVIOUS
<1>2. c.pc = "listed" /\ ListKnows(c) /\ ~OnCycle(c.root)
  BY <1>1 DEF ListKnows
<1>3. c.root \in Link /\ c.levels \in Seq(Level) /\ Len(c.levels) \in Nat
  BY LenProperties DEF ListCall, Link
<1>4. PICK f : IsIds(f, c.levels, Len(c.levels)) /\ Ids(c.root, c.levels) = f[Len(c.levels)][c.root]
  BY <1>3, IdsIs
<1>5. \A n \in 1..Len(c.levels) : c.levels[n] = LevelIs(c.root, n)
  BY <1>2 DEF ListKnows
<1>6. ListsUnder(f, Len(c.levels), c.root)
  BY <1>2, <1>3, <1>4, <1>5, ListedBelow
<1>7. PICK t : Ids(c.root, c.levels) = <<c.root>> \o t /\ Forest(t, c.root, Expected(c))
  BY <1>2, <1>4, <1>6, AllLevelsRead DEF ListsUnder
<1>8. PICK ids : ids = Ids(c.root, c.levels)
  OBVIOUS
<1>9. /\ ToSet(ids) = Expected(c) \cup {c.root}
      /\ Len(ids) = Cardinality(Expected(c)) + 1
      /\ \A k \in 2..Len(ids) : \E m \in 1..(k - 1) : ids[m] = row[ids[k]].up
  <2>1. PICK r \in Link : r = c.root
    BY <1>3
  <2>2. PICK S : S = Expected(c)
    OBVIOUS
  <2>3. ids = <<r>> \o t /\ Forest(t, r, S)
    BY <1>7, <1>8, <2>1, <2>2
  <2>4. IsListing(ids, r, S)
    BY <2>1, <2>3, ListingIs
  <2> QED
    BY <2>1, <2>2, <2>4 DEF IsListing
<1> QED
  BY <1>1, <1>8, <1>9 DEF ListedExactly, Expected, Depth

(* midgard_object_list below a root that is on no cycle returns each object down  *)
(* to the depth asked for once, after the object it hangs from (mgd_tree_build,   *)
(* mgd_tree_get_ids), when nobody wrote since it began.                           *)
THEOREM ListingsHold ==
  Spec => [](\A s \in Session \ late : In(s, "listed") /\ ~OnCycle(call[s].root) => ListedExactly(s))
PROOF
<1>1. ReadInv => \A s \in Session \ late : In(s, "listed") /\ ~OnCycle(call[s].root) => ListedExactly(s)
  <2>1. SUFFICES ASSUME ReadInv, NEW s \in Session, s \notin late, In(s, "listed"), ~OnCycle(call[s].root)
                 PROVE  ListedExactly(s)
    OBVIOUS
  <2>2. TreeInv /\ ReaderOK(s)
    BY <2>1 DEF ReadInv
  <2>3. call[s] \in ListCall /\ call[s].pc = "listed" /\ ListKnows(call[s])
    BY <2>1, <2>2 DEF ReaderOK, In
  <2> QED
    BY <2>1, <2>2, <2>3, ListedIsExact
<1> QED
  BY <1>1, ReadsHold, PTL

(* The three together: the readers of the tree take one statement per level, and  *)
(* what they return is right whenever no statement of another session fell        *)
(* between theirs.                                                                *)
THEOREM ReadsAreExact == Spec => []UndisturbedReadsAreExact
PROOF
  BY ListingsHold, WalksHold, PathsHold, PTL DEF UndisturbedReadsAreExact

-----------------------------------------------------------------------------
HIDE TreeAssumption
USE LegacyAssumption

(* The legacy API.  What the tables and a job look like at any time, disturbed *)
(* and refused as it may be: dirs hang below older ones, ids are given out one *)
(* after the other, and what `ups' holds behind the root was once inserted.    *)
Stop == [id : DirId, level : 0..MaxDir]
Job == [op : {"copy", "delete"}, root : DirId, pc : {"walk", "node", "row"}, ups : Seq(0..MaxDir),
        todo : Seq(Stop), leaves : Seq(LeafId), to : 0..MaxDir, ok : BOOLEAN]

LegacyType ==
  /\ kind \in Kinds
  /\ dir \in [DirId -> 0..MaxDir \cup {Unused, Gone}]
  /\ leaf \in [LeafId -> 0..MaxDir \cup {Unused, Gone}]
  /\ extra \subseteq Extra
  /\ job \in Job \cup {NoJob}
  /\ refused \in 0..MaxRefused
  /\ disturbed \in BOOLEAN /\ missed \in BOOLEAN
  /\ origin \in [dir : [DirId -> 0..MaxDir], leaf : [LeafId -> 0..MaxLeaf]]

Used(d) == dir[d] # Unused

TreeShape ==
  /\ \A d \in DirId : dir[d] \in DirId => dir[d] < d /\ Used(dir[d])
  /\ \A d, e \in DirId : Used(e) /\ d < e => Used(d)

JobShape ==
  job # NoJob =>
    /\ job.pc = "walk" => job.op = "copy" /\ job.leaves = << >>
    /\ job.pc = "row" => job.op = "delete" /\ job.todo # << >>
    /\ job.pc = "node" /\ job.op = "delete" => job.leaves = << >>
    /\ \A k \in 2..Len(job.ups) : job.ups[k] # 0 => Used(job.ups[k])

(* Extras are of the kind the copier takes along, and of records. *)
ExtraShape ==
  \A x \in extra :
    /\ x.of = "dir" => /\ x.what \in Copier.node \cup {"file"}
                       /\ x.oid # 0 => x.oid \in DirId /\ Used(x.oid)
    /\ x.of = "leaf" => /\ x.what \in Copier.leaf \cup {"file"}
                        /\ x.oid # 0 => x.oid \in LeafId /\ leaf[x.oid] # Unused

(* A step moves the file of an attachment only with or before its record. *)
NoStrayFile ==
  \A x \in extra : x.what = "file" => [x EXCEPT !.what = "attachment"] \in extra

LegacyInv == LegacyType /\ TreeShape /\ JobShape /\ ExtraShape /\ NoStrayFile

LEMMA NoMarker == /\ \A d \in 0..MaxDir : d # Unused /\ d # Gone
                  /\ \A d \in DirId : d # Unused /\ d # Gone /\ d \in 0..MaxDir /\ d # 0
                  /\ Unused # Gone
PROOF
<1>1. Unused \notin 0..MaxDir /\ Gone \notin 0..MaxDir /\ Unused # Gone
  BY LegacyAssumption
<1>2. \A d \in DirId : d \in 0..MaxDir /\ d # 0
  BY DEF DirId
<1> QED
  BY <1>1, <1>2

LEMMA Takes ==
  ASSUME kind \in Kinds
  PROVE  /\ PA \subseteq Copier.node /\ Copier.node \subseteq PAC
         /\ Copier.leaf \subseteq PAC /\ (kind # "article" => PA \subseteq Copier.leaf)
         /\ PA \subseteq Deleter.node /\ Deleter.node \subseteq PAC
         /\ Deleter.leaf \subseteq PAC /\ (kind # "article" => PA \subseteq Deleter.leaf)
         /\ PAC \subseteq What
         /\ ("attachment" \in Copier.leaf <=> Copier.leaf # {})
PROOF
<1>1. kind \in {"article", "topic", "event", "page", "style", "snippetdir"}
  OBVIOUS
<1>2. CASE kind = "article"
  BY <1>2 DEF Copier, Deleter, ArticleCopier, ArticleDeleter, PA, PAC, What
<1>3. CASE kind = "topic"
  BY <1>3 DEF Copier, Deleter, TopicCopier, TopicDeleter, PA, PAC, What
<1>4. CASE kind = "event"
  BY <1>4 DEF Copier, Deleter, EventCopier, EventDeleter, PA, PAC, What
<1>5. CASE kind = "page"
  BY <1>5 DEF Copier, Deleter, PageCopier, PageDeleter, PA, PAC, What
<1>6. CASE kind = "style"
  BY <1>6 DEF Copier, Deleter, StyleCopier, StyleDeleter, PA, PAC, What
<1>7. CASE kind = "snippetdir"
  BY <1>7 DEF Copier, Deleter, SnippetdirCopier, SnippetdirDeleter, PA, PAC, What
<1> QED
  BY <1>1, <1>2, <1>3, <1>4, <1>5, <1>6, <1>7

(* What is added to an object or removed from it. *)
LEMMA AddIs ==
  ASSUME NEW of, NEW oid, NEW ws, NEW x
  PROVE  x \in Add(of, oid, ws) <=> \E w \in ws : x = [of |-> of, oid |-> oid, what |-> w]
PROOF
  BY DEF Add

LEMMA HaveIs ==
  ASSUME NEW of, NEW oid, NEW w
  PROVE  w \in Have(of, oid) <=> w \in What /\ [of |-> of, oid |-> oid, what |-> w] \in extra
PROOF
  BY DEF Have

LEMMA ExtraIs ==
  ASSUME NEW x \in Extra
  PROVE  /\ x = [of |-> x.of, oid |-> x.oid, what |-> x.what] /\ x.what \in What
         /\ x.oid \in 0..(MaxDir + MaxLeaf) /\ x.of \in {"dir", "leaf"}
         /\ [x EXCEPT !.what = "attachment"] = [of |-> x.of, oid |-> x.oid, what |-> "attachment"]
PROOF
  BY DEF Extra

LEMMA AddedFit ==
  ASSUME NEW of \in {"dir", "leaf"}, NEW oid \in 0..(MaxDir + MaxLeaf), NEW ws \in SUBSET What,
         extra \subseteq Extra, NoStrayFile, "file" \in ws => "attachment" \in ws,
         extra' = extra \cup Add(of, oid, ws)
  PROVE  /\ extra' \subseteq Extra
         /\ NoStrayFile'
PROOF
<1>1. ASSUME NEW x \in Add(of, oid, ws)
      PROVE  x \in Extra /\ x.of = of /\ x.oid = oid /\ x.what \in ws
  <2>1. PICK w \in ws : x = [of |-> of, oid |-> oid, what |-> w]
    BY <1>1, AddIs
  <2> QED
    BY <2>1 DEF Extra
<1>2. extra' \subseteq Extra
  BY <1>1
<1>3. ASSUME NEW x \in extra', x.what = "file" PROVE [x EXCEPT !.what = "attachment"] \in extra'
  <2>1. CASE x \in extra
    BY <1>3, <2>1 DEF NoStrayFile
  <2>2. CASE x \in Add(of, oid, ws)
    <3>1. x \in Extra /\ x.of = of /\ x.oid = oid /\ x.what \in ws
      BY <1>1, <2>2
    <3>2. [x EXCEPT !.what = "attachment"] = [of |-> of, oid |-> oid, what |-> "attachment"]
      BY <3>1, ExtraIs
    <3>3. [of |-> of, oid |-> oid, what |-> "attachment"] \in Add(of, oid, ws)
      BY <1>3, <3>1, AddIs
    <3> QED
      BY <3>2, <3>3
  <2> QED
    BY <2>1, <2>2
<1> QED
  BY <1>2, <1>3 DEF NoStrayFile

LEMMA FewExtras == ASSUME NEW S \in SUBSET What PROVE IsFiniteSet(S) /\ Cardinality(S) \in Nat
PROOF
<1>1. PICK A, B, C, D : A = {"parameter"} /\ B = A \cup {"attachment"} /\ C = B \cup {"file"} /\ D = C \cup {"content"}
  OBVIOUS
<1>2. IsFiniteSet(What)
  <2>1. IsFiniteSet(A)
    BY <1>1, FS_Singleton
  <2>2. IsFiniteSet(B)
    BY <1>1, <2>1, FS_AddElement
  <2>3. IsFiniteSet(C)
    BY <1>1, <2>2, FS_AddElement
  <2>4. IsFiniteSet(D)
    BY <1>1, <2>3, FS_AddElement
  <2>5. What = D
    BY <1>1 DEF What
  <2> QED
    BY <2>4, <2>5
<1> QED
  BY <1>2, FS_Subset, FS_CardinalityType

(* What a deleter takes away: no attachment without its file; and if it answers *)
(* 1 and has missed no row, all but attachments whose file cannot be unlinked.  *)
LEMMA RemovedIs ==
  ASSUME NEW of, NEW oid, NEW ws, NEW x \in Removed(of, oid, ws), NEW had, had = Have(of, oid)
  PROVE  /\ x.gone \subseteq had \cap (ws \cup {"file"})
         /\ "file" \in x.gone => "file" \in ws \/ "attachment" \in ws
         /\ "attachment" \in x.gone /\ "file" \in had => "file" \in x.gone
         /\ x.ok \in BOOLEAN /\ x.missed \in BOOLEAN /\ x.n \in Nat
         /\ x.ok /\ ~x.missed =>
              /\ "parameter" \in ws => "parameter" \notin had \ x.gone
              /\ "attachment" \in ws \ {"file"} /\ "file" \notin ws /\ "attachment" \in had \ x.gone =>
                   "file" \in had \ x.gone
PROOF
<1>1. PICK rows, file : /\ rows = had \cap ws
                        /\ file = IF "attachment" \in ws THEN had \cap {"file"} ELSE {}
  OBVIOUS
<1>2. PICK f \in [rows -> Fates] : /\ \A w \in rows : f[w] = "stuck" => w = "attachment" /\ file # {}
                                  /\ x = Outcome(f, ws, file)
  BY <1>1 DEF Removed
<1>3. /\ x.gone = Met(f, {"gone"}) \cup (IF "attachment" \in Met(f, {"unread", "stuck"}) THEN {} ELSE file)
      /\ x.ok = ("content" \notin ws /\ Met(f, {"refused"}) = {})
      /\ x.missed = (Met(f, {"spared", "unread"}) # {})
      /\ x.n = Cardinality(Met(f, Fates \ {"gone"}))
  BY <1>2 DEF Outcome
<1>4. \A fates : Met(f, fates) = {w \in rows : f[w] \in fates}
  BY <1>2 DEF Met
<1>5. x.n \in Nat
  <2>1. Met(f, Fates \ {"gone"}) \in SUBSET What
    BY <1>1, <1>4 DEF Have
  <2> QED
    BY <1>3, <2>1, FewExtras
<1>6. x.ok \in BOOLEAN /\ x.missed \in BOOLEAN
  BY <1>3
<1>7. x.gone \subseteq had \cap (ws \cup {"file"}) /\ ("file" \in x.gone => "file" \in ws \/ "attachment" \in ws)
  BY <1>1, <1>3, <1>4
<1>8. ASSUME "attachment" \in x.gone, "file" \in had PROVE "file" \in x.gone
  <2>1. "attachment" \in rows /\ f["attachment"] = "gone"
    BY <1>1, <1>3, <1>4, <1>8
  <2>2. "attachment" \notin Met(f, {"unread", "stuck"}) /\ "file" \in file
    BY <1>1, <1>4, <1>8, <2>1
  <2> QED
    BY <1>3, <2>2
<1>9. ASSUME x.ok, ~x.missed, NEW w \in rows PROVE f[w] \in {"gone", "stuck"}
  <2>1. f[w] \in Fates
    BY <1>2
  <2>2. f[w] # "refused"
    <3>1. w \notin Met(f, {"refused"})
      BY <1>3, <1>9
    <3> QED
      BY <1>4, <3>1
  <2>3. f[w] \notin {"spared", "unread"}
    <3>1. w \notin Met(f, {"spared", "unread"})
      BY <1>3, <1>9
    <3> QED
      BY <1>4, <3>1
  <2> QED
    BY <2>1, <2>2, <2>3 DEF Fates
<1>10. ASSUME x.ok, ~x.missed, "parameter" \in ws, "parameter" \in had PROVE "parameter" \in x.gone
  <2>1. "parameter" \in rows
    BY <1>1, <1>10
  <2>2. f["parameter"] = "gone"
    BY <1>2, <1>9, <1>10, <2>1
  <2> QED
    BY <1>3, <1>4, <2>1, <2>2
<1>11. ASSUME x.ok, ~x.missed, "attachment" \in ws, "file" \notin ws, "attachment" \in had \ x.gone
       PROVE  "file" \in had \ x.gone
  <2>1. "attachment" \in rows
    BY <1>1, <1>11
  <2>2. f["attachment"] # "gone"
    BY <1>3, <1>4, <1>11, <2>1
  <2>3. f["attachment"] = "stuck"
    BY <1>9, <1>11, <2>1, <2>2
  <2>4. "file" \in had
    BY <1>1, <1>2, <2>1, <2>3
  <2>5. "attachment" \in Met(f, {"unread", "stuck"})
    BY <1>4, <2>1, <2>3
  <2>6. "file" \notin rows
    BY <1>1, <1>11
  <2> QED
    BY <1>3, <1>4, <2>4, <2>5, <2>6
<1> QED
  BY <1>5, <1>6, <1>7, <1>8, <1>10, <1>11

LEMMA RemovedFit ==
  ASSUME NEW of \in {"dir", "leaf"}, NEW oid, NEW ws, NEW r \in Removed(of, oid, ws),
         extra \subseteq Extra, NoStrayFile, extra' = extra \ Add(of, oid, r.gone)
  PROVE  /\ extra' \subseteq Extra
         /\ NoStrayFile'
PROOF
<1>1. PICK all : all = Have(of, oid)
  OBVIOUS
<1>2. "attachment" \in r.gone /\ "file" \in all => "file" \in r.gone
  BY <1>1, RemovedIs
<1>3. ASSUME NEW x \in extra', x.what = "file" PROVE [x EXCEPT !.what = "attachment"] \in extra'
  <2>1. x \in extra /\ x \in Extra /\ x \notin Add(of, oid, r.gone)
    BY <1>3
  <2>2. PICK y : y = [x EXCEPT !.what = "attachment"]
    OBVIOUS
  <2>3. y \in extra
    BY <1>3, <2>1, <2>2 DEF NoStrayFile
  <2>4. x = [of |-> x.of, oid |-> x.oid, what |-> "file"] /\ y = [of |-> x.of, oid |-> x.oid, what |-> "attachment"]
    BY <1>3, <2>1, <2>2, ExtraIs
  <2>5. ASSUME y \in Add(of, oid, r.gone) PROVE FALSE
    <3>1. PICK w \in r.gone : y = [of |-> of, oid |-> oid, what |-> w]
      BY <2>5, AddIs
    <3>2. w = "attachment" /\ x.of = of /\ x.oid = oid
      BY <2>4, <3>1
    <3>3. "file" \in all
      BY <1>1, <2>1, <2>4, <3>2, HaveIs DEF What
    <3>4. "file" \notin r.gone
      BY <2>1, <2>4, <3>2, AddIs
    <3> QED
      BY <1>2, <3>1, <3>2, <3>3, <3>4
  <2> QED
    BY <2>2, <2>3, <2>5
<1> QED
  BY <1>3 DEF NoStrayFile

-----------------------------------------------------------------------------
(* What mgd_walk_table_tree walks.  s[m] is the stop at the node above the one *)
(* of s[k]: the last stop one level higher.                                    *)
ParentAt(s, m, k) ==
  /\ s[m].id = dir[s[k].id] /\ s[k].level = s[m].level + 1
  /\ \A q \in (m + 1)..(k - 1) : s[q].level >= s[k].level

SiblingsAscend(s) ==
  \A j, k \in 1..Len(s) :
    j < k /\ s[j].level = s[k].level /\ (\A q \in j..k : s[q].level >= s[k].level) => s[j].id < s[k].id

(* A walk of the nodes T at level l, one after the other, and of all below them. *)
Grove(s, l, T) ==
  /\ s \in Seq(Stop)
  /\ \A k \in 1..Len(s) : /\ s[k].level >= l
                          /\ s[k].level = l => s[k].id \in T
                          /\ s[k].level # l => \E m \in 1..(k - 1) : ParentAt(s, m, k)
  /\ \A x \in T : \E k \in 1..Len(s) : s[k].id = x
  /\ SiblingsAscend(s)
  /\ \A k \in 1..Len(s) : \A c \in Children(s[k].id) : \E j \in 1..Len(s) : s[j].id = c

(* A walk within another one. *)
Embeds(t, u, off) == \A a \in 1..Len(t) : off + a \in 1..Len(u) /\ u[off + a] = t[a]

LEMMA ParentMoves ==
  ASSUME NEW t, NEW u, NEW off \in Nat, Len(t) \in Nat, Embeds(t, u, off),
         NEW d \in 1..Len(t), NEW m \in 1..(d - 1), ParentAt(t, m, d)
  PROVE  off + m \in 1..((off + d) - 1) /\ ParentAt(u, off + m, off + d)
PROOF
<1>1. m \in 1..Len(t) /\ off + m \in 1..((off + d) - 1)
  OBVIOUS
<1>2. u[off + m] = t[m] /\ u[off + d] = t[d]
  BY <1>1 DEF Embeds
<1>3. ASSUME NEW q \in ((off + m) + 1)..((off + d) - 1) PROVE u[q].level >= u[off + d].level
  <2>1. q - off \in (m + 1)..(d - 1) /\ q - off \in 1..Len(t) /\ off + (q - off) = q
    BY <1>1
  <2>2. u[q] = t[q - off]
    BY <2>1 DEF Embeds
  <2>3. t[q - off].level >= t[d].level
    BY <2>1 DEF ParentAt
  <2> QED
    BY <1>2, <2>2, <2>3
<1> QED
  BY <1>1, <1>2, <1>3 DEF ParentAt

LEMMA OrderMoves ==
  ASSUME NEW t, NEW u, NEW off \in Nat, Len(t) \in Nat, Embeds(t, u, off), SiblingsAscend(t),
         NEW c \in 1..Len(t), NEW d \in 1..Len(t), c < d,
         u[off + c].level = u[off + d].level,
         \A q \in (off + c)..(off + d) : u[q].level >= u[off + d].level
  PROVE  u[off + c].id < u[off + d].id
PROOF
<1>1. u[off + c] = t[c] /\ u[off + d] = t[d]
  BY DEF Embeds
<1>2. ASSUME NEW q \in c..d PROVE t[q].level >= t[d].level
  <2>1. q \in 1..Len(t) /\ off + q \in (off + c)..(off + d)
    OBVIOUS
  <2>2. u[off + q] = t[q]
    BY <2>1 DEF Embeds
  <2> QED
    BY <1>1, <2>1, <2>2
<1> QED
  BY <1>1, <1>2 DEF SiblingsAscend

LEMMA StopIs == ASSUME NEW s \in Seq(Stop), NEW k \in 1..Len(s) PROVE s[k] \in Stop /\ s[k].id \in DirId /\ s[k].level \in Nat
PROOF
<1>1. s[k] \in Stop
  BY ElementOfSeq
<1> QED
  BY <1>1 DEF Stop

LEMMA FirstStop ==
  ASSUME NEW s, NEW l \in Nat, NEW T, Grove(s, l, T), 1 \in 1..Len(s)
  PROVE  s[1].level = l
PROOF
<1>1. s[1].level # l => \E m \in 1..(1 - 1) : ParentAt(s, m, 1)
  BY DEF Grove
<1>2. ~ \E m \in 1..(1 - 1) : ParentAt(s, m, 1)
  OBVIOUS
<1> QED
  BY <1>1, <1>2

LEMMA NoGrove == ASSUME NEW l PROVE Grove(<< >>, l, {})
PROOF
<1>1. << >> \in Seq(Stop) /\ Len(<< >>) = 0
  BY EmptySeq
<1> QED
  BY <1>1 DEF Grove, SiblingsAscend

(* One after the other. *)
LEMMA GroveJoin ==
  ASSUME NEW l \in Nat, NEW s, NEW S, NEW t, NEW T, Grove(s, l, S), Grove(t, l, T),
         \A x \in S, y \in T : x < y
  PROVE  Grove(s \o t, l, S \cup T)
PROOF
<1>1. s \in Seq(Stop) /\ t \in Seq(Stop)
  BY DEF Grove
<1>2. PICK m \in Nat, n \in Nat : m = Len(s) /\ n = Len(t)
  BY <1>1, LenProperties
<1>3. PICK u : u = s \o t
  OBVIOUS
<1>4. /\ u \in Seq(Stop) /\ Len(u) = m + n
      /\ \A a \in 1..(m + n) : u[a] = IF a <= m THEN s[a] ELSE t[a - m]
  BY <1>1, <1>2, <1>3, ConcatProperties
<1>5. Embeds(s, u, 0) /\ \A a \in 1..m : u[a] = s[a]
  <2>1. ASSUME NEW a \in 1..m PROVE a \in 1..(m + n) /\ u[a] = s[a] /\ 0 + a = a
    BY <1>4
  <2> QED
    BY <1>2, <1>4, <2>1 DEF Embeds
<1>6. Embeds(t, u, m) /\ \A a \in 1..n : u[m + a] = t[a] /\ m + a \in 1..(m + n)
  <2>1. ASSUME NEW a \in 1..n PROVE m + a \in 1..(m + n) /\ u[m + a] = t[a]
    <3>1. m + a \in 1..(m + n) /\ ~ (m + a <= m) /\ (m + a) - m = a
      OBVIOUS
    <3> QED
      BY <1>4, <3>1
  <2> QED
    BY <1>2, <1>4, <2>1 DEF Embeds
<1>7. \A a \in 1..(m + n) : a \in 1..m \/ \E b \in 1..n : a = m + b
  <2>1. SUFFICES ASSUME NEW a \in 1..(m + n), a \notin 1..m PROVE \E b \in 1..n : a = m + b
    OBVIOUS
  <2>2. a - m \in 1..n /\ a = m + (a - m)
    BY <2>1
  <2> QED
    BY <2>2
<1>8. ASSUME NEW k \in 1..(m + n)
      PROVE  /\ u[k].level >= l
             /\ u[k].level = l => u[k].id \in S \cup T
             /\ u[k].level # l => \E p \in 1..(k - 1) : ParentAt(u, p, k)
  <2>1. CASE k \in 1..m
    <3>1. /\ s[k].level >= l
          /\ s[k].level = l => s[k].id \in S
          /\ s[k].level # l => \E p \in 1..(k - 1) : ParentAt(s, p, k)
      BY <1>2, <2>1 DEF Grove
    <3>2. ASSUME NEW p \in 1..(k - 1), ParentAt(s, p, k) PROVE ParentAt(u, p, k)
      <4>1. ParentAt(u, 0 + p, 0 + k)
        BY <1>2, <1>5, <2>1, <3>2, ParentMoves
      <4>2. 0 + p = p /\ 0 + k = k
        OBVIOUS
      <4> QED
        BY <4>1, <4>2
    <3> QED
      BY <1>5, <2>1, <3>1, <3>2
  <2>2. ASSUME NEW d \in 1..n, k = m + d
        PROVE  /\ u[k].level >= l
               /\ u[k].level = l => u[k].id \in S \cup T
               /\ u[k].level # l => \E p \in 1..(k - 1) : ParentAt(u, p, k)
    <3>1. /\ t[d].level >= l
          /\ t[d].level = l => t[d].id \in T
          /\ t[d].level # l => \E p \in 1..(d - 1) : ParentAt(t, p, d)
      BY <1>2 DEF Grove
    <3>2. ASSUME NEW p \in 1..(d - 1), ParentAt(t, p, d) PROVE \E r \in 1..(k - 1) : ParentAt(u, r, k)
      BY <1>2, <1>6, <2>2, <3>2, ParentMoves
    <3> QED
      BY <1>6, <2>2, <3>1, <3>2
  <2> QED
    BY <1>7, <2>1, <2>2
<1>9. ASSUME NEW x \in S \cup T PROVE \E k \in 1..(m + n) : u[k].id = x
  <2>1. CASE x \in S
    <3>1. PICK a \in 1..m : s[a].id = x
      BY <1>2, <2>1 DEF Grove
    <3>2. a \in 1..(m + n)
      OBVIOUS
    <3> QED
      BY <1>5, <3>1, <3>2
  <2>2. CASE x \in T
    <3>1. PICK a \in 1..n : t[a].id = x
      BY <1>2, <2>2 DEF Grove
    <3> QED
      BY <1>6, <3>1
  <2> QED
    BY <2>1, <2>2
<1>10. ASSUME NEW j \in 1..(m + n), NEW k \in 1..(m + n), j < k, u[j].level = u[k].level,
              \A q \in j..k : u[q].level >= u[k].level
       PROVE  u[j].id < u[k].id
  <2>1. CASE j \in 1..m /\ k \in 1..m
    <3>1. 0 + j = j /\ 0 + k = k /\ SiblingsAscend(s)
      BY <2>1 DEF Grove
    <3>2. u[0 + j].id < u[0 + k].id
      BY <1>2, <1>5, <1>10, <2>1, <3>1, OrderMoves
    <3> QED
      BY <3>1, <3>2
  <2>2. ASSUME NEW c \in 1..n, NEW d \in 1..n, j = m + c, k = m + d PROVE u[j].id < u[k].id
    <3>1. c < d /\ SiblingsAscend(t)
      BY <1>10, <2>2 DEF Grove
    <3> QED
      BY <1>2, <1>6, <1>10, <2>2, <3>1, OrderMoves
  <2>3. ASSUME NEW d \in 1..n, k = m + d, j \in 1..m PROVE u[j].id < u[k].id
    <3>1. m + 1 \in j..k /\ 1 \in 1..n
      BY <2>3
    <3>2. t[1].level = l /\ u[m + 1] = t[1]
      BY <1>2, <1>6, <3>1, FirstStop
    <3>3. u[k] = t[d] /\ t[d].level >= l /\ t[d].level \in Nat
      BY <1>1, <1>2, <1>6, <2>3, StopIs DEF Grove
    <3>4. u[k].level = l
      BY <1>10, <3>1, <3>2, <3>3
    <3>5. t[d].id \in T
      BY <1>2, <3>3, <3>4 DEF Grove
    <3>6. s[j].id \in S /\ u[j] = s[j]
      BY <1>2, <1>5, <1>10, <2>3, <3>4 DEF Grove
    <3> QED
      BY <3>3, <3>5, <3>6
  <2>4. ASSUME NEW c \in 1..n, j = m + c, k \in 1..m PROVE FALSE
    BY <1>10, <2>4
  <2> QED
    BY <1>7, <2>1, <2>2, <2>3, <2>4
<1>11. ASSUME NEW k \in 1..(m + n), NEW c \in Children(u[k].id) PROVE \E j \in 1..(m + n) : u[j].id = c
  <2>1. CASE k \in 1..m
    <3>1. PICK a \in 1..m : s[a].id = c
      BY <1>2, <1>5, <2>1 DEF Grove
    <3>2. a \in 1..(m + n)
      OBVIOUS
    <3> QED
      BY <1>5, <3>1, <3>2
  <2>2. ASSUME NEW d \in 1..n, k = m + d PROVE \E j \in 1..(m + n) : u[j].id = c
    <3>1. u[k] = t[d] /\ c \in Children(t[d].id)
      BY <1>6, <2>2
    <3>2. \A b \in 1..n : \A e \in Children(t[b].id) : \E a \in 1..n : t[a].id = e
      BY <1>2 DEF Grove
    <3>3. PICK a \in 1..n : t[a].id = c
      BY <3>1, <3>2
    <3> QED
      BY <1>6, <3>3
  <2> QED
    BY <1>7, <2>1, <2>2
<1>12. Grove(u, l, S \cup T)
  BY <1>4, <1>8, <1>9, <1>10, <1>11 DEF Grove, SiblingsAscend
<1> QED
  BY <1>3, <1>12

(* A node and then what is below it. *)
LEMMA GroveRoot ==
  ASSUME NEW l \in Nat, l <= MaxDir, NEW i \in DirId, NEW t, Grove(t, l + 1, Children(i))
  PROVE  Grove(<<[id |-> i, level |-> l]>> \o t, l, {i})
PROOF
<1>1. t \in Seq(Stop)
  BY DEF Grove
<1>2. PICK n \in Nat : n = Len(t)
  BY <1>1, LenProperties
<1>3. PICK h : h = <<[id |-> i, level |-> l]>>
  OBVIOUS
<1>4. h \in Seq(Stop) /\ Len(h) = 1 /\ h[1].id = i /\ h[1].level = l
  <2>1. [id |-> i, level |-> l] \in Stop
    BY DEF Stop
  <2> QED
    BY <1>3, <2>1
<1>5. PICK u : u = h \o t
  OBVIOUS
<1>6. /\ u \in Seq(Stop) /\ Len(u) = 1 + n
      /\ \A a \in 1..(1 + n) : u[a] = IF a <= 1 THEN h[a] ELSE t[a - 1]
  <2>1. /\ u \in Seq(Stop) /\ Len(u) = Len(h) + Len(t)
        /\ \A a \in 1..(Len(h) + Len(t)) : u[a] = IF a <= Len(h) THEN h[a] ELSE t[a - Len(h)]
    BY <1>1, <1>4, <1>5, ConcatProperties
  <2> QED
    BY <1>2, <1>4, <2>1
<1>7. u[1].id = i /\ u[1].level = l /\ 1 \in 1..(1 + n)
  BY <1>4, <1>6
<1>8. Embeds(t, u, 1) /\ \A a \in 1..n : u[1 + a] = t[a] /\ 1 + a \in 1..(1 + n)
  <2>1. ASSUME NEW a \in 1..n PROVE 1 + a \in 1..(1 + n) /\ u[1 + a] = t[a]
    <3>1. 1 + a \in 1..(1 + n) /\ ~ (1 + a <= 1) /\ (1 + a) - 1 = a
      OBVIOUS
    <3> QED
      BY <1>6, <3>1
  <2> QED
    BY <1>2, <1>6, <2>1 DEF Embeds
<1>9. \A a \in 1..(1 + n) : a = 1 \/ \E b \in 1..n : a = 1 + b
  <2>1. SUFFICES ASSUME NEW a \in 1..(1 + n), a # 1 PROVE \E b \in 1..n : a = 1 + b
    OBVIOUS
  <2>2. a - 1 \in 1..n /\ a = 1 + (a - 1)
    BY <2>1
  <2> QED
    BY <2>2
<1>10. ASSUME NEW b \in 1..n
       PROVE  /\ t[b].level \in Nat /\ t[b].level >= l + 1
              /\ t[b].level = l + 1 => t[b].id \in Children(i)
              /\ t[b].level # l + 1 => \E m \in 1..(b - 1) : ParentAt(t, m, b)
  BY <1>1, <1>2, StopIs DEF Grove
<1>11. ASSUME NEW k \in 1..(1 + n)
       PROVE  /\ u[k].level >= l
              /\ u[k].level = l => u[k].id \in {i}
              /\ u[k].level # l => \E m \in 1..(k - 1) : ParentAt(u, m, k)
  <2>1. CASE k = 1
    BY <1>7, <2>1
  <2>2. ASSUME NEW b \in 1..n, k = 1 + b
        PROVE  u[k].level >= l + 1 /\ \E m \in 1..(k - 1) : ParentAt(u, m, k)
    <3>1. u[k] = t[b]
      BY <1>8, <2>2
    <3>2. CASE t[b].level = l + 1
      <4>1. dir[u[k].id] = i
        BY <1>10, <3>1, <3>2 DEF Children
      <4>2. ASSUME NEW q \in (1 + 1)..(k - 1) PROVE u[q].level >= u[k].level
        <5>1. q - 1 \in 1..n /\ 1 + (q - 1) = q
          BY <2>2
        <5>2. u[q] = t[q - 1]
          BY <1>8, <5>1
        <5>3. t[q - 1].level >= l + 1
          BY <1>10, <5>1
        <5> QED
          BY <3>1, <3>2, <5>2, <5>3
      <4>3. ParentAt(u, 1, k) /\ 1 \in 1..(k - 1)
        BY <1>7, <2>2, <3>1, <3>2, <4>1, <4>2 DEF ParentAt
      <4> QED
        BY <1>10, <3>1, <4>3
    <3>3. CASE t[b].level # l + 1
      <4>1. PICK m \in 1..(b - 1) : ParentAt(t, m, b)
        BY <1>10, <3>3
      <4>2. 1 + m \in 1..((1 + b) - 1) /\ ParentAt(u, 1 + m, 1 + b)
        BY <1>2, <1>8, <4>1, ParentMoves
      <4> QED
        BY <1>10, <2>2, <3>1, <4>2
    <3> QED
      BY <3>2, <3>3
  <2>3. ASSUME NEW b \in 1..n, k = 1 + b PROVE u[k].level # l
    <3>1. u[k].level >= l + 1 /\ u[k].level \in Nat
      BY <1>8, <1>10, <2>2, <2>3
    <3> QED
      BY <3>1
  <2>4. ASSUME NEW b \in 1..n, k = 1 + b PROVE u[k].level >= l
    <3>1. u[k].level >= l + 1 /\ u[k].level \in Nat
      BY <1>8, <1>10, <2>2, <2>4
    <3> QED
      BY <3>1
  <2> QED
    BY <1>9, <2>1, <2>2, <2>3, <2>4
<1>12. \E k \in 1..(1 + n) : u[k].id = i
  BY <1>7
<1>13. ASSUME NEW j \in 1..(1 + n), NEW k \in 1..(1 + n), j < k, u[j].level = u[k].level,
              \A q \in j..k : u[q].level >= u[k].level
       PROVE  u[j].id < u[k].id
  <2>1. PICK d \in 1..n : k = 1 + d
    BY <1>9, <1>13
  <2>2. u[k].level >= l + 1 /\ u[k].level \in Nat
    BY <1>8, <1>10, <2>1
  <2>3. PICK c \in 1..n : j = 1 + c
    BY <1>7, <1>9, <1>13, <2>2
  <2>4. c < d /\ SiblingsAscend(t)
    BY <1>13, <2>1, <2>3 DEF Grove
  <2> QED
    BY <1>2, <1>8, <1>13, <2>1, <2>3, <2>4, OrderMoves
<1>14. ASSUME NEW k \in 1..(1 + n), NEW c \in Children(u[k].id) PROVE \E j \in 1..(1 + n) : u[j].id = c
  <2>1. CASE k = 1
    <3>1. PICK a \in 1..n : t[a].id = c
      BY <1>2, <1>7, <2>1 DEF Grove
    <3> QED
      BY <1>8, <3>1
  <2>2. ASSUME NEW d \in 1..n, k = 1 + d PROVE \E j \in 1..(1 + n) : u[j].id = c
    <3>1. u[k] = t[d] /\ c \in Children(t[d].id)
      BY <1>8, <2>2
    <3>2. \A b \in 1..n : \A e \in Children(t[b].id) : \E a \in 1..n : t[a].id = e
      BY <1>2 DEF Grove
    <3>3. PICK a \in 1..n : t[a].id = c
      BY <3>1, <3>2
    <3> QED
      BY <1>8, <3>3
  <2> QED
    BY <1>9, <2>1, <2>2
<1>15. Grove(u, l, {i})
  BY <1>6, <1>11, <1>12, <1>13, <1>14 DEF Grove, SiblingsAscend
<1> QED
  BY <1>3, <1>5, <1>15

(* Several walks one after the other. *)
FirstOf(c, q) == {c[a] : a \in 1..q}

LEMMA GroveFlatten ==
  ASSUME NEW l \in Nat, NEW q \in Nat, NEW c, NEW ss \in Seq(Seq(Stop)), Len(ss) = q,
         \A a \in 1..q : Grove(ss[a], l, {c[a]}),
         \A a, b \in 1..q : a < b => c[a] < c[b]
  PROVE  Grove(FlattenSeq(ss), l, FirstOf(c, q))
PROOF
<1>1. CASE q = 0
  <2>1. ss = << >> /\ FlattenSeq(ss) = ss
    BY <1>1, EmptySeq DEF FlattenSeq
  <2>2. FirstOf(c, q) = {}
    BY <1>1 DEF FirstOf
  <2> QED
    BY <2>1, <2>2, NoGrove
<1>2. CASE q # 0
  <2>1. PICK f : IsFlat(f, ss, q) /\ FlattenSeq(ss) = f[q]
    BY <1>2, FlatIs
  <2> DEFINE bad == {m \in Nat : m \in 1..q /\ ~Grove(f[m], l, FirstOf(c, m))}
  <2>2. bad = {}
    <3>1. SUFFICES ASSUME bad # {} PROVE FALSE
      OBVIOUS
    <3>2. PICK m \in bad : \A k \in bad : m <= k
      BY <3>1, LeastOf
    <3>3. f[m] = IF m = 1 THEN ss[m] ELSE f[m - 1] \o ss[m]
      BY <2>1, <3>2 DEF IsFlat
    <3>4. CASE m = 1
      <4>1. FirstOf(c, m) = {c[m]}
        BY <3>4 DEF FirstOf
      <4> QED
        BY <3>2, <3>3, <3>4, <4>1
    <3>5. CASE m # 1
      <4>1. m - 1 \in 1..q /\ m - 1 \in Nat /\ m - 1 \notin bad /\ m \in 1..q
        <5>1. m \in Nat /\ m \in 1..q /\ m - 1 \in 1..q /\ m - 1 \in Nat /\ ~ (m <= m - 1)
          BY <3>2, <3>5
        <5> QED
          BY <3>2, <5>1
      <4>2. PICK S : S = FirstOf(c, m - 1)
        OBVIOUS
      <4>3. PICK T : T = {c[m]}
        OBVIOUS
      <4>4. Grove(f[m - 1], l, S) /\ Grove(ss[m], l, T)
        BY <4>1, <4>2, <4>3
      <4>5. \A x \in S, y \in T : x < y
        <5>1. \A a \in 1..(m - 1) : a \in 1..q /\ a < m
          BY <4>1
        <5> QED
          BY <4>1, <4>2, <4>3, <5>1 DEF FirstOf
      <4>6. Grove(f[m - 1] \o ss[m], l, S \cup T)
        BY <4>4, <4>5, GroveJoin
      <4>7. FirstOf(c, m) = S \cup T
        <5>1. \A a : a \in 1..m <=> a \in 1..(m - 1) \/ a = m
          BY <4>1
        <5> QED
          BY <4>2, <4>3, <5>1 DEF FirstOf
      <4> QED
        BY <3>2, <3>3, <3>5, <4>6, <4>7
    <3> QED
      BY <3>4, <3>5
  <2>3. q \in 1..q
    BY <1>2
  <2> QED
    BY <2>1, <2>2, <2>3
<1> QED
  BY <1>1, <1>2

(* mgd_walk_table_tree: each node and what is below it. *)
From(f, h, i) ==
  IF h = 0 THEN <<[id |-> i, level |-> MaxDir]>>
  ELSE <<[id |-> i, level |-> MaxDir - h]>>
       \o FlattenSeq([k \in DOMAIN InOrder(Children(i)) |-> f[h - 1][InOrder(Children(i))[k]]])

IsWalks(f, n) == f = [h \in 0..n |-> [i \in DirId |-> From(f, h, i)]]

LEMMA WalksExist == ASSUME NEW n \in Nat PROVE \E f : IsWalks(f, n)
PROOF
<1> DEFINE bad == {m \in Nat : ~ \E f : IsWalks(f, m)}
<1>1. SUFFICES ASSUME bad # {} PROVE FALSE
  OBVIOUS
<1>2. PICK m \in bad : \A k \in bad : m <= k
  BY <1>1, LeastOf
<1>3. CASE m = 0
  <2>1. PICK f : f = [h \in 0..0 |-> [i \in DirId |-> From(n, 0, i)]]
    OBVIOUS
  <2>2. \A i : From(n, 0, i) = From(f, 0, i)
    BY DEF From
  <2>3. f = [h \in 0..0 |-> [i \in DirId |-> From(f, h, i)]]
    BY <2>1, <2>2
  <2> QED
    BY <1>2, <1>3, <2>3 DEF IsWalks
<1>4. CASE m # 0
  <2>1. m - 1 \in Nat /\ m - 1 \notin bad
    BY <1>2, <1>4
  <2>2. PICK f : IsWalks(f, m - 1)
    BY <2>1
  <2>3. PICK g : g = [h \in 0..m |-> [i \in DirId |-> From(f, h, i)]]
    OBVIOUS
  <2>4. ASSUME NEW h \in 0..(m - 1) PROVE g[h] = f[h]
    <3>1. h \in 0..m
      BY <2>1
    <3>2. g[h] = [i \in DirId |-> From(f, h, i)]
      BY <2>3, <3>1
    <3>3. f[h] = [i \in DirId |-> From(f, h, i)]
      BY <2>2 DEF IsWalks
    <3> QED
      BY <3>2, <3>3
  <2>5. ASSUME NEW h \in 0..m, NEW i PROVE From(f, h, i) = From(g, h, i)
    <3>1. h # 0 => h - 1 \in 0..(m - 1)
      BY <2>1
    <3>2. h # 0 => f[h - 1] = g[h - 1]
      BY <2>4, <3>1
    <3> QED
      BY <3>2 DEF From
  <2>6. g = [h \in 0..m |-> [i \in DirId |-> From(g, h, i)]]
    BY <2>3, <2>5
  <2> QED
    BY <1>2, <2>6 DEF IsWalks
<1> QED
  BY <1>3, <1>4

LEMMA WalksAre == ASSUME NEW root PROVE \E f : IsWalks(f, MaxDir) /\ Walk(root) = f[MaxDir][root]
PROOF
<1> DEFINE Whole(g) ==
             g = [h \in 0..MaxDir |->
                    [i \in DirId |->
                       IF h = 0 THEN <<[id |-> i, level |-> MaxDir]>>
                       ELSE <<[id |-> i, level |-> MaxDir - h]>>
                            \o FlattenSeq([k \in DOMAIN InOrder(Children(i)) |-> g[h - 1][InOrder(Children(i))[k]]])]]
           f == CHOOSE g : Whole(g)
<1>1. \A g : IsWalks(g, MaxDir) <=> Whole(g)
  BY DEF IsWalks, From
<1>2. \E g : Whole(g)
  <2>1. PICK g : IsWalks(g, MaxDir)
    BY WalksExist
  <2> QED
    BY <1>1, <2>1
<1>3. Whole(f)
  BY <1>2
<1>4. Walk(root) = f[MaxDir][root]
  BY DEF Walk
<1> QED
  BY <1>1, <1>3, <1>4

(* Children are younger than what they hang below, so nothing is cut off. *)
LEMMA WalkStep ==
  ASSUME LegacyType, TreeShape, NEW f, IsWalks(f, MaxDir), NEW h \in Nat, h + 1 <= MaxDir,
         \A i \in DirId : i > MaxDir - h => Grove(f[h][i], MaxDir - h, {i}),
         NEW i \in DirId, i > MaxDir - (h + 1)
  PROVE  Grove(f[h + 1][i], MaxDir - (h + 1), {i})
PROOF
<1>1. PICK l \in Nat : l = MaxDir - (h + 1)
  <2>1. MaxDir - (h + 1) \in Nat
    OBVIOUS
  <2> QED
    BY <2>1
<1>2. MaxDir - h = l + 1 /\ l <= MaxDir /\ h + 1 \in 0..MaxDir /\ h + 1 # 0 /\ (h + 1) - 1 = h
  BY <1>1
<1>3. Children(i) \in SUBSET Numbers(MaxDir)
  BY DEF Children, DirId, Numbers
<1>4. PICK s : s = InOrder(Children(i))
  OBVIOUS
<1>5. /\ DOMAIN s = 1..Len(s) /\ s \in Seq(Numbers(MaxDir))
      /\ \A a \in 1..Len(s) : s[a] \in Children(i)
      /\ \A x \in Children(i) : \E a \in 1..Len(s) : s[a] = x
      /\ \A a, b \in 1..Len(s) : a < b => s[a] < s[b]
  BY <1>3, <1>4, InOrderIs
<1>6. PICK q \in Nat : q = Len(s)
  BY <1>5, LenProperties
<1>7. PICK ss : ss = [k \in DOMAIN s |-> f[h][s[k]]]
  OBVIOUS
<1>8. ASSUME NEW a \in 1..q PROVE Grove(ss[a], l + 1, {s[a]})
  <2>1. PICK c : c = s[a] /\ c \in Children(i)
    BY <1>5, <1>6
  <2>2. c \in DirId /\ dir[c] = i
    BY <2>1 DEF Children
  <2>3. i < c
    BY <2>2 DEF TreeShape
  <2>4. c > MaxDir - h
    BY <1>1, <1>2, <2>2, <2>3 DEF DirId
  <2>5. Grove(f[h][c], l + 1, {c})
    BY <1>2, <2>2, <2>4
  <2>6. ss[a] = f[h][c]
    BY <1>5, <1>6, <1>7, <2>1
  <2> QED
    BY <2>1, <2>5, <2>6
<1>9. ss \in Seq(Seq(Stop)) /\ Len(ss) = q
  <2>1. \A a \in 1..q : ss[a] \in Seq(Stop)
    BY <1>8 DEF Grove
  <2>2. ss \in [1..q -> Seq(Stop)]
    BY <1>5, <1>6, <1>7, <2>1
  <2>3. ss \in Seq(Seq(Stop))
    BY <2>2, SeqDef
  <2> QED
    BY <2>2, <2>3, LenProperties
<1>10. Grove(FlattenSeq(ss), l + 1, FirstOf(s, q))
  <2>1. (\A a \in 1..q : Grove(ss[a], l + 1, {s[a]})) /\ (\A a, b \in 1..q : a < b => s[a] < s[b])
    BY <1>5, <1>6, <1>8
  <2>2. l + 1 \in Nat
    OBVIOUS
  <2> QED
    BY <1>9, <2>1, <2>2, GroveFlatten
<1>11. FirstOf(s, q) = Children(i)
  BY <1>5, <1>6 DEF FirstOf
<1>12. Grove(<<[id |-> i, level |-> l]>> \o FlattenSeq(ss), l, {i})
  <2>1. Grove(FlattenSeq(ss), l + 1, Children(i))
    BY <1>10, <1>11
  <2> QED
    BY <1>2, <2>1, GroveRoot
<1>13. f[h + 1][i] = <<[id |-> i, level |-> l]>> \o FlattenSeq(ss)
  <2>1. f[h + 1][i] = From(f, h + 1, i)
    <3>1. f[h + 1] = [j \in DirId |-> From(f, h + 1, j)]
      BY <1>2 DEF IsWalks
    <3> QED
      BY <3>1
  <2>2. From(f, h + 1, i) = <<[id |-> i, level |-> l]>> \o FlattenSeq([k \in DOMAIN s |-> f[(h + 1) - 1][s[k]]])
    BY <1>1, <1>2, <1>4 DEF From
  <2> QED
    BY <1>2, <1>7, <2>1, <2>2
<1> QED
  BY <1>1, <1>12, <1>13

LEMMA WalkIs == ASSUME LegacyType, TreeShape, NEW root \in DirId PROVE Grove(Walk(root), 0, {root})
PROOF
<1>1. PICK f : IsWalks(f, MaxDir) /\ Walk(root) = f[MaxDir][root]
  BY WalksAre
<1> DEFINE Good(h) == \A i \in DirId : i > MaxDir - h => Grove(f[h][i], MaxDir - h, {i})
           bad == {h \in Nat : h <= MaxDir /\ ~Good(h)}
<1>2. SUFFICES bad = {}
  <2>1. MaxDir \in Nat /\ MaxDir <= MaxDir /\ MaxDir - MaxDir = 0 /\ root > MaxDir - MaxDir
    BY DEF DirId
  <2>2. Good(MaxDir)
    BY <1>2, <2>1
  <2>3. Grove(f[MaxDir][root], MaxDir - MaxDir, {root})
    BY <2>1, <2>2
  <2> QED
    BY <1>1, <2>1, <2>3
<1>3. SUFFICES ASSUME bad # {} PROVE FALSE
  OBVIOUS
<1>4. PICK m \in bad : \A k \in bad : m <= k
  BY <1>3, LeastOf
<1>5. CASE m = 0
  <2>1. \A i \in DirId : ~ (i > MaxDir - 0)
    BY DEF DirId
  <2>2. Good(0)
    BY <2>1
  <2> QED
    BY <1>4, <1>5, <2>2
<1>6. CASE m # 0
  <2>1. PICK h \in Nat : m = h + 1 /\ h + 1 <= MaxDir /\ ~ (m <= h)
    <3>1. m - 1 \in Nat /\ m = (m - 1) + 1 /\ (m - 1) + 1 <= MaxDir /\ ~ (m <= m - 1)
      BY <1>4, <1>6
    <3> QED
      BY <3>1
  <2>2. h \notin bad
    BY <1>4, <2>1
  <2>3. Good(h)
    <3>1. h <= MaxDir
      BY <2>1
    <3> QED
      BY <2>2, <3>1
  <2>4. \A i \in DirId : i > MaxDir - (h + 1) => Grove(f[h + 1][i], MaxDir - (h + 1), {i})
    BY <1>1, <2>1, <2>3, WalkStep
  <2> QED
    BY <1>4, <2>1, <2>4
<1> QED
  BY <1>5, <1>6

(* What follows for the walk of a tree: it starts at the root, every other stop *)
(* is a node that is there, and none is walked twice.                           *)
LEMMA RootFirst ==
  ASSUME NEW r, NEW W, Grove(W, 0, {r})
  PROVE  /\ W \in Seq(Stop) /\ Len(W) \in Nat /\ 1 \in 1..Len(W)
         /\ W[1].id = r /\ W[1].level = 0
         /\ \A k \in 1..Len(W) : k # 1 => \E m \in 1..(k - 1) : ParentAt(W, m, k)
PROOF
<1>1. W \in Seq(Stop)
  BY DEF Grove
<1>2. Len(W) \in Nat
  BY <1>1, LenProperties
<1>3. PICK i \in 1..Len(W) : W[i].id = r
  BY DEF Grove
<1>4. 1 \in 1..Len(W)
  BY <1>2, <1>3
<1>5. W[1].level = 0
  BY <1>4, FirstStop
<1>6. W[1].id = r
  BY <1>4, <1>5 DEF Grove
<1>7. ASSUME NEW k \in 1..Len(W), k # 1 PROVE \E m \in 1..(k - 1) : ParentAt(W, m, k)
  <2>1. SUFFICES W[k].level # 0
    BY <2>1 DEF Grove
  <2>2. SUFFICES ASSUME W[k].level = 0 PROVE FALSE
    OBVIOUS
  <2>3. W[k].id = r
    BY <2>2 DEF Grove
  <2>4. \A q \in 1..k : W[q].level >= W[k].level
    <3>1. \A q \in 1..k : q \in 1..Len(W)
      BY <1>2
    <3> QED
      BY <2>2, <3>1 DEF Grove
  <2>5. W[1].id < W[k].id
    <3>1. SiblingsAscend(W) /\ 1 < k
      BY <1>2, <1>7 DEF Grove
    <3> QED
      BY <1>4, <1>5, <2>2, <2>4, <3>1 DEF SiblingsAscend
  <2>6. W[k].id \in Nat
    BY <1>1, StopIs DEF DirId
  <2> QED
    BY <1>6, <2>3, <2>5, <2>6
<1> QED
  BY <1>1, <1>2, <1>4, <1>5, <1>6, <1>7

LEMMA NodesHang ==
  ASSUME NEW r, NEW W, Grove(W, 0, {r}), NEW k \in 1..Len(W), k # 1
  PROVE  /\ W[k].id \in DirId /\ dir[W[k].id] \in DirId /\ HasDir(W[k].id)
         /\ \E m \in 1..(k - 1) : ParentAt(W, m, k) /\ m \in 1..Len(W) /\ W[m].id \in DirId
PROOF
<1>1. /\ W \in Seq(Stop) /\ Len(W) \in Nat
      /\ \E m \in 1..(k - 1) : ParentAt(W, m, k)
  BY RootFirst
<1>2. PICK m \in 1..(k - 1) : ParentAt(W, m, k)
  BY <1>1
<1>3. m \in 1..Len(W)
  BY <1>1
<1>4. W[m].id \in DirId /\ W[k].id \in DirId
  BY <1>1, <1>3, StopIs
<1>5. dir[W[k].id] = W[m].id
  BY <1>2 DEF ParentAt
<1>6. \A d \in DirId : d \notin {Unused, Gone}
  BY NoMarker
<1> QED
  BY <1>2, <1>3, <1>4, <1>5, <1>6 DEF HasDir

LEMMA RootIsOldest ==
  ASSUME LegacyType, TreeShape, NEW r \in DirId, NEW W, Grove(W, 0, {r}), NEW k \in 1..Len(W)
  PROVE  r <= W[k].id
PROOF
<1> DEFINE bad == {n \in Nat : n \in 1..Len(W) /\ ~ (r <= W[n].id)}
<1>1. W \in Seq(Stop) /\ Len(W) \in Nat /\ W[1].id = r
  BY RootFirst
<1>2. SUFFICES bad = {}
  BY <1>1, <1>2
<1>3. SUFFICES ASSUME bad # {} PROVE FALSE
  OBVIOUS
<1>4. PICK n \in bad : \A j \in bad : n <= j
  BY <1>3, LeastOf
<1>5. n \in 1..Len(W) /\ ~ (r <= W[n].id)
  BY <1>4
<1>6. n # 1
  BY <1>1, <1>5 DEF DirId
<1>7. W[n].id \in DirId /\ \E m \in 1..(n - 1) : ParentAt(W, m, n) /\ m \in 1..Len(W) /\ W[m].id \in DirId
  BY <1>5, <1>6, NodesHang
<1>8. PICK m \in 1..(n - 1) : ParentAt(W, m, n) /\ m \in 1..Len(W) /\ W[m].id \in DirId
  BY <1>7
<1>9. W[m].id < W[n].id
  BY <1>7, <1>8 DEF ParentAt, TreeShape
<1>10. m \notin bad
  <2>1. m \in Nat /\ ~ (n <= m)
    BY <1>5, <1>8
  <2> QED
    BY <1>4, <2>1
<1>11. r <= W[m].id
  BY <1>8, <1>10
<1> QED
  BY <1>5, <1>7, <1>8, <1>9, <1>11 DEF DirId

LEMMA NoNodeTwice ==
  ASSUME LegacyType, TreeShape, NEW r \in DirId, NEW W, Grove(W, 0, {r})
  PROVE  \A j, k \in 1..Len(W) : W[j].id = W[k].id => j = k
PROOF
<1> DEFINE bad == {n \in Nat : n \in 1..Len(W) /\ \E j \in 1..(n - 1) : W[j].id = W[n].id}
<1>1. W \in Seq(Stop) /\ Len(W) \in Nat /\ W[1].id = r
  BY RootFirst
<1>2. SUFFICES bad = {}
  <2>1. ASSUME NEW j \in 1..Len(W), NEW k \in 1..Len(W), j < k, W[j].id = W[k].id PROVE FALSE
    <3>1. k \in Nat /\ j \in 1..(k - 1)
      BY <1>1, <2>1
    <3> QED
      BY <1>2, <2>1, <3>1
  <2>2. SUFFICES ASSUME NEW j \in 1..Len(W), NEW k \in 1..Len(W), W[j].id = W[k].id PROVE j = k
    OBVIOUS
  <2>3. j < k \/ k < j \/ j = k
    BY <1>1
  <2> QED
    BY <2>1, <2>2, <2>3
<1>3. SUFFICES ASSUME bad # {} PROVE FALSE
  OBVIOUS
<1>4. PICK k \in bad : \A n \in bad : k <= n
  BY <1>3, LeastOf
<1>5. PICK j \in 1..(k - 1) : W[j].id = W[k].id
  BY <1>4
<1>6. k \in 1..Len(W) /\ k \in Nat /\ j \in 1..Len(W) /\ k # 1
  BY <1>1, <1>4, <1>5
<1>7. W[k].id \in DirId /\ \E m \in 1..(k - 1) : ParentAt(W, m, k) /\ m \in 1..Len(W) /\ W[m].id \in DirId
  BY <1>6, NodesHang
<1>8. PICK m \in 1..(k - 1) : ParentAt(W, m, k) /\ m \in 1..Len(W) /\ W[m].id \in DirId
  BY <1>7
<1>9. CASE j = 1
  <2>1. W[m].id < r
    BY <1>1, <1>5, <1>7, <1>8, <1>9 DEF ParentAt, TreeShape
  <2>2. r <= W[m].id
    BY <1>8, RootIsOldest
  <2> QED
    BY <1>8, <2>1, <2>2 DEF DirId
<1>10. CASE j # 1
  <2>1. \E p \in 1..(j - 1) : ParentAt(W, p, j) /\ p \in 1..Len(W) /\ W[p].id \in DirId
    BY <1>6, <1>10, NodesHang
  <2>2. PICK p \in 1..(j - 1) : ParentAt(W, p, j) /\ p \in 1..Len(W) /\ W[p].id \in DirId
    BY <2>1
  <2>3. W[p].id = W[m].id
    BY <1>5, <1>8, <2>2 DEF ParentAt
  <2>4. ASSUME NEW a \in 1..(k - 1), NEW b \in 1..(k - 1), a < b, W[a].id = W[b].id PROVE FALSE
    <3>1. b \in Nat /\ b \in 1..Len(W) /\ a \in 1..(b - 1) /\ ~ (k <= b)
      BY <1>1, <1>6, <2>4
    <3>2. b \in bad
      BY <2>4, <3>1
    <3> QED
      BY <1>4, <3>1, <3>2
  <2>5. p = m
    <3>1. p \in 1..(k - 1) /\ (p < m \/ m < p \/ p = m)
      BY <1>5, <1>6, <1>8, <2>2
    <3> QED
      BY <1>8, <2>3, <2>4, <3>1
  <2>6. W[j].level = W[k].level
    BY <1>8, <2>2, <2>5 DEF ParentAt
  <2>7. ASSUME NEW q \in j..k PROVE W[q].level >= W[k].level
    <3>1. CASE q = k
      <4>1. W[k].level \in Nat
        BY <1>1, <1>6, StopIs
      <4> QED
        BY <3>1, <4>1
    <3>2. CASE q # k
      <4>1. q \in (m + 1)..(k - 1)
        BY <1>6, <2>2, <2>5, <3>2
      <4> QED
        BY <1>8, <4>1 DEF ParentAt
    <3> QED
      BY <3>1, <3>2
  <2>8. W[j].id < W[k].id
    <3>1. SiblingsAscend(W) /\ j < k
      BY <1>5, <1>6 DEF Grove
    <3> QED
      BY <1>6, <2>6, <2>7, <3>1 DEF SiblingsAscend
  <2> QED
    BY <1>5, <1>7, <2>8 DEF DirId
<1> QED
  BY <1>9, <1>10

(* A tree whose root was never inserted has no other node. *)
LEMMA NothingBelow ==
  ASSUME LegacyType, TreeShape, NEW r \in DirId, ~Used(r), NEW W, Grove(W, 0, {r}), NEW k \in 1..Len(W)
  PROVE  W[k].id = r
PROOF
<1>1. Len(W) \in Nat /\ W[1].id = r
  BY RootFirst
<1>2. SUFFICES ASSUME k # 1 PROVE FALSE
  BY <1>1
<1>3. 2 \in 1..Len(W) /\ 2 # 1
  BY <1>1, <1>2
<1>4. W[2].id \in DirId /\ \E m \in 1..(2 - 1) : ParentAt(W, m, 2)
  BY <1>3, NodesHang
<1>5. ParentAt(W, 1, 2)
  BY <1>4
<1>6. dir[W[2].id] = r
  BY <1>1, <1>5 DEF ParentAt
<1> QED
  BY <1>4, <1>6 DEF TreeShape

(* The walk stays what it is while nothing is put below its nodes. *)
LEMMA GroveStays ==
  ASSUME NEW r, NEW W, Grove(W, 0, {r}),
         \A k \in 1..Len(W) : /\ k # 1 => dir'[W[k].id] = dir[W[k].id]
                              /\ Children(W[k].id)' = Children(W[k].id)
  PROVE  Grove(W, 0, {r})'
PROOF
<1>1. W \in Seq(Stop) /\ \A x \in {r} : \E k \in 1..Len(W) : W[k].id = x
  BY DEF Grove
<1>2. SiblingsAscend(W) /\ (SiblingsAscend(W) => SiblingsAscend(W)')
  BY DEF Grove, SiblingsAscend
<1>3. ASSUME NEW k \in 1..Len(W), W[k].level # 0 PROVE \E m \in 1..(k - 1) : ParentAt(W, m, k)'
  <2>1. PICK m \in 1..(k - 1) : ParentAt(W, m, k)
    BY <1>3 DEF Grove
  <2>2. k # 1
    BY <2>1
  <2> QED
    BY <2>1, <2>2 DEF ParentAt
<1>4. \A k \in 1..Len(W) : W[k].level >= 0 /\ (W[k].level = 0 => W[k].id \in {r})
  BY DEF Grove
<1>5. ASSUME NEW k \in 1..Len(W), NEW c \in Children(W[k].id)' PROVE \E j \in 1..Len(W) : W[j].id = c
  <2>1. c \in Children(W[k].id)
    BY <1>5
  <2> QED
    BY <2>1 DEF Grove
<1> QED
  BY <1>1, <1>2, <1>3, <1>4, <1>5 DEF Grove, Stop

-----------------------------------------------------------------------------
(* The steps keep LegacyInv. *)
LEMMA JobIs ==
  ASSUME LegacyType, job # NoJob
  PROVE  /\ job \in Job /\ job.op \in {"copy", "delete"} /\ job.root \in DirId
         /\ job.pc \in {"walk", "node", "row"} /\ job.ups \in Seq(0..MaxDir) /\ job.todo \in Seq(Stop)
         /\ job.leaves \in Seq(LeafId) /\ job.to \in 0..MaxDir /\ job.ok \in BOOLEAN
         /\ Len(job.ups) \in Nat /\ Len(job.todo) \in Nat /\ Len(job.leaves) \in Nat
PROOF
<1>1. job \in Job
  BY DEF LegacyType
<1>2. job.ups \in Seq(0..MaxDir) /\ job.todo \in Seq(Stop) /\ job.leaves \in Seq(LeafId)
  BY <1>1 DEF Job
<1>3. Len(job.ups) \in Nat /\ Len(job.todo) \in Nat /\ Len(job.leaves) \in Nat
  BY <1>2, LenProperties
<1> QED
  BY <1>1, <1>2, <1>3 DEF Job

LEMMA QuietTables ==
  ASSUME LegacyInv, UNCHANGED <<kind, dir, leaf, extra>>, refused' \in 0..MaxRefused,
         disturbed' \in BOOLEAN, missed' \in BOOLEAN,
         origin' \in [dir : [DirId -> 0..MaxDir], leaf : [LeafId -> 0..MaxLeaf]],
         job' \in Job \cup {NoJob}, JobShape'
  PROVE  LegacyInv'
PROOF
<1>1. LegacyType /\ TreeShape /\ ExtraShape /\ NoStrayFile
  BY DEF LegacyInv
<1>2. LegacyType'
  BY <1>1 DEF LegacyType
<1>3. TreeShape'
  BY <1>1 DEF TreeShape, Used
<1>4. ExtraShape'
  BY <1>1 DEF ExtraShape, Used, Copier
<1>5. NoStrayFile'
  BY <1>1 DEF NoStrayFile
<1> QED
  BY <1>2, <1>3, <1>4, <1>5 DEF LegacyInv

IdsOf(ups, W) == Len(ups) = Len(W) + 1 /\ \A k \in 1..Len(W) : ups[k] = W[k].id

(* What is refused is counted. *)
LEMMA RefuseIs ==
  ASSUME LegacyType, NEW n \in Nat, Refuse(n)
  PROVE  refused' \in 0..MaxRefused /\ (refused' = 0 <=> refused = 0 /\ n = 0)
PROOF
<1>1. refused \in Nat /\ MaxRefused \in Nat /\ refused + n <= MaxRefused /\ refused' = refused + n
  BY LegacyAssumption DEF LegacyType, Refuse
<1> QED
  BY <1>1

(* A walk read in one piece, or cut off where a SELECT was refused. *)
SoundWalk(W) == W \in Seq(Stop) /\ \A k \in 2..Len(W) : Used(W[k].id)

LEMMA WalkSound ==
  ASSUME LegacyType, TreeShape, NEW root \in DirId, NEW W, W = Walk(root)
  PROVE  Grove(W, 0, {root}) /\ SoundWalk(W) /\ Len(W) \in Nat
PROOF
<1>1. Grove(W, 0, {root})
  BY WalkIs
<1>2. W \in Seq(Stop) /\ Len(W) \in Nat
  BY <1>1, RootFirst
<1>3. ASSUME NEW k \in 2..Len(W) PROVE Used(W[k].id)
  <2>1. k \in 1..Len(W) /\ k # 1
    BY <1>2, <1>3
  <2>2. HasDir(W[k].id)
    BY <1>1, <1>2, <2>1, NodesHang
  <2> QED
    BY <2>2 DEF HasDir, Used
<1> QED
  BY <1>1, <1>2, <1>3 DEF SoundWalk

LEMMA CutIs == ASSUME NEW W, SoundWalk(W), NEW h PROVE SoundWalk(Cut(W, h))
PROOF
<1>1. PICK n \in Nat : n = Len(W) /\ DOMAIN W = 1..n
  BY LenProperties DEF SoundWalk
<1>2. PICK K : K = {k \in DOMAIN W : W[k].level <= h}
  OBVIOUS
<1>3. K \in SUBSET Numbers(n)
  BY <1>1, <1>2 DEF Numbers
<1>4. PICK kept : kept = InOrder(K)
  OBVIOUS
<1>5. /\ kept \in Seq(Numbers(n)) /\ DOMAIN kept = 1..Len(kept)
      /\ \A a \in 1..Len(kept) : kept[a] \in K
      /\ \A a, b \in 1..Len(kept) : a < b => kept[a] < kept[b]
  BY <1>3, <1>4, InOrderIs
<1>6. PICK m \in Nat : m = Len(kept)
  BY <1>5, LenProperties
<1>7. PICK C : C = Cut(W, h)
  OBVIOUS
<1>8. C = [a \in 1..m |-> W[kept[a]]]
  BY <1>2, <1>4, <1>5, <1>6, <1>7 DEF Cut
<1>9. \A a \in 1..m : kept[a] \in 1..n /\ W[kept[a]] \in Stop
  BY <1>1, <1>3, <1>5, <1>6, ElementOfSeq DEF SoundWalk, Numbers
<1>10. C \in [1..m -> Stop]
  BY <1>8, <1>9
<1>11. C \in Seq(Stop)
  BY <1>10, SeqDef
<1>12. Len(C) = m
  BY <1>10, <1>11, LenProperties
<1>13. ASSUME NEW k \in 2..m PROVE Used(C[k].id)
  <2>1. 1 \in 1..m /\ k \in 1..m /\ 1 < k
    BY <1>13
  <2>2. kept[1] \in 1..n /\ kept[k] \in 1..n /\ kept[1] < kept[k]
    BY <1>5, <1>6, <1>9, <2>1
  <2>3. kept[k] \in 2..n
    BY <2>2
  <2> QED
    BY <1>1, <1>8, <2>1, <2>3 DEF SoundWalk
<1> QED
  BY <1>7, <1>11, <1>12, <1>13 DEF SoundWalk

LEMMA ReadsIs ==
  ASSUME LegacyType, TreeShape, NEW root \in DirId, NEW r \in Reads(root)
  PROVE  r.n \in {0, 1} /\ SoundWalk(r.walk) /\ (r.n = 0 => r.walk = Walk(root))
PROOF
<1>1. PICK W : W = Walk(root)
  OBVIOUS
<1>2. SoundWalk(W)
  BY <1>1, WalkSound
<1>3. CASE r = [walk |-> W, n |-> 0]
  BY <1>1, <1>2, <1>3
<1>4. CASE \E k \in DOMAIN W : r = [walk |-> Cut(W, W[k].level), n |-> 1]
  <2>1. PICK k \in DOMAIN W : r = [walk |-> Cut(W, W[k].level), n |-> 1]
    BY <1>4
  <2>2. SoundWalk(Cut(W, W[k].level))
    BY <1>2, CutIs
  <2> QED
    BY <2>1, <2>2
<1> QED
  BY <1>1, <1>3, <1>4 DEF Reads

LEMMA TreeIs ==
  ASSUME NEW W, SoundWalk(W), NEW ups, ups = Tree(W)
  PROVE  /\ W \in Seq(Stop) /\ Len(W) \in Nat /\ ups \in Seq(0..MaxDir) /\ IdsOf(ups, W)
         /\ \A k \in 2..Len(ups) : ups[k] # 0 => Used(ups[k])
PROOF
<1>2. W \in Seq(Stop) /\ Len(W) \in Nat
  BY LenProperties DEF SoundWalk
<1>3. PICK n \in Nat : n = Len(W)
  BY <1>2
<1>4. DOMAIN W = 1..n
  BY <1>2, <1>3, LenProperties
<1>5. PICK ids : ids = [k \in DOMAIN W |-> W[k].id]
  OBVIOUS
<1>6. ups = Append(ids, 0)
  BY <1>5 DEF Tree
<1>7. ids \in Seq(0..MaxDir) /\ Len(ids) = n /\ \A k \in 1..n : ids[k] = W[k].id
  <2>1. \A k \in 1..n : W[k].id \in 0..MaxDir
    BY <1>2, <1>3, StopIs, NoMarker
  <2>2. ids \in [1..n -> 0..MaxDir]
    BY <1>4, <1>5, <2>1
  <2>3. ids \in Seq(0..MaxDir)
    BY <2>2, SeqDef
  <2> QED
    BY <1>4, <1>5, <2>2, <2>3, LenProperties
<1>8. /\ ups \in Seq(0..MaxDir) /\ Len(ups) = n + 1 /\ ups[n + 1] = 0
      /\ \A k \in 1..n : ups[k] = ids[k]
  <2>1. 0 \in 0..MaxDir
    OBVIOUS
  <2> QED
    BY <1>6, <1>7, <2>1, AppendProperties
<1>9. ASSUME NEW k \in 2..(n + 1), ups[k] # 0 PROVE Used(ups[k])
  <2>1. k \in 1..n /\ k \in 2..n
    BY <1>8, <1>9
  <2>2. Used(W[k].id)
    BY <1>3, <2>1 DEF SoundWalk
  <2> QED
    BY <1>7, <1>8, <2>1, <2>2
<1>10. IdsOf(ups, W)
  BY <1>3, <1>7, <1>8 DEF IdsOf
<1> QED
  BY <1>2, <1>3, <1>8, <1>9, <1>10

LEMMA RootIds == \A root \in 1..Dirs : root \in DirId
PROOF
  BY LegacyAssumption DEF DirId

LEMMA BeginKeeps ==
  ASSUME LegacyInv, NEW root \in DirId, BeginCopy(root) \/ BeginDelete(root)
  PROVE  LegacyInv'
PROOF
<1>1. LegacyType /\ TreeShape
  BY DEF LegacyInv
<1> DEFINE Begun(r, ups) ==
             /\ Refuse(r.n) /\ missed' = (r.n # 0)
             /\ ups = Tree(r.walk) \/ ups = Tree(Walk(root))
             /\ \E op \in {"copy", "delete"}, pc \in {"walk", "node"}, todo \in {<< >>, r.walk} :
                  /\ job' = [op |-> op, root |-> root, pc |-> pc, ups |-> ups,
                             todo |-> todo, leaves |-> << >>, to |-> 0, ok |-> TRUE]
                  /\ pc = "walk" => op = "copy"
<1>2. \E r \in Reads(root) : \E ups : Begun(r, ups)
  <2>1. CASE BeginCopy(root)
    <3>1. PICK r \in Reads(root) :
            /\ Refuse(r.n) /\ missed' = (r.n # 0)
            /\ job' = [op |-> "copy", root |-> root, pc |-> "walk", ups |-> Tree(r.walk),
                       todo |-> << >>, leaves |-> << >>, to |-> 0, ok |-> TRUE]
      BY <2>1 DEF BeginCopy
    <3>2. Begun(r, Tree(r.walk))
      BY <3>1
    <3> QED
      BY <3>2
  <2>2. CASE BeginDelete(root)
    <3>1. PICK r \in Reads(root) :
            /\ Refuse(r.n) /\ missed' = (r.n # 0)
            /\ job' = [op |-> "delete", root |-> root, pc |-> "node", ups |-> Tree(Walk(root)),
                       todo |-> r.walk, leaves |-> << >>, to |-> 0, ok |-> TRUE]
      BY <2>2 DEF BeginDelete
    <3>2. Begun(r, Tree(Walk(root)))
      BY <3>1
    <3> QED
      BY <3>2
  <2> QED
    BY <2>1, <2>2
<1>3. PICK r \in Reads(root) : \E ups : Begun(r, ups)
  BY <1>2
<1>4. PICK ups : Begun(r, ups)
  BY <1>3
<1>5. /\ r.walk \in Seq(Stop) /\ ups \in Seq(0..MaxDir) /\ \A k \in 2..Len(ups) : ups[k] # 0 => Used(ups[k])
      /\ r.n \in Nat /\ refused' \in 0..MaxRefused
  <2>1. PICK W, V : W = r.walk /\ V = Walk(root)
    OBVIOUS
  <2>2. SoundWalk(W) /\ SoundWalk(V) /\ r.n \in {0, 1}
    BY <1>1, <2>1, ReadsIs, WalkSound
  <2>3. W \in Seq(Stop) /\ ups \in Seq(0..MaxDir) /\ \A k \in 2..Len(ups) : ups[k] # 0 => Used(ups[k])
    <3>1. CASE ups = Tree(W)
      BY <2>2, <3>1, TreeIs
    <3>2. CASE ups = Tree(V)
      BY <2>2, <3>2, TreeIs DEF SoundWalk
    <3> QED
      BY <1>4, <2>1, <3>1, <3>2
  <2> QED
    BY <1>1, <1>4, <2>1, <2>2, <2>3, RefuseIs
<1>6. << >> \in Seq(Stop) /\ << >> \in Seq(LeafId) /\ 0 \in 0..MaxDir /\ TRUE \in BOOLEAN
  BY EmptySeq
<1>7. \E op \in {"copy", "delete"}, pc \in {"walk", "node"}, todo \in Seq(Stop) :
        /\ job' = [op |-> op, root |-> root, pc |-> pc, ups |-> ups,
                   todo |-> todo, leaves |-> << >>, to |-> 0, ok |-> TRUE]
        /\ pc = "walk" => op = "copy"
  BY <1>4, <1>5, <1>6
<1>8. PICK op \in {"copy", "delete"}, pc \in {"walk", "node"}, todo \in Seq(Stop) :
        /\ job' = [op |-> op, root |-> root, pc |-> pc, ups |-> ups,
                   todo |-> todo, leaves |-> << >>, to |-> 0, ok |-> TRUE]
        /\ pc = "walk" => op = "copy"
  BY <1>7
<1>9. /\ UNCHANGED <<kind, dir, leaf, extra>> /\ disturbed' = FALSE /\ missed' \in BOOLEAN
      /\ origin' \in {origin, NoOrigin}
  BY <1>4 DEF BeginCopy, BeginDelete
<1>10. job' \in Job
  BY <1>5, <1>6, <1>8 DEF Job
<1>11. JobShape'
  BY <1>5, <1>8, <1>9 DEF JobShape, Used
<1>12. origin' \in [dir : [DirId -> 0..MaxDir], leaf : [LeafId -> 0..MaxLeaf]]
  <2>1. NoOrigin \in [dir : [DirId -> 0..MaxDir], leaf : [LeafId -> 0..MaxLeaf]]
    BY <1>6, LegacyAssumption DEF NoOrigin
  <2> QED
    BY <1>1, <1>9, <2>1 DEF LegacyType
<1> QED
  BY <1>5, <1>9, <1>10, <1>11, <1>12, QuietTables

LEMMA StartKeeps == ASSUME LegacyInv, StartCopy PROVE LegacyInv'
PROOF
<1>1. LegacyType /\ TreeShape /\ JobShape /\ job # NoJob /\ job.pc = "walk"
  BY DEF LegacyInv, StartCopy
<1>2. job \in Job /\ job.root \in DirId
  BY <1>1, JobIs
<1>3. PICK r \in Reads(job.root) : /\ Refuse(r.n) /\ missed' = (missed \/ r.n # 0)
                                   /\ Work([job EXCEPT !.pc = "node", !.todo = r.walk])
  BY DEF StartCopy
<1>4. PICK W : W = r.walk
  OBVIOUS
<1>5. /\ job' = [job EXCEPT !.pc = "node", !.todo = W] /\ UNCHANGED <<kind, dir, leaf, extra, origin, disturbed>>
      /\ W \in Seq(Stop) /\ refused' \in 0..MaxRefused /\ missed' \in BOOLEAN
  <2>1. SoundWalk(W) /\ r.n \in Nat
    BY <1>1, <1>2, <1>3, <1>4, ReadsIs
  <2> QED
    BY <1>1, <1>3, <1>4, <2>1, RefuseIs DEF StartCopy, Work, SoundWalk
<1>6. job' \in Job
  BY <1>2, <1>5 DEF Job
<1>7. JobShape'
  BY <1>1, <1>2, <1>5 DEF JobShape, Job, Used
<1> QED
  BY <1>1, <1>5, <1>6, <1>7, QuietTables DEF LegacyType

LEMMA SkipKeeps == ASSUME LegacyInv, SkipNode PROVE LegacyInv'
PROOF
<1>1. LegacyType /\ JobShape /\ job # NoJob /\ job.op = "copy" /\ job.pc = "node" /\ job.todo # << >>
  BY DEF LegacyInv, SkipNode, AtNode
<1>2. job \in Job /\ job.todo \in Seq(Stop)
  BY <1>1, JobIs
<1>3. Tail(job.todo) \in Seq(Stop)
  BY <1>1, <1>2, HeadTailProperties
<1>4. /\ job' = [job EXCEPT !.todo = Tail(@)] /\ UNCHANGED <<kind, dir, leaf, extra, origin, disturbed>>
      /\ refused' \in 0..MaxRefused /\ missed' \in BOOLEAN
  <2>1. PICK there \in BOOLEAN : there = HasDir(Head(job.todo).id)
    BY DEF HasDir
  <2>2. Refuse(IF there THEN 1 ELSE 0) /\ missed' = (missed \/ there)
    BY <2>1 DEF SkipNode
  <2>3. PICK n \in Nat : n = IF there THEN 1 ELSE 0
    OBVIOUS
  <2>4. refused' \in 0..MaxRefused
    BY <1>1, <2>2, <2>3, RefuseIs
  <2> QED
    BY <2>2, <2>4 DEF SkipNode, Work
<1>5. job' \in Job
  BY <1>2, <1>3, <1>4 DEF Job
<1>6. JobShape'
  BY <1>1, <1>2, <1>4 DEF JobShape, Job, Used
<1> QED
  BY <1>1, <1>4, <1>5, <1>6, QuietTables DEF LegacyType

LEMMA EndKeeps == ASSUME LegacyInv, EndJob PROVE LegacyInv'
PROOF
<1>1. job' = NoJob /\ disturbed' = FALSE /\ UNCHANGED <<kind, dir, leaf, extra, refused, missed, origin>>
  BY DEF EndJob
<1>2. JobShape'
  BY <1>1 DEF JobShape
<1> QED
  BY <1>1, <1>2, QuietTables DEF LegacyInv, LegacyType

(* A row is written: a dir hangs at the top or below an older one, or is deleted. *)
LEMMA DirWritten ==
  ASSUME LegacyType, TreeShape, NEW d \in DirId, d \in NewDir \/ Used(d),
         NEW u \in 0..MaxDir \cup {Gone}, u \in DirId => u < d /\ Used(u),
         dir' = [dir EXCEPT ![d] = u]
  PROVE  /\ dir' \in [DirId -> 0..MaxDir \cup {Unused, Gone}]
         /\ TreeShape'
         /\ \A e : e \in DirId /\ Used(e) => Used(e)'
         /\ Used(d)'
PROOF
<1>1. dir \in [DirId -> 0..MaxDir \cup {Unused, Gone}]
  BY DEF LegacyType
<1>2. u # Unused
  BY NoMarker
<1>3. dir' \in [DirId -> 0..MaxDir \cup {Unused, Gone}] /\ dir'[d] = u /\ \A e \in DirId : e # d => dir'[e] = dir[e]
  BY <1>1
<1>4. Used(d)'
  BY <1>2, <1>3 DEF Used
<1>5. ASSUME NEW e \in DirId, Used(e) PROVE Used(e)'
  BY <1>3, <1>4, <1>5 DEF Used
<1>6. ASSUME NEW e \in DirId, NEW c \in DirId, c = dir'[e] PROVE c < e /\ Used(c)'
  <2>1. CASE e = d
    BY <1>3, <1>5, <1>6, <2>1
  <2>2. CASE e # d
    <3>1. dir[e] = c
      BY <1>3, <1>6, <2>2
    <3>2. c < e /\ Used(c)
      BY <3>1 DEF TreeShape
    <3> QED
      BY <1>5, <3>2
  <2> QED
    BY <2>1, <2>2
<1>7. ASSUME NEW a \in DirId, NEW e \in DirId, Used(e)', a < e PROVE Used(a)'
  <2>1. CASE Used(e)
    BY <1>5, <1>7, <2>1 DEF TreeShape
  <2>2. CASE ~Used(e)
    <3>1. e = d
      BY <1>3, <1>7, <2>2 DEF Used
    <3>2. d \in NewDir
      BY <2>2, <3>1
    <3>3. dir[a] = Unused => d <= a
      BY <3>2 DEF NewDir
    <3>4. Used(a)
      BY <1>7, <3>1, <3>3 DEF Used, DirId
    <3> QED
      BY <1>5, <3>4
  <2> QED
    BY <2>1, <2>2
<1>8. TreeShape'
  BY <1>6, <1>7 DEF TreeShape, Used
<1> QED
  BY <1>3, <1>4, <1>5, <1>8

(* An id that is new comes after all that were ever used. *)
LEMMA NewIsYoungest ==
  ASSUME LegacyType, TreeShape, NEW d \in NewDir, NEW e \in DirId, Used(e)
  PROVE  e < d /\ d \in DirId /\ ~Used(d) /\ e # d
PROOF
<1>1. d \in DirId /\ dir[d] = Unused
  BY DEF NewDir
<1>2. e # d /\ ~ (d < e)
  BY <1>1 DEF TreeShape, Used
<1> QED
  BY <1>1, <1>2 DEF DirId, Used

LEMMA LeafWritten ==
  ASSUME LegacyType, NEW l \in LeafId, NEW u \in 0..MaxDir \cup {Gone}, leaf' = [leaf EXCEPT ![l] = u]
  PROVE  /\ leaf' \in [LeafId -> 0..MaxDir \cup {Unused, Gone}]
         /\ \A m : m \in LeafId /\ leaf[m] # Unused => leaf'[m] # Unused
         /\ leaf'[l] # Unused /\ leaf'[l] = u /\ \A m \in LeafId : m # l => leaf'[m] = leaf[m]
PROOF
<1>1. leaf \in [LeafId -> 0..MaxDir \cup {Unused, Gone}]
  BY DEF LegacyType
<1>2. u # Unused
  BY NoMarker
<1> QED
  BY <1>1, <1>2

LEMMA ExtrasStay ==
  ASSUME ExtraShape, kind' = kind, extra' \subseteq extra,
         \A e : e \in DirId /\ Used(e) => Used(e)',
         \A m : m \in LeafId /\ leaf[m] # Unused => leaf'[m] # Unused
  PROVE  ExtraShape'
PROOF
<1>1. Copier' = Copier
  BY DEF Copier
<1> QED
  BY <1>1 DEF ExtraShape

LEMMA ExtrasAdded ==
  ASSUME ExtraShape, kind' = kind, kind \in Kinds,
         \A e : e \in DirId /\ Used(e) => Used(e)',
         \A m : m \in LeafId /\ leaf[m] # Unused => leaf'[m] # Unused,
         NEW of \in {"dir", "leaf"}, NEW oid, NEW ws, extra' = extra \cup Add(of, oid, ws),
         of = "dir" => ws \subseteq Copier.node \cup {"file"} /\ (oid # 0 => oid \in DirId /\ Used(oid)'),
         of = "leaf" => ws \subseteq Copier.leaf \cup {"file"} /\ (oid # 0 => oid \in LeafId /\ leaf'[oid] # Unused)
  PROVE  ExtraShape'
PROOF
<1>1. Copier' = Copier
  BY DEF Copier
<1>2. ASSUME NEW x \in extra'
      PROVE  /\ x.of = "dir" => /\ x.what \in Copier.node \cup {"file"}
                                /\ x.oid # 0 => x.oid \in DirId /\ Used(x.oid)'
             /\ x.of = "leaf" => /\ x.what \in Copier.leaf \cup {"file"}
                                 /\ x.oid # 0 => x.oid \in LeafId /\ leaf'[x.oid] # Unused
  <2>1. CASE x \in extra
    BY <2>1 DEF ExtraShape
  <2>2. CASE x \in Add(of, oid, ws)
    <3>1. PICK w \in ws : x = [of |-> of, oid |-> oid, what |-> w]
      BY <2>2, AddIs
    <3>2. x.of = of /\ x.oid = oid /\ x.what = w
      BY <3>1
    <3> QED
      BY <3>2
  <2> QED
    BY <1>2, <2>1, <2>2
<1> QED
  BY <1>1, <1>2 DEF ExtraShape

LEMMA ChangeKeeps == ASSUME LegacyInv, ChangeDir \/ ChangeLeaf PROVE LegacyInv'
PROOF
<1>1. LegacyType /\ TreeShape /\ JobShape /\ ExtraShape /\ NoStrayFile
  BY DEF LegacyInv
<1>2. UNCHANGED <<kind, extra, job, refused, missed, origin>> /\ disturbed' \in BOOLEAN
  BY DEF ChangeDir, ChangeLeaf, Change
<1>3. /\ dir' \in [DirId -> 0..MaxDir \cup {Unused, Gone}]
      /\ TreeShape'
      /\ \A e : e \in DirId /\ Used(e) => Used(e)'
  <2>1. CASE ChangeDir
    <3>1. PICK d \in DirId :
            \E u : /\ dir' = [dir EXCEPT ![d] = u]
                   /\ (d \in NewDir /\ u \in Above(d)) \/ (HasDir(d) /\ u \in Above(d) \cup {Gone})
      BY <2>1 DEF ChangeDir
    <3>2. PICK u : /\ dir' = [dir EXCEPT ![d] = u]
                   /\ (d \in NewDir /\ u \in Above(d)) \/ (HasDir(d) /\ u \in Above(d) \cup {Gone})
      BY <3>1
    <3>3. d \in NewDir \/ Used(d)
      BY <3>2 DEF HasDir, Used
    <3>4. u \in 0..MaxDir \cup {Gone}
      BY <3>2, NoMarker DEF Above, DirId
    <3>5. u \in DirId => u < d /\ Used(u)
      BY <3>2, NoMarker DEF Above, HasDir, Used
    <3> QED
      BY <1>1, <3>2, <3>3, <3>4, <3>5, DirWritten
  <2>2. CASE ChangeLeaf
    <3>1. dir' = dir
      BY <2>2 DEF ChangeLeaf
    <3> QED
      BY <1>1, <3>1 DEF LegacyType, TreeShape, Used
  <2> QED
    BY <2>1, <2>2
<1>4. /\ leaf' \in [LeafId -> 0..MaxDir \cup {Unused, Gone}]
      /\ \A m : m \in LeafId /\ leaf[m] # Unused => leaf'[m] # Unused
  <2>1. CASE ChangeDir
    <3>1. leaf' = leaf
      BY <2>1 DEF ChangeDir
    <3> QED
      BY <1>1, <3>1 DEF LegacyType
  <2>2. CASE ChangeLeaf
    <3>1. PICK l \in LeafId, u \in DirId \cup {Gone} : leaf' = [leaf EXCEPT ![l] = u]
      BY <2>2 DEF ChangeLeaf
    <3>2. u \in 0..MaxDir \cup {Gone}
      BY NoMarker
    <3> QED
      BY <1>1, <3>1, <3>2, LeafWritten
  <2> QED
    BY <2>1, <2>2
<1>5. LegacyType'
  BY <1>1, <1>2, <1>3, <1>4 DEF LegacyType
<1>6. JobShape'
  <2>1. job # NoJob => \A k \in 2..Len(job.ups) : job.ups[k] \in 0..MaxDir
    <3>1. SUFFICES ASSUME job # NoJob, NEW k \in 2..Len(job.ups) PROVE job.ups[k] \in 0..MaxDir
      OBVIOUS
    <3>2. job.ups \in Seq(0..MaxDir) /\ k \in 1..Len(job.ups)
      BY <1>1, <3>1, JobIs
    <3> QED
      BY <3>2, ElementOfSeq
  <2>2. \A e \in 0..MaxDir : e # 0 => e \in DirId
    BY DEF DirId
  <2> QED
    BY <1>1, <1>2, <1>3, <2>1, <2>2 DEF JobShape
<1>7. ExtraShape'
  BY <1>1, <1>2, <1>3, <1>4, ExtrasStay
<1>8. NoStrayFile'
  BY <1>1, <1>2 DEF NoStrayFile
<1> QED
  BY <1>3, <1>5, <1>6, <1>7, <1>8 DEF LegacyInv

LEMMA LeavesAre ==
  ASSUME NEW d, NEW s, s = LeavesOf(d)
  PROVE  /\ s \in Seq(LeafId) /\ Len(s) \in Nat
         /\ \A a \in 1..Len(s) : s[a] \in LeafId /\ leaf[s[a]] = d
         /\ \A l \in LeafId : leaf[l] = d => \E a \in 1..Len(s) : s[a] = l
         /\ \A a, b \in 1..Len(s) : s[a] = s[b] => a = b
PROOF
<1>1. PICK S : S = {l \in LeafId : leaf[l] = d}
  OBVIOUS
<1>2. S \in SUBSET Numbers(MaxLeaf) /\ s = InOrder(S) /\ MaxLeaf \in Nat
  BY <1>1, LegacyAssumption DEF LeavesOf, LeafId, Numbers
<1>3. /\ s \in Seq(Numbers(MaxLeaf))
      /\ \A a \in 1..Len(s) : s[a] \in S
      /\ \A x \in S : \E a \in 1..Len(s) : s[a] = x
      /\ \A a, b \in 1..Len(s) : s[a] = s[b] => a = b
  BY <1>2, InOrderIs
<1>4. s \in Seq(LeafId) /\ Len(s) \in Nat
  BY <1>3, LenProperties DEF LeafId, Numbers
<1> QED
  BY <1>1, <1>3, <1>4

(* One place of a sequence is written. *)
LEMMA PlaceWritten ==
  ASSUME NEW S, NEW s \in Seq(S), NEW i \in 1..Len(s), NEW e \in S, NEW t, t = [s EXCEPT ![i] = e]
  PROVE  /\ t \in Seq(S) /\ Len(t) = Len(s) /\ t[i] = e
         /\ \A k \in 1..Len(s) : k # i => t[k] = s[k]
PROOF
<1>1. PICK n \in Nat : n = Len(s) /\ DOMAIN s = 1..n
  BY LenProperties
<1>2. s \in [1..n -> S]
  BY <1>1, LenProperties
<1>3. t \in [1..n -> S] /\ t[i] = e /\ \A k \in 1..n : k # i => t[k] = s[k]
  BY <1>1, <1>2
<1>4. t \in Seq(S)
  BY <1>3, SeqDef
<1>5. Len(t) = n
  BY <1>3, <1>4, LenProperties
<1> QED
  BY <1>1, <1>3, <1>4, <1>5

(* What a copier takes along and what a deleter removes, as far as types go. *)
LEMMA CopiedIs ==
  ASSUME NEW of, NEW oid, NEW ws, NEW x \in Copied(of, oid, ws)
  PROVE  /\ x.got \in SUBSET What /\ x.got \subseteq Have(of, oid) /\ x.got \subseteq ws \cup {"file"}
         /\ "file" \in x.got => "attachment" \in x.got
         /\ x.n \in Refusals
PROOF
<1>1. PICK all : all = Have(of, oid) \cap (ws \cup (IF "attachment" \in ws THEN {"file"} ELSE {}))
  OBVIOUS
<1>2. x \in [got : SUBSET all, n : Refusals] /\ ("file" \in x.got => "attachment" \in x.got)
  BY <1>1 DEF Copied
<1>3. x.got \subseteq all /\ x.n \in Refusals
  BY <1>2
<1>4. all \subseteq Have(of, oid) /\ all \subseteq ws \cup {"file"} /\ all \subseteq What
  BY <1>1 DEF Have
<1> QED
  BY <1>2, <1>3, <1>4

LEMMA CopyNodeKeeps == ASSUME LegacyInv, CopyNode PROVE LegacyInv'
PROOF
<1>1. LegacyType /\ TreeShape /\ JobShape /\ ExtraShape /\ NoStrayFile
  BY DEF LegacyInv
<1>2. job # NoJob /\ job.op = "copy" /\ job.pc = "node" /\ job.todo # << >> /\ job.leaves = << >>
  BY DEF CopyNode, AtNode
<1>3. /\ job \in Job /\ job.ups \in Seq(0..MaxDir) /\ job.todo \in Seq(Stop) /\ Len(job.ups) \in Nat
      /\ \A k \in 2..Len(job.ups) : job.ups[k] # 0 => Used(job.ups[k])
  BY <1>1, <1>2, JobIs DEF JobShape
<1>4. PICK old, level : old = Head(job.todo).id /\ level = Head(job.todo).level
  OBVIOUS
<1>5. old \in DirId /\ level \in Nat /\ Tail(job.todo) \in Seq(Stop)
  <2>1. Head(job.todo) \in Stop /\ Tail(job.todo) \in Seq(Stop)
    BY <1>2, <1>3, HeadTailProperties
  <2>2. old \in DirId /\ level \in 0..MaxDir
    BY <1>4, <2>1 DEF Stop
  <2> QED
    BY <2>1, <2>2
<1>6. PICK above : above = IF level = 0 THEN 0 ELSE job.ups[level + 1]
  OBVIOUS
<1>7. PICK new \in {0} \cup NewDir, x \in Copied("dir", old, Copier.node), leaves \in {LeavesOf(old), << >>} :
        /\ Refuse(x.n + (IF new = 0 THEN 1 ELSE 0) + (IF leaves = LeavesOf(old) THEN 0 ELSE 1))
        /\ IF new = 0 THEN UNCHANGED <<dir, origin>>
           ELSE /\ dir' = [dir EXCEPT ![new] = above]
                /\ origin' = [origin EXCEPT !.dir[new] = old]
        /\ extra' = extra \cup Add("dir", new, x.got)
        /\ Work([job EXCEPT !.ups = CopyDir(new, level), !.to = new, !.leaves = leaves, !.todo = Tail(@)])
  BY <1>4, <1>6 DEF CopyNode
<1>8. PICK ups : ups = CopyDir(new, level)
  OBVIOUS
<1>9. /\ job' = [job EXCEPT !.ups = ups, !.to = new, !.leaves = leaves, !.todo = Tail(@)]
      /\ UNCHANGED <<kind, leaf, disturbed, missed>>
  BY <1>7, <1>8 DEF Work, CopyNode
<1>10. new \in 0..MaxDir /\ (new # 0 => new \in DirId /\ new \in NewDir)
  BY <1>7, NoMarker DEF NewDir
<1>11. refused' \in 0..MaxRefused
  <2>1. x.n \in Nat
    BY <1>1, <1>7, CopiedIs DEF Refusals, LegacyType
  <2>2. PICK n \in Nat : n = x.n + (IF new = 0 THEN 1 ELSE 0) + (IF leaves = LeavesOf(old) THEN 0 ELSE 1)
    BY <2>1
  <2> QED
    BY <1>1, <1>7, <2>2, RefuseIs
<1>12. level + 2 \in 1..Len(job.ups)
  <2>1. level + 2 \in DOMAIN job.ups
    BY <1>4 DEF CopyNode
  <2> QED
    BY <1>3, <2>1, LenProperties
<1>13. above \in 0..MaxDir /\ (above # 0 => above \in DirId /\ Used(above))
  <2>1. CASE level = 0
    BY <1>6, <2>1
  <2>2. CASE level # 0
    <3>1. level + 1 \in 2..Len(job.ups) /\ level + 1 \in 1..Len(job.ups)
      BY <1>5, <1>12, <2>2
    <3>2. job.ups[level + 1] \in 0..MaxDir
      BY <1>3, <3>1, ElementOfSeq
    <3> QED
      BY <1>3, <1>6, <2>2, <3>1, <3>2 DEF DirId
  <2> QED
    BY <2>1, <2>2
<1>14. /\ dir' \in [DirId -> 0..MaxDir \cup {Unused, Gone}] /\ TreeShape'
       /\ \A e : e \in DirId /\ Used(e) => Used(e)'
       /\ new # 0 => Used(new)'
       /\ origin' \in [dir : [DirId -> 0..MaxDir], leaf : [LeafId -> 0..MaxLeaf]]
  <2>1. origin \in [dir : [DirId -> 0..MaxDir], leaf : [LeafId -> 0..MaxLeaf]]
    BY <1>1 DEF LegacyType
  <2>2. CASE new = 0
    BY <1>1, <1>7, <2>1, <2>2 DEF LegacyType, TreeShape, Used
  <2>3. CASE new # 0
    <3>1. dir' = [dir EXCEPT ![new] = above] /\ origin' = [origin EXCEPT !.dir[new] = old]
      BY <1>7, <2>3
    <3>2. above \in DirId => above < new /\ Used(above)
      BY <1>1, <1>10, <1>13, <2>3, NewIsYoungest, NoMarker
    <3>3. above \in 0..MaxDir \cup {Gone} /\ new \in DirId /\ new \in NewDir
      BY <1>10, <1>13, <2>3
    <3>4. /\ dir' \in [DirId -> 0..MaxDir \cup {Unused, Gone}] /\ TreeShape'
          /\ \A e : e \in DirId /\ Used(e) => Used(e)'
          /\ Used(new)'
      BY <1>1, <3>1, <3>2, <3>3, DirWritten
    <3>5. origin' \in [dir : [DirId -> 0..MaxDir], leaf : [LeafId -> 0..MaxLeaf]]
      BY <1>5, <2>1, <3>1, <3>3, NoMarker
    <3> QED
      BY <3>4, <3>5
  <2> QED
    BY <2>2, <2>3
<1>15. ups \in Seq(0..MaxDir) /\ Len(ups) = Len(job.ups) /\ \A k \in 2..Len(ups) : ups[k] # 0 => Used(ups[k])'
  <2>1. ups = [job.ups EXCEPT ![level + 2] = new]
    BY <1>8 DEF CopyDir
  <2>2. ups \in Seq(0..MaxDir) /\ Len(ups) = Len(job.ups) /\ ups[level + 2] = new
        /\ \A k \in 1..Len(job.ups) : k # level + 2 => ups[k] = job.ups[k]
    BY <1>3, <1>10, <1>12, <2>1, PlaceWritten
  <2>3. ASSUME NEW k \in 2..Len(ups), ups[k] # 0 PROVE Used(ups[k])'
    <3>1. k \in 2..Len(job.ups) /\ k \in 1..Len(job.ups)
      BY <1>3, <2>2
    <3>2. CASE k = level + 2
      BY <1>14, <2>2, <2>3, <3>2
    <3>3. CASE k # level + 2
      <4>1. PICK e : e = job.ups[k] /\ e = ups[k]
        BY <2>2, <3>1, <3>3
      <4>2. job.ups[k] \in 0..MaxDir
        BY <1>3, <3>1, ElementOfSeq
      <4>3. e \in DirId
        BY <2>3, <4>1, <4>2 DEF DirId
      <4>4. Used(e)
        BY <1>3, <2>3, <3>1, <4>1 DEF Used
      <4> QED
        BY <1>14, <4>1, <4>3, <4>4
    <3> QED
      BY <3>2, <3>3
  <2> QED
    BY <2>2, <2>3
<1>16. leaves \in Seq(LeafId)
  <2>1. CASE leaves = LeavesOf(old)
    BY <2>1, LeavesAre
  <2>2. CASE leaves = << >>
    BY <2>2, EmptySeq
  <2> QED
    BY <1>7, <2>1, <2>2
<1>17. job' \in Job
  BY <1>3, <1>5, <1>9, <1>10, <1>15, <1>16 DEF Job
<1>18. JobShape'
  <2>1. job'.pc = "node" /\ job'.op = "copy" /\ job'.ups = ups
    BY <1>2, <1>3, <1>9 DEF Job
  <2> QED
    BY <1>15, <2>1 DEF JobShape, Used
<1>19. kind \in Kinds /\ Copier.node \subseteq What
  BY <1>1, Takes DEF LegacyType
<1>20. /\ x.got \in SUBSET What /\ x.got \subseteq Copier.node \cup {"file"}
       /\ "file" \in x.got => "attachment" \in x.got
  BY <1>7, CopiedIs
<1>21. extra' \subseteq Extra /\ NoStrayFile'
  <2>1. new \in 0..(MaxDir + MaxLeaf) /\ extra \subseteq Extra /\ extra' = extra \cup Add("dir", new, x.got)
    BY <1>1, <1>7, <1>10, LegacyAssumption DEF LegacyType
  <2> QED
    BY <1>1, <1>20, <2>1, AddedFit
<1>22. ExtraShape'
  <2>1. extra' = extra \cup Add("dir", new, x.got) /\ kind' = kind /\ (new # 0 => new \in DirId /\ Used(new)')
    BY <1>7, <1>9, <1>10, <1>14
  <2>2. \A m : m \in LeafId /\ leaf[m] # Unused => leaf'[m] # Unused
    BY <1>9
  <2> QED
    BY <1>1, <1>14, <1>19, <1>20, <2>1, <2>2, ExtrasAdded
<1>23. LegacyType'
  BY <1>1, <1>9, <1>11, <1>14, <1>17, <1>21 DEF LegacyType
<1> QED
  BY <1>14, <1>18, <1>21, <1>22, <1>23 DEF LegacyInv

LEMMA CopyLeafKeeps == ASSUME LegacyInv, CopyLeaf PROVE LegacyInv'
PROOF
<1>1. LegacyType /\ TreeShape /\ JobShape /\ ExtraShape /\ NoStrayFile
  BY DEF LegacyInv
<1>2. job # NoJob /\ job.op = "copy" /\ job.leaves # << >> /\ job.pc = "node"
  <2>1. job # NoJob /\ job.op = "copy" /\ job.leaves # << >>
    BY DEF CopyLeaf
  <2>2. job.pc \in {"walk", "node", "row"}
    BY <1>1, <2>1, JobIs
  <2> QED
    BY <1>1, <2>1, <2>2 DEF JobShape
<1>3. job \in Job /\ job.leaves \in Seq(LeafId) /\ job.to \in 0..MaxDir
  BY <1>1, <1>2, JobIs
<1>4. PICK old, rest : old = Head(job.leaves) /\ rest = Tail(job.leaves)
  OBVIOUS
<1>5. old \in LeafId /\ rest \in Seq(LeafId)
  BY <1>2, <1>3, <1>4, HeadTailProperties
<1>6. job' = [job EXCEPT !.leaves = rest] /\ UNCHANGED <<kind, disturbed, missed, dir>>
  BY <1>4 DEF CopyLeaf, Work
<1>7. job' \in Job
  BY <1>3, <1>5, <1>6 DEF Job
<1>8. JobShape'
  <2>1. job'.pc = "node" /\ job'.op = "copy" /\ job'.ups = job.ups
    BY <1>2, <1>3, <1>6 DEF Job
  <2> QED
    BY <1>1, <1>2, <1>6, <2>1 DEF JobShape, Used
<1>9. \/ (\E n \in {0, 1} : Refuse(n)) /\ UNCHANGED <<leaf, extra, origin>>
      \/ \E new \in {0} \cup NewLeaf, x \in Copied("leaf", old, Copier.leaf), n \in {0, 1} :
           /\ Refuse(x.n + n)
           /\ IF new = 0 THEN UNCHANGED <<leaf, origin>>
              ELSE /\ leaf' = [leaf EXCEPT ![new] = job.to]
                   /\ origin' = [origin EXCEPT !.leaf[new] = old]
           /\ extra' = extra \cup Add("leaf", new, x.got)
  BY <1>4 DEF CopyLeaf
<1>10. CASE (\E n \in {0, 1} : Refuse(n)) /\ UNCHANGED <<leaf, extra, origin>>
  <2>1. refused' \in 0..MaxRefused
    BY <1>1, <1>10, RefuseIs
  <2> QED
    BY <1>1, <1>6, <1>7, <1>8, <1>10, <2>1, QuietTables DEF LegacyType
<1>11. CASE \E new \in {0} \cup NewLeaf, x \in Copied("leaf", old, Copier.leaf), n \in {0, 1} :
              /\ Refuse(x.n + n)
              /\ IF new = 0 THEN UNCHANGED <<leaf, origin>>
                 ELSE /\ leaf' = [leaf EXCEPT ![new] = job.to]
                      /\ origin' = [origin EXCEPT !.leaf[new] = old]
              /\ extra' = extra \cup Add("leaf", new, x.got)
  <2>1. PICK new \in {0} \cup NewLeaf, x \in Copied("leaf", old, Copier.leaf), n \in {0, 1} :
              /\ Refuse(x.n + n)
              /\ IF new = 0 THEN UNCHANGED <<leaf, origin>>
                 ELSE /\ leaf' = [leaf EXCEPT ![new] = job.to]
                      /\ origin' = [origin EXCEPT !.leaf[new] = old]
              /\ extra' = extra \cup Add("leaf", new, x.got)
    BY <1>11
  <2>2. new \in 0..MaxLeaf /\ (new # 0 => new \in LeafId)
    BY <2>1, LegacyAssumption DEF NewLeaf, LeafId
  <2>3. refused' \in 0..MaxRefused
    <3>1. x.n \in Nat
      BY <1>1, <2>1, CopiedIs DEF Refusals, LegacyType
    <3>2. PICK m \in Nat : m = x.n + n
      BY <3>1
    <3> QED
      BY <1>1, <2>1, <3>2, RefuseIs
  <2>4. /\ leaf' \in [LeafId -> 0..MaxDir \cup {Unused, Gone}]
        /\ \A m : m \in LeafId /\ leaf[m] # Unused => leaf'[m] # Unused
        /\ new # 0 => leaf'[new] # Unused
        /\ origin' \in [dir : [DirId -> 0..MaxDir], leaf : [LeafId -> 0..MaxLeaf]]
    <3>1. origin \in [dir : [DirId -> 0..MaxDir], leaf : [LeafId -> 0..MaxLeaf]]
      BY <1>1 DEF LegacyType
    <3>2. CASE new = 0
      BY <1>1, <2>1, <3>1, <3>2 DEF LegacyType
    <3>3. CASE new # 0
      <4>1. PICK to \in 0..MaxDir : to = job.to
        BY <1>3
      <4>2. leaf' = [leaf EXCEPT ![new] = to] /\ origin' = [origin EXCEPT !.leaf[new] = old]
        BY <2>1, <3>3, <4>1
      <4>3. /\ leaf' \in [LeafId -> 0..MaxDir \cup {Unused, Gone}]
            /\ \A m : m \in LeafId /\ leaf[m] # Unused => leaf'[m] # Unused
            /\ leaf'[new] # Unused
        BY <1>1, <2>2, <3>3, <4>1, <4>2, LeafWritten
      <4>4. origin' \in [dir : [DirId -> 0..MaxDir], leaf : [LeafId -> 0..MaxLeaf]]
        <5>1. old \in 0..MaxLeaf /\ new \in LeafId
          BY <1>5, <2>2, <3>3, LegacyAssumption DEF LeafId
        <5> QED
          BY <3>1, <4>2, <5>1
      <4> QED
        BY <4>3, <4>4
    <3> QED
      BY <3>2, <3>3
  <2>5. /\ x.got \in SUBSET What /\ x.got \subseteq Copier.leaf \cup {"file"}
        /\ "file" \in x.got => "attachment" \in x.got
    BY <2>1, CopiedIs
  <2>6. extra' \subseteq Extra /\ NoStrayFile'
    <3>1. new \in 0..(MaxDir + MaxLeaf) /\ extra \subseteq Extra /\ extra' = extra \cup Add("leaf", new, x.got)
      BY <1>1, <2>1, <2>2, LegacyAssumption DEF LegacyType
    <3> QED
      BY <1>1, <2>5, <3>1, AddedFit
  <2>7. \A e : e \in DirId /\ Used(e) => Used(e)'
    BY <1>6 DEF Used
  <2>8. ExtraShape'
    <3>1. kind \in Kinds /\ kind' = kind
      BY <1>1, <1>6 DEF LegacyType
    <3>2. extra' = extra \cup Add("leaf", new, x.got) /\ (new # 0 => new \in LeafId /\ leaf'[new] # Unused)
      BY <2>1, <2>2, <2>4
    <3> QED
      BY <1>1, <2>4, <2>5, <2>7, <3>1, <3>2, ExtrasAdded
  <2>9. LegacyType'
    BY <1>1, <1>6, <1>7, <2>3, <2>4, <2>6 DEF LegacyType
  <2>10. TreeShape'
    BY <1>1, <1>6 DEF TreeShape, Used
  <2> QED
    BY <1>8, <2>6, <2>8, <2>9, <2>10 DEF LegacyInv
<1> QED
  BY <1>9, <1>10, <1>11

(* A deleter takes something away: rows become Gone, extras disappear. *)
LEMMA TakenAway ==
  ASSUME LegacyInv, kind' = kind, UNCHANGED <<disturbed, origin>>, refused' \in 0..MaxRefused, missed' \in BOOLEAN,
         dir' = dir \/ \E d \in DirId : Used(d) /\ dir' = [dir EXCEPT ![d] = Gone],
         leaf' = leaf \/ \E l \in LeafId : leaf' = [leaf EXCEPT ![l] = Gone],
         extra' \subseteq Extra, NoStrayFile', extra' \subseteq extra,
         job' \in Job, job'.pc # "walk", job'.op = "delete", job'.ups = job.ups, job # NoJob,
         job'.pc = "row" => job'.todo # << >>, job'.pc = "node" => job'.leaves = << >>
  PROVE  LegacyInv'
PROOF
<1>1. LegacyType /\ TreeShape /\ JobShape /\ ExtraShape
  BY DEF LegacyInv
<1>2. /\ dir' \in [DirId -> 0..MaxDir \cup {Unused, Gone}] /\ TreeShape'
      /\ \A e : e \in DirId /\ Used(e) => Used(e)'
  <2>1. CASE dir' = dir
    BY <1>1, <2>1 DEF LegacyType, TreeShape, Used
  <2>2. ASSUME NEW d \in DirId, Used(d), dir' = [dir EXCEPT ![d] = Gone]
        PROVE  /\ dir' \in [DirId -> 0..MaxDir \cup {Unused, Gone}] /\ TreeShape'
               /\ \A e : e \in DirId /\ Used(e) => Used(e)'
    <3>1. PICK u : u = Gone
      OBVIOUS
    <3>2. u \in 0..MaxDir \cup {Gone} /\ u \notin DirId /\ dir' = [dir EXCEPT ![d] = u]
      BY <2>2, <3>1, NoMarker
    <3> QED
      BY <1>1, <2>2, <3>2, DirWritten
  <2> QED
    BY <2>1, <2>2
<1>3. /\ leaf' \in [LeafId -> 0..MaxDir \cup {Unused, Gone}]
      /\ \A m : m \in LeafId /\ leaf[m] # Unused => leaf'[m] # Unused
  <2>1. CASE leaf' = leaf
    BY <1>1, <2>1 DEF LegacyType
  <2>2. ASSUME NEW l \in LeafId, leaf' = [leaf EXCEPT ![l] = Gone]
        PROVE  /\ leaf' \in [LeafId -> 0..MaxDir \cup {Unused, Gone}]
               /\ \A m : m \in LeafId /\ leaf[m] # Unused => leaf'[m] # Unused
    <3>1. PICK u : u = Gone
      OBVIOUS
    <3>2. u \in 0..MaxDir \cup {Gone} /\ leaf' = [leaf EXCEPT ![l] = u]
      BY <2>2, <3>1
    <3> QED
      BY <1>1, <3>2, LeafWritten
  <2> QED
    BY <2>1, <2>2
<1>4. LegacyType'
  BY <1>1, <1>2, <1>3 DEF LegacyType
<1>5. JobShape'
  <2>1. PICK ups \in Seq(0..MaxDir) : ups = job.ups /\ \A k \in 2..Len(ups) : ups[k] # 0 => Used(ups[k])
    BY <1>1, JobIs DEF JobShape
  <2>2. \A k \in 2..Len(ups) : ups[k] # 0 => Used(ups[k])'
    <3>1. SUFFICES ASSUME NEW k \in 2..Len(ups), ups[k] # 0 PROVE Used(ups[k])'
      OBVIOUS
    <3>2. ups[k] \in DirId
      <4>1. Len(ups) \in Nat
        BY LenProperties
      <4>2. k \in 1..Len(ups)
        BY <4>1
      <4>3. ups[k] \in 0..MaxDir
        BY <4>2, ElementOfSeq
      <4> QED
        BY <3>1, <4>3 DEF DirId
    <3> QED
      BY <1>2, <2>1, <3>1, <3>2
  <2> QED
    BY <2>1, <2>2 DEF JobShape
<1>6. ExtraShape'
  BY <1>1, <1>2, <1>3, ExtrasStay
<1> QED
  BY <1>2, <1>4, <1>5, <1>6 DEF LegacyInv

LEMMA RemovedMeans ==
  ASSUME LegacyInv, NEW of \in {"dir", "leaf"}, NEW oid, NEW ws, NEW x \in Removed(of, oid, ws),
         NEW n \in {0, 1}, Refuse(x.n + n),
         extra' = extra \ Add(of, oid, x.gone)
  PROVE  /\ refused' \in 0..MaxRefused /\ extra' \subseteq Extra /\ extra' \subseteq extra
         /\ NoStrayFile' /\ x.ok \in BOOLEAN /\ x.missed \in BOOLEAN
PROOF
<1>1. LegacyType /\ NoStrayFile
  BY DEF LegacyInv
<1>2. x.ok \in BOOLEAN /\ x.missed \in BOOLEAN /\ x.n \in Nat
  BY RemovedIs
<1>3. refused' \in 0..MaxRefused
  <2>1. PICK m \in Nat : m = x.n + n
    BY <1>2
  <2> QED
    BY <1>1, <2>1, RefuseIs
<1>4. extra' \subseteq Extra /\ NoStrayFile'
  BY <1>1, RemovedFit DEF LegacyType
<1> QED
  BY <1>2, <1>3, <1>4

LEMMA CleanKeeps == ASSUME LegacyInv, CleanNode PROVE LegacyInv'
PROOF
<1>1. job # NoJob /\ job.op = "delete" /\ job.pc = "node" /\ job.todo # << >> /\ LegacyType
  BY DEF CleanNode, AtNode, LegacyInv
<1>2. job \in Job /\ job.ok \in BOOLEAN
  BY <1>1, JobIs
<1>3. PICK d : d = Head(job.todo).id
  OBVIOUS
<1>4. PICK ws : ws = Deleter.node \ {"content"}
  OBVIOUS
<1>5. PICK x \in Removed("dir", d, ws), leaves \in {LeavesOf(d), << >>} :
        /\ Refuse(x.n + (IF leaves = LeavesOf(d) THEN 0 ELSE 1))
        /\ missed' = (missed \/ x.missed \/ leaves # LeavesOf(d))
        /\ extra' = extra \ Add("dir", d, x.gone)
        /\ Work([job EXCEPT !.ok = Answer(@, x, "gone"), !.leaves = leaves, !.pc = "row"])
  BY <1>3, <1>4 DEF CleanNode
<1>7. PICK n \in {0, 1} : n = IF leaves = LeavesOf(d) THEN 0 ELSE 1
  OBVIOUS
<1>8. /\ refused' \in 0..MaxRefused /\ extra' \subseteq Extra /\ extra' \subseteq extra /\ NoStrayFile'
      /\ x.ok \in BOOLEAN /\ x.missed \in BOOLEAN /\ missed' \in BOOLEAN
  BY <1>1, <1>5, <1>7, RemovedMeans DEF LegacyType
<1>9. leaves \in Seq(LeafId)
  <2>1. CASE leaves = LeavesOf(d)
    BY <2>1, LeavesAre
  <2>2. CASE leaves = << >>
    BY <2>2, EmptySeq
  <2> QED
    BY <1>5, <2>1, <2>2
<1>10. PICK ok \in BOOLEAN : ok = Answer(job.ok, x, "gone")
  BY DEF Answer
<1>11. job' = [job EXCEPT !.ok = ok, !.leaves = leaves, !.pc = "row"]
  BY <1>5, <1>10 DEF Work
<1>12. job' \in Job /\ job'.pc = "row" /\ job'.op = "delete" /\ job'.ups = job.ups /\ job'.todo = job.todo
  BY <1>1, <1>2, <1>9, <1>11 DEF Job
<1>13. UNCHANGED <<kind, disturbed, dir, leaf, origin>>
  BY <1>5 DEF Work, CleanNode
<1> QED
  BY <1>1, <1>8, <1>12, <1>13, TakenAway

LEMMA DeleteLeafKeeps == ASSUME LegacyInv, DeleteLeaf PROVE LegacyInv'
PROOF
<1>1. /\ job # NoJob /\ job.op = "delete" /\ job.leaves # << >> /\ job.pc = "row" /\ job.todo # << >>
      /\ LegacyType
  <2>1. job # NoJob /\ job.op = "delete" /\ job.leaves # << >> /\ LegacyType /\ JobShape
    BY DEF DeleteLeaf, LegacyInv
  <2>2. job.pc \in {"walk", "node", "row"}
    BY <2>1, JobIs
  <2> QED
    BY <2>1, <2>2 DEF JobShape
<1>2. job \in Job /\ job.leaves \in Seq(LeafId) /\ job.ok \in BOOLEAN
  BY <1>1, JobIs
<1>3. PICK l, rest : l = Head(job.leaves) /\ rest = Tail(job.leaves)
  OBVIOUS
<1>4. l \in LeafId /\ rest \in Seq(LeafId)
  BY <1>1, <1>2, <1>3, HeadTailProperties
<1>5. PICK ws : ws = Deleter.leaf
  OBVIOUS
<1>6. PICK x \in Removed("leaf", l, ws), fate \in RowFates(HasLeaf(l)) :
        /\ Refuse(x.n + (IF fate = "gone" THEN 0 ELSE 1))
        /\ missed' = (missed \/ x.missed \/ fate = "spared")
        /\ extra' = extra \ Add("leaf", l, x.gone)
        /\ leaf' = IF fate = "gone" THEN [leaf EXCEPT ![l] = Gone] ELSE leaf
        /\ Work([job EXCEPT !.ok = Answer(@, x, fate), !.leaves = Tail(@)])
  BY <1>3, <1>5 DEF DeleteLeaf
<1>7. PICK n \in {0, 1} : n = IF fate = "gone" THEN 0 ELSE 1
  OBVIOUS
<1>8. /\ refused' \in 0..MaxRefused /\ extra' \subseteq Extra /\ extra' \subseteq extra /\ NoStrayFile'
      /\ x.ok \in BOOLEAN /\ x.missed \in BOOLEAN /\ missed' \in BOOLEAN
  BY <1>1, <1>6, <1>7, RemovedMeans DEF LegacyType
<1>9. PICK ok \in BOOLEAN : ok = Answer(job.ok, x, fate)
  BY DEF Answer
<1>10. job' = [job EXCEPT !.ok = ok, !.leaves = rest]
  BY <1>3, <1>6, <1>9 DEF Work
<1>11. /\ job' \in Job /\ job'.pc = "row" /\ job'.op = "delete" /\ job'.ups = job.ups /\ job'.todo = job.todo
  BY <1>1, <1>2, <1>4, <1>10 DEF Job
<1>12. leaf' = leaf \/ leaf' = [leaf EXCEPT ![l] = Gone]
  BY <1>6
<1>13. UNCHANGED <<kind, disturbed, dir, origin>>
  BY <1>6 DEF Work, DeleteLeaf
<1> QED
  BY <1>1, <1>4, <1>8, <1>11, <1>12, <1>13, TakenAway

LEMMA DeleteNodeKeeps == ASSUME LegacyInv, DeleteNode PROVE LegacyInv'
PROOF
<1>1. job # NoJob /\ job.op = "delete" /\ job.pc = "row" /\ job.leaves = << >> /\ job.todo # << >> /\ LegacyType
  BY DEF DeleteNode, LegacyInv, JobShape
<1>2. job \in Job /\ job.todo \in Seq(Stop) /\ job.ok \in BOOLEAN
  BY <1>1, JobIs
<1>3. PICK d, rest : d = Head(job.todo).id /\ rest = Tail(job.todo)
  OBVIOUS
<1>4. d \in DirId /\ rest \in Seq(Stop)
  <2>1. Head(job.todo) \in Stop /\ Tail(job.todo) \in Seq(Stop)
    BY <1>1, <1>2, HeadTailProperties
  <2> QED
    BY <1>3, <2>1 DEF Stop
<1>5. PICK ws : ws = Deleter.node \cap {"content"}
  OBVIOUS
<1>6. PICK x \in Removed("dir", d, ws), fate \in RowFates(HasDir(d)) :
        /\ Refuse(x.n + (IF fate = "gone" THEN 0 ELSE 1))
        /\ missed' = (missed \/ x.missed \/ fate = "spared")
        /\ extra' = extra \ Add("dir", d, x.gone)
        /\ dir' = IF fate = "gone" /\ HasDir(d) THEN [dir EXCEPT ![d] = Gone] ELSE dir
        /\ Work([job EXCEPT !.ok = Answer(@, x, fate), !.todo = Tail(@), !.pc = "node"])
  BY <1>3, <1>5 DEF DeleteNode
<1>7. PICK n \in {0, 1} : n = IF fate = "gone" THEN 0 ELSE 1
  OBVIOUS
<1>8. /\ refused' \in 0..MaxRefused /\ extra' \subseteq Extra /\ extra' \subseteq extra /\ NoStrayFile'
      /\ x.ok \in BOOLEAN /\ x.missed \in BOOLEAN /\ missed' \in BOOLEAN
  BY <1>1, <1>6, <1>7, RemovedMeans DEF LegacyType
<1>9. PICK ok \in BOOLEAN : ok = Answer(job.ok, x, fate)
  BY DEF Answer
<1>10. job' = [job EXCEPT !.ok = ok, !.todo = rest, !.pc = "node"]
  BY <1>3, <1>6, <1>9 DEF Work
<1>11. /\ job' \in Job /\ job'.pc = "node" /\ job'.op = "delete" /\ job'.ups = job.ups /\ job'.leaves = << >>
  BY <1>1, <1>2, <1>4, <1>10 DEF Job
<1>12. dir' = dir \/ (Used(d) /\ dir' = [dir EXCEPT ![d] = Gone])
  <2>1. HasDir(d) => Used(d)
    BY DEF HasDir, Used
  <2>2. dir' = IF fate = "gone" /\ HasDir(d) THEN [dir EXCEPT ![d] = Gone] ELSE dir
    BY <1>6
  <2>3. CASE HasDir(d)
    BY <2>1, <2>2, <2>3
  <2>4. CASE ~HasDir(d)
    BY <2>2, <2>4
  <2> QED
    BY <2>3, <2>4
<1>13. UNCHANGED <<kind, disturbed, leaf, origin>>
  BY <1>6 DEF Work, DeleteNode
<1> QED
  BY <1>1, <1>4, <1>8, <1>11, <1>12, <1>13, TakenAway

LEMMA LegacyStarts == LegacyInit => LegacyInv
PROOF
<1> SUFFICES ASSUME LegacyInit PROVE LegacyInv
  OBVIOUS
<1>1. PICK n \in 1..Dirs, m \in 0..Leaves :
        /\ dir \in [DirId -> 0..MaxDir \cup {Unused}]
        /\ \A d \in DirId : IF d <= n THEN dir[d] \in 0..(d - 1) ELSE dir[d] = Unused
        /\ leaf \in [LeafId -> 1..n \cup {Unused}]
        /\ \A l \in LeafId : leaf[l] # Unused <=> l <= m /\ kind # "article"
  BY DEF LegacyInit
<1>2. kind \in Kinds /\ job = NoJob /\ refused = 0 /\ disturbed = FALSE /\ missed = FALSE /\ origin = NoOrigin
  BY DEF LegacyInit
<1>3. n \in DirId /\ 1..n \subseteq DirId
  BY <1>1, LegacyAssumption DEF DirId
<1>4. ASSUME NEW d \in DirId
      PROVE  (d <= n => dir[d] \in 0..(d - 1) /\ Used(d)) /\ (~(d <= n) => dir[d] = Unused)
  <2>1. ASSUME d <= n PROVE dir[d] \in 0..(d - 1) /\ Used(d)
    <3>1. dir[d] \in 0..(d - 1)
      BY <1>1, <2>1
    <3>2. dir[d] \in 0..MaxDir
      BY <3>1 DEF DirId
    <3> QED
      BY <3>1, <3>2, NoMarker DEF Used
  <2> QED
    BY <1>1, <2>1
<1>5. TreeShape
  <2>1. ASSUME NEW d \in DirId, dir[d] \in DirId PROVE dir[d] < d /\ Used(dir[d])
    <3>1. d <= n
      BY <1>4, <2>1, NoMarker
    <3>2. dir[d] \in 0..(d - 1)
      BY <1>4, <3>1
    <3>3. PICK e \in DirId : e = dir[d]
      BY <2>1
    <3>4. e <= n /\ e < d
      BY <1>3, <3>1, <3>2, <3>3 DEF DirId
    <3>5. Used(e)
      BY <1>4, <3>4
    <3> QED
      BY <3>3, <3>4, <3>5
  <2>2. ASSUME NEW d \in DirId, NEW e \in DirId, Used(e), d < e PROVE Used(d)
    <3>1. e <= n
      BY <1>4, <2>2 DEF Used
    <3>2. d <= n
      BY <1>3, <2>2, <3>1 DEF DirId
    <3> QED
      BY <1>4, <3>2
  <2> QED
    BY <2>1, <2>2 DEF TreeShape
<1>6. PICK T, L : T = Copier.node \cup {"file"} /\ L = Copier.leaf \cup {"file"}
  OBVIOUS
<1>7. /\ T \subseteq What /\ L \subseteq What /\ "attachment" \in T
      /\ kind # "article" => "attachment" \in L
  BY <1>2, <1>6, Takes DEF PA, What
<1>8. \A x : x \in extra <=> \/ \E d \in DirId : dir[d] # Unused /\ x \in Add("dir", d, T)
                             \/ \E l \in LeafId : leaf[l] # Unused /\ x \in Add("leaf", l, L)
  <2>1. extra = UNION ({Add("dir", d, T) : d \in {e \in DirId : dir[e] # Unused}}
                       \cup {Add("leaf", l, L) : l \in {k \in LeafId : leaf[k] # Unused}})
    BY <1>6 DEF LegacyInit
  <2> QED
    BY <2>1
<1>9. ASSUME NEW x \in extra
      PROVE  /\ x \in Extra
             /\ x.of = "dir" => x.what \in T /\ x.oid \in DirId /\ Used(x.oid)
             /\ x.of = "leaf" => x.what \in L /\ x.oid \in LeafId /\ leaf[x.oid] # Unused
             /\ x.what = "file" => [x EXCEPT !.what = "attachment"] \in extra
  <2>1. CASE \E d \in DirId : dir[d] # Unused /\ x \in Add("dir", d, T)
    <3>1. PICK d \in DirId : dir[d] # Unused /\ x \in Add("dir", d, T)
      BY <2>1
    <3>2. PICK w \in T : x = [of |-> "dir", oid |-> d, what |-> w]
      BY <3>1, AddIs
    <3>3. d \in 0..(MaxDir + MaxLeaf)
      BY LegacyAssumption DEF DirId
    <3>4. x \in Extra
      BY <1>7, <3>2, <3>3 DEF Extra
    <3>5. [x EXCEPT !.what = "attachment"] = [of |-> "dir", oid |-> d, what |-> "attachment"]
      BY <3>2
    <3>6. [of |-> "dir", oid |-> d, what |-> "attachment"] \in Add("dir", d, T)
      BY <1>7, AddIs
    <3>7. [x EXCEPT !.what = "attachment"] \in extra
      BY <1>8, <3>1, <3>5, <3>6
    <3>8. x.of = "dir" /\ x.oid = d /\ x.what = w
      BY <3>2
    <3> QED
      BY <3>1, <3>4, <3>7, <3>8 DEF Used
  <2>2. CASE \E l \in LeafId : leaf[l] # Unused /\ x \in Add("leaf", l, L)
    <3>1. PICK l \in LeafId : leaf[l] # Unused /\ x \in Add("leaf", l, L)
      BY <2>2
    <3>2. PICK w \in L : x = [of |-> "leaf", oid |-> l, what |-> w]
      BY <3>1, AddIs
    <3>3. l \in 0..(MaxDir + MaxLeaf)
      BY LegacyAssumption DEF LeafId
    <3>4. x \in Extra
      BY <1>7, <3>2, <3>3 DEF Extra
    <3>5. [x EXCEPT !.what = "attachment"] = [of |-> "leaf", oid |-> l, what |-> "attachment"]
      BY <3>2
    <3>6. "attachment" \in L
      BY <1>1, <1>7, <3>1
    <3>7. [of |-> "leaf", oid |-> l, what |-> "attachment"] \in Add("leaf", l, L)
      BY <3>6, AddIs
    <3>8. [x EXCEPT !.what = "attachment"] \in extra
      BY <1>8, <3>1, <3>5, <3>7
    <3>9. x.of = "leaf" /\ x.oid = l /\ x.what = w
      BY <3>2
    <3> QED
      BY <3>1, <3>4, <3>8, <3>9
  <2> QED
    BY <1>8, <2>1, <2>2
<1>10. ExtraShape /\ NoStrayFile /\ extra \subseteq Extra
  BY <1>6, <1>9 DEF ExtraShape, NoStrayFile
<1>11. JobShape
  BY <1>2 DEF JobShape
<1>12. LegacyType
  <2>1. dir \in [DirId -> 0..MaxDir \cup {Unused, Gone}]
    BY <1>1
  <2>2. leaf \in [LeafId -> 0..MaxDir \cup {Unused, Gone}]
    <3>1. 1..n \subseteq 0..MaxDir
      BY <1>3, NoMarker
    <3> QED
      BY <1>1, <3>1
  <2>3. origin \in [dir : [DirId -> 0..MaxDir], leaf : [LeafId -> 0..MaxLeaf]]
    BY <1>2, LegacyAssumption DEF NoOrigin
  <2>4. refused \in 0..MaxRefused
    <3>1. MaxRefused \in Nat
      BY LegacyAssumption
    <3> QED
      BY <1>2, <3>1
  <2>5. disturbed \in BOOLEAN /\ missed \in BOOLEAN
    BY <1>2
  <2> QED
    BY <1>2, <1>10, <2>1, <2>2, <2>3, <2>4, <2>5 DEF LegacyType
<1> QED
  BY <1>5, <1>10, <1>11, <1>12 DEF LegacyInv

LEMMA LegacyStep == LegacyInv /\ [LegacyNext]_legacyVars => LegacyInv'
PROOF
<1> SUFFICES ASSUME LegacyInv, [LegacyNext]_legacyVars PROVE LegacyInv'
  OBVIOUS
<1>1. CASE UNCHANGED legacyVars
  <2>1. LegacyType /\ JobShape
    BY DEF LegacyInv
  <2>2. JobShape'
    BY <1>1, <2>1 DEF JobShape, Used, legacyVars
  <2> QED
    BY <1>1, <2>1, <2>2, QuietTables DEF LegacyType, legacyVars
<1>2. ASSUME NEW root \in 1..Dirs, BeginCopy(root) \/ BeginDelete(root) PROVE LegacyInv'
  BY <1>2, RootIds, BeginKeeps
<1>3. CASE StartCopy
  BY <1>3, StartKeeps
<1>4. CASE SkipNode
  BY <1>4, SkipKeeps
<1>5. CASE CopyNode
  BY <1>5, CopyNodeKeeps
<1>6. CASE CopyLeaf
  BY <1>6, CopyLeafKeeps
<1>7. CASE CleanNode
  BY <1>7, CleanKeeps
<1>8. CASE DeleteLeaf
  BY <1>8, DeleteLeafKeeps
<1>9. CASE DeleteNode
  BY <1>9, DeleteNodeKeeps
<1>10. CASE EndJob
  BY <1>10, EndKeeps
<1>11. CASE ChangeDir \/ ChangeLeaf
  BY <1>11, ChangeKeeps
<1> QED
  BY <1>1, <1>2, <1>3, <1>4, <1>5, <1>6, <1>7, <1>8, <1>9, <1>10, <1>11 DEF LegacyNext

(* The inductive invariant: rows are given out in order and dirs hang below    *)
(* older ones, a job is at a step its op has, only given out ids have extras,  *)
(* and no file is without its attachment.                                      *)
THEOREM LegacyInvariant == LegacySpec => []LegacyInv
PROOF
  BY LegacyStarts, LegacyStep, PTL DEF LegacySpec


-----------------------------------------------------------------------------
(* A delete.  While it is not disturbed, has missed no row and nothing it did   *)
(* was answered with 0,                                                         *)
(* every node that was in the tree is done with or still to be visited; when    *)
(* the row of one is about to go, its extras are gone and its leaves listed.    *)
Waiting(l) == \E a \in 1..Len(job.leaves) : job.leaves[a] = l
ToVisit(d) == \E a \in 1..Len(job.todo) : job.todo[a].id = d

Cleaned(d) ==
  "parameter" \notin Have("dir", d) /\ ("attachment" \in Have("dir", d) => "file" \in Have("dir", d))

Cleared(d) == ~HasDir(d) /\ (\A l \in LeafId : leaf[l] # d) /\ Cleaned(d)

Deleting == job # NoJob /\ job.op = "delete" /\ ~disturbed /\ ~missed /\ job.ok

DeleteKnown ==
  Deleting =>
    /\ \A k \in 1..(Len(job.ups) - 1) : Cleared(job.ups[k]) \/ ToVisit(job.ups[k])
    /\ job.pc = "row" => /\ Cleaned(Head(job.todo).id)
                         /\ \A l \in LeafId : leaf[l] = Head(job.todo).id => Waiting(l)

(* The two ends of a sequence that is worked through. *)
LEMMA HeadIs ==
  ASSUME NEW S, NEW s \in Seq(S), s # << >>
  PROVE  /\ 1 \in 1..Len(s) /\ Head(s) = s[1] /\ Len(s) \in Nat /\ Len(Tail(s)) = Len(s) - 1
         /\ \A a \in 1..Len(s) : a # 1 => a - 1 \in 1..Len(Tail(s)) /\ Tail(s)[a - 1] = s[a]
         /\ \A b \in 1..Len(Tail(s)) : b + 1 \in 1..Len(s) /\ Tail(s)[b] = s[b + 1]
PROOF
<1>1. Len(s) \in Nat \ {0}
  BY EmptySeq
<1>2. 1 \in 1..Len(s) /\ Head(s) = s[1]
  BY <1>1
<1>3. Len(Tail(s)) = Len(s) - 1 /\ \A i \in 1..Len(Tail(s)) : Tail(s)[i] = s[i + 1]
  BY HeadTailProperties
<1>4. ASSUME NEW a \in 1..Len(s), a # 1 PROVE a - 1 \in 1..Len(Tail(s)) /\ Tail(s)[a - 1] = s[a]
  <2>1. a - 1 \in 1..Len(Tail(s)) /\ (a - 1) + 1 = a
    BY <1>1, <1>3, <1>4
  <2> QED
    BY <1>3, <2>1
<1>5. ASSUME NEW b \in 1..Len(Tail(s)) PROVE b + 1 \in 1..Len(s)
  BY <1>1, <1>3
<1> QED
  BY <1>1, <1>2, <1>3, <1>4, <1>5

LEMMA HaveTaken ==
  ASSUME NEW of, NEW oid, NEW gone, extra' = extra \ Add(of, oid, gone), NEW o, NEW e
  PROVE  Have(o, e)' = IF o = of /\ e = oid THEN Have(o, e) \ gone ELSE Have(o, e)
PROOF
<1>1. ASSUME NEW w
      PROVE  [of |-> o, oid |-> e, what |-> w] \in extra' <=>
               [of |-> o, oid |-> e, what |-> w] \in extra /\ ~ (o = of /\ e = oid /\ w \in gone)
  <2>1. PICK x : x = [of |-> o, oid |-> e, what |-> w]
    OBVIOUS
  <2>2. x \in Add(of, oid, gone) <=> \E v \in gone : x = [of |-> of, oid |-> oid, what |-> v]
    BY AddIs
  <2>3. x \in Add(of, oid, gone) <=> o = of /\ e = oid /\ w \in gone
    BY <2>1, <2>2
  <2> QED
    BY <2>1, <2>3
<1>2. \A w : w \in Have(o, e)' <=> w \in Have(o, e) /\ ~ (o = of /\ e = oid /\ w \in gone)
  BY <1>1 DEF Have
<1>3. CASE o = of /\ e = oid
  BY <1>2, <1>3
<1>4. CASE ~ (o = of /\ e = oid)
  <2>1. Have(o, e)' = Have(o, e)
    BY <1>2, <1>4
  <2> QED
    BY <1>4, <2>1
<1> QED
  BY <1>3, <1>4

LEMMA CleanedNow ==
  ASSUME LegacyType, NEW d, NEW ws, ws = Deleter.node \ {"content"}, NEW x \in Removed("dir", d, ws),
         x.ok, ~x.missed, extra' = extra \ Add("dir", d, x.gone)
  PROVE  Cleaned(d)'
PROOF
<1>1. PA \subseteq Deleter.node /\ Deleter.node \subseteq PAC
  BY Takes DEF LegacyType
<1>2. "parameter" \in ws /\ "attachment" \in ws \ {"file"} /\ "file" \notin ws
  BY <1>1 DEF PA, PAC
<1>3. PICK had : had = Have("dir", d)
  OBVIOUS
<1>4. PICK left : left = had \ x.gone
  OBVIOUS
<1>5. "parameter" \notin left /\ ("attachment" \in left => "file" \in left)
  BY <1>2, <1>3, <1>4, RemovedIs
<1>6. Have("dir", d)' = Have("dir", d) \ x.gone
  <2>1. PICK gone : gone = x.gone
    OBVIOUS
  <2>2. extra' = extra \ Add("dir", d, gone)
    BY <2>1
  <2> QED
    BY <2>1, <2>2, HaveTaken
<1>7. PICK now : now = Have("dir", d)'
  OBVIOUS
<1>8. "parameter" \notin now /\ ("attachment" \in now => "file" \in now)
  BY <1>3, <1>4, <1>5, <1>6, <1>7
<1> QED
  BY <1>7, <1>8 DEF Cleaned

LEMMA BeginDeleteKnows ==
  ASSUME LegacyInv, NEW root \in DirId, BeginDelete(root)
  PROVE  DeleteKnown'
PROOF
<1>1. PICK W, ups : W = Walk(root) /\ ups = Tree(W)
  OBVIOUS
<1>2. LegacyType /\ TreeShape
  BY DEF LegacyInv
<1>3. W \in Seq(Stop) /\ Len(W) \in Nat /\ Len(ups) = Len(W) + 1 /\ \A k \in 1..Len(W) : ups[k] = W[k].id
  <2>1. SoundWalk(W) /\ ups = Tree(W)
    BY <1>1, <1>2, WalkSound
  <2>2. W \in Seq(Stop) /\ Len(W) \in Nat /\ IdsOf(ups, W)
    BY <2>1, TreeIs
  <2> QED
    BY <2>2 DEF IdsOf
<1> SUFFICES ASSUME Deleting' PROVE DeleteKnown'
  BY DEF DeleteKnown
<1>4. job'.ups = ups /\ job'.todo = W /\ job'.pc = "node"
  <2>1. PICK r \in Reads(root) :
          /\ missed' = (r.n # 0)
          /\ job' = [op |-> "delete", root |-> root, pc |-> "node", ups |-> Tree(Walk(root)),
                     todo |-> r.walk, leaves |-> << >>, to |-> 0, ok |-> TRUE]
    BY DEF BeginDelete
  <2>2. r.walk = Walk(root)
    BY <1>2, <2>1, ReadsIs DEF Deleting
  <2> QED
    BY <1>1, <2>1, <2>2
<1>5. ASSUME NEW k \in 1..(Len(ups) - 1) PROVE \E a \in 1..Len(W) : W[a].id = ups[k]
  BY <1>3
<1> QED
  BY <1>4, <1>5 DEF DeleteKnown, ToVisit

LEMMA CleanKnows == ASSUME LegacyInv, DeleteKnown, CleanNode PROVE DeleteKnown'
PROOF
<1>1. job # NoJob /\ job.op = "delete" /\ job.pc = "node" /\ job.todo # << >> /\ LegacyType
  BY DEF CleanNode, AtNode, LegacyInv
<1>2. job \in Job /\ job.ok \in BOOLEAN /\ job.todo \in Seq(Stop) /\ job.ups \in Seq(0..MaxDir)
  BY <1>1, JobIs
<1>3. PICK d : d = Head(job.todo).id
  OBVIOUS
<1>4. PICK ws : ws = Deleter.node \ {"content"}
  OBVIOUS
<1>5. PICK x \in Removed("dir", d, ws), leaves \in {LeavesOf(d), << >>} :
        /\ missed' = (missed \/ x.missed \/ leaves # LeavesOf(d))
        /\ extra' = extra \ Add("dir", d, x.gone)
        /\ Work([job EXCEPT !.ok = Answer(@, x, "gone"), !.leaves = leaves, !.pc = "row"])
  BY <1>3, <1>4 DEF CleanNode
<1>6. x.ok \in BOOLEAN /\ x.missed \in BOOLEAN
  BY <1>5, RemovedIs
<1>7. PICK ok \in BOOLEAN : ok = (job.ok /\ x.ok) /\ ok = Answer(job.ok, x, "gone")
  BY DEF Answer
<1>8. job' = [job EXCEPT !.ok = ok, !.leaves = leaves, !.pc = "row"]
  BY <1>5, <1>7 DEF Work
<1>9. job'.ok = ok /\ job'.leaves = leaves /\ job'.todo = job.todo /\ job'.ups = job.ups
  BY <1>2, <1>8 DEF Job
<1>10. UNCHANGED <<disturbed, dir, leaf>>
  BY <1>5 DEF Work, CleanNode
<1> SUFFICES ASSUME Deleting' PROVE DeleteKnown'
  BY DEF DeleteKnown
<1>11. Deleting /\ x.ok /\ ~x.missed /\ leaves = LeavesOf(d)
  BY <1>1, <1>5, <1>7, <1>9, <1>10 DEF Deleting
<1>12. Cleaned(d)'
  BY <1>1, <1>4, <1>5, <1>11, CleanedNow
<1>13. ASSUME NEW e, Cleaned(e) PROVE Cleaned(e)'
  <2>1. CASE e = d
    BY <1>12, <2>1
  <2>2. CASE e # d
    <3>1. PICK gone : gone = x.gone
      OBVIOUS
    <3>2. extra' = extra \ Add("dir", d, gone)
      BY <1>5, <3>1
    <3>3. Have("dir", e)' = Have("dir", e)
      BY <2>2, <3>2, HaveTaken
    <3> QED
      BY <1>13, <3>3 DEF Cleaned
  <2> QED
    BY <2>1, <2>2
<1>14. ASSUME NEW k \in 1..(Len(job.ups) - 1) PROVE Cleared(job.ups[k])' \/ ToVisit(job.ups[k])'
  <2>1. PICK e : e = job.ups[k]
    OBVIOUS
  <2>2. e = job'.ups[k]
    BY <1>9, <2>1
  <2>3. Cleared(e) \/ ToVisit(e)
    BY <1>11, <2>1 DEF DeleteKnown
  <2>4. Cleared(e) => Cleared(e)'
    BY <1>10, <1>13 DEF Cleared, HasDir
  <2>5. ToVisit(e) => ToVisit(e)'
    BY <1>9 DEF ToVisit
  <2> QED
    BY <2>2, <2>3, <2>4, <2>5
<1>15. \A l \in LeafId : leaf[l] = d => Waiting(l)'
  <2>1. \A l \in LeafId : leaf[l] = d => \E a \in 1..Len(leaves) : leaves[a] = l
    BY <1>11, LeavesAre
  <2> QED
    BY <1>9, <2>1 DEF Waiting
<1>16. Head(job'.todo).id = d
  BY <1>3, <1>9
<1> QED
  BY <1>9, <1>10, <1>12, <1>14, <1>15, <1>16 DEF DeleteKnown

LEMMA DeleteLeafKnows == ASSUME LegacyInv, DeleteKnown, DeleteLeaf PROVE DeleteKnown'
PROOF
<1>1. /\ job # NoJob /\ job.op = "delete" /\ job.leaves # << >> /\ job.pc = "row" /\ job.todo # << >>
      /\ LegacyType
  <2>1. job # NoJob /\ job.op = "delete" /\ job.leaves # << >> /\ LegacyType /\ JobShape
    BY DEF DeleteLeaf, LegacyInv
  <2>2. job.pc \in {"walk", "node", "row"}
    BY <2>1, JobIs
  <2> QED
    BY <2>1, <2>2 DEF JobShape
<1>2. job \in Job /\ job.leaves \in Seq(LeafId) /\ job.ok \in BOOLEAN /\ job.todo \in Seq(Stop)
  BY <1>1, JobIs
<1>3. PICK l, rest : l = Head(job.leaves) /\ rest = Tail(job.leaves)
  OBVIOUS
<1>4. PICK ws : ws = Deleter.leaf
  OBVIOUS
<1>5. PICK x \in Removed("leaf", l, ws), fate \in RowFates(HasLeaf(l)) :
        /\ missed' = (missed \/ x.missed \/ fate = "spared")
        /\ extra' = extra \ Add("leaf", l, x.gone)
        /\ leaf' = IF fate = "gone" THEN [leaf EXCEPT ![l] = Gone] ELSE leaf
        /\ Work([job EXCEPT !.ok = Answer(@, x, fate), !.leaves = Tail(@)])
  BY <1>3, <1>4 DEF DeleteLeaf
<1>6. x.ok \in BOOLEAN
  BY <1>5, RemovedIs
<1>7. PICK ok \in BOOLEAN : ok = (job.ok /\ x.ok /\ fate # "refused") /\ ok = Answer(job.ok, x, fate)
  BY DEF Answer
<1>8. job' = [job EXCEPT !.ok = ok, !.leaves = rest]
  BY <1>3, <1>5, <1>7 DEF Work
<1>9. job'.ok = ok /\ job'.leaves = rest /\ job'.todo = job.todo /\ job'.ups = job.ups
  BY <1>2, <1>8 DEF Job
<1>10. UNCHANGED <<disturbed, dir>>
  BY <1>5 DEF Work, DeleteLeaf
<1> SUFFICES ASSUME Deleting' PROVE DeleteKnown'
  BY DEF DeleteKnown
<1>11. Deleting /\ fate = "gone"
  BY <1>1, <1>5, <1>7, <1>9, <1>10 DEF Deleting, RowFates
<1>12. leaf' = [leaf EXCEPT ![l] = Gone] /\ leaf \in [LeafId -> 0..MaxDir \cup {Unused, Gone}] /\ l \in LeafId
  <2>1. l \in LeafId
    BY <1>1, <1>2, <1>3, HeadTailProperties
  <2> QED
    BY <1>1, <1>5, <1>11, <2>1 DEF LegacyType
<1>13. ASSUME NEW e \in 0..MaxDir, NEW m \in LeafId, leaf'[m] = e PROVE leaf[m] = e /\ m # l
  <2>1. e # Gone
    BY NoMarker
  <2> QED
    BY <1>12, <1>13, <2>1
<1>14. ASSUME NEW e PROVE Have("dir", e)' = Have("dir", e)
  <2>1. PICK gone : gone = x.gone
    OBVIOUS
  <2>2. extra' = extra \ Add("leaf", l, gone)
    BY <1>5, <2>1
  <2> QED
    BY <2>2, HaveTaken
<1>15. ASSUME NEW k \in 1..(Len(job.ups) - 1) PROVE Cleared(job.ups[k])' \/ ToVisit(job.ups[k])'
  <2>1. PICK e : e = job.ups[k]
    OBVIOUS
  <2>2. e = job'.ups[k]
    BY <1>9, <2>1
  <2>3. Cleared(e) \/ ToVisit(e)
    BY <1>11, <2>1 DEF DeleteKnown
  <2>4. e \in 0..MaxDir
    <3>1. job.ups \in Seq(0..MaxDir) /\ Len(job.ups) \in Nat
      BY <1>1, JobIs
    <3>2. k \in 1..Len(job.ups)
      BY <3>1
    <3>3. job.ups[k] \in 0..MaxDir
      BY <3>1, <3>2, ElementOfSeq
    <3> QED
      BY <2>1, <3>3
  <2>5. Cleared(e) => Cleared(e)'
    BY <1>10, <1>13, <1>14, <2>4 DEF Cleared, HasDir, Cleaned
  <2>6. ToVisit(e) => ToVisit(e)'
    BY <1>9 DEF ToVisit
  <2> QED
    BY <2>2, <2>3, <2>5, <2>6
<1>16. PICK d : d = Head(job.todo).id
  OBVIOUS
<1>17. d \in 0..MaxDir
  <2>1. Head(job.todo) \in Stop
    BY <1>1, <1>2, HeadTailProperties
  <2> QED
    BY <1>16, <2>1, NoMarker DEF Stop
<1>18. Cleaned(d) /\ \A m \in LeafId : leaf[m] = d => Waiting(m)
  BY <1>1, <1>11, <1>16 DEF DeleteKnown
<1>19. Cleaned(d)'
  BY <1>14, <1>18 DEF Cleaned
<1>20. ASSUME NEW m \in LeafId, leaf'[m] = d PROVE Waiting(m)'
  <2>1. leaf[m] = d /\ m # l
    BY <1>13, <1>17, <1>20
  <2>2. PICK a \in 1..Len(job.leaves) : job.leaves[a] = m
    BY <1>18, <2>1 DEF Waiting
  <2>3. a # 1
    BY <1>1, <1>2, <1>3, <2>1, <2>2, HeadIs
  <2>4. a - 1 \in 1..Len(Tail(job.leaves)) /\ Tail(job.leaves)[a - 1] = job.leaves[a]
    BY <1>1, <1>2, <2>3, HeadIs
  <2> QED
    BY <1>3, <1>9, <2>2, <2>4 DEF Waiting
<1>21. Head(job'.todo).id = d
  BY <1>9, <1>16
<1> QED
  BY <1>9, <1>15, <1>19, <1>20, <1>21 DEF DeleteKnown

LEMMA DeleteNodeKnows == ASSUME LegacyInv, DeleteKnown, DeleteNode PROVE DeleteKnown'
PROOF
<1>1. job # NoJob /\ job.op = "delete" /\ job.pc = "row" /\ job.leaves = << >> /\ job.todo # << >> /\ LegacyType
  BY DEF DeleteNode, LegacyInv, JobShape
<1>2. job \in Job /\ job.todo \in Seq(Stop) /\ job.ok \in BOOLEAN
  BY <1>1, JobIs
<1>3. PICK d, rest : d = Head(job.todo).id /\ rest = Tail(job.todo)
  OBVIOUS
<1>4. d \in DirId
  <2>1. Head(job.todo) \in Stop
    BY <1>1, <1>2, HeadTailProperties
  <2> QED
    BY <1>3, <2>1 DEF Stop
<1>5. PICK ws : ws = Deleter.node \cap {"content"}
  OBVIOUS
<1>6. PICK x \in Removed("dir", d, ws), fate \in RowFates(HasDir(d)) :
        /\ missed' = (missed \/ x.missed \/ fate = "spared")
        /\ extra' = extra \ Add("dir", d, x.gone)
        /\ dir' = IF fate = "gone" /\ HasDir(d) THEN [dir EXCEPT ![d] = Gone] ELSE dir
        /\ Work([job EXCEPT !.ok = Answer(@, x, fate), !.todo = Tail(@), !.pc = "node"])
  BY <1>3, <1>5 DEF DeleteNode
<1>7. PICK ok \in BOOLEAN : ok = (job.ok /\ x.ok /\ fate # "refused") /\ ok = Answer(job.ok, x, fate)
  BY DEF Answer
<1>8. job' = [job EXCEPT !.ok = ok, !.todo = rest, !.pc = "node"]
  BY <1>3, <1>6, <1>7 DEF Work
<1>9. job'.ok = ok /\ job'.pc = "node" /\ job'.todo = rest /\ job'.ups = job.ups
  BY <1>2, <1>8 DEF Job
<1>10. UNCHANGED <<disturbed, leaf>>
  BY <1>6 DEF Work, DeleteNode
<1> SUFFICES ASSUME Deleting' PROVE DeleteKnown'
  BY DEF DeleteKnown
<1>11. Deleting /\ fate = "gone"
  BY <1>1, <1>6, <1>7, <1>9, <1>10 DEF Deleting, RowFates
<1>12. ASSUME NEW e \in 0..MaxDir PROVE HasDir(e)' => HasDir(e) /\ e # d
  <2>1. dir \in [DirId -> 0..MaxDir \cup {Unused, Gone}]
    BY <1>1 DEF LegacyType
  <2>2. CASE HasDir(d)
    <3>1. dir' = [dir EXCEPT ![d] = Gone]
      BY <1>6, <1>11, <2>2
    <3> QED
      BY <1>4, <2>1, <2>2, <3>1 DEF HasDir
  <2>3. CASE ~HasDir(d)
    <3>1. dir' = dir
      BY <1>6, <2>3
    <3> QED
      BY <2>3, <3>1 DEF HasDir
  <2> QED
    BY <2>2, <2>3
<1>13. ASSUME NEW e, Cleaned(e) PROVE Cleaned(e)'
  <2>1. PICK gone : gone = x.gone
    OBVIOUS
  <2>2. extra' = extra \ Add("dir", d, gone)
    BY <1>6, <2>1
  <2>3. gone \subseteq {"content"}
    <3>1. "attachment" \notin ws /\ ws \subseteq {"content"}
      BY <1>5
    <3>2. PICK had : had = Have("dir", d)
      OBVIOUS
    <3>3. gone \subseteq had \cap (ws \cup {"file"}) /\ ("file" \in gone => "file" \in ws \/ "attachment" \in ws)
      BY <1>6, <2>1, <3>2, RemovedIs
    <3> QED
      BY <3>1, <3>3
  <2>4. Have("dir", e)' = IF "dir" = "dir" /\ e = d THEN Have("dir", e) \ gone ELSE Have("dir", e)
    BY <2>2, HaveTaken
  <2>5. PICK now, before : now = Have("dir", e)' /\ before = Have("dir", e)
    OBVIOUS
  <2>6. now = before \/ now = before \ gone
    BY <2>4, <2>5
  <2>7. \A w \in {"parameter", "attachment", "file"} : w \in now <=> w \in before
    BY <2>3, <2>6
  <2> QED
    BY <1>13, <2>5, <2>7 DEF Cleaned
<1>14. Cleaned(d) /\ \A m \in LeafId : leaf[m] # d
  <2>1. ASSUME NEW m \in LeafId, leaf[m] = d PROVE FALSE
    <3>1. Waiting(m)
      BY <1>1, <1>3, <1>11, <2>1 DEF DeleteKnown
    <3>2. Len(job.leaves) = 0
      BY <1>1, EmptySeq
    <3> QED
      BY <3>1, <3>2 DEF Waiting
  <2> QED
    BY <1>1, <1>3, <1>11, <2>1 DEF DeleteKnown
<1>15. ASSUME NEW k \in 1..(Len(job.ups) - 1) PROVE Cleared(job.ups[k])' \/ ToVisit(job.ups[k])'
  <2>1. PICK e : e = job.ups[k]
    OBVIOUS
  <2>2. e = job'.ups[k]
    BY <1>9, <2>1
  <2>3. Cleared(e) \/ ToVisit(e)
    BY <1>11, <2>1 DEF DeleteKnown
  <2>4. e \in 0..MaxDir
    <3>1. job.ups \in Seq(0..MaxDir) /\ Len(job.ups) \in Nat
      BY <1>1, JobIs
    <3>2. k \in 1..Len(job.ups)
      BY <3>1
    <3>3. job.ups[k] \in 0..MaxDir
      BY <3>1, <3>2, ElementOfSeq
    <3> QED
      BY <2>1, <3>3
  <2>5. Cleared(e) => Cleared(e)'
    BY <1>10, <1>12, <1>13, <2>4 DEF Cleared
  <2>6. CASE e = d
    <3>1. ~HasDir(e)' /\ Cleaned(e)' /\ \A m \in LeafId : leaf'[m] # e
      BY <1>10, <1>12, <1>13, <1>14, <2>4, <2>6
    <3> QED
      BY <2>2, <3>1 DEF Cleared
  <2>7. CASE e # d /\ ToVisit(e)
    <3>1. PICK a \in 1..Len(job.todo) : job.todo[a].id = e
      BY <2>7 DEF ToVisit
    <3>2. a # 1
      <4>1. Head(job.todo) = job.todo[1]
        BY <1>1, <1>2, HeadIs
      <4> QED
        BY <1>3, <2>7, <3>1, <4>1
    <3>3. a - 1 \in 1..Len(Tail(job.todo)) /\ Tail(job.todo)[a - 1] = job.todo[a]
      BY <1>1, <1>2, <3>2, HeadIs
    <3>4. ToVisit(e)'
      BY <1>3, <1>9, <3>1, <3>3 DEF ToVisit
    <3> QED
      BY <2>2, <3>4
  <2> QED
    BY <2>2, <2>3, <2>5, <2>6, <2>7
<1> QED
  BY <1>9, <1>15 DEF DeleteKnown

LEMMA NotDeleting == ASSUME ~Deleting' PROVE DeleteKnown'
PROOF
  BY DEF DeleteKnown

LEMMA CopyIsNoDelete ==
  ASSUME LegacyType, StartCopy \/ SkipNode \/ CopyNode \/ CopyLeaf, JobShape
  PROVE  ~Deleting'
PROOF
<1>1. job # NoJob /\ job.op = "copy"
  BY DEF StartCopy, SkipNode, CopyNode, CopyLeaf, AtNode, JobShape
<1>2. job \in Job
  BY <1>1, JobIs
<1>3. job'.op = "copy"
  <2>1. CASE StartCopy
    <3>1. PICK todo : job' = [job EXCEPT !.pc = "node", !.todo = todo]
      BY <2>1 DEF StartCopy, Work
    <3> QED
      BY <1>1, <1>2, <3>1 DEF Job
  <2>2. CASE SkipNode
    <3>1. PICK todo : job' = [job EXCEPT !.todo = todo]
      BY <2>2 DEF SkipNode, Work
    <3> QED
      BY <1>1, <1>2, <3>1 DEF Job
  <2>3. CASE CopyNode
    <3>1. PICK new, leaves : job' = [job EXCEPT !.ups = CopyDir(new, Head(job.todo).level), !.to = new,
                                                !.leaves = leaves, !.todo = Tail(@)]
      BY <2>3 DEF CopyNode, Work
    <3> QED
      BY <1>1, <1>2, <3>1 DEF Job
  <2>4. CASE CopyLeaf
    <3>1. PICK leaves : job' = [job EXCEPT !.leaves = leaves]
      BY <2>4 DEF CopyLeaf, Work
    <3> QED
      BY <1>1, <1>2, <3>1 DEF Job
  <2> QED
    BY <2>1, <2>2, <2>3, <2>4
<1> QED
  BY <1>3 DEF Deleting

LEMMA DeleteStep == LegacyInv /\ DeleteKnown /\ [LegacyNext]_legacyVars => DeleteKnown'
PROOF
<1> SUFFICES ASSUME LegacyInv, DeleteKnown, [LegacyNext]_legacyVars PROVE DeleteKnown'
  OBVIOUS
<1>1. CASE UNCHANGED legacyVars
  BY <1>1 DEF DeleteKnown, Deleting, Cleared, Cleaned, ToVisit, Waiting, HasDir, Have, legacyVars
<1>2. ASSUME NEW root \in 1..Dirs, BeginDelete(root) PROVE DeleteKnown'
  BY <1>2, RootIds, BeginDeleteKnows
<1>3. ASSUME NEW root \in 1..Dirs, BeginCopy(root) PROVE DeleteKnown'
  <2>1. job'.op = "copy"
    BY <1>3 DEF BeginCopy
  <2> QED
    BY <2>1, NotDeleting DEF Deleting
<1>4. CASE StartCopy \/ SkipNode \/ CopyNode \/ CopyLeaf
  <2>1. ~Deleting'
    BY <1>4, CopyIsNoDelete DEF LegacyInv
  <2> QED
    BY <2>1, NotDeleting
<1>5. CASE CleanNode
  BY <1>5, CleanKnows
<1>6. CASE DeleteLeaf
  BY <1>6, DeleteLeafKnows
<1>7. CASE DeleteNode
  BY <1>7, DeleteNodeKnows
<1>8. CASE EndJob
  <2>1. ~Deleting'
    BY <1>8 DEF EndJob, Deleting
  <2> QED
    BY <2>1, NotDeleting
<1>9. CASE ChangeDir \/ ChangeLeaf
  <2>1. ~Deleting'
    BY <1>9 DEF ChangeDir, ChangeLeaf, Change, Deleting
  <2> QED
    BY <2>1, NotDeleting
<1> QED
  BY <1>1, <1>2, <1>3, <1>4, <1>5, <1>6, <1>7, <1>8, <1>9 DEF LegacyNext

(* A delete that answers 1, that nobody disturbed and that has missed no row,   *)
(* has removed the whole tree, whatever DELETE or unlink was refused on the     *)
(* way: a refusal the answer does not tell of is a row that was missed.         *)
THEOREM DeletesAreComplete == LegacySpec => []SuccessIsComplete
PROOF
<1>1. LegacyInit => DeleteKnown
  BY DEF LegacyInit, DeleteKnown, Deleting
<1>2. LegacyInv /\ DeleteKnown => SuccessIsComplete
  <2> SUFFICES ASSUME LegacyInv, DeleteKnown, Done, job.op = "delete", job.ok, ~disturbed, ~missed,
                      NEW k \in 1..(Len(job.ups) - 1)
               PROVE  Cleared(job.ups[k])
    BY DEF SuccessIsComplete, Cleared, Cleaned
  <2>1. Deleting /\ Len(job.todo) = 0
    BY EmptySeq DEF Done, Deleting
  <2> QED
    BY <2>1 DEF DeleteKnown, ToVisit
<1> QED
  BY <1>1, <1>2, LegacyStarts, LegacyStep, DeleteStep, PTL DEF LegacySpec

-----------------------------------------------------------------------------
(* A copy.  Somewhere on the walk W of the tree, after p stops, the nodes of   *)
(* the tree are none of the copies; what `ups' holds at the level of a stop    *)
(* already made is a copy or 0; and copies hang at the top or below copies.    *)
Ahead(W, p, todo) == Len(todo) = Len(W) - p /\ \A a \in 1..Len(todo) : todo[a] = W[p + a]

CopyRoute(W, p) == Grove(W, 0, {job.root}) /\ p \in 0..Len(W) /\ Ahead(W, p, job.todo)

CopyApart(W, p) ==
  /\ \A k \in 1..Len(W) : origin.dir[W[k].id] = 0
  /\ \A k \in 1..p : /\ W[k].level + 2 \in 1..Len(job.ups)
                     /\ job.ups[W[k].level + 2] # 0 => origin.dir[job.ups[W[k].level + 2]] # 0
  /\ \A c \in DirId : origin.dir[c] # 0 => Used(c)
  /\ \A c \in DirId : origin.dir[c] # 0 /\ dir[c] # 0 => dir[c] \in DirId /\ origin.dir[dir[c]] # 0

(* As long as nothing was refused, each stop made has one copy, with the same  *)
(* extras, below the copy of the node above; `ups' holds the copy of the last  *)
(* stop of each level; and the leaves that no longer wait have copies, too.    *)
NodeCopied(W, k, c) ==
  /\ CopiesOf(W[k].id) = {c} /\ Have("dir", c) = Have("dir", W[k].id)
  /\ IF k = 1 THEN dir[c] = 0 ELSE dir[c] \in DirId /\ origin.dir[dir[c]] = dir[W[k].id]

LeafCopied(l, c) ==
  \E m \in LeafId : LeafCopiesOf(l) = {m} /\ leaf[m] = c /\ Have("leaf", m) = Have("leaf", l)

LeavesCopied(d, c) == \A l \in LeafId : leaf[l] = d /\ ~Waiting(l) => LeafCopied(l, c)

LastOfLevel(W, k, p) == \A q \in (k + 1)..p : W[q].level # W[k].level

CopyOf(u, d) == u \in DirId /\ origin.dir[u] = d

OnlyStops(W, p) == \A c \in DirId : origin.dir[c] # 0 => \E k \in 1..p : W[k].id = origin.dir[c]

StopCopied(W, k) == \E c \in DirId : NodeCopied(W, k, c) /\ LeavesCopied(W[k].id, c)

LastCopies(W, p) == \A k \in 1..p : LastOfLevel(W, k, p) => CopyOf(job.ups[W[k].level + 2], W[k].id)

LeafCopies(W, p) ==
  \A m \in LeafId : origin.leaf[m] # 0 => /\ leaf[m] # Unused
                                          /\ \E k \in 1..p : leaf[origin.leaf[m]] = W[k].id
                                          /\ ~Waiting(origin.leaf[m])

LeavesWait(W, p) ==
  /\ job.leaves # << >> => p # 0 /\ CopyOf(job.to, W[p].id)
  /\ \A a \in 1..Len(job.leaves) : leaf[job.leaves[a]] = W[p].id
  /\ \A a, b \in 1..Len(job.leaves) : job.leaves[a] = job.leaves[b] => a = b

CopyExact(W, p) == /\ OnlyStops(W, p) /\ \A k \in 1..p : StopCopied(W, k)
                   /\ LastCopies(W, p) /\ LeafCopies(W, p) /\ LeavesWait(W, p)

OnWay(W, p) == CopyRoute(W, p) /\ CopyApart(W, p) /\ (refused = 0 => CopyExact(W, p))

Copying == job # NoJob /\ job.op = "copy" /\ ~disturbed /\ ~missed

CopyKnown ==
  Copying =>
    /\ job.pc = "walk" => origin = NoOrigin
    /\ ~Used(job.root) => job.leaves = << >> /\ \A a \in 1..Len(job.todo) : job.todo[a].id = job.root
    /\ job.pc = "node" /\ HasDir(job.root) => \E W, p : OnWay(W, p)

LEMMA HaveAdded ==
  ASSUME NEW of, NEW oid, NEW got \in SUBSET What, extra' = extra \cup Add(of, oid, got), NEW o, NEW e
  PROVE  Have(o, e)' = IF o = of /\ e = oid THEN Have(o, e) \cup got ELSE Have(o, e)
PROOF
<1>1. ASSUME NEW w
      PROVE  [of |-> o, oid |-> e, what |-> w] \in extra' <=>
               [of |-> o, oid |-> e, what |-> w] \in extra \/ (o = of /\ e = oid /\ w \in got)
  <2>1. PICK x : x = [of |-> o, oid |-> e, what |-> w]
    OBVIOUS
  <2>2. x \in Add(of, oid, got) <=> \E v \in got : x = [of |-> of, oid |-> oid, what |-> v]
    BY AddIs
  <2>3. x \in Add(of, oid, got) <=> o = of /\ e = oid /\ w \in got
    BY <2>1, <2>2
  <2> QED
    BY <2>1, <2>3
<1>2. \A w : w \in Have(o, e)' <=> w \in Have(o, e) \/ (o = of /\ e = oid /\ w \in got)
  <2>1. \A w : w \in got => w \in What
    OBVIOUS
  <2> QED
    BY <1>1, <2>1 DEF Have
<1>3. CASE o = of /\ e = oid
  BY <1>2, <1>3
<1>4. CASE ~ (o = of /\ e = oid)
  <2>1. Have(o, e)' = Have(o, e)
    BY <1>2, <1>4
  <2> QED
    BY <1>4, <2>1
<1> QED
  BY <1>3, <1>4

LEMMA HaveKinds ==
  ASSUME ExtraShape, NoStrayFile, NEW of \in {"dir", "leaf"}, NEW oid, NEW ws,
         ws = IF of = "dir" THEN Copier.node ELSE Copier.leaf
  PROVE  /\ Have(of, oid) \subseteq ws \cup {"file"} /\ Have(of, oid) \subseteq What
         /\ "file" \in Have(of, oid) => "attachment" \in ws
PROOF
<1>1. ASSUME NEW w \in Have(of, oid) PROVE w \in ws \cup {"file"}
  <2>1. PICK x : x = [of |-> of, oid |-> oid, what |-> w]
    OBVIOUS
  <2>2. x \in extra /\ x.of = of /\ x.what = w
    BY <1>1, <2>1, HaveIs
  <2> QED
    BY <2>2 DEF ExtraShape
<1>2. ASSUME "file" \in Have(of, oid) PROVE "attachment" \in Have(of, oid)
  <2>1. PICK x : x = [of |-> of, oid |-> oid, what |-> "file"]
    OBVIOUS
  <2>2. x \in extra /\ x.what = "file"
    BY <1>2, <2>1, HaveIs
  <2>3. [x EXCEPT !.what = "attachment"] \in extra
    BY <2>2 DEF NoStrayFile
  <2>4. [x EXCEPT !.what = "attachment"] = [of |-> of, oid |-> oid, what |-> "attachment"]
    BY <2>1
  <2> QED
    BY <2>3, <2>4, HaveIs DEF What
<1>3. Have(of, oid) \subseteq What
  BY DEF Have
<1> QED
  BY <1>1, <1>2, <1>3

LEMMA HaveNothing ==
  ASSUME ExtraShape
  PROVE  /\ \A d \in DirId : ~Used(d) => Have("dir", d) = {}
         /\ \A l \in LeafId : leaf[l] = Unused => Have("leaf", l) = {}
PROOF
<1>1. ASSUME NEW d \in DirId, ~Used(d), NEW w \in Have("dir", d) PROVE FALSE
  <2>1. PICK x : x = [of |-> "dir", oid |-> d, what |-> w]
    OBVIOUS
  <2>2. x \in extra /\ x.of = "dir" /\ x.oid = d /\ d # 0
    BY <1>1, <2>1, HaveIs, NoMarker
  <2> QED
    BY <1>1, <2>2 DEF ExtraShape
<1>2. ASSUME NEW l \in LeafId, leaf[l] = Unused, NEW w \in Have("leaf", l) PROVE FALSE
  <2>1. PICK x : x = [of |-> "leaf", oid |-> l, what |-> w]
    OBVIOUS
  <2>2. x \in extra /\ x.of = "leaf" /\ x.oid = l /\ l # 0
    BY <1>2, <2>1, HaveIs DEF LeafId
  <2> QED
    BY <1>2, <2>2 DEF ExtraShape
<1> QED
  BY <1>1, <1>2

(* If no statement was refused, all has arrived. *)
LEMMA CopiedAll ==
  ASSUME ExtraShape, NoStrayFile, NEW of \in {"dir", "leaf"}, NEW oid, NEW ws,
         ws = IF of = "dir" THEN Copier.node ELSE Copier.leaf,
         NEW x \in Copied(of, oid, ws), x.n = 0
  PROVE  x.got = Have(of, oid)
PROOF
<1>1. PICK all : all = Have(of, oid) \cap (ws \cup (IF "attachment" \in ws THEN {"file"} ELSE {}))
  OBVIOUS
<1>2. all = Have(of, oid) /\ all \subseteq What
  <2>1. /\ Have(of, oid) \subseteq ws \cup {"file"} /\ Have(of, oid) \subseteq What
        /\ "file" \in Have(of, oid) => "attachment" \in ws
    BY HaveKinds
  <2> QED
    BY <1>1, <2>1
<1>3. PICK S : S = all \ x.got
  OBVIOUS
<1>4. x.got \subseteq all /\ 0 = Cardinality(S) - (IF {"attachment", "file"} \subseteq S THEN 1 ELSE 0)
  BY <1>1, <1>3 DEF Copied
<1>5. S \in SUBSET What
  BY <1>2, <1>3
<1>6. IsFiniteSet(S) /\ Cardinality(S) \in Nat
  BY <1>5, FewExtras
<1>7. S = {}
  <2>1. CASE {"attachment", "file"} \subseteq S
    <3>1. Cardinality(S) = 1
      BY <1>4, <1>6, <2>1
    <3>2. PICK w : S = {w}
      BY <1>6, <3>1, FS_Singleton
    <3> QED
      BY <2>1, <3>2
  <2>2. CASE ~ ({"attachment", "file"} \subseteq S)
    <3>1. Cardinality(S) = 0
      BY <1>4, <1>6, <2>2
    <3> QED
      BY <1>6, <3>1, FS_EmptySet
  <2> QED
    BY <2>1, <2>2
<1> QED
  BY <1>2, <1>3, <1>4, <1>7

(* The step of a copier at a node, with what it found and what it did. *)
NodeDone(old, level, above, new, x) ==
  /\ old = Head(job.todo).id /\ level = Head(job.todo).level /\ HasDir(old)
  /\ above = (IF level = 0 THEN 0 ELSE job.ups[level + 1])
  /\ new \in {0} \cup NewDir /\ x \in Copied("dir", old, Copier.node)
  /\ refused' = 0 => refused = 0 /\ x.n = 0 /\ new # 0
  /\ IF new = 0 THEN UNCHANGED <<dir, origin>>
     ELSE /\ dir' = [dir EXCEPT ![new] = above]
          /\ origin' = [origin EXCEPT !.dir[new] = old]
  /\ extra' = extra \cup Add("dir", new, x.got)
  /\ \E leaves \in {LeavesOf(old), << >>} :
       /\ job' = [job EXCEPT !.ups = CopyDir(new, level), !.to = new, !.leaves = leaves, !.todo = Tail(@)]
       /\ refused' = 0 => leaves = LeavesOf(old)

LEMMA NodeIsDone ==
  ASSUME LegacyInv, CopyNode
  PROVE  \E old, level, above, new, x : NodeDone(old, level, above, new, x)
PROOF
<1>1. PICK old, level : old = Head(job.todo).id /\ level = Head(job.todo).level
  OBVIOUS
<1>2. PICK above : above = IF level = 0 THEN 0 ELSE job.ups[level + 1]
  OBVIOUS
<1>3. PICK new \in {0} \cup NewDir, x \in Copied("dir", old, Copier.node), leaves \in {LeavesOf(old), << >>} :
        /\ Refuse(x.n + (IF new = 0 THEN 1 ELSE 0) + (IF leaves = LeavesOf(old) THEN 0 ELSE 1))
        /\ IF new = 0 THEN UNCHANGED <<dir, origin>>
           ELSE /\ dir' = [dir EXCEPT ![new] = above]
                /\ origin' = [origin EXCEPT !.dir[new] = old]
        /\ extra' = extra \cup Add("dir", new, x.got)
        /\ Work([job EXCEPT !.ups = CopyDir(new, level), !.to = new, !.leaves = leaves, !.todo = Tail(@)])
  BY <1>1, <1>2 DEF CopyNode
<1>4. HasDir(old)
  BY <1>1 DEF CopyNode
<1>5. refused' = 0 => refused = 0 /\ x.n = 0 /\ new # 0 /\ leaves = LeavesOf(old)
  <2>1. x.n \in Nat /\ LegacyType
    BY <1>3, CopiedIs DEF Refusals, LegacyInv, LegacyType
  <2>2. PICK n \in Nat : n = x.n + (IF new = 0 THEN 1 ELSE 0) + (IF leaves = LeavesOf(old) THEN 0 ELSE 1)
    BY <2>1
  <2>3. refused' = 0 => refused = 0 /\ n = 0
    BY <1>3, <2>1, <2>2, RefuseIs
  <2> QED
    BY <2>1, <2>2, <2>3
<1>6. NodeDone(old, level, above, new, x)
  BY <1>1, <1>2, <1>3, <1>4, <1>5 DEF NodeDone, Work
<1> QED
  BY <1>6

LEMMA NodeTables ==
  ASSUME LegacyInv, CopyNode, NEW old, NEW level, NEW above, NEW new, NEW x, NodeDone(old, level, above, new, x)
  PROVE  /\ old \in DirId /\ level \in Nat /\ new \in 0..MaxDir
         /\ new # 0 => /\ new \in DirId /\ dir[new] = Unused /\ dir'[new] = above /\ origin'.dir[new] = old
                       /\ HasDir(old) /\ new # old
         /\ \A c \in DirId : c # new => dir'[c] = dir[c] /\ origin'.dir[c] = origin.dir[c]
         /\ leaf' = leaf /\ origin'.leaf = origin.leaf
PROOF
<1>1. LegacyType /\ job # NoJob /\ job.todo # << >>
  BY DEF LegacyInv, CopyNode, AtNode
<1>2. Head(job.todo) \in Stop
  BY <1>1, JobIs, HeadTailProperties
<1>3. old \in DirId /\ level \in Nat
  BY <1>2 DEF NodeDone, Stop
<1>4. new \in 0..MaxDir /\ (new # 0 => new \in DirId /\ dir[new] = Unused)
  BY NoMarker DEF NodeDone, NewDir
<1>5. leaf' = leaf
  BY DEF CopyNode
<1>6. dir \in [DirId -> 0..MaxDir \cup {Unused, Gone}] /\ origin \in [dir : [DirId -> 0..MaxDir], leaf : [LeafId -> 0..MaxLeaf]]
  BY <1>1 DEF LegacyType
<1>7. CASE new = 0
  <2>1. dir' = dir /\ origin' = origin
    BY <1>7 DEF NodeDone
  <2> QED
    BY <1>3, <1>4, <1>5, <1>7, <2>1
<1>8. CASE new # 0
  <2>1. dir' = [dir EXCEPT ![new] = above] /\ origin' = [origin EXCEPT !.dir[new] = old]
    BY <1>8 DEF NodeDone
  <2>2. dir'[new] = above /\ \A c \in DirId : c # new => dir'[c] = dir[c]
    BY <1>4, <1>6, <1>8, <2>1
  <2>3. origin'.dir[new] = old /\ origin'.leaf = origin.leaf /\ \A c \in DirId : c # new => origin'.dir[c] = origin.dir[c]
    BY <1>4, <1>6, <1>8, <2>1
  <2>4. HasDir(old) /\ new # old
    BY <1>4, <1>8 DEF NodeDone, HasDir
  <2> QED
    BY <1>3, <1>4, <1>5, <2>2, <2>3, <2>4
<1> QED
  BY <1>7, <1>8

LEMMA NodeJob ==
  ASSUME LegacyInv, CopyNode, NEW old, NEW level, NEW above, NEW new, NEW x, NodeDone(old, level, above, new, x)
  PROVE  /\ job'.root = job.root /\ job'.op = job.op /\ job'.pc = job.pc /\ job'.to = new
         /\ job'.todo = Tail(job.todo) /\ job.leaves = << >>
         /\ job'.leaves = LeavesOf(old) \/ (job'.leaves = << >> /\ refused' # 0)
         /\ Len(job'.ups) = Len(job.ups) /\ Len(job.ups) \in Nat
         /\ level + 2 \in 1..Len(job.ups) /\ job'.ups[level + 2] = new
         /\ \A k \in 1..Len(job.ups) : job.ups[k] \in 0..MaxDir /\ (k # level + 2 => job'.ups[k] = job.ups[k])
         /\ job # NoJob /\ job.op = "copy" /\ job.pc = "node" /\ job.todo # << >>
PROOF
<1>1. LegacyType /\ job # NoJob /\ job.op = "copy" /\ job.pc = "node" /\ job.todo # << >> /\ job.leaves = << >>
  BY DEF LegacyInv, CopyNode, AtNode
<1>2. job \in Job /\ job.ups \in Seq(0..MaxDir) /\ Len(job.ups) \in Nat
  BY <1>1, JobIs
<1>3. PICK ups : ups = CopyDir(new, level)
  OBVIOUS
<1>4. PICK leaves : /\ job' = [job EXCEPT !.ups = ups, !.to = new, !.leaves = leaves, !.todo = Tail(@)]
                    /\ leaves = LeavesOf(old) \/ (leaves = << >> /\ refused' # 0)
  BY <1>3 DEF NodeDone
<1>5. /\ job'.root = job.root /\ job'.op = job.op /\ job'.pc = job.pc /\ job'.to = new
      /\ job'.todo = Tail(job.todo) /\ job'.leaves = leaves /\ job'.ups = ups
  BY <1>2, <1>4 DEF Job
<1>6. level + 2 \in 1..Len(job.ups)
  <2>1. level + 2 \in DOMAIN job.ups
    BY DEF CopyNode, NodeDone
  <2> QED
    BY <1>2, <2>1, LenProperties
<1>7. new \in 0..MaxDir /\ ups = [job.ups EXCEPT ![level + 2] = new]
  BY <1>3, NodeTables DEF CopyDir
<1>8. Len(ups) = Len(job.ups) /\ ups[level + 2] = new /\ \A k \in 1..Len(job.ups) : k # level + 2 => ups[k] = job.ups[k]
  BY <1>2, <1>6, <1>7, PlaceWritten
<1>9. \A k \in 1..Len(job.ups) : job.ups[k] \in 0..MaxDir
  BY <1>2, ElementOfSeq
<1> QED
  BY <1>1, <1>2, <1>4, <1>5, <1>6, <1>8, <1>9

(* The stops of a walk are different rows that are there. *)
Standing(W) ==
  /\ \A k \in 1..Len(W) : W[k].id \in DirId /\ HasDir(W[k].id) /\ W[k].level \in Nat
  /\ \A j, k \in 1..Len(W) : W[j].id = W[k].id => j = k

(* Where it is on the walk, and what it hangs the copy below. *)
LEMMA NodeStop ==
  ASSUME LegacyInv, CopyNode, HasDir(job.root), NEW W, NEW p, CopyRoute(W, p),
         NEW old, NEW level, NEW above, NEW new, NEW x, NodeDone(old, level, above, new, x)
  PROVE  /\ p \in Nat /\ p + 1 \in 1..Len(W) /\ Len(W) \in Nat /\ W[p + 1].id = old /\ W[p + 1].level = level
         /\ Ahead(W, p + 1, job'.todo) /\ Standing(W)
PROOF
<1>1. LegacyType /\ TreeShape /\ Grove(W, 0, {job.root}) /\ p \in 0..Len(W)
  BY DEF LegacyInv, CopyRoute
<1>2. job.todo # << >> /\ job'.todo = Tail(job.todo) /\ job # NoJob
  BY NodeJob
<1>3. job.todo \in Seq(Stop) /\ job.root \in DirId
  BY <1>1, <1>2, JobIs
<1>4. W \in Seq(Stop) /\ Len(W) \in Nat /\ 1 \in 1..Len(W) /\ W[1].id = job.root
  BY <1>1, RootFirst
<1>5. /\ 1 \in 1..Len(job.todo) /\ Head(job.todo) = job.todo[1] /\ Len(job.todo) \in Nat
      /\ Len(Tail(job.todo)) = Len(job.todo) - 1
      /\ \A b \in 1..Len(Tail(job.todo)) : b + 1 \in 1..Len(job.todo) /\ Tail(job.todo)[b] = job.todo[b + 1]
  BY <1>2, <1>3, HeadIs
<1>6. Len(job.todo) = Len(W) - p /\ \A a \in 1..Len(job.todo) : job.todo[a] = W[p + a]
  BY DEF CopyRoute, Ahead
<1>7. p \in Nat /\ p + 1 \in 1..Len(W) /\ job.todo[1] = W[p + 1]
  BY <1>1, <1>4, <1>5, <1>6
<1>8. W[p + 1].id = old /\ W[p + 1].level = level
  BY <1>5, <1>7 DEF NodeDone
<1>9. Len(job'.todo) = Len(W) - (p + 1)
  BY <1>2, <1>4, <1>5, <1>6, <1>7
<1>10. ASSUME NEW a \in 1..Len(job'.todo) PROVE job'.todo[a] = W[(p + 1) + a]
  <2>1. a + 1 \in 1..Len(job.todo) /\ Tail(job.todo)[a] = job.todo[a + 1]
    BY <1>2, <1>5, <1>10
  <2>2. job.todo[a + 1] = W[p + (a + 1)]
    BY <1>6, <2>1
  <2>3. p + (a + 1) = (p + 1) + a
    BY <1>5, <1>7, <2>1
  <2> QED
    BY <1>2, <2>1, <2>2, <2>3
<1>11. ASSUME NEW k \in 1..Len(W) PROVE W[k].id \in DirId /\ HasDir(W[k].id) /\ W[k].level \in Nat
  <2>1. W[k].id \in DirId /\ W[k].level \in Nat
    BY <1>4, StopIs
  <2>2. CASE k = 1
    BY <1>4, <2>1, <2>2
  <2>3. CASE k # 1
    BY <1>1, <2>1, <2>3, NodesHang
  <2> QED
    BY <2>2, <2>3
<1>12. \A j, k \in 1..Len(W) : W[j].id = W[k].id => j = k
  BY <1>1, <1>3, NoNodeTwice
<1> QED
  BY <1>4, <1>7, <1>8, <1>9, <1>10, <1>11, <1>12 DEF Ahead, Standing

LEMMA AboveIs ==
  ASSUME LegacyInv, CopyNode, HasDir(job.root), NEW W, NEW p, CopyRoute(W, p), CopyApart(W, p),
         NEW old, NEW level, NEW above, NEW new, NEW x, NodeDone(old, level, above, new, x)
  PROVE  /\ above \in 0..MaxDir
         /\ above # 0 => above \in DirId /\ origin.dir[above] # 0
         /\ p + 1 = 1 => above = 0
         /\ p + 1 # 1 /\ CopyExact(W, p) => CopyOf(above, dir[old])
PROOF
<1>1. /\ p \in Nat /\ p + 1 \in 1..Len(W) /\ Len(W) \in Nat /\ W[p + 1].id = old /\ W[p + 1].level = level
      /\ \A k \in 1..Len(W) : W[k].id \in DirId /\ HasDir(W[k].id) /\ W[k].level \in Nat
  BY NodeStop DEF Standing
<1>2. Grove(W, 0, {job.root})
  BY DEF CopyRoute
<1>3. level + 2 \in 1..Len(job.ups) /\ Len(job.ups) \in Nat /\ level \in Nat /\ \A k \in 1..Len(job.ups) : job.ups[k] \in 0..MaxDir
  BY NodeJob, NodeTables
<1>4. CASE p + 1 = 1
  <2>1. level = 0
    BY <1>1, <1>2, <1>4, RootFirst
  <2>2. above = 0
    BY <2>1 DEF NodeDone
  <2> QED
    BY <1>4, <2>2
<1>5. CASE p + 1 # 1
  <2>1. PICK k : k = p + 1
    OBVIOUS
  <2>2. \E m \in 1..(k - 1) : ParentAt(W, m, k) /\ m \in 1..Len(W) /\ W[m].id \in DirId
    BY <1>1, <1>2, <1>5, <2>1, NodesHang
  <2>3. PICK m \in 1..(k - 1) : ParentAt(W, m, k) /\ m \in 1..Len(W)
    BY <2>2
  <2>4. m \in 1..p /\ W[m].level \in Nat
    <3>1. m \in 1..p
      BY <1>1, <2>1, <2>3
    <3>2. W[m].level \in Nat
      BY <1>1, <2>3
    <3> QED
      BY <3>1, <3>2
  <2>5. W[m].id = dir[old] /\ level = W[m].level + 1
    BY <1>1, <2>1, <2>3 DEF ParentAt
  <2>6. level # 0 /\ level + 1 = W[m].level + 2 /\ W[m].level + 2 \in 1..Len(job.ups)
    <3>1. PICK n \in Nat : n = W[m].level
      BY <2>4
    <3>2. level + 2 \in 1..Len(job.ups) /\ Len(job.ups) \in Nat /\ level = n + 1
      BY <1>3, <2>5, <3>1
    <3>3. level # 0 /\ level + 1 = n + 2 /\ n + 2 \in 1..Len(job.ups)
      BY <3>1, <3>2
    <3> QED
      BY <3>1, <3>3
  <2>7. above = job.ups[W[m].level + 2]
    BY <2>6 DEF NodeDone
  <2>8. above \in 0..MaxDir
    BY <1>3, <2>6, <2>7
  <2>9. above # 0 => above \in DirId /\ origin.dir[above] # 0
    <3>1. above # 0 => origin.dir[above] # 0
      BY <2>4, <2>7 DEF CopyApart
    <3> QED
      BY <2>8, <3>1 DEF DirId
  <2>10. ASSUME CopyExact(W, p) PROVE CopyOf(above, dir[old])
    <3>1. LastOfLevel(W, m, p)
      <4>1. ASSUME NEW q \in (m + 1)..p PROVE W[q].level # W[m].level
        <5>1. q \in (m + 1)..(k - 1) /\ q \in 1..Len(W)
          BY <1>1, <2>1, <2>4
        <5>2. W[q].level >= W[k].level
          BY <2>3, <5>1 DEF ParentAt
        <5>3. W[k].level = W[m].level + 1 /\ W[q].level \in Nat
          BY <1>1, <2>1, <2>5, <5>1
        <5> QED
          BY <2>4, <5>2, <5>3
      <4> QED
        BY <4>1 DEF LastOfLevel
    <3>2. CopyOf(job.ups[W[m].level + 2], W[m].id)
      BY <2>4, <2>10, <3>1 DEF CopyExact, LastCopies
    <3> QED
      BY <2>5, <2>7, <3>2
  <2> QED
    BY <1>5, <2>8, <2>9, <2>10
<1> QED
  BY <1>4, <1>5

(* What a copy does not touch: the walk itself. *)
LEMMA NodeOutside ==
  ASSUME LegacyInv, CopyNode, HasDir(job.root), NEW W, NEW p, CopyRoute(W, p), CopyApart(W, p),
         NEW old, NEW level, NEW above, NEW new, NEW x, NodeDone(old, level, above, new, x),
         NEW k \in 1..Len(W)
  PROVE  /\ W[k].id \in DirId /\ W[k].id # new /\ W[k].id # above
         /\ dir'[W[k].id] = dir[W[k].id] /\ origin'.dir[W[k].id] = 0
         /\ Children(W[k].id)' = Children(W[k].id)
PROOF
<1>1. W[k].id \in DirId /\ HasDir(W[k].id)
  BY NodeStop DEF Standing
<1>2. PICK d : d = W[k].id
  OBVIOUS
<1>3. new # 0 => dir[new] = Unused /\ dir'[new] = above
  BY NodeTables
<1>4. \A c \in DirId : c # new => dir'[c] = dir[c] /\ origin'.dir[c] = origin.dir[c]
  BY NodeTables
<1>5. d \in DirId /\ d # 0 /\ d # Unused
  BY <1>1, <1>2, NoMarker
<1>6. d # new
  BY <1>1, <1>2, <1>3, <1>5 DEF HasDir
<1>7. origin.dir[d] = 0
  BY <1>2 DEF CopyApart
<1>8. d # above
  <2>1. above # 0 => origin.dir[above] # 0
    BY AboveIs
  <2> QED
    BY <1>5, <1>7, <2>1
<1>9. ASSUME NEW c \in DirId PROVE dir'[c] = d <=> dir[c] = d
  <2>1. CASE c = new
    <3>1. new # 0
      BY <2>1, <1>9, NoMarker
    <3> QED
      BY <1>3, <1>5, <1>8, <2>1, <3>1
  <2>2. CASE c # new
    BY <1>4, <2>2
  <2> QED
    BY <2>1, <2>2
<1>10. Children(d)' = Children(d)
  BY <1>9 DEF Children
<1>11. dir'[d] = dir[d] /\ origin'.dir[d] = 0
  BY <1>4, <1>5, <1>6, <1>7
<1> QED
  BY <1>2, <1>5, <1>6, <1>8, <1>10, <1>11

LEMMA NodeRoute ==
  ASSUME LegacyInv, CopyNode, HasDir(job.root), NEW W, NEW p, CopyRoute(W, p), CopyApart(W, p),
         NEW old, NEW level, NEW above, NEW new, NEW x, NodeDone(old, level, above, new, x)
  PROVE  CopyRoute(W, p + 1)'
PROOF
<1>1. PICK r : r = job.root
  OBVIOUS
<1>2. Grove(W, 0, {r}) /\ job'.root = r
  BY <1>1, NodeJob DEF CopyRoute
<1>3. \A k \in 1..Len(W) : /\ k # 1 => dir'[W[k].id] = dir[W[k].id]
                           /\ Children(W[k].id)' = Children(W[k].id)
  BY NodeOutside
<1>4. Grove(W, 0, {r})'
  BY <1>2, <1>3, GroveStays
<1>5. p + 1 \in 1..Len(W) /\ Len(W) \in Nat /\ Ahead(W, p + 1, job'.todo)
  BY NodeStop
<1> QED
  BY <1>2, <1>4, <1>5 DEF CopyRoute

LEMMA NodeApart ==
  ASSUME LegacyInv, CopyNode, HasDir(job.root), NEW W, NEW p, CopyRoute(W, p), CopyApart(W, p),
         NEW old, NEW level, NEW above, NEW new, NEW x, NodeDone(old, level, above, new, x)
  PROVE  CopyApart(W, p + 1)'
PROOF
<1>1. /\ p \in Nat /\ p + 1 \in 1..Len(W) /\ Len(W) \in Nat /\ W[p + 1].id = old /\ W[p + 1].level = level
      /\ \A k \in 1..Len(W) : W[k].id \in DirId /\ HasDir(W[k].id) /\ W[k].level \in Nat
  BY NodeStop DEF Standing
<1>2. /\ old \in DirId /\ level \in Nat
      /\ new # 0 => new \in DirId /\ dir[new] = Unused /\ dir'[new] = above /\ origin'.dir[new] = old
      /\ \A c \in DirId : c # new => dir'[c] = dir[c] /\ origin'.dir[c] = origin.dir[c]
  BY NodeTables
<1>3. above \in 0..MaxDir /\ (above # 0 => above \in DirId /\ origin.dir[above] # 0)
  BY AboveIs
<1>4. \A k \in 1..Len(W) : origin'.dir[W[k].id] = 0
  BY NodeOutside
<1>5. \A c \in DirId : (origin.dir[c] # 0 => Used(c)) /\ (c = new => new # 0)
  BY NoMarker DEF CopyApart
<1>6. ASSUME NEW c \in DirId, origin.dir[c] # 0 PROVE origin'.dir[c] # 0 /\ c # new
  <2>1. c # new
    BY <1>2, <1>5, <1>6 DEF Used
  <2> QED
    BY <1>2, <1>6, <2>1
<1>7. old # 0
  BY <1>2, NoMarker
<1>8. ASSUME NEW k \in 1..(p + 1)
      PROVE  /\ W[k].level + 2 \in 1..Len(job'.ups)
             /\ job'.ups[W[k].level + 2] # 0 => origin'.dir[job'.ups[W[k].level + 2]] # 0
  <2>1. /\ Len(job'.ups) = Len(job.ups) /\ level + 2 \in 1..Len(job.ups) /\ job'.ups[level + 2] = new
        /\ \A i \in 1..Len(job.ups) : job.ups[i] \in 0..MaxDir /\ (i # level + 2 => job'.ups[i] = job.ups[i])
    BY NodeJob
  <2>2. CASE W[k].level + 2 = level + 2
    BY <1>2, <1>7, <2>1, <2>2
  <2>3. CASE W[k].level + 2 # level + 2
    <3>1. k \in 1..p
      BY <1>1, <2>3, <1>8
    <3>2. PICK u : u = job.ups[W[k].level + 2]
      OBVIOUS
    <3>3. W[k].level + 2 \in 1..Len(job.ups) /\ (u # 0 => origin.dir[u] # 0)
      BY <3>1, <3>2 DEF CopyApart
    <3>4. u \in 0..MaxDir /\ job'.ups[W[k].level + 2] = u
      BY <2>1, <2>3, <3>2, <3>3
    <3>5. u # 0 => origin'.dir[u] # 0
      <4>1. u # 0 => u \in DirId
        BY <3>4 DEF DirId
      <4> QED
        BY <3>3, <4>1, <1>6
    <3> QED
      BY <2>1, <3>3, <3>4, <3>5
  <2> QED
    BY <2>2, <2>3
<1>9. ASSUME NEW c \in DirId, origin'.dir[c] # 0
      PROVE  Used(c)' /\ (dir'[c] # 0 => dir'[c] \in DirId /\ origin'.dir[dir'[c]] # 0)
  <2>1. CASE c = new
    <3>1. dir'[c] = above
      BY <1>2, <1>5, <2>1
    <3>2. above # Unused
      BY <1>3, NoMarker
    <3>3. Used(c)'
      BY <3>1, <3>2 DEF Used
    <3>4. above # 0 => above \in DirId /\ origin'.dir[above] # 0
      BY <1>3, <1>6
    <3> QED
      BY <3>1, <3>3, <3>4
  <2>2. CASE c # new
    <3>1. PICK u : u = dir[c]
      OBVIOUS
    <3>2. dir'[c] = u /\ origin.dir[c] # 0
      BY <1>2, <1>9, <2>2, <3>1
    <3>3. u # Unused /\ (u # 0 => u \in DirId /\ origin.dir[u] # 0)
      BY <1>9, <3>1, <3>2 DEF CopyApart, Used
    <3>4. u # 0 => u \in DirId /\ origin'.dir[u] # 0
      BY <3>3, <1>6
    <3> QED
      BY <3>2, <3>3, <3>4 DEF Used
  <2> QED
    BY <2>1, <2>2
<1> QED
  BY <1>4, <1>8, <1>9 DEF CopyApart

(* A node copied with nothing refused. *)
LEMMA NodeWhole ==
  ASSUME LegacyInv, CopyNode, NEW old, NEW level, NEW above, NEW new, NEW x, NodeDone(old, level, above, new, x),
         refused' = 0
  PROVE  /\ refused = 0 /\ new # 0 /\ new \in DirId /\ ~Used(new)
         /\ Have("dir", new)' = Have("dir", old)
         /\ \A d : d # new => Have("dir", d)' = Have("dir", d)
         /\ \A l : Have("leaf", l)' = Have("leaf", l)
PROOF
<1>1. LegacyType /\ ExtraShape /\ NoStrayFile /\ refused \in 0..MaxRefused
  BY DEF LegacyInv, LegacyType
<1>2. PICK ws : ws = Copier.node
  OBVIOUS
<1>3. x \in Copied("dir", old, ws) /\ extra' = extra \cup Add("dir", new, x.got)
  BY <1>2 DEF NodeDone
<1>4. x.n \in 0..(MaxRefused - refused) /\ x.got \in SUBSET What /\ x.got \subseteq Have("dir", old)
  BY <1>3, CopiedIs DEF Refusals
<1>5. refused = 0 /\ x.n = 0 /\ new # 0
  BY DEF NodeDone
<1>6. x.got = Have("dir", old)
  <2>1. ws = IF "dir" = "dir" THEN Copier.node ELSE Copier.leaf
    BY <1>2
  <2> QED
    BY <1>1, <1>3, <1>5, <2>1, CopiedAll
<1>7. new \in DirId /\ ~Used(new)
  BY <1>5, NodeTables DEF Used
<1>8. Have("dir", new) = {}
  BY <1>1, <1>7, HaveNothing
<1>9. \A o, e : Have(o, e)' = IF o = "dir" /\ e = new THEN Have(o, e) \cup x.got ELSE Have(o, e)
  BY <1>3, <1>4, HaveAdded
<1>10. Have("dir", new)' = Have("dir", old)
  BY <1>6, <1>8, <1>9
<1> QED
  BY <1>5, <1>7, <1>9, <1>10

LEMMA NodeOnlyStops ==
  ASSUME LegacyInv, CopyNode, HasDir(job.root), NEW W, NEW p, CopyRoute(W, p), OnlyStops(W, p),
         NEW old, NEW level, NEW above, NEW new, NEW x, NodeDone(old, level, above, new, x)
  PROVE  OnlyStops(W, p + 1)'
PROOF
<1>1. p \in Nat /\ p + 1 \in 1..Len(W) /\ Len(W) \in Nat /\ W[p + 1].id = old
  BY NodeStop
<1>2. /\ new # 0 => origin'.dir[new] = old
      /\ \A c \in DirId : c # new => origin'.dir[c] = origin.dir[c]
  BY NodeTables
<1>3. ASSUME NEW c \in DirId, origin'.dir[c] # 0 PROVE \E k \in 1..(p + 1) : W[k].id = origin'.dir[c]
  <2>1. CASE c = new
    <3>1. origin'.dir[c] = old
      BY <1>2, <2>1, <1>3, NoMarker
    <3> QED
      BY <1>1, <3>1
  <2>2. CASE c # new
    <3>1. origin'.dir[c] = origin.dir[c]
      BY <1>2, <2>2
    <3>2. PICK k \in 1..p : W[k].id = origin.dir[c]
      BY <1>3, <3>1 DEF OnlyStops
    <3>3. k \in 1..(p + 1)
      BY <1>1, <3>2
    <3> QED
      BY <3>1, <3>2, <3>3
  <2> QED
    BY <2>1, <2>2
<1> QED
  BY <1>3 DEF OnlyStops

(* The stops copied before are as they were. *)
LEMMA CopyStands ==
  ASSUME LegacyInv, CopyNode, HasDir(job.root), NEW W, NEW p, CopyRoute(W, p), CopyApart(W, p),
         NEW old, NEW level, NEW above, NEW new, NEW x, NodeDone(old, level, above, new, x), refused' = 0,
         NEW k \in 1..p, StopCopied(W, k)
  PROVE  StopCopied(W, k)'
PROOF
<1>1. /\ p \in Nat /\ p + 1 \in 1..Len(W) /\ Len(W) \in Nat /\ W[p + 1].id = old
      /\ \A a, b \in 1..Len(W) : W[a].id = W[b].id => a = b
  BY NodeStop DEF Standing
<1>2. k \in 1..Len(W) /\ k # p + 1 /\ p + 1 \in 1..Len(W)
  BY <1>1
<1>3. PICK d : d = W[k].id
  OBVIOUS
<1>4. d # old
  BY <1>1, <1>2, <1>3
<1>5. d \in DirId /\ d # new /\ dir'[d] = dir[d] /\ d # 0
  BY <1>2, <1>3, NodeOutside, NoMarker
<1>6. /\ new # 0 /\ new \in DirId /\ ~Used(new)
      /\ \A e : e # new => Have("dir", e)' = Have("dir", e)
      /\ \A l : Have("leaf", l)' = Have("leaf", l)
  BY NodeWhole
<1>7. /\ origin'.dir[new] = old /\ leaf' = leaf /\ origin'.leaf = origin.leaf
      /\ \A c \in DirId : c # new => dir'[c] = dir[c] /\ origin'.dir[c] = origin.dir[c]
  BY <1>6, NodeTables
<1>8. \A c \in DirId : origin.dir[c] # 0 => c # new
  BY <1>6 DEF CopyApart
<1>9. PICK c \in DirId : NodeCopied(W, k, c) /\ LeavesCopied(d, c)
  BY <1>3 DEF StopCopied
<1>10. origin.dir[c] = d
  BY <1>3, <1>9 DEF NodeCopied, CopiesOf
<1>11. c # new /\ dir'[c] = dir[c] /\ Have("dir", c)' = Have("dir", c) /\ Have("dir", d)' = Have("dir", d)
  BY <1>5, <1>6, <1>7, <1>8, <1>9, <1>10
<1>12. CopiesOf(d)' = {c}
  <2>1. CopiesOf(d) = {c}
    BY <1>3, <1>9 DEF NodeCopied
  <2>2. ASSUME NEW e \in DirId PROVE origin'.dir[e] = d <=> origin.dir[e] = d
    BY <1>4, <1>5, <1>7, <1>8
  <2>3. CopiesOf(d)' = CopiesOf(d)
    BY <2>2 DEF CopiesOf
  <2> QED
    BY <2>1, <2>3
<1>13. IF k = 1 THEN dir'[c] = 0 ELSE dir'[c] \in DirId /\ origin'.dir[dir'[c]] = dir'[d]
  <2>1. CASE k = 1
    BY <1>9, <1>11, <2>1 DEF NodeCopied
  <2>2. CASE k # 1
    <3>1. PICK u : u = dir[c]
      OBVIOUS
    <3>2. u \in DirId /\ origin.dir[u] = dir[d]
      BY <1>3, <1>9, <2>2, <3>1 DEF NodeCopied
    <3>3. dir[d] \in DirId /\ dir[d] # 0
      <4>1. Grove(W, 0, {job.root})
        BY DEF CopyRoute
      <4>2. dir[d] \in DirId
        BY <1>2, <1>3, <2>2, <4>1, NodesHang
      <4> QED
        BY <4>2, NoMarker
    <3>4. u # new /\ origin'.dir[u] = dir[d]
      BY <1>7, <1>8, <3>2, <3>3
    <3> QED
      BY <1>5, <1>11, <2>2, <3>1, <3>2, <3>4
  <2> QED
    BY <2>1, <2>2
<1>14. LeavesCopied(d, c)'
  <2>1. ASSUME NEW l \in LeafId, leaf'[l] = d PROVE LeafCopied(l, c)'
    <3>1. job.leaves = << >>
      BY NodeJob
    <3>2. ~Waiting(l)
      BY <3>1 DEF Waiting
    <3>3. LeafCopied(l, c)
      BY <1>7, <1>9, <2>1, <3>2 DEF LeavesCopied
    <3> QED
      BY <1>6, <1>7, <3>3 DEF LeafCopied, LeafCopiesOf
  <2> QED
    BY <2>1 DEF LeavesCopied
<1> QED
  BY <1>3, <1>9, <1>11, <1>12, <1>13, <1>14 DEF StopCopied, NodeCopied

(* The stop copied now. *)
LEMMA NodeStands ==
  ASSUME LegacyInv, CopyNode, HasDir(job.root), NEW W, NEW p, CopyRoute(W, p), CopyApart(W, p), CopyExact(W, p),
         NEW old, NEW level, NEW above, NEW new, NEW x, NodeDone(old, level, above, new, x), refused' = 0
  PROVE  StopCopied(W, p + 1)'
PROOF
<1>1. /\ p \in Nat /\ p + 1 \in 1..Len(W) /\ Len(W) \in Nat /\ W[p + 1].id = old
      /\ \A a, b \in 1..Len(W) : W[a].id = W[b].id => a = b
  BY NodeStop DEF Standing
<1>2. /\ new # 0 /\ new \in DirId /\ ~Used(new) /\ Have("dir", new)' = Have("dir", old)
      /\ \A e : e # new => Have("dir", e)' = Have("dir", e)
  BY NodeWhole
<1>3. /\ old \in DirId /\ new # old /\ dir'[new] = above /\ origin'.dir[new] = old /\ leaf' = leaf
      /\ \A c \in DirId : c # new => dir'[c] = dir[c] /\ origin'.dir[c] = origin.dir[c]
  BY <1>2, NodeTables
<1>4. \A c \in DirId : origin.dir[c] # 0 => c # new
  BY <1>2 DEF CopyApart
<1>5. old # 0 /\ dir'[old] = dir[old]
  BY <1>3, NoMarker
<1>6. CopiesOf(old)' = {new}
  <2>1. ASSUME NEW e \in DirId PROVE origin'.dir[e] = old <=> e = new
    <3>1. CASE e = new
      BY <1>3, <3>1
    <3>2. CASE e # new
      <4>1. SUFFICES ASSUME origin.dir[e] = old PROVE FALSE
        BY <1>3, <3>2
      <4>2. PICK k \in 1..p : W[k].id = origin.dir[e]
        BY <1>5, <4>1 DEF CopyExact, OnlyStops
      <4>3. k \in 1..Len(W) /\ k # p + 1
        BY <1>1, <4>2
      <4> QED
        BY <1>1, <4>1, <4>2, <4>3
    <3> QED
      BY <3>1, <3>2
  <2> QED
    BY <1>2, <2>1 DEF CopiesOf
<1>7. IF p + 1 = 1 THEN dir'[new] = 0 ELSE dir'[new] \in DirId /\ origin'.dir[dir'[new]] = dir'[old]
  <2>1. CASE p + 1 = 1
    <3>1. above = 0
      BY <2>1, AboveIs
    <3> QED
      BY <1>3, <2>1, <3>1
  <2>2. CASE p + 1 # 1
    <3>1. CopyOf(above, dir[old]) /\ (above # 0 => origin.dir[above] # 0)
      BY <2>2, AboveIs
    <3>2. above \in DirId /\ origin.dir[above] = dir[old] /\ origin.dir[above] # 0
      BY <3>1, NoMarker DEF CopyOf
    <3>3. origin'.dir[above] = dir[old]
      BY <1>3, <1>4, <3>2
    <3> QED
      BY <1>3, <1>5, <2>2, <3>2, <3>3
  <2> QED
    BY <2>1, <2>2
<1>8. LeavesCopied(old, new)'
  <2>1. ASSUME NEW l \in LeafId, leaf'[l] = old PROVE Waiting(l)'
    <3>1. PICK s : s = LeavesOf(old)
      OBVIOUS
    <3>2. job'.leaves = s
      BY <3>1, NodeJob
    <3>3. \E a \in 1..Len(s) : s[a] = l
      BY <1>3, <2>1, <3>1, LeavesAre
    <3> QED
      BY <3>2, <3>3 DEF Waiting
  <2> QED
    BY <2>1 DEF LeavesCopied
<1>9. Have("dir", new)' = Have("dir", old)'
  BY <1>2, <1>3
<1>10. NodeCopied(W, p + 1, new)'
  BY <1>1, <1>6, <1>7, <1>9 DEF NodeCopied
<1> QED
  BY <1>1, <1>2, <1>8, <1>10 DEF StopCopied

LEMMA NodeLast ==
  ASSUME LegacyInv, CopyNode, HasDir(job.root), NEW W, NEW p, CopyRoute(W, p), CopyApart(W, p), LastCopies(W, p),
         NEW old, NEW level, NEW above, NEW new, NEW x, NodeDone(old, level, above, new, x), refused' = 0
  PROVE  LastCopies(W, p + 1)'
PROOF
<1>1. /\ p \in Nat /\ p + 1 \in 1..Len(W) /\ Len(W) \in Nat /\ W[p + 1].id = old /\ W[p + 1].level = level
      /\ \A k \in 1..Len(W) : W[k].id \in DirId /\ W[k].level \in Nat
  BY NodeStop DEF Standing
<1>2. new # 0 /\ new \in DirId /\ ~Used(new)
  BY NodeWhole
<1>3. /\ level \in Nat /\ origin'.dir[new] = old
      /\ \A c \in DirId : c # new => origin'.dir[c] = origin.dir[c]
  BY <1>2, NodeTables
<1>4. \A c \in DirId : origin.dir[c] # 0 => c # new
  BY <1>2 DEF CopyApart
<1>5. /\ level + 2 \in 1..Len(job.ups) /\ job'.ups[level + 2] = new
      /\ \A i \in 1..Len(job.ups) : i # level + 2 => job'.ups[i] = job.ups[i]
  BY NodeJob
<1>6. ASSUME NEW k \in 1..(p + 1), LastOfLevel(W, k, p + 1) PROVE CopyOf(job.ups[W[k].level + 2], W[k].id)'
  <2>1. CASE k = p + 1
    BY <1>1, <1>2, <1>3, <1>5, <2>1 DEF CopyOf
  <2>2. CASE k # p + 1
    <3>1. k \in 1..p /\ p + 1 \in (k + 1)..(p + 1) /\ k \in 1..Len(W)
      BY <1>1, <1>6, <2>2
    <3>2. W[k].level # level
      BY <1>1, <1>6, <3>1 DEF LastOfLevel
    <3>3. LastOfLevel(W, k, p)
      <4>1. ASSUME NEW q \in (k + 1)..p PROVE W[q].level # W[k].level
        <5>1. q \in (k + 1)..(p + 1)
          BY <1>1, <3>1, <4>1
        <5> QED
          BY <1>6, <5>1 DEF LastOfLevel
      <4> QED
        BY <4>1 DEF LastOfLevel
    <3>4. PICK u : u = job.ups[W[k].level + 2]
      OBVIOUS
    <3>5. u \in DirId /\ origin.dir[u] = W[k].id
      BY <3>1, <3>3, <3>4 DEF LastCopies, CopyOf
    <3>6. W[k].level + 2 \in 1..Len(job.ups)
      BY <3>1 DEF CopyApart
    <3>7. W[k].level + 2 # level + 2
      BY <1>1, <1>3, <3>1, <3>2
    <3>8. job'.ups[W[k].level + 2] = u
      BY <1>5, <3>4, <3>6, <3>7
    <3>9. origin'.dir[u] = W[k].id
      <4>1. W[k].id # 0
        BY <1>1, <3>1, NoMarker
      <4> QED
        BY <1>3, <1>4, <3>5, <4>1
    <3> QED
      BY <3>5, <3>8, <3>9 DEF CopyOf
  <2> QED
    BY <2>1, <2>2
<1> QED
  BY <1>6 DEF LastCopies

LEMMA NodeLeaves ==
  ASSUME LegacyInv, CopyNode, HasDir(job.root), NEW W, NEW p, CopyRoute(W, p), LeafCopies(W, p),
         NEW old, NEW level, NEW above, NEW new, NEW x, NodeDone(old, level, above, new, x), refused' = 0
  PROVE  LeafCopies(W, p + 1)' /\ LeavesWait(W, p + 1)'
PROOF
<1>1. /\ p \in Nat /\ p + 1 \in 1..Len(W) /\ Len(W) \in Nat /\ W[p + 1].id = old
      /\ \A a, b \in 1..Len(W) : W[a].id = W[b].id => a = b
  BY NodeStop DEF Standing
<1>2. PICK s : s = LeavesOf(old)
  OBVIOUS
<1>3. job'.leaves = s /\ job'.to = new
  BY <1>2, NodeJob
<1>4. /\ Len(s) \in Nat
      /\ \A a \in 1..Len(s) : s[a] \in LeafId /\ leaf[s[a]] = old
      /\ \A a, b \in 1..Len(s) : s[a] = s[b] => a = b
  BY <1>2, LeavesAre
<1>5. new # 0 /\ new \in DirId
  BY NodeWhole
<1>6. leaf' = leaf /\ origin'.leaf = origin.leaf /\ origin'.dir[new] = old
  BY <1>5, NodeTables
<1>7. ASSUME NEW m \in LeafId, origin'.leaf[m] # 0
      PROVE  /\ leaf'[m] # Unused
             /\ \E k \in 1..(p + 1) : leaf'[origin'.leaf[m]] = W[k].id
             /\ ~Waiting(origin.leaf[m])'
  <2>1. PICK l : l = origin.leaf[m]
    OBVIOUS
  <2>2. leaf[m] # Unused /\ \E k \in 1..p : leaf[l] = W[k].id
    BY <1>6, <1>7, <2>1 DEF LeafCopies
  <2>3. PICK k \in 1..p : leaf[l] = W[k].id
    BY <2>2
  <2>4. k \in 1..(p + 1) /\ k # p + 1 /\ k \in 1..Len(W)
    BY <1>1, <2>3
  <2>5. leaf[l] # old
    BY <1>1, <2>3, <2>4
  <2>6. ~Waiting(l)'
    BY <1>3, <1>4, <2>5 DEF Waiting
  <2> QED
    BY <1>6, <2>1, <2>2, <2>3, <2>4, <2>6
<1>8. LeafCopies(W, p + 1)'
  BY <1>7 DEF LeafCopies
<1>9. LeavesWait(W, p + 1)'
  <2>1. p + 1 # 0 /\ CopyOf(job.to, W[p + 1].id)'
    BY <1>1, <1>3, <1>5, <1>6 DEF CopyOf
  <2>2. \A a \in 1..Len(job'.leaves) : leaf'[job'.leaves[a]] = W[p + 1].id
    BY <1>1, <1>3, <1>4, <1>6
  <2>3. \A a, b \in 1..Len(job'.leaves) : job'.leaves[a] = job'.leaves[b] => a = b
    BY <1>3, <1>4
  <2> QED
    BY <2>1, <2>2, <2>3 DEF LeavesWait
<1> QED
  BY <1>8, <1>9

LEMMA NodeOnWay ==
  ASSUME LegacyInv, CopyNode, HasDir(job.root), NEW W, NEW p, OnWay(W, p)
  PROVE  OnWay(W, p + 1)'
PROOF
<1>1. CopyRoute(W, p) /\ CopyApart(W, p) /\ (refused = 0 => CopyExact(W, p))
  BY DEF OnWay
<1>2. \E old, level, above, new, x : NodeDone(old, level, above, new, x)
  BY NodeIsDone
<1>3. PICK old, level, above, new, x : NodeDone(old, level, above, new, x)
  BY <1>2
<1>4. CopyRoute(W, p + 1)' /\ CopyApart(W, p + 1)'
  BY <1>1, <1>3, NodeRoute, NodeApart
<1>5. ASSUME refused' = 0 PROVE CopyExact(W, p + 1)'
  <2>1. refused = 0
    BY <1>3, <1>5, NodeWhole
  <2>2. CopyExact(W, p)
    BY <1>1, <2>1
  <2>3. OnlyStops(W, p + 1)'
    BY <1>1, <1>3, <2>2, NodeOnlyStops DEF CopyExact
  <2>4. StopCopied(W, p + 1)'
    BY <1>1, <1>3, <1>5, <2>2, NodeStands
  <2>5. LastCopies(W, p + 1)'
    BY <1>1, <1>3, <1>5, <2>2, NodeLast DEF CopyExact
  <2>6. LeafCopies(W, p + 1)' /\ LeavesWait(W, p + 1)'
    BY <1>1, <1>3, <1>5, <2>2, NodeLeaves DEF CopyExact
  <2>7. ASSUME NEW k \in 1..(p + 1) PROVE StopCopied(W, k)'
    <3>1. CASE k = p + 1
      BY <2>4, <3>1
    <3>2. CASE k # p + 1
      <4>1. p \in Nat
        BY <1>1, <1>3, NodeStop
      <4>2. k \in 1..p
        BY <2>7, <3>2, <4>1
      <4>3. StopCopied(W, k)
        BY <2>2, <4>2 DEF CopyExact
      <4> QED
        BY <1>1, <1>3, <1>5, <4>2, <4>3, CopyStands
    <3> QED
      BY <3>1, <3>2
  <2> QED
    BY <2>3, <2>5, <2>6, <2>7 DEF CopyExact
<1> QED
  BY <1>4, <1>5 DEF OnWay

(* The step of a copier at a leaf. *)
LEMMA LeafJob ==
  ASSUME LegacyInv, CopyLeaf
  PROVE  /\ job # NoJob /\ job.op = "copy" /\ job.pc = "node" /\ job.leaves # << >>
         /\ job'.root = job.root /\ job'.op = job.op /\ job'.pc = job.pc /\ job'.to = job.to
         /\ job'.todo = job.todo /\ job'.ups = job.ups /\ job'.leaves = Tail(job.leaves)
         /\ dir' = dir /\ origin'.dir = origin.dir /\ UNCHANGED <<disturbed, missed>>
         /\ refused' = 0 => refused = 0
PROOF
<1>1. LegacyType /\ JobShape
  BY DEF LegacyInv
<1>2. job # NoJob /\ job.op = "copy" /\ job.leaves # << >> /\ job.pc = "node"
  <2>1. job # NoJob /\ job.op = "copy" /\ job.leaves # << >>
    BY DEF CopyLeaf
  <2>2. job.pc \in {"walk", "node", "row"}
    BY <1>1, <2>1, JobIs
  <2> QED
    BY <1>1, <2>1, <2>2 DEF JobShape
<1>3. job \in Job
  BY <1>1, <1>2, JobIs
<1>4. PICK old, rest : old = Head(job.leaves) /\ rest = Tail(job.leaves)
  OBVIOUS
<1>5. job' = [job EXCEPT !.leaves = rest] /\ UNCHANGED <<kind, disturbed, missed, dir>>
  BY <1>4 DEF CopyLeaf, Work
<1>6. \/ (\E n \in {0, 1} : Refuse(n)) /\ UNCHANGED <<leaf, extra, origin>>
      \/ \E new \in {0} \cup NewLeaf, x \in Copied("leaf", old, Copier.leaf), n \in {0, 1} :
           /\ Refuse(x.n + n)
           /\ origin' = origin \/ origin' = [origin EXCEPT !.leaf[new] = old]
  BY <1>4 DEF CopyLeaf
<1>7. origin \in [dir : [DirId -> 0..MaxDir], leaf : [LeafId -> 0..MaxLeaf]] /\ refused \in Nat
  BY <1>1, LegacyAssumption DEF LegacyType
<1>8. origin'.dir = origin.dir /\ (refused' = 0 => refused = 0)
  <2>1. CASE (\E n \in {0, 1} : Refuse(n)) /\ UNCHANGED <<leaf, extra, origin>>
    BY <1>1, <2>1, RefuseIs
  <2>2. ASSUME NEW new \in {0} \cup NewLeaf, NEW x \in Copied("leaf", old, Copier.leaf), NEW n \in {0, 1},
               Refuse(x.n + n), origin' = origin \/ origin' = [origin EXCEPT !.leaf[new] = old]
        PROVE  origin'.dir = origin.dir /\ (refused' = 0 => refused = 0)
    <3>1. x.n \in Nat
      BY <1>1, CopiedIs DEF Refusals, LegacyType
    <3>2. origin'.dir = origin.dir
      BY <1>7, <2>2
    <3>3. refused' = 0 => refused = 0
      <4>1. PICK m \in Nat : m = x.n + n
        BY <3>1
      <4> QED
        BY <1>1, <2>2, <4>1, RefuseIs
    <3> QED
      BY <3>2, <3>3
  <2> QED
    BY <1>6, <2>1, <2>2
<1> QED
  BY <1>2, <1>3, <1>4, <1>5, <1>8 DEF Job

LEMMA LeafApart ==
  ASSUME LegacyInv, CopyLeaf, NEW W, NEW p, CopyRoute(W, p), CopyApart(W, p)
  PROVE  CopyRoute(W, p)' /\ CopyApart(W, p)'
PROOF
<1>1. /\ job'.root = job.root /\ job'.todo = job.todo /\ job'.ups = job.ups
      /\ dir' = dir /\ origin'.dir = origin.dir
  BY LeafJob
<1>2. CopyApart(W, p)'
  BY <1>1 DEF CopyApart, Used
<1>3. PICK r : r = job.root
  OBVIOUS
<1>4. Grove(W, 0, {r})
  BY <1>3 DEF CopyRoute
<1>5. \A k \in 1..Len(W) : /\ k # 1 => dir'[W[k].id] = dir[W[k].id]
                           /\ Children(W[k].id)' = Children(W[k].id)
  BY <1>1 DEF Children
<1>6. Grove(W, 0, {r})'
  BY <1>4, <1>5, GroveStays
<1>7. CopyRoute(W, p)'
  BY <1>1, <1>3, <1>6 DEF CopyRoute
<1> QED
  BY <1>2, <1>7

(* A leaf that is there, copied with nothing refused. *)
LEMMA LeafWhole ==
  ASSUME LegacyInv, CopyLeaf, NEW old \in LeafId, old = Head(job.leaves), HasLeaf(old), refused' = 0
  PROVE  \E new \in LeafId :
           /\ leaf[new] = Unused /\ leaf'[new] = job.to /\ origin'.leaf[new] = old
           /\ \A l \in LeafId : l # new => leaf'[l] = leaf[l] /\ origin'.leaf[l] = origin.leaf[l]
           /\ Have("leaf", new)' = Have("leaf", old)
           /\ \A l : l # new => Have("leaf", l)' = Have("leaf", l)
           /\ \A d : Have("dir", d)' = Have("dir", d)
PROOF
<1>1. LegacyType /\ ExtraShape /\ NoStrayFile
  BY DEF LegacyInv
<1>2. PICK ws, to : ws = Copier.leaf /\ to = job.to
  OBVIOUS
<1>3. \E new \in {0} \cup NewLeaf, x \in Copied("leaf", old, ws) :
        /\ Refuse(x.n + (IF new = 0 THEN 1 ELSE 0))
        /\ new # 0 => /\ leaf' = [leaf EXCEPT ![new] = to]
                      /\ origin' = [origin EXCEPT !.leaf[new] = old]
        /\ extra' = extra \cup Add("leaf", new, x.got)
  <2>1. ~ Refuse(IF HasLeaf(old) THEN 1 ELSE 0)
    BY <1>1, RefuseIs
  <2> QED
    BY <1>2, <2>1 DEF CopyLeaf
<1>4. PICK new \in {0} \cup NewLeaf, x \in Copied("leaf", old, ws) :
        /\ Refuse(x.n + (IF new = 0 THEN 1 ELSE 0))
        /\ new # 0 => /\ leaf' = [leaf EXCEPT ![new] = to]
                      /\ origin' = [origin EXCEPT !.leaf[new] = old]
        /\ extra' = extra \cup Add("leaf", new, x.got)
  BY <1>3
<1>5. x.n \in Nat /\ x.got \in SUBSET What
  <2>1. x \in Copied("leaf", old, ws)
    BY <1>4
  <2>2. x.n \in 0..(MaxRefused - refused) /\ x.got \in SUBSET What
    BY <2>1, CopiedIs DEF Refusals
  <2> QED
    BY <2>2
<1>6. PICK n \in Nat : n = x.n + (IF new = 0 THEN 1 ELSE 0)
  BY <1>5
<1>7. x.n = 0 /\ new # 0
  <2>1. n = 0
    BY <1>1, <1>4, <1>6, RefuseIs
  <2> QED
    BY <1>5, <1>6, <2>1
<1>8. new \in LeafId /\ leaf[new] = Unused
  BY <1>4, <1>7 DEF NewLeaf
<1>9. x.got = Have("leaf", old)
  <2>1. ws = IF "leaf" = "dir" THEN Copier.node ELSE Copier.leaf
    BY <1>2
  <2> QED
    BY <1>1, <1>4, <1>7, <2>1, CopiedAll
<1>10. Have("leaf", new) = {}
  BY <1>1, <1>8, HaveNothing
<1>11. \A o, e : Have(o, e)' = IF o = "leaf" /\ e = new THEN Have(o, e) \cup x.got ELSE Have(o, e)
  BY <1>4, <1>5, HaveAdded
<1>12. Have("leaf", new)' = Have("leaf", old)
  BY <1>9, <1>10, <1>11
<1>13. /\ leaf \in [LeafId -> 0..MaxDir \cup {Unused, Gone}]
       /\ origin \in [dir : [DirId -> 0..MaxDir], leaf : [LeafId -> 0..MaxLeaf]]
  BY <1>1 DEF LegacyType
<1>14. leaf'[new] = to /\ \A l \in LeafId : l # new => leaf'[l] = leaf[l]
  BY <1>4, <1>7, <1>8, <1>13
<1>15. origin'.leaf[new] = old /\ \A l \in LeafId : l # new => origin'.leaf[l] = origin.leaf[l]
  BY <1>4, <1>7, <1>8, <1>13
<1> QED
  BY <1>2, <1>8, <1>11, <1>12, <1>14, <1>15

LEMMA LeafExact ==
  ASSUME LegacyInv, CopyLeaf, HasDir(job.root), refused' = 0,
         NEW W, NEW p, CopyRoute(W, p), CopyApart(W, p), CopyExact(W, p)
  PROVE  CopyExact(W, p)'
PROOF
<1>1. LegacyType /\ TreeShape
  BY DEF LegacyInv
<1>2. /\ job'.to = job.to /\ job'.ups = job.ups /\ job'.leaves = Tail(job.leaves)
      /\ dir' = dir /\ origin'.dir = origin.dir /\ job # NoJob /\ job.leaves # << >>
  BY LeafJob
<1>3. job.leaves \in Seq(LeafId)
  BY <1>1, <1>2, JobIs
<1>4. /\ 1 \in 1..Len(job.leaves) /\ Head(job.leaves) = job.leaves[1] /\ Len(job.leaves) \in Nat
      /\ Len(Tail(job.leaves)) = Len(job.leaves) - 1
      /\ \A a \in 1..Len(job.leaves) : a # 1 => a - 1 \in 1..Len(Tail(job.leaves)) /\ Tail(job.leaves)[a - 1] = job.leaves[a]
      /\ \A b \in 1..Len(Tail(job.leaves)) : b + 1 \in 1..Len(job.leaves) /\ Tail(job.leaves)[b] = job.leaves[b + 1]
  BY <1>2, <1>3, HeadIs
<1>5. PICK old \in LeafId : old = Head(job.leaves)
  BY <1>2, <1>3, HeadTailProperties
<1>6. old = job.leaves[1] /\ Waiting(old)
  BY <1>4, <1>5 DEF Waiting
<1>7. /\ p # 0 /\ CopyOf(job.to, W[p].id)
      /\ \A a \in 1..Len(job.leaves) : leaf[job.leaves[a]] = W[p].id
      /\ \A a, b \in 1..Len(job.leaves) : job.leaves[a] = job.leaves[b] => a = b
  BY <1>2 DEF CopyExact, LeavesWait
<1>8. /\ W \in Seq(Stop) /\ Len(W) \in Nat /\ p \in 1..p /\ p \in 1..Len(W)
  <2>1. Grove(W, 0, {job.root}) /\ p \in 0..Len(W)
    BY DEF CopyRoute
  <2>2. W \in Seq(Stop) /\ Len(W) \in Nat
    BY <2>1, RootFirst
  <2> QED
    BY <1>7, <2>1, <2>2
<1>9. \A k \in 1..Len(W) : W[k].id \in DirId
  BY <1>8, StopIs
<1>10. PICK here : here = W[p].id
  OBVIOUS
<1>11. here \in DirId /\ leaf[old] = here
  BY <1>4, <1>6, <1>7, <1>8, <1>9, <1>10
<1>12. HasLeaf(old)
  BY <1>11, NoMarker DEF HasLeaf
<1>13. PICK new \in LeafId :
         /\ leaf[new] = Unused /\ leaf'[new] = job.to /\ origin'.leaf[new] = old
         /\ \A l \in LeafId : l # new => leaf'[l] = leaf[l] /\ origin'.leaf[l] = origin.leaf[l]
         /\ Have("leaf", new)' = Have("leaf", old)
         /\ \A l : l # new => Have("leaf", l)' = Have("leaf", l)
         /\ \A d : Have("dir", d)' = Have("dir", d)
  BY <1>5, <1>12, LeafWhole
<1>14. job.to \in DirId /\ origin.dir[job.to] = here /\ here # 0
  BY <1>7, <1>10, <1>11, NoMarker DEF CopyOf
<1>15. origin.leaf[new] = 0
  BY <1>13 DEF CopyExact, LeafCopies
<1>16. \A l : Waiting(l)' => Waiting(l) /\ l # old
  <2>1. ASSUME NEW l, NEW b \in 1..Len(job'.leaves), job'.leaves[b] = l PROVE Waiting(l) /\ l # old
    <3>1. b + 1 \in 1..Len(job.leaves) /\ job.leaves[b + 1] = l /\ b + 1 # 1
      BY <1>2, <1>4, <2>1
    <3>2. b + 1 # 1 => job.leaves[b + 1] # job.leaves[1]
      BY <1>4, <1>7, <3>1
    <3> QED
      BY <1>6, <3>1, <3>2 DEF Waiting
  <2> QED
    BY <2>1 DEF Waiting
<1>17. \A l : Waiting(l) => Waiting(l)' \/ l = old
  <2>1. ASSUME NEW l, NEW a \in 1..Len(job.leaves), job.leaves[a] = l, l # old PROVE Waiting(l)'
    <3>1. a # 1
      BY <1>6, <2>1
    <3>2. a - 1 \in 1..Len(Tail(job.leaves)) /\ Tail(job.leaves)[a - 1] = l
      BY <1>4, <2>1, <3>1
    <3> QED
      BY <1>2, <3>2 DEF Waiting
  <2> QED
    BY <2>1 DEF Waiting
<1>18. OnlyStops(W, p)' /\ LastCopies(W, p)'
  BY <1>2 DEF CopyExact, OnlyStops, LastCopies, CopyOf
<1>19. LeavesWait(W, p)'
  <2>1. \A a \in 1..Len(job'.leaves) : leaf'[job'.leaves[a]] = W[p].id
    <3>1. ASSUME NEW b \in 1..Len(job'.leaves) PROVE leaf'[job'.leaves[b]] = W[p].id
      <4>1. PICK l : l = job'.leaves[b]
        OBVIOUS
      <4>2. b + 1 \in 1..Len(job.leaves) /\ l = job.leaves[b + 1]
        BY <1>2, <1>4, <3>1, <4>1
      <4>3. l \in LeafId /\ leaf[l] = here
        BY <1>3, <1>7, <1>10, <4>2, ElementOfSeq
      <4>4. l # new
        BY <1>11, <1>13, <4>3, NoMarker
      <4> QED
        BY <1>10, <1>13, <4>1, <4>3, <4>4
    <3> QED
      BY <3>1
  <2>2. \A a, b \in 1..Len(job'.leaves) : job'.leaves[a] = job'.leaves[b] => a = b
    <3>1. ASSUME NEW a \in 1..Len(job'.leaves), NEW b \in 1..Len(job'.leaves), job'.leaves[a] = job'.leaves[b] PROVE a = b
      <4>1. /\ a + 1 \in 1..Len(job.leaves) /\ job'.leaves[a] = job.leaves[a + 1]
            /\ b + 1 \in 1..Len(job.leaves) /\ job'.leaves[b] = job.leaves[b + 1]
        BY <1>2, <1>4, <3>1
      <4>2. a + 1 = b + 1
        BY <1>7, <3>1, <4>1
      <4>3. a \in Nat /\ b \in Nat
        BY <3>1
      <4> QED
        BY <4>2, <4>3
    <3> QED
      BY <3>1
  <2>3. CopyOf(job.to, W[p].id)'
    BY <1>2, <1>7 DEF CopyOf
  <2> QED
    BY <1>7, <2>1, <2>2, <2>3 DEF LeavesWait
<1>20. LeafCopies(W, p)'
  <2>1. ASSUME NEW m \in LeafId, origin'.leaf[m] # 0
        PROVE  /\ leaf'[m] # Unused
               /\ \E k \in 1..p : leaf'[origin'.leaf[m]] = W[k].id
               /\ ~Waiting(origin.leaf[m])'
    <3>1. CASE m = new
      <4>1. leaf'[m] # Unused
        BY <1>13, <1>14, <3>1, NoMarker
      <4>2. old # new /\ leaf'[old] = here
        BY <1>11, <1>13, NoMarker
      <4>3. ~Waiting(old)'
        BY <1>16
      <4> QED
        BY <1>8, <1>10, <1>13, <3>1, <4>1, <4>2, <4>3
    <3>2. CASE m # new
      <4>1. PICK l : l = origin.leaf[m]
        OBVIOUS
      <4>2. origin'.leaf[m] = l /\ leaf'[m] = leaf[m] /\ l # 0
        BY <1>13, <2>1, <3>2, <4>1
      <4>3. leaf[m] # Unused /\ (\E k \in 1..p : leaf[l] = W[k].id) /\ ~Waiting(l)
        BY <4>1, <4>2 DEF CopyExact, LeafCopies
      <4>4. PICK k \in 1..p : leaf[l] = W[k].id
        BY <4>3
      <4>5. k \in 1..Len(W)
        BY <1>8, <4>4
      <4>6. l \in LeafId
        <5>1. origin.leaf \in [LeafId -> 0..MaxLeaf]
          BY <1>1 DEF LegacyType
        <5> QED
          BY <4>1, <4>2, <5>1 DEF LeafId
      <4>7. l # new
        BY <1>9, <1>13, <4>4, <4>5, NoMarker
      <4>8. leaf'[l] = W[k].id
        BY <1>13, <4>4, <4>6, <4>7
      <4>9. ~Waiting(l)'
        BY <1>16, <4>3
      <4> QED
        BY <4>1, <4>2, <4>3, <4>4, <4>8, <4>9
    <3> QED
      BY <3>1, <3>2
  <2> QED
    BY <2>1 DEF LeafCopies
<1>21. ASSUME NEW k \in 1..p PROVE StopCopied(W, k)'
  <2>1. PICK d : d = W[k].id
    OBVIOUS
  <2>2. d \in DirId /\ origin.dir[d] = 0
    <3>1. k \in 1..Len(W)
      BY <1>8, <1>21
    <3> QED
      BY <1>9, <2>1, <3>1 DEF CopyApart
  <2>3. PICK c \in DirId : NodeCopied(W, k, c) /\ LeavesCopied(d, c)
    BY <1>21, <2>1 DEF CopyExact, StopCopied
  <2>4. NodeCopied(W, k, c)'
    BY <1>2, <1>13, <2>3 DEF NodeCopied, CopiesOf
  <2>5. ASSUME NEW l \in LeafId, leaf'[l] = d, ~Waiting(l)' PROVE LeafCopied(l, c)'
    <3>1. l # new
      BY <1>13, <1>14, <2>2, <2>5
    <3>2. leaf[l] = d
      BY <1>13, <2>5, <3>1
    <3>3. CASE l = old
      <4>1. c = job.to
        <5>1. CopiesOf(d) = {c}
          BY <2>1, <2>3 DEF NodeCopied
        <5>2. job.to \in CopiesOf(d)
          BY <1>11, <1>14, <3>2, <3>3 DEF CopiesOf
        <5> QED
          BY <5>1, <5>2
      <4>2. LeafCopiesOf(old)' = {new}
        <5>1. ASSUME NEW e \in LeafId PROVE origin'.leaf[e] = old <=> e = new
          <6>1. CASE e = new
            BY <1>13, <6>1
          <6>2. CASE e # new
            <7>1. SUFFICES ASSUME origin.leaf[e] = old PROVE FALSE
              BY <1>13, <6>2
            <7>2. old # 0
              BY DEF LeafId
            <7>3. ~Waiting(origin.leaf[e])
              BY <7>1, <7>2 DEF CopyExact, LeafCopies
            <7> QED
              BY <1>6, <7>1, <7>3
          <6> QED
            BY <6>1, <6>2
        <5> QED
          BY <5>1 DEF LeafCopiesOf
      <4>3. leaf'[new] = c /\ Have("leaf", new)' = Have("leaf", old)'
        BY <1>13, <3>1, <3>3, <4>1
      <4> QED
        BY <3>3, <4>2, <4>3 DEF LeafCopied
    <3>4. CASE l # old
      <4>1. ~Waiting(l)
        BY <1>17, <2>5, <3>4
      <4>2. PICK m \in LeafId : LeafCopiesOf(l) = {m} /\ leaf[m] = c /\ Have("leaf", m) = Have("leaf", l)
        BY <2>3, <3>2, <4>1 DEF LeavesCopied, LeafCopied
      <4>3. origin.leaf[m] = l /\ l # 0
        BY <4>2 DEF LeafCopiesOf, LeafId
      <4>4. m # new
        BY <1>15, <4>3
      <4>5. \A e \in LeafId : origin'.leaf[e] = l <=> origin.leaf[e] = l
        BY <1>13, <1>15, <3>4, <4>3
      <4>6. LeafCopiesOf(l)' = {m}
        <5>1. LeafCopiesOf(l)' = LeafCopiesOf(l)
          BY <4>5 DEF LeafCopiesOf
        <5> QED
          BY <4>2, <5>1
      <4>7. leaf'[m] = c /\ Have("leaf", m)' = Have("leaf", l)'
        BY <1>13, <3>1, <4>2, <4>4
      <4> QED
        BY <4>6, <4>7 DEF LeafCopied
    <3> QED
      BY <3>3, <3>4
  <2>6. LeavesCopied(d, c)'
    BY <2>5 DEF LeavesCopied
  <2> QED
    BY <2>1, <2>3, <2>4, <2>6 DEF StopCopied
<1> QED
  BY <1>18, <1>19, <1>20, <1>21 DEF CopyExact

LEMMA LeafOnWay ==
  ASSUME LegacyInv, CopyLeaf, HasDir(job.root), NEW W, NEW p, OnWay(W, p)
  PROVE  OnWay(W, p)'
PROOF
<1>1. CopyRoute(W, p) /\ CopyApart(W, p) /\ (refused = 0 => CopyExact(W, p))
  BY DEF OnWay
<1>2. CopyRoute(W, p)' /\ CopyApart(W, p)'
  BY <1>1, LeafApart
<1>3. ASSUME refused' = 0 PROVE CopyExact(W, p)'
  <2>1. CopyExact(W, p)
    BY <1>1, <1>3, LeafJob
  <2> QED
    BY <1>1, <1>3, <2>1, LeafExact
<1> QED
  BY <1>2, <1>3 DEF OnWay

LEMMA NotCopying == ASSUME ~Copying' PROVE CopyKnown'
PROOF
  BY DEF CopyKnown

LEMMA DeleteIsNoCopy ==
  ASSUME LegacyType, CleanNode \/ DeleteLeaf \/ DeleteNode
  PROVE  ~Copying'
PROOF
<1>1. job # NoJob /\ job.op = "delete"
  BY DEF CleanNode, DeleteLeaf, DeleteNode, AtNode
<1>2. job \in Job
  BY <1>1, JobIs
<1>3. job'.op = "delete"
  <2>1. CASE CleanNode
    <3>1. PICK ok, leaves : job' = [job EXCEPT !.ok = ok, !.leaves = leaves, !.pc = "row"]
      BY <2>1 DEF CleanNode, Work
    <3> QED
      BY <1>1, <1>2, <3>1 DEF Job
  <2>2. CASE DeleteLeaf
    <3>1. PICK ok, leaves : job' = [job EXCEPT !.ok = ok, !.leaves = leaves]
      BY <2>2 DEF DeleteLeaf, Work
    <3> QED
      BY <1>1, <1>2, <3>1 DEF Job
  <2>3. CASE DeleteNode
    <3>1. PICK ok, todo : job' = [job EXCEPT !.ok = ok, !.todo = todo, !.pc = "node"]
      BY <2>3 DEF DeleteNode, Work
    <3> QED
      BY <1>1, <1>2, <3>1 DEF Job
  <2> QED
    BY <2>1, <2>2, <2>3
<1> QED
  BY <1>3 DEF Copying

LEMMA BeginCopyKnows == ASSUME NEW root, BeginCopy(root) PROVE CopyKnown'
PROOF
<1>1. /\ job'.pc = "walk" /\ job'.leaves = << >> /\ job'.todo = << >> /\ origin' = NoOrigin
  BY DEF BeginCopy
<1>2. NoOrigin' = NoOrigin
  BY DEF NoOrigin
<1>3. Len(job'.todo) = 0
  BY <1>1, EmptySeq
<1> QED
  BY <1>1, <1>2, <1>3 DEF CopyKnown

LEMMA StartKnows == ASSUME LegacyInv, CopyKnown, StartCopy PROVE CopyKnown'
PROOF
<1>1. LegacyType /\ TreeShape /\ job # NoJob /\ job.pc = "walk" /\ job.op = "copy" /\ job.leaves = << >>
  BY DEF LegacyInv, StartCopy, JobShape
<1>2. job \in Job /\ job.root \in DirId
  BY <1>1, JobIs
<1>3. PICK r, W : r = job.root /\ W = Walk(r)
  OBVIOUS
<1>4. SUFFICES ASSUME Copying' PROVE CopyKnown'
  BY NotCopying
<1>5. Grove(W, 0, {r}) /\ r \in DirId
  BY <1>1, <1>2, <1>3, WalkIs
<1>6. W \in Seq(Stop) /\ Len(W) \in Nat /\ W[1].id = r
  BY <1>5, RootFirst
<1>7. /\ job' = [job EXCEPT !.pc = "node", !.todo = W] /\ UNCHANGED <<kind, dir, leaf, extra, origin, disturbed>>
      /\ ~missed
  <2>1. PICK s \in Reads(r) : /\ missed' = (missed \/ s.n # 0)
                              /\ Work([job EXCEPT !.pc = "node", !.todo = s.walk])
    BY <1>3 DEF StartCopy
  <2>2. ~missed /\ s.walk = W
    BY <1>1, <1>3, <1>5, <1>4, <2>1, ReadsIs DEF Copying
  <2> QED
    BY <2>1, <2>2 DEF StartCopy, Work
<1>8. job'.pc = "node" /\ job'.todo = W /\ job'.root = r /\ job'.leaves = << >>
  BY <1>1, <1>2, <1>3, <1>7 DEF Job
<1>9. origin = NoOrigin
  <2>1. Copying
    BY <1>1, <1>7, <1>4 DEF Copying
  <2> QED
    BY <1>1, <2>1 DEF CopyKnown
<1>10. ~Used(r)' => \A a \in 1..Len(W) : W[a].id = r
  BY <1>1, <1>5, <1>7, NothingBelow DEF Used
<1>11. CopyRoute(W, 0)'
  <2>1. \A k \in 1..Len(W) : /\ k # 1 => dir'[W[k].id] = dir[W[k].id]
                             /\ Children(W[k].id)' = Children(W[k].id)
    BY <1>7 DEF Children
  <2>2. Grove(W, 0, {r})'
    BY <1>5, <2>1, GroveStays
  <2>3. Ahead(W, 0, W)
    BY <1>6 DEF Ahead
  <2> QED
    BY <1>6, <1>8, <2>2, <2>3 DEF CopyRoute
<1>12. /\ \A c \in DirId : origin'.dir[c] = 0
       /\ \A l \in LeafId : origin'.leaf[l] = 0
  BY <1>7, <1>9 DEF NoOrigin
<1>13. CopyApart(W, 0)'
  <2>1. \A k \in 1..Len(W) : W[k].id \in DirId
    BY <1>6, StopIs
  <2> QED
    BY <1>12, <2>1 DEF CopyApart
<1>14. CopyExact(W, 0)'
  <2>1. Len(job'.leaves) = 0
    BY <1>8, EmptySeq
  <2>2. OnlyStops(W, 0)' /\ LastCopies(W, 0)' /\ LeafCopies(W, 0)' /\ LeavesWait(W, 0)'
    BY <1>8, <1>12, <2>1 DEF OnlyStops, LastCopies, LeafCopies, LeavesWait
  <2> QED
    BY <2>2 DEF CopyExact
<1>15. OnWay(W, 0)'
  BY <1>11, <1>13, <1>14 DEF OnWay
<1> QED
  BY <1>8, <1>10, <1>15 DEF CopyKnown

(* On the way the next node is there: no node is skipped that should not be. *)
LEMMA SkipKnows == ASSUME LegacyInv, CopyKnown, SkipNode PROVE CopyKnown'
PROOF
<1>1. /\ LegacyType /\ job # NoJob /\ job.op = "copy" /\ job.pc = "node"
      /\ job.todo # << >> /\ job.leaves = << >>
  BY DEF LegacyInv, SkipNode, AtNode
<1>2. job \in Job /\ job.todo \in Seq(Stop)
  BY <1>1, JobIs
<1>3. job' = [job EXCEPT !.todo = Tail(@)] /\ UNCHANGED <<kind, dir, leaf, extra, origin, disturbed>>
  BY DEF SkipNode, Work
<1>4. job'.pc = "node" /\ job'.root = job.root /\ job'.leaves = << >> /\ job'.todo = Tail(job.todo)
  BY <1>1, <1>2, <1>3 DEF Job
<1>5. /\ 1 \in 1..Len(job.todo) /\ Head(job.todo) = job.todo[1] /\ Len(job.todo) \in Nat
      /\ \A b \in 1..Len(Tail(job.todo)) : b + 1 \in 1..Len(job.todo) /\ Tail(job.todo)[b] = job.todo[b + 1]
  BY <1>1, <1>2, HeadIs
<1>6. SUFFICES ASSUME Copying' PROVE CopyKnown'
  BY NotCopying
<1>7. Copying /\ ~HasDir(Head(job.todo).id)
  <2>1. ~missed /\ ~HasDir(Head(job.todo).id)
    BY <1>6 DEF Copying, SkipNode
  <2> QED
    BY <1>1, <1>3, <1>6, <2>1 DEF Copying
<1>8. ~HasDir(job.root)
  <2>1. SUFFICES ASSUME HasDir(job.root) PROVE FALSE
    OBVIOUS
  <2>2. PICK W, p : OnWay(W, p)
    BY <1>1, <1>7, <2>1 DEF CopyKnown
  <2>3. Grove(W, 0, {job.root}) /\ p \in 0..Len(W) /\ Ahead(W, p, job.todo)
    BY <2>2 DEF OnWay, CopyRoute
  <2>4. Len(W) \in Nat /\ W[1].id = job.root
    BY <2>3, RootFirst
  <2>5. p + 1 \in 1..Len(W) /\ job.todo[1] = W[p + 1]
    <3>1. Len(job.todo) = Len(W) - p /\ job.todo[1] = W[p + 1]
      BY <1>5, <2>3 DEF Ahead
    <3> QED
      BY <1>5, <2>3, <2>4, <3>1
  <2>6. HasDir(W[p + 1].id)
    <3>1. CASE p + 1 = 1
      BY <2>1, <2>4, <3>1
    <3>2. CASE p + 1 # 1
      BY <2>3, <2>5, <3>2, NodesHang
    <3> QED
      BY <3>1, <3>2
  <2> QED
    BY <1>5, <1>7, <2>5, <2>6
<1>9. ~HasDir(job.root)'
  BY <1>3, <1>4, <1>8 DEF HasDir
<1>10. ASSUME ~Used(job.root)' PROVE \A a \in 1..Len(job'.todo) : job'.todo[a].id = job'.root
  <2>1. \A a \in 1..Len(job.todo) : job.todo[a].id = job.root
    BY <1>3, <1>4, <1>7, <1>10 DEF CopyKnown, Used
  <2> QED
    BY <1>4, <1>5, <2>1
<1> QED
  BY <1>4, <1>9, <1>10 DEF CopyKnown

LEMMA CopyNodeKnows == ASSUME LegacyInv, CopyKnown, CopyNode PROVE CopyKnown'
PROOF
<1>1. \E old, level, above, new, x : NodeDone(old, level, above, new, x)
  BY NodeIsDone
<1>2. PICK old, level, above, new, x : NodeDone(old, level, above, new, x)
  BY <1>1
<1>3. /\ job'.root = job.root /\ job'.pc = job.pc /\ job # NoJob /\ job.op = "copy" /\ job.pc = "node"
      /\ job.todo # << >>
  BY <1>2, NodeJob
<1>4. LegacyType /\ job.root \in DirId /\ job.todo \in Seq(Stop)
  BY <1>3, JobIs DEF LegacyInv
<1>5. PICK r : r = job.root
  OBVIOUS
<1>6. SUFFICES ASSUME Copying' PROVE CopyKnown'
  BY NotCopying
<1>7. Copying
  <2>1. disturbed' = disturbed /\ missed' = missed
    BY DEF CopyNode, Work
  <2> QED
    BY <1>3, <1>6, <2>1 DEF Copying
<1>8. Used(r)
  <2>1. SUFFICES ASSUME ~Used(r) PROVE FALSE
    OBVIOUS
  <2>2. 1 \in 1..Len(job.todo) /\ Head(job.todo) = job.todo[1]
    BY <1>3, <1>4, HeadIs
  <2>3. job.todo[1].id = r
    BY <1>5, <1>7, <2>1, <2>2 DEF CopyKnown
  <2>4. HasDir(r)
    BY <1>2, <2>2, <2>3 DEF NodeDone
  <2> QED
    BY <2>1, <2>4 DEF HasDir, Used
<1>9. dir'[r] = dir[r]
  <2>1. /\ new # 0 => dir[new] = Unused
        /\ \A c \in DirId : c # new => dir'[c] = dir[c]
    BY <1>2, NodeTables
  <2>2. r # new
    BY <1>4, <1>5, <1>8, <2>1, NoMarker DEF Used
  <2> QED
    BY <1>4, <1>5, <2>1, <2>2
<1>10. Used(r)' /\ (HasDir(r)' => HasDir(r))
  BY <1>8, <1>9 DEF Used, HasDir
<1>11. ASSUME HasDir(r)' PROVE \E W, p : OnWay(W, p)'
  <2>1. PICK W, p : OnWay(W, p)
    BY <1>3, <1>5, <1>7, <1>10, <1>11 DEF CopyKnown
  <2>2. OnWay(W, p + 1)'
    BY <1>5, <1>10, <1>11, <2>1, NodeOnWay
  <2> QED
    BY <2>2
<1> QED
  BY <1>3, <1>5, <1>10, <1>11 DEF CopyKnown

LEMMA CopyLeafKnows == ASSUME LegacyInv, CopyKnown, CopyLeaf PROVE CopyKnown'
PROOF
<1>1. /\ job # NoJob /\ job.op = "copy" /\ job.pc = "node" /\ job.leaves # << >>
      /\ job'.root = job.root /\ job'.pc = job.pc /\ dir' = dir /\ UNCHANGED <<disturbed, missed>>
  BY LeafJob
<1>2. SUFFICES ASSUME Copying' PROVE CopyKnown'
  BY NotCopying
<1>3. Copying
  BY <1>1, <1>2 DEF Copying
<1>4. PICK r : r = job.root
  OBVIOUS
<1>5. Used(r)
  BY <1>1, <1>3, <1>4 DEF CopyKnown
<1>6. Used(r)' /\ (HasDir(r)' => HasDir(r))
  BY <1>1, <1>5 DEF Used, HasDir
<1>7. ASSUME HasDir(r)' PROVE \E W, p : OnWay(W, p)'
  <2>1. PICK W, p : OnWay(W, p)
    BY <1>1, <1>3, <1>4, <1>6, <1>7 DEF CopyKnown
  <2>2. OnWay(W, p)'
    BY <1>4, <1>6, <1>7, <2>1, LeafOnWay
  <2> QED
    BY <2>2
<1> QED
  BY <1>1, <1>4, <1>6, <1>7 DEF CopyKnown

LEMMA CopyStep == LegacyInv /\ CopyKnown /\ [LegacyNext]_legacyVars => CopyKnown'
PROOF
<1> SUFFICES ASSUME LegacyInv, CopyKnown, [LegacyNext]_legacyVars PROVE CopyKnown'
  OBVIOUS
<1>1. CASE UNCHANGED legacyVars
  <2>1. /\ job' = job /\ dir' = dir /\ leaf' = leaf /\ extra' = extra /\ origin' = origin
        /\ refused' = refused /\ disturbed' = disturbed /\ missed' = missed
    BY <1>1 DEF legacyVars
  <2>2. \A W, p : OnWay(W, p)' <=> OnWay(W, p)
    BY <2>1 DEF OnWay, CopyRoute, CopyApart, CopyExact, OnlyStops, StopCopied, LastCopies, LeafCopies, LeavesWait,
                NodeCopied, LeavesCopied, LeafCopied, LeafCopiesOf, CopiesOf, CopyOf, Waiting, Have, Used,
                Grove, ParentAt, SiblingsAscend, Children
  <2> QED
    BY <2>1, <2>2 DEF CopyKnown, Copying, HasDir, Used, NoOrigin
<1>2. ASSUME NEW root \in 1..Dirs, BeginDelete(root) PROVE CopyKnown'
  <2>1. job'.op = "delete"
    BY <1>2 DEF BeginDelete
  <2> QED
    BY <2>1, NotCopying DEF Copying
<1>3. ASSUME NEW root \in 1..Dirs, BeginCopy(root) PROVE CopyKnown'
  BY <1>3, BeginCopyKnows
<1>4. CASE StartCopy
  BY <1>4, StartKnows
<1>5. CASE SkipNode
  BY <1>5, SkipKnows
<1>6. CASE CopyNode
  BY <1>6, CopyNodeKnows
<1>7. CASE CopyLeaf
  BY <1>7, CopyLeafKnows
<1>8. CASE CleanNode \/ DeleteLeaf \/ DeleteNode
  <2>1. ~Copying'
    BY <1>8, DeleteIsNoCopy DEF LegacyInv
  <2> QED
    BY <2>1, NotCopying
<1>9. CASE EndJob
  <2>1. ~Copying'
    BY <1>9 DEF EndJob, Copying
  <2> QED
    BY <2>1, NotCopying
<1>10. CASE ChangeDir \/ ChangeLeaf
  <2>1. ~Copying'
    BY <1>10 DEF ChangeDir, ChangeLeaf, Change, Copying
  <2> QED
    BY <2>1, NotCopying
<1> QED
  BY <1>1, <1>2, <1>3, <1>4, <1>5, <1>6, <1>7, <1>8, <1>9, <1>10 DEF LegacyNext

LEMMA CopyStarts == LegacyInit => CopyKnown
PROOF
  BY DEF LegacyInit, CopyKnown, Copying

(* A copy of a tree that nobody disturbs and that has missed no node stays      *)
(* apart from its source: whatever INSERT is refused, and whatever SELECT of    *)
(* extras and leaves, each row it makes hangs at the top or below one it made   *)
(* before.                                                                      *)
THEOREM CopiesStayApart == LegacySpec => []CopyStaysApart
PROOF
<1>1. LegacyInv /\ CopyKnown => CopyStaysApart
  <2> SUFFICES ASSUME LegacyInv, CopyKnown, job # NoJob, job.op = "copy", HasDir(job.root), ~disturbed, ~missed,
                      NEW c \in DirId, origin.dir[c] # 0
               PROVE  dir[c] = 0 \/ origin.dir[dir[c]] # 0
    BY DEF CopyStaysApart
  <2>1. Copying /\ job.pc \in {"walk", "node", "row"}
    BY JobIs DEF Copying, LegacyInv
  <2>2. CASE job.pc = "walk"
    BY <2>1, <2>2 DEF CopyKnown, NoOrigin
  <2>3. CASE job.pc = "node"
    <3>1. PICK W, p : OnWay(W, p)
      BY <2>1, <2>3 DEF CopyKnown
    <3> QED
      BY <3>1 DEF OnWay, CopyApart
  <2>4. CASE job.pc = "row"
    BY <2>4 DEF LegacyInv, JobShape
  <2> QED
    BY <2>1, <2>2, <2>3, <2>4
<1> QED
  BY <1>1, LegacyStarts, LegacyStep, CopyStarts, CopyStep, PTL DEF LegacySpec

(* The nodes of the tree are those of the walk. *)
Nearer(f, h) == IF h = 0 THEN {job.root} ELSE f[h - 1] \cup UNION {Children(i) : i \in f[h - 1]}

IsWithin(f, n) == f = [h \in 0..n |-> Nearer(f, h)]

LEMMA WithinExists == ASSUME NEW n \in Nat PROVE \E f : IsWithin(f, n)
PROOF
<1> DEFINE bad == {m \in Nat : ~ \E f : IsWithin(f, m)}
<1>1. SUFFICES ASSUME bad # {} PROVE FALSE
  OBVIOUS
<1>2. PICK m \in bad : \A k \in bad : m <= k
  BY <1>1, LeastOf
<1>3. CASE m = 0
  <2>1. PICK f : f = [h \in 0..0 |-> Nearer(n, 0)]
    OBVIOUS
  <2>2. Nearer(n, 0) = Nearer(f, 0)
    BY DEF Nearer
  <2>3. f = [h \in 0..0 |-> Nearer(f, h)]
    BY <2>1, <2>2
  <2> QED
    BY <1>2, <1>3, <2>3 DEF IsWithin
<1>4. CASE m # 0
  <2>1. m - 1 \in Nat /\ m - 1 \notin bad
    BY <1>2, <1>4
  <2>2. PICK f : IsWithin(f, m - 1)
    BY <2>1
  <2>3. PICK g : g = [h \in 0..m |-> Nearer(f, h)]
    OBVIOUS
  <2>4. ASSUME NEW h \in 0..(m - 1) PROVE g[h] = f[h]
    <3>1. h \in 0..m
      BY <2>1
    <3>2. g[h] = Nearer(f, h)
      BY <2>3, <3>1
    <3>3. f[h] = Nearer(f, h)
      BY <2>2 DEF IsWithin
    <3> QED
      BY <3>2, <3>3
  <2>5. ASSUME NEW h \in 0..m PROVE Nearer(f, h) = Nearer(g, h)
    <3>1. h # 0 => h - 1 \in 0..(m - 1)
      BY <2>1
    <3>2. h # 0 => f[h - 1] = g[h - 1]
      BY <2>4, <3>1
    <3> QED
      BY <3>2 DEF Nearer
  <2>6. g = [h \in 0..m |-> Nearer(g, h)]
    BY <2>3, <2>5
  <2> QED
    BY <1>2, <2>6 DEF IsWithin
<1> QED
  BY <1>3, <1>4

LEMMA WithinIs == ASSUME NEW d PROVE \E f : IsWithin(f, MaxDir) /\ (InTree(d) <=> d \in f[MaxDir])
PROOF
<1> DEFINE Whole(g) ==
             g = [h \in 0..MaxDir |->
                    IF h = 0 THEN {job.root} ELSE g[h - 1] \cup UNION {Children(i) : i \in g[h - 1]}]
           f == CHOOSE g : Whole(g)
<1>1. \A g : IsWithin(g, MaxDir) <=> Whole(g)
  BY DEF IsWithin, Nearer
<1>2. \E g : Whole(g)
  <2>1. PICK g : IsWithin(g, MaxDir)
    BY LegacyAssumption, WithinExists
  <2> QED
    BY <1>1, <2>1
<1>3. Whole(f)
  BY <1>2
<1>4. InTree(d) <=> d \in f[MaxDir]
  BY DEF InTree
<1> QED
  BY <1>1, <1>3, <1>4

LEMMA WithinGrows ==
  ASSUME NEW f, IsWithin(f, MaxDir)
  PROVE  \A j \in 0..MaxDir : f[j] \subseteq f[MaxDir]
PROOF
<1> DEFINE Good(h) == \A j \in 0..h : f[j] \subseteq f[h]
           bad == {h \in Nat : h <= MaxDir /\ ~Good(h)}
<1>1. SUFFICES bad = {}
  <2>1. MaxDir \in Nat /\ MaxDir <= MaxDir
    BY LegacyAssumption
  <2>2. Good(MaxDir)
    BY <1>1, <2>1
  <2> QED
    BY <2>2
<1>2. SUFFICES ASSUME bad # {} PROVE FALSE
  OBVIOUS
<1>3. PICK m \in bad : \A k \in bad : m <= k
  BY <1>2, LeastOf
<1>4. CASE m = 0
  <2>1. Good(0)
    OBVIOUS
  <2> QED
    BY <1>3, <1>4, <2>1
<1>5. CASE m # 0
  <2>1. PICK h \in Nat : m = h + 1 /\ h + 1 <= MaxDir /\ ~ (m <= h)
    <3>1. m - 1 \in Nat /\ m = (m - 1) + 1 /\ (m - 1) + 1 <= MaxDir /\ ~ (m <= m - 1)
      BY <1>3, <1>5
    <3> QED
      BY <3>1
  <2>2. h \notin bad
    BY <1>3, <2>1
  <2>3. Good(h)
    <3>1. h <= MaxDir
      BY <2>1, LegacyAssumption
    <3> QED
      BY <2>2, <3>1
  <2>4. f[m] = Nearer(f, m)
    <3>1. m \in 0..MaxDir
      BY <2>1, LegacyAssumption
    <3> QED
      BY <3>1 DEF IsWithin
  <2>5. f[h] \subseteq f[m]
    BY <1>5, <2>1, <2>4 DEF Nearer
  <2>6. ASSUME NEW j \in 0..m PROVE f[j] \subseteq f[m]
    <3>1. CASE j = m
      BY <3>1
    <3>2. CASE j # m
      <4>1. j \in 0..h
        BY <2>1, <2>6, <3>2
      <4> QED
        BY <2>3, <2>5, <4>1
    <3> QED
      BY <3>1, <3>2
  <2>7. Good(m)
    BY <2>6
  <2> QED
    BY <1>3, <2>7
<1> QED
  BY <1>4, <1>5

LEMMA WithinHasStops ==
  ASSUME NEW f, IsWithin(f, MaxDir), NEW W, Grove(W, 0, {job.root}), NEW k \in 1..Len(W)
  PROVE  W[k].id \in f[W[k].level] /\ W[k].level \in 0..MaxDir
PROOF
<1> DEFINE bad == {n \in Nat : n \in 1..Len(W) /\ ~ (W[n].id \in f[W[n].level])}
<1>1. W \in Seq(Stop) /\ Len(W) \in Nat /\ W[1].id = job.root /\ W[1].level = 0
  BY RootFirst
<1>2. \A n \in 1..Len(W) : W[n].level \in 0..MaxDir
  <2>1. ASSUME NEW n \in 1..Len(W) PROVE W[n].level \in 0..MaxDir
    <3>1. W[n] \in Stop
      BY <1>1, <2>1, StopIs
    <3> QED
      BY <3>1 DEF Stop
  <2> QED
    BY <2>1
<1>3. \A h \in 0..MaxDir : f[h] = Nearer(f, h)
  BY DEF IsWithin
<1>4. SUFFICES bad = {}
  <2>1. k \in Nat /\ k \notin bad
    BY <1>1, <1>4
  <2>2. W[k].id \in f[W[k].level]
    BY <2>1
  <2> QED
    BY <1>2, <2>2
<1>5. SUFFICES ASSUME bad # {} PROVE FALSE
  OBVIOUS
<1>6. PICK n \in bad : \A j \in bad : n <= j
  BY <1>5, LeastOf
<1>7. n \in 1..Len(W) /\ ~ (W[n].id \in f[W[n].level])
  BY <1>6
<1>8. n # 1
  <2>1. 0 \in 0..MaxDir
    BY LegacyAssumption
  <2>2. job.root \in f[0]
    BY <1>3, <2>1 DEF Nearer
  <2> QED
    BY <1>1, <1>7, <2>2
<1>9. W[n].id \in DirId /\ \E m \in 1..(n - 1) : ParentAt(W, m, n) /\ m \in 1..Len(W)
  BY <1>7, <1>8, NodesHang
<1>10. PICK m \in 1..(n - 1) : ParentAt(W, m, n) /\ m \in 1..Len(W)
  BY <1>9
<1>11. m \notin bad
  <2>1. m \in Nat /\ ~ (n <= m)
    BY <1>7, <1>10
  <2> QED
    BY <1>6, <2>1
<1>12. W[m].id \in f[W[m].level]
  BY <1>10, <1>11
<1>13. PICK h, i : h = W[n].level /\ i = W[m].id
  OBVIOUS
<1>14. h \in 0..MaxDir /\ h # 0 /\ h - 1 = W[m].level
  <2>1. W[n].level = W[m].level + 1 /\ W[m].level \in 0..MaxDir /\ W[n].level \in 0..MaxDir
    BY <1>2, <1>7, <1>10 DEF ParentAt
  <2> QED
    BY <1>13, <2>1
<1>15. W[n].id \in Children(i)
  BY <1>9, <1>10, <1>13 DEF ParentAt, Children
<1>16. i \in f[h - 1]
  BY <1>12, <1>13, <1>14
<1>17. W[n].id \in Nearer(f, h)
  BY <1>14, <1>15, <1>16 DEF Nearer
<1> QED
  BY <1>3, <1>7, <1>13, <1>14, <1>17

StopsAt(W, d) == \E k \in 1..Len(W) : W[k].id = d

LEMMA StopsHaveWithin ==
  ASSUME NEW f, IsWithin(f, MaxDir), NEW W, Grove(W, 0, {job.root})
  PROVE  \A d \in f[MaxDir] : StopsAt(W, d)
PROOF
<1> DEFINE Good(h) == \A d \in f[h] : \E k \in 1..Len(W) : W[k].id = d
           bad == {h \in Nat : h <= MaxDir /\ ~Good(h)}
<1>1. 1 \in 1..Len(W) /\ W[1].id = job.root
  BY RootFirst
<1>2. \A k \in 1..Len(W) : \A c \in Children(W[k].id) : \E j \in 1..Len(W) : W[j].id = c
  BY DEF Grove
<1>3. SUFFICES bad = {}
  <2>1. MaxDir \in Nat /\ MaxDir <= MaxDir
    BY LegacyAssumption
  <2>2. Good(MaxDir)
    BY <1>3, <2>1
  <2> QED
    BY <2>2 DEF StopsAt
<1>4. SUFFICES ASSUME bad # {} PROVE FALSE
  OBVIOUS
<1>5. PICK m \in bad : \A k \in bad : m <= k
  BY <1>4, LeastOf
<1>6. m \in Nat /\ f[m] = Nearer(f, m)
  <2>1. m \in 0..MaxDir
    BY <1>5, LegacyAssumption
  <2> QED
    BY <1>5, <2>1 DEF IsWithin
<1>7. CASE m = 0
  <2>1. f[0] = {job.root}
    BY <1>6, <1>7 DEF Nearer
  <2>2. Good(0)
    BY <1>1, <2>1
  <2> QED
    BY <1>5, <1>7, <2>2
<1>8. CASE m # 0
  <2>1. PICK h \in Nat : m = h + 1 /\ h + 1 <= MaxDir /\ ~ (m <= h) /\ m - 1 = h
    <3>1. m - 1 \in Nat /\ m = (m - 1) + 1 /\ (m - 1) + 1 <= MaxDir /\ ~ (m <= m - 1)
      BY <1>5, <1>8
    <3> QED
      BY <3>1
  <2>2. h \notin bad
    BY <1>5, <2>1
  <2>3. Good(h)
    <3>1. h <= MaxDir
      BY <2>1, LegacyAssumption
    <3> QED
      BY <2>2, <3>1
  <2>4. ASSUME NEW d \in f[m] PROVE \E k \in 1..Len(W) : W[k].id = d
    <3>1. d \in f[h] \/ \E i \in f[h] : d \in Children(i)
      BY <1>6, <1>8, <2>1, <2>4 DEF Nearer
    <3>2. CASE d \in f[h]
      BY <2>3, <3>2
    <3>3. ASSUME NEW i \in f[h], d \in Children(i) PROVE \E k \in 1..Len(W) : W[k].id = d
      <4>1. PICK k \in 1..Len(W) : W[k].id = i
        BY <2>3, <3>3
      <4> QED
        BY <1>2, <3>3, <4>1
    <3> QED
      BY <3>1, <3>2, <3>3
  <2>5. Good(m)
    BY <2>4
  <2> QED
    BY <1>5, <2>5
<1> QED
  BY <1>7, <1>8

LEMMA InTreeIs ==
  ASSUME NEW W, Grove(W, 0, {job.root}), NEW d
  PROVE  InTree(d) <=> \E k \in 1..Len(W) : W[k].id = d
PROOF
<1>1. PICK f : IsWithin(f, MaxDir) /\ (InTree(d) <=> d \in f[MaxDir])
  BY WithinIs
<1>2. ASSUME NEW k \in 1..Len(W), W[k].id = d PROVE d \in f[MaxDir]
  <2>1. W[k].id \in f[W[k].level] /\ W[k].level \in 0..MaxDir
    BY <1>1, WithinHasStops
  <2> QED
    BY <1>1, <1>2, <2>1, WithinGrows
<1>3. ASSUME d \in f[MaxDir] PROVE \E k \in 1..Len(W) : W[k].id = d
  <2>1. StopsAt(W, d)
    BY <1>1, <1>3, StopsHaveWithin
  <2> QED
    BY <2>1 DEF StopsAt
<1> QED
  BY <1>1, <1>2, <1>3

(* A copy that was neither disturbed nor refused anything is the same tree with *)
(* all that belongs to it.                                                      *)
THEOREM CopiesAreFaithful == LegacySpec => []CopyIsFaithful
PROOF
<1>1. LegacyInv /\ CopyKnown => CopyIsFaithful
  <2> SUFFICES ASSUME LegacyInv, CopyKnown, Done, job.op = "copy", HasDir(job.root), ~disturbed, ~missed, refused = 0,
                      NEW d \in DirId
               PROVE  IF ~InTree(d) THEN CopiesOf(d) = {}
                      ELSE \E c \in DirId :
                             /\ CopiesOf(d) = {c}
                             /\ Have("dir", c) = Have("dir", d)
                             /\ IF d = job.root THEN dir[c] = 0 ELSE origin.dir[dir[c]] = dir[d]
                             /\ \A l \in LeafId : leaf[l] = d =>
                                  \E m \in LeafId : /\ LeafCopiesOf(l) = {m} /\ leaf[m] = c
                                                    /\ Have("leaf", m) = Have("leaf", l)
    BY DEF CopyIsFaithful
  <2>1. Copying /\ job.pc = "node" /\ Len(job.todo) = 0 /\ Len(job.leaves) = 0
    BY EmptySeq DEF Done, Copying
  <2>2. PICK W, p : OnWay(W, p)
    BY <2>1 DEF CopyKnown
  <2>3. CopyExact(W, p) /\ Grove(W, 0, {job.root}) /\ p \in 0..Len(W) /\ Ahead(W, p, job.todo)
    BY <2>2 DEF OnWay, CopyRoute
  <2>4. Len(W) \in Nat /\ 1 \in 1..Len(W) /\ W[1].id = job.root
    BY <2>3, RootFirst
  <2>5. p = Len(W)
    BY <2>1, <2>3, <2>4 DEF Ahead
  <2>6. InTree(d) <=> \E k \in 1..Len(W) : W[k].id = d
    BY <2>3, InTreeIs
  <2>7. ASSUME ~InTree(d) PROVE CopiesOf(d) = {}
    <3>1. ASSUME NEW c \in DirId, origin.dir[c] = d PROVE FALSE
      <4>1. d # 0
        BY NoMarker
      <4> QED
        BY <2>3, <2>5, <2>6, <2>7, <3>1, <4>1 DEF CopyExact, OnlyStops
    <3> QED
      BY <3>1 DEF CopiesOf
  <2>8. ASSUME InTree(d)
        PROVE  \E c \in DirId :
                 /\ CopiesOf(d) = {c}
                 /\ Have("dir", c) = Have("dir", d)
                 /\ IF d = job.root THEN dir[c] = 0 ELSE origin.dir[dir[c]] = dir[d]
                 /\ \A l \in LeafId : leaf[l] = d =>
                      \E m \in LeafId : /\ LeafCopiesOf(l) = {m} /\ leaf[m] = c
                                        /\ Have("leaf", m) = Have("leaf", l)
    <3>1. PICK k \in 1..p : W[k].id = d
      BY <2>5, <2>6, <2>8
    <3>2. PICK c \in DirId : NodeCopied(W, k, c) /\ LeavesCopied(d, c)
      BY <2>3, <3>1 DEF CopyExact, StopCopied
    <3>3. \A l : ~Waiting(l)
      BY <2>1 DEF Waiting
    <3>4. \A l \in LeafId : leaf[l] = d => LeafCopied(l, c)
      BY <3>2, <3>3 DEF LeavesCopied
    <3>5. d = job.root <=> k = 1
      <4>1. LegacyType /\ TreeShape /\ job.root \in DirId
        BY <2>1, JobIs DEF LegacyInv, Copying
      <4>2. \A a, b \in 1..Len(W) : W[a].id = W[b].id => a = b
        BY <2>3, <4>1, NoNodeTwice
      <4> QED
        BY <2>4, <2>5, <3>1, <4>2
    <3>6. /\ CopiesOf(d) = {c} /\ Have("dir", c) = Have("dir", d)
          /\ IF k = 1 THEN dir[c] = 0 ELSE origin.dir[dir[c]] = dir[d]
      BY <3>1, <3>2 DEF NodeCopied
    <3> QED
      BY <3>2, <3>4, <3>5, <3>6 DEF LeafCopied
  <2> QED
    BY <2>7, <2>8
<1> QED
  BY <1>1, LegacyStarts, LegacyStep, CopyStarts, CopyStep, PTL DEF LegacySpec

=============================================================================
