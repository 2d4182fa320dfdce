---------------------------- MODULE StaleCopyProofs ----------------------------
(***************************************************************************)
(* What the two modules guarantee in which a client works with a copy that *)
(* others may have made stale: PageResolve, where it is the rows of the    *)
(* table cache, for every site and any number of clients and changes; and  *)
(* ObjectLock, where it is an object read before, for every number of      *)
(* sessions, users and contents and without any discipline of the clients. *)
(***************************************************************************)
EXTENDS ObjectLock, PageResolve, FiniteSetTheorems, SequenceTheorems, WellFoundedInduction, TLAPS

-----------------------------------------------------------------------------
(* PageResolve.  The inductive invariant: a load under way has come through    *)
(* some of its SELECTs and found, of every name, the first element there was,  *)
(* and those it has told the cache of are there; the rows of a page are what a *)
(* load finds, and all of it when no load of the page on that host is under    *)
(* way.  Nothing is said of pages somebody changed meanwhile.                  *)
Way(p) == <<p>> \o Above[p]
OnHost(h, p) == \E i \in 1..Len(Way(p)) : Way(p)[i] = h.page

First(tab, sels, k) ==
  {e \in Element : \E j \in 1..k :
     /\ e \in Rows(tab, sels[j])
     /\ \A i \in 1..(j - 1) : ElementName(e) \notin NamesOf(Rows(tab, sels[i]))}

SelectsOf(h, r) == Selects(r.page, StyleOn(h, r.page), r.lang)

Come(tab, h, k, r) ==
  /\ h.id = r.host /\ OnHost(h, r.page) /\ k \in 0..Len(SelectsOf(h, r))
  /\ Len(r.todo) = Len(SelectsOf(h, r)) - k
  /\ \A i \in 1..Len(r.todo) : r.todo[i] = SelectsOf(h, r)[k + i]
  /\ r.at = "select" => r.out = First(tab, SelectsOf(h, r), k)
  /\ r.at = "add" => /\ k # 0 /\ r.out \cup r.add = First(tab, SelectsOf(h, r), k)
                     /\ r.add \subseteq Rows(tab, SelectsOf(h, r)[k])
                     /\ r.level = SelectsOf(h, r)[k].level.from

RowIn(rows, p, id, e) == \E r \in rows : r.page = p /\ r.host = id /\ r.id = e

OnCourse(tab, rows, r) ==
  /\ \E h \in Hosts, k \in Nat : Come(tab, h, k, r)
  /\ \A e \in r.out : RowIn(rows, r.page, r.host, e)

HostId == {h.id : h \in Hosts}
Row == [page : Page, host : HostId, lang : Lang, id : Element, style : Page \cup Style \cup {Nowhere}]

PageType ==
  /\ element \in [Element -> [at : Page \cup Style, inherit : BOOLEAN, live : BOOLEAN]]
  /\ cache \subseteq Row
  /\ rendering \in [Client -> Rendering \cup {Ready}]
  /\ suspect \subseteq Page

NamesDiffer ==
  \A e, f \in Element :
    element[e].live /\ element[f].live /\ element[e].at = element[f].at /\ ElementName(e) = ElementName(f)
      => e = f

LoadsSelect ==
  \A c \in Client : Loading(c) => \A i \in 1..Len(rendering[c].todo) : rendering[c].todo[i].level \in Level

LoadsOnCourse ==
  \A c \in Client : Loading(c) /\ rendering[c].page \notin suspect => OnCourse(element, cache, rendering[c])

IsChosen(r) ==
  /\ OnHost(HostOf(r.host), r.page)
  /\ r.id \in Chosen(HostOf(r.host), r.page)
  /\ r.id \in StyleElement => r.style = element[r.id].at
RowsAreChosen == \A r \in cache : r.page \notin suspect => IsChosen(r)

LoadedFor(p, id) == \E c \in Client : Loading(c) /\ rendering[c].page = p /\ rendering[c].host = id

IsComplete(rows, p, id) == \A e \in Chosen(HostOf(id), p) : RowIn(rows, p, id, e)
RowsAreComplete ==
  \A r \in cache : r.page \notin suspect /\ ~LoadedFor(r.page, r.host) => IsComplete(cache, r.page, r.host)

PageInv ==
  PageType /\ NamesDiffer /\ LoadsSelect /\ LoadsOnCourse /\ RowsAreChosen /\ RowsAreComplete

(* A set of numbers has a least one: the form in which the proofs below do     *)
(* their inductions.                                                            *)
LEMMA LeastOf == ASSUME NEW S \in SUBSET Nat, S # {} PROVE \E k \in S : \A m \in S : k <= m
PROOF
<1>1. IsWellFoundedOn(OpToRel(<, Nat), Nat)
  BY NatLessThanWellFounded
<1>2. PICK k \in S : \A m \in S : ~ (<<m, k>> \in OpToRel(<, Nat))
  BY <1>1, WFMin, Zenon
<1>3. ASSUME NEW m \in S PROVE ~ (m < k)
  <2>1. m \in Nat /\ k \in Nat
    OBVIOUS
  <2> QED
    BY <1>2, <2>1, Zenon DEF OpToRel
<1> QED
  BY <1>3

(* What hangs in a tree can be gone up from: a function that is recursive in   *)
(* what a node hangs from exists.                                              *)
Hanging(S, up, depth, n) ==
  /\ up \in [S -> S \cup {Nowhere}] /\ depth \in [S -> 0..n]
  /\ \A x \in S : up[x] # Nowhere => depth[x] = depth[up[x]] + 1
IsClimb(f, S, up, base, first) ==
  f = [x \in S |-> IF up[x] = Nowhere THEN base[x] ELSE first[x] \o f[up[x]]]

LEMMA ClimbExists ==
  ASSUME NEW S, NEW N \in Nat, NEW up, NEW depth, Hanging(S, up, depth, N), NEW base, NEW first
  PROVE  \E f : IsClimb(f, S, up, base, first)
PROOF
<1> USE DEF Hanging, IsClimb
<1> DEFINE T(n) == {x \in S : depth[x] <= n}
           Part(f, n) == f = [x \in T(n) |-> IF up[x] = Nowhere THEN base[x] ELSE first[x] \o f[up[x]]]
           bad == {n \in Nat : ~ \E f : Part(f, n)}
<1>1. bad = {}
  <2>1. SUFFICES ASSUME bad # {} PROVE FALSE
    OBVIOUS
  <2>2. PICK m \in bad : \A k \in bad : m <= k
    BY <2>1, LeastOf
  <2>3. CASE m = 0
    <3>1. \A x \in T(0) : up[x] = Nowhere
      OBVIOUS
    <3>2. PICK f : f = [x \in T(0) |-> base[x]]
      OBVIOUS
    <3>3. Part(f, 0)
      BY <3>1, <3>2
    <3> QED
      BY <2>2, <2>3, <3>3
  <2>4. CASE m # 0
    <3>1. m - 1 \in Nat /\ m - 1 \notin bad
      <4>1. m - 1 \in Nat /\ ~ (m <= m - 1)
        BY <2>4
      <4> QED
        BY <2>2, <4>1
    <3>2. PICK f : Part(f, m - 1)
      BY <3>1
    <3>3. PICK h : h = [x \in T(m) |-> IF up[x] = Nowhere THEN base[x] ELSE first[x] \o f[up[x]]]
      OBVIOUS
    <3>4. \A x \in T(m - 1) : x \in T(m)
      BY <3>1
    <3>5. \A x \in T(m - 1) : h[x] = f[x]
      <4>1. \A x \in T(m - 1) : f[x] = IF up[x] = Nowhere THEN base[x] ELSE first[x] \o f[up[x]]
        BY <3>2
      <4>2. \A x \in T(m) : h[x] = IF up[x] = Nowhere THEN base[x] ELSE first[x] \o f[up[x]]
        BY <3>3
      <4> QED
        BY <3>4, <4>1, <4>2
    <3>6. \A x \in T(m) : up[x] # Nowhere => up[x] \in T(m - 1)
      BY <3>1
    <3>7. \A x \in T(m) : up[x] # Nowhere => h[up[x]] = f[up[x]]
      BY <3>5, <3>6
    <3>8. Part(h, m)
      BY <3>3, <3>7
    <3> QED
      BY <2>2, <3>8
  <2> QED
    BY <2>3, <2>4
<1>2. PICK f : Part(f, N)
  BY <1>1
<1>3. T(N) = S
  OBVIOUS
<1> QED
  BY <1>2, <1>3

(* The pages above a page, and the styles from a style up. *)
LEMMA PagesUp ==
  \E depth \in [Page -> Nat] : \A p \in Page : PageUp(p) # Nowhere => depth[p] = depth[PageUp(p)] + 1
PROOF
<1>1. Cardinality(Page) \in Nat
  BY TreesAssumption, FS_CardinalityType
<1>2. PICK depth \in [Page -> 0..Cardinality(Page)] :
        \A p \in Page : PageUp(p) # Nowhere => depth[p] = depth[PageUp(p)] + 1
  BY TreesAssumption
<1> QED
  BY <1>1, <1>2

LEMMA AboveUnfolds ==
  \A p \in Page : Above[p] = IF PageUp(p) = Nowhere THEN <<>> ELSE <<PageUp(p)>> \o Above[PageUp(p)]
PROOF
<1>1. Cardinality(Page) \in Nat
  BY TreesAssumption, FS_CardinalityType
<1>2. PICK depth \in [Page -> 0..Cardinality(Page)] :
        \A p \in Page : PageUp(p) # Nowhere => depth[p] = depth[PageUp(p)] + 1
  BY TreesAssumption
<1>3. PICK up, base, first :
        /\ up = [p \in Page |-> PageUp(p)] /\ base = [p \in Page |-> <<>>]
        /\ first = [p \in Page |-> <<PageUp(p)>>]
  OBVIOUS
<1>4. up \in [Page -> Page \cup {Nowhere}]
  BY <1>3, SiteAssumption
<1>5. \E f : f = [p \in Page |-> IF up[p] = Nowhere THEN base[p] ELSE first[p] \o f[up[p]]]
  <2>1. PICK N \in Nat : N = Cardinality(Page)
    BY <1>1
  <2>2. Hanging(Page, up, depth, N)
    BY <1>2, <1>3, <1>4, <2>1 DEF Hanging
  <2>3. PICK f : IsClimb(f, Page, up, base, first)
    BY <2>2, ClimbExists
  <2> QED
    BY <2>3 DEF IsClimb
<1>6. \E f : f = [p \in Page |-> IF PageUp(p) = Nowhere THEN <<>> ELSE <<PageUp(p)>> \o f[PageUp(p)]]
  BY <1>3, <1>5
<1>7. Above = [p \in Page |-> IF PageUp(p) = Nowhere THEN <<>> ELSE <<PageUp(p)>> \o Above[PageUp(p)]]
  BY <1>6 DEF Above
<1> QED
  BY <1>7

LEMMA AboveType == \A p \in Page : Above[p] \in Seq(Page)
PROOF
<1>1. PICK depth \in [Page -> Nat] : \A p \in Page : PageUp(p) # Nowhere => depth[p] = depth[PageUp(p)] + 1
  BY PagesUp
<1> DEFINE bad == {n \in Nat : \E p \in Page : depth[p] = n /\ Above[p] \notin Seq(Page)}
<1>2. SUFFICES ASSUME bad # {} PROVE FALSE
  OBVIOUS
<1>3. PICK n \in bad : \A k \in bad : n <= k
  BY <1>2, LeastOf
<1>4. PICK p \in Page : depth[p] = n /\ Above[p] \notin Seq(Page)
  BY <1>3
<1>5. Above[p] = IF PageUp(p) = Nowhere THEN <<>> ELSE <<PageUp(p)>> \o Above[PageUp(p)]
  BY AboveUnfolds
<1>6. PageUp(p) # Nowhere
  BY <1>4, <1>5
<1>7. PICK q \in Page : q = PageUp(p)
  BY <1>6, SiteAssumption
<1>8. depth[q] \in Nat /\ n = depth[q] + 1
  BY <1>1, <1>4, <1>6, <1>7
<1>9. Above[q] \in Seq(Page)
  BY <1>3, <1>8
<1>10. <<q>> \in Seq(Page)
  OBVIOUS
<1>11. <<q>> \o Above[q] \in Seq(Page)
  BY <1>9, <1>10, ConcatProperties
<1> QED
  BY <1>4, <1>5, <1>6, <1>7, <1>11

LEMMA StylesUnfold ==
  \A s \in Style : Styles[s] = IF StyleUp(s) = Nowhere THEN <<s>> ELSE <<s>> \o Styles[StyleUp(s)]
PROOF
<1>1. Cardinality(Style) \in Nat
  BY TreesAssumption, FS_CardinalityType
<1>2. PICK depth \in [Style -> 0..Cardinality(Style)] :
        \A s \in Style : StyleUp(s) # Nowhere => depth[s] = depth[StyleUp(s)] + 1
  BY TreesAssumption
<1>3. PICK up, first :
        /\ up = [s \in Style |-> StyleUp(s)] /\ first = [s \in Style |-> <<s>>]
  OBVIOUS
<1>4. up \in [Style -> Style \cup {Nowhere}]
  BY <1>3, SiteAssumption
<1>5. \E f : f = [s \in Style |-> IF up[s] = Nowhere THEN first[s] ELSE first[s] \o f[up[s]]]
  <2>1. PICK N \in Nat : N = Cardinality(Style)
    BY <1>1
  <2>2. Hanging(Style, up, depth, N)
    BY <1>2, <1>3, <1>4, <2>1 DEF Hanging
  <2>3. PICK f : IsClimb(f, Style, up, first, first)
    BY <2>2, ClimbExists
  <2> QED
    BY <2>3 DEF IsClimb
<1>6. \E f : f = [s \in Style |-> IF StyleUp(s) = Nowhere THEN <<s>> ELSE <<s>> \o f[StyleUp(s)]]
  BY <1>3, <1>5
<1>7. Styles = [s \in Style |-> IF StyleUp(s) = Nowhere THEN <<s>> ELSE <<s>> \o Styles[StyleUp(s)]]
  BY <1>6 DEF Styles
<1> QED
  BY <1>7

LEMMA StylesType == \A s \in Style : Styles[s] \in Seq(Style)
PROOF
<1>1. Cardinality(Style) \in Nat
  BY TreesAssumption, FS_CardinalityType
<1>2. PICK depth \in [Style -> 0..Cardinality(Style)] :
        \A s \in Style : StyleUp(s) # Nowhere => depth[s] = depth[StyleUp(s)] + 1
  BY TreesAssumption
<1> DEFINE bad == {n \in Nat : \E s \in Style : depth[s] = n /\ Styles[s] \notin Seq(Style)}
<1>3. SUFFICES ASSUME bad # {} PROVE FALSE
  BY <1>1, <1>2
<1>4. PICK n \in bad : \A k \in bad : n <= k
  BY <1>3, LeastOf
<1>5. PICK s \in Style : depth[s] = n /\ Styles[s] \notin Seq(Style)
  BY <1>4
<1>6. Styles[s] = IF StyleUp(s) = Nowhere THEN <<s>> ELSE <<s>> \o Styles[StyleUp(s)]
  BY StylesUnfold
<1>7. <<s>> \in Seq(Style)
  OBVIOUS
<1>8. StyleUp(s) # Nowhere
  BY <1>5, <1>6, <1>7
<1>9. PICK t \in Style : t = StyleUp(s)
  BY <1>8, SiteAssumption
<1>10. depth[t] \in Nat /\ n = depth[t] + 1
  BY <1>1, <1>2, <1>5, <1>8, <1>9
<1>11. Styles[t] \in Seq(Style)
  BY <1>4, <1>10
<1>12. <<s>> \o Styles[t] \in Seq(Style)
  BY <1>7, <1>11, ConcatProperties
<1> QED
  BY <1>5, <1>6, <1>8, <1>9, <1>12

LEMMA LevelsType ==
  ASSUME NEW p \in Page, NEW s \in Style \cup {Nowhere}
  PROVE  Levels(p, s) \in Seq(Level) /\ Len(Levels(p, s)) \in Nat
PROOF
<1>1. PICK styles : styles = IF s = Nowhere THEN <<>> ELSE Styles[s]
  OBVIOUS
<1>2. styles \in Seq(Style)
  BY <1>1, StylesType, EmptySeq
<1>3. Above[p] \in Seq(Page)
  BY AboveType
<1>4. PICK a, b, c :
        /\ a = <<[from |-> p, inherited |-> FALSE]>>
        /\ b = [i \in 1..Len(Above[p]) |-> [from |-> Above[p][i], inherited |-> TRUE]]
        /\ c = [i \in 1..Len(styles) |-> [from |-> styles[i], inherited |-> FALSE]]
  OBVIOUS
<1>5. a \in Seq(Level)
  <2>1. [from |-> p, inherited |-> FALSE] \in Level
    BY DEF Level
  <2> QED
    BY <1>4, <2>1
<1>6. b \in Seq(Level)
  <2>1. Len(Above[p]) \in Nat /\ \A i \in 1..Len(Above[p]) : Above[p][i] \in Page
    BY <1>3, LenProperties, ElementOfSeq
  <2>2. b \in [1..Len(Above[p]) -> Level]
    BY <1>4, <2>1 DEF Level
  <2> QED
    BY <2>1, <2>2, SeqDef
<1>7. c \in Seq(Level)
  <2>1. Len(styles) \in Nat /\ \A i \in 1..Len(styles) : styles[i] \in Style
    BY <1>2, LenProperties, ElementOfSeq
  <2>2. c \in [1..Len(styles) -> Level]
    BY <1>4, <2>1 DEF Level
  <2> QED
    BY <2>1, <2>2, SeqDef
<1>8. a \o b \o c \in Seq(Level)
  <2>1. a \o b \in Seq(Level)
    BY <1>5, <1>6, ConcatProperties
  <2> QED
    BY <1>7, <2>1, ConcatProperties
<1>9. Levels(p, s) = a \o b \o c
  BY <1>1, <1>4 DEF Levels
<1> QED
  BY <1>8, <1>9, LenProperties

(* The SELECTs go through the levels in their order, each in the default       *)
(* language at last.                                                           *)
Orderly(sels, ls, at) ==
  /\ at \in [1..Len(sels) -> 1..Len(ls)]
  /\ \A k \in 1..Len(sels) : sels[k].level = ls[at[k]] /\ sels[k].lang \in {0, 1}
  /\ \A j, k \in 1..Len(sels) : j <= k => at[j] <= at[k]
  /\ \A i \in 1..Len(ls) : \E k \in 1..Len(sels) : at[k] = i /\ sels[k].lang = 0

LEMMA SelectsAre ==
  ASSUME NEW p \in Page, NEW s \in Style \cup {Nowhere}, NEW lang \in Lang
  PROVE  /\ Selects(p, s, lang) \in Seq(Selection) /\ Len(Selects(p, s, lang)) \in Nat
         /\ \E at : Orderly(Selects(p, s, lang), Levels(p, s), at)
PROOF
<1>1. PICK ls : ls = Levels(p, s)
  OBVIOUS
<1>2. PICK n \in Nat : n = Len(ls)
  BY <1>1, LevelsType
<1>3. \A i \in 1..n : ls[i] \in Level
  BY <1>1, <1>2, LevelsType, ElementOfSeq
<1>4. lang \in {0, 1}
  BY SiteAssumption
<1>5. PICK sels : sels = Selects(p, s, lang)
  OBVIOUS
<1>6. CASE lang = 0
  <2>1. sels = [k \in 1..n |-> [level |-> ls[k], lang |-> 0]]
    BY <1>1, <1>2, <1>5, <1>6 DEF Selects
  <2>2. sels \in [1..n -> Selection]
    BY <1>3, <2>1 DEF Selection
  <2>3. sels \in Seq(Selection) /\ Len(sels) = n
    <3>1. sels \in Seq(Selection) /\ DOMAIN sels = 1..n
      BY <2>2, SeqDef
    <3> QED
      BY <3>1, LenProperties
  <2>4. PICK at : at = [k \in 1..n |-> k]
    OBVIOUS
  <2>5. \A k \in 1..n : sels[k].level = ls[k] /\ sels[k].lang = 0 /\ at[k] = k
    BY <2>1, <2>4
  <2>6. at \in [1..n -> 1..n]
    BY <2>4
  <2>7. Orderly(sels, ls, at)
    BY <1>2, <2>3, <2>5, <2>6 DEF Orderly
  <2> QED
    BY <1>1, <1>5, <2>3, <2>7
<1>7. CASE lang = 1
  <2>1. sels = [k \in 1..(2 * n) |-> [level |-> ls[(k + 1) \div 2], lang |-> (k % 2) * 1]]
    BY <1>1, <1>2, <1>5, <1>7 DEF Selects
  <2>2. \A k \in 1..(2 * n) : (k + 1) \div 2 \in 1..n /\ k % 2 \in {0, 1}
    OBVIOUS
  <2>3. \A k \in 1..(2 * n) : sels[k].level = ls[(k + 1) \div 2] /\ sels[k].lang = k % 2 /\ sels[k] \in Selection
    <3>1. \A k \in 1..(2 * n) : sels[k] = [level |-> ls[(k + 1) \div 2], lang |-> (k % 2) * 1]
      BY <2>1
    <3>2. \A k \in 1..(2 * n) : (k % 2) * 1 = k % 2
      OBVIOUS
    <3>3. \A k \in 1..(2 * n) : sels[k] = [level |-> ls[(k + 1) \div 2], lang |-> k % 2]
      BY <3>1, <3>2
    <3>4. \A l \in Level, x \in {0, 1} : [level |-> l, lang |-> x] \in Selection
      BY DEF Selection
    <3>5. \A k \in 1..(2 * n) : ls[(k + 1) \div 2] \in Level
      BY <1>3, <2>2
    <3> QED
      <4> SUFFICES ASSUME NEW k \in 1..(2 * n)
                   PROVE  sels[k].level = ls[(k + 1) \div 2] /\ sels[k].lang = k % 2 /\ sels[k] \in Selection
        OBVIOUS
      <4>1. PICK l, x : l = ls[(k + 1) \div 2] /\ x = k % 2
        OBVIOUS
      <4>2. l \in Level /\ x \in {0, 1}
        BY <2>2, <3>5, <4>1
      <4>3. sels[k] = [level |-> l, lang |-> x]
        BY <3>3, <4>1
      <4>4. sels[k].level = l /\ sels[k].lang = x
        BY <4>3
      <4>5. sels[k] \in Selection
        BY <3>4, <4>2, <4>3
      <4> QED
        BY <4>1, <4>4, <4>5
  <2>4. sels \in Seq(Selection) /\ Len(sels) = 2 * n
    <3>1. sels \in [1..(2 * n) -> Selection]
      BY <2>1, <2>3
    <3>2. sels \in Seq(Selection) /\ DOMAIN sels = 1..(2 * n)
      BY <3>1, SeqDef
    <3> QED
      BY <3>2, LenProperties
  <2>5. PICK at : at = [k \in 1..(2 * n) |-> (k + 1) \div 2]
    OBVIOUS
  <2>6. at \in [1..(2 * n) -> 1..n]
    BY <2>2, <2>5
  <2>7. \A j, k \in 1..(2 * n) : j <= k => at[j] <= at[k]
    BY <2>5
  <2>8. ASSUME NEW i \in 1..n PROVE \E k \in 1..(2 * n) : at[k] = i /\ sels[k].lang = 0
    <3>1. 2 * i \in 1..(2 * n) /\ (2 * i + 1) \div 2 = i /\ (2 * i) % 2 = 0
      OBVIOUS
    <3> QED
      BY <2>3, <2>5, <3>1
  <2>9. \A k \in 1..(2 * n) : sels[k].level = ls[at[k]] /\ sels[k].lang \in {0, 1}
    BY <2>2, <2>3, <2>5
  <2>10. Orderly(sels, ls, at)
    BY <1>2, <2>4, <2>6, <2>7, <2>8, <2>9 DEF Orderly
  <2> QED
    BY <1>1, <1>5, <2>4, <2>10
<1> QED
  BY <1>4, <1>6, <1>7

-----------------------------------------------------------------------------
(* What a load finds.  Of every name the first element, so that what the next  *)
(* SELECT adds are those of its rows whose name was not found yet.             *)
LEMMA NameFound ==
  ASSUME NEW tab, NEW sels, NEW k \in Nat, NEW j \in 1..k, NEW e \in Rows(tab, sels[j])
  PROVE  ElementName(e) \in NamesOf(First(tab, sels, k))
PROOF
<1> DEFINE S == {i \in 1..k : ElementName(e) \in NamesOf(Rows(tab, sels[i]))}
<1>1. j \in S
  BY DEF NamesOf
<1>2. S \in SUBSET Nat /\ S # {}
  BY <1>1
<1>3. PICK i \in S : \A m \in S : i <= m
  BY <1>2, LeastOf
<1>4. PICK f \in Rows(tab, sels[i]) : ElementName(f) = ElementName(e)
  BY <1>3 DEF NamesOf
<1>5. \A m \in 1..(i - 1) : ElementName(f) \notin NamesOf(Rows(tab, sels[m]))
  <2>1. ASSUME NEW m \in 1..(i - 1) PROVE m \in 1..k /\ ~ (i <= m)
    BY <1>3
  <2> QED
    BY <1>3, <1>4, <2>1
<1>6. f \in Element
  BY <1>4 DEF Rows
<1>7. f \in First(tab, sels, k)
  BY <1>3, <1>4, <1>5, <1>6 DEF First
<1> QED
  BY <1>4, <1>7 DEF NamesOf

LEMMA FirstGrows ==
  ASSUME NEW tab, NEW sels, NEW k \in Nat
  PROVE  First(tab, sels, k + 1) = First(tab, sels, k)
           \cup {e \in Rows(tab, sels[k + 1]) : ElementName(e) \notin NamesOf(First(tab, sels, k))}
PROOF
<1>1. \A e : e \in First(tab, sels, k) => e \in First(tab, sels, k + 1)
  <2>1. \A j \in 1..k : j \in 1..(k + 1)
    OBVIOUS
  <2> QED
    BY <2>1 DEF First
<1>2. \A e : e \in Rows(tab, sels[k + 1]) /\ ElementName(e) \notin NamesOf(First(tab, sels, k))
             => e \in First(tab, sels, k + 1)
  <2> SUFFICES ASSUME NEW e \in Rows(tab, sels[k + 1]), ElementName(e) \notin NamesOf(First(tab, sels, k))
               PROVE  e \in First(tab, sels, k + 1)
    OBVIOUS
  <2>1. ASSUME NEW i \in 1..k PROVE ElementName(e) \notin NamesOf(Rows(tab, sels[i]))
    <3>1. ASSUME NEW f \in Rows(tab, sels[i]), ElementName(f) = ElementName(e) PROVE FALSE
      <4>1. ElementName(f) \in NamesOf(First(tab, sels, k))
        BY NameFound
      <4> QED
        BY <3>1, <4>1
    <3> QED
      BY <3>1 DEF NamesOf
  <2>2. k + 1 \in 1..(k + 1) /\ (k + 1) - 1 = k
    OBVIOUS
  <2>3. e \in Element
    BY DEF Rows
  <2> QED
    BY <2>1, <2>2, <2>3 DEF First
<1>3. \A e : e \in First(tab, sels, k + 1) =>
        e \in First(tab, sels, k) \/ (e \in Rows(tab, sels[k + 1]) /\ ElementName(e) \notin NamesOf(First(tab, sels, k)))
  <2> SUFFICES ASSUME NEW e \in First(tab, sels, k + 1), e \notin First(tab, sels, k)
               PROVE  e \in Rows(tab, sels[k + 1]) /\ ElementName(e) \notin NamesOf(First(tab, sels, k))
    OBVIOUS
  <2>1. PICK j \in 1..(k + 1) : /\ e \in Rows(tab, sels[j])
                                /\ \A i \in 1..(j - 1) : ElementName(e) \notin NamesOf(Rows(tab, sels[i]))
    BY DEF First
  <2>2. e \in Element
    BY DEF First
  <2>3. j \notin 1..k
    BY <2>1, <2>2 DEF First
  <2>4. j = k + 1 /\ j - 1 = k
    BY <2>3
  <2>5. ASSUME NEW f \in First(tab, sels, k), ElementName(f) = ElementName(e) PROVE FALSE
    <3>1. PICK i \in 1..k : f \in Rows(tab, sels[i])
      BY DEF First
    <3>2. ElementName(e) \in NamesOf(Rows(tab, sels[i]))
      BY <2>5, <3>1 DEF NamesOf
    <3> QED
      BY <2>1, <2>4, <3>2
  <2> QED
    BY <2>1, <2>4, <2>5 DEF NamesOf
<1> QED
  BY <1>1, <1>2, <1>3

LEMMA FirstEmpty == ASSUME NEW tab, NEW sels PROVE First(tab, sels, 0) = {}
PROOF
  BY DEF First

(* Elements found in the same place. *)
LEMMA SameLevel ==
  ASSUME NamesDiffer, NEW a, NEW b, a.level = b.level, NEW e \in Rows(element, a), NEW f \in Rows(element, b),
         ElementName(e) = ElementName(f)
  PROVE  e = f
PROOF
<1>1. /\ e \in Element /\ element[e].live /\ element[e].at = a.level.from
      /\ f \in Element /\ element[f].live /\ element[f].at = b.level.from
  BY DEF Rows
<1> QED
  BY <1>1 DEF NamesDiffer

On(l) == Rows(element, [level |-> l, lang |-> 0])

LEMMA RowsOn ==
  ASSUME NEW sel, NEW l, sel.level = l
  PROVE  /\ Rows(element, sel) \subseteq On(l)
         /\ sel.lang = 0 => Rows(element, sel) = On(l)
PROOF
<1>1. PICK d : d = [level |-> l, lang |-> 0]
  OBVIOUS
<1>2. d.level = l /\ d.lang = 0
  BY <1>1
<1>3. \A e : e \in Rows(element, sel) => e \in Rows(element, d)
  BY <1>2 DEF Rows, Has
<1>4. ASSUME sel.lang = 0 PROVE \A e : e \in Rows(element, d) => e \in Rows(element, sel)
  BY <1>2, <1>4 DEF Rows, Has
<1> QED
  BY <1>1, <1>3, <1>4 DEF On

(* With what the property asks for: the first of each name on the levels.      *)
ChosenOn(ls) ==
  {e \in Element : \E i \in 1..Len(ls) :
     e \in On(ls[i]) /\ \A j \in 1..(i - 1) : ElementName(e) \notin NamesOf(On(ls[j]))}

LEMMA ChosenIs == ASSUME NEW h, NEW p PROVE Chosen(h, p) = ChosenOn(Levels(p, StyleOn(h, p)))
PROOF
<1>1. PICK ls : ls = Levels(p, StyleOn(h, p))
  OBVIOUS
<1>2. Chosen(h, p) = UNION {{e \in On(ls[i]) : \A j \in 1..(i - 1) : ElementName(e) \notin NamesOf(On(ls[j]))} : i \in 1..Len(ls)}
  BY <1>1 DEF Chosen, On
<1>3. \A i : On(ls[i]) \subseteq Element
  BY DEF On, Rows
<1> QED
  BY <1>1, <1>2, <1>3 DEF ChosenOn

LEMMA FirstIsChosen ==
  ASSUME NamesDiffer, NEW sels, NEW ls, Len(sels) \in Nat, Len(ls) \in Nat, NEW at, Orderly(sels, ls, at)
  PROVE  First(element, sels, Len(sels)) = ChosenOn(ls)
PROOF
<1>1. /\ at \in [1..Len(sels) -> 1..Len(ls)]
      /\ \A k \in 1..Len(sels) : sels[k].level = ls[at[k]]
      /\ \A j, k \in 1..Len(sels) : j <= k => at[j] <= at[k]
      /\ \A i \in 1..Len(ls) : \E k \in 1..Len(sels) : at[k] = i /\ sels[k].lang = 0
  BY DEF Orderly
<1>2. ASSUME NEW e \in First(element, sels, Len(sels)) PROVE e \in ChosenOn(ls)
  <2>1. PICK k \in 1..Len(sels) : /\ e \in Rows(element, sels[k])
                                  /\ \A m \in 1..(k - 1) : ElementName(e) \notin NamesOf(Rows(element, sels[m]))
    BY DEF First
  <2>2. PICK i \in 1..Len(ls) : i = at[k]
    BY <1>1
  <2>3. e \in On(ls[i])
    BY <1>1, <2>1, <2>2, RowsOn
  <2>4. ASSUME NEW j \in 1..(i - 1), ElementName(e) \in NamesOf(On(ls[j])) PROVE FALSE
    <3>1. j \in 1..Len(ls) /\ j < i
      OBVIOUS
    <3>2. PICK m \in 1..Len(sels) : at[m] = j /\ sels[m].lang = 0
      BY <1>1, <3>1
    <3>3. ElementName(e) \in NamesOf(Rows(element, sels[m]))
      BY <1>1, <2>4, <3>2, RowsOn
    <3>4. ~ (k <= m)
      BY <1>1, <2>2, <3>1, <3>2
    <3>5. m \in 1..(k - 1)
      BY <3>4
    <3> QED
      BY <2>1, <3>3, <3>5
  <2>5. e \in Element
    BY DEF First
  <2> QED
    BY <2>3, <2>4, <2>5 DEF ChosenOn
<1>3. ASSUME NEW e \in ChosenOn(ls) PROVE e \in First(element, sels, Len(sels))
  <2>1. PICK i \in 1..Len(ls) : e \in On(ls[i]) /\ \A j \in 1..(i - 1) : ElementName(e) \notin NamesOf(On(ls[j]))
    BY DEF ChosenOn
  <2>2. PICK m \in 1..Len(sels) : at[m] = i /\ sels[m].lang = 0
    BY <1>1
  <2>3. e \in Rows(element, sels[m])
    BY <1>1, <2>1, <2>2, RowsOn
  <2> DEFINE S == {k \in 1..Len(sels) : ElementName(e) \in NamesOf(Rows(element, sels[k]))}
  <2>4. m \in S
    BY <2>3 DEF NamesOf
  <2>5. S \in SUBSET Nat /\ S # {}
    BY <2>4
  <2>6. PICK k \in S : \A l \in S : k <= l
    BY <2>5, LeastOf
  <2>7. PICK f \in Rows(element, sels[k]) : ElementName(f) = ElementName(e)
    BY <2>6 DEF NamesOf
  <2>8. at[k] <= i /\ at[k] \in 1..Len(ls)
    BY <1>1, <2>2, <2>4, <2>6
  <2>9. f \in On(ls[at[k]])
    BY <1>1, <2>6, <2>7, RowsOn
  <2>10. ~ (at[k] < i)
    <3>1. ElementName(e) \in NamesOf(On(ls[at[k]]))
      BY <2>7, <2>9 DEF NamesOf
    <3>2. at[k] < i => at[k] \in 1..(i - 1)
      BY <2>8
    <3> QED
      BY <2>1, <3>1, <3>2
  <2>11. at[k] = i
    BY <2>8, <2>10
  <2>12. e = f
    <3>1. sels[k].level = sels[m].level
      BY <1>1, <2>2, <2>6, <2>11
    <3> QED
      BY <2>3, <2>7, <3>1, SameLevel
  <2>13. \A l \in 1..(k - 1) : ElementName(e) \notin NamesOf(Rows(element, sels[l]))
    <3>1. ASSUME NEW l \in 1..(k - 1) PROVE l \in 1..Len(sels) /\ ~ (k <= l)
      BY <2>6
    <3> QED
      BY <2>6, <3>1
  <2>14. e \in Element
    BY DEF ChosenOn
  <2> QED
    BY <2>6, <2>7, <2>12, <2>13, <2>14 DEF First
<1> QED
  BY <1>2, <1>3

LEMMA ChosenNames ==
  ASSUME NamesDiffer, NEW ls, Len(ls) \in Nat, NEW e \in ChosenOn(ls), NEW f \in ChosenOn(ls),
         ElementName(e) = ElementName(f)
  PROVE  e = f
PROOF
<1>1. PICK i \in 1..Len(ls) : e \in On(ls[i]) /\ \A j \in 1..(i - 1) : ElementName(e) \notin NamesOf(On(ls[j]))
  BY DEF ChosenOn
<1>2. PICK k \in 1..Len(ls) : f \in On(ls[k]) /\ \A j \in 1..(k - 1) : ElementName(f) \notin NamesOf(On(ls[j]))
  BY DEF ChosenOn
<1>3. ElementName(e) \in NamesOf(On(ls[k])) /\ ElementName(f) \in NamesOf(On(ls[i]))
  BY <1>1, <1>2 DEF NamesOf
<1>4. k \notin 1..(i - 1) /\ i \notin 1..(k - 1)
  BY <1>1, <1>2, <1>3
<1>5. i = k
  BY <1>4
<1>6. PICK d : d = [level |-> ls[i], lang |-> 0]
  OBVIOUS
<1>7. e \in Rows(element, d) /\ f \in Rows(element, d)
  BY <1>1, <1>2, <1>5, <1>6 DEF On
<1> QED
  BY <1>7, SameLevel

-----------------------------------------------------------------------------
(* The way up from a page goes through no page twice, and down the way a page  *)
(* has its own style or the one above it: what ParseUri computes component by  *)
(* component is the style the property speaks of.                              *)
LEMMA WayIs ==
  ASSUME NEW p \in Page
  PROVE  /\ Way(p) \in Seq(Page) /\ Len(Way(p)) \in Nat \ {0} /\ Way(p)[1] = p
         /\ \A i \in 1..Len(Way(p)) : Way(p)[i] \in Page
         /\ PageUp(p) = Nowhere => Len(Way(p)) = 1
         /\ PageUp(p) # Nowhere =>
              /\ Len(Way(p)) = Len(Way(PageUp(p))) + 1
              /\ \A i \in 1..Len(Way(PageUp(p))) : Way(p)[i + 1] = Way(PageUp(p))[i]
PROOF
<1>1. PICK above : above = Above[p]
  OBVIOUS
<1>2. above \in Seq(Page) /\ <<p>> \in Seq(Page)
  BY <1>1, AboveType
<1>3. Way(p) = <<p>> \o above
  BY <1>1 DEF Way
<1>4. Way(p) \in Seq(Page) /\ Len(Way(p)) = Len(above) + 1 /\ Len(above) \in Nat
  BY <1>2, <1>3, ConcatProperties, LenProperties
<1>5. Way(p)[1] = p
  BY <1>2, <1>3, <1>4, ConcatProperties
<1>6. \A i \in 1..Len(above) : Way(p)[i + 1] = above[i]
  BY <1>2, <1>3, <1>4
<1>7. ASSUME PageUp(p) = Nowhere PROVE Len(Way(p)) = 1
  <2>1. above = <<>>
    BY <1>1, <1>7, AboveUnfolds
  <2> QED
    BY <1>4, <2>1
<1>8. ASSUME PageUp(p) # Nowhere
      PROVE  above = Way(PageUp(p))
  BY <1>1, <1>8, AboveUnfolds DEF Way
<1>9. \A i \in 1..Len(Way(p)) : Way(p)[i] \in Page
  BY <1>4, ElementOfSeq
<1> QED
  BY <1>4, <1>5, <1>6, <1>7, <1>8, <1>9

LEMMA WayDepth ==
  \E depth \in [Page -> Nat] :
    \A p \in Page : \A i \in 1..Len(Way(p)) : depth[Way(p)[i]] = depth[p] - i + 1
PROOF
<1>1. PICK depth \in [Page -> Nat] : \A p \in Page : PageUp(p) # Nowhere => depth[p] = depth[PageUp(p)] + 1
  BY PagesUp
<1> DEFINE Falls(p) == \A i \in 1..Len(Way(p)) : depth[Way(p)[i]] = depth[p] - i + 1
           bad == {n \in Nat : \E p \in Page : depth[p] = n /\ ~ Falls(p)}
<1>2. SUFFICES ASSUME bad # {} PROVE FALSE
  OBVIOUS
<1>3. PICK n \in bad : \A k \in bad : n <= k
  BY <1>2, LeastOf
<1>4. PICK p \in Page : depth[p] = n /\ ~ Falls(p)
  BY <1>3
<1>5. PICK i \in 1..Len(Way(p)) : depth[Way(p)[i]] # depth[p] - i + 1
  BY <1>4
<1>6. depth[p] \in Nat /\ Way(p)[1] = p /\ Len(Way(p)) \in Nat
  BY WayIs
<1>7. i # 1
  BY <1>5, <1>6
<1>8. PageUp(p) # Nowhere
  <2>1. PageUp(p) = Nowhere => Len(Way(p)) = 1
    BY WayIs
  <2> QED
    BY <1>5, <1>6, <1>7, <2>1
<1>9. PICK q \in Page : q = PageUp(p)
  BY <1>8, SiteAssumption
<1>10. depth[q] \in Nat /\ depth[p] = depth[q] + 1
  BY <1>1, <1>8, <1>9
<1>11. Falls(q)
  <2>1. ~ (n <= depth[q])
    BY <1>4, <1>10
  <2>2. depth[q] \notin bad
    BY <1>3, <2>1
  <2> QED
    BY <1>10, <2>2
<1>12. Len(Way(p)) = Len(Way(q)) + 1 /\ Len(Way(q)) \in Nat /\ \A m \in 1..Len(Way(q)) : Way(p)[m + 1] = Way(q)[m]
  BY <1>8, <1>9, WayIs
<1>13. PICK m \in 1..Len(Way(q)) : i = m + 1
  <2>1. i - 1 \in 1..Len(Way(q)) /\ i = (i - 1) + 1
    BY <1>6, <1>7, <1>12
  <2> QED
    BY <2>1
<1>14. Way(p)[i] = Way(q)[m]
  BY <1>12, <1>13
<1>15. depth[Way(q)[m]] = depth[q] - m + 1
  BY <1>11
<1> QED
  BY <1>5, <1>10, <1>12, <1>13, <1>14, <1>15

LEMMA WayOnce ==
  ASSUME NEW p \in Page, NEW i \in 1..Len(Way(p)), NEW j \in 1..Len(Way(p)), Way(p)[i] = Way(p)[j]
  PROVE  i = j
PROOF
<1>1. PICK depth \in [Page -> Nat] :
        \A q \in Page : \A k \in 1..Len(Way(q)) : depth[Way(q)[k]] = depth[q] - k + 1
  BY WayDepth
<1>2. Len(Way(p)) \in Nat /\ depth[p] \in Nat
  BY WayIs
<1>3. depth[Way(p)[i]] = depth[p] - i + 1 /\ depth[Way(p)[j]] = depth[p] - j + 1
  BY <1>1
<1>4. depth[p] - i + 1 = depth[p] - j + 1
  BY <1>3
<1> QED
  BY <1>2, <1>4

LEMMA StyleFound ==
  ASSUME NEW h, NEW p \in Page, NEW r \in 1..Len(Way(p)), Way(p)[r] = h.page
  PROVE  /\ (\A i \in 1..r : PageStyle(Way(p)[i]) = Nowhere) => StyleOn(h, p) = h.style
         /\ \A i \in 1..r :
              PageStyle(Way(p)[i]) # Nowhere /\ (\A j \in 1..(i - 1) : PageStyle(Way(p)[j]) = Nowhere)
                => StyleOn(h, p) = PageStyle(Way(p)[i])
PROOF
<1>1. PICK way : way = Way(p)
  OBVIOUS
<1>2. PICK root : root = CHOOSE i \in 1..Len(way) : way[i] = h.page
  OBVIOUS
<1>3. root \in 1..Len(way) /\ way[root] = h.page
  BY <1>1, <1>2
<1>4. root = r
  BY <1>1, <1>3, WayOnce
<1>5. PICK styled : styled = {i \in 1..root : PageStyle(way[i]) # Nowhere}
  OBVIOUS
<1>6. StyleOn(h, p) = IF styled = {} THEN h.style
                      ELSE PageStyle(way[CHOOSE i \in styled : \A j \in styled : i <= j])
  BY <1>1, <1>2, <1>5 DEF StyleOn, Way
<1>7. ASSUME \A i \in 1..r : PageStyle(Way(p)[i]) = Nowhere PROVE StyleOn(h, p) = h.style
  BY <1>1, <1>4, <1>5, <1>6, <1>7
<1>8. ASSUME NEW i \in 1..r, PageStyle(Way(p)[i]) # Nowhere,
             \A j \in 1..(i - 1) : PageStyle(Way(p)[j]) = Nowhere
      PROVE  StyleOn(h, p) = PageStyle(Way(p)[i])
  <2>1. i \in styled
    BY <1>1, <1>4, <1>5, <1>8
  <2>2. \A j \in styled : j \in Nat /\ i <= j
    <3>1. \A j \in styled : j \in 1..r /\ j \notin 1..(i - 1)
      BY <1>1, <1>4, <1>5, <1>8
    <3> QED
      BY <3>1
  <2>3. PICK m : m = CHOOSE k \in styled : \A j \in styled : k <= j
    OBVIOUS
  <2>4. m \in styled /\ \A j \in styled : m <= j
    BY <2>1, <2>2, <2>3
  <2>5. m = i
    BY <2>1, <2>2, <2>4
  <2> QED
    BY <1>1, <1>6, <2>1, <2>3, <2>5
<1> QED
  BY <1>7, <1>8

LEMMA HomeIsOn ==
  ASSUME NEW h \in Hosts
  PROVE  /\ h.page \in Page /\ OnHost(h, h.page)
         /\ StyleOn(h, h.page) = IF PageStyle(h.page) # Nowhere THEN PageStyle(h.page) ELSE h.style
PROOF
<1>1. PICK p \in Page : p = h.page
  BY HostAssumption
<1>2. 1 \in 1..Len(Way(p)) /\ Way(p)[1] = p
  BY WayIs
<1>3. OnHost(h, p)
  BY <1>1, <1>2 DEF OnHost
<1>4. /\ (\A i \in 1..1 : PageStyle(Way(p)[i]) = Nowhere) => StyleOn(h, p) = h.style
      /\ \A i \in 1..1 :
           PageStyle(Way(p)[i]) # Nowhere /\ (\A j \in 1..(i - 1) : PageStyle(Way(p)[j]) = Nowhere)
             => StyleOn(h, p) = PageStyle(Way(p)[i])
  BY <1>1, <1>2, StyleFound
<1>5. \A i \in 1..1 : i = 1
  OBVIOUS
<1>6. \A j : j \notin 1..(1 - 1)
  OBVIOUS
<1>7. 1 \in 1..1
  OBVIOUS
<1> QED
  BY <1>1, <1>2, <1>3, <1>4, <1>5, <1>6, <1>7

LEMMA StyleBelow ==
  ASSUME NEW h \in Hosts, NEW p \in Page, OnHost(h, p), NEW q \in Page, PageUp(q) = p
  PROVE  /\ OnHost(h, q)
         /\ StyleOn(h, q) = IF PageStyle(q) # Nowhere THEN PageStyle(q) ELSE StyleOn(h, p)
PROOF
<1>1. PICK r \in 1..Len(Way(p)) : Way(p)[r] = h.page
  BY DEF OnHost
<1>2. PageUp(q) # Nowhere
  BY SiteAssumption
<1>3. Len(Way(q)) = Len(Way(p)) + 1 /\ Len(Way(p)) \in Nat /\ \A i \in 1..Len(Way(p)) : Way(q)[i + 1] = Way(p)[i]
  BY <1>2, WayIs
<1>4. Way(q)[1] = q
  BY WayIs
<1>5. r + 1 \in 1..Len(Way(q)) /\ Way(q)[r + 1] = h.page
  BY <1>1, <1>3
<1>6. OnHost(h, q)
  BY <1>5 DEF OnHost
<1>7. /\ (\A i \in 1..(r + 1) : PageStyle(Way(q)[i]) = Nowhere) => StyleOn(h, q) = h.style
      /\ \A i \in 1..(r + 1) :
           PageStyle(Way(q)[i]) # Nowhere /\ (\A j \in 1..(i - 1) : PageStyle(Way(q)[j]) = Nowhere)
             => StyleOn(h, q) = PageStyle(Way(q)[i])
  BY <1>5, StyleFound
<1>8. /\ (\A i \in 1..r : PageStyle(Way(p)[i]) = Nowhere) => StyleOn(h, p) = h.style
      /\ \A i \in 1..r :
           PageStyle(Way(p)[i]) # Nowhere /\ (\A j \in 1..(i - 1) : PageStyle(Way(p)[j]) = Nowhere)
             => StyleOn(h, p) = PageStyle(Way(p)[i])
  BY <1>1, StyleFound
<1>9. \A i \in 1..r : Way(q)[i + 1] = Way(p)[i]
  BY <1>1, <1>3
<1>10. ASSUME PageStyle(q) # Nowhere PROVE StyleOn(h, q) = PageStyle(q)
  <2>1. 1 \in 1..(r + 1) /\ \A j : j \notin 1..(1 - 1)
    BY <1>1, <1>3
  <2> QED
    BY <1>4, <1>7, <1>10, <2>1
<1>11. ASSUME PageStyle(q) = Nowhere PROVE StyleOn(h, q) = StyleOn(h, p)
  <2>0. \A i \in 2..(r + 1) : i - 1 \in 1..r /\ (i - 1) + 1 = i
    BY <1>3
  <2>1. \A i \in 2..(r + 1) : Way(q)[i] = Way(p)[i - 1]
    BY <1>9, <2>0
  <2>2. CASE \A i \in 1..r : PageStyle(Way(p)[i]) = Nowhere
    <3>1. \A i \in 1..(r + 1) : i = 1 \/ i \in 2..(r + 1)
      BY <1>3
    <3>2. \A i \in 1..(r + 1) : PageStyle(Way(q)[i]) = Nowhere
      BY <1>4, <1>11, <2>0, <2>1, <2>2, <3>1
    <3> QED
      BY <1>7, <1>8, <2>2, <3>2
  <2>3. CASE ~ \A i \in 1..r : PageStyle(Way(p)[i]) = Nowhere
    <3> DEFINE S == {i \in 1..r : PageStyle(Way(p)[i]) # Nowhere}
    <3>1. S \in SUBSET Nat /\ S # {}
      BY <1>3, <2>3
    <3>2. PICK i \in S : \A k \in S : i <= k
      BY <3>1, LeastOf
    <3>3. i \in 1..r /\ i + 1 \in 1..(r + 1) /\ (i + 1) - 1 = i
      BY <1>3
    <3>4. \A j \in 1..(i - 1) : PageStyle(Way(p)[j]) = Nowhere
      <4>1. \A j \in 1..(i - 1) : j \in 1..r /\ ~ (i <= j)
        BY <1>3
      <4> QED
        BY <3>2, <4>1
    <3>5. StyleOn(h, p) = PageStyle(Way(p)[i])
      BY <1>8, <3>3, <3>4
    <3>6. \A j \in 1..i : PageStyle(Way(q)[j]) = Nowhere
      <4>1. \A j \in 1..i : j = 1 \/ (j \in 2..(r + 1) /\ j - 1 \in 1..(i - 1))
        BY <1>3
      <4> QED
        BY <1>4, <1>11, <2>1, <3>4, <4>1
    <3>7. PageStyle(Way(q)[i + 1]) # Nowhere /\ Way(q)[i + 1] = Way(p)[i]
      BY <1>9, <3>2
    <3>8. StyleOn(h, q) = PageStyle(Way(q)[i + 1])
      BY <1>7, <3>3, <3>6, <3>7
    <3> QED
      BY <3>5, <3>7, <3>8
  <2> QED
    BY <2>2, <2>3
<1> QED
  BY <1>6, <1>10, <1>11

LEMMA StyleOnType ==
  ASSUME NEW h \in Hosts, NEW p \in Page, OnHost(h, p)
  PROVE  StyleOn(h, p) \in Style \cup {Nowhere}
PROOF
<1>1. PICK r \in 1..Len(Way(p)) : Way(p)[r] = h.page
  BY DEF OnHost
<1>2. /\ (\A i \in 1..r : PageStyle(Way(p)[i]) = Nowhere) => StyleOn(h, p) = h.style
      /\ \A i \in 1..r :
           PageStyle(Way(p)[i]) # Nowhere /\ (\A j \in 1..(i - 1) : PageStyle(Way(p)[j]) = Nowhere)
             => StyleOn(h, p) = PageStyle(Way(p)[i])
  BY <1>1, StyleFound
<1>3. Len(Way(p)) \in Nat /\ \A i \in 1..Len(Way(p)) : Way(p)[i] \in Page
  BY WayIs
<1>4. CASE \A i \in 1..r : PageStyle(Way(p)[i]) = Nowhere
  BY <1>2, <1>4, HostAssumption
<1>5. CASE ~ \A i \in 1..r : PageStyle(Way(p)[i]) = Nowhere
  <2> DEFINE S == {i \in 1..r : PageStyle(Way(p)[i]) # Nowhere}
  <2>1. S \in SUBSET Nat /\ S # {}
    BY <1>3, <1>5
  <2>2. PICK i \in S : \A k \in S : i <= k
    BY <2>1, LeastOf
  <2>3. \A j \in 1..(i - 1) : PageStyle(Way(p)[j]) = Nowhere
    <3>1. \A j \in 1..(i - 1) : j \in 1..r /\ ~ (i <= j)
      BY <1>3
    <3> QED
      BY <2>2, <3>1
  <2>4. StyleOn(h, p) = PageStyle(Way(p)[i])
    BY <1>2, <2>2, <2>3
  <2>5. i \in 1..Len(Way(p))
    BY <1>3
  <2> QED
    BY <1>3, <2>4, <2>5, SiteAssumption
<1> QED
  BY <1>4, <1>5

-----------------------------------------------------------------------------
(* A function that is recursive in the number of steps done exists.            *)
Stepping(S, n, a, next) == n \in Nat /\ a \in S /\ next \in [S \X (1..n) -> S]
IsRun(f, S, n, a, next) ==
  /\ f \in [0..n -> S] /\ f[0] = a
  /\ \A i \in 1..n : f[i] = next[<<f[i - 1], i>>]

LEMMA RunExists ==
  ASSUME NEW S, NEW N, NEW a, NEW next, Stepping(S, N, a, next)
  PROVE  \E f : IsRun(f, S, N, a, next)
PROOF
<1>0. N \in Nat /\ a \in S /\ next \in [S \X (1..N) -> S]
  BY DEF Stepping
<1> DEFINE Part(f, n) == /\ f \in [0..n -> S] /\ f[0] = a
                         /\ \A i \in 1..n : f[i] = next[<<f[i - 1], i>>]
           bad == {n \in Nat : n <= N /\ ~ \E f : Part(f, n)}
<1>1. bad = {}
  <2>1. SUFFICES ASSUME bad # {} PROVE FALSE
    OBVIOUS
  <2>2. PICK m \in bad : \A k \in bad : m <= k
    BY <2>1, LeastOf
  <2>3. CASE m = 0
    <3>1. PICK f : f = [x \in 0..0 |-> a]
      OBVIOUS
    <3>2. Part(f, 0)
      BY <1>0, <3>1
    <3> QED
      BY <2>2, <2>3, <3>2
  <2>4. CASE m # 0
    <3>1. m - 1 \in Nat /\ m \in Nat /\ m - 1 \notin bad /\ m <= N
      <4>1. m - 1 \in Nat /\ ~ (m <= m - 1) /\ m <= N /\ m \in Nat
        BY <2>4
      <4> QED
        BY <2>2, <4>1
    <3>2. PICK f : Part(f, m - 1)
      BY <1>0, <3>1
    <3>3. f[m - 1] \in S /\ m \in 1..N
      BY <1>0, <2>4, <3>1, <3>2
    <3>4. PICK y \in S : y = next[<<f[m - 1], m>>]
      BY <1>0, <3>3
    <3>5. PICK g : g = [x \in 0..m |-> IF x = m THEN y ELSE f[x]]
      OBVIOUS
    <3>6. \A x \in 0..m : x = m \/ x \in 0..(m - 1)
      BY <3>1
    <3>7. g \in [0..m -> S]
      BY <3>2, <3>5, <3>6
    <3>8. \A x \in 0..(m - 1) : g[x] = f[x]
      BY <3>1, <3>5
    <3>9. g[0] = a
      BY <3>1, <3>2, <3>8
    <3>10. \A i \in 1..(m - 1) : g[i] = next[<<g[i - 1], i>>]
      <4>1. \A i \in 1..(m - 1) : i \in 0..(m - 1) /\ i - 1 \in 0..(m - 1)
        BY <3>1
      <4> QED
        BY <3>2, <3>8, <4>1
    <3>11. g[m] = next[<<g[m - 1], m>>]
      BY <3>1, <3>4, <3>5, <3>8
    <3>12. \A i \in 1..m : i = m \/ i \in 1..(m - 1)
      BY <3>1
    <3>13. Part(g, m)
      BY <3>7, <3>9, <3>10, <3>11, <3>12
    <3> QED
      BY <2>2, <3>13
  <2> QED
    BY <2>3, <2>4
<1>2. N \notin bad
  BY <1>1
<1>3. PICK f : Part(f, N)
  BY <1>0, <1>2
<1> QED
  BY <1>3 DEF IsRun

(* Every component of a path leads to a page of the host, with its style.      *)
Route == [page : Page, path : Seq(Page), args : Seq(Name), style : Style \cup {Nowhere}]
Routed(h, at) == at \in Route /\ OnHost(h, at.page) /\ at.style = StyleOn(h, at.page)
Root(h) == [page |-> h.page, path |-> <<h.page>>, args |-> <<>>,
            style |-> IF PageStyle(h.page) # Nowhere THEN PageStyle(h.page) ELSE h.style]

LEMMA RootRoutes == ASSUME NEW h \in Hosts PROVE Routed(h, Root(h))
PROOF
<1>1. PICK p, s : p = h.page /\ s = StyleOn(h, p)
  OBVIOUS
<1>2. p \in Page /\ OnHost(h, p) /\ s = IF PageStyle(p) # Nowhere THEN PageStyle(p) ELSE h.style
  BY <1>1, HomeIsOn
<1>3. s \in Style \cup {Nowhere}
  BY <1>1, <1>2, StyleOnType
<1>4. Root(h) = [page |-> p, path |-> <<p>>, args |-> <<>>, style |-> s]
  BY <1>1, <1>2 DEF Root
<1>5. <<p>> \in Seq(Page) /\ <<>> \in Seq(Name)
  BY <1>2
<1>6. Root(h) \in Route
  BY <1>2, <1>3, <1>4, <1>5 DEF Route
<1>7. Root(h).page = p /\ Root(h).style = s
  BY <1>4
<1> QED
  BY <1>1, <1>2, <1>6, <1>7 DEF Routed

LEMMA StepRoutes ==
  ASSUME NEW h \in Hosts, NEW at, Routed(h, at), NEW dir \in Name
  PROVE  Routed(h, Step(at, dir))
PROOF
<1>1. at \in Route /\ OnHost(h, at.page) /\ at.style = StyleOn(h, at.page)
  BY DEF Routed
<1>2. PICK below : below = {p \in Page : PageUp(p) = at.page /\ PageName(p) = dir}
  OBVIOUS
<1>3. PICK q : q = CHOOSE x \in below : TRUE
  OBVIOUS
<1>4. Step(at, dir) = IF at.args # <<>> \/ below = {} THEN [at EXCEPT !.args = Append(@, dir)]
                      ELSE [at EXCEPT !.page = q, !.path = Append(@, q),
                                      !.style = IF PageStyle(q) # Nowhere THEN PageStyle(q) ELSE @]
  BY <1>2, <1>3 DEF Step
<1>5. PICK p, path, args, s : at = [page |-> p, path |-> path, args |-> args, style |-> s]
                              /\ p \in Page /\ path \in Seq(Page) /\ args \in Seq(Name) /\ s \in Style \cup {Nowhere}
  BY <1>1 DEF Route
<1>6. at.page = p /\ at.style = s /\ at.args = args
  BY <1>5
<1>7. CASE args # <<>> \/ below = {}
  <2>1. Step(at, dir) = [page |-> p, path |-> path, args |-> Append(args, dir), style |-> s]
    BY <1>4, <1>5, <1>6, <1>7
  <2>2. Append(args, dir) \in Seq(Name)
    BY <1>5
  <2>3. Step(at, dir) \in Route
    BY <1>5, <2>1, <2>2 DEF Route
  <2>4. Step(at, dir).page = p /\ Step(at, dir).style = s
    BY <2>1
  <2> QED
    BY <1>1, <1>6, <2>3, <2>4 DEF Routed
<1>8. CASE ~ (args # <<>> \/ below = {})
  <2>1. q \in Page /\ PageUp(q) = p
    BY <1>2, <1>3, <1>6, <1>8
  <2>2. PICK t : t = StyleOn(h, q)
    OBVIOUS
  <2>3. OnHost(h, q) /\ t = IF PageStyle(q) # Nowhere THEN PageStyle(q) ELSE s
    BY <1>1, <1>5, <1>6, <2>1, <2>2, StyleBelow
  <2>4. t \in Style \cup {Nowhere}
    BY <2>1, <2>2, <2>3, StyleOnType
  <2>5. Step(at, dir) = [page |-> q, path |-> Append(path, q), args |-> args, style |-> t]
    BY <1>4, <1>5, <1>6, <1>8, <2>3
  <2>6. Append(path, q) \in Seq(Page)
    BY <1>5, <2>1
  <2>7. Step(at, dir) \in Route
    BY <1>5, <2>1, <2>4, <2>5, <2>6 DEF Route
  <2>8. Step(at, dir).page = q /\ Step(at, dir).style = t
    BY <2>5
  <2> QED
    BY <2>2, <2>3, <2>7, <2>8 DEF Routed
<1> QED
  BY <1>7, <1>8

LEMMA PathRoutes ==
  ASSUME NEW h \in Hosts, NEW dirs \in Seq(Name)
  PROVE  Routed(h, ParseUri(h, dirs).end)
PROOF
<1>1. PICK N \in Nat : N = Len(dirs)
  BY LenProperties
<1>2. \A n \in 1..N : dirs[n] \in Name
  BY <1>1, ElementOfSeq
<1> DEFINE S == {at \in Route : Routed(h, at)}
<1>3. PICK root : root = Root(h)
  OBVIOUS
<1>4. root \in S
  BY <1>3, RootRoutes DEF Routed
<1>5. \A at \in S, n \in 1..N : Step(at, dirs[n]) \in S
  <2>1. ASSUME NEW at \in S, NEW n \in 1..N PROVE Routed(h, Step(at, dirs[n]))
    BY <1>2, StepRoutes
  <2> QED
    BY <2>1 DEF Routed
<1>6. PICK next : next = [x \in S \X (1..N) |-> Step(x[1], dirs[x[2]])]
  OBVIOUS
<1> HIDE DEF S
<1>7. next \in [S \X (1..N) -> S] /\ \A at \in S, n \in 1..N : next[<<at, n>>] = Step(at, dirs[n])
  BY <1>5, <1>6
<1>8. Stepping(S, N, root, next)
  BY <1>4, <1>7 DEF Stepping
<1>9. PICK f : IsRun(f, S, N, root, next)
  BY <1>8, RunExists
<1>10. f \in [0..N -> S] /\ f[0] = root /\ \A n \in 1..N : f[n] = next[<<f[n - 1], n>>]
  BY <1>9 DEF IsRun
<1>11. \A n \in 1..N : f[n] = Step(f[n - 1], dirs[n])
  <2>1. \A n \in 1..N : n - 1 \in 0..N
    OBVIOUS
  <2> QED
    BY <1>7, <1>10, <2>1
<1>12. f = [n \in 0..N |-> IF n = 0 THEN root ELSE Step(f[n - 1], dirs[n])]
  <2>1. \A n \in 0..N : n = 0 \/ n \in 1..N
    OBVIOUS
  <2>2. \A n \in 1..N : n # 0
    OBVIOUS
  <2> QED
    BY <1>10, <1>11, <2>1, <2>2
<1>13. PICK after : after = CHOOSE g : g = [n \in 0..N |-> IF n = 0 THEN root ELSE Step(g[n - 1], dirs[n])]
  OBVIOUS
<1>14. after = [n \in 0..N |-> IF n = 0 THEN root ELSE Step(after[n - 1], dirs[n])]
  BY <1>12, <1>13
<1>15. ParseUri(h, dirs).end = after[N]
  <2>1. ParseUri(h, dirs) = [end |-> after[N], found |-> after[N].args = <<>> \/ PageActive(after[N].page)]
    BY <1>1, <1>3, <1>13 DEF ParseUri, Root
  <2> QED
    BY <2>1
<1> DEFINE bad == {n \in Nat : n <= N /\ after[n] \notin S}
<1>16. bad = {}
  <2>1. SUFFICES ASSUME bad # {} PROVE FALSE
    OBVIOUS
  <2>2. PICK m \in bad : \A k \in bad : m <= k
    BY <2>1, LeastOf
  <2>3. m \in 0..N /\ m <= N
    OBVIOUS
  <2>4. m # 0
    BY <1>4, <1>14, <2>2, <2>3
  <2>5. after[m] = Step(after[m - 1], dirs[m])
    BY <1>14, <2>3, <2>4
  <2>6. m - 1 \in Nat /\ m - 1 <= N /\ ~ (m <= m - 1) /\ m \in 1..N
    BY <2>3, <2>4
  <2>7. after[m - 1] \in S
    BY <2>2, <2>6
  <2> QED
    BY <1>5, <2>2, <2>5, <2>6, <2>7
<1>17. after[N] \in S
  BY <1>16
<1> QED
  BY <1>15, <1>17 DEF S

-----------------------------------------------------------------------------
(* What is read from the cache: when the rows of a page name an element only,  *)
(* all they name that is where it was.                                         *)
Joined(p) ==
  {e \in Element : /\ element[e].live
                   /\ \E r \in cache : r.page = p /\ r.id = e /\ (e \in StyleElement => r.style = element[e].at)}

LEMMA CachedSelectsAre ==
  ASSUME NEW lang \in Lang
  PROVE  /\ CachedSelects(lang) \in Seq(Selection) /\ Len(CachedSelects(lang)) \in Nat
         /\ \A kind \in {"style", "page"} : \E i \in 1..Len(CachedSelects(lang)) :
              CachedSelects(lang)[i].kind = kind /\ CachedSelects(lang)[i].lang = 0
PROOF
<1>1. PICK a, b, c, d :
        /\ a = [kind |-> "style", lang |-> 0] /\ b = [kind |-> "style", lang |-> 1]
        /\ c = [kind |-> "page", lang |-> 0] /\ d = [kind |-> "page", lang |-> 1]
  OBVIOUS
<1>2. a \in Selection /\ b \in Selection /\ c \in Selection /\ d \in Selection
  BY <1>1 DEF Selection
<1>3. a.kind = "style" /\ a.lang = 0 /\ c.kind = "page" /\ c.lang = 0
  BY <1>1
<1>4. lang \in {0, 1}
  BY SiteAssumption
<1>5. CASE lang = 0
  <2>1. PICK x, y : x = <<a>> /\ y = <<c>>
    OBVIOUS
  <2>2. CachedSelects(lang) = x \o y
    BY <1>1, <1>5, <2>1 DEF CachedSelects
  <2>3. x \in Seq(Selection) /\ y \in Seq(Selection) /\ Len(x) = 1 /\ Len(y) = 1 /\ x[1] = a /\ y[1] = c
    BY <1>2, <2>1
  <2>4. x \o y \in Seq(Selection) /\ Len(x \o y) = 2 /\ (x \o y)[1] = a /\ (x \o y)[2] = c
    <3>1. /\ x \o y \in Seq(Selection) /\ Len(x \o y) = Len(x) + Len(y)
          /\ \A i \in 1..(Len(x) + Len(y)) : (x \o y)[i] = IF i <= Len(x) THEN x[i] ELSE y[i - Len(x)]
      BY <2>3, ConcatProperties
    <3>2. \A i \in 1..2 : (x \o y)[i] = IF i <= 1 THEN x[i] ELSE y[i - 1]
      BY <2>3, <3>1
    <3> QED
      BY <2>3, <3>1, <3>2
  <2>5. 1 \in 1..2 /\ 2 \in 1..2 /\ 2 \in Nat
    OBVIOUS
  <2> QED
    BY <1>3, <2>2, <2>4, <2>5
<1>6. CASE lang = 1
  <2>1. PICK x, y : x = <<a, b>> /\ y = <<c, d>>
    OBVIOUS
  <2>2. CachedSelects(lang) = x \o y
    BY <1>1, <1>6, <2>1 DEF CachedSelects
  <2>3. x \in Seq(Selection) /\ y \in Seq(Selection) /\ Len(x) = 2 /\ Len(y) = 2 /\ x[1] = a /\ y[1] = c
    BY <1>2, <2>1
  <2>4. x \o y \in Seq(Selection) /\ Len(x \o y) = 4 /\ (x \o y)[1] = a /\ (x \o y)[3] = c
    <3>1. /\ x \o y \in Seq(Selection) /\ Len(x \o y) = Len(x) + Len(y)
          /\ \A i \in 1..(Len(x) + Len(y)) : (x \o y)[i] = IF i <= Len(x) THEN x[i] ELSE y[i - Len(x)]
      BY <2>3, ConcatProperties
    <3>2. \A i \in 1..4 : (x \o y)[i] = IF i <= 2 THEN x[i] ELSE y[i - 2]
      BY <2>3, <3>1
    <3> QED
      BY <2>3, <3>1, <3>2
  <2>5. 1 \in 1..4 /\ 3 \in 1..4 /\ 4 \in Nat
    OBVIOUS
  <2> QED
    BY <1>3, <2>2, <2>4, <2>5
<1> QED
  BY <1>4, <1>5, <1>6

LEMMA CacheIsJoined ==
  ASSUME NEW p \in Page, NEW lang \in Lang,
         \A e, f \in Joined(p) : ElementName(e) = ElementName(f) => e = f
  PROVE  FromCache(p, lang) = Joined(p)
PROOF
<1>1. PICK sels : sels = CachedSelects(lang)
  OBVIOUS
<1>2. PICK N \in Nat : N = Len(sels)
  BY <1>1, CachedSelectsAre
<1>3. PICK J : J = Joined(p)
  OBVIOUS
<1>4. PICK rows : rows = [n \in 1..N |-> CachedRows(element, cache, p, sels[n])]
  OBVIOUS
<1>5. \A n \in 1..N : rows[n] \subseteq J
  <2>1. \A n \in 1..N : rows[n] = CachedRows(element, cache, p, sels[n])
    BY <1>4
  <2>2. \A sel : CachedRows(element, cache, p, sel) \subseteq J
    BY <1>3 DEF CachedRows, Joined, Element
  <2> QED
    BY <2>1, <2>2
<1>6. \A out \in SUBSET J, n \in 1..N : Replaced(out, rows[n]) = out \cup rows[n]
  <2> SUFFICES ASSUME NEW out \in SUBSET J, NEW n \in 1..N, NEW e \in out, ElementName(e) \in NamesOf(rows[n])
               PROVE  e \in rows[n]
    BY DEF Replaced
  <2>1. PICK f \in rows[n] : ElementName(f) = ElementName(e)
    BY DEF NamesOf
  <2>2. f \in J
    BY <1>5
  <2> QED
    BY <1>3, <2>1, <2>2
<1>7. PICK next : next = [x \in (SUBSET J) \X (1..N) |-> Replaced(x[1], rows[x[2]])]
  OBVIOUS
<1>8. \A out \in SUBSET J, n \in 1..N : next[<<out, n>>] = Replaced(out, rows[n])
  BY <1>7
<1>9. next \in [(SUBSET J) \X (1..N) -> SUBSET J]
  <2>1. \A out \in SUBSET J, n \in 1..N : Replaced(out, rows[n]) \in SUBSET J
    BY <1>5, <1>6
  <2> QED
    BY <1>7, <2>1
<1>10. Stepping(SUBSET J, N, {}, next)
  BY <1>9 DEF Stepping
<1>11. PICK f : IsRun(f, SUBSET J, N, {}, next)
  BY <1>10, RunExists
<1>12. f \in [0..N -> SUBSET J] /\ f[0] = {} /\ \A n \in 1..N : f[n] = next[<<f[n - 1], n>>]
  BY <1>11 DEF IsRun
<1>13. \A n \in 1..N : f[n] = Replaced(f[n - 1], CachedRows(element, cache, p, sels[n]))
  <2>1. \A n \in 1..N : n - 1 \in 0..N
    OBVIOUS
  <2>2. \A n \in 1..N : f[n] = Replaced(f[n - 1], rows[n])
    BY <1>8, <1>12, <2>1
  <2>3. \A n \in 1..N : rows[n] = CachedRows(element, cache, p, sels[n])
    BY <1>4
  <2> QED
    BY <2>2, <2>3
<1>14. f = [n \in 0..N |-> IF n = 0 THEN {} ELSE Replaced(f[n - 1], CachedRows(element, cache, p, sels[n]))]
  <2>1. \A n \in 0..N : n = 0 \/ n \in 1..N
    OBVIOUS
  <2>2. \A n \in 1..N : n # 0
    OBVIOUS
  <2> QED
    BY <1>12, <1>13, <2>1, <2>2
<1>15. PICK out : out = CHOOSE g : g = [n \in 0..N |-> IF n = 0 THEN {}
                          ELSE Replaced(g[n - 1], CachedRows(element, cache, p, sels[n]))]
  OBVIOUS
<1>16. out = [n \in 0..N |-> IF n = 0 THEN {} ELSE Replaced(out[n - 1], CachedRows(element, cache, p, sels[n]))]
  BY <1>14, <1>15
<1>17. FromCache(p, lang) = out[N]
  BY <1>1, <1>2, <1>15 DEF FromCache
<1>18. out[0] = {} /\ \A n \in 1..N : out[n] = Replaced(out[n - 1], rows[n])
  <2>1. 0 \in 0..N /\ \A n \in 1..N : n \in 0..N /\ n # 0
    OBVIOUS
  <2>2. \A n \in 1..N : rows[n] = CachedRows(element, cache, p, sels[n])
    BY <1>4
  <2> QED
    BY <1>16, <2>1, <2>2
<1> DEFINE All(n) == UNION {rows[i] : i \in 1..n}
           bad == {n \in Nat : n <= N /\ out[n] # All(n)}
<1>19. bad = {}
  <2>1. SUFFICES ASSUME bad # {} PROVE FALSE
    OBVIOUS
  <2>2. PICK m \in bad : \A k \in bad : m <= k
    BY <2>1, LeastOf
  <2>3. m \in Nat /\ m <= N /\ out[m] # All(m)
    BY <2>2
  <2>4. m # 0
    BY <1>18, <2>3
  <2>5. m - 1 \in Nat /\ m - 1 <= N /\ ~ (m <= m - 1) /\ m \in 1..N
    BY <2>3, <2>4
  <2>6. out[m - 1] = All(m - 1)
    BY <2>2, <2>5
  <2>7. \A i \in 1..(m - 1) : i \in 1..N
    BY <2>5
  <2>8. All(m - 1) \in SUBSET J
    BY <1>5, <2>7
  <2>9. out[m] = All(m - 1) \cup rows[m]
    BY <1>6, <1>18, <2>5, <2>6, <2>8
  <2>10. \A i : i \in 1..m <=> i \in 1..(m - 1) \/ i = m
    BY <2>5
  <2>11. All(m) = All(m - 1) \cup rows[m]
    BY <2>10
  <2> QED
    BY <2>3, <2>9, <2>11
<1>20. out[N] = All(N)
  BY <1>19
<1>21. ASSUME NEW e \in J PROVE e \in All(N)
  <2>1. PICK kind \in {"style", "page"} : e \in IF kind = "style" THEN StyleElement ELSE PageElement
    <3>1. e \in StyleElement \/ e \in PageElement
      BY <1>3 DEF Joined, Element
    <3>2. "style" # "page"
      OBVIOUS
    <3> QED
      BY <3>1, <3>2
  <2>2. PICK i \in 1..N : sels[i].kind = kind /\ sels[i].lang = 0
    BY <1>1, <1>2, CachedSelectsAre
  <2>3. e \in CachedRows(element, cache, p, sels[i])
    BY <1>3, <2>1, <2>2 DEF CachedRows, Joined, Has
  <2> QED
    BY <1>4, <2>3
<1>22. All(N) \subseteq J
  BY <1>5
<1> QED
  BY <1>3, <1>17, <1>20, <1>21, <1>22

-----------------------------------------------------------------------------
(* A load, SELECT by SELECT.                                                   *)
LEMMA HostOfIs == ASSUME NEW h \in Hosts PROVE HostOf(h.id) = h
PROOF
<1>1. PICK k : k = HostOf(h.id)
  OBVIOUS
<1>2. k \in Hosts /\ k.id = h.id
  BY <1>1 DEF HostOf
<1> QED
  BY <1>1, <1>2, HostAssumption

LEMMA RenderingIs ==
  ASSUME NEW r \in Rendering
  PROVE  /\ r.at \in {"select", "add", "cached"} /\ r.page \in Page /\ r.host \in HostId /\ r.lang \in Lang
         /\ r.out \subseteq Element /\ r.add \subseteq Element
         /\ r.level \in Page \cup Style \cup {Nowhere} /\ r.todo \in Seq(Selection)
         /\ r = [at |-> r.at, page |-> r.page, host |-> r.host, lang |-> r.lang, out |-> r.out,
                 add |-> r.add, level |-> r.level, todo |-> r.todo]
         /\ r # Ready
PROOF
<1>1. r # Ready
  BY ReadyAssumption
<1> QED
  BY <1>1 DEF Rendering, HostId

LEMMA RenderingOf ==
  ASSUME NEW at \in {"select", "add", "cached"}, NEW page \in Page, NEW host \in HostId, NEW lang \in Lang,
         NEW out \in SUBSET Element, NEW add \in SUBSET Element, NEW level \in Page \cup Style \cup {Nowhere},
         NEW todo \in Seq(Selection)
  PROVE  [at |-> at, page |-> page, host |-> host, lang |-> lang, out |-> out, add |-> add,
          level |-> level, todo |-> todo] \in Rendering
PROOF
  BY DEF Rendering, HostId

LEMMA SelectsOn ==
  ASSUME NEW h \in Hosts, NEW p \in Page, OnHost(h, p), NEW lang \in Lang
  PROVE  LET sels == Selects(p, StyleOn(h, p), lang)
         IN  /\ sels \in Seq(Selection) /\ Len(sels) \in Nat
             /\ \A i \in 1..Len(sels) : sels[i].level \in Level
             /\ NamesDiffer => First(element, sels, Len(sels)) = Chosen(h, p)
PROOF
<1>1. PICK s : s = StyleOn(h, p)
  OBVIOUS
<1>2. s \in Style \cup {Nowhere}
  BY <1>1, StyleOnType
<1>3. PICK sels, ls : sels = Selects(p, s, lang) /\ ls = Levels(p, s)
  OBVIOUS
<1>4. ls \in Seq(Level) /\ Len(ls) \in Nat
  BY <1>2, <1>3, LevelsType
<1>5. sels \in Seq(Selection) /\ Len(sels) \in Nat /\ \E at : Orderly(sels, ls, at)
  BY <1>2, <1>3, SelectsAre
<1>6. PICK at : Orderly(sels, ls, at)
  BY <1>5
<1>7. ASSUME NamesDiffer PROVE First(element, sels, Len(sels)) = Chosen(h, p)
  <2>1. First(element, sels, Len(sels)) = ChosenOn(ls)
    BY <1>4, <1>5, <1>6, <1>7, FirstIsChosen
  <2>2. Chosen(h, p) = ChosenOn(ls)
    BY <1>1, <1>3, ChosenIs
  <2> QED
    BY <2>1, <2>2
<1>8. \A i \in 1..Len(sels) : sels[i].level \in Level
  <2>1. \A i \in 1..Len(sels) : sels[i].level = ls[at[i]] /\ at[i] \in 1..Len(ls)
    BY <1>6 DEF Orderly
  <2>2. \A i \in 1..Len(ls) : ls[i] \in Level
    BY <1>4, ElementOfSeq
  <2> QED
    BY <2>1, <2>2
<1> QED
  BY <1>1, <1>3, <1>5, <1>7, <1>8

LEMMA FirstWithin ==
  ASSUME NEW tab, NEW sels, NEW n \in Nat, NEW k \in 0..n
  PROVE  First(tab, sels, k) \subseteq First(tab, sels, n)
PROOF
<1>1. \A j \in 1..k : j \in 1..n
  OBVIOUS
<1> QED
  BY <1>1 DEF First

LEMMA RowsStay ==
  ASSUME NEW tab, NEW rows, NEW more, rows \subseteq more, NEW r, OnCourse(tab, rows, r)
  PROVE  OnCourse(tab, more, r)
PROOF
<1>1. \A e : RowIn(rows, r.page, r.host, e) => RowIn(more, r.page, r.host, e)
  BY DEF RowIn
<1> QED
  BY <1>1 DEF OnCourse

LEMMA LoadBegins ==
  ASSUME NEW h \in Hosts, NEW p \in Page, OnHost(h, p), NEW lang \in Lang, NEW rows, NEW tab
  PROVE  OnCourse(tab, rows,
                  [at |-> "select", page |-> p, host |-> h.id, lang |-> lang, out |-> {}, add |-> {},
                   level |-> Nowhere, todo |-> Selects(p, StyleOn(h, p), lang)])
PROOF
<1>1. PICK sels : sels = Selects(p, StyleOn(h, p), lang)
  OBVIOUS
<1>2. PICK r : r = [at |-> "select", page |-> p, host |-> h.id, lang |-> lang, out |-> {}, add |-> {},
                    level |-> Nowhere, todo |-> sels]
  OBVIOUS
<1>3. r.at = "select" /\ r.page = p /\ r.host = h.id /\ r.lang = lang /\ r.out = {} /\ r.todo = sels
  BY <1>2
<1>4. SelectsOf(h, r) = sels
  BY <1>1, <1>3 DEF SelectsOf
<1>5. Len(sels) \in Nat
  BY <1>1, SelectsOn
<1>6. \A i \in 1..Len(sels) : sels[i] = sels[0 + i]
  OBVIOUS
<1>7. 0 \in 0..Len(sels) /\ Len(sels) = Len(sels) - 0
  BY <1>5
<1>8. r.out = First(tab, sels, 0)
  BY <1>3, FirstEmpty
<1>9. "select" # "add"
  OBVIOUS
<1>10. Come(tab, h, 0, r)
  BY <1>3, <1>4, <1>6, <1>7, <1>8, <1>9 DEF Come
<1>11. 0 \in Nat
  OBVIOUS
<1>12. OnCourse(tab, rows, r)
  BY <1>3, <1>10, <1>11 DEF OnCourse
<1> QED
  BY <1>1, <1>2, <1>12

LEMMA TailIs ==
  ASSUME NEW s \in Seq(Selection), s # <<>>
  PROVE  /\ Head(s) = s[1] /\ Len(s) \in Nat \ {0} /\ Tail(s) \in Seq(Selection) /\ Len(Tail(s)) = Len(s) - 1
         /\ \A i \in 1..(Len(s) - 1) : Tail(s)[i] = s[i + 1]
PROOF
  BY HeadTailProperties, LenProperties, EmptySeq

LEMMA LoadSelects ==
  ASSUME NamesDiffer, NEW rows, NEW r \in Rendering, r.at = "select", r.todo # <<>>, OnCourse(element, rows, r),
         NEW es, es \subseteq {e \in Rows(element, Head(r.todo)) : ElementName(e) \notin NamesOf(r.out)},
         NamesOf(es) = NamesOf({e \in Rows(element, Head(r.todo)) : ElementName(e) \notin NamesOf(r.out)})
  PROVE  OnCourse(element, rows,
                  [r EXCEPT !.at = "add", !.level = Head(r.todo).level.from, !.add = es, !.todo = Tail(@)])
PROOF
<1>1. PICK q : q = [r EXCEPT !.at = "add", !.level = Head(r.todo).level.from, !.add = es, !.todo = Tail(@)]
  OBVIOUS
<1>2. /\ q.at = "add" /\ q.page = r.page /\ q.host = r.host /\ q.lang = r.lang /\ q.out = r.out
      /\ q.add = es /\ q.level = Head(r.todo).level.from /\ q.todo = Tail(r.todo)
  BY <1>1 DEF Rendering
<1>3. PICK h \in Hosts, k \in Nat : Come(element, h, k, r)
  BY DEF OnCourse
<1>4. PICK sels : sels = SelectsOf(h, r)
  OBVIOUS
<1>5. /\ h.id = r.host /\ OnHost(h, r.page) /\ k \in 0..Len(sels)
      /\ Len(r.todo) = Len(sels) - k
      /\ \A i \in 1..Len(r.todo) : r.todo[i] = sels[k + i]
      /\ r.out = First(element, sels, k)
  BY <1>3, <1>4 DEF Come
<1>6. SelectsOf(h, q) = sels
  BY <1>2, <1>4 DEF SelectsOf
<1>7. Len(sels) \in Nat
  BY <1>4, <1>5, SelectsOn, RenderingIs DEF SelectsOf
<1>8. /\ Head(r.todo) = r.todo[1] /\ Len(r.todo) \in Nat \ {0} /\ Len(q.todo) = Len(r.todo) - 1
      /\ \A i \in 1..(Len(r.todo) - 1) : q.todo[i] = r.todo[i + 1]
  BY <1>2, TailIs, RenderingIs
<1>9. Head(r.todo) = sels[k + 1]
  BY <1>5, <1>8
<1>10. PICK new : new = {e \in Rows(element, sels[k + 1]) : ElementName(e) \notin NamesOf(First(element, sels, k))}
  OBVIOUS
<1>11. es \subseteq new /\ NamesOf(es) = NamesOf(new)
  BY <1>5, <1>9, <1>10
<1>12. new \subseteq es
  <2> SUFFICES ASSUME NEW e \in new PROVE e \in es
    OBVIOUS
  <2>1. PICK f \in es : ElementName(f) = ElementName(e)
    BY <1>11 DEF NamesOf
  <2>2. PICK sel : e \in Rows(element, sel) /\ f \in Rows(element, sel)
    BY <1>10, <1>11, <2>1
  <2>3. sel.level = sel.level
    OBVIOUS
  <2>4. e = f
    BY <2>1, <2>2, <2>3, SameLevel
  <2> QED
    BY <2>1, <2>4
<1>13. First(element, sels, k + 1) = First(element, sels, k) \cup new
  BY <1>10, FirstGrows
<1>14. q.out \cup q.add = First(element, sels, k + 1)
  BY <1>2, <1>5, <1>11, <1>12, <1>13
<1>15. q.add \subseteq Rows(element, sels[k + 1]) /\ q.level = sels[k + 1].level.from
  BY <1>2, <1>9, <1>10, <1>11
<1>16. k + 1 \in 0..Len(sels) /\ k + 1 # 0 /\ Len(q.todo) = Len(sels) - (k + 1)
  BY <1>5, <1>7, <1>8
<1>17. \A i \in 1..Len(q.todo) : q.todo[i] = sels[(k + 1) + i]
  <2>1. \A i \in 1..Len(q.todo) : i \in 1..(Len(r.todo) - 1) /\ i + 1 \in 1..Len(r.todo) /\ k + (i + 1) = (k + 1) + i
    BY <1>8
  <2> QED
    BY <1>5, <1>8, <2>1
<1>18. "select" # "add"
  OBVIOUS
<1>19. Come(element, h, k + 1, q)
  BY <1>2, <1>5, <1>6, <1>14, <1>15, <1>16, <1>17, <1>18 DEF Come
<1>20. \A e \in q.out : RowIn(rows, q.page, q.host, e)
  BY <1>2 DEF OnCourse
<1>21. OnCourse(element, rows, q)
  BY <1>19, <1>20 DEF OnCourse
<1> QED
  BY <1>1, <1>21

LEMMA LoadAdds ==
  ASSUME NEW rows, NEW more, rows \subseteq more, NEW r \in Rendering, r.at = "add", OnCourse(element, rows, r),
         NEW e \in r.add, RowIn(more, r.page, r.host, e)
  PROVE  OnCourse(element, more, [r EXCEPT !.add = @ \ {e}, !.out = @ \cup {e}])
PROOF
<1>1. PICK q : q = [r EXCEPT !.add = @ \ {e}, !.out = @ \cup {e}]
  OBVIOUS
<1>2. /\ q.at = r.at /\ q.page = r.page /\ q.host = r.host /\ q.lang = r.lang /\ q.out = r.out \cup {e}
      /\ q.add = r.add \ {e} /\ q.level = r.level /\ q.todo = r.todo
  BY <1>1 DEF Rendering
<1>3. PICK h \in Hosts, k \in Nat : Come(element, h, k, r)
  BY DEF OnCourse
<1>4. SelectsOf(h, q) = SelectsOf(h, r)
  BY <1>2 DEF SelectsOf
<1>5. q.out \cup q.add = r.out \cup r.add /\ q.add \subseteq r.add
  BY <1>2
<1>6. "select" # "add"
  OBVIOUS
<1>7. Come(element, h, k, q)
  BY <1>2, <1>3, <1>4, <1>5, <1>6 DEF Come
<1>8. \A f \in q.out : RowIn(more, q.page, q.host, f)
  BY <1>2, RowsStay DEF OnCourse
<1>9. OnCourse(element, more, q)
  BY <1>7, <1>8 DEF OnCourse
<1> QED
  BY <1>1, <1>9

LEMMA LoadHasAdded ==
  ASSUME NEW rows, NEW r \in Rendering, r.at = "add", OnCourse(element, rows, r), r.add = {}
  PROVE  OnCourse(element, rows, [r EXCEPT !.at = "select", !.level = Nowhere])
PROOF
<1>1. PICK q : q = [r EXCEPT !.at = "select", !.level = Nowhere]
  OBVIOUS
<1>2. /\ q.at = "select" /\ q.page = r.page /\ q.host = r.host /\ q.lang = r.lang /\ q.out = r.out
      /\ q.add = r.add /\ q.todo = r.todo
  BY <1>1 DEF Rendering
<1>3. PICK h \in Hosts, k \in Nat : Come(element, h, k, r)
  BY DEF OnCourse
<1>4. SelectsOf(h, q) = SelectsOf(h, r)
  BY <1>2 DEF SelectsOf
<1>5. "select" # "add"
  OBVIOUS
<1>6. r.out = First(element, SelectsOf(h, r), k)
  BY <1>3 DEF Come
<1>7. Come(element, h, k, q)
  BY <1>2, <1>3, <1>4, <1>5, <1>6 DEF Come
<1>8. OnCourse(element, rows, q)
  BY <1>2, <1>7 DEF OnCourse
<1> QED
  BY <1>1, <1>8

LEMMA LoadFinds ==
  ASSUME NamesDiffer, NEW rows, NEW r \in Rendering, r.at = "select", r.todo = <<>>, OnCourse(element, rows, r)
  PROVE  r.out = Chosen(HostOf(r.host), r.page)
PROOF
<1>1. PICK h \in Hosts, k \in Nat : Come(element, h, k, r)
  BY DEF OnCourse
<1>2. PICK sels : sels = SelectsOf(h, r)
  OBVIOUS
<1>3. /\ h.id = r.host /\ OnHost(h, r.page) /\ Len(r.todo) = Len(sels) - k
      /\ r.out = First(element, sels, k)
  BY <1>1, <1>2 DEF Come
<1>4. r.page \in Page /\ r.lang \in Lang
  BY RenderingIs
<1>5. Len(sels) \in Nat /\ First(element, sels, Len(sels)) = Chosen(h, r.page)
  BY <1>2, <1>3, <1>4, SelectsOn DEF SelectsOf
<1>6. k = Len(sels)
  BY <1>3, <1>5
<1>7. HostOf(r.host) = h
  BY <1>3, HostOfIs
<1> QED
  BY <1>3, <1>5, <1>6, <1>7

LEMMA LoadChooses ==
  ASSUME NamesDiffer, NEW rows, NEW r \in Rendering, r.at = "add", OnCourse(element, rows, r), NEW e \in r.add
  PROVE  /\ OnHost(HostOf(r.host), r.page) /\ e \in Chosen(HostOf(r.host), r.page)
         /\ r.level = element[e].at
PROOF
<1>1. PICK h \in Hosts, k \in Nat : Come(element, h, k, r)
  BY DEF OnCourse
<1>2. PICK sels : sels = SelectsOf(h, r)
  OBVIOUS
<1>3. /\ h.id = r.host /\ OnHost(h, r.page) /\ k \in 0..Len(sels)
      /\ r.out \cup r.add = First(element, sels, k)
      /\ r.add \subseteq Rows(element, sels[k]) /\ r.level = sels[k].level.from
  BY <1>1, <1>2 DEF Come
<1>4. r.page \in Page /\ r.lang \in Lang
  BY RenderingIs
<1>5. Len(sels) \in Nat /\ First(element, sels, Len(sels)) = Chosen(h, r.page)
  BY <1>2, <1>3, <1>4, SelectsOn DEF SelectsOf
<1>6. First(element, sels, k) \subseteq First(element, sels, Len(sels))
  BY <1>3, <1>5, FirstWithin
<1>7. HostOf(r.host) = h
  BY <1>3, HostOfIs
<1>8. element[e].at = sels[k].level.from
  BY <1>3 DEF Rows
<1> QED
  BY <1>3, <1>5, <1>6, <1>7, <1>8

-----------------------------------------------------------------------------
(* The steps of a rendering: the elements stay, rows are added, and what is    *)
(* no longer loaded is complete.                                               *)
LEMMA ElementsStay ==
  ASSUME element' = element
  PROVE  /\ \A h, p : Chosen(h, p)' = Chosen(h, p)
         /\ NamesDiffer => NamesDiffer'
         /\ \A r : IsChosen(r) => IsChosen(r)'
PROOF
<1>1. \A h, p : Chosen(h, p)' = Chosen(h, p)
  BY DEF Chosen, Rows
<1>2. NamesDiffer => NamesDiffer'
  BY DEF NamesDiffer
<1>3. \A r : IsChosen(r) => IsChosen(r)'
  BY <1>1 DEF IsChosen
<1> QED
  BY <1>1, <1>2, <1>3

LEMMA OneRenders ==
  ASSUME PageType, NEW c \in Client, NEW r, rendering' = [rendering EXCEPT ![c] = r]
  PROVE  /\ rendering'[c] = r /\ \A d \in Client \ {c} : rendering'[d] = rendering[d]
         /\ Loading(c)' <=> r # Ready /\ r.at \in {"select", "add"}
         /\ \A d \in Client \ {c} : Loading(d)' <=> Loading(d)
PROOF
<1>1. rendering'[c] = r /\ \A d \in Client \ {c} : rendering'[d] = rendering[d]
  BY DEF PageType
<1> QED
  BY <1>1 DEF Loading

LEMMA RenderingStep ==
  ASSUME PageInv, NEW c \in Client, NEW r \in Rendering \cup {Ready}, rendering' = [rendering EXCEPT ![c] = r],
         element' = element, suspect \subseteq suspect', suspect' \subseteq Page,
         cache \subseteq cache', cache' \subseteq Row,
         r # Ready /\ r.at \in {"select", "add"} =>
           /\ \A i \in 1..Len(r.todo) : r.todo[i].level \in Level
           /\ r.page \notin suspect' => OnCourse(element, cache', r),
         \A q \in cache' \ cache : q.page \notin suspect' => IsChosen(q) /\ LoadedFor(q.page, q.host)',
         \A q \in cache : q.page \notin suspect' /\ LoadedFor(q.page, q.host) /\ ~ LoadedFor(q.page, q.host)'
           => IsComplete(cache', q.page, q.host)
  PROVE  PageInv'
PROOF
<1>1. PageType /\ NamesDiffer /\ LoadsSelect /\ LoadsOnCourse /\ RowsAreChosen /\ RowsAreComplete
  BY DEF PageInv
<1>2. /\ rendering'[c] = r /\ \A d \in Client \ {c} : rendering'[d] = rendering[d]
      /\ Loading(c)' <=> r # Ready /\ r.at \in {"select", "add"}
      /\ \A d \in Client \ {c} : Loading(d)' <=> Loading(d)
  BY <1>1, OneRenders
<1>3. PageType'
  BY <1>1 DEF PageType
<1>4. NamesDiffer'
  BY <1>1, ElementsStay
<1>5. LoadsSelect'
  BY <1>1, <1>2 DEF LoadsSelect
<1>6. LoadsOnCourse'
  <2> SUFFICES ASSUME NEW d \in Client, Loading(d)', rendering'[d].page \notin suspect'
               PROVE  OnCourse(element, cache', rendering'[d])
    BY DEF LoadsOnCourse
  <2>1. CASE d = c
    BY <1>2, <2>1
  <2>2. CASE d # c
    <3>1. PICK s : s = rendering[d]
      OBVIOUS
    <3>2. OnCourse(element, cache, s)
      BY <1>1, <1>2, <2>2, <3>1 DEF LoadsOnCourse
    <3>3. PICK more : more = cache'
      OBVIOUS
    <3>4. OnCourse(element, more, s)
      BY <3>2, <3>3, RowsStay
    <3> QED
      BY <1>2, <2>2, <3>1, <3>3, <3>4
  <2> QED
    BY <2>1, <2>2
<1>7. RowsAreChosen'
  <2> SUFFICES ASSUME NEW q \in cache', q.page \notin suspect' PROVE IsChosen(q)'
    BY DEF RowsAreChosen
  <2>1. IsChosen(q)
    BY <1>1 DEF RowsAreChosen
  <2> QED
    BY <2>1, ElementsStay
<1>8. RowsAreComplete'
  <2> SUFFICES ASSUME NEW q \in cache', q.page \notin suspect', ~ LoadedFor(q.page, q.host)'
               PROVE  IsComplete(cache, q.page, q.host)'
    BY DEF RowsAreComplete
  <2>1. q \in cache
    OBVIOUS
  <2>2. IsComplete(cache', q.page, q.host)
    <3>1. CASE LoadedFor(q.page, q.host)
      BY <2>1, <3>1
    <3>2. CASE ~ LoadedFor(q.page, q.host)
      <4>1. IsComplete(cache, q.page, q.host)
        BY <1>1, <2>1, <3>2 DEF RowsAreComplete
      <4> QED
        BY <4>1 DEF IsComplete, RowIn
    <3> QED
      BY <3>1, <3>2
  <2> QED
    BY <2>2, ElementsStay DEF IsComplete, RowIn
<1> QED
  BY <1>3, <1>4, <1>5, <1>6, <1>7, <1>8 DEF PageInv

(* Someone else's load, or this one's as long as it goes on.                   *)
LEMMA StillLoaded ==
  ASSUME PageType, NEW c \in Client, NEW r, rendering' = [rendering EXCEPT ![c] = r],
         Loading(c) => /\ r # Ready /\ r.at \in {"select", "add"}
                       /\ r.page = rendering[c].page /\ r.host = rendering[c].host,
         NEW p, NEW id, LoadedFor(p, id)
  PROVE  LoadedFor(p, id)'
PROOF
<1>1. /\ rendering'[c] = r /\ \A d \in Client \ {c} : rendering'[d] = rendering[d]
      /\ Loading(c)' <=> r # Ready /\ r.at \in {"select", "add"}
      /\ \A d \in Client \ {c} : Loading(d)' <=> Loading(d)
  BY OneRenders
<1>2. PICK d \in Client : Loading(d) /\ rendering[d].page = p /\ rendering[d].host = id
  BY DEF LoadedFor
<1>3. Loading(d)' /\ rendering'[d].page = p /\ rendering'[d].host = id
  BY <1>1, <1>2
<1> QED
  BY <1>3 DEF LoadedFor

LEMMA PageStarts == PageInit => PageInv
PROOF
<1> SUFFICES ASSUME PageInit PROVE PageInv
  OBVIOUS
<1>1. \A c \in Client : ~ Loading(c)
  BY DEF PageInit, Loading
<1>2. PageType
  <2>1. \A e \in Element : Place(e) \in Page \cup Style
    BY SiteAssumption
  <2> QED
    BY <2>1 DEF PageInit, PageType
<1>3. NamesDiffer
  BY SiteAssumption DEF PageInit, NamesDiffer
<1> QED
  BY <1>1, <1>2, <1>3 DEF PageInv, PageInit, LoadsSelect, LoadsOnCourse, RowsAreChosen, RowsAreComplete

LEMMA RequestKeeps == ASSUME PageInv, NEW c \in Client, Request(c) PROVE PageInv'
PROOF
<1>1. PageType
  BY DEF PageInv
<1> DEFINE Starts(dirs, lang, h) ==
        LET got == ParseUri(h, SubSeq(dirs, Len(h.prefix) + 1, Len(dirs)))
            p == got.end.page
            current == \E r \in cache : r.host = h.id /\ r.page = p /\ r.lang \in {lang, 0}
        IN  /\ got.found
            /\ Goto(c, [at |-> IF current THEN "cached" ELSE "select",
                        page |-> p, host |-> h.id, lang |-> lang,
                        out |-> {}, add |-> {}, level |-> Nowhere,
                        todo |-> IF current THEN CachedSelects(lang)
                                            ELSE Selects(p, got.end.style, lang)])
<1>2. PICK name \in HostName, port \in Port, dirs \in SeqOf(Name, 2), lang \in Lang :
         \E h \in FindHost(name, port, dirs) : Starts(dirs, lang, h)
  BY DEF Request
<1>3. PICK h \in FindHost(name, port, dirs) : Starts(dirs, lang, h)
  BY <1>2
<1>4. h \in Hosts
  BY <1>3 DEF FindHost, Matching
<1>5. PICK rest : rest = SubSeq(dirs, Len(h.prefix) + 1, Len(dirs))
  OBVIOUS
<1>6. rest \in Seq(Name)
  <2>1. dirs \in Seq(Name)
    <3>1. PICK m \in 0..2 : dirs \in [1..m -> Name]
      BY DEF SeqOf
    <3> QED
      BY <3>1, SeqDef
  <2>2. Len(dirs) \in Nat /\ Len(h.prefix) \in Nat /\ h.prefix \in Seq(Name)
    BY <1>4, <2>1, HostAssumption, LenProperties
  <2>3. \A i \in (Len(h.prefix) + 1)..Len(dirs) : dirs[i] \in Name
    <3>1. \A i \in (Len(h.prefix) + 1)..Len(dirs) : i \in 1..Len(dirs)
      BY <2>2
    <3> QED
      BY <2>1, <3>1, ElementOfSeq
  <2>4. Len(h.prefix) + 1 \in Int /\ Len(dirs) \in Int
    BY <2>2
  <2> QED
    BY <1>5, <2>3, <2>4, SubSeqProperties
<1>7. PICK end : end = ParseUri(h, rest).end
  OBVIOUS
<1>8. end \in Route /\ OnHost(h, end.page) /\ end.style = StyleOn(h, end.page)
  BY <1>4, <1>6, <1>7, PathRoutes DEF Routed
<1>9. PICK p \in Page : p = end.page
  BY <1>8 DEF Route
<1>10. PICK r : /\ Goto(c, r)
               /\ \/ r = [at |-> "cached", page |-> p, host |-> h.id, lang |-> lang, out |-> {}, add |-> {},
                          level |-> Nowhere, todo |-> CachedSelects(lang)]
                  \/ r = [at |-> "select", page |-> p, host |-> h.id, lang |-> lang, out |-> {}, add |-> {},
                          level |-> Nowhere, todo |-> Selects(p, StyleOn(h, p), lang)]
  BY <1>3, <1>5, <1>7, <1>8, <1>9
<1>11. h.id \in HostId
  BY <1>4 DEF HostId
<1>12. OnHost(h, p) /\ Selects(p, StyleOn(h, p), lang) \in Seq(Selection) /\ CachedSelects(lang) \in Seq(Selection)
  BY <1>4, <1>8, <1>9, SelectsOn, CachedSelectsAre
<1>13. r \in Rendering
  <2>1. {} \in SUBSET Element /\ "cached" \in {"select", "add", "cached"} /\ "select" \in {"select", "add", "cached"}
        /\ Nowhere \in Page \cup Style \cup {Nowhere}
    OBVIOUS
  <2>2. [at |-> "cached", page |-> p, host |-> h.id, lang |-> lang, out |-> {}, add |-> {},
         level |-> Nowhere, todo |-> CachedSelects(lang)] \in Rendering
    BY <1>11, <1>12, <2>1, RenderingOf
  <2>3. [at |-> "select", page |-> p, host |-> h.id, lang |-> lang, out |-> {}, add |-> {},
         level |-> Nowhere, todo |-> Selects(p, StyleOn(h, p), lang)] \in Rendering
    BY <1>11, <1>12, <2>1, RenderingOf
  <2> QED
    BY <1>10, <2>2, <2>3
<1>14. r.at \in {"select", "add"} => /\ r.todo = Selects(p, StyleOn(h, p), lang)
                                     /\ OnCourse(element, cache, r)
  BY <1>4, <1>10, <1>12, LoadBegins
<1>15. \A i \in 1..Len(Selects(p, StyleOn(h, p), lang)) : Selects(p, StyleOn(h, p), lang)[i].level \in Level
  BY <1>4, <1>12, SelectsOn
<1>16. rendering' = [rendering EXCEPT ![c] = r]
  BY <1>10 DEF Goto
<1>17. ~ Loading(c) /\ UNCHANGED <<element, cache, suspect>>
  BY DEF Request, Loading
<1>18. \A q \in cache : LoadedFor(q.page, q.host) => LoadedFor(q.page, q.host)'
  BY <1>1, <1>16, <1>17, StillLoaded
<1>19. suspect \subseteq Page /\ cache \subseteq Row
  BY <1>1 DEF PageType
<1> QED
  BY <1>13, <1>14, <1>15, <1>16, <1>17, <1>18, <1>19, RenderingStep

LEMMA SelectKeeps == ASSUME PageInv, NEW c \in Client, Select(c) PROVE PageInv'
PROOF
<1>1. PageType /\ NamesDiffer /\ LoadsSelect /\ LoadsOnCourse
  BY DEF PageInv
<1>2. PICK s : s = rendering[c]
  OBVIOUS
<1>3. s # Ready /\ s.at = "select" /\ s.todo # <<>> /\ Loading(c)
  BY <1>2 DEF Select, At, Loading
<1>4. s \in Rendering
  BY <1>1, <1>2, <1>3 DEF PageType
<1>5. s.todo \in Seq(Selection) /\ s.page \in Page /\ s.out \subseteq Element
  BY <1>4, RenderingIs
<1>6. PICK es : /\ es \subseteq {e \in Rows(element, Head(s.todo)) : ElementName(e) \notin NamesOf(s.out)}
                /\ NamesOf(es) = NamesOf({e \in Rows(element, Head(s.todo)) : ElementName(e) \notin NamesOf(s.out)})
                /\ Goto(c, [s EXCEPT !.at = "add", !.level = Head(s.todo).level.from,
                                     !.add = es, !.todo = Tail(@)])
  BY <1>2 DEF Select
<1>7. PICK r : r = [s EXCEPT !.at = "add", !.level = Head(s.todo).level.from, !.add = es, !.todo = Tail(@)]
  OBVIOUS
<1>8. rendering' = [rendering EXCEPT ![c] = r] /\ UNCHANGED <<element, cache, suspect>>
  BY <1>6, <1>7 DEF Select, Goto
<1>9. PICK level, todo : level = Head(s.todo).level.from /\ todo = Tail(s.todo)
  OBVIOUS
<1>10. /\ Head(s.todo) = s.todo[1] /\ Len(s.todo) \in Nat \ {0} /\ todo \in Seq(Selection)
       /\ Len(todo) = Len(s.todo) - 1 /\ \A i \in 1..(Len(s.todo) - 1) : todo[i] = s.todo[i + 1]
  BY <1>3, <1>5, <1>9, TailIs
<1>11. \A i \in 1..Len(s.todo) : s.todo[i].level \in Level
  BY <1>1, <1>2, <1>3 DEF LoadsSelect
<1>12. level \in Page \cup Style \cup {Nowhere}
  <2>1. Head(s.todo).level \in Level
    BY <1>10, <1>11
  <2>2. \A l \in Level : l.from \in Page \cup Style
    BY DEF Level
  <2> QED
    BY <1>9, <2>1, <2>2
<1>13. r = [at |-> "add", page |-> s.page, host |-> s.host, lang |-> s.lang, out |-> s.out, add |-> es,
            level |-> level, todo |-> todo]
  BY <1>4, <1>7, <1>9 DEF Rendering
<1>14. r \in Rendering /\ r # Ready
  <2>1. es \in SUBSET Element /\ "add" \in {"select", "add", "cached"}
    BY <1>6 DEF Rows
  <2>2. s.host \in HostId /\ s.lang \in Lang /\ s.out \in SUBSET Element
    BY <1>4, RenderingIs
  <2>3. r \in Rendering
    BY <1>5, <1>10, <1>12, <1>13, <2>1, <2>2, RenderingOf
  <2> QED
    BY <2>3, ReadyAssumption
<1>15. r.at = "add" /\ r.page = s.page /\ r.host = s.host /\ r.todo = todo
  BY <1>13
<1>16. \A i \in 1..Len(r.todo) : r.todo[i].level \in Level
  <2>1. \A i \in 1..Len(todo) : i \in 1..(Len(s.todo) - 1) /\ i + 1 \in 1..Len(s.todo)
    BY <1>10
  <2> QED
    BY <1>10, <1>11, <1>15, <2>1
<1>17. r.page \notin suspect' => OnCourse(element, cache', r)
  <2> SUFFICES ASSUME s.page \notin suspect PROVE OnCourse(element, cache, r)
    BY <1>8, <1>15
  <2>1. PICK rows, tab : rows = cache /\ tab = element
    OBVIOUS
  <2>2. OnCourse(element, cache, s)
    BY <1>1, <1>2, <1>3 DEF LoadsOnCourse
  <2>3. OnCourse(element, rows, s)
    BY <2>1, <2>2
  <2>4. OnCourse(element, rows, r)
    BY <1>1, <1>3, <1>4, <1>6, <1>7, <2>3, LoadSelects
  <2> QED
    BY <2>1, <2>4
<1>18. \A q \in cache : LoadedFor(q.page, q.host) => LoadedFor(q.page, q.host)'
  <2>1. "add" \in {"select", "add"}
    OBVIOUS
  <2> QED
    BY <1>1, <1>2, <1>8, <1>14, <1>15, <2>1, StillLoaded
<1>19. suspect \subseteq Page /\ cache \subseteq Row
  BY <1>1 DEF PageType
<1> QED
  BY <1>8, <1>14, <1>16, <1>17, <1>18, <1>19, RenderingStep

LEMMA AddKeeps == ASSUME PageInv, NEW c \in Client, Add(c) PROVE PageInv'
PROOF
<1>1. PageType /\ NamesDiffer /\ LoadsSelect /\ LoadsOnCourse
  BY DEF PageInv
<1>2. PICK s : s = rendering[c]
  OBVIOUS
<1>3. s # Ready /\ s.at = "add" /\ Loading(c) /\ UNCHANGED element
  BY <1>2 DEF Add, At, Loading
<1>4. s \in Rendering
  BY <1>1, <1>2, <1>3 DEF PageType
<1>5. /\ s.todo \in Seq(Selection) /\ s.page \in Page /\ s.out \subseteq Element /\ s.add \subseteq Element
      /\ s.host \in HostId /\ s.lang \in Lang /\ s.level \in Page \cup Style \cup {Nowhere}
  BY <1>4, RenderingIs
<1>6. suspect \subseteq Page /\ cache \subseteq Row
  BY <1>1 DEF PageType
<1>7. \A i \in 1..Len(s.todo) : s.todo[i].level \in Level
  BY <1>1, <1>2, <1>3 DEF LoadsSelect
<1>8. s.page \notin suspect => OnCourse(element, cache, s)
  BY <1>1, <1>2, <1>3 DEF LoadsOnCourse
<1>9. PICK rows : rows = cache
  OBVIOUS
<1>10. ASSUME NEW e \in s.add,
              cache' = cache \cup {[page |-> s.page, host |-> s.host, lang |-> s.lang, id |-> e,
                                    style |-> IF e \in StyleElement THEN s.level ELSE Nowhere]},
              UNCHANGED suspect,
              Goto(c, [s EXCEPT !.add = @ \ {e}, !.out = @ \cup {e}])
       PROVE  PageInv'
  <2>1. PICK q : q = [page |-> s.page, host |-> s.host, lang |-> s.lang, id |-> e,
                      style |-> IF e \in StyleElement THEN s.level ELSE Nowhere]
    OBVIOUS
  <2>2. /\ q.page = s.page /\ q.host = s.host /\ q.id = e /\ (e \in StyleElement => q.style = s.level)
        /\ cache' = cache \cup {q}
    BY <1>10, <2>1
  <2>3. q \in Row
    BY <1>5, <1>10, <2>1 DEF Row
  <2>4. PICK more : more = cache'
    OBVIOUS
  <2>5. rows \subseteq more /\ RowIn(more, s.page, s.host, e)
    BY <1>9, <2>2, <2>4 DEF RowIn
  <2>6. PICK r : r = [s EXCEPT !.add = @ \ {e}, !.out = @ \cup {e}]
    OBVIOUS
  <2>7. rendering' = [rendering EXCEPT ![c] = r]
    BY <1>10, <2>6 DEF Goto
  <2>8. r = [at |-> "add", page |-> s.page, host |-> s.host, lang |-> s.lang, out |-> s.out \cup {e},
             add |-> s.add \ {e}, level |-> s.level, todo |-> s.todo]
    BY <1>3, <1>4, <2>6 DEF Rendering
  <2>9. r.at = "add" /\ r.page = s.page /\ r.host = s.host /\ r.todo = s.todo
    BY <2>8
  <2>10. r \in Rendering /\ r # Ready
    <3>1. s.out \cup {e} \in SUBSET Element /\ s.add \ {e} \in SUBSET Element /\ "add" \in {"select", "add", "cached"}
      BY <1>5, <1>10
    <3>2. r \in Rendering
      BY <1>5, <2>8, <3>1, RenderingOf
    <3> QED
      BY <3>2, ReadyAssumption
  <2>11. r.page \notin suspect' => OnCourse(element, cache', r)
    <3> SUFFICES ASSUME s.page \notin suspect PROVE OnCourse(element, more, r)
      BY <1>10, <2>4, <2>9
    <3>1. OnCourse(element, rows, s)
      BY <1>8, <1>9
    <3> QED
      BY <1>3, <1>4, <1>10, <2>5, <2>6, <3>1, LoadAdds
  <2>12. LoadedFor(s.page, s.host)
    BY <1>2, <1>3 DEF LoadedFor
  <2>13. \A p, id : LoadedFor(p, id) => LoadedFor(p, id)'
    <3>1. "add" \in {"select", "add"}
      OBVIOUS
    <3> QED
      BY <1>1, <1>2, <2>7, <2>9, <2>10, <3>1, StillLoaded
  <2>14. \A x \in cache' \ cache : x.page \notin suspect' => IsChosen(x) /\ LoadedFor(x.page, x.host)'
    <3>1. ASSUME s.page \notin suspect PROVE IsChosen(q)
      <4>1. OnCourse(element, rows, s)
        BY <1>8, <1>9, <3>1
      <4>2. /\ OnHost(HostOf(s.host), s.page) /\ e \in Chosen(HostOf(s.host), s.page)
            /\ s.level = element[e].at
        BY <1>1, <1>3, <1>4, <1>10, <4>1, LoadChooses
      <4> QED
        BY <2>2, <4>2 DEF IsChosen
    <3> QED
      BY <1>10, <2>2, <2>12, <2>13, <3>1
  <2>15. cache \subseteq cache' /\ cache' \subseteq Row
    BY <1>6, <2>2, <2>3
  <2>16. suspect \subseteq suspect' /\ suspect' \subseteq Page /\ element' = element
    BY <1>3, <1>6, <1>10
  <2>17. \A i \in 1..Len(r.todo) : r.todo[i].level \in Level
    BY <1>7, <2>9
  <2> QED
    BY <2>7, <2>10, <2>11, <2>13, <2>14, <2>15, <2>16, <2>17, RenderingStep
<1>11. ASSUME s.add = {}, Goto(c, [s EXCEPT !.at = "select", !.level = Nowhere]), UNCHANGED <<cache, suspect>>
       PROVE  PageInv'
  <2>1. PICK r : r = [s EXCEPT !.at = "select", !.level = Nowhere]
    OBVIOUS
  <2>2. rendering' = [rendering EXCEPT ![c] = r]
    BY <1>11, <2>1 DEF Goto
  <2>3. r = [at |-> "select", page |-> s.page, host |-> s.host, lang |-> s.lang, out |-> s.out,
             add |-> s.add, level |-> Nowhere, todo |-> s.todo]
    BY <1>4, <2>1 DEF Rendering
  <2>4. r.at = "select" /\ r.page = s.page /\ r.host = s.host /\ r.todo = s.todo
    BY <2>3
  <2>5. r \in Rendering /\ r # Ready
    <3>1. s.out \in SUBSET Element /\ s.add \in SUBSET Element /\ "select" \in {"select", "add", "cached"}
          /\ Nowhere \in Page \cup Style \cup {Nowhere}
      BY <1>5
    <3>2. r \in Rendering
      BY <1>5, <2>3, <3>1, RenderingOf
    <3> QED
      BY <3>2, ReadyAssumption
  <2>6. r.page \notin suspect' => OnCourse(element, cache', r)
    <3> SUFFICES ASSUME s.page \notin suspect PROVE OnCourse(element, rows, r)
      BY <1>9, <1>11, <2>4
    <3>1. OnCourse(element, rows, s)
      BY <1>8, <1>9
    <3> QED
      BY <1>3, <1>4, <1>11, <2>1, <3>1, LoadHasAdded
  <2>7. \A p, id : LoadedFor(p, id) => LoadedFor(p, id)'
    <3>1. "select" \in {"select", "add"}
      OBVIOUS
    <3> QED
      BY <1>1, <1>2, <2>2, <2>4, <2>5, <3>1, StillLoaded
  <2>8. cache \subseteq cache' /\ cache' \subseteq Row /\ cache' \ cache = {}
    BY <1>6, <1>11
  <2>9. suspect \subseteq suspect' /\ suspect' \subseteq Page /\ element' = element
    BY <1>3, <1>6, <1>11
  <2>10. \A i \in 1..Len(r.todo) : r.todo[i].level \in Level
    BY <1>7, <2>4
  <2> QED
    BY <2>2, <2>5, <2>6, <2>7, <2>8, <2>9, <2>10, RenderingStep
<1>12. ASSUME NEW e \in s.add, suspect' = suspect \cup {s.page}, UNCHANGED cache,
              Goto(c, [s EXCEPT !.add = @ \ {e}, !.out = @ \cup {e}])
       PROVE  PageInv'
  <2>1. PICK r : r = [s EXCEPT !.add = @ \ {e}, !.out = @ \cup {e}]
    OBVIOUS
  <2>2. rendering' = [rendering EXCEPT ![c] = r]
    BY <1>12, <2>1 DEF Goto
  <2>3. r = [at |-> "add", page |-> s.page, host |-> s.host, lang |-> s.lang, out |-> s.out \cup {e},
             add |-> s.add \ {e}, level |-> s.level, todo |-> s.todo]
    BY <1>3, <1>4, <2>1 DEF Rendering
  <2>4. r.at = "add" /\ r.page = s.page /\ r.host = s.host /\ r.todo = s.todo
    BY <2>3
  <2>5. r \in Rendering /\ r # Ready
    <3>1. s.out \cup {e} \in SUBSET Element /\ s.add \ {e} \in SUBSET Element /\ "add" \in {"select", "add", "cached"}
      BY <1>5, <1>12
    <3>2. r \in Rendering
      BY <1>5, <2>3, <3>1, RenderingOf
    <3> QED
      BY <3>2, ReadyAssumption
  <2>6. r.page \in suspect'
    BY <1>12, <2>4
  <2>7. \A p, id : LoadedFor(p, id) => LoadedFor(p, id)'
    <3>1. "add" \in {"select", "add"}
      OBVIOUS
    <3> QED
      BY <1>1, <1>2, <2>2, <2>4, <2>5, <3>1, StillLoaded
  <2>8. cache \subseteq cache' /\ cache' \subseteq Row /\ cache' \ cache = {}
    BY <1>6, <1>12
  <2>9. suspect \subseteq suspect' /\ suspect' \subseteq Page /\ element' = element
    BY <1>3, <1>5, <1>6, <1>12
  <2>10. \A i \in 1..Len(r.todo) : r.todo[i].level \in Level
    BY <1>7, <2>4
  <2> QED
    BY <2>2, <2>5, <2>6, <2>7, <2>8, <2>9, <2>10, RenderingStep
<1> QED
  BY <1>2, <1>10, <1>11, <1>12 DEF Add

LEMMA SelectCachedKeeps == ASSUME PageInv, NEW c \in Client, SelectCached(c) PROVE PageInv'
PROOF
<1>1. PageType
  BY DEF PageInv
<1>2. PICK s : s = rendering[c]
  OBVIOUS
<1>3. s # Ready /\ s.at = "cached" /\ s.todo # <<>> /\ UNCHANGED <<element, cache, suspect>>
  BY <1>2 DEF SelectCached, At
<1>4. s \in Rendering
  BY <1>1, <1>2, <1>3 DEF PageType
<1>5. PICK out, todo : /\ out = Replaced(s.out, CachedRows(element, cache, s.page, Head(s.todo)))
                       /\ todo = Tail(s.todo)
  OBVIOUS
<1>6. PICK r : r = [s EXCEPT !.out = out, !.todo = todo]
  OBVIOUS
<1>7. rendering' = [rendering EXCEPT ![c] = r]
  <2>1. [s EXCEPT !.out = Replaced(@, CachedRows(element, cache, s.page, Head(s.todo))), !.todo = Tail(@)] = r
    BY <1>5, <1>6
  <2> QED
    BY <1>2, <2>1 DEF SelectCached, Goto
<1>8. /\ s.page \in Page /\ s.host \in HostId /\ s.lang \in Lang /\ s.level \in Page \cup Style \cup {Nowhere}
      /\ s.add \in SUBSET Element /\ s.out \in SUBSET Element /\ s.todo \in Seq(Selection)
  BY <1>4, RenderingIs
<1>9. todo \in Seq(Selection)
  BY <1>3, <1>5, <1>8, TailIs
<1>10. out \in SUBSET Element
  <2>1. \A rows \in SUBSET Element : Replaced(s.out, rows) \in SUBSET Element
    BY <1>8 DEF Replaced
  <2>2. \A sel : CachedRows(element, cache, s.page, sel) \in SUBSET Element
    BY DEF CachedRows, Element
  <2> QED
    BY <1>5, <2>1, <2>2
<1>11. r = [at |-> "cached", page |-> s.page, host |-> s.host, lang |-> s.lang, out |-> out, add |-> s.add,
            level |-> s.level, todo |-> todo]
  BY <1>3, <1>4, <1>6 DEF Rendering
<1>12. r \in Rendering
  <2>1. "cached" \in {"select", "add", "cached"}
    OBVIOUS
  <2> QED
    BY <1>8, <1>9, <1>10, <1>11, <2>1, RenderingOf
<1>13. r.at = "cached" /\ "cached" \notin {"select", "add"}
  BY <1>11
<1>14. ~ Loading(c)
  BY <1>2, <1>3 DEF Loading
<1>15. \A q \in cache : LoadedFor(q.page, q.host) => LoadedFor(q.page, q.host)'
  BY <1>1, <1>7, <1>14, StillLoaded
<1>16. suspect \subseteq Page /\ cache \subseteq Row
  BY <1>1 DEF PageType
<1> QED
  BY <1>3, <1>7, <1>12, <1>13, <1>15, <1>16, RenderingStep

LEMMA FinishKeeps == ASSUME PageInv, NEW c \in Client, Finish(c) PROVE PageInv'
PROOF
<1>1. PageType /\ NamesDiffer /\ LoadsOnCourse
  BY DEF PageInv
<1>2. PICK s, rows : s = rendering[c] /\ rows = cache
  OBVIOUS
<1>3. s # Ready /\ s.at # "add" /\ s.todo = <<>> /\ UNCHANGED <<element, cache, suspect>>
  BY <1>2 DEF Finish
<1>4. s \in Rendering
  BY <1>1, <1>2, <1>3 DEF PageType
<1>5. rendering' = [rendering EXCEPT ![c] = Ready]
  BY DEF Finish, Goto
<1>6. ASSUME NEW q \in cache, q.page \notin suspect, LoadedFor(q.page, q.host), ~ LoadedFor(q.page, q.host)'
      PROVE  IsComplete(cache, q.page, q.host)
  <2>1. PICK d \in Client : Loading(d) /\ rendering[d].page = q.page /\ rendering[d].host = q.host
    BY <1>6 DEF LoadedFor
  <2>2. d = c
    <3>1. \A x \in Client \ {c} : rendering'[x] = rendering[x] /\ (Loading(x)' <=> Loading(x))
      BY <1>1, <1>5, OneRenders
    <3>2. d # c => Loading(d)' /\ rendering'[d].page = q.page /\ rendering'[d].host = q.host
      BY <2>1, <3>1
    <3> QED
      BY <1>6, <3>2 DEF LoadedFor
  <2>3. s.at = "select" /\ s.page = q.page /\ s.host = q.host
    BY <1>2, <1>3, <2>1, <2>2 DEF Loading
  <2>4. OnCourse(element, rows, s)
    BY <1>1, <1>2, <1>6, <2>1, <2>2 DEF LoadsOnCourse
  <2>5. s.out = Chosen(HostOf(s.host), s.page)
    BY <1>1, <1>3, <1>4, <2>3, <2>4, LoadFinds
  <2>6. \A e \in s.out : RowIn(rows, s.page, s.host, e)
    BY <2>4 DEF OnCourse
  <2> QED
    BY <1>2, <2>3, <2>5, <2>6 DEF IsComplete
<1>7. suspect \subseteq Page /\ cache \subseteq Row
  BY <1>1 DEF PageType
<1> QED
  BY <1>3, <1>5, <1>6, <1>7, RenderingStep

LEMMA CrashKeeps == ASSUME PageInv, NEW c \in Client, Crash(c) PROVE PageInv'
PROOF
<1>1. PageType
  BY DEF PageInv
<1>2. PICK s : s = rendering[c]
  OBVIOUS
<1>3. s # Ready /\ element' = element /\ cache' = cache /\ rendering' = [rendering EXCEPT ![c] = Ready]
  BY <1>2 DEF Crash, Goto
<1>4. suspect' = IF Loading(c) THEN suspect \cup {s.page} ELSE suspect
  BY <1>2 DEF Crash
<1>5. s \in Rendering
  BY <1>1, <1>2, <1>3 DEF PageType
<1>6. suspect \subseteq suspect' /\ suspect' \subseteq Page /\ cache \subseteq Row
  <2>1. suspect \subseteq Page /\ cache \subseteq Row
    BY <1>1 DEF PageType
  <2> QED
    BY <1>4, <1>5, <2>1, RenderingIs
<1>7. ASSUME NEW q \in cache, q.page \notin suspect', LoadedFor(q.page, q.host), ~ LoadedFor(q.page, q.host)'
      PROVE  FALSE
  <2>1. PICK d \in Client : Loading(d) /\ rendering[d].page = q.page /\ rendering[d].host = q.host
    BY <1>7 DEF LoadedFor
  <2>2. d # c
    BY <1>2, <1>4, <1>7, <2>1
  <2>3. \A x \in Client \ {c} : rendering'[x] = rendering[x] /\ (Loading(x)' <=> Loading(x))
    BY <1>1, <1>3, OneRenders
  <2>4. Loading(d)' /\ rendering'[d].page = q.page /\ rendering'[d].host = q.host
    BY <2>1, <2>2, <2>3
  <2> QED
    BY <1>7, <2>4 DEF LoadedFor
<1> QED
  BY <1>3, <1>6, <1>7, RenderingStep

LEMMA ChangeKeeps == ASSUME PageInv, Change PROVE PageInv'
PROOF
<1>1. PageType /\ LoadsSelect
  BY DEF PageInv
<1>2. UNCHANGED <<cache, rendering>>
  BY DEF Change
<1>3. suspect' = {p \in Page : Cached(p) \/ p \in suspect \/ \E c \in Client : Loading(c) /\ rendering[c].page = p}
  BY DEF Change
<1>4. \A c \in Client : Loading(c)' <=> Loading(c)
  BY <1>2 DEF Loading
<1>5. PageType'
  <2>1. element' \in [Element -> [at : Page \cup Style, inherit : BOOLEAN, live : BOOLEAN]]
    <3>1. PICK e \in Element :
            \/ \E at \in (IF e \in PageElement THEN Page ELSE Style) \ {element[e].at} :
                 element' = [element EXCEPT ![e].at = at]
            \/ e \in PageElement /\ element' = [element EXCEPT ![e].inherit = ~@]
            \/ element' = [element EXCEPT ![e].live = ~@]
      BY DEF Change
    <3>2. element \in [Element -> [at : Page \cup Style, inherit : BOOLEAN, live : BOOLEAN]]
      BY <1>1 DEF PageType
    <3>3. ASSUME NEW at \in (IF e \in PageElement THEN Page ELSE Style), element' = [element EXCEPT ![e].at = at]
          PROVE  element' \in [Element -> [at : Page \cup Style, inherit : BOOLEAN, live : BOOLEAN]]
      <4>1. at \in Page \cup Style
        OBVIOUS
      <4> QED
        BY <3>2, <3>3, <4>1
    <3>4. ASSUME element' = [element EXCEPT ![e].inherit = ~@]
          PROVE  element' \in [Element -> [at : Page \cup Style, inherit : BOOLEAN, live : BOOLEAN]]
      BY <3>2, <3>4
    <3>5. ASSUME element' = [element EXCEPT ![e].live = ~@]
          PROVE  element' \in [Element -> [at : Page \cup Style, inherit : BOOLEAN, live : BOOLEAN]]
      BY <3>2, <3>5
    <3> QED
      BY <3>1, <3>3, <3>4, <3>5
  <2>2. cache' \subseteq Row /\ rendering' \in [Client -> Rendering \cup {Ready}] /\ suspect' \subseteq Page
    BY <1>1, <1>2, <1>3 DEF PageType
  <2> QED
    BY <2>1, <2>2 DEF PageType
<1>6. NamesDiffer'
  <2>1. \A e, f \in Element : e # f /\ element'[e].live /\ element'[f].live
          => <<element'[e].at, ElementName(e)>> # <<element'[f].at, ElementName(f)>>
    BY DEF Change
  <2> QED
    BY <2>1 DEF NamesDiffer
<1>7. LoadsSelect'
  BY <1>1, <1>2, <1>4 DEF LoadsSelect
<1>8. ASSUME NEW c \in Client, Loading(c) PROVE rendering[c].page \in suspect'
  <2>1. rendering[c] \in Rendering
    BY <1>1, <1>8 DEF PageType, Loading
  <2>2. rendering[c].page \in Page
    BY <2>1, RenderingIs
  <2> QED
    BY <1>3, <1>8, <2>2
<1>9. ASSUME NEW r \in cache PROVE r.page \in suspect'
  <2>1. r.page \in Page
    BY <1>1 DEF PageType, Row
  <2> QED
    BY <1>3, <2>1 DEF Cached
<1>10. LoadsOnCourse'
  BY <1>2, <1>4, <1>8 DEF LoadsOnCourse
<1>11. RowsAreChosen' /\ RowsAreComplete'
  BY <1>2, <1>9 DEF RowsAreChosen, RowsAreComplete
<1> QED
  BY <1>5, <1>6, <1>7, <1>10, <1>11 DEF PageInv

LEMMA TouchKeeps == ASSUME PageInv, Touch PROVE PageInv'
PROOF
<1>1. PageType /\ NamesDiffer /\ LoadsSelect /\ LoadsOnCourse
  BY DEF PageInv
<1>2. UNCHANGED <<element, rendering>> /\ cache' = {} /\ suspect' = InDoubt
  BY DEF Touch
<1>3. \A c \in Client : Loading(c)' <=> Loading(c)
  BY <1>2 DEF Loading
<1>4. PageType'
  BY <1>1, <1>2 DEF PageType, InDoubt
<1>5. NamesDiffer' /\ LoadsSelect'
  BY <1>1, <1>2, <1>3 DEF NamesDiffer, LoadsSelect
<1>6. LoadsOnCourse'
  <2> SUFFICES ASSUME NEW c \in Client, Loading(c), rendering[c].page \notin InDoubt
               PROVE  OnCourse(element, {}, rendering[c])
    BY <1>2, <1>3 DEF LoadsOnCourse
  <2>1. PICK r : r = rendering[c]
    OBVIOUS
  <2>2. r \in Rendering
    BY <1>1, <2>1 DEF PageType, Loading
  <2>3. r.page \in Page
    BY <2>2, RenderingIs
  <2>4. r.out = {} /\ r.page \notin suspect
    BY <2>1, <2>3 DEF InDoubt
  <2>5. OnCourse(element, cache, r)
    BY <1>1, <2>1, <2>4 DEF LoadsOnCourse
  <2>6. OnCourse(element, {}, r)
    BY <2>4, <2>5 DEF OnCourse
  <2> QED
    BY <2>1, <2>6
<1>7. RowsAreChosen' /\ RowsAreComplete'
  BY <1>2 DEF RowsAreChosen, RowsAreComplete
<1> QED
  BY <1>4, <1>5, <1>6, <1>7 DEF PageInv

THEOREM PageInvariant == PageSpec => []PageInv
PROOF
<1>1. PageInit => PageInv
  BY PageStarts
<1>2. PageInv /\ [PageNext]_pageVars => PageInv'
  <2> SUFFICES ASSUME PageInv, [PageNext]_pageVars PROVE PageInv'
    OBVIOUS
  <2>1. CASE Change
    BY <2>1, ChangeKeeps
  <2>2. CASE Touch
    BY <2>2, TouchKeeps
  <2>3. ASSUME NEW c \in Client,
               Request(c) \/ Select(c) \/ Add(c) \/ SelectCached(c) \/ Finish(c) \/ Crash(c)
        PROVE  PageInv'
    BY <2>3, RequestKeeps, SelectKeeps, AddKeeps, SelectCachedKeeps, FinishKeeps, CrashKeeps
  <2>4. CASE UNCHANGED pageVars
    <3>1. UNCHANGED <<element, cache, rendering, suspect>>
      BY <2>4 DEF pageVars
    <3>2. PageType' /\ NamesDiffer'
      BY <3>1 DEF PageInv, PageType, NamesDiffer
    <3>3. LoadsSelect' /\ LoadsOnCourse'
      BY <3>1 DEF PageInv, LoadsSelect, LoadsOnCourse, Loading
    <3>4. RowsAreChosen'
      BY <3>1, ElementsStay DEF PageInv, RowsAreChosen
    <3>5. RowsAreComplete'
      <4>1. \A p, id : LoadedFor(p, id)' <=> LoadedFor(p, id)
        BY <3>1 DEF LoadedFor, Loading
      <4>2. \A p, id : IsComplete(cache, p, id) => IsComplete(cache, p, id)'
        BY <3>1, ElementsStay DEF IsComplete, RowIn
      <4> QED
        BY <3>1, <4>1, <4>2 DEF PageInv, RowsAreComplete
    <3> QED
      BY <3>2, <3>3, <3>4, <3>5 DEF PageInv
  <2> QED
    BY <2>1, <2>2, <2>3, <2>4 DEF PageNext
<1> QED
  BY <1>1, <1>2, PTL DEF PageSpec

(* LoadIsComplete, of the full load of a page: it finds of every name the      *)
(* nearest element, in whatever number and depth the pages and styles are, and *)
(* however renderings, touches and changes of other pages interleave with it.  *)
LEMMA CourseCompletes == PageInv => LoadIsComplete
PROOF
<1> SUFFICES ASSUME PageInv, NEW c \in Client, At(c, "select"), rendering[c].todo = <<>>,
                    rendering[c].page \notin suspect
             PROVE  rendering[c].out = Chosen(HostOf(rendering[c].host), rendering[c].page)
  BY DEF LoadIsComplete
<1>1. PICK r, rows : r = rendering[c] /\ rows = cache
  OBVIOUS
<1>2. r # Ready /\ r.at = "select" /\ Loading(c)
  BY <1>1 DEF At, Loading
<1>3. r \in Rendering
  BY <1>1, <1>2 DEF PageInv, PageType
<1>4. OnCourse(element, rows, r)
  BY <1>1, <1>2 DEF PageInv, LoadsOnCourse
<1>5. NamesDiffer
  BY DEF PageInv
<1> QED
  BY <1>1, <1>2, <1>3, <1>4, <1>5, LoadFinds

THEOREM LoadsAreComplete == PageSpec => []LoadIsComplete
PROOF
  BY PageInvariant, CourseCompletes, PTL

(* CacheServesPage, of the read through the table cache: all its rows of a     *)
(* page are of elements a load chooses, and they are all of them as soon as no *)
(* load of the page is under way; in the join no row can replace another.      *)
LEMMA RowsServe == PageInv => CacheServesPage
PROOF
<1> SUFFICES ASSUME PageInv, NEW p \in Page \ suspect,
                    \A c \in Client : ~ (Loading(c) /\ rendering[c].page = p),
                    NEW h, {HostOf(r.host) : r \in {q \in cache : q.page = p}} = {h}, NEW lang \in Lang
             PROVE  FromCache(p, lang) = Chosen(h, p)
  BY DEF CacheServesPage
<1>1. PageType /\ NamesDiffer /\ RowsAreChosen /\ RowsAreComplete
  BY DEF PageInv
<1>2. \A r \in cache : r.page = p => HostOf(r.host) = h
  OBVIOUS
<1>3. PICK s \in cache : s.page = p /\ HostOf(s.host) = h
  OBVIOUS
<1>4. \A r \in cache : r.page = p => IsChosen(r)
  BY <1>1 DEF RowsAreChosen
<1>5. IsComplete(cache, p, s.host)
  <2>1. ~ LoadedFor(p, s.host)
    BY DEF LoadedFor
  <2> QED
    BY <1>1, <1>3, <2>1 DEF RowsAreComplete
<1>6. PICK k \in Hosts : k = h
  <2>1. s.host \in HostId
    BY <1>1 DEF PageType, Row
  <2>2. PICK k \in Hosts : k.id = s.host
    BY <2>1 DEF HostId
  <2> QED
    BY <1>3, <2>2, HostOfIs
<1>7. OnHost(h, p)
  BY <1>3, <1>4 DEF IsChosen
<1>8. PICK ls : ls = Levels(p, StyleOn(h, p))
  OBVIOUS
<1>9. Len(ls) \in Nat /\ Chosen(h, p) = ChosenOn(ls)
  <2>1. StyleOn(h, p) \in Style \cup {Nowhere}
    BY <1>6, <1>7, StyleOnType
  <2> QED
    BY <1>8, <2>1, LevelsType, ChosenIs
<1>10. Joined(p) \subseteq Chosen(h, p)
  BY <1>2, <1>4 DEF Joined, IsChosen
<1>11. Chosen(h, p) \subseteq Joined(p)
  <2> SUFFICES ASSUME NEW e \in Chosen(h, p) PROVE e \in Joined(p)
    OBVIOUS
  <2>1. PICK r \in cache : r.page = p /\ r.id = e
    BY <1>3, <1>5 DEF IsComplete, RowIn
  <2>2. e \in StyleElement => r.style = element[e].at
    BY <1>4, <2>1 DEF IsChosen
  <2>3. e \in Element /\ element[e].live
    BY <1>9 DEF ChosenOn, On, Rows
  <2> QED
    BY <2>1, <2>2, <2>3 DEF Joined
<1>12. \A e, f \in Joined(p) : ElementName(e) = ElementName(f) => e = f
  BY <1>1, <1>9, <1>10, ChosenNames
<1>13. FromCache(p, lang) = Joined(p)
  BY <1>12, CacheIsJoined
<1> QED
  BY <1>10, <1>11, <1>13

THEOREM CacheServes == PageSpec => []CacheServesPage
PROOF
  BY PageInvariant, RowsServe, PTL

-----------------------------------------------------------------------------
(* ObjectLock, whose inductive invariant is LockInv.                           *)
USE LockAssumption, NoneAssumption

LEMMA LockInit == Init => LockInv
PROOF
  BY DEF Init, LockInv, TypeOK, ApprovalIsSigned, CheckedFirst, Person

(* Fields that the statements of the handlers set. *)
LEMMA LockFields ==
  ASSUME NEW r, r \in Record \/ r \in Copy, NEW s \in Session,
         NEW v \in 0..MaxRevision, NEW flag \in BOOLEAN
  PROVE  LET l == [r EXCEPT !.islocked = flag, !.locker = s, !.revision = v]
             m == [r EXCEPT !.isapproved = flag, !.approver = s, !.revision = v] IN
         /\ (r \in Record => l \in Record /\ m \in Record)
         /\ (r \in Copy => l \in Copy /\ m \in Copy)
         /\ l.isapproved = r.isapproved /\ l.approver = r.approver /\ l.content = r.content
         /\ l.revision = v
         /\ l.islocked = flag /\ l.locker = s
         /\ m.isapproved = flag /\ m.approver = s /\ m.content = r.content
         /\ m.revision = v
         /\ m.islocked = r.islocked /\ m.locker = r.locker
PROOF
  BY DEF Record, Copy, Person

LEMMA UpdatedFields ==
  ASSUME TypeOK, NEW s \in Session, NEW c \in Content, handle[s] # None,
         handle[s].revision < MaxRevision, row \in Record
  PROVE  /\ Updated(s, c) \in Copy
         /\ Updated(s, c).content = c
         /\ Updated(s, c).revision = handle[s].revision + 1
         /\ Updated(s, c).locker = handle[s].locker
         /\ Updated(s, c).approver = handle[s].approver
         /\ Updated(s, c).isapproved = FALSE
         /\ Updated(s, c).islocked = handle[s].islocked
         /\ [Updated(s, c) EXCEPT !.islocked = row.islocked] \in Record
         /\ [Updated(s, c) EXCEPT !.islocked = row.islocked].content = c
         /\ [Updated(s, c) EXCEPT !.islocked = row.islocked].revision = handle[s].revision + 1
         /\ [Updated(s, c) EXCEPT !.islocked = row.islocked].locker = handle[s].locker
         /\ [Updated(s, c) EXCEPT !.islocked = row.islocked].approver = handle[s].approver
         /\ [Updated(s, c) EXCEPT !.islocked = row.islocked].isapproved = FALSE
         /\ [Updated(s, c) EXCEPT !.islocked = row.islocked].islocked = row.islocked
PROOF
<1>1. handle[s] \in Copy
  BY DEF TypeOK
<1>2. handle[s].revision + 1 \in 0..MaxRevision
  BY <1>1 DEF Copy
<1>3. Updated(s, c) \in Copy
  BY <1>1, <1>2 DEF Updated, Copy
<1>4. row.islocked \in BOOLEAN
  BY DEF Record
<1> QED
  BY <1>1, <1>2, <1>3, <1>4 DEF Updated, Copy, Record

LEMMA CreateKeeps ==
  ASSUME LockInv, NEW s \in Session, NEW c \in Content, Create(s, c)
  PROVE  LockInv'
PROOF
<1> DEFINE new == [content |-> c, revision |-> 0, locker |-> Nobody, islocked |-> FALSE,
                   approver |-> Nobody, isapproved |-> FALSE]
           own == [new EXCEPT !.islocked = Unset, !.isapproved = Unset]
<1>1. new \in Record /\ own \in Copy /\ ~new.isapproved
  <2>1. new \in Record /\ ~new.isapproved
    BY DEF Record, Person
  <2>2. new \in Copy
    BY DEF Copy, Person
  <2> HIDE DEF new
  <2>3. own \in Copy
    BY <2>2 DEF Copy
  <2> QED
    BY <2>1, <2>3
<1>2. Write(s, new, own) /\ Return(s, TRUE) /\ UNCHANGED signed /\ row = None
  BY DEF Create
<1> HIDE DEF new, own
<1>3. TypeOK'
  BY <1>1, <1>2 DEF LockInv, TypeOK, Write, Return
<1>4. ApprovalIsSigned'
  BY <1>1, <1>2 DEF ApprovalIsSigned, Write
<1>5. \A t \in Session : pc'[t] = "idle" /\ (handle'[t] # None => row' # None)
  BY <1>1, <1>2 DEF LockInv, TypeOK, Write, Return
<1> QED
  BY <1>3, <1>4, <1>5 DEF LockInv, CheckedFirst

LEMMA FetchKeeps ==
  ASSUME LockInv, NEW s \in Session, Fetch(s)
  PROVE  LockInv'
PROOF
<1>1. row \in Record
  BY DEF LockInv, TypeOK, Fetch
<1>2. row \in Copy
  BY <1>1 DEF Record, Copy
<1>3. TypeOK'
  BY <1>2 DEF LockInv, TypeOK, Fetch
<1>4. ApprovalIsSigned'
  BY DEF LockInv, ApprovalIsSigned, Fetch
<1>5. CheckedFirst'
  BY DEF LockInv, TypeOK, CheckedFirst, Fetch
<1> QED
  BY <1>3, <1>4, <1>5 DEF LockInv, TypeOK, Fetch

LEMMA UpdateKeeps ==
  ASSUME LockInv, NEW s \in Session, NEW c \in Content, Update(s, c) \/ UpdateRefused(s, c)
  PROVE  LockInv'
PROOF
<1> DEFINE own == Updated(s, c)
           new == [Updated(s, c) EXCEPT !.islocked = row.islocked]
<1>1. pc[s] = "idle" /\ handle[s] # None /\ handle[s].revision < MaxRevision
  BY DEF Update, UpdateRefused, MayCall
<1>2. row \in Record /\ row.islocked \in BOOLEAN
  BY <1>1 DEF LockInv, TypeOK, Record
<1>3. new \in Record /\ own \in Copy /\ new.isapproved = FALSE
  BY <1>1, <1>2, UpdatedFields DEF LockInv
<1>4. CASE Update(s, c)
  <2>1. Write(s, new, own) /\ Return(s, TRUE) /\ UNCHANGED signed
    BY <1>4 DEF Update
  <2> HIDE DEF own, new
  <2>2. TypeOK'
    BY <1>3, <2>1 DEF LockInv, TypeOK, Write, Return
  <2>3. ApprovalIsSigned'
    BY <1>3, <2>1 DEF ApprovalIsSigned, Write
  <2>4. CheckedFirst'
    BY <1>1, <1>3, <2>1 DEF LockInv, TypeOK, CheckedFirst, Write, Return
  <2> QED
    BY <1>1, <1>3, <2>1, <2>2, <2>3, <2>4 DEF LockInv, TypeOK, Write, Return
<1>5. CASE UpdateRefused(s, c)
  <2>1. handle' = [handle EXCEPT ![s] = own] /\ stale' = [stale EXCEPT ![s] = TRUE]
        /\ Return(s, FALSE) /\ UNCHANGED <<row, signed>>
    BY <1>5 DEF UpdateRefused
  <2> HIDE DEF own, new
  <2>2. CheckedFirst'
    BY <1>1, <1>3, <2>1 DEF LockInv, TypeOK, CheckedFirst, Return
  <2> QED
    BY <1>1, <1>2, <1>3, <2>1, <2>2 DEF LockInv, TypeOK, Return, ApprovalIsSigned
<1> QED
  BY <1>4, <1>5

LEMMA CheckKeeps ==
  ASSUME LockInv, NEW s \in Session, NEW call \in Call, Check(s, call)
  PROVE  LockInv'
PROOF
<1>1. pc[s] = "idle" /\ handle[s] # None /\ handle[s].revision < MaxRevision
  BY DEF Check, MayCall
<1>2. handle[s] \in Copy
  BY <1>1 DEF LockInv, TypeOK
<1>3. PICK answer \in BOOLEAN :
        /\ ReadFlag(s, Field(call), answer)
        /\ \/ answer # Wanted(call) /\ pc' = [pc EXCEPT ![s] = call] /\ UNCHANGED ret
           \/ Return(s, FALSE)
  BY DEF Check
<1>4. Field(call) \in {"islocked", "isapproved"}
  BY DEF Field
<1>5. PICK h \in Copy : handle' = [handle EXCEPT ![s] = h]
                        /\ h.revision = handle[s].revision
  <2>1. CASE UNCHANGED handle
    BY <1>2, <2>1 DEF LockInv, TypeOK
  <2>2. CASE handle' = [handle EXCEPT ![s][Field(call)] = answer]
    <3>1. CASE Field(call) = "islocked"
      <4>1. [handle[s] EXCEPT !.islocked = answer] \in Copy
            /\ [handle[s] EXCEPT !.islocked = answer].revision = handle[s].revision
        BY <1>2, <1>3 DEF Copy
      <4>2. handle' = [handle EXCEPT ![s] = [handle[s] EXCEPT !.islocked = answer]]
        BY <2>2, <3>1 DEF LockInv, TypeOK
      <4> QED
        BY <4>1, <4>2
    <3>2. CASE Field(call) = "isapproved"
      <4>1. [handle[s] EXCEPT !.isapproved = answer] \in Copy
            /\ [handle[s] EXCEPT !.isapproved = answer].revision = handle[s].revision
        BY <1>2, <1>3 DEF Copy
      <4>2. handle' = [handle EXCEPT ![s] = [handle[s] EXCEPT !.isapproved = answer]]
        BY <2>2, <3>2 DEF LockInv, TypeOK
      <4> QED
        BY <4>1, <4>2
    <3> QED
      BY <1>4, <3>1, <3>2
  <2> QED
    BY <1>3, <2>1, <2>2 DEF ReadFlag
<1>6. UNCHANGED <<row, stale, signed>>
  BY DEF Check
<1>7. TypeOK'
  BY <1>3, <1>5, <1>6 DEF LockInv, TypeOK, Return, Call
<1>8. ApprovalIsSigned'
  BY <1>6 DEF LockInv, ApprovalIsSigned
<1>9. pc' = [pc EXCEPT ![s] = call] \/ pc' = [pc EXCEPT ![s] = "idle"]
  BY <1>3 DEF Return
<1>10. \A t \in Session : /\ handle'[t] # None => row' # None
                          /\ pc'[t] # "idle" => handle'[t] # None /\ handle'[t].revision < MaxRevision
  BY <1>1, <1>5, <1>6, <1>9 DEF LockInv, TypeOK
<1>11. CASE Return(s, FALSE)
  <2>1. \A t \in Session : pc'[t] # "idle" => t # s /\ pc'[t] = pc[t] /\ handle'[t] = handle[t]
    BY <1>5, <1>11 DEF LockInv, TypeOK, Return
  <2>2. CheckedFirst'
    BY <2>1 DEF LockInv, CheckedFirst
  <2> QED
    BY <1>7, <1>8, <1>10, <2>2 DEF LockInv
<1>12. CASE pc' = [pc EXCEPT ![s] = call] /\ answer # Wanted(call)
  <2>1. \A t \in Session : t # s => pc'[t] = pc[t] /\ handle'[t] = handle[t]
    BY <1>5, <1>12 DEF LockInv, TypeOK
  <2>2. pc'[s] = call
    BY <1>12 DEF LockInv, TypeOK
  <2>3. CASE Field(call) = "islocked"
    <3>1. call \in {"lock", "unlock"} /\ Wanted(call) \in BOOLEAN
      BY <2>3 DEF Field, Call, Wanted
    <3>2. handle'[s].islocked # Wanted(call)
      BY <1>2, <1>3, <1>12, <2>3, <3>1 DEF ReadFlag, LockInv, TypeOK, Copy
    <3>3. CheckedFirst'
      BY <2>1, <2>2, <3>1, <3>2 DEF LockInv, CheckedFirst
    <3> QED
      BY <1>7, <1>8, <1>10, <3>3 DEF LockInv
  <2>4. CASE Field(call) = "isapproved"
    <3>1. call \in {"approve", "unapprove"} /\ Wanted(call) \in BOOLEAN
      BY <2>4 DEF Field, Call, Wanted
    <3>2. handle'[s].isapproved # Wanted(call)
      BY <1>2, <1>3, <1>12, <2>4, <3>1 DEF ReadFlag, LockInv, TypeOK, Copy
    <3>3. CheckedFirst'
      BY <2>1, <2>2, <3>1, <3>2 DEF LockInv, CheckedFirst
    <3> QED
      BY <1>7, <1>8, <1>10, <3>3 DEF LockInv
  <2> QED
    BY <1>4, <2>3, <2>4
<1> QED
  BY <1>3, <1>11, <1>12

LEMMA SetKeeps ==
  ASSUME LockInv, NEW s \in Session, SetLock(s) \/ SetApproval(s)
  PROVE  LockInv'
PROOF
<1>1. handle[s] \in Copy /\ row \in Record /\ handle[s].revision < MaxRevision
      /\ pc[s] # "idle"
  BY DEF LockInv, TypeOK, SetLock, SetApproval
<1>2. handle[s].revision + 1 \in 0..MaxRevision
  BY <1>1 DEF Copy
<1>3. CASE SetLock(s)
  <2> DEFINE Set(r) == [r EXCEPT !.islocked = (pc[s] = "lock"), !.locker = s,
                                 !.revision = handle[s].revision + 1]
  <2>1. /\ Set(row) \in Record /\ Set(handle[s]) \in Copy
        /\ Set(row).isapproved = row.isapproved
        /\ Set(row).approver = row.approver
        /\ Set(row).content = row.content
    BY <1>1, <1>2 DEF Record, Copy, Person
  <2>2. Write(s, Set(row), Set(handle[s])) /\ Return(s, TRUE)
        /\ UNCHANGED signed
    BY <1>3 DEF SetLock
  <2> HIDE DEF Set
  <2>3. TypeOK'
    BY <2>1, <2>2 DEF LockInv, TypeOK, Write, Return, Person
  <2>4. ApprovalIsSigned'
    BY <1>1, <2>1, <2>2 DEF LockInv, ApprovalIsSigned, Write
  <2>5. CheckedFirst'
    BY <1>1, <2>1, <2>2 DEF LockInv, TypeOK, CheckedFirst, Write, Return
  <2> QED
    BY <2>1, <2>2, <2>3, <2>4, <2>5 DEF LockInv, TypeOK, Write, Return
<1>4. CASE SetApproval(s)
  <2> DEFINE Set(r) == [r EXCEPT !.isapproved = (pc[s] = "approve"), !.approver = s,
                                 !.revision = handle[s].revision + 1]
  <2>1. /\ Set(row) \in Record /\ Set(handle[s]) \in Copy
        /\ Set(row).approver = s
        /\ Set(row).content = row.content
    BY <1>1, <1>2 DEF Record, Copy, Person
  <2>2. Write(s, Set(row), Set(handle[s])) /\ Return(s, TRUE)
        /\ signed' = [by |-> s, content |-> row.content]
    BY <1>4 DEF SetApproval
  <2> HIDE DEF Set
  <2>3. row.content \in Content
    BY <1>1 DEF Record
  <2>4. TypeOK'
    BY <2>1, <2>2, <2>3 DEF LockInv, TypeOK, Write, Return, Person
  <2>5. ApprovalIsSigned'
    BY <2>1, <2>2 DEF ApprovalIsSigned, Write
  <2>6. CheckedFirst'
    BY <1>1, <2>1, <2>2 DEF LockInv, TypeOK, CheckedFirst, Write, Return
  <2> QED
    BY <2>1, <2>2, <2>4, <2>5, <2>6 DEF LockInv, TypeOK, Write, Return
<1> QED
  BY <1>3, <1>4

LEMMA LockStep == LockInv /\ [Next]_vars => LockInv'
PROOF
<1> SUFFICES ASSUME LockInv, [Next]_vars PROVE LockInv'
  OBVIOUS
<1>1. ASSUME NEW s \in Session, Refused(s) PROVE LockInv'
  BY <1>1 DEF Refused, Return, LockInv, TypeOK, ApprovalIsSigned, CheckedFirst
<1>2. CASE UNCHANGED vars
  BY <1>2 DEF vars, LockInv, TypeOK, ApprovalIsSigned, CheckedFirst
<1> QED
  BY <1>1, <1>2, CreateKeeps, FetchKeeps, UpdateKeeps, CheckKeeps, SetKeeps DEF Next

(* The record, the instances of the sessions and the history variables always *)
(* have their types.                                                          *)
THEOREM LockTypeCorrect == Spec => []TypeOK
PROOF
<1>1. LockInv => TypeOK
  BY DEF LockInv
<1> QED
  BY <1>1, LockInit, LockStep, PTL DEF Spec

(* However many sessions approve, update and lock with however old instances, *)
(* an approved record has the content and the approver of its approval.       *)
THEOREM ApprovalsAreGenuine == Spec => []ApprovalIsSigned
PROOF
<1>1. LockInv => ApprovalIsSigned
  BY DEF LockInv
<1> QED
  BY <1>1, LockInit, LockStep, PTL DEF Spec

(* An instance that holds what the record holds. *)
Agrees(h, r) ==
  /\ h.content = r.content
  /\ h.revision = r.revision
  /\ h.locker = r.locker /\ h.islocked \in {r.islocked, Unset}
  /\ h.approver = r.approver /\ h.isapproved \in {r.isapproved, Unset}

(* A session writes the record and its instance; everybody else's is stale.   *)
LEMMA WriteAgrees ==
  ASSUME LockInv, NEW s \in Session, NEW newRow \in Record, NEW newHandle \in Copy,
         Write(s, newRow, newHandle),
         ~stale[s] => Agrees(newHandle, newRow)
  PROVE  FreshHandleAgrees'
PROOF
<1>1. row' = newRow /\ newRow # None
  BY DEF Write
<1>2. ASSUME NEW t \in Session, handle'[t] # None, ~stale'[t]
      PROVE  row' # None /\ Agrees(handle'[t], row')
  <2>1. t = s /\ ~stale[s] /\ handle'[t] = newHandle
    BY <1>2 DEF Write, LockInv, TypeOK
  <2> QED
    BY <1>1, <2>1
<1> QED
  BY <1>2 DEF FreshHandleAgrees, Agrees

LEMMA AgreementStep ==
  ASSUME LockInv, FreshHandleAgrees, [Next]_vars
  PROVE  FreshHandleAgrees'
PROOF
<1>1. ASSUME NEW s \in Session, NEW c \in Content, Create(s, c) PROVE FreshHandleAgrees'
  <2> DEFINE new == [content |-> c, revision |-> 0, locker |-> Nobody, islocked |-> FALSE,
                     approver |-> Nobody, isapproved |-> FALSE]
             own == [new EXCEPT !.islocked = Unset, !.isapproved = Unset]
  <2>1. Write(s, new, own)
    BY <1>1 DEF Create
  <2>2. new \in Record
    BY DEF Record, Person
  <2>3. new \in Copy
    BY DEF Copy, Person
  <2>4. own \in Copy /\ Agrees(own, new)
    <3> HIDE DEF new
    <3> QED
      BY <2>3 DEF Copy, Agrees
  <2> QED
    BY <2>1, <2>2, <2>4, WriteAgrees
<1>2. ASSUME NEW s \in Session, Fetch(s) PROVE FreshHandleAgrees'
  BY <1>2 DEF Fetch, FreshHandleAgrees, LockInv, TypeOK
<1>3. ASSUME NEW s \in Session, NEW c \in Content, Update(s, c) PROVE FreshHandleAgrees'
  <2> DEFINE new == [Updated(s, c) EXCEPT !.islocked = row.islocked]
  <2>1. handle[s] # None /\ handle[s].revision < MaxRevision /\ Write(s, new, Updated(s, c))
    BY <1>3 DEF Update, MayCall
  <2>2. row \in Record
    BY <2>1 DEF LockInv, TypeOK
  <2>3. new \in Record /\ Updated(s, c) \in Copy
    BY <2>1, <2>2, UpdatedFields DEF LockInv
  <2>4. ~stale[s] => Agrees(Updated(s, c), new)
    <3>1. /\ new.content = Updated(s, c).content
          /\ new.revision = Updated(s, c).revision
          /\ new.locker = Updated(s, c).locker
          /\ new.approver = Updated(s, c).approver
      BY <2>1, <2>2, UpdatedFields DEF LockInv
    <3>3. new.islocked = row.islocked /\ Updated(s, c).islocked = handle[s].islocked
      BY <2>1, <2>2, UpdatedFields, Zenon DEF LockInv
    <3>4. new.isapproved = FALSE /\ Updated(s, c).isapproved = FALSE
      BY <2>1, <2>2, UpdatedFields, Zenon DEF LockInv
    <3>2. ~stale[s] => handle[s].islocked \in {row.islocked, Unset}
      BY <2>1 DEF FreshHandleAgrees
    <3> HIDE DEF new
    <3> QED
      BY <3>1, <3>2, <3>3, <3>4 DEF Agrees
  <2> QED
    BY <2>1, <2>3, <2>4, WriteAgrees
<1>4. ASSUME NEW s \in Session, NEW call \in Call, Check(s, call) PROVE FreshHandleAgrees'
  <2>1. handle[s] # None /\ handle[s] \in Copy /\ UNCHANGED <<row, stale>>
    BY <1>4 DEF Check, MayCall, LockInv, TypeOK
  <2>2. \/ UNCHANGED handle
        \/ /\ handle[s].islocked = Unset
           /\ handle' = [handle EXCEPT ![s].islocked = row.islocked]
        \/ /\ handle[s].isapproved = Unset
           /\ handle' = [handle EXCEPT ![s].isapproved = row.isapproved]
    BY <1>4 DEF Check, ReadFlag, Field
  <2> QED
    BY <2>1, <2>2 DEF LockInv, TypeOK, FreshHandleAgrees, Copy
<1>5. ASSUME NEW s \in Session, SetLock(s) PROVE FreshHandleAgrees'
  <2> DEFINE Set(r) == [r EXCEPT !.islocked = (pc[s] = "lock"), !.locker = s,
                                 !.revision = handle[s].revision + 1]
  <2>1. handle[s] \in Copy /\ row \in Record /\ handle[s].revision + 1 \in 0..MaxRevision
        /\ handle[s] # None
    BY <1>5 DEF SetLock, LockInv, TypeOK, Copy
  <2>2. Set(row) \in Record /\ Set(handle[s]) \in Copy
    BY <2>1 DEF Record, Copy, Person
  <2>3. ~stale[s] => Agrees(Set(handle[s]), Set(row))
    BY <2>1 DEF FreshHandleAgrees, Agrees, Record, Copy
  <2>4. Write(s, Set(row), Set(handle[s]))
    BY <1>5 DEF SetLock
  <2> QED
    BY <2>2, <2>3, <2>4, WriteAgrees
<1>6. ASSUME NEW s \in Session, SetApproval(s) PROVE FreshHandleAgrees'
  <2> DEFINE Set(r) == [r EXCEPT !.isapproved = (pc[s] = "approve"), !.approver = s,
                                 !.revision = handle[s].revision + 1]
  <2>1. handle[s] \in Copy /\ row \in Record /\ handle[s].revision + 1 \in 0..MaxRevision
        /\ handle[s] # None
    BY <1>6 DEF SetApproval, LockInv, TypeOK, Copy
  <2>2. Set(row) \in Record /\ Set(handle[s]) \in Copy
    BY <2>1 DEF Record, Copy, Person
  <2>3. ~stale[s] => Agrees(Set(handle[s]), Set(row))
    BY <2>1 DEF FreshHandleAgrees, Agrees, Record, Copy
  <2>4. Write(s, Set(row), Set(handle[s]))
    BY <1>6 DEF SetApproval
  <2> QED
    BY <2>2, <2>3, <2>4, WriteAgrees
<1>7. ASSUME NEW s \in Session, Refused(s) PROVE FreshHandleAgrees'
  BY <1>7 DEF Refused, FreshHandleAgrees
<1>8. ASSUME NEW s \in Session, NEW c \in Content, UpdateRefused(s, c)
      PROVE  FreshHandleAgrees'
  BY <1>8 DEF UpdateRefused, FreshHandleAgrees, LockInv, TypeOK
<1>9. CASE UNCHANGED vars
  BY <1>9 DEF vars, FreshHandleAgrees
<1> QED
  BY <1>1, <1>2, <1>3, <1>4, <1>5, <1>6, <1>7, <1>8, <1>9 DEF Next

(* An instance that nobody overtook, and no update of which was refused, is a *)
(* true copy of the record, at every moment of every interleaving.            *)
THEOREM InstancesAgree == Spec => []FreshHandleAgrees
PROOF
<1>1. Init => FreshHandleAgrees
  BY DEF Init, FreshHandleAgrees
<1>2. LockInv /\ FreshHandleAgrees /\ [Next]_vars => FreshHandleAgrees'
  BY AgreementStep
<1> QED
  BY <1>1, <1>2, LockInit, LockStep, PTL DEF Spec

(* A lock is granted on an object that is locked only to a session with an    *)
(* old instance or a refused SELECT: what the check found still holds when    *)
(* the UPDATE is run, however many statements of others come in between.      *)
THEOREM LocksExclude == Spec => LockExcludes
PROOF
<1> DEFINE Excludes == \A s \in Session :
             /\ pc[s] = "lock" /\ pc'[s] = "idle" /\ ret'[s]
             /\ ~stale[s] /\ handle[s].islocked # Unset
             => ~row.islocked
<1>1. LockInv /\ FreshHandleAgrees => Excludes
  BY DEF LockInv, TypeOK, Record, CheckedFirst, Wanted, FreshHandleAgrees
<1>2. LockInv /\ FreshHandleAgrees /\ [Next]_vars => [Excludes]_vars
  BY <1>1
<1>3. Spec => []LockInv
  BY LockInit, LockStep, PTL DEF Spec
<1>4. Spec => [][Next]_vars
  BY PTL DEF Spec
<1>5. Spec => [][Excludes]_vars
  BY <1>2, <1>3, <1>4, InstancesAgree, PTL
<1> QED
  BY <1>5 DEF LockExcludes

(* The part of CurrentWriterLosesNothing about one session. *)
LosesNothing(s) ==
  /\ row'.revision = row.revision + 1
  /\ pc[s] \notin {"lock", "unlock"} =>
       row'.locker = row.locker /\ row'.islocked = row.islocked
  /\ pc[s] \notin {"approve", "unapprove"} => row'.approver = row.approver

LEMMA WriterStep ==
  ASSUME LockInv, FreshHandleAgrees, [Next]_vars, NEW s \in Session, Wrote(s), ~stale[s]
  PROVE  LosesNothing(s)
PROOF
<1>1. row \in Record /\ row # None
  BY DEF Wrote, LockInv, TypeOK
<1>2. ASSUME NEW t \in Session, NEW h, handle' = [handle EXCEPT ![t] = h] PROVE t = s
  BY <1>2 DEF Wrote, LockInv, TypeOK
<1>3. ASSUME NEW t \in Session, NEW c \in Content, Update(t, c) PROVE LosesNothing(s)
  <2>1. s = t
    BY <1>2, <1>3 DEF Update, Write
  <2>2. handle[s] # None /\ handle[s].revision < MaxRevision /\ pc[s] = "idle"
        /\ row' = [Updated(s, c) EXCEPT !.islocked = row.islocked]
    BY <1>3, <2>1 DEF Update, MayCall, Write
  <2>3. row'.revision = handle[s].revision + 1 /\ row'.locker = handle[s].locker
        /\ row'.approver = handle[s].approver
    BY <1>1, <2>2, UpdatedFields DEF LockInv
  <2>4. row'.islocked = row.islocked
    BY <1>1, <2>2, UpdatedFields, Zenon DEF LockInv
  <2>5. handle[s].revision = row.revision /\ handle[s].locker = row.locker
        /\ handle[s].approver = row.approver
    BY <2>2 DEF FreshHandleAgrees
  <2> QED
    BY <2>2, <2>3, <2>4, <2>5 DEF LosesNothing
<1>4. ASSUME NEW t \in Session, SetLock(t) \/ SetApproval(t) PROVE LosesNothing(s)
  <2>1. s = t
    BY <1>2, <1>4 DEF SetLock, SetApproval, Write
  <2>2. handle[s] # None /\ handle[s] \in Copy
    BY <1>4, <2>1 DEF SetLock, SetApproval, LockInv, TypeOK
  <2>3. handle[s].revision = row.revision
    BY <2>2 DEF FreshHandleAgrees
  <2>4. CASE SetLock(t)
    <3>1. pc[s] \in {"lock", "unlock"}
          /\ row' = [row EXCEPT !.islocked = (pc[s] = "lock"), !.locker = s,
                                !.revision = handle[s].revision + 1]
      BY <2>1, <2>4 DEF SetLock, Write
    <3> QED
      BY <1>1, <2>3, <3>1 DEF LosesNothing, Record
  <2>5. CASE SetApproval(t)
    <3>1. pc[s] \in {"approve", "unapprove"}
          /\ row' = [row EXCEPT !.isapproved = (pc[s] = "approve"), !.approver = s,
                                !.revision = handle[s].revision + 1]
      BY <2>1, <2>5 DEF SetApproval, Write
    <3>2. row'.locker = row.locker /\ row'.islocked = row.islocked
          /\ row'.revision = handle[s].revision + 1
      BY <1>1, <3>1 DEF Record
    <3> QED
      BY <2>3, <3>1, <3>2 DEF LosesNothing
  <2> QED
    BY <1>4, <2>4, <2>5
<1>5. ASSUME NEW t \in Session, NEW c \in Content, Create(t, c) PROVE FALSE
  BY <1>1, <1>5 DEF Create
<1>6. ASSUME NEW t \in Session,
             \/ Fetch(t) \/ Refused(t)
             \/ \E c \in Content : UpdateRefused(t, c)
             \/ \E call \in Call : Check(t, call)
      PROVE  FALSE
  <2>1. row' = row
    BY <1>6 DEF Fetch, Refused, UpdateRefused, Check
  <2> QED
    BY <2>1 DEF Wrote
<1>7. CASE UNCHANGED vars
  BY <1>7 DEF vars, Wrote
<1> QED
  BY <1>3, <1>4, <1>5, <1>6, <1>7 DEF Next

(* Whoever writes with a current instance increases the revision by one and   *)
(* overwrites neither a lock nor an approval of somebody else.                *)
THEOREM NothingIsLost == Spec => CurrentWriterLosesNothing
PROOF
<1> DEFINE Keeps == \A s \in Session : Wrote(s) /\ ~stale[s] => LosesNothing(s)
<1>1. LockInv /\ FreshHandleAgrees /\ [Next]_vars => [Keeps]_vars
  BY WriterStep
<1>2. Spec => []LockInv
  BY LockInit, LockStep, PTL DEF Spec
<1>3. Spec => [][Next]_vars
  BY PTL DEF Spec
<1>4. Spec => [][Keeps]_vars
  BY <1>1, <1>2, <1>3, InstancesAgree, PTL
<1> QED
  BY <1>4 DEF CurrentWriterLosesNothing, LosesNothing

=============================================================================
