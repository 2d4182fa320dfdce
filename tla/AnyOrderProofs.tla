--------------------------- MODULE AnyOrderProofs ---------------------------
(***************************************************************************)
(* What the two modules guarantee that read what was written elsewhere, in *)
(* whatever order it comes and however often: Schema reads the files of a  *)
(* directory and what they include, for every set of files; Replication    *)
(* imports documents, for every number of sites, objects, authors and      *)
(* seconds.                                                                *)
(***************************************************************************)
EXTENDS Replication, Schema, WellFoundedInduction, TLAPS

-----------------------------------------------------------------------------
(* Schema: what reading a definition leaves alone.                             *)

(* A set of numbers has a least one: the form in which the proofs below do     *)
(* their inductions.                                                            *)
LEMMA LeastOf == ASSUME NEW S \in SUBSET Nat, S # {} PROVE \E k \in S : \A m \in S : k <= m
PROOF
<1>1. IsWellFoundedOn(OpToRel(<, Nat), Nat)
  BY NatLessThanWellFounded
<1>2. PICK k \in S : \A m \in S : ~ (<<m, k>> \in OpToRel(<, Nat))
  BY <1>1, WFMin, Zenon
<1>3. ASSUME NEW m \in S PROVE ~ (m < k)
  <2>1. m \in Nat /\ k \in Nat
    OBVIOUS
  <2> QED
    BY <1>2, <2>1, Zenon DEF OpToRel
<1> QED
  BY <1>3

(* A type that has a parent and a list of children has the same ones.          *)
Same(t, u) ==
  /\ {"parent", "childs"} \subseteq DOMAIN u
  /\ u.parent = t.parent /\ u.childs = t.childs

LEMMA AttributeKeeps ==
  ASSUME NEW name, NEW both, NEW a, NEW t,
         "type" \in DOMAIN both, Same(t, both.type)
  PROVE  /\ "type" \in DOMAIN ReadAttribute(name, both, a)
         /\ Same(t, ReadAttribute(name, both, a).type)
PROOF
<1> DEFINE u == both.type
           p == both.property
           v == a[2]
<1>1. \A q : /\ "type" \in DOMAIN [both EXCEPT !.property = q]
             /\ [both EXCEPT !.property = q].type = u
  OBVIOUS
<1> DEFINE read == ReadAttribute(name, both, a)
<1>2. \/ \E q : read = [both EXCEPT !.property = q]
      \/ \E r : read = [type |-> [u EXCEPT !.useLang = TRUE], property |-> r]
      \/ \E r : read = [type |-> [u EXCEPT !.up = First(@, name)], property |-> r]
      \/ \E r : read = [type |-> [u EXCEPT !.parentProperty = First(@, name)], property |-> r]
      \/ \E r : read = [type |-> [u EXCEPT !.primary = name, !.primaryField = v], property |-> r]
      \/ read = both
  BY DEF ReadAttribute
<1>3. Same(t, u)
  OBVIOUS
<1> HIDE DEF read
<1>4. "type" \in DOMAIN read /\ Same(t, read.type)
  <2>1. CASE \E q : read = [both EXCEPT !.property = q]
    <3>1. PICK q : read = [both EXCEPT !.property = q]
      BY <2>1
    <3>2. "type" \in DOMAIN read /\ read.type = u
      BY <3>1, <1>1
    <3> QED
      BY <3>2, <1>3 DEF Same
  <2>2. CASE \E r : read = [type |-> [u EXCEPT !.useLang = TRUE], property |-> r]
    <3>1. PICK r : read = [type |-> [u EXCEPT !.useLang = TRUE], property |-> r]
      BY <2>2
    <3>2. "type" \in DOMAIN read /\ read.type = [u EXCEPT !.useLang = TRUE]
      BY <3>1
    <3> QED
      BY <3>2, <1>3 DEF Same
  <2>3. CASE \E r : read = [type |-> [u EXCEPT !.up = First(@, name)], property |-> r]
    <3>1. PICK r : read = [type |-> [u EXCEPT !.up = First(@, name)], property |-> r]
      BY <2>3
    <3>2. "type" \in DOMAIN read /\ read.type = [u EXCEPT !.up = First(@, name)]
      BY <3>1
    <3> QED
      BY <3>2, <1>3 DEF Same
  <2>4. CASE \E r : read = [type |-> [u EXCEPT !.parentProperty = First(@, name)], property |-> r]
    <3>1. PICK r : read = [type |-> [u EXCEPT !.parentProperty = First(@, name)], property |-> r]
      BY <2>4
    <3>2. "type" \in DOMAIN read /\ read.type = [u EXCEPT !.parentProperty = First(@, name)]
      BY <3>1
    <3> QED
      BY <3>2, <1>3 DEF Same
  <2>5. CASE \E r : read = [type |-> [u EXCEPT !.primary = name, !.primaryField = v], property |-> r]
    <3>1. PICK r : read = [type |-> [u EXCEPT !.primary = name, !.primaryField = v], property |-> r]
      BY <2>5
    <3>2. "type" \in DOMAIN read /\ read.type = [u EXCEPT !.primary = name, !.primaryField = v]
      BY <3>1
    <3> QED
      BY <3>2, <1>3 DEF Same
  <2>6. CASE read = both
    BY <2>6, <1>3
  <2> QED
    BY <1>2, <2>1, <2>2, <2>3, <2>4, <2>5, <2>6
<1> QED
  BY <1>4 DEF read

(* So do all the attributes of a property. *)
LEMMA PropertyKeeps ==
  ASSUME NEW t, NEW u, NEW d, Same(t, u), Listed(d.attrs)
  PROVE  Same(t, ReadProperty(u, d))
PROOF
<1> DEFINE N == Len(d.attrs)
           base == [type |-> u, property |-> NewProperty(PropertyType(d.attrs))]
           Step(both, n) == ReadAttribute(d.name, both, d.attrs[n])
           Fits(both) == "type" \in DOMAIN both /\ Same(t, both.type)
<1>1. N \in Nat
  BY DEF Listed
<1>5. /\ Fits(base)
      /\ \A both : \A n \in 1..N : Fits(both) => Fits(Step(both, n))
  <2>1. Fits(base)
    OBVIOUS
  <2> QED
    BY <2>1, AttributeKeeps
<1> HIDE DEF Step, N, base
<1> DEFINE IsRun(f, n) == f = [x \in 0..n |-> IF x = 0 THEN base ELSE Step(f[x - 1], x)]
           bad == {n \in Nat : ~ \E f : IsRun(f, n)}
<1>2. bad = {}
  <2>1. SUFFICES ASSUME bad # {} PROVE FALSE
    OBVIOUS
  <2>2. PICK m \in bad : \A k \in bad : m <= k
    BY <2>1, LeastOf
  <2>3. CASE m = 0
    <3>1. PICK f : f = [x \in 0..0 |-> base]
      OBVIOUS
    <3>2. IsRun(f, 0)
      BY <3>1
    <3> QED
      BY <2>2, <2>3, <3>2
  <2>4. CASE m # 0
    <3>1. m \in Nat /\ m - 1 \in Nat /\ ~ (m <= m - 1)
      BY <2>4
    <3>2. PICK f : IsRun(f, m - 1)
      BY <2>2, <3>1
    <3>3. PICK g : g = [x \in 0..m |-> IF x = m THEN Step(f[m - 1], m) ELSE f[x]]
      OBVIOUS
    <3>4. \A x \in 0..m : x = m \/ x \in 0..(m - 1)
      BY <3>1
    <3>5. \A x \in 0..(m - 1) : /\ x # m /\ x \in 0..m /\ f[x] = g[x]
      BY <3>1, <3>3
    <3>6. \A x \in 1..m : x - 1 \in 0..(m - 1) /\ f[x - 1] = g[x - 1]
      BY <3>1, <3>5
    <3>7. \A x \in 0..(m - 1) : f[x] = IF x = 0 THEN base ELSE Step(f[x - 1], x)
      BY <3>2
    <3>8. \A x \in 0..(m - 1) : g[x] = IF x = 0 THEN base ELSE Step(g[x - 1], x)
      <4>1. \A x \in 0..(m - 1) : x = 0 \/ x \in 1..m
        BY <3>1
      <4> QED
        BY <3>5, <3>6, <3>7, <4>1
    <3>9. g[m] = IF m = 0 THEN base ELSE Step(g[m - 1], m)
      <4>1. m \in 1..m /\ m \in 0..m
        BY <2>4, <3>1
      <4> QED
        BY <2>4, <3>3, <3>6, <4>1
    <3>10. \A x \in 0..m : g[x] = IF x = 0 THEN base ELSE Step(g[x - 1], x)
      BY <3>4, <3>8, <3>9
    <3>11. IsRun(g, m)
      BY <3>3, <3>10
    <3> QED
      BY <2>2, <3>11
  <2> QED
    BY <2>3, <2>4
<1>3. PICK after : after = CHOOSE f : IsRun(f, N)
  OBVIOUS
<1>4. IsRun(after, N)
  BY <1>1, <1>2, <1>3
<1> HIDE DEF Fits
<1> DEFINE worse == {n \in Nat : n <= N /\ ~ Fits(after[n])}
<1>6. worse = {}
  <2>1. SUFFICES ASSUME worse # {} PROVE FALSE
    OBVIOUS
  <2>2. PICK m \in worse : \A k \in worse : m <= k
    BY <2>1, LeastOf
  <2>3. m \in 0..N /\ m <= N
    BY <1>1
  <2>4. m # 0
    BY <1>4, <1>5, <2>2, <2>3
  <2>5. after[m] = Step(after[m - 1], m)
    BY <1>4, <2>3, <2>4
  <2>6. m - 1 \in Nat /\ m - 1 <= N /\ ~ (m <= m - 1) /\ m \in 1..N
    BY <1>1, <2>3, <2>4
  <2>7. Fits(after[m - 1])
    BY <2>2, <2>6
  <2> QED
    BY <1>5, <2>2, <2>5, <2>6, <2>7
<1>7. Fits(after[N])
  BY <1>1, <1>6
<1>8. ReadProperty(u, d) =
        IF d.name \in DOMAIN u.props THEN u
        ELSE [after[N].type EXCEPT !.props = (d.name :> [after[N].property EXCEPT !.field = First(@, d.name)]) @@ @,
                                   !.order = Append(@, d.name)]
  BY <1>3 DEF ReadProperty, N, base, Step
<1>9. Same(t, after[N].type)
  BY <1>7 DEF Fits
<1>10. PICK read : read = after[N].type
  OBVIOUS
<1>11. CASE d.name \in DOMAIN u.props
  BY <1>8, <1>11
<1>12. CASE d.name \notin DOMAIN u.props
  <2>1. PICK x, y : ReadProperty(u, d) = [read EXCEPT !.props = x, !.order = y]
    BY <1>8, <1>10, <1>12
  <2> QED
    BY <1>9, <1>10, <2>1 DEF Same
<1> QED
  BY <1>11, <1>12

(* A type as it is read has the parent its definition names, and no children. *)
LEMMA ReadTypeIs ==
  ASSUME NEW d, Listed(d.props), \A q \in DOMAIN d.props : Listed(d.props[q].attrs)
  PROVE  /\ {"parent", "childs"} \subseteq DOMAIN ReadType(d)
         /\ ReadType(d).parent = d.parent /\ ReadType(d).childs = {}
PROOF
<1> DEFINE N == Len(d.props)
           base == NewType(d.table, d.parent)
           Step(t, n) == ReadProperty(t, d.props[n])
           Fits(t) == Same(base, t)
<1>1. N \in Nat /\ DOMAIN d.props = 1..N
  BY DEF Listed
<1>5. /\ Fits(base)
      /\ \A t : \A n \in 1..N : Fits(t) => Fits(Step(t, n))
  <2>1. Fits(base)
    BY DEF Same, NewType
  <2> QED
    BY <1>1, <2>1, PropertyKeeps
<1>a. base.parent = d.parent /\ base.childs = {}
  BY DEF NewType
<1> HIDE DEF Step, N, base
<1> DEFINE IsRun(f, n) == f = [x \in 0..n |-> IF x = 0 THEN base ELSE Step(f[x - 1], x)]
           bad == {n \in Nat : ~ \E f : IsRun(f, n)}
<1>2. bad = {}
  <2>1. SUFFICES ASSUME bad # {} PROVE FALSE
    OBVIOUS
  <2>2. PICK m \in bad : \A k \in bad : m <= k
    BY <2>1, LeastOf
  <2>3. CASE m = 0
    <3>1. PICK f : f = [x \in 0..0 |-> base]
      OBVIOUS
    <3>2. IsRun(f, 0)
      BY <3>1
    <3> QED
      BY <2>2, <2>3, <3>2
  <2>4. CASE m # 0
    <3>1. m \in Nat /\ m - 1 \in Nat /\ ~ (m <= m - 1)
      BY <2>4
    <3>2. PICK f : IsRun(f, m - 1)
      BY <2>2, <3>1
    <3>3. PICK g : g = [x \in 0..m |-> IF x = m THEN Step(f[m - 1], m) ELSE f[x]]
      OBVIOUS
    <3>4. \A x \in 0..m : x = m \/ x \in 0..(m - 1)
      BY <3>1
    <3>5. \A x \in 0..(m - 1) : /\ x # m /\ x \in 0..m /\ f[x] = g[x]
      BY <3>1, <3>3
    <3>6. \A x \in 1..m : x - 1 \in 0..(m - 1) /\ f[x - 1] = g[x - 1]
      BY <3>1, <3>5
    <3>7. \A x \in 0..(m - 1) : f[x] = IF x = 0 THEN base ELSE Step(f[x - 1], x)
      BY <3>2
    <3>8. \A x \in 0..(m - 1) : g[x] = IF x = 0 THEN base ELSE Step(g[x - 1], x)
      <4>1. \A x \in 0..(m - 1) : x = 0 \/ x \in 1..m
        BY <3>1
      <4> QED
        BY <3>5, <3>6, <3>7, <4>1
    <3>9. g[m] = IF m = 0 THEN base ELSE Step(g[m - 1], m)
      <4>1. m \in 1..m /\ m \in 0..m
        BY <2>4, <3>1
      <4> QED
        BY <2>4, <3>3, <3>6, <4>1
    <3>10. \A x \in 0..m : g[x] = IF x = 0 THEN base ELSE Step(g[x - 1], x)
      BY <3>4, <3>8, <3>9
    <3>11. IsRun(g, m)
      BY <3>3, <3>10
    <3> QED
      BY <2>2, <3>11
  <2> QED
    BY <2>3, <2>4
<1>3. PICK after : after = CHOOSE f : IsRun(f, N)
  OBVIOUS
<1>4. IsRun(after, N)
  BY <1>1, <1>2, <1>3
<1> HIDE DEF Fits
<1> DEFINE worse == {n \in Nat : n <= N /\ ~ Fits(after[n])}
<1>6. worse = {}
  <2>1. SUFFICES ASSUME worse # {} PROVE FALSE
    OBVIOUS
  <2>2. PICK m \in worse : \A k \in worse : m <= k
    BY <2>1, LeastOf
  <2>3. m \in 0..N /\ m <= N
    BY <1>1
  <2>4. m # 0
    BY <1>4, <1>5, <2>2, <2>3
  <2>5. after[m] = Step(after[m - 1], m)
    BY <1>4, <2>3, <2>4
  <2>6. m - 1 \in Nat /\ m - 1 <= N /\ ~ (m <= m - 1) /\ m \in 1..N
    BY <1>1, <2>3, <2>4
  <2>7. Fits(after[m - 1])
    BY <2>2, <2>6
  <2> QED
    BY <1>5, <2>2, <2>5, <2>6, <2>7
<1>7. Fits(after[N])
  BY <1>1, <1>6
<1>8. ReadType(d) = after[N]
  BY <1>3 DEF ReadType, N, base, Step
<1>9. Same(base, ReadType(d))
  BY <1>7, <1>8 DEF Fits
<1> QED
  BY <1>9, <1>a DEF Same
-----------------------------------------------------------------------------
(* Schema: the inductive invariant.  While the files are read, the roots done  *)
(* and the current one are those taken from the directory so far.  Of the      *)
(* current one the files seen are reached from it, and what they include is    *)
(* seen too or still to be visited, and what would end the process is still to *)
(* be visited, nor did the roots done lead to any; the types are, each once, those the files  *)
(* of the roots done and the files parsed define; no type has a child that is  *)
(* not a class that names it as its parent, and after every file each has them *)
(* all.                                                                        *)
Paths ==
  {source.global} \cup source.dir
  \cup UNION {Range(source.file[p].includes) : p \in {x \in DOMAIN source.file : Readable(x)}}

Visited(cur) ==
  /\ stack \in Seq(Paths) /\ files \subseteq Reached(cur) /\ parsed \subseteq files
  /\ \A q \in Range(stack) : Readable(q) => q \in Reached(cur)
  /\ Readable(cur) => cur \in files \cup Range(stack)
  /\ Included(files) \subseteq files \cup Range(stack)
  /\ Breaks(cur) => cur \in Range(stack)
  /\ \A p \in files : \A q \in Range(source.file[p].includes) : Breaks(q) => q \in Range(stack)
  /\ parsed # {} \/ pc # "files" => stack = <<>>
  /\ pc # "files" => parsed = files

Pairs(done, cur) ==
  {d \in done \X DOMAIN source.file : d[2] \in Reached(d[1])} \cup ({cur} \X parsed)
DefinitionsOf(D) == UNION {{<<d[1], d[2], i>> : i \in DOMAIN source.file[d[2]].types} : d \in D}
DefinedParent(d) == source.file[d[2]].types[d[3]].parent

Collected(D) ==
  /\ DOMAIN types = {DefinedName(d) : d \in DefinitionsOf(D)}
  /\ \A d, e \in DefinitionsOf(D) : DefinedName(d) = DefinedName(e) => d = e
  /\ \A d \in DefinitionsOf(D) : types[DefinedName(d)].parent = DefinedParent(d)

Mirrored ==
  /\ classes \subseteq DOMAIN types
  /\ \A n \in DOMAIN types :
       /\ {"parent", "childs"} \subseteq DOMAIN types[n]
       /\ types[n].childs \ {None} \subseteq {c \in classes : types[c].parent = n}
       /\ pc = "next" => {c \in classes : types[c].parent = n} \subseteq types[n].childs

Reading(done, cur) ==
  /\ pc \in {"files", "register", "next"}
  /\ entries \subseteq source.dir
  /\ done \cup {cur} = {source.global} \cup (source.dir \ entries)
  /\ Visited(cur) /\ Collected(Pairs(done, cur)) /\ Mirrored
  /\ \A path \in done : Sound(path)

SchemaInv ==
  /\ source \in Sources
  /\ \/ pc \in {"ready", "aborted"}
     \/ pc = "start" /\ entries = source.dir /\ types = <<>> /\ classes = {}
     \/ \E done \in SUBSET Roots, cur \in Roots : Reading(done, cur)
(* What is reached from a path: the path and all that is included, and no more.*)
LEMMA ReachedIs ==
  ASSUME NEW path
  PROVE  /\ Reached(path) \subseteq DOMAIN source.file
         /\ \A p \in Reached(path) : Readable(p)
         /\ Readable(path) => path \in Reached(path)
         /\ \A S \in SUBSET Reached(path) : Included(S) \subseteq Reached(path)
         /\ \A S \in SUBSET DOMAIN source.file :
              (Readable(path) => path \in S) /\ Included(S) \subseteq S => Reached(path) \subseteq S
PROOF
<1>1. Reached(path) \subseteq DOMAIN source.file
  BY DEF Reached
<1>2. \A p \in Reached(path) : Readable(p)
  <2> DEFINE S == {q \in DOMAIN source.file : Readable(q)}
  <2>1. S \in SUBSET DOMAIN source.file /\ (Readable(path) => path \in S) /\ Included(S) \subseteq S
    BY DEF Included, Readable
  <2>2. Reached(path) \subseteq S
    BY <2>1 DEF Reached
  <2> QED
    BY <2>2
<1>3. Readable(path) => path \in Reached(path)
  BY DEF Reached, Readable
<1>4. ASSUME NEW S \in SUBSET Reached(path), NEW q \in Included(S) PROVE q \in Reached(path)
  <2>1. q \in DOMAIN source.file
    BY DEF Included
  <2>2. SUFFICES ASSUME NEW T \in SUBSET DOMAIN source.file,
                        Readable(path) => path \in T, Included(T) \subseteq T
                 PROVE  q \in T
    BY <2>1 DEF Reached
  <2>3. S \subseteq T
    BY <2>2 DEF Reached
  <2>4. q \in Included(T)
    BY <2>3 DEF Included
  <2> QED
    BY <2>2, <2>4
<1>5. \A S \in SUBSET DOMAIN source.file :
        (Readable(path) => path \in S) /\ Included(S) \subseteq S => Reached(path) \subseteq S
  BY DEF Reached
<1> QED
  BY <1>1, <1>2, <1>3, <1>4, <1>5

(* When nothing is left to be visited, all that is reached has been seen.      *)
LEMMA AllSeen ==
  ASSUME NEW cur, Visited(cur), stack = <<>>
  PROVE  files = Reached(cur) /\ Sound(cur)
PROOF
<1>1. Range(stack) = {}
  BY DEF Range
<1>2. (Readable(cur) => cur \in files) /\ Included(files) \subseteq files /\ files \subseteq Reached(cur)
  BY <1>1 DEF Visited
<1>3. files \subseteq DOMAIN source.file
  BY <1>2, ReachedIs
<1>4. files = Reached(cur)
  BY <1>2, <1>3, ReachedIs
<1> QED
  BY <1>1, <1>4 DEF Visited, Sound

(* A type prepared for its registration keeps its parent and its children.     *)
LEMMA PreparedKeeps ==
  ASSUME NEW t, {"parent", "childs"} \subseteq DOMAIN t
  PROVE  Same(t, Prepared(t))
PROOF
<1>1. PICK x, y : Prepared(t) = [t EXCEPT !.tables = x, !.props = y]
  BY DEF Prepared
<1> QED
  BY <1>1 DEF Same

(* What depends on the files alone.                                            *)
LEMMA FilesStay ==
  ASSUME source' = source
  PROVE  /\ \A p : (Readable(p)' <=> Readable(p)) /\ (Breaks(p)' <=> Breaks(p))
         /\ \A p : Sound(p)' <=> Sound(p)
         /\ \A S : Included(S)' = Included(S)
         /\ \A p : Reached(p)' = Reached(p)
         /\ Paths' = Paths /\ Roots' = Roots
         /\ \A d : DefinedName(d)' = DefinedName(d) /\ DefinedParent(d)' = DefinedParent(d)
         /\ \A D : DefinitionsOf(D)' = DefinitionsOf(D)
PROOF
<1>1. \A p : Readable(p)' <=> Readable(p)
  BY DEF Readable
<1>2. \A S : Included(S)' = Included(S)
  BY <1>1 DEF Included
<1>3. \A p : Reached(p)' = Reached(p)
  BY <1>1, <1>2 DEF Reached
<1>4. Paths' = Paths /\ Roots' = Roots
  BY <1>1 DEF Paths, Roots
<1>5. \A d : DefinedName(d)' = DefinedName(d) /\ DefinedParent(d)' = DefinedParent(d)
  BY DEF DefinedName, DefinedParent
<1>6. \A D : DefinitionsOf(D)' = DefinitionsOf(D)
  BY DEF DefinitionsOf
<1>7. \A p : Breaks(p)' <=> Breaks(p)
  BY DEF Breaks
<1>8. \A p : Sound(p)' <=> Sound(p)
  BY <1>3, <1>7 DEF Sound
<1> QED
  BY <1>1, <1>2, <1>3, <1>4, <1>5, <1>6, <1>7, <1>8

(* The definitions are those of the files of each root.                        *)
LEMMA DefinitionsAre ==
  ASSUME NEW D
  PROVE  \A d : d \in DefinitionsOf(D) <=>
           \E e \in D : \E k \in DOMAIN source.file[e[2]].types : d = <<e[1], e[2], k>>
PROOF
  BY DEF DefinitionsOf

LEMMA DefinitionsOfMore ==
  ASSUME NEW D, NEW E
  PROVE  DefinitionsOf(D \cup E) = DefinitionsOf(D) \cup DefinitionsOf(E)
PROOF
  BY DEF DefinitionsOf

(* The paths of the stack.                                                     *)
LEMMA StackIs ==
  ASSUME NEW S, NEW s \in Seq(S), s # <<>>
  PROVE  /\ Head(s) \in S /\ Tail(s) \in Seq(S)
         /\ Range(s) = {Head(s)} \cup Range(Tail(s))
PROOF
<1>1. Len(s) \in Nat /\ Len(s) >= 1 /\ Head(s) = s[1]
  OBVIOUS
<1>2. Tail(s) \in Seq(S) /\ Len(Tail(s)) = Len(s) - 1 /\ \A i \in 1..(Len(s) - 1) : Tail(s)[i] = s[i + 1]
  BY <1>1
<1>3. ASSUME NEW x \in Range(s) PROVE x = Head(s) \/ x \in Range(Tail(s))
  <2>1. PICK i \in 1..Len(s) : x = s[i]
    BY DEF Range
  <2>2. CASE i = 1
    BY <1>1, <2>1, <2>2
  <2>3. CASE i # 1
    <3>1. i - 1 \in 1..(Len(s) - 1) /\ (i - 1) + 1 = i
      BY <1>1, <2>3
    <3>2. Tail(s)[i - 1] = x /\ i - 1 \in DOMAIN Tail(s)
      BY <1>2, <2>1, <3>1
    <3> QED
      BY <3>2 DEF Range
  <2> QED
    BY <2>2, <2>3
<1>4. ASSUME NEW x \in Range(Tail(s)) PROVE x \in Range(s)
  <2>1. PICK i \in DOMAIN Tail(s) : x = Tail(s)[i]
    BY DEF Range
  <2>2. i \in 1..(Len(s) - 1) /\ i + 1 \in 1..Len(s)
    BY <1>1, <1>2, <2>1
  <2>3. x = s[i + 1] /\ i + 1 \in DOMAIN s
    BY <1>2, <2>1, <2>2
  <2> QED
    BY <2>3 DEF Range
<1>5. Head(s) \in Range(s)
  BY <1>1 DEF Range
<1> QED
  BY <1>1, <1>2, <1>3, <1>4, <1>5

LEMMA Concatenated ==
  ASSUME NEW S, NEW s \in Seq(S), NEW t \in Seq(S)
  PROVE  s \o t \in Seq(S) /\ Range(s \o t) = Range(s) \cup Range(t)
PROOF
<1>1. /\ s \o t \in Seq(S) /\ Len(s) \in Nat /\ Len(t) \in Nat /\ Len(s \o t) = Len(s) + Len(t)
      /\ \A i \in 1..(Len(s) + Len(t)) : (s \o t)[i] = IF i <= Len(s) THEN s[i] ELSE t[i - Len(s)]
  OBVIOUS
<1>2. ASSUME NEW x \in Range(s \o t) PROVE x \in Range(s) \cup Range(t)
  <2>1. PICK i \in 1..(Len(s) + Len(t)) : x = (s \o t)[i]
    BY <1>1 DEF Range
  <2>2. CASE i <= Len(s)
    <3>1. i \in DOMAIN s /\ x = s[i]
      BY <1>1, <2>1, <2>2
    <3> QED
      BY <3>1 DEF Range
  <2>3. CASE ~ (i <= Len(s))
    <3>1. i - Len(s) \in DOMAIN t /\ x = t[i - Len(s)]
      BY <1>1, <2>1, <2>3
    <3> QED
      BY <3>1 DEF Range
  <2> QED
    BY <2>2, <2>3
<1>3. ASSUME NEW x \in Range(s) PROVE x \in Range(s \o t)
  <2>1. PICK i \in 1..Len(s) : x = s[i]
    BY DEF Range
  <2>2. i \in 1..(Len(s) + Len(t)) /\ i <= Len(s)
    BY <1>1
  <2>3. i \in DOMAIN (s \o t) /\ x = (s \o t)[i]
    BY <1>1, <2>1, <2>2
  <2> QED
    BY <2>3 DEF Range
<1>4. ASSUME NEW x \in Range(t) PROVE x \in Range(s \o t)
  <2>1. PICK i \in 1..Len(t) : x = t[i]
    BY DEF Range
  <2>2. Len(s) + i \in 1..(Len(s) + Len(t)) /\ ~ (Len(s) + i <= Len(s)) /\ (Len(s) + i) - Len(s) = i
    BY <1>1
  <2>3. Len(s) + i \in DOMAIN (s \o t) /\ x = (s \o t)[Len(s) + i]
    BY <1>1, <2>1, <2>2
  <2> QED
    BY <2>3 DEF Range
<1> QED
  BY <1>1, <1>2, <1>3, <1>4

(* What a file that can be read says is in order.                              *)
LEMMA FileIs ==
  ASSUME source \in Sources, NEW p, Readable(p)
  PROVE  /\ source.file[p].includes \in Seq(Paths)
         /\ DOMAIN source.file[p].types = 1..Len(source.file[p].types)
         /\ \A k \in DOMAIN source.file[p].types :
              LET t == source.file[p].types[k]
              IN  /\ t.name # None /\ Listed(t.props)
                  /\ \A q \in DOMAIN t.props : Listed(t.props[q].attrs)
PROOF
<1>1. p \in DOMAIN source.file /\ source.file[p] # Malformed
  BY DEF Readable
<1>2. /\ Listed(source.file[p].includes) /\ Listed(source.file[p].types)
      /\ \A k \in DOMAIN source.file[p].types :
           LET t == source.file[p].types[k]
           IN  /\ t.name # None /\ Listed(t.props)
               /\ \A q \in DOMAIN t.props : Listed(t.props[q].attrs)
  BY <1>1, SchemaAssumption DEF SourcesAssumption
<1>3. Range(source.file[p].includes) \subseteq Paths
  BY <1>1 DEF Paths
<1>4. source.file[p].includes \in Seq(Paths)
  BY <1>2, <1>3 DEF Listed
<1>5. DOMAIN source.file[p].types = 1..Len(source.file[p].types)
  BY <1>2 DEF Listed
<1> QED
  BY <1>2, <1>4, <1>5

(* Each step.  What was collected stays so while no type is read.              *)
LEMMA CollectedStays ==
  ASSUME NEW D, Collected(D), source' = source, DOMAIN types' = DOMAIN types,
         \A n \in DOMAIN types : types'[n].parent = types[n].parent
  PROVE  Collected(D)'
PROOF
<1>1. /\ DefinitionsOf(D)' = DefinitionsOf(D)
      /\ \A d : DefinedName(d)' = DefinedName(d) /\ DefinedParent(d)' = DefinedParent(d)
  BY FilesStay
<1>2. \A d \in DefinitionsOf(D) : DefinedName(d) \in DOMAIN types
  BY DEF Collected
<1> QED
  BY <1>1, <1>2 DEF Collected

LEMMA PairsStay ==
  ASSUME NEW done, NEW cur, source' = source, parsed' = parsed
  PROVE  Pairs(done, cur)' = Pairs(done, cur)
PROOF
  BY FilesStay DEF Pairs

LEMMA VisitReads ==
  ASSUME source \in Sources, NEW done, NEW cur, Reading(done, cur), Visit, pc' # "aborted"
  PROVE  Reading(done, cur)'
PROOF
<1>1. /\ UNCHANGED <<source, entries, parsed, types, classes>> /\ pc = "files" /\ pc' = pc /\ stack # <<>>
  BY DEF Visit
<1>2. Visited(cur) /\ parsed = {}
  BY <1>1 DEF Reading, Visited
<1> DEFINE path == Head(stack)
<1>3. path \in Paths /\ Tail(stack) \in Seq(Paths) /\ Range(stack) = {path} \cup Range(Tail(stack))
  BY <1>1, <1>2, StackIs DEF Visited
<1>4. Paths' = Paths /\ Reached(cur)' = Reached(cur) /\ (Readable(cur)' <=> Readable(cur))
      /\ Included(files') = Included(files)'
      /\ \A p : (Readable(p)' <=> Readable(p)) /\ (Breaks(p)' <=> Breaks(p)) /\ (Sound(p)' <=> Sound(p))
  <2>1. \A S : Included(S)' = Included(S)
    BY <1>1, FilesStay
  <2>2. Included(files)' = Included(files')
    BY <1>1 DEF Included, Readable
  <2> QED
    BY <1>1, <2>2, FilesStay
<1>5. \/ /\ ~ Readable(path) \/ path \in files
         /\ stack' = Tail(stack) /\ files' = files
      \/ /\ Readable(path)
         /\ stack' = source.file[path].includes \o Tail(stack) /\ files' = files \cup {path}
  BY <1>1 DEF Visit
<1>10. ~ Breaks(path)
  BY <1>1 DEF Visit
<1>6. /\ stack' \in Seq(Paths) /\ files' \subseteq Reached(cur)
      /\ \A q \in Range(stack') : Readable(q) => q \in Reached(cur)
      /\ Readable(cur) => cur \in files' \cup Range(stack')
      /\ Included(files') \subseteq files' \cup Range(stack')
      /\ Breaks(cur) => cur \in Range(stack')
      /\ \A p \in files' : \A q \in Range(source.file[p].includes) : Breaks(q) => q \in Range(stack')
  <2>1. CASE /\ ~ Readable(path) \/ path \in files
             /\ stack' = Tail(stack) /\ files' = files
    <3>1. \A q \in Included(files) : Readable(q)
      BY DEF Included
    <3> QED
      BY <1>2, <1>3, <1>10, <2>1, <3>1 DEF Visited
  <2>2. CASE /\ Readable(path)
             /\ stack' = source.file[path].includes \o Tail(stack) /\ files' = files \cup {path}
    <3> DEFINE inc == source.file[path].includes
    <3>1. inc \in Seq(Paths)
      BY <2>2, FileIs
    <3>2. stack' \in Seq(Paths) /\ Range(stack') = Range(inc) \cup Range(Tail(stack))
      BY <1>3, <2>2, <3>1, Concatenated
    <3>3. path \in Reached(cur)
      BY <1>2, <1>3, <2>2 DEF Visited
    <3>4. path \in DOMAIN source.file /\ Included({path}) = {q \in Range(inc) : Readable(q)}
      BY <2>2 DEF Included, Readable
    <3>5. Included({path}) \subseteq Reached(cur)
      BY <3>3, ReachedIs
    <3>6. Included(files') = Included(files) \cup Included({path})
      BY <2>2 DEF Included
    <3>7. files' \subseteq Reached(cur)
      BY <1>2, <2>2, <3>3 DEF Visited
    <3>8. \A q \in Range(stack') : Readable(q) => q \in Reached(cur)
      BY <1>2, <1>3, <3>2, <3>4, <3>5 DEF Visited
    <3>9. Readable(cur) => cur \in files' \cup Range(stack')
      BY <1>2, <1>3, <2>2, <3>2 DEF Visited
    <3>10. Included(files') \subseteq files' \cup Range(stack')
      BY <1>2, <1>3, <2>2, <3>2, <3>4, <3>6 DEF Visited
    <3>11. Breaks(cur) => cur \in Range(stack')
      BY <1>2, <1>3, <1>10, <3>2 DEF Visited
    <3>12. ASSUME NEW p \in files', NEW q \in Range(source.file[p].includes), Breaks(q)
           PROVE  q \in Range(stack')
      BY <1>2, <1>3, <1>10, <2>2, <3>2, <3>12 DEF Visited
    <3> QED
      BY <3>2, <3>7, <3>8, <3>9, <3>10, <3>11, <3>12
  <2> QED
    BY <1>5, <2>1, <2>2
<1>7. Visited(cur)'
  BY <1>1, <1>2, <1>4, <1>6 DEF Visited
<1>8. Collected(Pairs(done, cur))'
  <2>1. PICK D : D = Pairs(done, cur)
    OBVIOUS
  <2>2. Collected(D)'
    BY <1>1, <2>1, CollectedStays DEF Reading
  <2>3. Pairs(done, cur)' = D
    BY <1>1, <2>1, PairsStay
  <2> QED
    BY <2>2, <2>3 DEF Collected, DefinitionsOf
<1>9. Mirrored'
  BY <1>1 DEF Reading, Mirrored
<1> QED
  BY <1>1, <1>4, <1>7, <1>8, <1>9 DEF Reading

(* Parsing a file collects what it defines.                                    *)
LEMMA ParseReads ==
  ASSUME source \in Sources, NEW done, NEW cur, Reading(done, cur), Parse, pc' # "aborted"
  PROVE  Reading(done, cur)'
PROOF
<1>1. /\ UNCHANGED <<source, entries, stack, files, classes>> /\ pc = "files" /\ stack = <<>>
      /\ Visited(cur) /\ Collected(Pairs(done, cur)) /\ Mirrored
  BY DEF Parse, Reading
<1> DEFINE defs(p) == source.file[p].types
           names(p) == [k \in DOMAIN defs(p) |-> defs(p)[k].name]
           read(p, n) == ReadType(defs(p)[CHOOSE k \in DOMAIN defs(p) : names(p)[k] = n])
<1>2. PICK path \in files \ parsed :
        /\ IsInjective(names(path)) /\ Range(names(path)) \cap DOMAIN types = {}
        /\ types' = [n \in DOMAIN types \cup Range(names(path)) |->
                       IF n \in DOMAIN types THEN types[n] ELSE read(path, n)]
        /\ parsed' = parsed \cup {path} /\ pc' = pc
  BY DEF Parse
<1> DEFINE K == DOMAIN defs(path)
           T == defs(path)
<1>3. Readable(path) /\ path \in Reached(cur) /\ path \in DOMAIN source.file
  <2>1. path \in Reached(cur)
    BY <1>1 DEF Visited
  <2> QED
    BY <2>1, ReachedIs
<1>4. /\ \A k \in K : Listed(T[k].props) /\ \A q \in DOMAIN T[k].props : Listed(T[k].props[q].attrs)
  BY <1>3, FileIs
<1>5. \A j, k \in K : T[j].name = T[k].name => j = k
  BY <1>2 DEF IsInjective
<1>6. \A n : n \in Range(names(path)) <=> \E k \in K : n = T[k].name
  BY DEF Range
<1>7. /\ DOMAIN types' = DOMAIN types \cup Range(names(path))
      /\ \A n \in DOMAIN types : types'[n] = types[n]
      /\ \A k \in K : types'[T[k].name] = ReadType(T[k])
  <2>1. \A k \in K : T[k].name \in Range(names(path)) /\ (CHOOSE j \in K : names(path)[j] = T[k].name) = k
    BY <1>5, <1>6
  <2>2. \A k \in K : read(path, T[k].name) = ReadType(T[k])
    BY <2>1
  <2>3. \A n \in DOMAIN types : n \notin Range(names(path))
    BY <1>2
  <2> QED
    BY <1>2, <2>1, <2>2, <2>3
<1>8. \A k \in K : /\ {"parent", "childs"} \subseteq DOMAIN types'[T[k].name]
                  /\ types'[T[k].name].parent = T[k].parent /\ types'[T[k].name].childs = {}
  BY <1>4, <1>7, ReadTypeIs
<1> HIDE DEF defs, names, read, K, T
<1>9. PICK D : D = Pairs(done, cur)
  OBVIOUS
<1>10. PICK E : E = {<<cur, path>>}
  OBVIOUS
<1>11. Pairs(done, cur)' = D \cup E
  <2>1. \A p : Reached(p)' = Reached(p)
    BY <1>1, FilesStay
  <2>2. {cur} \X (parsed \cup {path}) = ({cur} \X parsed) \cup {<<cur, path>>}
    OBVIOUS
  <2> QED
    BY <1>1, <1>2, <1>9, <1>10, <2>1, <2>2 DEF Pairs
<1>12. /\ \A d : d \in DefinitionsOf(E) <=> \E k \in K : d = <<cur, path, k>>
       /\ \A k \in K : /\ DefinedName(<<cur, path, k>>) = T[k].name
                      /\ DefinedParent(<<cur, path, k>>) = T[k].parent
  <2>1. K = DOMAIN source.file[path].types /\ T = source.file[path].types
    BY DEF K, T, defs
  <2>2. \A d : d \in DefinitionsOf(E) <=> \E e \in E : \E k \in DOMAIN source.file[e[2]].types : d = <<e[1], e[2], k>>
    BY DefinitionsAre
  <2>3. \A d : d \in DefinitionsOf(E) <=> \E k \in K : d = <<cur, path, k>>
    <3>1. PICK x : x = <<cur, path>>
      OBVIOUS
    <3>2. x[1] = cur /\ x[2] = path /\ E = {x}
      BY <1>10, <3>1
    <3>3. \A d : d \in DefinitionsOf(E) <=> \E k \in DOMAIN source.file[x[2]].types : d = <<x[1], x[2], k>>
      BY <2>2, <3>2
    <3> QED
      BY <2>1, <3>2, <3>3
  <2>4. \A k : /\ DefinedName(<<cur, path, k>>) = source.file[path].types[k].name
               /\ DefinedParent(<<cur, path, k>>) = source.file[path].types[k].parent
    BY DEF DefinedName, DefinedParent
  <2> QED
    BY <2>1, <2>3, <2>4
<1>13. Collected(D)
  BY <1>1, <1>9
<1>14. DefinitionsOf(D \cup E) = DefinitionsOf(D) \cup DefinitionsOf(E)
  BY DefinitionsOfMore
<1>15. \A d \in DefinitionsOf(D) : DefinedName(d) \in DOMAIN types
  BY <1>13 DEF Collected
<1>16. /\ \A d \in DefinitionsOf(E) : DefinedName(d) \in Range(names(path))
       /\ \A d \in DefinitionsOf(E) : types'[DefinedName(d)].parent = DefinedParent(d)
       /\ \A n \in Range(names(path)) : \E d \in DefinitionsOf(E) : n = DefinedName(d)
       /\ \A d, e \in DefinitionsOf(E) : DefinedName(d) = DefinedName(e) => d = e
  <2>1. ASSUME NEW d \in DefinitionsOf(E)
        PROVE  /\ DefinedName(d) \in Range(names(path))
               /\ types'[DefinedName(d)].parent = DefinedParent(d)
    <3>1. PICK k \in K : d = <<cur, path, k>>
      BY <1>12
    <3>2. DefinedName(d) = T[k].name /\ DefinedParent(d) = T[k].parent
      BY <1>12, <3>1
    <3> QED
      BY <1>6, <1>8, <3>2
  <2>2. ASSUME NEW n \in Range(names(path)) PROVE \E d \in DefinitionsOf(E) : n = DefinedName(d)
    <3>1. PICK k \in K : n = T[k].name
      BY <1>6
    <3>2. <<cur, path, k>> \in DefinitionsOf(E) /\ DefinedName(<<cur, path, k>>) = n
      BY <1>12, <3>1
    <3> QED
      BY <3>2
  <2>3. ASSUME NEW d \in DefinitionsOf(E), NEW e \in DefinitionsOf(E), DefinedName(d) = DefinedName(e)
        PROVE  d = e
    <3>1. PICK j \in K, k \in K : d = <<cur, path, j>> /\ e = <<cur, path, k>>
      BY <1>12
    <3>2. T[j].name = T[k].name
      BY <1>12, <2>3, <3>1
    <3> QED
      BY <1>5, <3>1, <3>2
  <2> QED
    BY <2>1, <2>2, <2>3
<1>17. /\ DOMAIN types' = {DefinedName(d) : d \in DefinitionsOf(D \cup E)}
       /\ \A d, e \in DefinitionsOf(D \cup E) : DefinedName(d) = DefinedName(e) => d = e
       /\ \A d \in DefinitionsOf(D \cup E) : types'[DefinedName(d)].parent = DefinedParent(d)
  <2>1. \A n : n \in DOMAIN types' <=> \E d \in DefinitionsOf(D \cup E) : n = DefinedName(d)
    <3>1. \A n : n \in DOMAIN types <=> \E d \in DefinitionsOf(D) : n = DefinedName(d)
      BY <1>13 DEF Collected
    <3>2. \A n : n \in Range(names(path)) <=> \E d \in DefinitionsOf(E) : n = DefinedName(d)
      BY <1>16
    <3> QED
      BY <1>7, <1>14, <3>1, <3>2
  <2>2. \A d, e \in DefinitionsOf(D \cup E) : DefinedName(d) = DefinedName(e) => d = e
    BY <1>2, <1>13, <1>14, <1>15, <1>16 DEF Collected
  <2>3. \A d \in DefinitionsOf(D \cup E) : types'[DefinedName(d)].parent = DefinedParent(d)
    BY <1>7, <1>13, <1>14, <1>15, <1>16 DEF Collected
  <2>4. DOMAIN types' = {DefinedName(d) : d \in DefinitionsOf(D \cup E)}
    BY <2>1
  <2> QED
    BY <2>2, <2>3, <2>4
<1>18. Collected(Pairs(done, cur))'
  <2>1. /\ DefinitionsOf(D \cup E)' = DefinitionsOf(D \cup E)
        /\ \A d : DefinedName(d)' = DefinedName(d) /\ DefinedParent(d)' = DefinedParent(d)
    BY <1>1, FilesStay
  <2>2. Collected(D \cup E)'
    BY <1>17, <2>1 DEF Collected
  <2> QED
    BY <1>11, <2>2 DEF Collected, DefinitionsOf
<1>19. Visited(cur)'
  <2>1. /\ Paths' = Paths /\ Reached(cur)' = Reached(cur) /\ (Readable(cur)' <=> Readable(cur))
        /\ Included(files)' = Included(files)
        /\ \A p : (Readable(p)' <=> Readable(p)) /\ (Breaks(p)' <=> Breaks(p))
    <3>1. \A S : Included(S)' = Included(S)
      BY <1>1, FilesStay
    <3>2. Included(files)' = Included(files')
      BY <1>1 DEF Included, Readable
    <3> QED
      BY <1>1, <3>1, <3>2, FilesStay
  <2> QED
    BY <1>1, <1>2, <2>1 DEF Visited
<1>20. Mirrored'
  <2>1. classes' = classes /\ classes \subseteq DOMAIN types /\ pc' = "files"
    BY <1>1, <1>2 DEF Mirrored
  <2>2. \A c \in classes : types'[c].parent = types[c].parent
    BY <1>7, <2>1
  <2>3. \A n \in DOMAIN types : /\ {"parent", "childs"} \subseteq DOMAIN types'[n]
                               /\ types'[n].childs \ {None} \subseteq {c \in classes : types'[c].parent = n}
    BY <1>1, <1>7, <2>2 DEF Mirrored
  <2>4. \A n \in Range(names(path)) : {"parent", "childs"} \subseteq DOMAIN types'[n] /\ types'[n].childs = {}
    BY <1>6, <1>8
  <2> QED
    BY <1>7, <2>1, <2>3, <2>4 DEF Mirrored
<1>21. \A p \in done : Sound(p)'
  BY <1>1, FilesStay DEF Reading
<1> QED
  BY <1>1, <1>2, <1>18, <1>19, <1>20, <1>21 DEF Reading

(* Registering the types and listing the children collects nothing more.       *)
LEMMA NothingParsed ==
  ASSUME source \in Sources, NEW done, NEW cur, Reading(done, cur),
         UNCHANGED <<source, entries, stack, files, parsed>>,
         pc' = pc \/ (stack = <<>> /\ parsed = files /\ pc' \in {"register", "next"}),
         DOMAIN types' = DOMAIN types, \A n \in DOMAIN types : types'[n].parent = types[n].parent,
         Mirrored'
  PROVE  Reading(done, cur)'
PROOF
<1>1. PICK D : D = Pairs(done, cur)
  OBVIOUS
<1>2. Collected(D)'
  BY <1>1, CollectedStays DEF Reading
<1>3. Pairs(done, cur)' = D
  BY <1>1, PairsStay
<1>4. Collected(Pairs(done, cur))'
  BY <1>2, <1>3 DEF Collected, DefinitionsOf
<1>5. /\ Paths' = Paths /\ Reached(cur)' = Reached(cur) /\ (Readable(cur)' <=> Readable(cur))
      /\ Included(files)' = Included(files)
      /\ \A p : (Readable(p)' <=> Readable(p)) /\ (Breaks(p)' <=> Breaks(p)) /\ (Sound(p)' <=> Sound(p))
  <2>1. \A S : Included(S)' = Included(S)
    BY FilesStay
  <2>2. Included(files)' = Included(files')
    BY DEF Included, Readable
  <2> QED
    BY <2>1, <2>2, FilesStay
<1>6. Visited(cur)
  BY DEF Reading
<1>7. Visited(cur)'
  BY <1>5, <1>6 DEF Visited
<1> QED
  BY <1>4, <1>5, <1>7 DEF Reading

LEMMA RegisterReads ==
  ASSUME source \in Sources, NEW done, NEW cur, Reading(done, cur), Register
  PROVE  Reading(done, cur)'
PROOF
<1> DEFINE new == {n \in DOMAIN types \ classes : types[n].order # <<>>}
<1>1. /\ UNCHANGED <<source, entries, stack, files, parsed>> /\ stack = <<>> /\ parsed = files /\ pc' = "register"
      /\ types' = [n \in DOMAIN types |-> IF n \in new THEN Prepared(types[n]) ELSE types[n]]
      /\ classes' = classes \cup new /\ new \subseteq DOMAIN types
  BY DEF Register
<1> HIDE DEF new
<1>2. Mirrored
  BY DEF Reading
<1>3. DOMAIN types' = DOMAIN types
  BY <1>1
<1>4. ASSUME NEW n \in DOMAIN types
      PROVE  /\ {"parent", "childs"} \subseteq DOMAIN types'[n]
             /\ types'[n].parent = types[n].parent /\ types'[n].childs = types[n].childs
  <2>1. {"parent", "childs"} \subseteq DOMAIN types[n]
    BY <1>2 DEF Mirrored
  <2>2. Same(types[n], Prepared(types[n]))
    BY <2>1, PreparedKeeps
  <2> QED
    BY <1>1, <2>1, <2>2 DEF Same
<1>5. Mirrored'
  BY <1>1, <1>2, <1>3, <1>4 DEF Mirrored
<1> QED
  BY <1>1, <1>3, <1>4, <1>5, NothingParsed

LEMMA PostconfigReads ==
  ASSUME source \in Sources, NEW done, NEW cur, Reading(done, cur), Postconfig
  PROVE  Reading(done, cur)'
PROOF
<1> DEFINE children(n) == {IF c \in classes THEN c ELSE None : c \in {d \in DOMAIN types : types[d].parent = n}}
<1>1. /\ UNCHANGED <<source, entries, stack, files, parsed, classes>> /\ pc = "register" /\ pc' = "next"
      /\ types' = [n \in DOMAIN types |-> [types[n] EXCEPT !.childs = @ \cup children(n)]]
  BY DEF Postconfig
<1>2. Mirrored /\ stack = <<>> /\ parsed = files
  BY <1>1 DEF Reading, Visited
<1>3. \A n : /\ children(n) \ {None} \subseteq {c \in classes : types[c].parent = n}
            /\ {c \in classes : types[c].parent = n} \subseteq children(n)
  BY <1>2 DEF Mirrored
<1> HIDE DEF children
<1>4. DOMAIN types' = DOMAIN types
  BY <1>1
<1>5. ASSUME NEW n \in DOMAIN types
      PROVE  /\ {"parent", "childs"} \subseteq DOMAIN types'[n]
             /\ types'[n].parent = types[n].parent /\ types'[n].childs = types[n].childs \cup children(n)
  <2>1. {"parent", "childs"} \subseteq DOMAIN types[n]
    BY <1>2 DEF Mirrored
  <2>2. types'[n] = [types[n] EXCEPT !.childs = @ \cup children(n)]
    BY <1>1
  <2> QED
    BY <2>1, <2>2
<1>6. \A c \in classes : c \in DOMAIN types /\ types'[c].parent = types[c].parent
  BY <1>2, <1>5 DEF Mirrored
<1>7. Mirrored'
  <2>1. classes' = classes /\ classes \subseteq DOMAIN types
    BY <1>1, <1>6
  <2>2. ASSUME NEW n \in DOMAIN types
        PROVE  /\ types'[n].childs \ {None} \subseteq {c \in classes : types'[c].parent = n}
               /\ {c \in classes : types'[c].parent = n} \subseteq types'[n].childs
    <3>1. {c \in classes : types'[c].parent = n} = {c \in classes : types[c].parent = n}
      BY <1>6
    <3>2. types[n].childs \ {None} \subseteq {c \in classes : types[c].parent = n}
      BY <1>2 DEF Mirrored
    <3> QED
      BY <1>3, <1>5, <3>1, <3>2
  <2> QED
    BY <1>4, <1>5, <2>1, <2>2 DEF Mirrored
<1> QED
  BY <1>1, <1>2, <1>4, <1>5, <1>7, NothingParsed

(* Another file of the directory: its includes are seen anew.                  *)
LEMMA EntryReads ==
  ASSUME source \in Sources, NEW done, NEW cur, Reading(done, cur), ReadEntry
  PROVE  \E path \in Roots : Reading(done \cup {cur}, path)'
PROOF
<1>1. PICK path \in entries : ReadFile(path) /\ entries' = entries \ {path}
  BY DEF ReadEntry
<1>2. /\ UNCHANGED <<source, types, classes>> /\ pc = "next"
      /\ stack' = <<path>> /\ files' = {} /\ parsed' = {} /\ pc' = "files"
  BY <1>1 DEF ReadEntry, ReadFile
<1>3. /\ Visited(cur) /\ Collected(Pairs(done, cur)) /\ Mirrored /\ entries \subseteq source.dir
      /\ done \cup {cur} = {source.global} \cup (source.dir \ entries)
  BY DEF Reading
<1>4. parsed = Reached(cur) /\ Sound(cur)
  BY <1>2, <1>3, AllSeen DEF Visited
<1>5. /\ Paths' = Paths /\ (\A p : Reached(p)' = Reached(p)) /\ (\A p : Readable(p)' <=> Readable(p))
      /\ Roots' = Roots /\ \A p : Sound(p)' <=> Sound(p)
  BY <1>2, FilesStay
<1>6. PICK D : D = Pairs(done, cur)
  OBVIOUS
<1>7. Pairs(done \cup {cur}, path)' = D
  <2>1. Reached(cur) \subseteq DOMAIN source.file
    BY ReachedIs
  <2>2. Pairs(done, cur) = {d \in (done \cup {cur}) \X DOMAIN source.file : d[2] \in Reached(d[1])}
    BY <1>4, <2>1 DEF Pairs
  <2>3. Pairs(done \cup {cur}, path)' = {d \in (done \cup {cur}) \X DOMAIN source.file : d[2] \in Reached(d[1])}
    BY <1>2, <1>5 DEF Pairs
  <2> QED
    BY <1>6, <2>2, <2>3
<1>8. Collected(Pairs(done \cup {cur}, path))'
  <2>1. Collected(D)'
    BY <1>2, <1>3, <1>6, CollectedStays
  <2> QED
    BY <1>7, <2>1 DEF Collected, DefinitionsOf
<1>9. Visited(path)'
  <2>1. path \in Paths
    BY <1>3 DEF Paths
  <2>2. <<path>> \in Seq(Paths) /\ Range(<<path>>) = {path}
    BY <2>1 DEF Range
  <2>3. Readable(path) => path \in Reached(path)
    BY ReachedIs
  <2>4. Included(files)' = {}
    BY <1>2 DEF Included
  <2> QED
    BY <1>2, <1>5, <2>2, <2>3, <2>4 DEF Visited
<1>10. Mirrored'
  BY <1>2, <1>3 DEF Mirrored
<1>11. (done \cup {cur}) \cup {path} = {source.global} \cup (source.dir \ entries')
  BY <1>1, <1>3
<1>12. entries' \subseteq source.dir /\ path \in Roots
  BY <1>1, <1>3 DEF Roots
<1>13. \A p \in done \cup {cur} : Sound(p)'
  BY <1>4, <1>5 DEF Reading
<1> QED
  BY <1>2, <1>8, <1>9, <1>10, <1>11, <1>12, <1>13 DEF Reading

LEMMA GlobalReads ==
  ASSUME source \in Sources, entries = source.dir, types = <<>>, classes = {}, ReadGlobal
  PROVE  Reading({}, source.global)'
PROOF
<1>1. /\ UNCHANGED <<source, entries, types, classes>>
      /\ stack' = <<source.global>> /\ files' = {} /\ parsed' = {} /\ pc' = "files"
  BY DEF ReadGlobal, ReadFile
<1>2. PICK path : path = source.global
  OBVIOUS
<1>3. Visited(path)'
  <2>1. path \in Paths /\ Paths' = Paths /\ Reached(path)' = Reached(path)
        /\ \A p : Readable(p)' <=> Readable(p)
    BY <1>1, <1>2, FilesStay DEF Paths
  <2>2. <<path>> \in Seq(Paths) /\ Range(<<path>>) = {path}
    BY <2>1 DEF Range
  <2>3. Readable(path) => path \in Reached(path)
    BY ReachedIs
  <2>4. Included(files)' = {}
    BY <1>1 DEF Included
  <2> QED
    BY <1>1, <1>2, <2>1, <2>2, <2>3, <2>4 DEF Visited
<1>4. Pairs({}, path)' = {}
  BY <1>1 DEF Pairs
<1>5. Collected(Pairs({}, path))'
  BY <1>1, <1>4 DEF Collected, DefinitionsOf
<1>6. Mirrored'
  BY <1>1 DEF Mirrored
<1>7. source.global' = path
  BY <1>1, <1>2
<1>8. Reading({}, path)'
  BY <1>1, <1>3, <1>5, <1>6, <1>7 DEF Reading
<1> QED
  BY <1>1, <1>2, <1>8 DEF Reading, Visited, Pairs

LEMMA SchemaStep == SchemaInv /\ [SchemaNext]_schemaVars => SchemaInv'
PROOF
<1> SUFFICES ASSUME SchemaInv, [SchemaNext]_schemaVars PROVE SchemaInv'
  OBVIOUS
<1>1. source' = source
  BY DEF SchemaNext, schemaVars, ReadGlobal, ReadEntry, Visit, Parse, Register, Postconfig, Validate
<1>2. source \in Sources /\ source' \in Sources /\ Roots' = Roots
  BY <1>1 DEF SchemaInv, Roots
<1>3. CASE pc' \in {"ready", "aborted"}
  BY <1>2, <1>3 DEF SchemaInv
<1>4. CASE UNCHANGED schemaVars
  <2>1. CASE pc = "start" /\ entries = source.dir /\ types = <<>> /\ classes = {}
    BY <1>2, <1>4, <2>1 DEF SchemaInv, schemaVars
  <2>2. CASE \E done \in SUBSET Roots, cur \in Roots : Reading(done, cur)
    <3>1. PICK done \in SUBSET Roots, cur \in Roots : Reading(done, cur)
      BY <2>2
    <3>2. Mirrored'
      BY <1>4, <3>1 DEF Reading, Mirrored, schemaVars
    <3>3. Reading(done, cur)'
      BY <1>2, <1>4, <3>1, <3>2, NothingParsed DEF schemaVars
    <3> QED
      BY <1>2, <3>1, <3>3 DEF SchemaInv
  <2> QED
    BY <1>2, <1>3, <1>4, <2>1, <2>2 DEF SchemaInv, schemaVars
<1>5. CASE ReadGlobal
  <2>1. pc = "start"
    BY <1>5 DEF ReadGlobal
  <2>2. entries = source.dir /\ types = <<>> /\ classes = {}
    BY <2>1 DEF SchemaInv, Reading
  <2>3. Reading({}, source.global)'
    BY <1>2, <1>5, <2>2, GlobalReads
  <2>4. {} \in SUBSET Roots' /\ source.global' \in Roots'
    BY DEF Roots
  <2>5. \E done \in SUBSET Roots', cur \in Roots' : Reading(done, cur)'
    BY <1>1, <2>3, <2>4 DEF Reading, Visited, Pairs
  <2> QED
    BY <1>2, <2>5 DEF SchemaInv
<1>6. CASE ~ ReadGlobal /\ SchemaNext /\ pc' \notin {"ready", "aborted"}
  <2>1. pc \notin {"start", "ready", "aborted"}
    BY <1>6 DEF SchemaNext, ReadEntry, Visit, Parse, Register, Postconfig, Validate
  <2>2. PICK done \in SUBSET Roots, cur \in Roots : Reading(done, cur)
    BY <2>1 DEF SchemaInv
  <2>3. CASE ReadEntry
    <3>1. PICK path \in Roots : Reading(done \cup {cur}, path)'
      BY <1>2, <2>2, <2>3, EntryReads
    <3> QED
      BY <1>2, <2>2, <3>1 DEF SchemaInv
  <2>4. CASE Visit \/ Parse \/ Register \/ Postconfig
    <3>1. Reading(done, cur)'
      BY <1>2, <1>6, <2>2, <2>4, VisitReads, ParseReads, RegisterReads, PostconfigReads
    <3> QED
      BY <1>2, <2>2, <3>1 DEF SchemaInv
  <2>5. CASE Validate
    BY <1>6, <2>5 DEF Validate
  <2> QED
    BY <1>6, <2>3, <2>4, <2>5 DEF SchemaNext
<1> QED
  BY <1>3, <1>4, <1>5, <1>6

(* The reading of the schema files of one process, from opening a connection,  *)
(* keeps the invariant, whatever files there are and whatever order the        *)
(* directory lists them in.                                                    *)
THEOREM SchemaInvariant == SchemaSpec => []SchemaInv
PROOF
<1>1. SchemaInit => SchemaInv
  BY DEF SchemaInit, SchemaInv
<1> QED
  BY <1>1, SchemaStep, PTL DEF SchemaSpec

(* When all is read, the files of every root have been, each once.             *)
LEMMA AllCollected ==
  ASSUME SchemaInv, AllRead
  PROVE  /\ Collected(Readings) /\ Mirrored /\ source \in Sources
         /\ DefinitionsOf(Readings) = Definitions /\ \A path \in Roots : Sound(path)
PROOF
<1>1. pc = "next" /\ entries = {}
  BY DEF AllRead
<1>2. PICK done \in SUBSET Roots, cur \in Roots : Reading(done, cur)
  BY <1>1 DEF SchemaInv
<1>3. parsed = Reached(cur) /\ Sound(cur)
  BY <1>1, <1>2, AllSeen DEF Reading, Visited
<1>4. done \cup {cur} = Roots
  BY <1>1, <1>2 DEF Reading, Roots
<1>5. Pairs(done, cur) = Readings
  <2>1. Reached(cur) \subseteq DOMAIN source.file
    BY ReachedIs
  <2> QED
    BY <1>3, <1>4, <2>1 DEF Pairs, Readings
<1> QED
  BY <1>2, <1>3, <1>4, <1>5 DEF Reading, SchemaInv, DefinitionsOf, Definitions

(* Whatever order the directory lists its files in, and however they include   *)
(* each other: a schema that has been read has the types of all the files that *)
(* can be reached, and none is defined twice.                                  *)
THEOREM FilesAreRead == SchemaSpec => []ReadsWhatIsIncluded
PROOF
<1>1. SchemaInv => ReadsWhatIsIncluded
  BY AllCollected DEF ReadsWhatIsIncluded, Collected
<1> QED
  BY <1>1, SchemaInvariant, PTL

(* The children of a type are, at the end, the classes whose definitions name  *)
(* it as their parent, whichever of the two was read first.                    *)
THEOREM ParentsKnowChildren == SchemaSpec => []HierarchyIsMirrored
PROOF
<1>1. SchemaInv => HierarchyIsMirrored
  <2> SUFFICES ASSUME SchemaInv, AllRead, NEW n \in DOMAIN types
               PROVE  types[n].childs \ {None} =
                        {c \in classes : \E d \in Definitions : DefinedName(d) = c /\ DefinedParent(d) = n}
    BY DEF HierarchyIsMirrored, DefinedParent
  <2>1. Collected(Readings) /\ Mirrored /\ source \in Sources /\ DefinitionsOf(Readings) = Definitions
    BY AllCollected
  <2>2. ASSUME NEW c \in classes
        PROVE  /\ \E d \in Definitions : DefinedName(d) = c
               /\ \A d \in Definitions : DefinedName(d) = c => DefinedParent(d) = types[c].parent
               /\ c # None
    <3>1. c \in DOMAIN types
      BY <2>1 DEF Mirrored
    <3>2. PICK d \in Definitions : DefinedName(d) = c
      BY <2>1, <3>1 DEF Collected
    <3>3. PICK r \in Readings : \E k \in DOMAIN source.file[r[2]].types : d = <<r[1], r[2], k>>
      BY DEF Definitions
    <3>4. Readable(r[2])
      BY ReachedIs DEF Readings
    <3>5. DefinedName(d) # None
      BY <2>1, <3>3, <3>4, FileIs DEF DefinedName
    <3> QED
      BY <2>1, <3>2, <3>5 DEF Collected
  <2>3. types[n].childs \ {None} = {c \in classes : types[c].parent = n}
    <3>1. pc = "next"
      BY DEF AllRead
    <3> QED
      BY <2>1, <2>2, <3>1 DEF Mirrored
  <2> QED
    BY <2>2, <2>3
<1> QED
  BY <1>1, SchemaInvariant, PTL

-----------------------------------------------------------------------------
(* Replication.                                                                *)
USE ReplicationAssumption, NoEntryAssumption DEF ObjectAction

(* Types of the variables. *)
TypeOK ==
  /\ usage \in Usage
  /\ row \in [Site -> [Guid -> State \cup {NoRow}]]
  /\ entry \in [Site -> [Guid -> ObjectAction \cup {NoEntry}]]
  /\ docs \subseteq ObjectDoc \cup PurgeDoc
  /\ importing \in [Site -> Import \cup {Idle}]
  /\ now \in Time

(* The inductive invariant.  No date is ahead of the clock. *)
Dated ==
  /\ \A n \in Site, g \in Guid : Exists(n, g) => row[n][g].revised <= now
  /\ \A d \in docs \cap ObjectDoc : d.state.revised <= now

(* An entry that says purged has no record. *)
PurgedIsGone == \A n \in Site, g \in Guid : entry[n][g] = "purge" => ~Exists(n, g)

(* What an import has found stays true until it writes: an object that it is
   going to create is still not there, nor was it purged in between, and an
   object that it is going to update was older. *)
Founded(n, i) ==
  /\ i.doc \in docs
  /\ i.object.revised <= now
  /\ i.dbobject = NoRow => ~Exists(n, i.doc.guid)
  /\ i.dbobject = NoRow /\ ~i.force => entry[n][i.doc.guid] # "purge"
  /\ i.dbobject # NoRow /\ ~i.force => i.dbobject.revised < i.object.revised

ImportsAreFounded == \A n \in Site : importing[n] # Idle => Founded(n, importing[n])

ReplicationInv == TypeOK /\ Dated /\ PurgedIsGone /\ ImportsAreFounded

-----------------------------------------------------------------------------
(* The way the sites are used, and with it what time there is, is fixed. *)
LEMMA SetsStay ==
  ASSUME usage' = usage
  PROVE  Time' = Time /\ State' = State /\ ObjectDoc' = ObjectDoc /\ Import' = Import
PROOF
<1>1. Time' = Time
  BY DEF Time
<1>2. State' = State
  BY <1>1 DEF State
<1> QED
  BY <1>1, <1>2 DEF ObjectDoc, Import

LEMMA RowIs ==
  ASSUME TypeOK, usage' = usage, NEW n \in Site, NEW g \in Guid,
         NEW w \in State \cup {NoRow}, SetRow(n, g, w)
  PROVE  /\ row' \in [Site -> [Guid -> State' \cup {NoRow}]]
         /\ \A m \in Site, h \in Guid : row'[m][h] = IF m = n /\ h = g THEN w ELSE row[m][h]
PROOF
<1>1. State' = State
  BY SetsStay
<1> QED
  BY <1>1 DEF TypeOK, SetRow

LEMMA EntryIs ==
  ASSUME TypeOK, NEW n \in Site, NEW g \in Guid, NEW a \in ObjectAction \cup {NoEntry},
         SetEntry(n, g, a)
  PROVE  /\ entry' \in [Site -> [Guid -> ObjectAction \cup {NoEntry}]]
         /\ \A m \in Site, h \in Guid : entry'[m][h] = IF m = n /\ h = g THEN a ELSE entry[m][h]
PROOF
  BY DEF TypeOK, SetEntry

(* A marked entry says what it is marked with, or there is none. *)
LEMMA Marked ==
  ASSUME NEW n \in Site, NEW g \in Guid, NEW a \in ObjectAction, MarkEntry(n, g, a)
  PROVE  \E b \in {a, NoEntry} : SetEntry(n, g, b)
PROOF
  BY DEF MarkEntry

(* One site writes one record and its entry, and what imports have found      *)
(* elsewhere stays true; an import of the same object at this site does not   *)
(* wait for it to stay absent.                                                *)
LEMMA WriteKeeps ==
  ASSUME ReplicationInv, NEW n \in Site, NEW g \in Guid,
         NEW w \in State \cup {NoRow}, NEW a \in ObjectAction \cup {NoEntry},
         SetRow(n, g, w), SetEntry(n, g, a), UNCHANGED <<usage, docs>>,
         now' \in Time, now <= now', w # NoRow => w.revised <= now' /\ a # "purge",
         \/ UNCHANGED importing /\ (Exists(n, g) \/ \A d \in docs : d.guid # g)
         \/ importing' = [importing EXCEPT ![n] = Idle]
         \/ UNCHANGED importing /\ importing[n] = Idle
  PROVE  ReplicationInv'
PROOF
<1>1. /\ row' \in [Site -> [Guid -> State' \cup {NoRow}]]
      /\ \A m \in Site, h \in Guid : row'[m][h] = IF m = n /\ h = g THEN w ELSE row[m][h]
  BY RowIs DEF ReplicationInv
<1>2. /\ entry' \in [Site -> [Guid -> ObjectAction \cup {NoEntry}]]
      /\ \A m \in Site, h \in Guid : entry'[m][h] = IF m = n /\ h = g THEN a ELSE entry[m][h]
  BY EntryIs DEF ReplicationInv
<1>3. Time' = Time /\ State' = State /\ ObjectDoc' = ObjectDoc /\ Import' = Import
  BY SetsStay
<1>4. now \in Nat /\ now' \in Nat
  BY DEF ReplicationInv, TypeOK, Time
<1>5. TypeOK'
  BY <1>1, <1>2, <1>3 DEF ReplicationInv, TypeOK
<1>6. Dated'
  <2>1. ASSUME NEW m \in Site, NEW h \in Guid, Exists(m, h)' PROVE row'[m][h].revised <= now'
    <3>1. CASE m = n /\ h = g
      BY <1>1, <2>1, <3>1 DEF Exists
    <3>2. CASE ~(m = n /\ h = g)
      <4>1. row'[m][h] = row[m][h] /\ row[m][h] \in State /\ row[m][h].revised <= now
        BY <1>1, <2>1, <3>2 DEF Exists, ReplicationInv, TypeOK, Dated
      <4> QED
        BY <4>1, <1>4 DEF State, Time
    <3> QED
      BY <3>1, <3>2
  <2>2. ASSUME NEW d \in docs \cap ObjectDoc PROVE d.state.revised <= now'
    <3>1. d.state \in State /\ d.state.revised <= now
      BY <2>2 DEF ObjectDoc, ReplicationInv, Dated
    <3> QED
      BY <3>1, <1>4 DEF State, Time
  <2> QED
    BY <1>3, <2>1, <2>2 DEF Dated
<1>7. PurgedIsGone'
  BY <1>1, <1>2 DEF PurgedIsGone, Exists, ReplicationInv
<1>8. ImportsAreFounded'
  <2> SUFFICES ASSUME NEW m \in Site, importing'[m] # Idle PROVE Founded(m, importing[m])'
    BY DEF ImportsAreFounded
  <2> DEFINE i == importing[m]
  <2>1. importing'[m] = i /\ i \in Import /\ i # Idle
    BY DEF ReplicationInv, TypeOK
  <2>2. Founded(m, i)
    BY <2>1 DEF ReplicationInv, ImportsAreFounded
  <2>3. i.doc.guid \in Guid /\ i.object \in State
    BY <2>1 DEF Import, ObjectDoc
  <2>4. i.object.revised <= now'
    BY <1>4, <2>2, <2>3 DEF Founded, State, Time
  <2>5. ~(m = n /\ i.doc.guid = g) \/ i.dbobject # NoRow
    BY <2>1, <2>2 DEF Founded, ReplicationInv, TypeOK
  <2>6. i.dbobject = NoRow => /\ row'[m][i.doc.guid] = row[m][i.doc.guid]
                              /\ entry'[m][i.doc.guid] = entry[m][i.doc.guid]
    BY <1>1, <1>2, <2>3, <2>5
  <2> QED
    BY <2>1, <2>2, <2>4, <2>6 DEF Founded, Exists
<1> QED
  BY <1>5, <1>6, <1>7, <1>8 DEF ReplicationInv

(* What a client of a site does to an object. *)
LEMMA ClientKeeps ==
  ASSUME ReplicationInv, NEW n \in Site, NEW g \in Guid,
         \/ \E c \in Content : Create(n, g, c) \/ Update(n, g, c)
         \/ Delete(n, g) \/ Undelete(n, g) \/ Purge(n, g)
  PROVE  ReplicationInv'
PROOF
<1>1. /\ UNCHANGED <<usage, docs, importing>> /\ now < usage.seconds /\ now' = now + 1
      /\ Exists(n, g) => row[n][g].version < MaxVersion
  BY DEF Create, Update, Delete, Undelete, Purge, Client
<1>2. usage \in Usage /\ usage.seconds \in Nat /\ now \in Nat
  BY DEF ReplicationInv, TypeOK, Time
<1>3. now' \in Time /\ now' \in Nat /\ now <= now' /\ now' <= now'
  BY <1>1, <1>2 DEF Time
<1>4. Exists(n, g) => /\ row[n][g] \in State /\ row[n][g].revised <= now
                      /\ row[n][g].version + 1 \in 1..MaxVersion
  <2>1. Exists(n, g) => row[n][g] \in State /\ row[n][g].revised <= now
    BY DEF Exists, ReplicationInv, TypeOK, Dated
  <2> QED
    BY <1>1, <2>1 DEF State
<1>5. ASSUME NEW c \in Content, Create(n, g, c) PROVE ReplicationInv'
  <2> DEFINE w == [content |-> c, links |-> Needs[g], revised |-> now', deleted |-> FALSE,
                   version |-> 1]
  <2>1. w \in State /\ w.revised <= now'
    BY <1>2, <1>3 DEF State
  <2>2. SetRow(n, g, w) /\ SetEntry(n, g, "create") /\ \A d \in docs : d.guid # g
    BY <1>5 DEF Create
  <2> HIDE DEF w
  <2> QED
    BY <1>1, <1>3, <2>1, <2>2, WriteKeeps
<1>6. ASSUME NEW w \in State \cup {NoRow}, NEW a \in ObjectAction, Exists(n, g),
             w # NoRow => w.revised <= now' /\ a # "purge",
             SetRow(n, g, w), MarkEntry(n, g, a)
      PROVE  ReplicationInv'
  <2>1. PICK b \in {a, NoEntry} : SetEntry(n, g, b)
    BY <1>6, Marked
  <2>2. w # NoRow => b # "purge"
    BY <1>6
  <2> QED
    BY <1>1, <1>3, <1>6, <2>1, <2>2, WriteKeeps
<1>7. ASSUME NEW c \in Content, Update(n, g, c) PROVE ReplicationInv'
  <2> DEFINE w == [row[n][g] EXCEPT !.content = c, !.revised = now', !.version = @ + 1]
  <2>1. Exists(n, g) /\ SetRow(n, g, w) /\ MarkEntry(n, g, "update")
    BY <1>7 DEF Update, Live
  <2>2. w \in State /\ w.revised <= now'
    BY <1>2, <1>3, <1>4, <2>1 DEF State
  <2> HIDE DEF w
  <2> QED
    BY <1>6, <2>1, <2>2
<1>8. ASSUME Delete(n, g) PROVE ReplicationInv'
  <2> DEFINE w == [row[n][g] EXCEPT !.deleted = TRUE, !.revised = now', !.version = @ + 1]
  <2>1. Exists(n, g) /\ SetRow(n, g, w) /\ MarkEntry(n, g, "delete")
    BY <1>8 DEF Delete, Live
  <2>2. w \in State /\ w.revised <= now'
    BY <1>2, <1>3, <1>4, <2>1 DEF State
  <2> HIDE DEF w
  <2> QED
    BY <1>6, <2>1, <2>2
<1>9. ASSUME Undelete(n, g) PROVE ReplicationInv'
  <2> DEFINE w == [row[n][g] EXCEPT !.deleted = FALSE, !.version = @ + 1]
  <2>1. Exists(n, g) /\ SetRow(n, g, w) /\ MarkEntry(n, g, "update")
    BY <1>9 DEF Undelete
  <2>2. w \in State /\ w.revised = row[n][g].revised
    BY <1>4, <2>1 DEF State
  <2>3. w.revised <= now'
    <3>1. row[n][g].revised \in Nat /\ row[n][g].revised <= now
      BY <1>4, <2>1 DEF State, Time
    <3> QED
      BY <1>1, <1>2, <2>2, <3>1
  <2> HIDE DEF w
  <2> QED
    BY <1>6, <2>1, <2>2, <2>3
<1>10. ASSUME Purge(n, g) PROVE ReplicationInv'
  BY <1>6, <1>10 DEF Purge
<1> QED
  BY <1>5, <1>7, <1>8, <1>9, <1>10

(* Writing documents changes no site. *)
LEMMA ExportKeeps ==
  ASSUME ReplicationInv, NEW n \in Site,
         (\E g \in Guid : Serialize(n, g)) \/ ExportPurged(n)
  PROVE  ReplicationInv'
PROOF
<1>1. UNCHANGED <<usage, row, entry, importing, now>>
  BY DEF Serialize, ExportPurged
<1>2. Time' = Time /\ State' = State /\ ObjectDoc' = ObjectDoc /\ Import' = Import
  BY <1>1, SetsStay
<1>3. ASSUME docs \subseteq docs', docs' \subseteq ObjectDoc \cup PurgeDoc,
             \A d \in (docs' \ docs) \cap ObjectDoc : d.state.revised <= now
      PROVE  ReplicationInv'
  BY <1>1, <1>2, <1>3 DEF ReplicationInv, TypeOK, Dated, PurgedIsGone, ImportsAreFounded,
     Founded, Exists
<1>4. ASSUME NEW g \in Guid, Serialize(n, g) PROVE ReplicationInv'
  <2>1. row[n][g] \in State /\ row[n][g].revised <= now
    BY <1>4 DEF Serialize, Exists, ReplicationInv, TypeOK, Dated
  <2>2. Written(n, g) \in State /\ Written(n, g).revised <= now
    BY <2>1 DEF Written, LinkGuids, State
  <2> DEFINE d == [guid |-> g, state |-> Written(n, g)]
  <2>3. d \in ObjectDoc /\ d.state.revised <= now
    BY <2>2 DEF ObjectDoc
  <2>4. docs' = docs \cup {d}
    BY <1>4 DEF Serialize
  <2> HIDE DEF d
  <2> QED
    BY <1>3, <2>3, <2>4 DEF ReplicationInv, TypeOK
<1>5. ASSUME ExportPurged(n) PROVE ReplicationInv'
  <2>1. \A d \in docs' \ docs : d \in PurgeDoc
    BY <1>5 DEF ExportPurged, PurgeDoc
  <2>2. \A d \in PurgeDoc : d \notin ObjectDoc
    BY DEF PurgeDoc, ObjectDoc
  <2> QED
    BY <1>3, <1>5, <2>1, <2>2 DEF ExportPurged, ReplicationInv, TypeOK
<1> QED
  BY <1>4, <1>5

(* An import looks, decides, and later writes. *)
LEMMA QueryKeeps ==
  ASSUME ReplicationInv, NEW n \in Site, NEW d \in docs, NEW f \in usage.force,
         ImportQuery(n, d, f)
  PROVE  ReplicationInv'
PROOF
<1> DEFINE i == [doc |-> d, object |-> Unserialized(n, d), force |-> f,
                 dbobject |-> row[n][d.guid]]
<1>1. /\ UNCHANGED <<usage, row, entry, docs, now>> /\ d \in ObjectDoc
      /\ importing' = [importing EXCEPT ![n] = i]
  BY DEF ImportQuery
<1>2. Time' = Time /\ State' = State /\ ObjectDoc' = ObjectDoc /\ Import' = Import
  BY <1>1, SetsStay
<1>3. d.guid \in Guid /\ d.state \in State /\ d.state.revised <= now /\ f \in BOOLEAN
  BY <1>1 DEF ObjectDoc, ReplicationInv, TypeOK, Dated
<1>4. Unserialized(n, d) \in State /\ Unserialized(n, d).revised = d.state.revised
  BY <1>3 DEF Unserialized, State
<1>5. row[n][d.guid] \in State \cup {NoRow}
  BY <1>3 DEF ReplicationInv, TypeOK
<1>6. i \in Import
  BY <1>1, <1>3, <1>4, <1>5 DEF Import
<1>7. Founded(n, i)
  <2>1. i.dbobject # NoRow /\ ~f => i.dbobject.revised < i.object.revised
    <3> SUFFICES ASSUME i.dbobject # NoRow, ~f PROVE i.dbobject.revised < i.object.revised
      OBVIOUS
    <3>1. ~(d.state.revised <= row[n][d.guid].revised)
      BY DEF ImportQuery, MayRecreate, NotNewer, Exists
    <3> QED
      BY <1>3, <1>4, <1>5, <3>1 DEF State, Time
  <2>2. i.dbobject = NoRow /\ ~f => entry[n][d.guid] # "purge"
    BY DEF ImportQuery, MayRecreate, Exists
  <2> QED
    BY <1>3, <1>4, <2>1, <2>2 DEF Founded, Exists
<1> HIDE DEF i
<1>8. ImportsAreFounded'
  BY <1>1, <1>7 DEF ReplicationInv, TypeOK, ImportsAreFounded, Founded, Exists
<1> QED
  BY <1>1, <1>2, <1>6, <1>8 DEF ReplicationInv, TypeOK, Dated, PurgedIsGone, Exists

LEMMA ImportKeeps ==
  ASSUME ReplicationInv, NEW n \in Site,
         ImportWrite(n) \/ \E d \in docs : ImportPurge(n, d)
  PROVE  ReplicationInv'
PROOF
<1> DEFINE i == importing[n]
           g == i.doc.guid
<1>1. now \in Time /\ now <= now
  BY DEF ReplicationInv, TypeOK, Time
<1>2. ASSUME NEW d \in docs, ImportPurge(n, d) PROVE ReplicationInv'
  <2>1. d.guid \in Guid
    BY <1>2 DEF ImportPurge, PurgeDoc
  <2>2. PICK b \in {"purge", NoEntry} : SetEntry(n, d.guid, b)
    BY <1>2, <2>1, Marked DEF ImportPurge
  <2> QED
    BY <1>1, <1>2, <2>1, <2>2, WriteKeeps DEF ImportPurge
<1>3. ASSUME ImportWrite(n) PROVE ReplicationInv'
  <2>1. /\ i \in Import /\ Founded(n, i) /\ UNCHANGED <<usage, docs, now>>
        /\ importing' = [importing EXCEPT ![n] = Idle]
    BY <1>3 DEF ImportWrite, ReplicationInv, TypeOK, ImportsAreFounded
  <2>2. g \in Guid /\ i.object \in State /\ i.object.revised <= now
    BY <2>1 DEF Import, ObjectDoc, Founded
  <2>3. row[n][g] \in State \cup {NoRow} /\ (Exists(n, g) => row[n][g] \in State)
    BY <2>2 DEF ReplicationInv, TypeOK, Exists
  <2>4. ASSUME NEW w \in State \cup {NoRow}, NEW a \in ObjectAction \ {"purge"},
               w # NoRow => w.revised <= now, SetRow(n, g, w), MarkEntry(n, g, a)
        PROVE  ReplicationInv'
    <3>1. PICK b \in {a, NoEntry} : SetEntry(n, g, b)
      BY <2>2, <2>4, Marked
    <3>2. now' = now /\ b \in ObjectAction \cup {NoEntry} /\ b # "purge"
      BY <2>1, <3>1
    <3> QED
      BY <1>1, <2>1, <2>2, <2>4, <3>1, <3>2, WriteKeeps
  <2>5. CASE ImportCreate(n, g)
    BY <1>1, <2>1, <2>2, <2>5, WriteKeeps DEF ImportCreate
  <2>6. CASE ImportDelete(n, g)
    <3> DEFINE w == IF Exists(n, g)
                    THEN [row[n][g] EXCEPT !.deleted = TRUE, !.revised = now,
                                           !.version = i.object.version]
                    ELSE NoRow
    <3>1. w \in State \cup {NoRow} /\ (w # NoRow => w.revised <= now)
      BY <1>1, <2>2, <2>3 DEF State
    <3>2. SetRow(n, g, w) /\ MarkEntry(n, g, "delete")
      BY <2>6 DEF ImportDelete
    <3> QED
      BY <2>4, <3>1, <3>2
  <2>7. CASE ImportUpdate(n, g)
    <3> DEFINE u == i.dbobject.deleted /\ entry[n][g] = "delete"
               w == IF Exists(n, g)
                    THEN [i.object EXCEPT !.deleted = row[n][g].deleted /\ ~u] ELSE NoRow
    <3>1. w \in State \cup {NoRow} /\ (w # NoRow => w.revised <= now)
      BY <2>2, <2>3 DEF State
    <3>2. SetRow(n, g, w) /\ MarkEntry(n, g, "update")
      BY <2>7 DEF ImportUpdate
    <3> QED
      BY <2>4, <3>1, <3>2
  <2> QED
    BY <1>3, <2>5, <2>6, <2>7 DEF ImportWrite
<1> QED
  BY <1>2, <1>3

LEMMA TickKeeps == ASSUME ReplicationInv, Tick PROVE ReplicationInv'
PROOF
<1>1. UNCHANGED <<usage, row, entry, docs, importing>> /\ now \in Nat /\ now' = now + 1
      /\ now' \in Time
  BY DEF Tick, ReplicationInv, TypeOK, Time
<1>2. Time' = Time /\ State' = State /\ ObjectDoc' = ObjectDoc /\ Import' = Import
  BY <1>1, SetsStay
<1>3. TypeOK' /\ PurgedIsGone'
  BY <1>1, <1>2 DEF ReplicationInv, TypeOK, PurgedIsGone, Exists
<1>4. Dated'
  <2>1. \A n \in Site, g \in Guid : Exists(n, g) => row[n][g].revised \in Nat
    BY DEF ReplicationInv, TypeOK, Exists, State, Time
  <2>2. \A d \in docs \cap ObjectDoc : d.state.revised \in Nat
    BY DEF ObjectDoc, State, Time
  <2> QED
    BY <1>1, <1>2, <2>1, <2>2 DEF ReplicationInv, Dated, Exists
<1>5. ImportsAreFounded'
  <2>1. \A n \in Site : importing[n] # Idle => importing[n].object.revised \in Nat
    BY DEF ReplicationInv, TypeOK, Import, State, Time
  <2> QED
    BY <1>1, <2>1 DEF ReplicationInv, ImportsAreFounded, Founded, Exists
<1> QED
  BY <1>3, <1>4, <1>5 DEF ReplicationInv

LEMMA ReplicationInit == Init => ReplicationInv
PROOF
<1> SUFFICES ASSUME Init PROVE ReplicationInv
  OBVIOUS
<1>1. usage \in Usage /\ usage.seconds \in Nat
  BY DEF Init
<1>2. TypeOK
  BY <1>1 DEF Init, TypeOK, Time
<1> QED
  BY <1>2 DEF Init, ReplicationInv, Dated, PurgedIsGone, ImportsAreFounded, Exists

LEMMA ReplicationStep == ReplicationInv /\ [Next]_vars => ReplicationInv'
PROOF
<1> SUFFICES ASSUME ReplicationInv, [Next]_vars PROVE ReplicationInv'
  OBVIOUS
<1>1. CASE UNCHANGED vars
  <2>1. Time' = Time /\ State' = State /\ ObjectDoc' = ObjectDoc /\ Import' = Import
    BY <1>1, SetsStay DEF vars
  <2> QED
    BY <1>1, <2>1 DEF vars, ReplicationInv, TypeOK, Dated, PurgedIsGone, ImportsAreFounded,
       Founded, Exists
<1> QED
  BY <1>1, TickKeeps, ClientKeeps, ExportKeeps, QueryKeeps, ImportKeeps DEF Next

(* However the sites are used, no date is ahead of the clock, an entry that   *)
(* says purged has no record, and what an import has found before it writes   *)
(* still holds when it does.                                                  *)
THEOREM ReplicationInvariant == Spec => []ReplicationInv
PROOF
  BY ReplicationInit, ReplicationStep, PTL DEF Spec

(* Who can have changed the record of one object at one site.                 *)
LEMMA WhoWrites ==
  ASSUME ReplicationInv, [Next]_vars, NEW n \in Site, NEW g \in Guid, row'[n][g] # row[n][g]
  PROVE  \/ \E c \in Content : Create(n, g, c) \/ Update(n, g, c)
         \/ Delete(n, g) \/ Undelete(n, g) \/ Purge(n, g)
         \/ \E d \in docs : d.guid = g /\ ImportPurge(n, d)
         \/ ImportWrite(n) /\ importing[n].doc.guid = g
PROOF
<1>1. ASSUME NEW m \in Site, NEW h, NEW w, SetRow(m, h, w) PROVE m = n /\ h = g
  BY <1>1 DEF SetRow, ReplicationInv, TypeOK
<1>2. ASSUME NEW m \in Site, NEW h \in Guid,
             \/ \E c \in Content : Create(m, h, c) \/ Update(m, h, c)
             \/ Delete(m, h) \/ Undelete(m, h) \/ Purge(m, h)
      PROVE  m = n /\ h = g
  <2>1. (\E c \in Content : Create(m, h, c) \/ Update(m, h, c)) => \E w : SetRow(m, h, w)
    BY DEF Create, Update
  <2>2. Delete(m, h) \/ Undelete(m, h) \/ Purge(m, h) => \E w : SetRow(m, h, w)
    BY DEF Delete, Undelete, Purge
  <2> QED
    BY <1>1, <1>2, <2>1, <2>2
<1>3. ASSUME NEW m \in Site, NEW d \in docs, ImportPurge(m, d) PROVE m = n /\ d.guid = g
  BY <1>1, <1>3 DEF ImportPurge
<1>4. ASSUME NEW m \in Site, ImportWrite(m) PROVE m = n /\ importing[m].doc.guid = g
  BY <1>1, <1>4 DEF ImportWrite, ImportCreate, ImportDelete, ImportUpdate
<1>5. ASSUME UNCHANGED row PROVE FALSE
  BY <1>5
<1>6. ASSUME \/ Tick \/ UNCHANGED vars
             \/ \E m \in Site : \/ \E h \in Guid : Serialize(m, h)
                                \/ ExportPurged(m)
                                \/ \E d \in docs, f \in usage.force : ImportQuery(m, d, f)
      PROVE  FALSE
  BY <1>5, <1>6 DEF Tick, vars, Serialize, ExportPurged, ImportQuery
<1> QED
  BY <1>2, <1>3, <1>4, <1>6 DEF Next

(* What an import that is not forced does to the record it is about. *)
LEMMA UnforcedImport ==
  ASSUME ReplicationInv, NEW n \in Site, NEW g \in Guid, ImportWrite(n),
         importing[n].doc.guid = g, ~Forced(n, g)
  PROVE  /\ importing[n] \in Import /\ Founded(n, importing[n]) /\ ~importing[n].force
         /\ ImportCreate(n, g) \/ ImportDelete(n, g) \/ ImportUpdate(n, g)
PROOF
<1>1. /\ importing[n] \in Import /\ Founded(n, importing[n])
      /\ importing[n] # Idle /\ importing'[n] = Idle
  BY DEF ImportWrite, ReplicationInv, TypeOK, ImportsAreFounded
<1>2. importing[n].doc \in docs \cap ObjectDoc
  BY <1>1 DEF Import, Founded
<1>3. ~importing[n].force
  BY <1>1, <1>2 DEF Forced, ForcedWrite
<1> QED
  BY <1>1, <1>3 DEF ImportWrite

(* While a site's entry says that it purged an object, no document brings it  *)
(* back without force: an import that found the object missing found no entry *)
(* "purge" either, and nobody can have purged it since.                       *)
THEOREM PurgesAreFinal == Spec => PurgedStaysPurged
PROOF
<1>1. ReplicationInv /\ [Next]_vars
        => [\A n \in Site, g \in Guid :
              entry[n][g] = "purge" /\ ~Forced(n, g) => ~Exists(n, g)']_vars
  <2> SUFFICES ASSUME ReplicationInv, [Next]_vars, NEW n \in Site, NEW g \in Guid,
                      entry[n][g] = "purge", ~Forced(n, g), Exists(n, g)'
               PROVE  FALSE
    OBVIOUS
  <2>1. row[n][g] = NoRow /\ row'[n][g] # row[n][g]
    BY DEF ReplicationInv, PurgedIsGone, Exists
  <2>2. CASE ImportWrite(n) /\ importing[n].doc.guid = g
    <3>1. /\ importing[n].dbobject = NoRow => entry[n][g] # "purge"
          /\ ImportCreate(n, g) \/ ImportDelete(n, g) \/ ImportUpdate(n, g)
      BY <2>2, UnforcedImport DEF Founded
    <3> QED
      BY <2>1, <3>1 DEF ImportCreate, ImportDelete, ImportUpdate, SetRow, Exists,
         ReplicationInv, TypeOK
  <2>3. ~(\E c \in Content : Create(n, g, c) \/ Update(n, g, c))
    BY <2>1 DEF Create, Update, Live, Exists
  <2>4. ~Delete(n, g) /\ ~Undelete(n, g) /\ ~Purge(n, g)
    BY <2>1 DEF Delete, Undelete, Purge, Live, Exists
  <2>5. ~\E d \in docs : d.guid = g /\ ImportPurge(n, d)
    BY <2>1 DEF ImportPurge, ByGuid, Live, Exists
  <2> QED
    BY <2>1, <2>2, <2>3, <2>4, <2>5, WhoWrites
<1> QED
  BY <1>1, ReplicationInvariant, PTL DEF Spec, PurgedStaysPurged

(* Without force a record never gets older, unless somebody changed it        *)
(* between the two steps of an import: clients and deletions date it with the *)
(* clock, and an import replaces only what is older than its document.        *)
THEOREM DatesNeverGoBack == Spec => RevisedNeverGoesBack
PROOF
<1>1. ReplicationInv /\ [Next]_vars
        => [\A n \in Site, g \in Guid :
              Exists(n, g) /\ Exists(n, g)' /\ ~Forced(n, g) /\ ~Overtaken(n, g)
                => row'[n][g].revised >= row[n][g].revised]_vars
  <2> SUFFICES ASSUME ReplicationInv, [Next]_vars, NEW n \in Site, NEW g \in Guid,
                      Exists(n, g), Exists(n, g)', ~Forced(n, g), ~Overtaken(n, g),
                      row'[n][g] # row[n][g]
               PROVE  row'[n][g].revised >= row[n][g].revised
    BY DEF ReplicationInv, TypeOK, Exists, State, Time
  <2>1. /\ row[n][g] \in State /\ row[n][g].revised \in Nat /\ row[n][g].revised <= now
        /\ now \in Nat
    BY DEF ReplicationInv, TypeOK, Dated, Exists, State, Time
  <2>2. ASSUME NEW w, SetRow(n, g, w) PROVE row'[n][g] = w
    BY <2>2 DEF SetRow, ReplicationInv, TypeOK
  <2>3. CASE \E c \in Content : Update(n, g, c)
    <3>1. row'[n][g].revised = now + 1
      BY <2>1, <2>2, <2>3 DEF Update, Client, State
    <3> QED
      BY <2>1, <3>1
  <2>4. CASE Delete(n, g)
    <3>1. row'[n][g].revised = now + 1
      BY <2>1, <2>2, <2>4 DEF Delete, Client, State
    <3> QED
      BY <2>1, <3>1
  <2>5. CASE Undelete(n, g)
    <3>1. row'[n][g].revised = row[n][g].revised
      BY <2>1, <2>2, <2>5 DEF Undelete, State
    <3> QED
      BY <2>1, <3>1
  <2>6. CASE ImportWrite(n) /\ importing[n].doc.guid = g
    <3> DEFINE i == importing[n]
    <3>1. /\ i \in Import /\ Founded(n, i) /\ ~i.force
          /\ ImportCreate(n, g) \/ ImportDelete(n, g) \/ ImportUpdate(n, g)
      BY <2>6, UnforcedImport
    <3>2. i.dbobject = row[n][g]
      BY <2>6 DEF ImportWrite, Overtaken
    <3>3. i.dbobject # NoRow /\ i.object \in State /\ i.object.revised \in Nat
      BY <3>1, <3>2 DEF Exists, Import, State, Time
    <3>4. row[n][g].revised < i.object.revised
      BY <2>6, <3>1, <3>2, <3>3 DEF Founded
    <3>5. row'[n][g].revised = now \/ row'[n][g].revised = i.object.revised
      BY <2>1, <2>2, <3>1, <3>3 DEF ImportCreate, ImportDelete, ImportUpdate, State
    <3> QED
      BY <2>1, <3>3, <3>4, <3>5
  <2>7. ~(\E c \in Content : Create(n, g, c)) /\ ~Purge(n, g)
    BY <2>2 DEF Create, Purge, Exists
  <2>8. ~\E d \in docs : d.guid = g /\ ImportPurge(n, d)
    BY <2>2 DEF ImportPurge, Exists
  <2> QED
    BY <2>3, <2>4, <2>5, <2>6, <2>7, <2>8, WhoWrites
<1> QED
  BY <1>1, ReplicationInvariant, PTL DEF Spec, RevisedNeverGoesBack

-----------------------------------------------------------------------------
(* What a site has never known is nothing a record links to: of a record or   *)
(* an import under way every link has its entry, and so has every record.     *)
LinksKnown ==
  /\ \A n \in Site, g \in Guid : Exists(n, g) => entry[n][g] # NoEntry
  /\ \A n \in Site, g \in Guid :
       Exists(n, g) => \A p \in row[n][g].links : entry[n][p] # NoEntry
  /\ \A n \in Site :
       importing[n] # Idle => \A p \in importing[n].object.links : entry[n][p] # NoEntry

LEMMA WriteKnows ==
  ASSUME ReplicationInv, LinksKnown, NEW n \in Site, NEW g \in Guid,
         NEW w \in State \cup {NoRow}, NEW a \in ObjectAction,
         SetRow(n, g, w), UNCHANGED usage,
         SetEntry(n, g, a) \/ (MarkEntry(n, g, a) /\ (w # NoRow => Exists(n, g))),
         w # NoRow => \A p \in w.links : entry[n][p] # NoEntry,
         UNCHANGED importing \/ importing' = [importing EXCEPT ![n] = Idle]
  PROVE  LinksKnown'
PROOF
<1>1. \A m \in Site, h \in Guid : row'[m][h] = IF m = n /\ h = g THEN w ELSE row[m][h]
  BY RowIs DEF ReplicationInv
<1>2. PICK b \in ObjectAction \cup {NoEntry} :
          SetEntry(n, g, b) /\ (b = NoEntry => (w = NoRow /\ entry[n][g] = NoEntry))
  <2>1. CASE SetEntry(n, g, a)
    BY <2>1
  <2>2. CASE MarkEntry(n, g, a) /\ (w # NoRow => Exists(n, g))
    <3>1. CASE entry[n][g] = NoEntry
      <4>1. SetEntry(n, g, NoEntry) /\ w = NoRow
        BY <2>2, <3>1 DEF MarkEntry, LinksKnown
      <4> QED
        BY <3>1, <4>1
    <3>2. CASE entry[n][g] # NoEntry
      BY <2>2, <3>2 DEF MarkEntry
    <3> QED
      BY <3>1, <3>2
  <2> QED
    BY <2>1, <2>2
<1>3. \A m \in Site, h \in Guid : entry'[m][h] = IF m = n /\ h = g THEN b ELSE entry[m][h]
  BY <1>2, EntryIs DEF ReplicationInv
<1>4. \A m \in Site, h \in Guid : entry[m][h] # NoEntry => entry'[m][h] # NoEntry
  BY <1>2, <1>3
<1>5. \A m \in Site, h \in Guid : Exists(m, h)' => entry'[m][h] # NoEntry
  BY <1>1, <1>2, <1>3 DEF LinksKnown, Exists
<1>6. ASSUME NEW m \in Site, NEW h \in Guid, Exists(m, h)', NEW p \in row'[m][h].links
      PROVE  entry'[m][p] # NoEntry
  <2>1. row'[m][h] \in State
    BY <1>1, <1>6 DEF Exists, ReplicationInv, TypeOK
  <2>2. p \in Guid
    BY <1>6, <2>1 DEF State
  <2>3. entry[m][p] # NoEntry
    BY <1>1, <1>6 DEF LinksKnown, Exists
  <2> QED
    BY <1>4, <2>2, <2>3
<1>7. ASSUME NEW m \in Site, importing'[m] # Idle, NEW p \in importing'[m].object.links
      PROVE  entry'[m][p] # NoEntry
  <2>1. importing'[m] = importing[m] /\ importing[m] \in Import
    BY <1>7 DEF ReplicationInv, TypeOK
  <2>2. p \in Guid
    BY <1>7, <2>1 DEF Import, State
  <2>3. entry[m][p] # NoEntry
    BY <1>7, <2>1 DEF LinksKnown
  <2> QED
    BY <1>4, <2>2, <2>3
<1> QED
  BY <1>5, <1>6, <1>7 DEF LinksKnown

LEMMA LinksStep ==
  ASSUME ReplicationInv, LinksKnown, [Next]_vars
  PROVE  LinksKnown'
PROOF
<1>1. CASE UNCHANGED <<row, entry, importing>>
  BY <1>1 DEF LinksKnown, Exists
<1>2. ASSUME NEW n \in Site, NEW g \in Guid,
             \/ \E c \in Content : Create(n, g, c) \/ Update(n, g, c)
             \/ Delete(n, g) \/ Undelete(n, g) \/ Purge(n, g)
      PROVE  LinksKnown'
  <2>0. /\ UNCHANGED <<usage, docs, importing>> /\ now < usage.seconds /\ now' = now + 1
        /\ (Exists(n, g) => row[n][g].version < MaxVersion)
    BY <1>2 DEF Create, Update, Delete, Undelete, Purge, Client
  <2>a. usage \in Usage /\ usage.seconds \in Nat /\ now \in Nat
    BY DEF ReplicationInv, TypeOK, Time
  <2>1. /\ UNCHANGED <<usage, docs, importing>> /\ usage \in Usage /\ now' \in Time
        /\ (Exists(n, g) => row[n][g].version < MaxVersion)
    BY <2>0, <2>a DEF Time
  <2>2. Exists(n, g) => /\ row[n][g] \in State /\ row[n][g].version + 1 \in 1..MaxVersion
                        /\ \A p \in row[n][g].links : entry[n][p] # NoEntry
    BY <2>1 DEF Exists, ReplicationInv, TypeOK, State, LinksKnown
  <2>3. ASSUME NEW c \in Content, Create(n, g, c) PROVE LinksKnown'
    <3> DEFINE w == [content |-> c, links |-> Needs[g], revised |-> now', deleted |-> FALSE,
                     version |-> 1]
    <3>1. w \in State
      BY <2>1 DEF State
    <3>2. \A p \in w.links : entry[n][p] # NoEntry
      BY <2>3 DEF Create, Live, LinksKnown
    <3>3. SetRow(n, g, w) /\ SetEntry(n, g, "create")
      BY <2>3 DEF Create
    <3> HIDE DEF w
    <3> QED
      BY <2>1, <3>1, <3>2, <3>3, WriteKnows
  <2>4. ASSUME NEW c \in Content, Update(n, g, c) PROVE LinksKnown'
    <3> DEFINE w == [row[n][g] EXCEPT !.content = c, !.revised = now', !.version = @ + 1]
    <3>1. Exists(n, g) /\ SetRow(n, g, w) /\ MarkEntry(n, g, "update")
      BY <2>4 DEF Update, Live
    <3>2. w \in State /\ w.links = row[n][g].links
      BY <2>1, <2>2, <3>1 DEF State
    <3> HIDE DEF w
    <3> QED
      BY <2>1, <2>2, <3>1, <3>2, WriteKnows
  <2>5. ASSUME Delete(n, g) PROVE LinksKnown'
    <3> DEFINE w == [row[n][g] EXCEPT !.deleted = TRUE, !.revised = now', !.version = @ + 1]
    <3>1. Exists(n, g) /\ SetRow(n, g, w) /\ MarkEntry(n, g, "delete")
      BY <2>5 DEF Delete, Live
    <3>2. w \in State /\ w.links = row[n][g].links
      BY <2>1, <2>2, <3>1 DEF State
    <3> HIDE DEF w
    <3> QED
      BY <2>1, <2>2, <3>1, <3>2, WriteKnows
  <2>6. ASSUME Undelete(n, g) PROVE LinksKnown'
    <3> DEFINE w == [row[n][g] EXCEPT !.deleted = FALSE, !.version = @ + 1]
    <3>1. Exists(n, g) /\ SetRow(n, g, w) /\ MarkEntry(n, g, "update")
      BY <2>6 DEF Undelete
    <3>2. w \in State /\ w.links = row[n][g].links
      BY <2>1, <2>2, <3>1 DEF State
    <3> HIDE DEF w
    <3> QED
      BY <2>1, <2>2, <3>1, <3>2, WriteKnows
  <2>7. ASSUME Purge(n, g) PROVE LinksKnown'
    BY <2>1, <2>7, WriteKnows DEF Purge
  <2> QED
    BY <1>2, <2>3, <2>4, <2>5, <2>6, <2>7
<1>3. ASSUME NEW n \in Site, NEW d \in docs, NEW f \in usage.force, ImportQuery(n, d, f)
      PROVE  LinksKnown'
  <2> DEFINE o == Unserialized(n, d)
  <2>1. d \in ObjectDoc /\ UNCHANGED <<row, entry>>
        /\ importing' = [importing EXCEPT ![n] =
             [doc |-> d, object |-> o, force |-> f, dbobject |-> row[n][d.guid]]]
    BY <1>3 DEF ImportQuery
  <2>2. o.links = {p \in d.state.links : ByGuid(n, p)} /\ d.state.links \subseteq Guid
    BY <2>1 DEF ObjectDoc, State, Unserialized
  <2>3. \A p \in o.links : entry[n][p] # NoEntry
    BY <2>2 DEF ByGuid
  <2> HIDE DEF o
  <2>4. ASSUME NEW m \in Site, importing'[m] # Idle
        PROVE  \A p \in importing'[m].object.links : entry[m][p] # NoEntry
    <3>1. CASE m = n
      BY <2>1, <2>3, <3>1 DEF ReplicationInv, TypeOK
    <3>2. CASE m # n
      BY <2>1, <2>4, <3>2 DEF ReplicationInv, TypeOK, LinksKnown
    <3> QED
      BY <3>1, <3>2
  <2> QED
    BY <2>1, <2>4 DEF LinksKnown, Exists
<1>4. ASSUME NEW n \in Site, NEW d \in docs, ImportPurge(n, d) PROVE LinksKnown'
  <2>1. d.guid \in Guid
    BY <1>4 DEF ImportPurge, PurgeDoc
  <2> QED
    BY <1>4, <2>1, WriteKnows DEF ImportPurge
<1>5. ASSUME NEW n \in Site, ImportWrite(n) PROVE LinksKnown'
  <2> DEFINE i == importing[n]
             g == i.doc.guid
  <2>1. /\ i \in Import /\ UNCHANGED usage /\ importing' = [importing EXCEPT ![n] = Idle]
        /\ \A p \in i.object.links : entry[n][p] # NoEntry
    BY <1>5 DEF ImportWrite, ReplicationInv, TypeOK, LinksKnown
  <2>2. g \in Guid /\ i.object \in State
    BY <2>1 DEF Import, ObjectDoc
  <2>3. Exists(n, g) => row[n][g] \in State /\ \A p \in row[n][g].links : entry[n][p] # NoEntry
    BY <2>2 DEF ReplicationInv, TypeOK, Exists, LinksKnown
  <2>4. CASE ImportCreate(n, g)
    BY <2>1, <2>2, <2>4, WriteKnows DEF ImportCreate
  <2>5. CASE ImportDelete(n, g)
    <3> DEFINE w == IF Exists(n, g)
                    THEN [row[n][g] EXCEPT !.deleted = TRUE, !.revised = now,
                                           !.version = i.object.version]
                    ELSE NoRow
    <3>1. now \in Time
      BY DEF ReplicationInv, TypeOK
    <3>2. Exists(n, g) => w \in State /\ w.links = row[n][g].links
      BY <2>2, <2>3, <3>1 DEF State
    <3>3. ~Exists(n, g) => w = NoRow
      OBVIOUS
    <3>4. SetRow(n, g, w) /\ MarkEntry(n, g, "delete")
      BY <2>5 DEF ImportDelete
    <3> HIDE DEF w
    <3> QED
      BY <2>1, <2>2, <2>3, <3>2, <3>3, <3>4, WriteKnows
  <2>6. CASE ImportUpdate(n, g)
    <3> DEFINE u == i.dbobject.deleted /\ entry[n][g] = "delete"
               w == IF Exists(n, g)
                    THEN [i.object EXCEPT !.deleted = row[n][g].deleted /\ ~u] ELSE NoRow
    <3>1. Exists(n, g) => w \in State /\ w.links = i.object.links
      BY <2>2, <2>3 DEF State
    <3>2. ~Exists(n, g) => w = NoRow
      OBVIOUS
    <3>3. SetRow(n, g, w) /\ MarkEntry(n, g, "update")
      BY <2>6 DEF ImportUpdate
    <3> HIDE DEF w
    <3> QED
      BY <2>1, <2>2, <3>1, <3>2, <3>3, WriteKnows
  <2> QED
    BY <1>5, <2>4, <2>5, <2>6 DEF ImportWrite
<1>6. Tick \/ UNCHANGED vars \/ (\E n \in Site : (\E g \in Guid : Serialize(n, g)) \/ ExportPurged(n))
        => UNCHANGED <<row, entry, importing>>
  BY DEF Tick, vars, Serialize, ExportPurged
<1> QED
  BY <1>1, <1>2, <1>3, <1>4, <1>5, <1>6 DEF Next

LEMMA LinksInit == Init => LinksKnown
PROOF
  BY DEF Init, LinksKnown, Exists

-----------------------------------------------------------------------------
(* One master.  What any record, document or running import says of the       *)
(* changes of an object g, the content aside.                                 *)
Mark(x) == [version |-> x.version, deleted |-> x.deleted, revised |-> x.revised]

Marks(g) ==
  {Mark(row[n][g]) : n \in {m \in Site : Exists(m, g)}}
    \cup {Mark(d.state) : d \in {e \in docs \cap ObjectDoc : e.guid = g}}
    \cup {Mark(importing[n].object) :
            n \in {m \in Site : importing[m] # Idle /\ importing[m].doc.guid = g}}

(* The deletion is the last change of an object: whatever shows it shows the  *)
(* same change, and whatever does not shows an earlier one.                   *)
Ordered(M) ==
  \A x, y \in M : x.deleted => IF y.deleted THEN x.version = y.version
                               ELSE y.version < x.version /\ y.revised <= x.revised

(* Nothing is ahead of the master's own record r. *)
Behind(y, r) == /\ y.version <= r.version
                /\ (~r.deleted => ~y.deleted)
                /\ (~y.deleted => y.revised <= r.revised)

Leads(a, g) ==
  \/ Marks(g) = {}
  \/ ~Exists(a, g) /\ entry[a][g] \in {"delete", "purge"}
  \/ Exists(a, g) /\ \A y \in Marks(g) : Behind(y, row[a][g])

(* What an import has found still holds; the master takes in only deletions. *)
Fits(n, i) ==
  /\ ~i.force
  /\ IF n \in usage.authors THEN i.object.deleted /\ i.dbobject # NoRow
                            ELSE i.dbobject = row[n][i.doc.guid]

MasterInv ==
  OneMaster =>
    /\ \A g \in Guid : Ordered(Marks(g))
    /\ \A a \in usage.authors, g \in Guid : Leads(a, g)
    /\ \A n \in Site : importing[n] # Idle => Fits(n, importing[n])

LEMMA NoRowIsNoRecord == ASSUME usage \in Usage PROVE NoRow \notin State
PROOF
  BY NoRowAssumption DEF State, Time

LEMMA MarkOfState ==
  ASSUME NEW s \in State, s.revised <= now, now \in Time, usage \in Usage
  PROVE  /\ Mark(s).version = s.version /\ Mark(s).deleted = s.deleted
         /\ Mark(s).revised = s.revised
         /\ Mark(s).version \in Nat /\ Mark(s).deleted \in BOOLEAN
         /\ Mark(s).revised \in Nat /\ Mark(s).revised <= now /\ now \in Nat
PROOF
  BY DEF Mark, State, Time

LEMMA MarksAre ==
  ASSUME ReplicationInv, NEW g \in Guid, NEW y \in Marks(g)
  PROVE  y.version \in Nat /\ y.deleted \in BOOLEAN /\ y.revised \in Nat /\ y.revised <= now
PROOF
<1>1. now \in Time /\ usage \in Usage
  BY DEF ReplicationInv, TypeOK
<1>2. ASSUME NEW s \in State, s.revised <= now, y = Mark(s)
      PROVE  y.version \in Nat /\ y.deleted \in BOOLEAN /\ y.revised \in Nat /\ y.revised <= now
  BY <1>1, <1>2, MarkOfState
<1>3. ASSUME NEW n \in Site, Exists(n, g), y = Mark(row[n][g])
      PROVE  \E s \in State : s.revised <= now /\ y = Mark(s)
  BY <1>3 DEF ReplicationInv, TypeOK, Dated, Exists
<1>4. ASSUME NEW d \in docs \cap ObjectDoc, y = Mark(d.state)
      PROVE  \E s \in State : s.revised <= now /\ y = Mark(s)
  BY <1>4 DEF ReplicationInv, Dated, ObjectDoc
<1>5. ASSUME NEW n \in Site, importing[n] # Idle, y = Mark(importing[n].object)
      PROVE  \E s \in State : s.revised <= now /\ y = Mark(s)
  <2>1. importing[n] \in Import /\ Founded(n, importing[n])
    BY <1>5 DEF ReplicationInv, TypeOK, ImportsAreFounded
  <2> QED
    BY <1>5, <2>1 DEF Import, Founded
<1>6. \E s \in State : s.revised <= now /\ y = Mark(s)
  BY <1>3, <1>4, <1>5 DEF Marks
<1> QED
  BY <1>2, <1>6

(* Every record, document and import has its mark. *)
LEMMA HasMark ==
  ASSUME ReplicationInv, NEW g \in Guid
  PROVE  /\ \A n \in Site : Exists(n, g) => Mark(row[n][g]) \in Marks(g)
         /\ \A d \in docs \cap ObjectDoc : d.guid = g => Mark(d.state) \in Marks(g)
         /\ \A n \in Site : importing[n] # Idle /\ importing[n].doc.guid = g
                              => Mark(importing[n].object) \in Marks(g)
PROOF
  BY DEF Marks

(* A site that writes a record adds at most the mark of that record. *)
LEMMA WriteMarks ==
  ASSUME ReplicationInv, NEW n \in Site, NEW g \in Guid, NEW w \in State \cup {NoRow},
         SetRow(n, g, w), UNCHANGED <<usage, docs>>,
         UNCHANGED importing \/ importing' = [importing EXCEPT ![n] = Idle]
  PROVE  \A h \in Guid : \A y \in Marks(h)' :
           y \in Marks(h) \/ (h = g /\ w # NoRow /\ y = Mark(w))
PROOF
<1> SUFFICES ASSUME NEW h \in Guid, NEW y \in Marks(h)'
             PROVE  y \in Marks(h) \/ (h = g /\ w # NoRow /\ y = Mark(w))
  OBVIOUS
<1>1. \A m \in Site, k \in Guid : row'[m][k] = IF m = n /\ k = g THEN w ELSE row[m][k]
  BY RowIs DEF ReplicationInv
<1>2. ObjectDoc' = ObjectDoc
  BY SetsStay
<1>3. \A m \in Site : importing'[m] # Idle => importing'[m] = importing[m]
  BY DEF ReplicationInv, TypeOK
<1>4. ASSUME NEW m \in Site, Exists(m, h)', y = Mark(row'[m][h])
      PROVE  y \in Marks(h) \/ (h = g /\ w # NoRow /\ y = Mark(w))
  BY <1>1, <1>4, HasMark DEF Exists
<1>5. ASSUME NEW d \in docs \cap ObjectDoc, d.guid = h, y = Mark(d.state)
      PROVE  y \in Marks(h)
  BY <1>5, HasMark
<1>6. ASSUME NEW m \in Site, importing'[m] # Idle, importing'[m].doc.guid = h,
             y = Mark(importing'[m].object)
      PROVE  y \in Marks(h)
  BY <1>3, <1>6, HasMark
<1>7. \/ \E m \in Site : Exists(m, h)' /\ y = Mark(row'[m][h])
      \/ \E d \in docs \cap ObjectDoc : d.guid = h /\ y = Mark(d.state)
      \/ \E m \in Site : /\ importing'[m] # Idle /\ importing'[m].doc.guid = h
                         /\ y = Mark(importing'[m].object)
  BY <1>2 DEF Marks, Mark
<1> QED
  BY <1>4, <1>5, <1>6, <1>7

LEMMA ImportMarks ==
  ASSUME ReplicationInv, NEW n \in Site, NEW g \in Guid, NEW w \in State,
         SetRow(n, g, w), UNCHANGED <<usage, docs>>,
         importing' = [importing EXCEPT ![n] = Idle]
  PROVE  \A y \in Marks(g)' : y \in Marks(g) \/ y = Mark(w)
PROOF
  BY WriteMarks

(* A mark that was copied, or a deletion that was dated anew. *)
Copies(x, s) ==
  \/ x = s
  \/ s.deleted /\ x.deleted /\ x.version = s.version /\ s.revised <= x.revised

LEMMA CopyIsOrdered ==
  ASSUME ReplicationInv, NEW g \in Guid, Ordered(Marks(g)), NEW s \in Marks(g), NEW x,
         x.version \in Nat, x.deleted \in BOOLEAN, x.revised \in Nat, Copies(x, s)
  PROVE  Ordered(Marks(g) \cup {x})
PROOF
<1>1. \A y \in Marks(g) :
        y.version \in Nat /\ y.deleted \in BOOLEAN /\ y.revised \in Nat
  BY MarksAre
<1>2. CASE x = s
  BY <1>2 DEF Ordered
<1>3. CASE s.deleted /\ x.deleted /\ x.version = s.version /\ s.revised <= x.revised
  BY <1>1, <1>3 DEF Ordered
<1> QED
  BY <1>2, <1>3 DEF Copies

LEMMA CopyIsBehind ==
  ASSUME NEW s, NEW x, NEW r, Copies(x, s), Behind(s, r)
  PROVE  Behind(x, r)
PROOF
  BY DEF Copies, Behind

LEMMA FewerAreOrdered ==
  ASSUME NEW M, NEW L, L \subseteq M, Ordered(M)
  PROVE  Ordered(L)
PROOF
  BY DEF Ordered

(* Nothing changes but what is known: no new mark, and nothing at a master. *)
LEMMA LeadsStays ==
  ASSUME NEW a \in Site, NEW g \in Guid, Leads(a, g),
         row'[a][g] = row[a][g], entry'[a][g] = entry[a][g],
         \A y \in Marks(g)' : y \in Marks(g) \/ \E s \in Marks(g) : Copies(y, s)
  PROVE  Leads(a, g)'
PROOF
<1>1. CASE Marks(g) = {}
  BY <1>1 DEF Leads
<1>2. CASE ~Exists(a, g) /\ entry[a][g] \in {"delete", "purge"}
  BY <1>2 DEF Leads, Exists
<1>3. CASE Exists(a, g) /\ \A y \in Marks(g) : Behind(y, row[a][g])
  <2>1. \A y \in Marks(g)' : Behind(y, row[a][g])
    BY <1>3, CopyIsBehind
  <2>2. Exists(a, g)' /\ \A y \in Marks(g)' : Behind(y, row'[a][g])
    BY <1>3, <2>1 DEF Exists
  <2> QED
    BY <2>2 DEF Leads
<1> QED
  BY <1>1, <1>2, <1>3 DEF Leads

(* One site writes one record: what that means for the order of all. *)
LEMMA WriteIsMastered ==
  ASSUME ReplicationInv, OneMaster, MasterInv, NEW n \in Site, NEW g \in Guid,
         NEW w \in State \cup {NoRow}, NEW b \in ObjectAction \cup {NoEntry},
         SetRow(n, g, w), SetEntry(n, g, b), UNCHANGED <<usage, docs>>,
         w # NoRow => Ordered(Marks(g) \cup {Mark(w)}),
         \A a \in usage.authors : Leads(a, g)',
         \/ UNCHANGED importing /\ (n \in usage.authors \/ importing[n] = Idle)
         \/ importing' = [importing EXCEPT ![n] = Idle]
  PROVE  MasterInv'
PROOF
<1>1. \A m \in Site, h \in Guid : row'[m][h] = IF m = n /\ h = g THEN w ELSE row[m][h]
  BY RowIs DEF ReplicationInv
<1>2. \A m \in Site, h \in Guid : entry'[m][h] = IF m = n /\ h = g THEN b ELSE entry[m][h]
  BY EntryIs DEF ReplicationInv
<1>3. \A h \in Guid : \A y \in Marks(h)' :
        y \in Marks(h) \/ (h = g /\ w # NoRow /\ y = Mark(w))
  BY WriteMarks
<1>4. /\ \A h \in Guid : Ordered(Marks(h))
      /\ \A a \in usage.authors, h \in Guid : Leads(a, h)
      /\ \A m \in Site : importing[m] # Idle => Fits(m, importing[m])
  BY DEF MasterInv
<1>5. usage.authors \subseteq Site
  BY DEF ReplicationInv, TypeOK
<1>6. ASSUME NEW h \in Guid PROVE Ordered(Marks(h)')
  <2>1. CASE h = g /\ w # NoRow
    <3>1. Marks(h)' \subseteq Marks(g) \cup {Mark(w)}
      BY <1>3, <2>1
    <3> QED
      BY <2>1, <3>1, FewerAreOrdered
  <2>2. CASE ~(h = g /\ w # NoRow)
    <3>1. Marks(h)' \subseteq Marks(h)
      BY <1>3, <2>2
    <3> QED
      BY <1>4, <3>1, FewerAreOrdered
  <2> QED
    BY <2>1, <2>2
<1>7. ASSUME NEW a \in usage.authors, NEW h \in Guid PROVE Leads(a, h)'
  <2>1. CASE h = g
    BY <2>1
  <2>2. CASE h # g
    <3>1. row'[a][h] = row[a][h] /\ entry'[a][h] = entry[a][h] /\ a \in Site
      BY <1>1, <1>2, <1>5, <2>2
    <3>2. \A y \in Marks(h)' : y \in Marks(h)
      BY <1>3, <2>2
    <3> QED
      BY <1>4, <3>1, <3>2, LeadsStays
  <2> QED
    BY <2>1, <2>2
<1>8. ASSUME NEW m \in Site, importing'[m] # Idle PROVE Fits(m, importing[m])'
  <2>1. importing'[m] = importing[m] /\ importing[m] \in Import
    BY <1>8 DEF ReplicationInv, TypeOK
  <2>2. Fits(m, importing[m]) /\ importing[m].doc.guid \in Guid
    BY <1>4, <1>8, <2>1 DEF Import, ObjectDoc
  <2>3. m \notin usage.authors => m # n
    BY <1>8, <2>1 DEF ReplicationInv, TypeOK
  <2> QED
    BY <1>1, <2>1, <2>2, <2>3 DEF Fits
<1> QED
  BY <1>6, <1>7, <1>8 DEF MasterInv, OneMaster

(* What the master does to its own record: Leads decides. *)
LEMMA MasterRow ==
  ASSUME ReplicationInv, OneMaster, MasterInv, NEW a \in usage.authors, NEW g \in Guid,
         Live(a, g)
  PROVE  \A y \in Marks(g) :
           ~y.deleted /\ y.version <= row[a][g].version /\ y.revised <= row[a][g].revised
PROOF
<1>1. a \in Site /\ Mark(row[a][g]) \in Marks(g)
  BY HasMark DEF ReplicationInv, TypeOK, Live
<1>2. Leads(a, g)
  BY DEF MasterInv
<1>3. \A y \in Marks(g) : Behind(y, row[a][g])
  BY <1>1, <1>2 DEF Leads, Live
<1> QED
  BY <1>3 DEF Behind, Live

(* An object the master changes: the mark w is ahead of all. *)
LEMMA MasterChanges ==
  ASSUME ReplicationInv, OneMaster, MasterInv, NEW n \in usage.authors, NEW g \in Guid,
         NEW w \in State, NEW b \in ObjectAction \cup {NoEntry},
         SetRow(n, g, w), SetEntry(n, g, b), UNCHANGED <<usage, docs, importing>>,
         \A y \in Marks(g) :
           ~y.deleted /\ y.version < w.version /\ y.revised <= w.revised
  PROVE  MasterInv'
PROOF
<1>1. n \in Site
  BY DEF ReplicationInv, TypeOK
<1>2. /\ Mark(w).version = w.version /\ Mark(w).deleted = w.deleted
      /\ Mark(w).revised = w.revised
      /\ w.version \in Nat /\ w.deleted \in BOOLEAN /\ w.revised \in Nat
  <2>1. usage \in Usage
    BY DEF ReplicationInv, TypeOK
  <2> QED
    BY <2>1 DEF Mark, State, Time
<1>3. \A y \in Marks(g) :
        y.version \in Nat /\ y.deleted \in BOOLEAN /\ y.revised \in Nat
  BY MarksAre
<1>4. Ordered(Marks(g) \cup {Mark(w)})
  BY <1>2, <1>3 DEF Ordered
<1>5. w # NoRow => row'[n][g] = w /\ Exists(n, g)'
  BY <1>1, RowIs DEF ReplicationInv, Exists
<1>6. \A y \in Marks(g)' : y \in Marks(g) \/ y = Mark(w)
  BY <1>1, WriteMarks
<1>7. \A y \in Marks(g)' : Behind(y, w)
  BY <1>2, <1>3, <1>6 DEF Behind
<1>8. ASSUME NEW a \in usage.authors PROVE Leads(a, g)'
  <2>1. a = n
    BY DEF OneMaster
  <2>2. w # NoRow
    BY NoRowIsNoRecord DEF ReplicationInv, TypeOK
  <2> QED
    BY <1>5, <1>7, <2>1, <2>2 DEF Leads
<1> QED
  BY <1>1, <1>4, <1>8, WriteIsMastered

LEMMA MasterActs ==
  ASSUME ReplicationInv, LinksKnown, OneMaster, MasterInv, NEW n \in Site, NEW g \in Guid,
         \/ \E c \in Content : Create(n, g, c) \/ Update(n, g, c)
         \/ Delete(n, g) \/ Undelete(n, g) \/ Purge(n, g)
  PROVE  MasterInv'
PROOF
<1>1. /\ UNCHANGED <<usage, docs, importing>> /\ now < usage.seconds /\ now' = now + 1
      /\ n \in usage.authors /\ (Exists(n, g) => row[n][g].version < MaxVersion)
  BY DEF Create, Update, Delete, Undelete, Purge, Client
<1>2. usage \in Usage /\ usage.seconds \in Nat /\ now \in Nat
  BY DEF ReplicationInv, TypeOK, Time
<1>3. now' \in Time
  BY <1>1, <1>2 DEF Time
<1>4. Exists(n, g) => /\ row[n][g] \in State /\ row[n][g].revised <= now
                      /\ row[n][g].version + 1 \in 1..MaxVersion
                      /\ row[n][g].version \in Nat /\ row[n][g].revised \in Nat
  <2>1. Exists(n, g) => row[n][g] \in State /\ row[n][g].revised <= now
    BY DEF Exists, ReplicationInv, TypeOK, Dated
  <2> QED
    BY <1>1, <1>2, <2>1 DEF State, Time
<1>5. \A y \in Marks(g) :
        y.version \in Nat /\ y.deleted \in BOOLEAN /\ y.revised \in Nat /\ y.revised <= now
  BY MarksAre
<1>6. ASSUME NEW c \in Content, Create(n, g, c) PROVE MasterInv'
  <2> DEFINE w == [content |-> c, links |-> Needs[g], revised |-> now', deleted |-> FALSE,
                   version |-> 1]
  <2>1. /\ SetRow(n, g, w) /\ SetEntry(n, g, "create") /\ \A d \in docs : d.guid # g
        /\ \A m \in Site : ~Exists(m, g)
    BY <1>6 DEF Create
  <2>2. w \in State
    BY <1>2, <1>3 DEF State
  <2>3. \A m \in Site : importing[m] # Idle => importing[m].doc.guid # g
    BY <2>1 DEF ReplicationInv, ImportsAreFounded, Founded
  <2>4. Marks(g) = {}
    BY <2>1, <2>3 DEF Marks
  <2> HIDE DEF w
  <2> QED
    BY <1>1, <2>1, <2>2, <2>4, MasterChanges
<1>7. ASSUME NEW w \in State, NEW a \in ObjectAction, Live(n, g),
             SetRow(n, g, w), MarkEntry(n, g, a),
             w.version = row[n][g].version + 1, w.revised = now'
      PROVE  MasterInv'
  <2>1. PICK b \in {a, NoEntry} : SetEntry(n, g, b)
    BY <1>7, Marked
  <2>2. \A y \in Marks(g) :
          ~y.deleted /\ y.version <= row[n][g].version /\ y.revised <= row[n][g].revised
    BY <1>1, <1>7, MasterRow
  <2>3. \A y \in Marks(g) :
          ~y.deleted /\ y.version < w.version /\ y.revised <= w.revised
    BY <1>1, <1>2, <1>4, <1>5, <1>7, <2>2 DEF Live
  <2> QED
    BY <1>1, <1>7, <2>1, <2>3, MasterChanges
<1>8. ASSUME NEW c \in Content, Update(n, g, c) PROVE MasterInv'
  <2> DEFINE w == [row[n][g] EXCEPT !.content = c, !.revised = now', !.version = @ + 1]
  <2>1. Live(n, g) /\ Exists(n, g) /\ SetRow(n, g, w) /\ MarkEntry(n, g, "update")
    BY <1>8 DEF Update, Live
  <2>2. w \in State /\ w.version = row[n][g].version + 1 /\ w.revised = now'
    BY <1>2, <1>3, <1>4, <2>1 DEF State
  <2> HIDE DEF w
  <2> QED
    BY <1>7, <2>1, <2>2
<1>9. ASSUME Delete(n, g) PROVE MasterInv'
  <2> DEFINE w == [row[n][g] EXCEPT !.deleted = TRUE, !.revised = now', !.version = @ + 1]
  <2>1. Live(n, g) /\ Exists(n, g) /\ SetRow(n, g, w) /\ MarkEntry(n, g, "delete")
    BY <1>9 DEF Delete, Live
  <2>2. w \in State /\ w.version = row[n][g].version + 1 /\ w.revised = now'
    BY <1>2, <1>3, <1>4, <2>1 DEF State
  <2> HIDE DEF w
  <2> QED
    BY <1>7, <2>1, <2>2
<1>10. ~Undelete(n, g)
  BY DEF Undelete, OneMaster
<1>11. ASSUME Purge(n, g) PROVE MasterInv'
  <2>1. SetRow(n, g, NoRow) /\ SetEntry(n, g, "purge")
    BY <1>11 DEF Purge, MarkEntry, LinksKnown
  <2>2. ~Exists(n, g)' /\ entry'[n][g] = "purge"
    BY <2>1, RowIs, EntryIs, <1>1 DEF Exists, ReplicationInv
  <2>3. \A a \in usage.authors : Leads(a, g)'
    BY <1>1, <2>2 DEF OneMaster, Leads
  <2> QED
    BY <1>1, <2>1, <2>3, WriteIsMastered
<1> QED
  BY <1>6, <1>8, <1>9, <1>10, <1>11

(* Documents add no mark: they are written from records. *)
LEMMA ExportIsMastered ==
  ASSUME ReplicationInv, OneMaster, MasterInv, NEW n \in Site,
         (\E g \in Guid : Serialize(n, g)) \/ ExportPurged(n)
  PROVE  MasterInv'
PROOF
<1>1. UNCHANGED <<usage, row, entry, importing, now>>
  BY DEF Serialize, ExportPurged
<1>2. ObjectDoc' = ObjectDoc
  BY <1>1, SetsStay
<1>3. ASSUME NEW e \in docs' \cap ObjectDoc
      PROVE  e \in docs \/ (Exists(n, e.guid) /\ Mark(e.state) = Mark(row[n][e.guid]))
  <2>1. ASSUME NEW g \in Guid, Serialize(n, g), e \notin docs
        PROVE  Exists(n, e.guid) /\ Mark(e.state) = Mark(row[n][e.guid])
    <3>1. e.guid = g /\ e.state = Written(n, g) /\ Exists(n, g)
      BY <1>3, <2>1 DEF Serialize
    <3>2. row[n][g] \in State
      BY <3>1 DEF Exists, ReplicationInv, TypeOK
    <3>3. Mark(Written(n, g)) = Mark(row[n][g])
      BY <3>2 DEF Written, Mark, State
    <3> QED
      BY <3>1, <3>3
  <2>2. ASSUME ExportPurged(n) PROVE e \in docs
    <3>1. \A d \in docs' \ docs : d \in PurgeDoc
      BY <2>2 DEF ExportPurged, PurgeDoc
    <3>2. \A d \in PurgeDoc : d \notin ObjectDoc
      BY DEF PurgeDoc, ObjectDoc
    <3> QED
      BY <1>3, <3>1, <3>2
  <2>3. CASE \E g \in Guid : Serialize(n, g)
    BY <2>1, <2>3
  <2>4. CASE ExportPurged(n)
    BY <2>2, <2>4
  <2> QED
    BY <2>3, <2>4
<1>4. ASSUME NEW h \in Guid, NEW y \in Marks(h)' PROVE y \in Marks(h)
  <2>1. ASSUME NEW e \in docs' \cap ObjectDoc, e.guid = h, y = Mark(e.state)
        PROVE  y \in Marks(h)
    BY <1>3, <2>1, HasMark
  <2>2. \/ \E m \in Site : Exists(m, h) /\ y = Mark(row[m][h])
        \/ \E e \in docs' \cap ObjectDoc : e.guid = h /\ y = Mark(e.state)
        \/ \E m \in Site : /\ importing[m] # Idle /\ importing[m].doc.guid = h
                           /\ y = Mark(importing[m].object)
    BY <1>1, <1>2 DEF Marks, Mark, Exists
  <2> QED
    BY <2>1, <2>2, HasMark
<1>5. \A h \in Guid : Ordered(Marks(h)')
  BY <1>4, FewerAreOrdered DEF MasterInv
<1>6. \A a \in usage.authors, h \in Guid : Leads(a, h)'
  BY <1>1, <1>4, LeadsStays DEF MasterInv, ReplicationInv, TypeOK
<1>7. \A m \in Site : importing'[m] # Idle => Fits(m, importing[m])'
  BY <1>1 DEF MasterInv, Fits
<1> QED
  BY <1>1, <1>5, <1>6, <1>7 DEF MasterInv

(* The master takes in no document of a live object: its record is as new. *)
LEMMA QueryIsMastered ==
  ASSUME ReplicationInv, OneMaster, MasterInv, NEW n \in Site, NEW d \in docs,
         NEW f \in usage.force, ImportQuery(n, d, f)
  PROVE  MasterInv'
PROOF
<1> DEFINE i == [doc |-> d, object |-> Unserialized(n, d), force |-> f,
                 dbobject |-> row[n][d.guid]]
<1>1. /\ UNCHANGED <<usage, row, entry, docs, now>> /\ d \in ObjectDoc
      /\ importing' = [importing EXCEPT ![n] = i]
  BY DEF ImportQuery
<1>2. f = FALSE /\ usage \in Usage
  BY DEF OneMaster, ReplicationInv, TypeOK
<1>3. d.guid \in Guid /\ d.state \in State
  BY <1>1 DEF ObjectDoc
<1>4. Mark(i.object) = Mark(d.state) /\ i.object.deleted = d.state.deleted
  BY <1>3 DEF Unserialized, Mark, State
<1>5. /\ i.doc = d /\ i.dbobject = row[n][d.guid] /\ i.force = FALSE
      /\ Mark(d.state) \in Marks(d.guid)
  BY <1>1, <1>2, <1>3, HasMark
<1>6. ASSUME n \in usage.authors PROVE d.state.deleted /\ row[n][d.guid] # NoRow
  <2>1. Leads(n, d.guid)
    BY <1>3, <1>6 DEF MasterInv
  <2>2. \/ MayRecreate(n, d.guid, f)
        \/ Exists(n, d.guid) /\ (f \/ ~NotNewer(n, d))
    BY DEF ImportQuery
  <2>3. MayRecreate(n, d.guid, f)
          => ~Exists(n, d.guid) /\ entry[n][d.guid] \notin {"delete", "purge"}
    BY <1>2 DEF MayRecreate
  <2>4. Exists(n, d.guid) /\ Behind(Mark(d.state), row[n][d.guid]) /\ ~NotNewer(n, d)
    BY <1>2, <1>5, <2>1, <2>2, <2>3 DEF Leads
  <2>5. ~(d.state.revised <= row[n][d.guid].revised)
    BY <2>4 DEF NotNewer
  <2> QED
    BY <2>4, <2>5 DEF Behind, Mark, Exists
<1> HIDE DEF i
<1>7. Fits(n, i)
  BY <1>4, <1>5, <1>6 DEF Fits
<1>8. \A m \in Site : importing'[m] = IF m = n THEN i ELSE importing[m]
  BY <1>1 DEF ReplicationInv, TypeOK
<1>9. ASSUME NEW h \in Guid, NEW y \in Marks(h)' PROVE y \in Marks(h)
  <2>1. ASSUME NEW m \in Site, importing'[m] # Idle, importing'[m].doc.guid = h,
               y = Mark(importing'[m].object)
        PROVE  y \in Marks(h)
    BY <1>4, <1>5, <1>8, <2>1, HasMark
  <2>2. \/ \E m \in Site : Exists(m, h) /\ y = Mark(row[m][h])
        \/ \E e \in docs \cap ObjectDoc : e.guid = h /\ y = Mark(e.state)
        \/ \E m \in Site : /\ importing'[m] # Idle /\ importing'[m].doc.guid = h
                           /\ y = Mark(importing'[m].object)
    BY <1>1, SetsStay DEF Marks, Mark, Exists
  <2> QED
    BY <2>1, <2>2, HasMark
<1>10. \A h \in Guid : Ordered(Marks(h)')
  BY <1>9, FewerAreOrdered DEF MasterInv
<1>11. \A a \in usage.authors, h \in Guid : Leads(a, h)'
  BY <1>1, <1>9, LeadsStays DEF MasterInv, ReplicationInv, TypeOK
<1>12. \A m \in Site : importing'[m] # Idle => Fits(m, importing[m])'
  BY <1>1, <1>7, <1>8 DEF MasterInv, Fits
<1> QED
  BY <1>1, <1>10, <1>11, <1>12 DEF MasterInv

LEMMA PurgeIsMastered ==
  ASSUME ReplicationInv, LinksKnown, OneMaster, MasterInv, NEW n \in Site, NEW d \in docs,
         ImportPurge(n, d)
  PROVE  MasterInv'
PROOF
<1> DEFINE g == d.guid
<1>1. g \in Guid /\ Exists(n, g) /\ UNCHANGED <<usage, docs, importing>>
      /\ importing[n] = Idle
  BY DEF ImportPurge, PurgeDoc, ByGuid, Live
<1>2. SetRow(n, g, NoRow) /\ SetEntry(n, g, "purge")
  BY <1>1 DEF ImportPurge, MarkEntry, LinksKnown
<1>3. \A m \in Site, h \in Guid : row'[m][h] = IF m = n /\ h = g THEN NoRow ELSE row[m][h]
  BY <1>1, <1>2, RowIs DEF ReplicationInv
<1>4. \A m \in Site, h \in Guid : entry'[m][h] = IF m = n /\ h = g THEN "purge" ELSE entry[m][h]
  BY <1>1, <1>2, EntryIs DEF ReplicationInv
<1>5. ASSUME NEW a \in usage.authors PROVE Leads(a, g)'
  <2>1. a \in Site /\ Leads(a, g)
    BY <1>1 DEF ReplicationInv, TypeOK, MasterInv
  <2>2. CASE a = n
    BY <1>1, <1>3, <1>4, <2>1, <2>2 DEF Leads, Exists
  <2>3. CASE a # n
    <3>1. \A y \in Marks(g)' : y \in Marks(g)
      BY <1>1, <1>2, WriteMarks
    <3> QED
      BY <1>1, <1>3, <1>4, <2>1, <2>3, <3>1, LeadsStays
  <2> QED
    BY <2>2, <2>3
<1> QED
  BY <1>1, <1>2, <1>5, WriteIsMastered

LEMMA TickIsMastered ==
  ASSUME MasterInv, UNCHANGED <<usage, row, entry, docs, importing>>
  PROVE  MasterInv'
PROOF
<1>1. ObjectDoc' = ObjectDoc
  BY SetsStay
<1>2. \A h \in Guid : Marks(h)' = Marks(h)
  BY <1>1 DEF Marks, Mark, Exists
<1>3. \A a \in Site, h \in Guid : Leads(a, h)' <=> Leads(a, h)
  BY <1>2 DEF Leads, Exists
<1> QED
  BY <1>2 DEF MasterInv, OneMaster, Ordered, Leads, Fits, Exists

(* An import writes a copy of what it holds, or dates a deletion anew. *)
LEMMA CopyIsMastered ==
  ASSUME ReplicationInv, OneMaster, MasterInv, NEW n \in Site, NEW g \in Guid,
         NEW w \in State, NEW b \in ObjectAction \cup {NoEntry},
         importing[n] # Idle, importing[n].doc.guid = g, w.revised <= now,
         SetRow(n, g, w), SetEntry(n, g, b), UNCHANGED <<usage, docs>>,
         importing' = [importing EXCEPT ![n] = Idle],
         Copies(Mark(w), Mark(importing[n].object)), n \in usage.authors => w.deleted
  PROVE  MasterInv'
PROOF
<1> DEFINE s == Mark(importing[n].object)
<1>1. s \in Marks(g)
  BY HasMark
<1>2. Ordered(Marks(g)) /\ \A a \in usage.authors : Leads(a, g) /\ a \in Site
  BY DEF MasterInv, ReplicationInv, TypeOK
<1>3. /\ Mark(w).version = w.version /\ Mark(w).deleted = w.deleted
      /\ Mark(w).revised = w.revised
      /\ w.version \in Nat /\ w.deleted \in BOOLEAN /\ w.revised \in Nat
  <2>1. usage \in Usage
    BY DEF ReplicationInv, TypeOK
  <2> QED
    BY <2>1 DEF Mark, State, Time
<1>4. Ordered(Marks(g) \cup {Mark(w)})
  BY <1>1, <1>2, <1>3, CopyIsOrdered
<1>5. \A y \in Marks(g)' : y \in Marks(g) \/ y = Mark(w)
  BY ImportMarks
<1>6. \A m \in Site, h \in Guid : row'[m][h] = IF m = n /\ h = g THEN w ELSE row[m][h]
  BY RowIs DEF ReplicationInv
<1>7. \A m \in Site, h \in Guid : entry'[m][h] = IF m = n /\ h = g THEN b ELSE entry[m][h]
  BY EntryIs DEF ReplicationInv
<1>8. ASSUME NEW a \in usage.authors PROVE Leads(a, g)'
  <2>1. CASE a # n
    <3>1. row'[a][g] = row[a][g] /\ entry'[a][g] = entry[a][g]
      BY <1>2, <1>6, <1>7, <2>1
    <3> QED
      BY <1>1, <1>2, <1>5, <3>1, LeadsStays
  <2>2. CASE a = n
    <3>1. w.deleted /\ w # NoRow
      BY <2>2, NoRowIsNoRecord DEF ReplicationInv, TypeOK
    <3>2. \A y \in Marks(g) : y.version \in Nat /\ y.deleted \in BOOLEAN /\ y.revised \in Nat
      BY MarksAre
    <3>3. \A y \in Marks(g)' : y \in Marks(g) \cup {Mark(w)}
      BY <1>5
    <3>4. ASSUME NEW y \in Marks(g) \cup {Mark(w)} PROVE Behind(y, w)
      <4>1. IF y.deleted THEN w.version = y.version
                         ELSE y.version < w.version /\ y.revised <= w.revised
        BY <1>3, <1>4, <3>1 DEF Ordered
      <4>2. y.version \in Nat /\ y.deleted \in BOOLEAN /\ y.revised \in Nat
        BY <1>3, <3>2
      <4> QED
        BY <1>3, <3>1, <4>1, <4>2 DEF Behind
    <3>5. row'[a][g] = w /\ Exists(a, g)'
      BY <1>6, <2>2, <3>1 DEF Exists
    <3>6. \A y \in Marks(g)' : Behind(y, row'[a][g])
      BY <3>3, <3>4, <3>5
    <3> QED
      BY <3>5, <3>6 DEF Leads
  <2> QED
    BY <2>1, <2>2
<1> QED
  BY <1>4, <1>8, WriteIsMastered

(* An import of an object that was purged here meanwhile writes no record. *)
LEMMA LostIsMastered ==
  ASSUME ReplicationInv, OneMaster, MasterInv, NEW n \in Site, NEW g \in Guid,
         importing[n] # Idle, importing[n].doc.guid = g, ~Exists(n, g),
         SetRow(n, g, NoRow), MarkEntry(n, g, "delete"), UNCHANGED <<usage, docs>>,
         importing' = [importing EXCEPT ![n] = Idle]
  PROVE  MasterInv'
PROOF
<1>1. PICK b \in {"delete", NoEntry} : SetEntry(n, g, b)
  BY Marked
<1>2. Mark(importing[n].object) \in Marks(g)
  BY HasMark
<1>3. \A m \in Site, h \in Guid : row'[m][h] = IF m = n /\ h = g THEN NoRow ELSE row[m][h]
  BY RowIs DEF ReplicationInv
<1>4. \A m \in Site, h \in Guid : entry'[m][h] = IF m = n /\ h = g THEN b ELSE entry[m][h]
  BY <1>1, EntryIs DEF ReplicationInv
<1>5. \A y \in Marks(g)' : y \in Marks(g)
  BY WriteMarks
<1>6. ASSUME NEW a \in usage.authors PROVE Leads(a, g)'
  <2>1. a \in Site /\ Leads(a, g)
    BY DEF ReplicationInv, TypeOK, MasterInv
  <2>2. CASE a # n
    BY <1>3, <1>4, <1>5, <2>1, <2>2, LeadsStays
  <2>3. CASE a = n
    <3>1. entry[a][g] \in {"delete", "purge"}
      BY <1>2, <2>1, <2>3 DEF Leads
    <3>2. SetEntry(n, g, "delete")
      BY <2>3, <3>1 DEF MarkEntry
    <3>3. ~Exists(a, g)' /\ entry'[a][g] = "delete"
      BY <1>3, <2>1, <2>3, <3>2, EntryIs DEF Exists, ReplicationInv
    <3> QED
      BY <3>3 DEF Leads
  <2> QED
    BY <2>2, <2>3
<1> QED
  BY <1>1, <1>6, WriteIsMastered

LEMMA ImportIsMastered ==
  ASSUME ReplicationInv, OneMaster, MasterInv, NEW n \in Site, ImportWrite(n)
  PROVE  MasterInv'
PROOF
<1> DEFINE i == importing[n]
           g == i.doc.guid
           s == i.object
<1>1. /\ i \in Import /\ Founded(n, i) /\ UNCHANGED <<usage, docs, now>>
      /\ importing' = [importing EXCEPT ![n] = Idle] /\ i # Idle /\ Fits(n, i)
  BY DEF ImportWrite, ReplicationInv, TypeOK, ImportsAreFounded, MasterInv
<1>2. g \in Guid /\ s \in State /\ s.revised <= now
  BY <1>1 DEF Import, ObjectDoc, Founded
<1>3. Exists(n, g) => row[n][g] \in State
  BY <1>2 DEF Exists, ReplicationInv, TypeOK
<1>4. now \in Time /\ now \in Nat /\ s.revised \in Nat
  BY <1>2 DEF ReplicationInv, TypeOK, State, Time
<1>5. n \notin usage.authors => i.dbobject = row[n][g]
  BY <1>1 DEF Fits
<1>6. CASE ImportCreate(n, g)
  <2>1. SetRow(n, g, s) /\ SetEntry(n, g, "create") /\ i.dbobject = NoRow
    BY <1>6 DEF ImportCreate
  <2>2. n \notin usage.authors
    BY <1>1, <2>1 DEF Fits
  <2>3. Copies(Mark(s), Mark(s))
    BY DEF Copies
  <2> QED
    BY <1>1, <1>2, <2>1, <2>2, <2>3, CopyIsMastered
<1>7. CASE ImportDelete(n, g)
  <2> DEFINE w == [row[n][g] EXCEPT !.deleted = TRUE, !.revised = now, !.version = s.version]
  <2>1. /\ SetRow(n, g, IF Exists(n, g) THEN w ELSE NoRow) /\ MarkEntry(n, g, "delete")
        /\ s.deleted
    BY <1>7 DEF ImportDelete
  <2>2. CASE Exists(n, g)
    <3>1. PICK b \in {"delete", NoEntry} : SetEntry(n, g, b)
      BY <1>2, <2>1, Marked
    <3>a. s.version \in 1..MaxVersion /\ row[n][g] \in State
      BY <1>2, <1>3, <2>2 DEF State
    <3>b. w \in State /\ w.revised = now /\ w.deleted = TRUE /\ w.version = s.version
      BY <1>4, <3>a DEF State
    <3>2. w \in State /\ w.revised <= now /\ w.revised = now /\ w.deleted /\ w.version = s.version
      BY <1>4, <3>b
    <3>3. SetRow(n, g, w)
      BY <2>1, <2>2
    <3> HIDE DEF w
    <3>4. Copies(Mark(w), Mark(s))
      BY <1>2, <2>1, <3>2 DEF Copies, Mark
    <3> QED
      BY <1>1, <1>2, <3>1, <3>2, <3>3, <3>4, CopyIsMastered
  <2>3. CASE ~Exists(n, g)
    BY <1>1, <1>2, <2>1, <2>3, LostIsMastered
  <2> QED
    BY <2>2, <2>3
<1>8. CASE ImportUpdate(n, g)
  <2> DEFINE u == i.dbobject.deleted /\ entry[n][g] = "delete"
             w == [s EXCEPT !.deleted = row[n][g].deleted /\ ~u]
  <2>1. /\ SetRow(n, g, IF Exists(n, g) THEN w ELSE NoRow) /\ MarkEntry(n, g, "update")
        /\ ~s.deleted /\ i.dbobject # NoRow
    BY <1>8 DEF ImportUpdate
  <2>2. n \notin usage.authors /\ i.dbobject = row[n][g] /\ Exists(n, g) /\ ~i.force
    BY <1>1, <2>1 DEF Fits, Exists
  <2>3. ~row[n][g].deleted
    <3>1. row[n][g].revised < s.revised /\ row[n][g].revised \in Nat
      BY <1>1, <1>3, <2>1, <2>2 DEF Founded, State, Time
    <3>2. Mark(row[n][g]) \in Marks(g) /\ Mark(s) \in Marks(g) /\ Ordered(Marks(g))
      BY <1>1, <1>2, <2>2, HasMark DEF MasterInv
    <3> QED
      BY <1>4, <2>1, <3>1, <3>2 DEF Ordered, Mark
  <2>4. w = s
    BY <1>2, <2>1, <2>3 DEF State
  <2>5. SetRow(n, g, s)
    BY <2>1, <2>2, <2>4
  <2>6. PICK b \in {"update", NoEntry} : SetEntry(n, g, b)
    BY <1>2, <2>1, Marked
  <2>7. Copies(Mark(s), Mark(s))
    BY DEF Copies
  <2> HIDE DEF w
  <2> QED
    BY <1>1, <1>2, <2>2, <2>5, <2>6, <2>7, CopyIsMastered
<1> QED
  BY <1>6, <1>7, <1>8 DEF ImportWrite

LEMMA MasterStep ==
  ASSUME ReplicationInv, LinksKnown, MasterInv, [Next]_vars
  PROVE  MasterInv'
PROOF
<1>1. usage' = usage
  <2>1. ASSUME NEW n \in Site, NEW g \in Guid,
               \/ \E c \in Content : Create(n, g, c) \/ Update(n, g, c)
               \/ Delete(n, g) \/ Undelete(n, g) \/ Purge(n, g) \/ Serialize(n, g)
        PROVE  usage' = usage
    BY <2>1 DEF Create, Update, Delete, Undelete, Purge, Client, Serialize
  <2>2. ASSUME NEW n \in Site, NEW d \in docs,
               ImportPurge(n, d) \/ \E f \in usage.force : ImportQuery(n, d, f)
        PROVE  usage' = usage
    BY <2>2 DEF ImportPurge, ImportQuery
  <2>3. ASSUME NEW n \in Site, ExportPurged(n) \/ ImportWrite(n) PROVE usage' = usage
    BY <2>3 DEF ExportPurged, ImportWrite
  <2>4. Tick \/ UNCHANGED vars => usage' = usage
    BY DEF Tick, vars
  <2> QED
    BY <2>1, <2>2, <2>3, <2>4 DEF Next
<1> SUFFICES ASSUME OneMaster PROVE MasterInv'
  BY <1>1 DEF MasterInv, OneMaster
<1>2. CASE Tick \/ UNCHANGED vars
  BY <1>2, TickIsMastered DEF Tick, vars
<1> QED
  BY <1>2, MasterActs, ExportIsMastered, QueryIsMastered, PurgeIsMastered, ImportIsMastered
  DEF Next

LEMMA MasterInit == Init => MasterInv
PROOF
<1> SUFFICES ASSUME Init PROVE MasterInv
  OBVIOUS
<1>1. \A g \in Guid : Marks(g) = {}
  BY DEF Init, Marks, Exists
<1> QED
  BY <1>1 DEF Init, MasterInv, Ordered, Leads

(* With one master, a record that shows the same change as a document is       *)
(* deleted if and only if the document says so, because the deletion of an    *)
(* object is its last change and every record, document and running import    *)
(* shows it in the same place; and no record links to what its site has never *)
(* known, in whatever order documents come.                                   *)
THEOREM ImportsAreFaithful == Spec => []ImportedIsWhatWasSent
PROOF
<1>1. ReplicationInv /\ LinksKnown /\ MasterInv => ImportedIsWhatWasSent
  <2> SUFFICES ASSUME ReplicationInv, LinksKnown, MasterInv, NEW n \in Site,
                      NEW d \in docs \cap ObjectDoc, OneMaster, Exists(n, d.guid),
                      row[n][d.guid].version = d.state.version
               PROVE  row[n][d.guid].deleted = d.state.deleted
    BY DEF ImportedIsWhatWasSent, LinksKnown
  <2>1. d.guid \in Guid /\ d.state \in State
    BY DEF ObjectDoc
  <2>2. row[n][d.guid] \in State
    BY <2>1 DEF ReplicationInv, TypeOK, Exists
  <2>3. /\ Mark(row[n][d.guid]) \in Marks(d.guid) /\ Mark(d.state) \in Marks(d.guid)
        /\ Ordered(Marks(d.guid))
    BY <2>1, HasMark DEF MasterInv
  <2> DEFINE x == Mark(row[n][d.guid])
             y == Mark(d.state)
  <2>4. /\ x.version = y.version /\ x.version \in Nat
        /\ x.deleted = row[n][d.guid].deleted /\ y.deleted = d.state.deleted
        /\ x.deleted \in BOOLEAN /\ y.deleted \in BOOLEAN
    BY <2>1, <2>2 DEF Mark, State
  <2> HIDE DEF x, y
  <2>5. /\ x.deleted => (IF y.deleted THEN TRUE ELSE y.version < x.version)
        /\ y.deleted => (IF x.deleted THEN TRUE ELSE x.version < y.version)
    BY <2>3 DEF Ordered, x, y
  <2>6. ~(x.version < x.version)
    BY <2>4
  <2> QED
    BY <2>4, <2>5, <2>6
<1>2. Init => ReplicationInv /\ LinksKnown /\ MasterInv
  BY ReplicationInit, LinksInit, MasterInit
<1>3. ReplicationInv /\ LinksKnown /\ MasterInv /\ [Next]_vars
        => (ReplicationInv /\ LinksKnown /\ MasterInv)'
  BY ReplicationStep, LinksStep, MasterStep
<1> QED
  BY <1>1, <1>2, <1>3, PTL DEF Spec

=============================================================================
