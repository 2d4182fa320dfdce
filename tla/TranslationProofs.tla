------------------------- MODULE TranslationProofs -------------------------
(***************************************************************************)
(* What the checks of Translation are worth for every number of sessions,  *)
(* objects, languages and documents.                                       *)
(***************************************************************************)
EXTENDS Translation, FiniteSetTheorems, WellFoundedInduction, TLAPS

TypeOK ==
  /\ row \in [RowId -> Record \cup {NoRow}]
  /\ text \in [TextId -> Text \cup {NoRow}]
  /\ nextId \in 1..(MaxRow + 1) /\ nextText \in 1..(MaxText + 1)
  /\ entry \in [Guid -> Stage \cup {"none"}]
  /\ call \in [Session -> Call \cup {Idle}]
  /\ late \subseteq Session /\ torn \subseteq Guid

(* Records and texts have the ids that were given out, a text names one of
   the records, and what was ever inserted is in the catalogue. *)
AllOf(g) == {i \in RowId : row[i] # NoRow /\ row[i].guid = g}

IdsGivenOut ==
  /\ \A i \in RowId : row[i] # NoRow => i < nextId /\ entry[row[i].guid] # "none"
  /\ \A k \in TextId : text[k] # NoRow => k < nextText /\ row[text[k].sid] # NoRow

(* What the calls hold at their steps, whatever the others do meanwhile.
   First the steps of an import of its own, and those after its nodes. *)
Importing == {"db", "undelete", "name", "find", "langs", "trim", "end"}
AfterNodes == {"find", "langs", "trim", "end"}
DocLangs(d) == {0} \cup {n.lang : n \in ToSet(d.nodes)}

StepFits(c) ==
  /\ c.op = "hold" <=> c.pc = "held"
  /\ c.op = "create" => c.pc \in {"insert", "add"}
  /\ c.op = "update" => c.pc \in {"row", "look", "id", "write", "add"}
  /\ c.op = "delete" => c.pc \in {"count", "cut", "mark"}
  /\ c.op = "purge" <=> c.pc = "texts"
  /\ c.op = "import" <=> c.doc # NoRow
  /\ c.pc \in Importing => c.op = "import"

ImportFits(c) ==
  /\ c.doc \in Docs /\ c.guid = c.doc.guid /\ c.at \in 1..Len(c.doc.nodes)
  /\ c.pc \in Importing \cup {"mark", "insert", "row", "look", "id", "write", "add"}
  /\ c.pc \in AfterNodes => c.at = Len(c.doc.nodes)
  /\ c.pc \notin AfterNodes \cup {"db"} =>
       c.l = c.doc.nodes[c.at].lang /\ c.body = c.doc.nodes[c.at].body /\ c.name = c.doc.name
  /\ c.pc = "db" => c.id = 0
  /\ c.pc = "mark" => c.doc.deleted
  /\ c.pc \in {"undelete", "row", "look", "id", "write"} => ~c.doc.deleted
  /\ c.pc = "name" /\ c.doc.deleted => c.id = 0
  /\ c.pc = "trim" => c.trim # {} /\ c.trim \cap DocLangs(c.doc) = {}

IdsFit(c) ==
  /\ c.pc \in {"held", "count", "cut", "texts", "add", "langs", "trim"} => c.id \in AllOf(c.guid)
  /\ c.pc = "write" =>
       /\ c.found \in TextId /\ c.found < nextText
       /\ text[c.found] # NoRow => text[c.found].lang = c.l /\ text[c.found].sid \in AllOf(c.guid)

CallFits(c) == StepFits(c) /\ IdsFit(c) /\ (c.op = "import" => ImportFits(c))

CallsFit == \A s \in Session : call[s] # Idle => CallFits(call[s])

Based == TypeOK /\ IdsGivenOut /\ CallsFit

-----------------------------------------------------------------------------
(* How the calls change. *)
AfterReturn(c, ok) ==
  LET last == c.doc # NoRow /\ c.at = Len(c.doc.nodes)
  IN  IF c.op # "import" THEN Idle
      ELSE [Blank EXCEPT !.op = "import", !.guid = c.guid, !.doc = c.doc, !.conn = c.conn,
                         !.ok = c.ok /\ ok, !.at = IF last THEN c.at ELSE c.at + 1,
                         !.pc = IF last THEN "find" ELSE "db"]

LEMMA BlankIs ==
  ASSUME NEW g \in Guid
  PROVE  /\ Blank \in Call /\ Blank.op = "hold" /\ Blank.pc = "held" /\ Blank.id = 0 /\ Blank.doc = NoRow
         /\ Blank.ok = TRUE /\ Blank.trim = {} /\ Blank.name = NoRow
PROOF
<1>1. (CHOOSE h \in Guid : TRUE) \in Guid
  OBVIOUS
<1> QED
  BY <1>1, TranslationAssumption DEF Blank, Call, Calls, Steps, Names, Bodies

LEMMA CallIs ==
  ASSUME TypeOK, NEW s \in Session, call[s] # Idle
  PROVE  call[s] \in Call
PROOF
  BY DEF TypeOK

LEMMA Elements ==
  ASSUME NEW S, NEW q \in Seq(S)
  PROVE  Len(q) \in Nat /\ DOMAIN q = 1..Len(q) /\ \A m \in 1..Len(q) : q[m] \in S
PROOF
  OBVIOUS

LEMMA DocIs ==
  ASSUME NEW d \in Docs
  PROVE  /\ d.guid \in Guid /\ d.deleted \in BOOLEAN /\ d.name \in Names /\ Len(d.nodes) \in Nat \ {0}
         /\ \A m \in 1..Len(d.nodes) : d.nodes[m] \in [lang : Lang, body : DocBodies]
         /\ \A m \in 1..Len(d.nodes) : d.nodes[m] \in ToSet(d.nodes) /\ d.nodes[m].lang \in DocLangs(d) \cap Lang
         /\ \A l \in DocLangs(d) \ {0} : \E m \in 1..Len(d.nodes) : d.nodes[m].lang = l
PROOF
<1>1. d.nodes \in Seq([lang : Lang, body : DocBodies]) /\ Len(d.nodes) > 0 /\ d.guid \in Guid /\ d.deleted \in BOOLEAN
  BY TranslationAssumption
<1>2. Len(d.nodes) \in Nat /\ DOMAIN d.nodes = 1..Len(d.nodes) /\ Len(d.nodes) > 0
  BY <1>1, Elements
<1>3. \A m \in 1..Len(d.nodes) : d.nodes[m] \in [lang : Lang, body : DocBodies]
  BY <1>1, Elements, Zenon
<1>4. ToSet(d.nodes) = {d.nodes[m] : m \in 1..Len(d.nodes)}
  BY <1>2 DEF ToSet
<1>5. \A m \in 1..Len(d.nodes) : d.nodes[m].lang \in Lang
  BY <1>3
<1> QED
  BY <1>1, <1>2, <1>3, <1>4, <1>5 DEF Names, DocLangs

LEMMA ReturnIs ==
  ASSUME TypeOK, CallsFit, NEW s \in Session, call[s] # Idle, NEW ok \in BOOLEAN, Return(s, ok)
  PROVE  /\ call' = [call EXCEPT ![s] = AfterReturn(call[s], ok)]
         /\ AfterReturn(call[s], ok) \in Call \cup {Idle}
         /\ call[s].op # "import" => AfterReturn(call[s], ok) = Idle
         /\ call[s].op = "import" =>
              LET c == AfterReturn(call[s], ok) IN
              /\ c \in Call /\ c.op = "import" /\ c.guid = call[s].guid /\ c.doc = call[s].doc
              /\ c.conn = call[s].conn /\ c.ok = (call[s].ok /\ ok) /\ c.id = 0
              /\ IF call[s].at = Len(call[s].doc.nodes) THEN c.at = call[s].at /\ c.pc = "find"
                                                       ELSE c.at = call[s].at + 1 /\ c.pc = "db"
PROOF
<1>1. call[s] \in Call
  BY CallIs
<1>2. call' = [call EXCEPT ![s] = AfterReturn(call[s], ok)]
  BY DEF Return, AfterReturn, To
<1>3. CASE call[s].op # "import"
  BY <1>2, <1>3 DEF AfterReturn
<1>4. CASE call[s].op = "import"
  <2> DEFINE c == call[s]
             last == c.doc # NoRow /\ c.at = Len(c.doc.nodes)
             pc == IF last THEN "find" ELSE "db"
             at == IF last THEN c.at ELSE c.at + 1
  <2>1. c.doc \in Docs /\ c.guid \in Guid /\ c.conn \in Lang /\ c.ok \in BOOLEAN /\ c.at \in Nat /\ c.doc # NoRow
    BY <1>1, <1>4, TranslationAssumption DEF CallsFit, CallFits, ImportFits, Call
  <2>2. pc \in {"find", "db"} /\ at \in Nat /\ (c.ok /\ ok) \in BOOLEAN
    BY <2>1
  <2>3. AfterReturn(c, ok) = [Blank EXCEPT !.op = "import", !.guid = c.guid, !.doc = c.doc, !.conn = c.conn,
                         !.ok = c.ok /\ ok, !.at = at, !.pc = pc]
    BY <1>4 DEF AfterReturn
  <2>4. Blank \in Call /\ Blank.id = 0
    BY <2>1, BlankIs
  <2> HIDE DEF pc, at
  <2>5. AfterReturn(c, ok) \in Call
    BY <2>1, <2>2, <2>3, <2>4 DEF Call, Calls, Steps
  <2>8. /\ AfterReturn(c, ok).op = "import" /\ AfterReturn(c, ok).guid = c.guid
        /\ AfterReturn(c, ok).doc = c.doc /\ AfterReturn(c, ok).conn = c.conn
        /\ AfterReturn(c, ok).ok = (c.ok /\ ok) /\ AfterReturn(c, ok).id = 0
        /\ AfterReturn(c, ok).at = at /\ AfterReturn(c, ok).pc = pc
    BY <2>1, <2>2, <2>3, <2>4 DEF Call, Calls, Steps
  <2>6. CASE call[s].at = Len(call[s].doc.nodes)
    BY <1>2, <1>4, <2>1, <2>5, <2>8, <2>6 DEF at, pc
  <2>7. CASE call[s].at # Len(call[s].doc.nodes)
    BY <1>2, <1>4, <2>1, <2>5, <2>8, <2>7 DEF at, pc
  <2> QED
    BY <2>6, <2>7
<1> QED
  BY <1>3, <1>4

(* What a step leaves as it was in the call it goes on with. *)
SameImport(c, d) ==
  c.doc = d.doc /\ c.at = d.at /\ c.ok = d.ok /\ c.conn = d.conn /\ c.guid = d.guid
SameWrite(c, d) == c.op = d.op /\ c.l = d.l /\ c.name = d.name /\ c.body = d.body

WithPc(c, p) == [c EXCEPT !.pc = p]
WithId(c, p, i) == [c EXCEPT !.pc = p, !.id = i]
WithFound(c, p, k) == [c EXCEPT !.pc = p, !.found = k]
WithTrim(c, p, T) == [c EXCEPT !.pc = p, !.trim = T]

LEMMA PcChanged ==
  ASSUME NEW c \in Call, NEW p \in Steps
  PROVE  LET e == WithPc(c, p) IN
         /\ e \in Call /\ e.pc = p /\ SameImport(e, c) /\ SameWrite(e, c)
         /\ e.id = c.id /\ e.found = c.found /\ e.trim = c.trim
PROOF
<1>1. WithPc(c, p) \in Call
  BY DEF Call, WithPc
<1> QED
  BY <1>1 DEF Call, SameImport, SameWrite, WithPc

LEMMA IdChanged ==
  ASSUME NEW c \in Call, NEW p \in Steps, NEW i \in RowId \cup {0}
  PROVE  LET e == WithId(c, p, i) IN e \in Call /\ e.pc = p /\ e.id = i /\ SameImport(e, c) /\ SameWrite(e, c)
PROOF
<1>1. WithId(c, p, i) \in Call
  BY DEF Call, WithId
<1> QED
  BY <1>1 DEF Call, SameImport, SameWrite, WithId

LEMMA FoundChanged ==
  ASSUME NEW c \in Call, NEW p \in Steps, NEW k \in TextId
  PROVE  LET e == WithFound(c, p, k) IN
         e \in Call /\ e.pc = p /\ e.found = k /\ SameImport(e, c) /\ SameWrite(e, c)
PROOF
<1>1. WithFound(c, p, k) \in Call
  BY DEF Call, WithFound
<1> QED
  BY <1>1 DEF Call, SameImport, SameWrite, WithFound

LEMMA TrimChanged ==
  ASSUME NEW c \in Call, NEW p \in Steps, NEW T \in SUBSET Lang
  PROVE  LET e == WithTrim(c, p, T) IN
         e \in Call /\ e.pc = p /\ e.trim = T /\ e.id = c.id /\ SameImport(e, c) /\ SameWrite(e, c)
PROOF
<1>1. WithTrim(c, p, T) \in Call
  BY DEF Call, WithTrim
<1> QED
  BY <1>1 DEF Call, SameImport, SameWrite, WithTrim

LEMMA StepNames ==
  /\ "held" \in Steps /\ "insert" \in Steps /\ "row" \in Steps /\ "look" \in Steps /\ "id" \in Steps
  /\ "write" \in Steps /\ "add" \in Steps /\ "count" \in Steps /\ "cut" \in Steps /\ "mark" \in Steps
  /\ "texts" \in Steps /\ "db" \in Steps /\ "undelete" \in Steps /\ "name" \in Steps /\ "find" \in Steps
  /\ "langs" \in Steps /\ "trim" \in Steps /\ "end" \in Steps
PROOF
  BY DEF Steps

(* What the tables of a step are: only object g is written, records stay
   records of their object and texts texts of their record and language. *)
TablesTyped ==
  /\ row' \in [RowId -> Record \cup {NoRow}]
  /\ text' \in [TextId -> Text \cup {NoRow}]
  /\ nextId' \in 1..(MaxRow + 1) /\ nextText' \in 1..(MaxText + 1)
  /\ entry' \in [Guid -> Stage \cup {"none"}]

RowsChange(g) ==
  /\ nextId <= nextId'
  /\ \A i \in RowId : row[i] # NoRow =>
       row'[i] # NoRow /\ row'[i].guid = row[i].guid /\ (row[i].guid # g => row'[i] = row[i])
  /\ \A i \in RowId : row[i] = NoRow /\ row'[i] # NoRow =>
       i < nextId' /\ row'[i].guid = g /\ entry'[g] # "none"
  /\ \A h \in Guid : entry[h] # "none" => entry'[h] # "none"
  /\ \A h \in Guid \ {g} : entry'[h] = entry[h]

TextsChange(g) ==
  /\ nextText <= nextText'
  /\ \A k \in TextId : text[k] # NoRow /\ text'[k] # NoRow =>
       text'[k].sid = text[k].sid /\ text'[k].lang = text[k].lang
  /\ \A k \in TextId : text[k] # NoRow /\ text'[k] # text[k] => text[k].sid \in AllOf(g)
  /\ \A k \in TextId : text[k] = NoRow /\ text'[k] # NoRow =>
       nextText <= k /\ k < nextText' /\ text'[k].sid \in AllOf(g)

(* How session s goes on. *)
Moves(s) ==
  /\ call' = [call EXCEPT ![s] = call'[s]] /\ call'[s] \in Call \cup {Idle}
  /\ call'[s] # Idle => CallFits(call[s])' /\ (call[s] # Idle => call'[s].guid = call[s].guid)

LEMMA SameTables ==
  ASSUME TypeOK, NEW g \in Guid, UNCHANGED tables
  PROVE  TablesTyped /\ RowsChange(g) /\ TextsChange(g)
PROOF
<1>1. nextId \in Nat /\ nextText \in Nat
  BY DEF TypeOK
<1> QED
  BY <1>1 DEF TypeOK, TablesTyped, RowsChange, TextsChange, tables

LEMMA SameTexts ==
  ASSUME TypeOK, NEW g \in Guid, UNCHANGED <<text, nextText>>
  PROVE  TextsChange(g) /\ text' \in [TextId -> Text \cup {NoRow}] /\ nextText' \in 1..(MaxText + 1)
PROOF
<1>1. nextText \in Nat
  BY DEF TypeOK
<1> QED
  BY <1>1 DEF TypeOK, TextsChange

LEMMA SameRows ==
  ASSUME TypeOK, NEW g \in Guid, UNCHANGED <<row, nextId, entry>>
  PROVE  /\ RowsChange(g) /\ row' \in [RowId -> Record \cup {NoRow}] /\ nextId' \in 1..(MaxRow + 1)
         /\ entry' \in [Guid -> Stage \cup {"none"}]
PROOF
<1>1. nextId \in Nat
  BY DEF TypeOK
<1> QED
  BY <1>1 DEF TypeOK, RowsChange

LEMMA RowIs ==
  ASSUME TypeOK, NEW i \in RowId, row[i] # NoRow
  PROVE  row[i] \in Record /\ row[i].guid \in Guid /\ row[i].name \in Names /\ row[i].stage \in Stage
PROOF
<1>1. row[i] \in Record
  BY DEF TypeOK
<1> QED
  BY <1>1 DEF Record

LEMMA TextIs ==
  ASSUME TypeOK, NEW k \in TextId, text[k] # NoRow
  PROVE  text[k] \in Text /\ text[k].sid \in RowId /\ text[k].lang \in Lang /\ text[k].body \in Bodies
PROOF
<1>1. text[k] \in Text
  BY DEF TypeOK
<1> QED
  BY <1>1 DEF Text

LEMMA IdsKept ==
  ASSUME TypeOK, IdsGivenOut, NEW g \in Guid, TablesTyped, RowsChange(g), TextsChange(g)
  PROVE  IdsGivenOut'
PROOF
<1>1. ASSUME NEW i \in RowId, row'[i] # NoRow PROVE i < nextId' /\ entry'[row'[i].guid] # "none"
  <2>1. i \in Nat /\ nextId \in Nat /\ nextId' \in Nat /\ nextId <= nextId'
    BY DEF TypeOK, TablesTyped, RowId, RowsChange
  <2>2. CASE row[i] = NoRow
    BY <1>1, <2>2 DEF RowsChange
  <2>3. CASE row[i] # NoRow
    <3>1. i < nextId /\ entry[row[i].guid] # "none" /\ row[i].guid \in Guid /\ row'[i].guid = row[i].guid
      BY <2>3, RowIs DEF IdsGivenOut, RowsChange
    <3> QED
      BY <2>1, <3>1 DEF RowsChange
  <2> QED
    BY <2>2, <2>3
<1>2. ASSUME NEW k \in TextId, text'[k] # NoRow PROVE k < nextText' /\ row'[text'[k].sid] # NoRow
  <2>1. k \in Nat /\ nextText \in Nat /\ nextText' \in Nat /\ nextText <= nextText'
    BY DEF TypeOK, TablesTyped, TextId, TextsChange
  <2>2. CASE text[k] = NoRow
    <3>1. k < nextText' /\ text'[k].sid \in AllOf(g)
      BY <1>2, <2>2 DEF TextsChange
    <3> QED
      BY <3>1 DEF AllOf, RowsChange
  <2>3. CASE text[k] # NoRow
    <3>1. k < nextText /\ row[text[k].sid] # NoRow /\ text[k].sid \in RowId /\ text'[k].sid = text[k].sid
      BY <1>2, <2>3, TextIs DEF IdsGivenOut, TextsChange
    <3> QED
      BY <2>1, <3>1 DEF RowsChange
  <2> QED
    BY <2>2, <2>3
<1> QED
  BY <1>1, <1>2 DEF IdsGivenOut

LEMMA BasedKept ==
  ASSUME Based, NEW g \in Guid, NEW s \in Session, TablesTyped, RowsChange(g), TextsChange(g), Moves(s),
         late' \subseteq Session, torn' \subseteq Guid
  PROVE  Based'
PROOF
<1>1. TypeOK /\ IdsGivenOut /\ CallsFit
  BY DEF Based
<1>2. call' \in [Session -> Call \cup {Idle}]
  BY <1>1 DEF TypeOK, Moves
<1>3. TypeOK'
  BY <1>2 DEF TypeOK, TablesTyped
<1>4. ASSUME NEW t \in Session, call'[t] # Idle PROVE CallFits(call[t])'
  <2>1. CASE t = s
    BY <1>4, <2>1 DEF Moves
  <2>2. CASE t # s
    <3>1. call'[t] = call[t] /\ CallFits(call[t]) /\ call[t] # Idle
      BY <1>1, <1>4, <2>2 DEF Moves, TypeOK, CallsFit
    <3>2. StepFits(call[t])' /\ (call'[t].op = "import" => ImportFits(call[t])')
      BY <3>1 DEF CallFits, StepFits, ImportFits
    <3>3. ASSUME call[t].pc = "write"
          PROVE  /\ call[t].found \in TextId /\ call[t].found < nextText'
                 /\ text'[call[t].found] # NoRow =>
                      text'[call[t].found].lang = call[t].l /\ text'[call[t].found].sid \in AllOf(call[t].guid)'
      <4> DEFINE k == call[t].found
      <4>1. /\ k \in TextId /\ k < nextText
            /\ text[k] # NoRow => text[k].lang = call[t].l /\ text[k].sid \in AllOf(call[t].guid)
        BY <3>1, <3>3 DEF CallFits, IdsFit
      <4>2. k \in Nat /\ nextText \in Nat /\ nextText' \in Nat /\ nextText <= nextText'
        BY <1>1, <4>1 DEF TypeOK, TablesTyped, TextId, TextsChange
      <4>3. text[k] = NoRow => text'[k] = NoRow
        BY <4>1, <4>2 DEF TextsChange
      <4>4. AllOf(call[t].guid) \subseteq AllOf(call[t].guid)'
        BY <3>1 DEF AllOf, RowsChange
      <4> HIDE DEF k
      <4>5. text'[k] # NoRow => text'[k].lang = call[t].l /\ text'[k].sid \in AllOf(call[t].guid)'
        BY <4>1, <4>3, <4>4 DEF TextsChange
      <4> QED
        BY <4>1, <4>2, <4>5 DEF k
    <3>4. IdsFit(call[t])'
      <4>1. AllOf(call[t].guid) \subseteq AllOf(call[t].guid)'
        BY <3>1 DEF AllOf, RowsChange
      <4> QED
        BY <3>1, <3>3, <4>1 DEF CallFits, IdsFit
    <3> QED
      BY <3>2, <3>4 DEF CallFits
  <2> QED
    BY <2>1, <2>2
<1> QED
  BY <1>1, <1>3, <1>4, IdsKept DEF Based, CallsFit

-----------------------------------------------------------------------------
(* An object is sound if it was torn, if it is about to be - a session that
   was overtaken on it will write to it whatever it finds - or if nothing is
   wrong with it that is not being put right, and all sessions that were not
   overtaken on it know how it is. *)
On(s, g) == call[s] # Idle /\ call[s].guid = g

Doomed(g) == \E s \in late : On(s, g) /\ call[s].pc \in {"add", "texts"}

(* Somebody adds the text that record i of g lacks, or removes those it has. *)
Pending(g, i, pc) == \E s \in Session \ late : On(s, g) /\ call[s].pc = pc /\ call[s].id = i

AlmostWhole(g) ==
  /\ \A i, j \in RowsOf(g) : i = j
  /\ \A i \in RowsOf(g) : TextsOf(i) = {} => Pending(g, i, "add")
  /\ \A i \in AllOf(g) \ RowsOf(g) : TextsOf(i) # {} => Pending(g, i, "texts")
  /\ \A i \in AllOf(g) : \A k, m \in TextsOf(i) : text[k].lang = text[m].lang => k = m
  /\ LiveOf(g) # {} => entry[g] = "live"

(* What a session found is still so: the records of its object, *)
KnowsRows(c) ==
  /\ c.pc \in {"held", "count", "cut", "undelete"} => c.id \in RowsOf(c.guid) /\ TextsOf(c.id) # {}
  /\ c.pc \in {"langs", "trim"} => c.id \in LiveOf(c.guid)
  /\ c.pc = "texts" => RowsOf(c.guid) = {}
  /\ c.pc = "insert" \/ (c.pc = "name" /\ c.id = 0) => \A i \in RowsOf(c.guid) : TextsOf(i) = {}

(* its texts, *)
KnowsTexts(c) ==
  /\ c.pc = "cut" => \E k \in TextsOf(c.id) : text[k].lang # c.l
  /\ c.pc = "write" => text[c.found] # NoRow /\ text[c.found].sid \in RowsOf(c.guid)
  /\ c.pc = "id" => \A i \in RowsOf(c.guid) : \A k \in TextsOf(i) : text[k].lang # c.l
  /\ c.pc = "add" => c.id \in RowsOf(c.guid) /\ \A k \in TextsOf(c.id) : text[k].lang # c.l

(* and, of an import, what became of the nodes until now. *)
Nodes(c) == IF c.pc \in AfterNodes THEN c.at ELSE c.at - 1

Holds(i, node) == \E k \in TextsOf(i) : text[k].lang = node.lang /\ text[k].body = node.body

Arrived(d, n) ==
  IF d.deleted THEN LiveOf(d.guid) = {}
  ELSE \E i \in LiveOf(d.guid) : row[i].name = d.name /\ \A m \in 1..n : Holds(i, d.nodes[m])

KnowsImport(c) ==
  /\ c.pc = "name" /\ c.id # 0 => c.id \in LiveOf(c.guid)
  /\ c.pc \in {"row", "look", "id", "write"} => LiveOf(c.guid) # {}
  /\ c.pc \in {"look", "id", "write", "add"} => \A i \in RowsOf(c.guid) : row[i].name = c.name
  /\ c.pc = "add" => \A i \in RowsOf(c.guid) : row[i].stage = (IF c.doc.deleted THEN "deleted" ELSE "live")
  /\ c.ok /\ Nodes(c) > 0 => Arrived(c.doc, Nodes(c))
  /\ c.pc = "trim" => \A k \in TextsOf(c.id) : text[k].lang \in c.trim \cup DocLangs(c.doc)
  /\ c.pc = "end" /\ c.ok /\ ~c.doc.deleted /\ c.conn = 0 =>
       \A i \in LiveOf(c.guid) : \A k \in TextsOf(i) : text[k].lang \in DocLangs(c.doc)

Knows(c) == KnowsRows(c) /\ KnowsTexts(c) /\ (c.op = "import" => KnowsImport(c))

Sound(g) ==
  \/ g \in torn
  \/ Doomed(g)
  \/ AlmostWhole(g) /\ \A s \in Session \ late : On(s, g) => Knows(call[s])

TranslationInv == Based /\ \A g \in Guid : Sound(g)

-----------------------------------------------------------------------------
(* What a step does not touch stays sound. *)
Untouched(g) ==
  /\ \A i \in RowId : i \in AllOf(g) \/ i \in AllOf(g)' => row'[i] = row[i]
  /\ \A i \in AllOf(g) : TextsOf(i)' = TextsOf(i) /\ \A k \in TextsOf(i) : text'[k] = text[k]
  /\ \A k \in TextId : text[k] # NoRow /\ text[k].sid \in AllOf(g) => text'[k] = text[k]
  /\ entry'[g] = entry[g]

LEMMA RowsUntouched ==
  ASSUME NEW g \in Guid, Untouched(g)
  PROVE  /\ AllOf(g)' = AllOf(g) /\ RowsOf(g)' = RowsOf(g) /\ LiveOf(g)' = LiveOf(g)
         /\ \A i \in AllOf(g) : TextsOf(i)' = TextsOf(i) /\ row'[i] = row[i]
         /\ RowsOf(g) \subseteq AllOf(g) /\ LiveOf(g) \subseteq RowsOf(g)
PROOF
<1>1. AllOf(g)' = AllOf(g)
  BY DEF Untouched, AllOf
<1>2. RowsOf(g)' = RowsOf(g) /\ RowsOf(g) \subseteq AllOf(g)
  BY <1>1 DEF Untouched, AllOf, RowsOf
<1>3. LiveOf(g)' = LiveOf(g)
  BY <1>1, <1>2 DEF Untouched, AllOf, RowsOf, LiveOf
<1>4. LiveOf(g) \subseteq RowsOf(g)
  BY DEF LiveOf
<1>5. \A i \in AllOf(g) : TextsOf(i)' = TextsOf(i) /\ row'[i] = row[i]
  BY DEF Untouched, AllOf
<1> QED
  BY <1>1, <1>2, <1>3, <1>4, <1>5

LEMMA KnowsUntouched ==
  ASSUME NEW c, NEW g \in Guid, c.guid = g, Untouched(g), Knows(c), IdsFit(c),
         c.op = "import" => ImportFits(c)
  PROVE  /\ KnowsRows(c)' /\ KnowsTexts(c)' /\ (c.op = "import" => KnowsImport(c)')
PROOF
<1>1. /\ AllOf(g)' = AllOf(g) /\ RowsOf(g)' = RowsOf(g) /\ LiveOf(g)' = LiveOf(g)
      /\ \A i \in AllOf(g) : TextsOf(i)' = TextsOf(i) /\ row'[i] = row[i]
      /\ RowsOf(g) \subseteq AllOf(g) /\ LiveOf(g) \subseteq RowsOf(g)
  BY RowsUntouched
<1>2. \A i \in AllOf(g) : \A k \in TextsOf(i) : text'[k] = text[k]
  BY DEF Untouched
<1>3. KnowsRows(c)'
  BY <1>1 DEF Knows, KnowsRows, IdsFit
<1>4. KnowsTexts(c)'
  BY <1>1, <1>2 DEF Knows, KnowsTexts, IdsFit, Untouched
<1>5. \A i, n : i \in AllOf(g) => (Holds(i, n)' <=> Holds(i, n))
  BY <1>1, <1>2 DEF Holds
<1>6. \A d, n : d.guid = g => (Arrived(d, n)' <=> Arrived(d, n))
  BY <1>1, <1>5 DEF Arrived
<1>7. ASSUME c.op = "import" PROVE KnowsImport(c)'
  <2>1. KnowsImport(c)
    BY <1>7 DEF Knows
  <2>2. c.pc = "trim" => c.id \in AllOf(g)
    BY DEF IdsFit
  <2>3. Arrived(c.doc, Nodes(c))' <=> Arrived(c.doc, Nodes(c))
    BY <1>6, <1>7 DEF ImportFits, Nodes
  <2> QED
    BY <2>1, <2>2, <1>1, <1>2, <2>3 DEF KnowsImport, Nodes
<1> QED
  BY <1>3, <1>4, <1>7

LEMMA SoundUntouched ==
  ASSUME Based, NEW g \in Guid, Untouched(g), Sound(g), torn \subseteq torn',
         \A t \in Session : On(t, g) \/ On(t, g)' => call'[t] = call[t] /\ (t \in late <=> t \in late'),
         late \subseteq Session
  PROVE  Sound(g)'
PROOF
<1>1. CASE g \in torn
  BY <1>1 DEF Sound
<1>2. CASE Doomed(g)
  <2>1. PICK t \in late : On(t, g) /\ call[t].pc \in {"add", "texts"}
    BY <1>2 DEF Doomed
  <2>2. t \in late' /\ call'[t] = call[t]
    BY <2>1
  <2>3. Doomed(g)'
    BY <2>1, <2>2 DEF Doomed, On
  <2> QED
    BY <2>3 DEF Sound
<1>3. CASE AlmostWhole(g) /\ \A s \in Session \ late : On(s, g) => Knows(call[s])
  <2>1. /\ AllOf(g)' = AllOf(g) /\ RowsOf(g)' = RowsOf(g) /\ LiveOf(g)' = LiveOf(g)
        /\ \A i \in AllOf(g) : TextsOf(i)' = TextsOf(i)
        /\ RowsOf(g) \subseteq AllOf(g)
    BY RowsUntouched
  <2>2. \A i, pc : Pending(g, i, pc) => Pending(g, i, pc)'
    <3>1. SUFFICES ASSUME NEW i, NEW pc, Pending(g, i, pc) PROVE Pending(g, i, pc)'
      OBVIOUS
    <3>2. PICK s \in Session \ late : On(s, g) /\ call[s].pc = pc /\ call[s].id = i
      BY <3>1 DEF Pending
    <3>3. call'[s] = call[s] /\ s \notin late'
      BY <3>2
    <3> QED
      BY <3>2, <3>3 DEF Pending, On
  <2>3. \A i \in AllOf(g) : \A k \in TextsOf(i) : text'[k] = text[k]
    BY DEF Untouched
  <2>4. AlmostWhole(g)'
    BY <1>3, <2>1, <2>2, <2>3 DEF AlmostWhole, Untouched
  <2>5. ASSUME NEW s \in Session \ late', On(s, g)' PROVE Knows(call[s])'
    <3>1. call'[s] = call[s] /\ s \notin late /\ On(s, g)
      BY <2>5 DEF On
    <3>2. PICK c : c = call[s]
      OBVIOUS
    <3>3. Knows(c) /\ c.guid = g /\ IdsFit(c) /\ (c.op = "import" => ImportFits(c))
      BY <1>3, <3>1, <3>2 DEF On, Based, CallsFit, CallFits
    <3>4. KnowsRows(c)' /\ KnowsTexts(c)' /\ (c.op = "import" => KnowsImport(c)')
      BY <3>3, KnowsUntouched
    <3>5. KnowsRows(call[s])'
      BY <3>1, <3>2, <3>4 DEF KnowsRows
    <3>6. KnowsTexts(call[s])'
      BY <3>1, <3>2, <3>4 DEF KnowsTexts
    <3>7. call'[s].op = "import" => KnowsImport(call[s])'
      BY <3>1, <3>2, <3>4 DEF KnowsImport, Nodes, Arrived
    <3> QED
      BY <3>5, <3>6, <3>7 DEF Knows
  <2> QED
    BY <2>4, <2>5 DEF Sound
<1> QED
  BY <1>1, <1>2, <1>3 DEF Sound

(* The others are untouched by a step about object g. *)
LEMMA OthersUntouched ==
  ASSUME Based, NEW g \in Guid, NEW h \in Guid \ {g}, TablesTyped, RowsChange(g), TextsChange(g)
  PROVE  Untouched(h)
PROOF
<1>1. TypeOK /\ IdsGivenOut
  BY DEF Based
<1>2. \A i \in RowId : i \in AllOf(h) \/ i \in AllOf(h)' => row'[i] = row[i]
  BY DEF AllOf, RowsChange
<1>3. \A k \in TextId : text[k] # NoRow /\ text[k].sid \in AllOf(h) => text'[k] = text[k]
  BY DEF AllOf, TextsChange
<1>4. ASSUME NEW i \in AllOf(h) PROVE TextsOf(i)' = TextsOf(i) /\ \A k \in TextsOf(i) : text'[k] = text[k]
  <2>1. \A k \in TextsOf(i) : text'[k] = text[k]
    BY <1>3, <1>4 DEF TextsOf
  <2>2. ASSUME NEW k \in TextId, text'[k] # NoRow, text'[k].sid = i PROVE k \in TextsOf(i)
    <3>1. text[k] # NoRow
      BY <1>4, <2>2 DEF AllOf, TextsChange
    <3> QED
      BY <2>2, <3>1 DEF TextsOf, TextsChange
  <2> QED
    BY <2>1, <2>2 DEF TextsOf
<1> QED
  BY <1>2, <1>3, <1>4 DEF Untouched, RowsChange

(* So a step that keeps the object it is about sound keeps the invariant. *)
LEMMA StepKeeps ==
  ASSUME TranslationInv, NEW g \in Guid, NEW s \in Session, TablesTyped, RowsChange(g), TextsChange(g), Moves(s),
         call[s] # Idle => call[s].guid = g, call'[s] # Idle => call'[s].guid = g,
         late' \subseteq Session, torn \subseteq torn', torn' \subseteq Guid,
         \A t \in Session \ {s} : ~On(t, g) => (t \in late <=> t \in late'),
         Sound(g)'
  PROVE  TranslationInv'
PROOF
<1>1. Based /\ Based'
  BY BasedKept DEF TranslationInv
<1>2. ASSUME NEW h \in Guid, h # g PROVE Sound(h)'
  <2>1. Sound(h) /\ Untouched(h) /\ late \subseteq Session
    BY <1>1, <1>2, OthersUntouched DEF TranslationInv, Based, TypeOK
  <2>2. \A t \in Session : On(t, h) \/ On(t, h)' => call'[t] = call[t] /\ (t \in late <=> t \in late')
    BY <1>1, <1>2 DEF On, Moves, Based, TypeOK
  <2> QED
    BY <1>1, <2>1, <2>2, SoundUntouched
<1> QED
  BY <1>1, <1>2 DEF TranslationInv

-----------------------------------------------------------------------------
(* The kinds of steps.  First what a step that leaves the tables alone makes
   of a call c it goes on with. *)
LEMMA MovesOn ==
  ASSUME TypeOK, NEW s \in Session, UNCHANGED tables, NEW c \in Call \cup {Idle},
         call' = [call EXCEPT ![s] = c],
         c # Idle => CallFits(c) /\ (call[s] # Idle => c.guid = call[s].guid)
  PROVE  Moves(s) /\ call'[s] = c /\ \A t \in Session \ {s} : call'[t] = call[t]
PROOF
<1>1. call'[s] = c /\ \A t \in Session \ {s} : call'[t] = call[t]
  BY DEF TypeOK
<1>2. ASSUME c # Idle PROVE CallFits(call[s])'
  <2>1. AllOf(call'[s].guid) = AllOf(call[s].guid)'
    BY DEF AllOf, tables
  <2>2. IdsFit(call[s])'
    BY <1>1, <1>2, <2>1 DEF CallFits, IdsFit, tables
  <2>3. StepFits(call[s])' /\ (call'[s].op = "import" => ImportFits(call[s])')
    BY <1>1, <1>2 DEF CallFits, StepFits, ImportFits
  <2> QED
    BY <2>2, <2>3 DEF CallFits
<1> QED
  BY <1>1, <1>2 DEF Moves

LEMMA KnowsOn ==
  ASSUME UNCHANGED tables, NEW c, Knows(c), NEW s \in Session, call'[s] = c
  PROVE  Knows(call[s])'
PROOF
<1>1. row' = row /\ text' = text
  BY DEF tables
<1>2. /\ RowsOf(c.guid) = RowsOf(call[s].guid)' /\ LiveOf(c.guid) = LiveOf(call[s].guid)'
      /\ \A i : TextsOf(i)' = TextsOf(i)
  BY <1>1 DEF RowsOf, LiveOf, TextsOf
<1>3. KnowsRows(call[s])' /\ KnowsTexts(call[s])'
  BY <1>1, <1>2 DEF Knows, KnowsRows, KnowsTexts, TextsOf
<1>4. ASSUME c.op = "import" PROVE KnowsImport(call[s])'
  <2>1. KnowsImport(c)
    BY <1>4 DEF Knows
  <2>2. \A i, n : Holds(i, n)' <=> Holds(i, n)
    BY <1>1, <1>2 DEF Holds
  <2>3. Nodes(call[s])' = Nodes(c)
    BY DEF Nodes
  <2>4. Arrived(c.doc, Nodes(c)) => Arrived(call[s].doc, Nodes(call[s]))'
    <3>1. \A g : LiveOf(g)' = LiveOf(g)
      BY <1>1 DEF LiveOf, RowsOf
    <3> QED
      BY <1>1, <2>2, <2>3, <3>1 DEF Arrived
  <2> QED
    BY <1>1, <1>2, <2>1, <2>3, <2>4 DEF KnowsImport
<1> QED
  BY <1>3, <1>4 DEF Knows

LEMMA SameObject ==
  ASSUME NEW g \in Guid, UNCHANGED tables
  PROVE  /\ RowsOf(g)' = RowsOf(g) /\ LiveOf(g)' = LiveOf(g) /\ AllOf(g)' = AllOf(g)
         /\ \A i : TextsOf(i)' = TextsOf(i)
PROOF
  BY DEF RowsOf, LiveOf, AllOf, TextsOf, tables

LEMMA AlmostWholeStays ==
  ASSUME NEW g \in Guid, UNCHANGED tables, AlmostWhole(g),
         \A i, pc : pc \in {"add", "texts"} /\ Pending(g, i, pc) => Pending(g, i, pc)'
  PROVE  AlmostWhole(g)'
PROOF
<1>1. /\ RowsOf(g)' = RowsOf(g) /\ LiveOf(g)' = LiveOf(g) /\ AllOf(g)' = AllOf(g)
      /\ \A i : TextsOf(i)' = TextsOf(i)
  BY SameObject
<1>2. text' = text /\ entry' = entry
  BY DEF tables
<1> QED
  BY <1>1, <1>2 DEF AlmostWhole

(* A step that only reads, or whose statement is refused; one that begins a
   call is no step of an overtaken one. *)
LEMMA QuietKeeps ==
  ASSUME TranslationInv, NEW s \in Session, NEW g \in Guid, UNCHANGED tables, torn' = torn,
         call[s] # Idle => call[s].guid = g /\ call[s].pc \notin {"add", "texts"},
         \/ late' = late
         \/ late' = late \cup {s}
         \/ late' = late \ {s} /\ call[s] = Idle,
         NEW c \in Call \cup {Idle}, call' = [call EXCEPT ![s] = c], c # Idle => CallFits(c) /\ c.guid = g,
         (s \notin late' /\ c # Idle /\ AlmostWhole(g) /\ (call[s] # Idle => s \notin late /\ Knows(call[s])))
           => Knows(c)
  PROVE  TranslationInv'
PROOF
<1>1. Based /\ TypeOK /\ Sound(g)
  BY DEF TranslationInv, Based
<1>2. Moves(s) /\ call'[s] = c /\ \A t \in Session \ {s} : call'[t] = call[t]
  BY <1>1, MovesOn
<1>3. TablesTyped /\ RowsChange(g) /\ TextsChange(g)
  BY <1>1, SameTables
<1>4. \A i, pc : pc \in {"add", "texts"} /\ Pending(g, i, pc) => Pending(g, i, pc)'
  <2>1. SUFFICES ASSUME NEW i, NEW pc \in {"add", "texts"}, Pending(g, i, pc) PROVE Pending(g, i, pc)'
    OBVIOUS
  <2>2. PICK t \in Session \ late : On(t, g) /\ call[t].pc = pc /\ call[t].id = i
    BY <2>1 DEF Pending
  <2>3. t # s /\ call'[t] = call[t] /\ t \notin late'
    BY <1>2, <2>1, <2>2 DEF On
  <2> QED
    BY <2>2, <2>3 DEF Pending, On
<1>5. Sound(g)'
  <2>1. CASE g \in torn
    BY <2>1 DEF Sound
  <2>2. CASE Doomed(g)
    <3>1. PICK t \in late : On(t, g) /\ call[t].pc \in {"add", "texts"}
      BY <2>2 DEF Doomed
    <3>2. t # s /\ t \in Session /\ t \in late'
      BY <1>1, <3>1 DEF TypeOK, On
    <3>3. Doomed(g)'
      BY <1>2, <3>1, <3>2 DEF Doomed, On
    <3> QED
      BY <3>3 DEF Sound
  <2>3. CASE AlmostWhole(g) /\ \A t \in Session \ late : On(t, g) => Knows(call[t])
    <3>1. AlmostWhole(g)'
      BY <1>1, <1>4, <2>3, AlmostWholeStays
    <3>2. ASSUME NEW t \in Session \ late', On(t, g)' PROVE Knows(call[t])'
      <4>1. CASE t = s
        <5>1. Knows(c)
          BY <1>2, <2>3, <3>2, <4>1 DEF On
        <5> QED
          BY <1>2, <4>1, <5>1, KnowsOn
      <4>2. CASE t # s
        <5>1. call'[t] = call[t] /\ Knows(call[t])
          BY <1>2, <2>3, <3>2, <4>2 DEF On
        <5>2. PICK d : d = call[t]
          OBVIOUS
        <5>3. Knows(d) /\ call'[t] = d
          BY <5>1, <5>2
        <5> QED
          BY <5>3, KnowsOn
      <4> QED
        BY <4>1, <4>2
    <3> QED
      BY <3>1, <3>2 DEF Sound
  <2> QED
    BY <1>1, <2>1, <2>2, <2>3 DEF Sound
<1>6. call'[s] # Idle => call'[s].guid = g
  BY <1>2
<1>7. late' \subseteq Session /\ torn' \subseteq Guid
  BY <1>1 DEF TypeOK
<1> QED
  BY <1>1, <1>2, <1>3, <1>5, <1>6, <1>7, StepKeeps

(* A step that leaves its object torn. *)
LEMMA TearKeeps ==
  ASSUME TranslationInv, NEW s \in Session, NEW g \in Guid, call[s] # Idle, call[s].guid = g,
         UNCHANGED tables, late' = late, torn' = torn \cup {g},
         NEW c \in Call \cup {Idle}, call' = [call EXCEPT ![s] = c], c # Idle => CallFits(c) /\ c.guid = g
  PROVE  TranslationInv'
PROOF
<1>1. Based /\ TypeOK
  BY DEF TranslationInv, Based
<1>2. Moves(s) /\ call'[s] = c
  BY <1>1, MovesOn
<1>3. TablesTyped /\ RowsChange(g) /\ TextsChange(g)
  BY <1>1, SameTables
<1>4. Sound(g)'
  BY DEF Sound
<1>5. late' \subseteq Session /\ torn' \subseteq Guid /\ (call'[s] # Idle => call'[s].guid = g)
  BY <1>1, <1>2 DEF TypeOK
<1> QED
  BY <1>1, <1>2, <1>3, <1>4, <1>5, StepKeeps

(* A session writes to its object: if nobody was about to write whatever he
   finds, the object must be as good as before. *)
Alone(s, g) == \A t \in Session \ {s} : On(t, g) => call[t].pc \notin {"add", "texts"}

LEMMA WriteKeeps ==
  ASSUME TranslationInv, NEW s \in Session, NEW g \in Guid, call[s] # Idle, call[s].guid = g,
         TablesTyped, RowsChange(g), TextsChange(g), Moves(s),
         late' = late \cup {t \in Session \ {s} : call[t] # Idle /\ call[t].guid = g},
         torn' \in {torn, torn \cup {g}}, s \in late => g \in torn',
         (s \notin late /\ g \notin torn' /\ AlmostWhole(g) /\ Knows(call[s]) /\ Alone(s, g))
           => AlmostWhole(g)' /\ (call'[s] # Idle => Knows(call[s])')
  PROVE  TranslationInv'
PROOF
<1>1. Based /\ TypeOK /\ Sound(g)
  BY DEF TranslationInv, Based
<1>2. \A t \in Session \ {s} : call'[t] = call[t] /\ (On(t, g) => t \in late')
  BY <1>1 DEF TypeOK, Moves, On
<1>3. Sound(g)'
  <2>1. CASE g \in torn'
    BY <2>1 DEF Sound
  <2>2. CASE ~Alone(s, g)
    <3>1. PICK t \in Session \ {s} : On(t, g) /\ call[t].pc \in {"add", "texts"}
      BY <2>2 DEF Alone
    <3>2. Doomed(g)'
      BY <1>2, <3>1 DEF Doomed, On
    <3> QED
      BY <3>2 DEF Sound
  <2>3. CASE g \notin torn' /\ Alone(s, g)
    <3>1. s \notin late /\ g \notin torn
      BY <2>3
    <3>2. ~Doomed(g)
      BY <1>1, <2>3, <3>1 DEF Doomed, Alone, TypeOK
    <3>3. AlmostWhole(g) /\ Knows(call[s])
      BY <1>1, <3>1, <3>2 DEF Sound, On
    <3>4. AlmostWhole(g)' /\ (call'[s] # Idle => Knows(call[s])')
      BY <2>3, <3>1, <3>3
    <3>5. \A t \in Session \ late' : On(t, g)' => t = s /\ call'[s] # Idle
      BY <1>2 DEF On
    <3> QED
      BY <3>4, <3>5 DEF Sound
  <2> QED
    BY <2>1, <2>2, <2>3
<1>4. call'[s] # Idle => call'[s].guid = g
  BY DEF Moves
<1>5. late' \subseteq Session /\ torn \subseteq torn' /\ torn' \subseteq Guid
  BY <1>1 DEF TypeOK
<1>6. \A t \in Session \ {s} : ~On(t, g) => (t \in late <=> t \in late')
  BY DEF On
<1> QED
  BY <1>1, <1>3, <1>4, <1>5, <1>6, StepKeeps

(* Then only the writer himself can have been expected to do something. *)
LEMMA OnlyWriter ==
  ASSUME NEW s \in Session, NEW g, Alone(s, g), NEW i, NEW pc \in {"add", "texts"}, Pending(g, i, pc)
  PROVE  call[s].pc = pc /\ call[s].id = i
PROOF
  BY DEF Alone, Pending

-----------------------------------------------------------------------------
(* A call that returns: only an import goes on. *)
LEMMA ReturnFits ==
  ASSUME Based, NEW s \in Session, call[s] # Idle, NEW ok \in BOOLEAN, Return(s, ok)
  PROVE  LET c == AfterReturn(call[s], ok) IN
         /\ c \in Call \cup {Idle} /\ call' = [call EXCEPT ![s] = c] /\ call'[s] = c
         /\ call[s].op # "import" => c = Idle
         /\ c # Idle => CallFits(c) /\ c.guid = call[s].guid
         /\ call[s].op = "import" /\ (call[s].ok /\ ok => Arrived(call[s].doc, call[s].at)) => Knows(c)
PROOF
<1> DEFINE c == AfterReturn(call[s], ok)
<1>1. TypeOK /\ CallsFit
  BY DEF Based
<1>2. /\ c \in Call \cup {Idle} /\ call' = [call EXCEPT ![s] = c] /\ (call[s].op # "import" => c = Idle)
      /\ call[s].op = "import" =>
              /\ c \in Call /\ c.op = "import" /\ c.guid = call[s].guid /\ c.doc = call[s].doc
              /\ c.conn = call[s].conn /\ c.ok = (call[s].ok /\ ok) /\ c.id = 0
              /\ IF call[s].at = Len(call[s].doc.nodes) THEN c.at = call[s].at /\ c.pc = "find"
                                                       ELSE c.at = call[s].at + 1 /\ c.pc = "db"
  BY <1>1, ReturnIs
<1> HIDE DEF c
<1>3. call'[s] = c
  BY <1>1, <1>2 DEF TypeOK
<1>4. CASE call[s].op # "import"
  BY <1>2, <1>3, <1>4 DEF c
<1>5. CASE call[s].op = "import"
  <2>1. c.pc \in {"db", "find"} /\ c # Idle
    BY <1>2, <1>5, TranslationAssumption
  <2>2. call[s].doc \in Docs /\ call[s].guid = call[s].doc.guid /\ call[s].at \in 1..Len(call[s].doc.nodes)
    BY <1>1, <1>5 DEF CallsFit, CallFits, ImportFits
  <2>3. Len(call[s].doc.nodes) \in Nat /\ call[s].doc # NoRow
    BY <2>2, DocIs, TranslationAssumption
  <2>4. c.at \in 1..Len(c.doc.nodes) /\ (c.pc = "find" => c.at = Len(c.doc.nodes))
    BY <1>2, <1>5, <2>2, <2>3
  <2>5. StepFits(c) /\ IdsFit(c)
    BY <1>2, <1>5, <2>1, <2>2, <2>3 DEF StepFits, IdsFit, Importing
  <2>6. ImportFits(c)
    BY <1>2, <1>5, <2>1, <2>2, <2>4 DEF ImportFits, Importing, AfterNodes
  <2>7. Nodes(c) = call[s].at
    BY <1>2, <1>5, <2>1, <2>2, <2>3 DEF Nodes, AfterNodes
  <2>8. (call[s].ok /\ ok => Arrived(call[s].doc, call[s].at)) => Knows(c)
    BY <1>2, <1>5, <2>1, <2>7 DEF Knows, KnowsRows, KnowsTexts, KnowsImport
  <2> QED
    BY <1>2, <1>3, <1>5, <2>1, <2>5, <2>6, <2>8 DEF CallFits, c
<1> QED
  BY <1>4, <1>5

LEMMA ReturnMoves ==
  ASSUME Based, NEW s \in Session, call[s] # Idle, NEW ok \in BOOLEAN, Return(s, ok)
  PROVE  /\ Moves(s)
         /\ call[s].op # "import" => call'[s] = Idle
         /\ \A d, n : call[s].op = "import" /\ d = call[s].doc /\ n = call[s].at
                      /\ (call[s].ok /\ ok => Arrived(d, n)') => Knows(call[s])'
PROOF
<1>1. TypeOK /\ CallsFit
  BY DEF Based
<1>2. PICK c : c = AfterReturn(call[s], ok)
  OBVIOUS
<1>3. /\ c \in Call \cup {Idle} /\ call' = [call EXCEPT ![s] = c] /\ call'[s] = c
      /\ call[s].op # "import" => c = Idle
      /\ c # Idle => CallFits(c) /\ c.guid = call[s].guid
  BY <1>2, ReturnFits
<1>4. CASE call[s].op # "import"
  BY <1>3, <1>4 DEF Moves
<1>5. CASE call[s].op = "import"
  <2>1. /\ c \in Call /\ c.op = "import" /\ c.guid = call[s].guid /\ c.doc = call[s].doc
        /\ c.conn = call[s].conn /\ c.ok = (call[s].ok /\ ok)
        /\ IF call[s].at = Len(call[s].doc.nodes) THEN c.at = call[s].at /\ c.pc = "find"
                                                 ELSE c.at = call[s].at + 1 /\ c.pc = "db"
    BY <1>1, <1>2, <1>5, ReturnIs
  <2>2. c.pc \in {"db", "find"} /\ c # Idle
    BY <2>1, TranslationAssumption
  <2>3. CallFits(call[s])'
    BY <1>3, <2>2 DEF CallFits, StepFits, ImportFits, IdsFit
  <2>4. call[s].at \in Nat
    BY <1>1, CallIs DEF Call
  <2>5. Nodes(c) = call[s].at /\ Nodes(call[s])' = Nodes(c)
    BY <1>3, <2>1, <2>4 DEF Nodes, AfterNodes
  <2>6. ASSUME NEW d, NEW n, d = call[s].doc, n = call[s].at, call[s].ok /\ ok => Arrived(d, n)'
        PROVE  Knows(call[s])'
    <3>1. call'[s].ok /\ Nodes(call[s])' > 0 => Arrived(d, n)'
      BY <1>3, <2>1, <2>6
    <3>2. d = call'[s].doc /\ n = Nodes(call[s])'
      BY <1>3, <2>1, <2>5, <2>6
    <3>3. call'[s].ok /\ Nodes(call[s])' > 0 => Arrived(call[s].doc, Nodes(call[s]))'
      BY <3>1, <3>2
    <3>4. KnowsImport(call[s])'
      BY <1>3, <2>2, <3>3 DEF KnowsImport
    <3>5. KnowsRows(call[s])' /\ KnowsTexts(call[s])'
      BY <1>3, <2>2 DEF KnowsRows, KnowsTexts
    <3> QED
      BY <3>4, <3>5 DEF Knows
  <2> QED
    BY <1>3, <1>5, <2>3, <2>6 DEF Moves
<1> QED
  BY <1>4, <1>5

-----------------------------------------------------------------------------
(* The least of some ids is one of them. *)
LEMMA FirstIsThere == ASSUME NEW S \in SUBSET Nat, S # {} PROVE Min(S) \in S
PROOF
<1>1. IsWellFoundedOn(OpToRel(<, Nat), Nat)
  BY NatLessThanWellFounded
<1>2. PICK k \in S : \A m \in S : ~ (<<m, k>> \in OpToRel(<, Nat))
  BY <1>1, WFMin, Zenon
<1>3. ASSUME NEW m \in S PROVE ~ (m < k)
  <2>1. m \in Nat /\ k \in Nat
    OBVIOUS
  <2> QED
    BY <1>2, <2>1, Zenon DEF OpToRel
<1>4. \A m \in S : k <= m
  BY <1>3
<1> QED
  BY <1>4 DEF Min

LEMMA Ids == RowId \subseteq Nat /\ TextId \subseteq Nat /\ 0 \notin RowId /\ 0 \notin TextId
PROOF
  BY DEF RowId, TextId

LEMMA InCall ==
  ASSUME TranslationInv, NEW s \in Session, NEW pc, In(s, pc)
  PROVE  /\ call[s] # Idle /\ call[s] \in Call /\ call[s].guid \in Guid /\ call[s].pc = pc
         /\ Based /\ TypeOK /\ CallFits(call[s]) /\ StepFits(call[s]) /\ IdsFit(call[s])
         /\ call[s].op = "import" => ImportFits(call[s])
PROOF
<1>1. Based /\ TypeOK /\ CallsFit /\ call[s] # Idle /\ call[s].pc = pc
  BY DEF TranslationInv, Based, In
<1> QED
  BY <1>1, CallIs DEF CallsFit, CallFits, Call

LEMMA GoIs ==
  ASSUME NEW s \in Session, TypeOK, call[s] # Idle, NEW p, Go(s, p)
  PROVE  call' = [call EXCEPT ![s] = WithPc(call[s], p)]
PROOF
  BY DEF Go, TypeOK, WithPc

LEMMA Rows ==
  ASSUME NEW g
  PROVE  RowsOf(g) \subseteq AllOf(g) /\ RowsOf(g) \subseteq RowId /\ LiveOf(g) \subseteq RowsOf(g)
         /\ RowsOf(g) \subseteq Nat /\ \A i : TextsOf(i) \subseteq Nat
PROOF
  BY Ids DEF RowsOf, AllOf, LiveOf, TextsOf

LEMMA ReleaseKeeps == ASSUME TranslationInv, NEW s \in Session, Release(s) PROVE TranslationInv'
PROOF
<1>1. In(s, "held") /\ call' = [call EXCEPT ![s] = Idle] /\ late' = late /\ UNCHANGED tables /\ torn' = torn
  BY DEF Release, To, Reads
<1>2. call[s].guid \in Guid /\ call[s].pc = "held"
  BY <1>1, InCall
<1>3. PICK g \in Guid, c \in Call \cup {Idle} : g = call[s].guid /\ c = Idle
  BY <1>2
<1> QED
  BY <1>1, <1>2, <1>3, QuietKeeps

LEMMA EndImportKeeps == ASSUME TranslationInv, NEW s \in Session, EndImport(s) PROVE TranslationInv'
PROOF
<1>1. In(s, "end") /\ call' = [call EXCEPT ![s] = Idle] /\ late' = late /\ UNCHANGED tables /\ torn' = torn
  BY DEF EndImport, To, Reads
<1>2. call[s].guid \in Guid /\ call[s].pc = "end"
  BY <1>1, InCall
<1>3. PICK g \in Guid, c \in Call \cup {Idle} : g = call[s].guid /\ c = Idle
  BY <1>2
<1> QED
  BY <1>1, <1>2, <1>3, QuietKeeps

(* _update_records looks for the text. *)
LEMMA LookTextKeeps == ASSUME TranslationInv, NEW s \in Session, LookText(s) PROVE TranslationInv'
PROOF
<1>1. In(s, "look")
  BY DEF LookText
<1>2. /\ call[s] # Idle /\ call[s] \in Call /\ call[s].guid \in Guid /\ call[s].pc = "look"
      /\ Based /\ TypeOK /\ CallFits(call[s]) /\ StepFits(call[s])
      /\ call[s].op = "import" => ImportFits(call[s])
  BY <1>1, InCall
<1>3. PICK b \in Call, g \in Guid : b = call[s] /\ g = b.guid
  BY <1>2
<1> DEFINE mine == UNION {InLang(i, call[s].l) : i \in RowsOf(call[s].guid)}
           found == WithFound(b, "write", Min(mine))
           missing == WithPc(b, "id")
<1>4. /\ missing \in Call /\ missing.pc = "id" /\ SameImport(missing, b) /\ SameWrite(missing, b)
  BY PcChanged DEF Steps
<1>5. CallFits(missing)
  <2>1. StepFits(missing) /\ IdsFit(missing)
    BY <1>2, <1>3, <1>4 DEF StepFits, IdsFit, SameImport, SameWrite, Importing
  <2>2. b.op = "import" => ImportFits(missing)
    BY <1>2, <1>3, <1>4 DEF ImportFits, SameImport, SameWrite, AfterNodes, Importing
  <2> QED
    BY <1>4, <2>1, <2>2 DEF CallFits, SameWrite
<1>6. CASE mine # {} /\ To(s, [call[s] EXCEPT !.pc = "write", !.found = Min(mine)]) /\ Reads /\ late' = late
  <2>1. mine \subseteq TextId
    BY DEF InLang, TextsOf
  <2>2. Min(mine) \in mine
    BY <1>6, <2>1, Ids, FirstIsThere
  <2>3. PICK k \in TextId, i \in RowsOf(g) : k = Min(mine) /\ k \in TextsOf(i) /\ text[k].lang = b.l
    BY <1>3, <2>1, <2>2 DEF InLang
  <2>4. found \in Call /\ found.pc = "write" /\ found.found = k /\ SameImport(found, b) /\ SameWrite(found, b)
    <3>1. "write" \in Steps /\ found = WithFound(b, "write", k)
      BY <2>3, StepNames
    <3> HIDE DEF found
    <3> QED
      BY <3>1, FoundChanged
  <2>5. text[k] # NoRow /\ text[k].sid = i /\ i \in AllOf(g) /\ k < nextText
    BY <1>2, <2>3, Rows DEF TextsOf, Based, IdsGivenOut
  <2> HIDE DEF found, missing, mine
  <2>6. CallFits(found)
    <3>1. StepFits(found) /\ IdsFit(found)
      BY <1>2, <1>3, <2>3, <2>4, <2>5 DEF StepFits, IdsFit, SameImport, SameWrite, Importing
    <3>2. b.op = "import" => ImportFits(found)
      BY <1>2, <1>3, <2>4 DEF ImportFits, SameImport, SameWrite, AfterNodes, Importing
    <3> QED
      BY <2>4, <3>1, <3>2 DEF CallFits, SameWrite
  <2>7. Knows(call[s]) => Knows(found)
    BY <1>2, <1>3, <2>3, <2>4, <2>5
    DEF Knows, KnowsRows, KnowsTexts, KnowsImport, Nodes, AfterNodes, SameImport, SameWrite
  <2>8. call' = [call EXCEPT ![s] = found] /\ UNCHANGED tables /\ torn' = torn /\ found.guid = g
    BY <1>3, <1>6, <2>4 DEF To, Reads, SameImport, found, WithFound
  <2> QED
    BY <1>2, <1>3, <1>6, <2>4, <2>6, <2>7, <2>8, QuietKeeps
<1>7. CASE mine = {} /\ Go(s, "id") /\ Reads /\ late' = late
  <2>1. \A i \in RowsOf(g) : \A k \in TextsOf(i) : text[k].lang # b.l
    BY <1>3, <1>7 DEF InLang
  <2> HIDE DEF found, missing, mine
  <2>2. Knows(call[s]) => Knows(missing)
    BY <1>2, <1>3, <1>4, <2>1
    DEF Knows, KnowsRows, KnowsTexts, KnowsImport, Nodes, AfterNodes, SameImport, SameWrite
  <2>3. call' = [call EXCEPT ![s] = missing] /\ UNCHANGED tables /\ torn' = torn /\ missing.guid = g
    BY <1>2, <1>3, <1>4, <1>7, GoIs DEF Reads, SameImport, missing
  <2> QED
    BY <1>2, <1>3, <1>4, <1>5, <1>7, <2>2, <2>3, QuietKeeps
<1>8. CASE Go(s, "id") /\ Refused(s) /\ UNCHANGED tables
  <2> HIDE DEF found, missing, mine
  <2>1. call' = [call EXCEPT ![s] = missing] /\ torn' = torn /\ late' = late \cup {s} /\ missing.guid = g
    BY <1>2, <1>3, <1>4, <1>8, GoIs DEF Refused, SameImport, missing
  <2> QED
    BY <1>2, <1>3, <1>4, <1>5, <1>8, <2>1, QuietKeeps
<1> QED
  BY <1>6, <1>7, <1>8, <1>3 DEF LookText

(* ... and for the record, to add one. *)
LEMMA LookRowKeeps == ASSUME TranslationInv, NEW s \in Session, LookRow(s) PROVE TranslationInv'
PROOF
<1>1. In(s, "id") /\ late' = late /\ UNCHANGED tables /\ torn' = torn
  BY DEF LookRow, Reads
<1>2. /\ call[s] # Idle /\ call[s] \in Call /\ call[s].guid \in Guid /\ call[s].pc = "id"
      /\ Based /\ TypeOK /\ CallFits(call[s]) /\ StepFits(call[s])
      /\ call[s].op = "import" => ImportFits(call[s])
  BY <1>1, InCall
<1>3. PICK b \in Call, g \in Guid : b = call[s] /\ g = b.guid
  BY <1>2
<1>4. CASE RowsOf(g) = {} /\ Return(s, TRUE)
  <2>1. PICK c : c = AfterReturn(call[s], TRUE)
    OBVIOUS
  <2>2. /\ c \in Call \cup {Idle} /\ call' = [call EXCEPT ![s] = c]
        /\ call[s].op # "import" => c = Idle
        /\ c # Idle => CallFits(c) /\ c.guid = g
    BY <1>2, <1>3, <1>4, <2>1, ReturnFits
  <2>3. Knows(call[s]) /\ c # Idle => FALSE
    BY <1>2, <1>3, <1>4, <2>2 DEF Knows, KnowsImport, LiveOf
  <2> QED
    BY <1>1, <1>2, <1>3, <2>2, <2>3, QuietKeeps
<1>5. CASE RowsOf(g) # {} /\ To(s, [b EXCEPT !.pc = "add", !.id = Min(RowsOf(g))])
  <2>1. PICK i \in RowsOf(g) : i = Min(RowsOf(g))
    BY <1>5, Rows, FirstIsThere
  <2>2. i \in RowId /\ i \in AllOf(g)
    BY <2>1, Rows
  <2>3. PICK c : c = WithId(b, "add", i)
    OBVIOUS
  <2>4. c \in Call /\ c.pc = "add" /\ c.id = i /\ SameImport(c, b) /\ SameWrite(c, b)
    <3>1. "add" \in Steps /\ i \in RowId \cup {0}
      BY <2>2, StepNames
    <3> QED
      BY <2>3, <3>1, IdChanged
  <2>5. StepFits(c) /\ IdsFit(c)
    BY <1>2, <1>3, <2>2, <2>4 DEF StepFits, IdsFit, SameImport, SameWrite, Importing
  <2>6. b.op = "import" => ImportFits(c)
    BY <1>2, <1>3, <2>4 DEF ImportFits, SameImport, SameWrite, AfterNodes, Importing
  <2>7. ASSUME Knows(call[s]), AlmostWhole(g) PROVE Knows(c)
    <3>1. \A k \in TextsOf(i) : text[k].lang # b.l
      BY <1>2, <1>3, <2>1, <2>7 DEF Knows, KnowsTexts
    <3>2. ASSUME b.op = "import" PROVE KnowsImport(c)
      <4>1. KnowsImport(b) /\ ~b.doc.deleted
        BY <1>2, <1>3, <2>7, <3>2 DEF Knows, ImportFits
      <4>2. \A j \in RowsOf(g) : row[j].stage = "live"
        BY <1>2, <1>3, <2>7, <4>1 DEF KnowsImport, AlmostWhole, LiveOf
      <4> QED
        BY <1>2, <1>3, <2>4, <4>1, <4>2 DEF KnowsImport, Nodes, AfterNodes, SameImport, SameWrite
    <3> QED
      BY <1>3, <2>1, <2>4, <3>1, <3>2 DEF Knows, KnowsRows, KnowsTexts, SameImport, SameWrite
  <2>8. call' = [call EXCEPT ![s] = c] /\ c.guid = g
    BY <1>3, <1>5, <2>1, <2>3, <2>4 DEF To, SameImport, WithId
  <2> QED
    BY <1>1, <1>2, <1>3, <2>4, <2>5, <2>6, <2>7, <2>8, QuietKeeps DEF CallFits, SameWrite
<1> QED
  BY <1>3, <1>4, <1>5 DEF LookRow

(* midgard_object_delete counts the languages before it decides what to do. *)
LEMMA SeveralLangs ==
  ASSUME TypeOK, NEW i \in RowId, NEW ids \in SUBSET {i}, NEW l \in Lang, Cardinality(LangsOf(ids)) > 1
  PROVE  \E k \in TextsOf(i) : text[k].lang # l
PROOF
<1>1. SUFFICES ASSUME \A k \in TextsOf(i) : text[k].lang = l PROVE FALSE
  OBVIOUS
<1>2. LangsOf(ids) \subseteq {l}
  BY <1>1 DEF LangsOf
<1>3. IsFiniteSet({l}) /\ Cardinality({l}) = 1
  BY FS_Singleton
<1>4. Cardinality(LangsOf(ids)) \in Nat /\ Cardinality(LangsOf(ids)) <= 1
  BY <1>2, <1>3, FS_Subset, FS_CardinalityType
<1> QED
  BY <1>4

LEMMA CountKeeps == ASSUME TranslationInv, NEW s \in Session, Count(s) PROVE TranslationInv'
PROOF
<1>1. In(s, "count") /\ late' = late /\ UNCHANGED tables /\ torn' = torn
  BY DEF Count, Reads
<1>2. /\ call[s] # Idle /\ call[s] \in Call /\ call[s].guid \in Guid /\ call[s].pc = "count"
      /\ Based /\ TypeOK /\ CallFits(call[s]) /\ StepFits(call[s]) /\ IdsFit(call[s])
  BY <1>1, InCall
<1>3. PICK b \in Call, g \in Guid : b = call[s] /\ g = b.guid
  BY <1>2
<1>4. PICK p \in {"cut", "mark"} : p = IF Cardinality(LangsOf(LiveOf(g))) > 1 THEN "cut" ELSE "mark"
  OBVIOUS
<1>5. PICK c : c = WithPc(b, p)
  OBVIOUS
<1>6. c \in Call /\ c.pc = p /\ SameImport(c, b) /\ SameWrite(c, b) /\ c.id = b.id
  BY <1>5, <1>4, PcChanged DEF Steps
<1>7. b.op = "delete"
  BY <1>2, <1>3 DEF StepFits, Importing, CallFits, ImportFits, Call, Calls
<1>8. StepFits(c) /\ IdsFit(c)
  BY <1>2, <1>3, <1>4, <1>6, <1>7 DEF StepFits, IdsFit, SameImport, SameWrite, Importing
<1>9. ASSUME Knows(call[s]), AlmostWhole(g) PROVE Knows(c)
  <2>1. b.id \in RowsOf(g) /\ TextsOf(b.id) # {}
    BY <1>2, <1>3, <1>9 DEF Knows, KnowsRows
  <2>2. b.id \in RowId /\ LiveOf(g) \subseteq {b.id}
    BY <1>9, <2>1, Rows DEF AlmostWhole
  <2>3. p = "cut" => \E k \in TextsOf(b.id) : text[k].lang # b.l
    BY <1>2, <1>3, <1>4, <2>2, SeveralLangs DEF Call
  <2> QED
    BY <1>3, <1>4, <1>6, <1>7, <2>1, <2>3 DEF Knows, KnowsRows, KnowsTexts, SameImport, SameWrite
<1>10. call' = [call EXCEPT ![s] = c] /\ c.guid = g
  BY <1>2, <1>3, <1>4, <1>5, <1>6, GoIs DEF Count, SameImport
<1> QED
  BY <1>1, <1>2, <1>3, <1>6, <1>7, <1>8, <1>9, <1>10, QuietKeeps DEF CallFits, SameWrite

(* The removal of what a document does not have: the object is found, *)
LEMMA FindKeeps == ASSUME TranslationInv, NEW s \in Session, Find(s) PROVE TranslationInv'
PROOF
<1>1. In(s, "find") /\ late' = late /\ UNCHANGED tables /\ torn' = torn
  BY DEF Find, Reads
<1>2. /\ call[s] # Idle /\ call[s] \in Call /\ call[s].guid \in Guid /\ call[s].pc = "find"
      /\ Based /\ TypeOK /\ CallFits(call[s]) /\ StepFits(call[s])
  BY <1>1, InCall
<1>3. PICK b \in Call, g \in Guid : b = call[s] /\ g = b.guid
  BY <1>2
<1>4. b.op = "import" /\ ImportFits(b)
  BY <1>2, <1>3 DEF StepFits, CallFits, Importing
<1>5. b.doc \in Docs /\ b.at = Len(b.doc.nodes) /\ b.at \in Nat \ {0} /\ Nodes(b) = b.at
  BY <1>2, <1>3, <1>4, DocIs DEF ImportFits, AfterNodes, Nodes
<1> DEFINE Sees(i, node) == IF node.lang # 0 /\ b.conn = 0 THEN Picked(i, node.lang, node.lang) # 0
                            ELSE Picked(i, b.conn, Default) # 0
           there == {i \in LiveOf(g) : \E node \in ToSet(b.doc.nodes) : Sees(i, node)}
<1>6. CASE entry[g] # "live" \/ there = {}
  <2>1. PICK c : c = WithPc(b, "end")
    OBVIOUS
  <2>2. c \in Call /\ c.pc = "end" /\ SameImport(c, b) /\ SameWrite(c, b)
    BY <2>1, PcChanged, StepNames
  <2>3. StepFits(c) /\ IdsFit(c) /\ ImportFits(c)
    BY <1>2, <1>3, <1>4, <1>5, <2>2
    DEF StepFits, IdsFit, ImportFits, SameImport, SameWrite, Importing, AfterNodes
  <2>4. ASSUME Knows(call[s]), AlmostWhole(g) PROVE Knows(c)
    <3>1. b.ok => Arrived(b.doc, b.at)
      BY <1>3, <1>4, <1>5, <2>4 DEF Knows, KnowsImport
    <3>2. ASSUME b.ok, ~b.doc.deleted, b.conn = 0 PROVE FALSE
      <4>1. PICK i \in LiveOf(g) : \A m \in 1..b.at : Holds(i, b.doc.nodes[m])
        BY <1>3, <1>4, <3>1, <3>2 DEF Arrived, ImportFits
      <4>2. 1 \in 1..b.at /\ b.doc.nodes[1] \in ToSet(b.doc.nodes) /\ b.doc.nodes[1].lang \in Lang
        BY <1>5, DocIs
      <4>3. InLang(i, b.doc.nodes[1].lang) # {}
        BY <4>1, <4>2 DEF Holds, InLang
      <4>4. Min(InLang(i, b.doc.nodes[1].lang)) # 0
        <5>1. InLang(i, b.doc.nodes[1].lang) \subseteq TextId
          BY DEF InLang, TextsOf
        <5> QED
          BY <4>3, <5>1, FirstIsThere, Ids
      <4>5. Sees(i, b.doc.nodes[1])
        BY <3>2, <4>3, <4>4 DEF Picked
      <4>6. there # {} /\ entry[g] = "live"
        BY <2>4, <4>1, <4>2, <4>5 DEF AlmostWhole
      <4> QED
        BY <1>6, <4>6
    <3> QED
      BY <1>4, <1>5, <2>2, <3>1, <3>2
      DEF Knows, KnowsRows, KnowsTexts, KnowsImport, Nodes, AfterNodes, SameImport, SameWrite
  <2>5. call' = [call EXCEPT ![s] = c] /\ c.guid = g
    BY <1>2, <1>3, <1>6, <2>1, <2>2, GoIs DEF Find, SameImport
  <2> QED
    BY <1>1, <1>2, <1>3, <2>2, <2>3, <2>4, <2>5, QuietKeeps DEF CallFits
<1>7. CASE entry[g] = "live" /\ there # {}
  <2>1. PICK i \in LiveOf(g) : i = Min(there)
    <3>1. there \subseteq Nat
      BY Rows
    <3>2. Min(there) \in there
      BY <1>7, <3>1, FirstIsThere
    <3> QED
      BY <3>2
  <2>2. i \in AllOf(g) /\ i \in RowId /\ i \in RowsOf(g)
    BY <2>1, Rows
  <2>3. PICK c : c = WithId(b, "langs", i)
    OBVIOUS
  <2>4. c \in Call /\ c.pc = "langs" /\ c.id = i /\ SameImport(c, b) /\ SameWrite(c, b)
    <3>1. "langs" \in Steps /\ i \in RowId \cup {0}
      BY <2>2, StepNames
    <3> QED
      BY <2>3, <3>1, IdChanged
  <2>5. StepFits(c) /\ IdsFit(c) /\ ImportFits(c)
    BY <1>2, <1>3, <1>4, <1>5, <2>2, <2>4
    DEF StepFits, IdsFit, ImportFits, SameImport, SameWrite, Importing, AfterNodes
  <2>6. Knows(call[s]) => Knows(c)
    BY <1>2, <1>3, <1>4, <2>1, <2>4
    DEF Knows, KnowsRows, KnowsTexts, KnowsImport, Nodes, AfterNodes, SameImport, SameWrite
  <2>7. call' = [call EXCEPT ![s] = c] /\ c.guid = g
    BY <1>2, <1>3, <1>7, <2>1, <2>3, <2>4 DEF Find, SameImport, To, WithId
  <2> QED
    BY <1>1, <1>2, <1>3, <2>4, <2>5, <2>6, <2>7, QuietKeeps DEF CallFits
<1> QED
  BY <1>6, <1>7

(* and so are its languages. *)
LEMMA ListLangsKeeps == ASSUME TranslationInv, NEW s \in Session, ListLangs(s) PROVE TranslationInv'
PROOF
<1>1. In(s, "langs") /\ late' = late /\ UNCHANGED tables /\ torn' = torn
  BY DEF ListLangs, Reads
<1>2. /\ call[s] # Idle /\ call[s] \in Call /\ call[s].guid \in Guid /\ call[s].pc = "langs"
      /\ Based /\ TypeOK /\ CallFits(call[s]) /\ StepFits(call[s]) /\ IdsFit(call[s])
  BY <1>1, InCall
<1>3. PICK b \in Call, g \in Guid : b = call[s] /\ g = b.guid
  BY <1>2
<1>4. b.op = "import" /\ ImportFits(b)
  BY <1>2, <1>3 DEF StepFits, CallFits, Importing
<1>5. PICK gone : gone = LangsOf(LiveOf(g)) \ DocLangs(b.doc)
  OBVIOUS
<1>6. gone \subseteq Lang
  BY <1>2, <1>5, TextIs DEF LangsOf, TextsOf
<1>7. PICK p \in {"end", "trim"} : p = IF gone = {} THEN "end" ELSE "trim"
  OBVIOUS
<1>8. PICK c : c = WithTrim(b, p, gone)
  OBVIOUS
<1>9. c \in Call /\ c.pc = p /\ c.trim = gone /\ c.id = b.id /\ SameImport(c, b) /\ SameWrite(c, b)
  BY <1>6, <1>7, <1>8, TrimChanged, StepNames
<1>10. StepFits(c) /\ IdsFit(c)
  BY <1>2, <1>3, <1>4, <1>7, <1>9 DEF StepFits, IdsFit, SameImport, SameWrite, Importing
<1>11. ImportFits(c)
  BY <1>2, <1>3, <1>4, <1>5, <1>7, <1>9 DEF ImportFits, SameImport, SameWrite, Importing, AfterNodes
<1>12. ASSUME Knows(call[s]) PROVE Knows(c)
  <2>1. b.id \in LiveOf(g) /\ KnowsImport(b)
    BY <1>2, <1>3, <1>4, <1>12 DEF Knows, KnowsRows
  <2>2. \A i \in LiveOf(g) : \A k \in TextsOf(i) : text[k].lang \in gone \cup DocLangs(b.doc)
    BY <1>5 DEF LangsOf
  <2>3. KnowsRows(c) /\ KnowsTexts(c)
    BY <1>3, <1>7, <1>9, <2>1 DEF KnowsRows, KnowsTexts, SameImport
  <2>4. KnowsImport(c)
    BY <1>2, <1>3, <1>7, <1>9, <2>1, <2>2 DEF KnowsImport, Nodes, AfterNodes, SameImport
  <2> QED
    BY <2>3, <2>4 DEF Knows
<1>13. call' = [call EXCEPT ![s] = c] /\ c.guid = g
  BY <1>3, <1>5, <1>7, <1>8, <1>9 DEF ListLangs, SameImport, To, WithTrim, DocLangs
<1> QED
  BY <1>1, <1>2, <1>3, <1>9, <1>10, <1>11, <1>12, <1>13, QuietKeeps DEF CallFits

(* The import of a node: the object is looked up, *)
AtNode(c) == [c EXCEPT !.name = c.doc.name, !.body = c.doc.nodes[c.at].body,
                       !.l = c.doc.nodes[c.at].lang, !.d = c.doc.nodes[c.at].lang]

LEMMA AtNodeIs ==
  ASSUME NEW c \in Call, c.doc \in Docs, c.at \in 1..Len(c.doc.nodes)
  PROVE  LET e == AtNode(c)
             node == c.doc.nodes[c.at]
         IN  /\ e \in Call /\ SameImport(e, c) /\ e.op = c.op /\ e.pc = c.pc /\ e.id = c.id
             /\ e.l = node.lang /\ e.body = node.body /\ e.name = c.doc.name
PROOF
<1>1. PICK node, n : node = c.doc.nodes[c.at] /\ n = c.doc.name
  OBVIOUS
<1>2. node \in [lang : Lang, body : DocBodies] /\ n \in Names
  BY <1>1, DocIs
<1>3. node.lang \in Lang /\ node.body \in Bodies
  BY <1>2 DEF Bodies
<1>4. PICK e : e = [c EXCEPT !.name = n, !.body = node.body, !.l = node.lang, !.d = node.lang]
  OBVIOUS
<1>5. e \in Call
  BY <1>2, <1>3, <1>4 DEF Call
<1>6. /\ SameImport(e, c) /\ e.op = c.op /\ e.pc = c.pc /\ e.id = c.id
      /\ e.l = node.lang /\ e.body = node.body /\ e.name = n
  BY <1>4, <1>5 DEF Call, SameImport
<1>7. e = AtNode(c)
  BY <1>1, <1>4 DEF AtNode
<1> QED
  BY <1>1, <1>5, <1>6, <1>7

(* What fits at one of the steps that follow. *)
LEMMA AtNodeFits ==
  ASSUME NEW b, b.op = "import", b.pc = "db", StepFits(b), ImportFits(b), NEW c \in Call,
         NEW e, e = AtNode(b), SameImport(e, b), e.op = b.op, e.l = b.doc.nodes[b.at].lang,
         e.body = b.doc.nodes[b.at].body, e.name = b.doc.name,
         SameImport(c, e), SameWrite(c, e), c.pc \in {"name", "mark", "undelete"},
         c.pc = "mark" => b.doc.deleted, c.pc = "undelete" => ~b.doc.deleted,
         c.pc = "name" => c.id = 0 \/ ~b.doc.deleted
  PROVE  CallFits(c)
PROOF
<1>1. StepFits(c) /\ IdsFit(c)
  BY DEF StepFits, IdsFit, SameImport, SameWrite, Importing
<1>2. ImportFits(c)
  BY DEF ImportFits, SameImport, SameWrite, Importing, AfterNodes
<1> QED
  BY <1>1, <1>2 DEF CallFits

LEMMA ImportLookKeeps == ASSUME TranslationInv, NEW s \in Session, ImportLook(s) PROVE TranslationInv'
PROOF
<1>1. In(s, "db")
  BY DEF ImportLook
<1>2. /\ call[s] # Idle /\ call[s] \in Call /\ call[s].guid \in Guid /\ call[s].pc = "db"
      /\ Based /\ TypeOK /\ CallFits(call[s]) /\ StepFits(call[s])
  BY <1>1, InCall
<1>3. PICK b \in Call, g \in Guid : b = call[s] /\ g = b.guid
  BY <1>2
<1>4. b.op = "import" /\ ImportFits(b)
  BY <1>2, <1>3 DEF StepFits, CallFits, Importing
<1>5. b.doc \in Docs /\ b.at \in 1..Len(b.doc.nodes) /\ b.id = 0 /\ b.pc = "db" /\ StepFits(b)
  BY <1>2, <1>3, <1>4 DEF ImportFits
<1>6. b.at \in Nat /\ Nodes(b) = b.at - 1
  BY <1>5, DocIs DEF Nodes, AfterNodes
<1>7. PICK e \in Call : e = AtNode(b)
  BY <1>5, AtNodeIs
<1>8. /\ SameImport(e, b) /\ e.op = b.op /\ e.id = 0 /\ e.guid = g
      /\ e.l = b.doc.nodes[b.at].lang /\ e.body = b.doc.nodes[b.at].body /\ e.name = b.doc.name
  BY <1>3, <1>5, <1>7, AtNodeIs DEF SameImport
<1>9. PICK there : there = InDatabase(g, b.doc.nodes[b.at].lang)
  OBVIOUS
<1>10. there = {i \in RowsOf(g) : TextsOf(i) # {}}
  BY <1>9 DEF InDatabase
<1>11. ASSUME NEW c, SameImport(c, e), SameWrite(c, e), c.pc \in {"name", "mark", "undelete"},
              Knows(call[s]), KnowsRows(c), c.pc = "name" /\ c.id # 0 => c.id \in LiveOf(g)
       PROVE  Knows(c)
  <2>1. KnowsTexts(c)
    BY <1>11 DEF KnowsTexts
  <2>2. KnowsImport(b)
    BY <1>3, <1>4, <1>11 DEF Knows
  <2>3. Nodes(c) = Nodes(b) /\ c.ok = b.ok /\ c.doc = b.doc /\ c.guid = g
    BY <1>3, <1>5, <1>8, <1>11 DEF Nodes, AfterNodes, SameImport
  <2>4. KnowsImport(c)
    BY <1>11, <2>2, <2>3 DEF KnowsImport
  <2> QED
    BY <2>1, <2>4, <1>11 DEF Knows
<1>12. ASSUME (late' = late /\ there = {}) \/ late' = late \cup {s}, torn' = torn, UNCHANGED tables,
              To(s, [e EXCEPT !.pc = "name"])
       PROVE  TranslationInv'
  <2>1. PICK c : c = WithPc(e, "name")
    OBVIOUS
  <2>2. c \in Call /\ c.pc = "name" /\ SameImport(c, e) /\ SameWrite(c, e) /\ c.id = 0
    BY <1>8, <2>1, PcChanged, StepNames
  <2>3. CallFits(c)
    BY <1>4, <1>5, <1>7, <1>8, <2>2, AtNodeFits
  <2>4. there = {} /\ Knows(call[s]) => Knows(c)
    <3>1. there = {} => KnowsRows(c)
      BY <1>8, <1>10, <2>2 DEF KnowsRows, SameImport
    <3> QED
      BY <1>11, <2>2, <3>1
  <2>5. call' = [call EXCEPT ![s] = c] /\ c.guid = g
    BY <1>8, <1>12, <2>1, <2>2 DEF To, WithPc, SameImport
  <2> QED
    BY <1>2, <1>3, <1>12, <2>2, <2>3, <2>4, <2>5, QuietKeeps
<1>13. ASSUME late' = late \/ late' = late \cup {s}, torn' = torn, UNCHANGED tables, Return(s, FALSE)
       PROVE  TranslationInv'
  <2>1. PICK c : c = AfterReturn(call[s], FALSE)
    OBVIOUS
  <2>2. /\ c \in Call \cup {Idle} /\ call' = [call EXCEPT ![s] = c]
        /\ c # Idle => CallFits(c) /\ c.guid = g
        /\ Knows(c)
    BY <1>2, <1>3, <1>4, <1>13, <2>1, ReturnFits
  <2> QED
    BY <1>2, <1>3, <1>13, <2>2, QuietKeeps
<1>14. ASSUME there # {}, b.doc.deleted, To(s, [e EXCEPT !.pc = "mark"]), Reads, late' = late
       PROVE  TranslationInv'
  <2>1. PICK c : c = WithPc(e, "mark")
    OBVIOUS
  <2>2. c \in Call /\ c.pc = "mark" /\ SameImport(c, e) /\ SameWrite(c, e) /\ c.id = 0
    BY <1>8, <2>1, PcChanged, StepNames
  <2>3. CallFits(c)
    BY <1>4, <1>5, <1>7, <1>8, <1>14, <2>2, AtNodeFits
  <2>4. Knows(call[s]) => Knows(c)
    <3>1. KnowsRows(c)
      BY <2>2 DEF KnowsRows
    <3> QED
      BY <1>11, <2>2, <3>1
  <2>5. call' = [call EXCEPT ![s] = c] /\ c.guid = g /\ UNCHANGED tables /\ torn' = torn
    BY <1>8, <1>14, <2>1, <2>2 DEF To, WithPc, SameImport, Reads
  <2> QED
    BY <1>2, <1>3, <1>14, <2>2, <2>3, <2>4, <2>5, QuietKeeps
<1>15. ASSUME there # {}, ~b.doc.deleted, Reads, late' = late,
              To(s, [e EXCEPT !.pc = IF row[Min(there)].stage = "deleted" THEN "undelete" ELSE "name",
                              !.id = Min(there)])
       PROVE  TranslationInv'
  <2>1. PICK i \in there : i = Min(there)
    <3>1. there \in SUBSET Nat
      BY <1>10, Rows
    <3> QED
      BY <1>15, <3>1, FirstIsThere
  <2>2. i \in RowsOf(g) /\ TextsOf(i) # {} /\ i \in RowId /\ i # 0
    BY <1>10, <2>1, Rows, Ids
  <2>3. PICK p \in {"undelete", "name"} : p = IF row[i].stage = "deleted" THEN "undelete" ELSE "name"
    OBVIOUS
  <2>4. p = "name" => i \in LiveOf(g)
    <3>1. row[i] # NoRow /\ row[i].stage # "purged"
      BY <2>2 DEF RowsOf
    <3> QED
      BY <1>2, <2>2, <2>3, <3>1, RowIs DEF LiveOf, Stage
  <2>5. PICK c : c = WithId(e, p, i)
    OBVIOUS
  <2>6. c \in Call /\ c.pc = p /\ SameImport(c, e) /\ SameWrite(c, e) /\ c.id = i
    <3>1. p \in Steps /\ i \in RowId \cup {0}
      BY <2>2, <2>3, StepNames
    <3> QED
      BY <2>5, <3>1, IdChanged
  <2>7. CallFits(c)
    BY <1>4, <1>5, <1>7, <1>8, <1>15, <2>3, <2>6, AtNodeFits
  <2>8. Knows(call[s]) => Knows(c)
    <3>1. KnowsRows(c)
      BY <1>8, <2>2, <2>3, <2>4, <2>6 DEF KnowsRows, SameImport
    <3> QED
      BY <1>11, <2>3, <2>4, <2>6, <3>1
  <2>9. call' = [call EXCEPT ![s] = c] /\ c.guid = g /\ UNCHANGED tables /\ torn' = torn
    BY <1>8, <1>15, <2>1, <2>3, <2>5, <2>6 DEF To, WithId, SameImport, Reads
  <2> QED
    BY <1>2, <1>3, <1>15, <2>6, <2>7, <2>8, <2>9, QuietKeeps
<1>16. \/ there = {} /\ (To(s, [e EXCEPT !.pc = "name"]) \/ Return(s, FALSE)) /\ Reads /\ late' = late
       \/ there # {} /\ b.doc.deleted /\ To(s, [e EXCEPT !.pc = "mark"]) /\ Reads /\ late' = late
       \/ there # {} /\ ~b.doc.deleted /\ Reads /\ late' = late
          /\ To(s, [e EXCEPT !.pc = IF row[Min(there)].stage = "deleted" THEN "undelete" ELSE "name",
                             !.id = Min(there)])
       \/ (To(s, [e EXCEPT !.pc = "name"]) \/ Return(s, FALSE)) /\ Refused(s) /\ UNCHANGED tables
  <2>1. e = [b EXCEPT !.name = b.doc.name, !.body = b.doc.nodes[b.at].body,
                      !.l = b.doc.nodes[b.at].lang, !.d = b.doc.nodes[b.at].lang]
    BY <1>7 DEF AtNode
  <2> QED
    BY <1>3, <1>9, <2>1 DEF ImportLook
<1> QED
  BY <1>12, <1>13, <1>14, <1>15, <1>16 DEF Reads, Refused

(* and its name is checked. *)
LEMMA ImportNameKeeps == ASSUME TranslationInv, NEW s \in Session, ImportName(s) PROVE TranslationInv'
PROOF
<1>1. In(s, "name") /\ late' = late /\ UNCHANGED tables /\ torn' = torn
  BY DEF ImportName, Reads
<1>2. /\ call[s] # Idle /\ call[s] \in Call /\ call[s].guid \in Guid /\ call[s].pc = "name"
      /\ Based /\ TypeOK /\ CallFits(call[s]) /\ StepFits(call[s])
  BY <1>1, InCall
<1>3. PICK b \in Call, g \in Guid : b = call[s] /\ g = b.guid
  BY <1>2
<1>4. b.op = "import" /\ ImportFits(b)
  BY <1>2, <1>3 DEF StepFits, CallFits, Importing
<1>5. CASE Return(s, FALSE)
  <2>1. PICK c : c = AfterReturn(call[s], FALSE)
    OBVIOUS
  <2>2. /\ c \in Call \cup {Idle} /\ call' = [call EXCEPT ![s] = c]
        /\ c # Idle => CallFits(c) /\ c.guid = g
        /\ Knows(c)
    BY <1>2, <1>3, <1>4, <1>5, <2>1, ReturnFits
  <2> QED
    BY <1>1, <1>2, <1>3, <2>2, QuietKeeps
<1>6. CASE To(s, [b EXCEPT !.pc = IF b.id = 0 THEN "insert" ELSE "row", !.id = 0])
  <2>1. PICK p \in {"insert", "row"} : p = IF b.id = 0 THEN "insert" ELSE "row"
    OBVIOUS
  <2>2. PICK c : c = WithId(b, p, 0)
    OBVIOUS
  <2>3. c \in Call /\ c.pc = p /\ c.id = 0 /\ SameImport(c, b) /\ SameWrite(c, b)
    <3>1. p \in Steps /\ 0 \in RowId \cup {0}
      BY <2>1, StepNames
    <3> QED
      BY <2>2, <3>1, IdChanged
  <2>4. StepFits(c) /\ IdsFit(c)
    BY <1>2, <1>3, <1>4, <2>1, <2>3 DEF StepFits, IdsFit, SameImport, SameWrite, Importing
  <2>5. ImportFits(c)
    BY <1>2, <1>3, <1>4, <2>1, <2>3 DEF ImportFits, SameImport, SameWrite, Importing, AfterNodes
  <2>6. Knows(call[s]) => Knows(c)
    BY <1>2, <1>3, <1>4, <2>1, <2>3
    DEF Knows, KnowsRows, KnowsTexts, KnowsImport, Nodes, AfterNodes, SameImport, SameWrite
  <2>7. call' = [call EXCEPT ![s] = c] /\ c.guid = g
    BY <1>3, <1>6, <2>1, <2>2, <2>3 DEF To, WithId, SameImport
  <2> QED
    BY <1>1, <1>2, <1>3, <2>3, <2>4, <2>5, <2>6, <2>7, QuietKeeps DEF CallFits
<1> QED
  BY <1>3, <1>5, <1>6 DEF ImportName

-----------------------------------------------------------------------------
(* The beginnings of calls. *)
LEMMA DeleteKeeps ==
  ASSUME TranslationInv, NEW s \in Session, NEW l \in Spoken, Delete(s, l) PROVE TranslationInv'
PROOF
<1>1. In(s, "held") /\ late' = late /\ UNCHANGED tables /\ torn' = torn
  BY DEF Delete, Reads
<1>2. /\ call[s] # Idle /\ call[s] \in Call /\ call[s].guid \in Guid /\ call[s].pc = "held"
      /\ Based /\ TypeOK /\ StepFits(call[s]) /\ IdsFit(call[s])
  BY <1>1, InCall
<1>3. PICK b \in Call, g \in Guid : b = call[s] /\ g = b.guid
  BY <1>2
<1>4. PICK p \in {"mark", "count"} : p = IF l = Default THEN "mark" ELSE "count"
  OBVIOUS
<1>5. PICK c : c = [b EXCEPT !.op = "delete", !.l = l, !.pc = p]
  OBVIOUS
<1>6. c \in Call
  BY <1>4, <1>5, TranslationAssumption DEF Call, Calls, Steps
<1>7. c.op = "delete" /\ c.pc = p /\ SameImport(c, b) /\ c.id = b.id
  BY <1>5, <1>6 DEF Call, SameImport
<1>8. StepFits(c) /\ IdsFit(c)
  BY <1>2, <1>3, <1>4, <1>7 DEF StepFits, IdsFit, SameImport, Importing
<1>9. Knows(call[s]) => Knows(c)
  BY <1>2, <1>3, <1>4, <1>7 DEF Knows, KnowsRows, KnowsTexts, SameImport
<1>10. call' = [call EXCEPT ![s] = c] /\ c.guid = g
  BY <1>3, <1>4, <1>5, <1>7 DEF Delete, To, SameImport
<1> QED
  BY <1>1, <1>2, <1>3, <1>6, <1>7, <1>8, <1>9, <1>10, QuietKeeps DEF CallFits

LEMMA UpdateKeeps ==
  ASSUME TranslationInv, NEW s \in Session, NEW n \in Name, NEW x \in Body, NEW l \in Spoken, Update(s, n, x, l)
  PROVE  TranslationInv'
PROOF
<1>1. In(s, "held") /\ late' = late /\ UNCHANGED tables /\ torn' = torn
  BY DEF Update, Reads
<1>2. /\ call[s] # Idle /\ call[s] \in Call /\ call[s].guid \in Guid /\ call[s].pc = "held"
      /\ Based /\ TypeOK /\ StepFits(call[s])
  BY <1>1, InCall
<1>3. PICK b \in Call, g \in Guid : b = call[s] /\ g = b.guid
  BY <1>2
<1>4. PICK c : c = [b EXCEPT !.op = "update", !.pc = "row", !.id = 0, !.lang = 0, !.name = n, !.body = x, !.l = l]
  OBVIOUS
<1>5. c \in Call
  <2>1. n \in Names /\ x \in Bodies /\ l \in Lang /\ 0 \in Lang
    BY TranslationAssumption DEF Names, Bodies
  <2> QED
    BY <1>4, <2>1 DEF Call, Calls, Steps
<1>6. c.op = "update" /\ c.pc = "row" /\ SameImport(c, b)
  BY <1>4, <1>5 DEF Call, SameImport
<1>7. StepFits(c) /\ IdsFit(c)
  BY <1>2, <1>3, <1>6 DEF StepFits, IdsFit, SameImport, Importing
<1>8. Knows(c)
  BY <1>6 DEF Knows, KnowsRows, KnowsTexts
<1>9. call' = [call EXCEPT ![s] = c] /\ c.guid = g
  BY <1>3, <1>4, <1>6 DEF Update, To, SameImport
<1> QED
  BY <1>1, <1>2, <1>3, <1>5, <1>6, <1>7, <1>8, <1>9, QuietKeeps DEF CallFits

(* A session in no call begins one. *)
LEMMA BeginKeeps ==
  ASSUME TranslationInv, NEW s \in Session, NEW c \in Call, Begin(s, c), Reads, CallFits(c),
         AlmostWhole(c.guid) => Knows(c)
  PROVE  TranslationInv'
PROOF
<1>1. call[s] = Idle /\ call' = [call EXCEPT ![s] = c] /\ late' = late \ {s} /\ UNCHANGED tables /\ torn' = torn
  BY DEF Begin, Reads
<1>2. PICK g \in Guid : g = c.guid
  BY DEF Call
<1>3. PICK d \in Call \cup {Idle} : d = c
  OBVIOUS
<1> QED
  BY <1>1, <1>2, <1>3, QuietKeeps

LEMMA FetchKeeps ==
  ASSUME TranslationInv, NEW s \in Session, NEW i \in RowId, NEW l \in Spoken, Fetch(s, i, l) PROVE TranslationInv'
PROOF
<1>1. TypeOK
  BY DEF TranslationInv, Based
<1>2. row[i] # NoRow /\ row[i].stage = "live" /\ row[i].guid \in Guid
  BY <1>1, RowIs DEF Fetch
<1>3. PICK g \in Guid : g = row[i].guid
  BY <1>2
<1>4. PICK p, w : p = Picked(i, l, Default) /\ w = text[p].lang
  OBVIOUS
<1>5. p \in TextsOf(i)
  <2>1. p # 0
    BY <1>4 DEF Fetch
  <2>2. InLang(i, l) \in SUBSET Nat /\ InLang(i, Default) \in SUBSET Nat
    BY Ids DEF InLang, TextsOf
  <2>3. p \in InLang(i, l) \/ p \in InLang(i, Default)
    BY <1>4, <2>1, <2>2, FirstIsThere DEF Picked
  <2> QED
    BY <2>3 DEF InLang
<1>6. w \in Lang
  BY <1>1, <1>4, <1>5, TextIs DEF TextsOf
<1>7. PICK c : c = [Blank EXCEPT !.guid = g, !.id = i, !.lang = w]
  OBVIOUS
<1>8. c \in Call
  BY <1>6, <1>7, BlankIs DEF Call
<1>9. c.op = "hold" /\ c.pc = "held" /\ c.guid = g /\ c.id = i /\ c.doc = NoRow
  BY <1>7, <1>8, BlankIs DEF Call
<1>10. i \in AllOf(g) /\ i \in RowsOf(g)
  BY <1>2, <1>3 DEF AllOf, RowsOf
<1>11. StepFits(c) /\ IdsFit(c) /\ Knows(c)
  BY <1>5, <1>9, <1>10 DEF StepFits, IdsFit, Importing, Knows, KnowsRows, KnowsTexts
<1>12. Begin(s, c) /\ Reads
  BY <1>3, <1>4, <1>7 DEF Fetch
<1> QED
  BY <1>8, <1>9, <1>11, <1>12, BeginKeeps DEF CallFits

LEMMA CreateKeeps ==
  ASSUME TranslationInv, NEW s \in Session, NEW g \in Guid, NEW n \in Name, NEW x \in Body, NEW l \in Spoken,
         Create(s, g, n, x, l)
  PROVE  TranslationInv'
PROOF
<1>1. TypeOK /\ IdsGivenOut
  BY DEF TranslationInv, Based
<1>2. PICK c : c = [Blank EXCEPT !.guid = g, !.name = n, !.body = x, !.l = l]
  OBVIOUS
<1>3. PICK d : d = [c EXCEPT !.op = "create", !.pc = "insert"]
  OBVIOUS
<1>4. PICK e : e = [c EXCEPT !.op = "update", !.pc = "row"]
  OBVIOUS
<1>5. c \in Call
  <2>1. n \in Names /\ x \in Bodies /\ l \in Lang
    BY TranslationAssumption DEF Names, Bodies
  <2> QED
    BY <1>2, <2>1, BlankIs DEF Call
<1>6. c.guid = g /\ c.doc = NoRow
  BY <1>2, <1>5, BlankIs DEF Call
<1>7. d \in Call /\ e \in Call
  BY <1>3, <1>4, <1>5 DEF Call, Calls, Steps
<1>8. /\ d.guid = g /\ d.doc = NoRow /\ d.op = "create" /\ d.pc = "insert"
      /\ e.guid = g /\ e.doc = NoRow /\ e.op = "update" /\ e.pc = "row"
  BY <1>3, <1>4, <1>5, <1>6, <1>7 DEF Call
<1>9. RowsOf(g) = {}
  BY <1>1 DEF Create, RowsOf, IdsGivenOut
<1>10. StepFits(d) /\ IdsFit(d) /\ Knows(d)
  BY <1>8, <1>9 DEF StepFits, IdsFit, Importing, Knows, KnowsRows, KnowsTexts
<1>11. StepFits(e) /\ IdsFit(e) /\ Knows(e)
  BY <1>8 DEF StepFits, IdsFit, Importing, Knows, KnowsRows, KnowsTexts
<1>12. (Begin(s, d) \/ Begin(s, e)) /\ Reads
  BY <1>2, <1>3, <1>4 DEF Create
<1> QED
  BY <1>7, <1>8, <1>10, <1>11, <1>12, BeginKeeps DEF CallFits

LEMMA ImportKeeps ==
  ASSUME TranslationInv, NEW s \in Session, NEW d \in Docs, NEW l \in Spoken, Import(s, d, l) PROVE TranslationInv'
PROOF
<1>1. d.guid \in Guid /\ l \in Lang /\ 1 \in 1..Len(d.nodes) /\ d # NoRow
  BY DocIs, TranslationAssumption
<1>2. PICK c : c = [Blank EXCEPT !.op = "import", !.doc = d, !.guid = d.guid, !.at = 1, !.conn = l, !.pc = "db"]
  OBVIOUS
<1>3. c \in Call
  BY <1>1, <1>2, BlankIs DEF Call, Calls, Steps
<1>4. c.op = "import" /\ c.doc = d /\ c.guid = d.guid /\ c.at = 1 /\ c.pc = "db" /\ c.id = 0
  BY <1>1, <1>2, <1>3, BlankIs DEF Call
<1>5. StepFits(c) /\ IdsFit(c)
  BY <1>1, <1>4 DEF StepFits, IdsFit, Importing
<1>6. ImportFits(c)
  BY <1>1, <1>4 DEF ImportFits, Importing, AfterNodes
<1>7. Knows(c)
  BY <1>4 DEF Knows, KnowsRows, KnowsTexts, KnowsImport, Nodes, AfterNodes
<1>8. Begin(s, c) /\ Reads
  BY <1>2 DEF Import
<1> QED
  BY <1>3, <1>5, <1>6, <1>7, <1>8, BeginKeeps DEF CallFits

-----------------------------------------------------------------------------
(* Statements that write, and those that are refused. *)
LEMMA RefusedReturns ==
  ASSUME TranslationInv, NEW s \in Session, NEW pc, In(s, pc), pc \notin {"add", "texts"},
         NEW ok \in BOOLEAN, Return(s, ok), Refused(s), UNCHANGED tables
  PROVE  TranslationInv'
PROOF
<1>1. call[s] # Idle /\ call[s] \in Call /\ call[s].guid \in Guid /\ call[s].pc = pc /\ Based
  BY InCall
<1>2. PICK g \in Guid : g = call[s].guid
  BY <1>1
<1>3. PICK c : c = AfterReturn(call[s], ok)
  OBVIOUS
<1>4. /\ c \in Call \cup {Idle} /\ call' = [call EXCEPT ![s] = c]
      /\ c # Idle => CallFits(c) /\ c.guid = g
  BY <1>1, <1>2, <1>3, ReturnFits
<1>5. torn' = torn /\ late' = late \cup {s}
  BY DEF Refused
<1> QED
  BY <1>1, <1>2, <1>4, <1>5, QuietKeeps

LEMMA TornReturns ==
  ASSUME TranslationInv, NEW s \in Session, NEW pc, In(s, pc), Return(s, TRUE), UNCHANGED tables,
         late' = late, torn' = torn \cup {call[s].guid}
  PROVE  TranslationInv'
PROOF
<1>1. call[s] # Idle /\ call[s] \in Call /\ call[s].guid \in Guid /\ Based
  BY InCall
<1>2. PICK g \in Guid : g = call[s].guid
  BY <1>1
<1>3. PICK c : c = AfterReturn(call[s], TRUE)
  OBVIOUS
<1>4. /\ c \in Call \cup {Idle} /\ call' = [call EXCEPT ![s] = c]
      /\ c # Idle => CallFits(c) /\ c.guid = g
  BY <1>1, <1>2, <1>3, ReturnFits
<1> QED
  BY <1>1, <1>2, <1>4, TearKeeps

LEMMA WritesIs ==
  ASSUME NEW s \in Session, NEW g \in Guid, Writes(s, g)
  PROVE  /\ late' = late \cup {t \in Session \ {s} : call[t] # Idle /\ call[t].guid = g}
         /\ torn' \in {torn, torn \cup {g}} /\ (s \in late => g \in torn')
PROOF
  BY DEF Writes

(* The records of an object, written all at once, with its entry. *)
LEMMA RenamedIs ==
  ASSUME TypeOK, NEW g \in Guid, NEW n \in Names, UNCHANGED nextId,
         entry' = [entry EXCEPT ![g] = IF @ = "none" THEN @ ELSE "live"],
         row' = [i \in RowId |-> IF i \in RowsOf(g) THEN [row[i] EXCEPT !.name = n] ELSE row[i]]
  PROVE  /\ row' \in [RowId -> Record \cup {NoRow}] /\ RowsChange(g)
         /\ nextId' \in 1..(MaxRow + 1) /\ entry' \in [Guid -> Stage \cup {"none"}]
         /\ AllOf(g)' = AllOf(g) /\ RowsOf(g)' = RowsOf(g) /\ LiveOf(g)' = LiveOf(g)
         /\ \A i \in RowsOf(g) : row'[i].name = n
         /\ entry[g] = "live" => entry'[g] = "live"
PROOF
<1>1. ASSUME NEW i \in RowId, row[i] # NoRow, NEW r, r = [row[i] EXCEPT !.name = n]
      PROVE  r \in Record /\ r.guid = row[i].guid /\ r.stage = row[i].stage /\ r.name = n
  <2>1. row[i] \in Record
    BY <1>1, RowIs
  <2>2. r \in Record
    BY <1>1, <2>1 DEF Record
  <2> QED
    BY <1>1, <2>1, <2>2 DEF Record
<1>2. \A i \in RowsOf(g) : i \in RowId /\ row[i] # NoRow
  BY DEF RowsOf
<1>3. ASSUME NEW i \in RowId
      PROVE  /\ row'[i] \in Record \cup {NoRow}
             /\ row[i] = NoRow <=> row'[i] = NoRow
             /\ row[i] # NoRow => row'[i].guid = row[i].guid /\ row'[i].stage = row[i].stage
             /\ i \in RowsOf(g) => row'[i].name = n
             /\ i \notin RowsOf(g) => row'[i] = row[i]
  <2>1. CASE i \in RowsOf(g)
    <3>1. row'[i] \in Record /\ row'[i].guid = row[i].guid /\ row'[i].stage = row[i].stage /\ row'[i].name = n
      BY <1>1, <1>2, <2>1
    <3> QED
      BY <1>2, <2>1, <3>1, TranslationAssumption
  <2>2. CASE i \notin RowsOf(g)
    BY <2>2 DEF TypeOK
  <2> QED
    BY <2>1, <2>2
<1>4. row' \in [RowId -> Record \cup {NoRow}]
  BY <1>3
<1>5. nextId \in Nat /\ nextId' = nextId
  BY DEF TypeOK
<1>6. /\ entry' \in [Guid -> Stage \cup {"none"}] /\ (entry[g] = "live" => entry'[g] = "live")
      /\ \A h \in Guid : h # g => entry'[h] = entry[h]
      /\ \A h \in Guid : entry[h] # "none" => entry'[h] # "none"
  BY DEF TypeOK, Stage
<1>7. RowsChange(g)
  BY <1>3, <1>5, <1>6 DEF RowsChange, RowsOf
<1>8. AllOf(g)' = AllOf(g) /\ RowsOf(g)' = RowsOf(g)
  BY <1>3 DEF AllOf, RowsOf
<1>9. LiveOf(g)' = LiveOf(g)
  BY <1>2, <1>3, <1>8 DEF LiveOf
<1> QED
  BY <1>2, <1>3, <1>4, <1>5, <1>6, <1>7, <1>8, <1>9 DEF TypeOK

LEMMA StagedIs ==
  ASSUME TypeOK, NEW g \in Guid, NEW stage \in Stage, Staged(g, stage), nextId' = nextId
  PROVE  /\ row' \in [RowId -> Record \cup {NoRow}] /\ RowsChange(g)
         /\ nextId' \in 1..(MaxRow + 1) /\ entry' \in [Guid -> Stage \cup {"none"}]
         /\ AllOf(g)' = AllOf(g)
         /\ stage = "purged" => RowsOf(g)' = {}
         /\ stage # "purged" => RowsOf(g)' = RowsOf(g)
         /\ LiveOf(g)' = IF stage = "live" THEN RowsOf(g) ELSE {}
         /\ \A i \in RowsOf(g) : row'[i].name = row[i].name /\ row'[i].stage = stage
         /\ entry[g] # "none" => entry'[g] = stage
PROOF
<1>1. ASSUME NEW i \in RowId, row[i] # NoRow, NEW r, r = [row[i] EXCEPT !.stage = stage]
      PROVE  r \in Record /\ r.guid = row[i].guid /\ r.stage = stage /\ r.name = row[i].name
  <2>1. row[i] \in Record
    BY <1>1, RowIs
  <2>2. r \in Record
    BY <1>1, <2>1 DEF Record
  <2> QED
    BY <1>1, <2>1, <2>2 DEF Record
<1>2. \A i \in RowsOf(g) : i \in RowId /\ row[i] # NoRow /\ i \in AllOf(g)
  BY DEF RowsOf, AllOf
<1>3. ASSUME NEW i \in RowId
      PROVE  /\ row'[i] \in Record \cup {NoRow}
             /\ row[i] = NoRow <=> row'[i] = NoRow
             /\ row[i] # NoRow => row'[i].guid = row[i].guid /\ row'[i].name = row[i].name
             /\ i \in RowsOf(g) => row'[i].stage = stage
             /\ i \notin RowsOf(g) => row'[i] = row[i]
  <2>1. CASE i \in RowsOf(g)
    <3>1. row'[i] \in Record /\ row'[i].guid = row[i].guid /\ row'[i].stage = stage /\ row'[i].name = row[i].name
      BY <1>1, <1>2, <2>1 DEF Staged
    <3> QED
      BY <1>2, <2>1, <3>1, TranslationAssumption
  <2>2. CASE i \notin RowsOf(g)
    BY <2>2 DEF TypeOK, Staged
  <2> QED
    BY <2>1, <2>2
<1>4. row' \in [RowId -> Record \cup {NoRow}]
  BY <1>3 DEF Staged
<1>5. nextId \in Nat
  BY DEF TypeOK
<1>6. /\ entry' \in [Guid -> Stage \cup {"none"}] /\ (entry[g] # "none" => entry'[g] = stage)
      /\ \A h \in Guid : h # g => entry'[h] = entry[h]
      /\ \A h \in Guid : entry[h] # "none" => entry'[h] # "none"
  BY DEF TypeOK, Staged, Stage
<1>7. RowsChange(g)
  BY <1>3, <1>5, <1>6 DEF RowsChange, RowsOf
<1>8. AllOf(g)' = AllOf(g)
  BY <1>3 DEF AllOf
<1>9. RowsOf(g)' = {i \in RowsOf(g) : stage # "purged"}
  BY <1>2, <1>3, <1>8 DEF AllOf, RowsOf
<1>10. LiveOf(g)' = IF stage = "live" THEN RowsOf(g) ELSE {}
  BY <1>2, <1>3, <1>9 DEF LiveOf
<1> QED
  BY <1>2, <1>3, <1>4, <1>5, <1>6, <1>7, <1>8, <1>9, <1>10 DEF TypeOK

LEMMA TextsSame == ASSUME text' = text PROVE \A i : TextsOf(i)' = TextsOf(i)
PROOF
  BY DEF TextsOf

LEMMA UpdateRowKeeps == ASSUME TranslationInv, NEW s \in Session, UpdateRow(s) PROVE TranslationInv'
PROOF
<1>1. In(s, "row")
  BY DEF UpdateRow
<1>2. /\ call[s] # Idle /\ call[s] \in Call /\ call[s].guid \in Guid /\ call[s].pc = "row"
      /\ Based /\ TypeOK /\ CallFits(call[s]) /\ StepFits(call[s])
      /\ call[s].op = "import" => ImportFits(call[s])
  BY <1>1, InCall
<1>3. PICK b \in Call, g \in Guid : b = call[s] /\ g = b.guid
  BY <1>2
<1>4. CASE Return(s, FALSE) /\ UNCHANGED <<row, entry>> /\ Refused(s)
  <2>1. UNCHANGED tables
    BY <1>4 DEF UpdateRow, tables
  <2> QED
    BY <1>1, <1>4, <2>1, RefusedReturns
<1>5. CASE /\ row' = [i \in RowId |-> IF i \in RowsOf(g) THEN [row[i] EXCEPT !.name = b.name] ELSE row[i]]
           /\ entry' = [entry EXCEPT ![g] = IF @ = "none" THEN @ ELSE "live"]
           /\ Go(s, "look") /\ Writes(s, g)
  <2>1. UNCHANGED <<text, nextId, nextText>>
    BY DEF UpdateRow
  <2>2. b.name \in Names
    BY DEF Call
  <2>3. /\ row' \in [RowId -> Record \cup {NoRow}] /\ RowsChange(g)
        /\ nextId' \in 1..(MaxRow + 1) /\ entry' \in [Guid -> Stage \cup {"none"}]
        /\ AllOf(g)' = AllOf(g) /\ RowsOf(g)' = RowsOf(g) /\ LiveOf(g)' = LiveOf(g)
        /\ \A i \in RowsOf(g) : row'[i].name = b.name
        /\ entry[g] = "live" => entry'[g] = "live"
    BY <1>2, <1>5, <2>1, <2>2, RenamedIs
  <2>4. TextsChange(g) /\ TablesTyped /\ \A i : TextsOf(i)' = TextsOf(i)
    BY <1>2, <2>1, <2>3, SameTexts, TextsSame DEF TablesTyped
  <2>5. PICK c : c = WithPc(b, "look")
    OBVIOUS
  <2>6. c \in Call /\ c.pc = "look" /\ SameImport(c, b) /\ SameWrite(c, b)
    BY <2>5, PcChanged, StepNames
  <2>7. call' = [call EXCEPT ![s] = c] /\ call'[s] = c /\ c # Idle
    BY <1>2, <1>3, <1>5, <2>5, <2>6, GoIs, TranslationAssumption DEF TypeOK
  <2>8. StepFits(call[s])' /\ IdsFit(call[s])'
    BY <1>2, <1>3, <2>6, <2>7 DEF StepFits, IdsFit, SameImport, SameWrite, Importing
  <2>9. b.op = "import" => ImportFits(call[s])'
    BY <1>2, <1>3, <2>6, <2>7 DEF ImportFits, SameImport, SameWrite, Importing, AfterNodes
  <2>10. Moves(s)
    BY <1>3, <2>6, <2>7, <2>8, <2>9 DEF Moves, CallFits, SameImport, SameWrite
  <2>11. ASSUME AlmostWhole(g), Alone(s, g) PROVE AlmostWhole(g)'
    <3>1. \A i, pc : pc \in {"add", "texts"} => ~Pending(g, i, pc)
      BY <1>2, <2>11, OnlyWriter
    <3> QED
      BY <2>1, <2>3, <2>4, <2>11, <3>1 DEF AlmostWhole
  <2>12. ASSUME Knows(call[s]) PROVE Knows(call[s])'
    <3>1. KnowsRows(call[s])' /\ KnowsTexts(call[s])'
      BY <2>6, <2>7 DEF KnowsRows, KnowsTexts
    <3>2. ASSUME b.op = "import" PROVE KnowsImport(call[s])'
      <4>1. KnowsImport(b) /\ ImportFits(b)
        BY <1>2, <1>3, <2>12, <3>2 DEF Knows
      <4>2. PICK d, n : d = b.doc /\ n = Nodes(b)
        OBVIOUS
      <4>3. d = call'[s].doc /\ n = Nodes(call[s])'
        BY <1>2, <1>3, <2>6, <2>7, <4>2 DEF SameImport, Nodes, AfterNodes
      <4>4. d.guid = g /\ d.name = b.name /\ ~d.deleted
        BY <1>2, <1>3, <4>1, <4>2 DEF ImportFits, AfterNodes
      <4>5. \A i, m : Holds(i, m)' <=> Holds(i, m)
        BY <2>1, <2>4 DEF Holds
      <4>6. Arrived(d, n) => Arrived(d, n)'
        BY <2>3, <4>4, <4>5 DEF Arrived, LiveOf
      <4>7. c.ok /\ Nodes(call[s])' > 0 => Arrived(call[s].doc, Nodes(call[s]))'
        BY <4>1, <4>2, <4>3, <4>6, <2>6 DEF KnowsImport, SameImport
      <4>8. LiveOf(g) # {}
        BY <1>2, <1>3, <4>1 DEF KnowsImport
      <4> QED
        BY <1>3, <2>3, <2>6, <2>7, <4>7, <4>8 DEF KnowsImport, SameImport, SameWrite
    <3> QED
      BY <2>6, <2>7, <3>1, <3>2 DEF Knows, SameWrite
  <2> QED
    BY <1>2, <1>3, <1>5, <2>3, <2>4, <2>10, <2>11, <2>12, WritesIs, WriteKeeps
<1> QED
  BY <1>3, <1>4, <1>5 DEF UpdateRow

LEMMA WriteTextKeeps == ASSUME TranslationInv, NEW s \in Session, WriteText(s) PROVE TranslationInv'
PROOF
<1>1. In(s, "write") /\ Return(s, TRUE) /\ UNCHANGED <<row, nextId, nextText, entry>>
  BY DEF WriteText
<1>2. /\ call[s] # Idle /\ call[s] \in Call /\ call[s].guid \in Guid /\ call[s].pc = "write"
      /\ Based /\ TypeOK /\ StepFits(call[s]) /\ IdsFit(call[s])
      /\ call[s].op = "import" => ImportFits(call[s])
  BY <1>1, InCall
<1>3. PICK b \in Call, g \in Guid : b = call[s] /\ g = b.guid
  BY <1>2
<1>4. CASE UNCHANGED text /\ Refused(s)
  <2>1. UNCHANGED tables
    BY <1>1, <1>4 DEF tables
  <2> QED
    BY <1>1, <1>4, <2>1, RefusedReturns
<1>5. CASE /\ text' = IF text[b.found] = NoRow THEN text ELSE [text EXCEPT ![b.found] = TextColumns(b, @.sid)]
           /\ Writes(s, g)
  <2>1. PICK k \in TextId : k = b.found
    BY <1>2, <1>3 DEF IdsFit
  <2>2. text[k] # NoRow => text[k].lang = b.l /\ text[k].sid \in AllOf(g)
    BY <1>2, <1>3, <2>1 DEF IdsFit
  <2>3. ASSUME text[k] # NoRow
        PROVE  text'[k] \in Text /\ text'[k].sid = text[k].sid /\ text'[k].lang = text[k].lang /\ text'[k].body = b.body
    <3>1. text[k].sid \in RowId /\ text[k].lang \in Lang /\ b.body \in Bodies /\ b.l \in Lang
      BY <1>2, <2>3, TextIs DEF Call
    <3>2. text'[k] = [sid |-> text[k].sid, lang |-> b.l, body |-> b.body]
      BY <1>2, <1>5, <2>1, <2>3 DEF TypeOK, TextColumns
    <3> QED
      BY <2>2, <2>3, <3>1, <3>2 DEF Text
  <2>4. \A m \in TextId : m # k \/ text[k] = NoRow => text'[m] = text[m]
    BY <1>2, <1>5, <2>1 DEF TypeOK
  <2>5. text' \in [TextId -> Text \cup {NoRow}]
    BY <1>2, <1>5, <2>1, <2>3 DEF TypeOK
  <2>6. nextText \in Nat /\ nextText' = nextText
    BY <1>1, <1>2 DEF TypeOK
  <2>7. TextsChange(g)
    BY <2>2, <2>3, <2>4, <2>6 DEF TextsChange
  <2>8. RowsChange(g) /\ TablesTyped
    BY <1>1, <1>2, <2>5, SameRows DEF TablesTyped, TypeOK
  <2>9. /\ Moves(s) /\ (call[s].op # "import" => call'[s] = Idle)
        /\ \A d, n : call[s].op = "import" /\ d = call[s].doc /\ n = call[s].at
                      /\ (call[s].ok => Arrived(d, n)') => Knows(call[s])'
    BY <1>1, <1>2, ReturnMoves
  <2>10. \A m \in TextId : /\ text[m] # NoRow <=> text'[m] # NoRow
                           /\ text[m] # NoRow => text'[m].sid = text[m].sid /\ text'[m].lang = text[m].lang
    BY <2>3, <2>4, TranslationAssumption
  <2>11. \A i : TextsOf(i)' = TextsOf(i)
    BY <2>10 DEF TextsOf
  <2>12. RowsOf(g)' = RowsOf(g) /\ AllOf(g)' = AllOf(g) /\ LiveOf(g)' = LiveOf(g) /\ \A d : LiveOf(d)' = LiveOf(d)
    BY <1>1 DEF RowsOf, AllOf, LiveOf
  <2>13. ASSUME AlmostWhole(g), Alone(s, g) PROVE AlmostWhole(g)'
    <3>1. \A i, pc : pc \in {"add", "texts"} => ~Pending(g, i, pc)
      BY <1>2, <2>13, OnlyWriter
    <3>2. \A i : \A m \in TextsOf(i) : text'[m].lang = text[m].lang
      BY <2>10 DEF TextsOf
    <3> QED
      BY <1>1, <2>11, <2>12, <2>13, <3>1, <3>2 DEF AlmostWhole
  <2>14. ASSUME AlmostWhole(g), Knows(call[s]), call[s].op = "import" PROVE Knows(call[s])'
    <3>1. KnowsImport(b) /\ ImportFits(b) /\ KnowsTexts(b)
      BY <1>2, <1>3, <2>14 DEF Knows
    <3>2. PICK d \in Docs, n \in 1..Len(b.doc.nodes) : d = b.doc /\ n = b.at
      BY <3>1 DEF ImportFits
    <3>3. /\ d.guid = g /\ d.name = b.name /\ ~d.deleted /\ n \in Nat \ {0} /\ Nodes(b) = n - 1
          /\ b.l = d.nodes[n].lang /\ b.body = d.nodes[n].body /\ n \in 1..Len(d.nodes)
      BY <1>2, <1>3, <3>1, <3>2, DocIs DEF ImportFits, AfterNodes, Nodes
    <3>4. text[k] # NoRow /\ text[k].sid \in RowsOf(g) /\ LiveOf(g) # {} /\ \A i \in RowsOf(g) : row[i].name = b.name
      BY <1>2, <1>3, <2>1, <3>1 DEF KnowsTexts, KnowsImport
    <3>5. PICK i \in LiveOf(g) : k \in TextsOf(i) /\ row[i].name = d.name /\ \A j \in LiveOf(g) : j = i
      <4>1. LiveOf(g) \subseteq RowsOf(g)
        BY Rows
      <4> QED
        BY <2>14, <3>3, <3>4, <4>1 DEF AlmostWhole, TextsOf
    <3>6. ASSUME b.ok, NEW m \in 1..n PROVE Holds(i, d.nodes[m])'
      <4>1. CASE m = n
        BY <2>2, <2>3, <2>11, <3>3, <3>4, <3>5, <4>1 DEF Holds
      <4>2. CASE m # n
        <5>1. m \in 1..(n - 1) /\ n - 1 > 0 /\ m \in 1..Len(d.nodes)
          BY <3>3, <4>2, DocIs
        <5>2. Arrived(d, n - 1)
          BY <3>1, <3>2, <3>3, <3>6, <5>1 DEF KnowsImport
        <5>3. Holds(i, d.nodes[m])
          BY <3>3, <3>5, <5>1, <5>2 DEF Arrived
        <5>4. PICK x \in TextsOf(i) : text[x].lang = d.nodes[m].lang /\ text[x].body = d.nodes[m].body
          BY <5>3 DEF Holds
        <5>5. d.nodes[m].lang # d.nodes[n].lang
          BY <3>3, <4>2, <5>1, TranslationAssumption
        <5>6. x # k /\ x \in TextId
          BY <2>2, <3>3, <3>4, <5>4, <5>5 DEF TextsOf
        <5>7. text'[x] = text[x] /\ x \in TextsOf(i)'
          BY <2>4, <2>11, <5>6
        <5> QED
          BY <5>4, <5>7 DEF Holds
      <4> QED
        BY <4>1, <4>2
    <3>7. b.ok => Arrived(d, n)'
      BY <1>1, <2>12, <3>3, <3>5, <3>6 DEF Arrived
    <3> QED
      BY <1>3, <2>9, <2>14, <3>2, <3>7
  <2> QED
    BY <1>2, <1>3, <1>5, <2>7, <2>8, <2>9, <2>13, <2>14, WritesIs, WriteKeeps
<1> QED
  BY <1>3, <1>4, <1>5 DEF WriteText

LEMMA AddTextKeeps == ASSUME TranslationInv, NEW s \in Session, AddText(s) PROVE TranslationInv'
PROOF
<1>1. In(s, "add") /\ nextText \in TextId /\ Return(s, TRUE) /\ UNCHANGED <<row, nextId, entry>>
  BY DEF AddText
<1>2. /\ call[s] # Idle /\ call[s] \in Call /\ call[s].guid \in Guid /\ call[s].pc = "add"
      /\ Based /\ TypeOK /\ IdsGivenOut /\ StepFits(call[s]) /\ IdsFit(call[s])
      /\ call[s].op = "import" => ImportFits(call[s])
  BY <1>1, InCall DEF Based
<1>3. PICK b \in Call, g \in Guid : b = call[s] /\ g = b.guid
  BY <1>2
<1>4. CASE UNCHANGED <<text, nextText, late>> /\ torn' = torn \cup {b.guid}
  <2>1. UNCHANGED tables
    BY <1>1, <1>4 DEF tables
  <2> QED
    BY <1>1, <1>3, <1>4, <2>1, TornReturns
<1>5. CASE /\ text' = [text EXCEPT ![nextText] = TextColumns(b, b.id)] /\ nextText' = nextText + 1
           /\ Writes(s, g)
  <2>1. PICK k \in TextId, j \in RowId : k = nextText /\ j = b.id /\ j \in AllOf(g)
    BY <1>1, <1>2, <1>3 DEF IdsFit, AllOf
  <2>2. k \in Nat /\ k <= MaxText /\ nextText' = k + 1
    BY <1>5, <2>1, TranslationAssumption DEF TextId
  <2>3. text[k] = NoRow
    <3>1. ~ (k < nextText)
      BY <2>1, <2>2
    <3> QED
      BY <1>2, <3>1 DEF IdsGivenOut
  <2>4. text'[k] \in Text /\ text'[k].sid = j /\ text'[k].lang = b.l /\ text'[k].body = b.body
    <3>1. b.l \in Lang /\ b.body \in Bodies
      BY DEF Call
    <3>2. text'[k] = [sid |-> j, lang |-> b.l, body |-> b.body]
      BY <1>2, <1>5, <2>1 DEF TypeOK, TextColumns
    <3> QED
      BY <2>1, <3>1, <3>2 DEF Text
  <2>5. \A m \in TextId : m # k => text'[m] = text[m]
    BY <1>2, <1>5, <2>1 DEF TypeOK
  <2>6. text' \in [TextId -> Text \cup {NoRow}]
    BY <1>2, <1>5, <2>1, <2>4 DEF TypeOK
  <2>7. TextsChange(g)
    BY <2>1, <2>2, <2>3, <2>4, <2>5 DEF TextsChange
  <2>8. nextText' \in 1..(MaxText + 1)
    BY <1>2, <2>1, <2>2, TranslationAssumption
  <2>9. RowsChange(g) /\ TablesTyped
    BY <1>1, <1>2, <2>6, <2>8, SameRows DEF TablesTyped, TypeOK
  <2>10. /\ Moves(s) /\ (call[s].op # "import" => call'[s] = Idle)
         /\ \A d, n : call[s].op = "import" /\ d = call[s].doc /\ n = call[s].at
                      /\ (call[s].ok => Arrived(d, n)') => Knows(call[s])'
    BY <1>1, <1>2, ReturnMoves
  <2>11. text'[k] # NoRow
    BY <2>4, TranslationAssumption
  <2>12. TextsOf(j)' = TextsOf(j) \cup {k} /\ \A i : i # j => TextsOf(i)' = TextsOf(i)
    BY <2>3, <2>4, <2>5, <2>11 DEF TextsOf
  <2>13. RowsOf(g)' = RowsOf(g) /\ AllOf(g)' = AllOf(g) /\ LiveOf(g)' = LiveOf(g)
    BY <1>1 DEF RowsOf, AllOf, LiveOf
  <2>14. ASSUME Knows(call[s]) PROVE j \in RowsOf(g) /\ \A m \in TextsOf(j) : text[m].lang # b.l
    BY <1>2, <1>3, <2>1, <2>14 DEF Knows, KnowsTexts
  <2>15. \A i : \A m \in TextsOf(i) : m \in TextId /\ m # k /\ text'[m] = text[m]
    BY <2>3, <2>5 DEF TextsOf
  <2>16. ASSUME AlmostWhole(g), Alone(s, g), Knows(call[s]) PROVE AlmostWhole(g)'
    <3>1. \A i : ~Pending(g, i, "texts")
      BY <1>2, <2>16, OnlyWriter
    <3>2. \A i \in RowsOf(g) : TextsOf(i)' # {}
      BY <2>12, <2>14, <2>16 DEF AlmostWhole
    <3>3. \A i \in AllOf(g) \ RowsOf(g) : TextsOf(i)' = {}
      BY <2>12, <2>14, <2>16, <3>1 DEF AlmostWhole
    <3>4. ASSUME NEW i \in AllOf(g), NEW x \in TextsOf(i)', NEW y \in TextsOf(i)', text'[x].lang = text'[y].lang
          PROVE  x = y
      <4>1. CASE i # j
        BY <2>12, <2>15, <2>16, <3>4, <4>1 DEF AlmostWhole
      <4>2. CASE i = j
        <5>1. CASE x # k /\ y # k
          BY <2>12, <2>15, <2>16, <3>4, <4>2, <5>1 DEF AlmostWhole
        <5>2. CASE (x = k /\ y # k) \/ (x # k /\ y = k)
          BY <2>4, <2>12, <2>14, <2>15, <2>16, <3>4, <4>2, <5>2
        <5> QED
          BY <5>1, <5>2
      <4> QED
        BY <4>1, <4>2
    <3>5. \A i, m \in RowsOf(g)' : i = m
      BY <2>13, <2>16 DEF AlmostWhole
    <3>6. LiveOf(g)' # {} => entry'[g] = "live"
      BY <1>1, <2>13, <2>16 DEF AlmostWhole
    <3> QED
      BY <2>13, <3>2, <3>3, <3>4, <3>5, <3>6 DEF AlmostWhole
  <2>17. ASSUME AlmostWhole(g), Knows(call[s]), call[s].op = "import" PROVE Knows(call[s])'
    <3>1. KnowsImport(b) /\ ImportFits(b)
      BY <1>2, <1>3, <2>17 DEF Knows
    <3>2. PICK d \in Docs, n \in 1..Len(b.doc.nodes) : d = b.doc /\ n = b.at
      BY <3>1 DEF ImportFits
    <3>3. /\ d.guid = g /\ d.name = b.name /\ n \in Nat \ {0} /\ Nodes(b) = n - 1
          /\ b.l = d.nodes[n].lang /\ b.body = d.nodes[n].body /\ n \in 1..Len(d.nodes)
      BY <1>2, <1>3, <3>1, <3>2, DocIs DEF ImportFits, AfterNodes, Nodes
    <3>4. /\ row[j].name = d.name /\ row[j].stage = (IF d.deleted THEN "deleted" ELSE "live")
          /\ \A i \in RowsOf(g) : i = j
      BY <1>2, <1>3, <2>14, <2>17, <3>1, <3>2, <3>3 DEF KnowsImport, AlmostWhole
    <3>5. CASE d.deleted
      <4>1. LiveOf(g)' = {}
        BY <2>13, <3>4, <3>5 DEF LiveOf
      <4>2. Arrived(d, n)'
        BY <3>3, <3>5, <4>1 DEF Arrived
      <4> QED
        BY <1>3, <2>10, <2>17, <3>2, <4>2
    <3>6. CASE ~d.deleted
      <4>1. j \in LiveOf(g)
        BY <2>14, <2>17, <3>4, <3>6 DEF LiveOf
      <4>2. ASSUME b.ok, NEW m \in 1..n PROVE Holds(j, d.nodes[m])'
        <5>1. CASE m = n
          BY <2>4, <2>12, <3>3, <5>1 DEF Holds
        <5>2. CASE m # n
          <6>1. m \in 1..(n - 1) /\ n - 1 > 0
            BY <3>3, <5>2
          <6>2. Arrived(d, n - 1)
            BY <3>1, <3>2, <3>3, <4>2, <6>1 DEF KnowsImport
          <6>3. LiveOf(g) \subseteq RowsOf(g)
            BY Rows
          <6>4. Holds(j, d.nodes[m])
            BY <3>3, <3>4, <3>6, <6>1, <6>2, <6>3 DEF Arrived
          <6> QED
            BY <2>12, <2>15, <6>4 DEF Holds
        <5> QED
          BY <5>1, <5>2
      <4>3. b.ok => Arrived(d, n)'
        BY <1>1, <2>13, <3>3, <3>4, <3>6, <4>1, <4>2 DEF Arrived
      <4> QED
        BY <1>3, <2>10, <2>17, <3>2, <4>3
    <3> QED
      BY <3>5, <3>6
  <2> QED
    BY <1>2, <1>3, <1>5, <2>7, <2>9, <2>10, <2>16, <2>17, WritesIs, WriteKeeps
<1> QED
  BY <1>3, <1>4, <1>5 DEF AddText

LEMMA InsertRowKeeps == ASSUME TranslationInv, NEW s \in Session, InsertRow(s) PROVE TranslationInv'
PROOF
<1>1. In(s, "insert") /\ nextId \in RowId /\ UNCHANGED <<text, nextText>>
  BY DEF InsertRow
<1>2. /\ call[s] # Idle /\ call[s] \in Call /\ call[s].guid \in Guid /\ call[s].pc = "insert"
      /\ Based /\ TypeOK /\ IdsGivenOut /\ StepFits(call[s])
      /\ call[s].op = "import" => ImportFits(call[s])
  BY <1>1, InCall DEF Based
<1>3. PICK b \in Call, g \in Guid : b = call[s] /\ g = b.guid
  BY <1>2
<1>4. CASE Return(s, FALSE) /\ UNCHANGED <<row, nextId, entry>> /\ Refused(s)
  <2>1. UNCHANGED tables
    BY <1>1, <1>4 DEF tables
  <2> QED
    BY <1>1, <1>4, <2>1, RefusedReturns
<1>5. PICK stage \in {"live", "deleted"} : stage = IF b.doc # NoRow /\ b.doc.deleted THEN "deleted" ELSE "live"
  OBVIOUS
<1>6. CASE /\ row' = [row EXCEPT ![nextId] = RecordColumns(b, stage)]
           /\ nextId' = nextId + 1 /\ entry' = [entry EXCEPT ![g] = "live"]
           /\ To(s, [b EXCEPT !.pc = "add", !.id = nextId]) /\ Writes(s, g)
  <2>1. PICK j \in RowId : j = nextId
    BY <1>1
  <2>2. j \in Nat /\ j <= MaxRow /\ nextId' = j + 1
    BY <1>6, <2>1, TranslationAssumption DEF RowId
  <2>3. row[j] = NoRow /\ TextsOf(j) = {}
    <3>1. ~ (j < nextId)
      BY <2>1, <2>2
    <3>2. row[j] = NoRow
      BY <1>2, <3>1 DEF IdsGivenOut
    <3> QED
      BY <1>2, <3>2 DEF IdsGivenOut, TextsOf
  <2>4. row'[j] \in Record /\ row'[j].guid = g /\ row'[j].name = b.name /\ row'[j].stage = stage /\ row'[j] # NoRow
    <3>1. b.name \in Names /\ stage \in Stage
      BY <1>5 DEF Call, Stage
    <3>2. row'[j] = [guid |-> g, name |-> b.name, stage |-> stage]
      BY <1>2, <1>3, <1>6, <2>1 DEF TypeOK, RecordColumns
    <3> QED
      BY <3>1, <3>2, TranslationAssumption DEF Record
  <2>5. \A i \in RowId : i # j => row'[i] = row[i]
    BY <1>2, <1>6, <2>1 DEF TypeOK
  <2>6. row' \in [RowId -> Record \cup {NoRow}]
    BY <1>2, <1>6, <2>1, <2>4 DEF TypeOK
  <2>7. entry' \in [Guid -> Stage \cup {"none"}] /\ entry'[g] = "live" /\ \A h \in Guid : h # g => entry'[h] = entry[h]
    BY <1>2, <1>6 DEF TypeOK, Stage
  <2>8. RowsChange(g)
    BY <2>1, <2>2, <2>3, <2>4, <2>5, <2>7 DEF RowsChange
  <2>9. nextId' \in 1..(MaxRow + 1)
    BY <2>1, <2>2, <1>2, TranslationAssumption
  <2>10. TextsChange(g) /\ TablesTyped /\ \A i : TextsOf(i)' = TextsOf(i)
    BY <1>1, <1>2, <2>6, <2>7, <2>9, SameTexts, TextsSame DEF TablesTyped
  <2>11. PICK c : c = WithId(b, "add", j)
    OBVIOUS
  <2>12. c \in Call /\ c.pc = "add" /\ c.id = j /\ SameImport(c, b) /\ SameWrite(c, b)
    <3>1. "add" \in Steps /\ j \in RowId \cup {0}
      BY StepNames
    <3> QED
      BY <2>11, <3>1, IdChanged
  <2>13. call' = [call EXCEPT ![s] = c] /\ call'[s] = c /\ c # Idle
    BY <1>2, <1>6, <2>1, <2>11, <2>12, TranslationAssumption DEF TypeOK, To, WithId
  <2>14. AllOf(g)' = AllOf(g) \cup {j} /\ RowsOf(g)' = RowsOf(g) \cup {j}
    BY <1>5, <2>3, <2>4, <2>5 DEF AllOf, RowsOf
  <2>15. StepFits(call[s])' /\ IdsFit(call[s])'
    <3>1. j \in AllOf(call[s].guid)'
      BY <1>3, <2>4, <2>12, <2>13 DEF AllOf, SameImport
    <3> QED
      BY <1>2, <1>3, <2>12, <2>13, <3>1 DEF StepFits, IdsFit, SameImport, SameWrite, Importing
  <2>16. b.op = "import" => ImportFits(call[s])'
    BY <1>2, <1>3, <2>12, <2>13 DEF ImportFits, SameImport, SameWrite, Importing, AfterNodes
  <2>17. Moves(s)
    BY <1>3, <2>12, <2>13, <2>15, <2>16 DEF Moves, CallFits, SameImport, SameWrite
  <2>18. ASSUME AlmostWhole(g), Alone(s, g), Knows(call[s])
         PROVE  RowsOf(g) = {} /\ \A i \in AllOf(g) : TextsOf(i) = {}
    <3>1. \A i, pc : pc \in {"add", "texts"} => ~Pending(g, i, pc)
      BY <1>2, <2>18, OnlyWriter
    <3>2. \A i \in RowsOf(g) : TextsOf(i) = {}
      BY <1>2, <1>3, <2>18 DEF Knows, KnowsRows
    <3> QED
      BY <2>18, <3>1, <3>2 DEF AlmostWhole
  <2>19. ASSUME AlmostWhole(g), Alone(s, g), Knows(call[s]), s \notin late PROVE AlmostWhole(g)'
    <3>1. RowsOf(g)' = {j} /\ \A i \in AllOf(g)' : TextsOf(i)' = {}
      BY <2>3, <2>10, <2>14, <2>18, <2>19
    <3>2. s \notin late'
      BY <1>6, <2>19, WritesIs
    <3>3. Pending(g, j, "add")'
      BY <1>3, <2>12, <2>13, <3>2 DEF Pending, On, SameImport
    <3> QED
      BY <2>7, <3>1, <3>3 DEF AlmostWhole
  <2>20. ASSUME AlmostWhole(g), Alone(s, g), Knows(call[s]) PROVE Knows(call[s])'
    <3>1. RowsOf(g) = {} /\ RowsOf(g)' = {j} /\ TextsOf(j)' = {}
      BY <2>3, <2>10, <2>14, <2>18, <2>20
    <3>2. RowsOf(call[s].guid)' = {j} /\ LiveOf(call[s].guid)' = {i \in {j} : row'[i].stage = "live"}
      BY <1>3, <2>12, <2>13, <3>1 DEF SameImport, LiveOf
    <3>3. KnowsRows(call[s])' /\ KnowsTexts(call[s])'
      BY <2>12, <2>13, <3>1, <3>2 DEF KnowsRows, KnowsTexts
    <3>4. ASSUME b.op = "import" PROVE KnowsImport(call[s])'
      <4>1. KnowsImport(b) /\ ImportFits(b)
        BY <1>2, <1>3, <2>20, <3>4 DEF Knows
      <4>2. PICK d, n : d \in Docs /\ d = b.doc /\ n = Nodes(b)
        BY <4>1 DEF ImportFits
      <4>3. d = call'[s].doc /\ n = Nodes(call[s])' /\ d.guid = g /\ d # NoRow
        BY <1>2, <1>3, <2>12, <2>13, <4>1, <4>2, TranslationAssumption DEF SameImport, Nodes, AfterNodes, ImportFits
      <4>4. b.ok /\ n > 0 => Arrived(d, n)'
        <5>1. CASE d.deleted
          <6>1. LiveOf(g)' = {}
            BY <1>3, <1>5, <2>4, <2>12, <2>13, <3>2, <4>2, <4>3, <5>1 DEF SameImport
          <6> QED
            BY <4>3, <5>1, <6>1 DEF Arrived
        <5>2. CASE ~d.deleted
          <6>1. ~ (b.ok /\ n > 0)
            BY <3>1, <4>1, <4>2, <4>3, <5>2 DEF KnowsImport, Arrived, LiveOf
          <6> QED
            BY <6>1
        <5> QED
          BY <5>1, <5>2
      <4>5. call'[s].ok /\ Nodes(call[s])' > 0 => Arrived(call[s].doc, Nodes(call[s]))'
        BY <2>12, <2>13, <4>3, <4>4 DEF SameImport
      <4>6. row'[j].stage = (IF call'[s].doc.deleted THEN "deleted" ELSE "live") /\ row'[j].name = call'[s].name
        BY <1>5, <2>4, <2>12, <2>13, <4>2, <4>3 DEF SameImport, SameWrite
      <4> QED
        BY <2>12, <2>13, <3>2, <4>5, <4>6 DEF KnowsImport
    <3> QED
      BY <2>12, <2>13, <3>3, <3>4 DEF Knows, SameWrite
  <2> QED
    BY <1>2, <1>3, <1>6, <2>8, <2>10, <2>17, <2>19, <2>20, WritesIs, WriteKeeps
<1> QED
  BY <1>3, <1>4, <1>5, <1>6 DEF InsertRow

LEMMA MarkKeeps == ASSUME TranslationInv, NEW s \in Session, Mark(s) PROVE TranslationInv'
PROOF
<1>1. In(s, "mark") /\ UNCHANGED <<text, nextId, nextText>>
  BY DEF Mark
<1>2. /\ call[s] # Idle /\ call[s] \in Call /\ call[s].guid \in Guid /\ call[s].pc = "mark"
      /\ Based /\ TypeOK /\ IdsGivenOut /\ StepFits(call[s])
      /\ call[s].op = "import" => ImportFits(call[s])
  BY <1>1, InCall DEF Based
<1>3. PICK b \in Call, g \in Guid : b = call[s] /\ g = b.guid
  BY <1>2
<1>4. CASE UNCHANGED <<row, entry>> /\ Refused(s) /\ Return(s, FALSE)
  <2>1. UNCHANGED tables
    BY <1>1, <1>4 DEF tables
  <2> QED
    BY <1>1, <1>4, <2>1, RefusedReturns
<1>5. CASE Staged(g, "deleted") /\ Writes(s, g) /\ Return(s, TRUE)
  <2>1. /\ row' \in [RowId -> Record \cup {NoRow}] /\ RowsChange(g)
        /\ nextId' \in 1..(MaxRow + 1) /\ entry' \in [Guid -> Stage \cup {"none"}]
        /\ AllOf(g)' = AllOf(g) /\ RowsOf(g)' = RowsOf(g) /\ LiveOf(g)' = {}
    BY <1>1, <1>2, <1>5, StagedIs DEF Stage
  <2>2. TextsChange(g) /\ TablesTyped /\ (\A i : TextsOf(i)' = TextsOf(i)) /\ text' = text
    BY <1>1, <1>2, <2>1, SameTexts, TextsSame DEF TablesTyped
  <2>3. /\ Moves(s) /\ (call[s].op # "import" => call'[s] = Idle)
        /\ \A d, n : call[s].op = "import" /\ d = call[s].doc /\ n = call[s].at
                      /\ (call[s].ok => Arrived(d, n)') => Knows(call[s])'
    BY <1>2, <1>5, ReturnMoves
  <2>4. ASSUME AlmostWhole(g), Alone(s, g) PROVE AlmostWhole(g)'
    <3>1. \A i, pc : pc \in {"add", "texts"} => ~Pending(g, i, pc)
      BY <1>2, <2>4, OnlyWriter
    <3> QED
      BY <2>1, <2>2, <2>4, <3>1 DEF AlmostWhole
  <2>5. call[s].op = "import" => Knows(call[s])'
    <3>1. SUFFICES ASSUME call[s].op = "import" PROVE Knows(call[s])'
      OBVIOUS
    <3>2. PICK d, n : d \in Docs /\ d = b.doc /\ n = b.at /\ d.deleted /\ d.guid = g
      BY <1>2, <1>3, <3>1 DEF ImportFits
    <3>3. Arrived(d, n)'
      BY <2>1, <3>2 DEF Arrived
    <3> QED
      BY <1>3, <2>3, <3>1, <3>2, <3>3
  <2> QED
    BY <1>2, <1>3, <1>5, <2>1, <2>2, <2>3, <2>4, <2>5, WritesIs, WriteKeeps
<1> QED
  BY <1>3, <1>4, <1>5 DEF Mark

LEMMA ImportUndeleteKeeps == ASSUME TranslationInv, NEW s \in Session, ImportUndelete(s) PROVE TranslationInv'
PROOF
<1>1. In(s, "undelete") /\ UNCHANGED <<text, nextId, nextText>>
  BY DEF ImportUndelete
<1>2. /\ call[s] # Idle /\ call[s] \in Call /\ call[s].guid \in Guid /\ call[s].pc = "undelete"
      /\ Based /\ TypeOK /\ IdsGivenOut /\ StepFits(call[s])
      /\ call[s].op = "import" => ImportFits(call[s])
  BY <1>1, InCall DEF Based
<1>3. PICK b \in Call, g \in Guid : b = call[s] /\ g = b.guid
  BY <1>2
<1>4. b.op = "import" /\ ImportFits(b)
  BY <1>2, <1>3 DEF StepFits, Importing
<1>5. Staged(g, "live") /\ Writes(s, g) /\ Go(s, "name")
  BY <1>3 DEF ImportUndelete
<1>6. /\ row' \in [RowId -> Record \cup {NoRow}] /\ RowsChange(g)
      /\ nextId' \in 1..(MaxRow + 1) /\ entry' \in [Guid -> Stage \cup {"none"}]
      /\ AllOf(g)' = AllOf(g) /\ RowsOf(g)' = RowsOf(g) /\ LiveOf(g)' = RowsOf(g)
      /\ \A i \in RowsOf(g) : row'[i].name = row[i].name
      /\ entry[g] # "none" => entry'[g] = "live"
  BY <1>1, <1>2, <1>5, StagedIs DEF Stage
<1>7. TextsChange(g) /\ TablesTyped /\ (\A i : TextsOf(i)' = TextsOf(i)) /\ text' = text
  BY <1>1, <1>2, <1>6, SameTexts, TextsSame DEF TablesTyped
<1>8. PICK c : c = WithPc(b, "name")
  OBVIOUS
<1>9. c \in Call /\ c.pc = "name" /\ SameImport(c, b) /\ SameWrite(c, b) /\ c.id = b.id
  BY <1>8, PcChanged, StepNames
<1>10. call' = [call EXCEPT ![s] = c] /\ call'[s] = c /\ c # Idle
  BY <1>2, <1>3, <1>5, <1>8, <1>9, GoIs, TranslationAssumption DEF TypeOK
<1>11. StepFits(call[s])' /\ IdsFit(call[s])'
  BY <1>2, <1>3, <1>4, <1>9, <1>10 DEF StepFits, IdsFit, SameImport, SameWrite, Importing
<1>12. ImportFits(call[s])'
  BY <1>2, <1>3, <1>4, <1>9, <1>10 DEF ImportFits, SameImport, SameWrite, Importing, AfterNodes
<1>13. Moves(s)
  BY <1>3, <1>9, <1>10, <1>11, <1>12 DEF Moves, CallFits, SameImport, SameWrite
<1>14. \A i \in RowsOf(g) : entry[g] # "none" /\ i # 0
  BY <1>2, Ids DEF RowsOf, IdsGivenOut
<1>15. ASSUME AlmostWhole(g), Alone(s, g) PROVE AlmostWhole(g)'
  <2>1. \A i, pc : pc \in {"add", "texts"} => ~Pending(g, i, pc)
    BY <1>2, <1>15, OnlyWriter
  <2> QED
    BY <1>6, <1>7, <1>14, <1>15, <2>1 DEF AlmostWhole
<1>16. ASSUME Knows(call[s]) PROVE Knows(call[s])'
  <2>1. KnowsImport(b) /\ b.id \in RowsOf(g) /\ ~b.doc.deleted
    BY <1>2, <1>3, <1>4, <1>16 DEF Knows, KnowsRows, ImportFits
  <2>2. KnowsRows(call[s])' /\ KnowsTexts(call[s])'
    BY <1>9, <1>10, <1>14, <2>1 DEF KnowsRows, KnowsTexts
  <2>3. PICK d, n : d \in Docs /\ d = b.doc /\ n = Nodes(b)
    BY <1>4 DEF ImportFits
  <2>4. d = call'[s].doc /\ n = Nodes(call[s])' /\ d.guid = g
    BY <1>2, <1>3, <1>4, <1>9, <1>10, <2>3 DEF SameImport, Nodes, AfterNodes, ImportFits
  <2>5. Arrived(d, n) => Arrived(d, n)'
    <3>1. LiveOf(g) \subseteq RowsOf(g)
      BY Rows
    <3>2. \A i, m : Holds(i, m)' <=> Holds(i, m)
      BY <1>7 DEF Holds
    <3> QED
      BY <1>6, <2>1, <2>3, <2>4, <3>1, <3>2 DEF Arrived
  <2>6. call'[s].ok /\ Nodes(call[s])' > 0 => Arrived(call[s].doc, Nodes(call[s]))'
    BY <1>9, <1>10, <2>1, <2>3, <2>4, <2>5 DEF KnowsImport, SameImport
  <2>7. call'[s].id \in LiveOf(call[s].guid)'
    BY <1>3, <1>6, <1>9, <1>10, <2>1 DEF SameImport
  <2>8. KnowsImport(call[s])'
    BY <1>9, <1>10, <2>6, <2>7 DEF KnowsImport
  <2> QED
    BY <2>2, <2>8 DEF Knows
<1> QED
  BY <1>2, <1>3, <1>5, <1>6, <1>7, <1>13, <1>15, <1>16, WritesIs, WriteKeeps

(* Texts that are deleted. *)
LEMMA WithoutIs ==
  ASSUME TypeOK, NEW g \in Guid, NEW j \in AllOf(g), NEW doomed \in SUBSET TextsOf(j),
         text' = Without(doomed), nextText' = nextText
  PROVE  /\ text' \in [TextId -> Text \cup {NoRow}] /\ nextText' \in 1..(MaxText + 1) /\ TextsChange(g)
         /\ \A i : TextsOf(i)' = TextsOf(i) \ doomed
         /\ \A i : i # j => TextsOf(i)' = TextsOf(i)
         /\ \A i : \A k \in TextsOf(i)' : text'[k] = text[k]
PROOF
<1>1. \A k \in TextId : text'[k] = IF k \in doomed THEN NoRow ELSE text[k]
  BY DEF Without
<1>2. text' \in [TextId -> Text \cup {NoRow}]
  BY <1>1 DEF TypeOK, Without
<1>3. nextText \in Nat
  BY DEF TypeOK
<1>4. TextsChange(g)
  BY <1>1, <1>3 DEF TextsChange, TextsOf
<1> QED
  BY <1>1, <1>2, <1>4 DEF TextsOf, TypeOK

LEMMA CutKeeps == ASSUME TranslationInv, NEW s \in Session, Cut(s) PROVE TranslationInv'
PROOF
<1>1. In(s, "cut") /\ UNCHANGED <<row, nextId, nextText, entry>> /\ Return(s, TRUE)
  BY DEF Cut
<1>2. /\ call[s] # Idle /\ call[s] \in Call /\ call[s].guid \in Guid /\ call[s].pc = "cut"
      /\ Based /\ TypeOK /\ StepFits(call[s]) /\ IdsFit(call[s])
      /\ call[s].op = "import" => ImportFits(call[s])
  BY <1>1, InCall
<1>3. PICK b \in Call, g \in Guid : b = call[s] /\ g = b.guid
  BY <1>2
<1>4. CASE UNCHANGED text /\ Refused(s)
  <2>1. UNCHANGED tables
    BY <1>1, <1>4 DEF tables
  <2> QED
    BY <1>1, <1>4, <2>1, RefusedReturns
<1>5. CASE text' = Without(InLang(b.id, b.l)) /\ Writes(s, g)
  <2>1. PICK j \in AllOf(g) : j = b.id
    BY <1>2, <1>3 DEF IdsFit
  <2>2. PICK doomed \in SUBSET TextsOf(j) : doomed = InLang(j, b.l)
    BY DEF InLang
  <2>3. /\ text' \in [TextId -> Text \cup {NoRow}] /\ nextText' \in 1..(MaxText + 1) /\ TextsChange(g)
        /\ \A i : TextsOf(i)' = TextsOf(i) \ doomed
        /\ \A i : i # j => TextsOf(i)' = TextsOf(i)
        /\ \A i : \A k \in TextsOf(i)' : text'[k] = text[k]
    BY <1>1, <1>2, <1>5, <2>1, <2>2, WithoutIs
  <2>4. RowsChange(g) /\ TablesTyped
    BY <1>1, <1>2, <2>3, SameRows DEF TablesTyped
  <2>5. b.op = "delete"
    BY <1>2, <1>3 DEF StepFits, ImportFits, Importing, Call, Calls
  <2>6. Moves(s) /\ call'[s] = Idle
    BY <1>1, <1>2, <1>3, <2>5, ReturnMoves
  <2>7. RowsOf(g)' = RowsOf(g) /\ AllOf(g)' = AllOf(g) /\ LiveOf(g)' = LiveOf(g)
    BY <1>1 DEF RowsOf, AllOf, LiveOf
  <2>8. ASSUME AlmostWhole(g), Alone(s, g), Knows(call[s]) PROVE AlmostWhole(g)'
    <3>1. \A i, pc : pc \in {"add", "texts"} => ~Pending(g, i, pc)
      BY <1>2, <2>8, OnlyWriter
    <3>2. j \in RowsOf(g) /\ \E k \in TextsOf(j) : text[k].lang # b.l
      BY <1>2, <1>3, <2>1, <2>8 DEF Knows, KnowsRows, KnowsTexts
    <3>3. TextsOf(j)' # {}
      BY <2>2, <2>3, <3>2 DEF InLang
    <3> QED
      BY <1>1, <2>3, <2>7, <2>8, <3>1, <3>2, <3>3 DEF AlmostWhole
  <2> QED
    BY <1>2, <1>3, <1>5, <2>3, <2>4, <2>6, <2>8, WritesIs, WriteKeeps
<1> QED
  BY <1>3, <1>4, <1>5 DEF Cut
(* midgard_object_purge: the record goes first, whose texts are still to go. *)
Purging(c) == [c EXCEPT !.op = "purge", !.pc = "texts"]

LEMMA PurgingIs ==
  ASSUME NEW c \in Call
  PROVE  /\ Purging(c) \in Call /\ Purging(c).op = "purge" /\ Purging(c).pc = "texts"
         /\ SameImport(Purging(c), c) /\ Purging(c).id = c.id
PROOF
<1>1. Purging(c) \in Call
  BY DEF Purging, Call, Calls, Steps
<1> QED
  BY <1>1 DEF Purging, Call, SameImport

LEMMA PurgeKeeps == ASSUME TranslationInv, NEW s \in Session, Purge(s) PROVE TranslationInv'
PROOF
<1>1. In(s, "held") /\ UNCHANGED <<text, nextId, nextText>>
  BY DEF Purge
<1>2. /\ call[s] # Idle /\ call[s] \in Call /\ call[s].guid \in Guid /\ call[s].pc = "held"
      /\ Based /\ TypeOK /\ IdsGivenOut /\ StepFits(call[s]) /\ IdsFit(call[s])
  BY <1>1, InCall DEF Based
<1>3. PICK b \in Call, g \in Guid : b = call[s] /\ g = b.guid
  BY <1>2
<1>4. CASE To(s, Idle) /\ UNCHANGED <<row, entry, late, torn, faults>>
  <2>1. UNCHANGED tables /\ call' = [call EXCEPT ![s] = Idle] /\ late' = late /\ torn' = torn
    BY <1>1, <1>4 DEF tables, To
  <2>2. PICK c \in Call \cup {Idle} : c = Idle
    OBVIOUS
  <2> QED
    BY <1>2, <1>3, <2>1, <2>2, QuietKeeps
<1>5. PICK c : c = Purging(b)
  OBVIOUS
<1>6. c \in Call /\ c.op = "purge" /\ c.pc = "texts" /\ SameImport(c, b) /\ c.id = b.id /\ c # Idle
  BY <1>5, PurgingIs, TranslationAssumption
<1>7. ASSUME To(s, Purging(b)), RowsChange(g) PROVE Moves(s) /\ call'[s] = c
  <2>1. call' = [call EXCEPT ![s] = c] /\ call'[s] = c
    BY <1>2, <1>5, <1>7 DEF To, TypeOK
  <2>2. StepFits(call[s])' /\ call'[s].op # "import"
    BY <1>2, <1>3, <1>6, <2>1 DEF StepFits, SameImport, Importing
  <2>3. AllOf(g) \subseteq AllOf(g)' /\ call'[s].guid = g /\ b.id \in AllOf(g)
    BY <1>2, <1>3, <1>6, <1>7, <2>1 DEF AllOf, RowsChange, SameImport, IdsFit
  <2>4. IdsFit(call[s])'
    BY <1>3, <1>6, <2>1, <2>3 DEF IdsFit
  <2> QED
    BY <1>3, <1>6, <2>1, <2>2, <2>3, <2>4 DEF Moves, CallFits
<1>8. CASE Staged(g, "purged") /\ Writes(s, g) /\ To(s, Purging(b))
  <2>1. /\ row' \in [RowId -> Record \cup {NoRow}] /\ RowsChange(g)
        /\ nextId' \in 1..(MaxRow + 1) /\ entry' \in [Guid -> Stage \cup {"none"}]
        /\ AllOf(g)' = AllOf(g) /\ RowsOf(g)' = {} /\ LiveOf(g)' = {}
    BY <1>1, <1>2, <1>8, StagedIs DEF Stage
  <2>2. TextsChange(g) /\ TablesTyped /\ (\A i : TextsOf(i)' = TextsOf(i)) /\ text' = text
    BY <1>1, <1>2, <2>1, SameTexts, TextsSame DEF TablesTyped
  <2>3. Moves(s) /\ call'[s] = c
    BY <1>7, <1>8, <2>1
  <2>4. ASSUME s \notin late, AlmostWhole(g), Alone(s, g), Knows(call[s])
        PROVE  AlmostWhole(g)' /\ Knows(call[s])'
    <3>1. \A i, pc : pc \in {"add", "texts"} => ~Pending(g, i, pc)
      BY <1>2, <2>4, OnlyWriter
    <3>2. b.id \in RowsOf(g)
      BY <1>2, <1>3, <2>4 DEF Knows, KnowsRows
    <3>3. \A i \in AllOf(g) : TextsOf(i) # {} => i = b.id
      BY <2>4, <3>1, <3>2 DEF AlmostWhole
    <3>4. s \notin late' /\ On(s, g)'
      BY <1>3, <1>6, <1>8, <2>3, <2>4 DEF Writes, On, SameImport
    <3>5. Pending(g, b.id, "texts")'
      BY <1>6, <2>3, <3>4 DEF Pending
    <3>6. AlmostWhole(g)'
      BY <2>1, <2>2, <2>4, <3>3, <3>5 DEF AlmostWhole
    <3>7. Knows(call[s])'
      BY <1>3, <1>6, <2>1, <2>3 DEF Knows, KnowsRows, KnowsTexts, SameImport
    <3> QED
      BY <3>6, <3>7
  <2> QED
    BY <1>2, <1>3, <1>8, <2>1, <2>2, <2>3, <2>4, WritesIs, WriteKeeps
<1>9. CASE UNCHANGED row /\ entry' = [entry EXCEPT ![g] = "purged"] /\ Refused(s) /\ To(s, Purging(b))
  <2>1. nextId \in Nat /\ nextId' = nextId /\ row' = row
    BY <1>1, <1>2, <1>9 DEF TypeOK
  <2>2. /\ entry' \in [Guid -> Stage \cup {"none"}] /\ entry'[g] = "purged"
        /\ \A h \in Guid \ {g} : entry'[h] = entry[h]
    BY <1>2, <1>9 DEF TypeOK, Stage
  <2>3. RowsChange(g)
    BY <2>1, <2>2 DEF RowsChange
  <2>4. TextsChange(g) /\ TablesTyped
    BY <1>1, <1>2, <2>1, <2>2, SameTexts DEF TablesTyped, TypeOK
  <2>5. Moves(s) /\ call'[s] = c
    BY <1>7, <1>9, <2>3
  <2>6. late' = late \cup {s} /\ torn' = torn
    BY <1>9 DEF Refused
  <2>7. Doomed(g)'
    BY <1>3, <1>6, <2>5, <2>6 DEF Doomed, On, SameImport
  <2>8. Sound(g)' /\ late' \subseteq Session /\ torn' \subseteq Guid /\ call'[s].guid = g
    BY <1>2, <1>3, <1>6, <2>5, <2>6, <2>7 DEF Sound, TypeOK, SameImport
  <2> QED
    BY <1>2, <1>3, <2>3, <2>4, <2>5, <2>6, <2>8, StepKeeps
<1> QED
  BY <1>3, <1>4, <1>8, <1>9 DEF Purge, Purging

(* ... then its texts. *)
LEMMA PurgeTextsKeeps == ASSUME TranslationInv, NEW s \in Session, PurgeTexts(s) PROVE TranslationInv'
PROOF
<1>1. In(s, "texts") /\ UNCHANGED <<row, nextId, nextText, entry>> /\ Return(s, TRUE)
  BY DEF PurgeTexts
<1>2. /\ call[s] # Idle /\ call[s] \in Call /\ call[s].guid \in Guid /\ call[s].pc = "texts"
      /\ Based /\ TypeOK /\ StepFits(call[s]) /\ IdsFit(call[s])
  BY <1>1, InCall
<1>3. PICK b \in Call, g \in Guid : b = call[s] /\ g = b.guid
  BY <1>2
<1>4. CASE text' = text /\ late' = late /\ torn' = torn \cup {g}
  <2>1. UNCHANGED tables
    BY <1>1, <1>4 DEF tables
  <2> QED
    BY <1>1, <1>3, <1>4, <2>1, TornReturns
<1>5. CASE text' = Without(TextsOf(b.id)) /\ Writes(s, g)
  <2>1. PICK j \in AllOf(g) : j = b.id
    BY <1>2, <1>3 DEF IdsFit
  <2>2. PICK doomed \in SUBSET TextsOf(j) : doomed = TextsOf(j)
    OBVIOUS
  <2>3. /\ text' \in [TextId -> Text \cup {NoRow}] /\ nextText' \in 1..(MaxText + 1) /\ TextsChange(g)
        /\ \A i : TextsOf(i)' = TextsOf(i) \ doomed
        /\ \A i : i # j => TextsOf(i)' = TextsOf(i)
        /\ \A i : \A k \in TextsOf(i)' : text'[k] = text[k]
    BY <1>1, <1>2, <1>5, <2>1, <2>2, WithoutIs
  <2>4. RowsChange(g) /\ TablesTyped
    BY <1>1, <1>2, <2>3, SameRows DEF TablesTyped
  <2>5. Moves(s) /\ call'[s] = Idle
    BY <1>1, <1>2, ReturnMoves DEF StepFits
  <2>6. RowsOf(g)' = RowsOf(g) /\ AllOf(g)' = AllOf(g) /\ LiveOf(g)' = LiveOf(g)
    BY <1>1 DEF RowsOf, AllOf, LiveOf
  <2>7. ASSUME AlmostWhole(g), Alone(s, g), Knows(call[s]) PROVE AlmostWhole(g)'
    <3>1. \A i, pc : pc \in {"add", "texts"} /\ Pending(g, i, pc) => i = j /\ pc = "texts"
      BY <1>2, <1>3, <2>1, <2>7, OnlyWriter
    <3>2. RowsOf(g) = {}
      BY <1>2, <1>3, <2>7 DEF Knows, KnowsRows
    <3>3. \A i \in AllOf(g) : TextsOf(i)' = {}
      BY <2>2, <2>3, <2>7, <3>1, <3>2 DEF AlmostWhole
    <3> QED
      BY <1>1, <2>6, <2>7, <3>2, <3>3 DEF AlmostWhole
  <2> QED
    BY <1>2, <1>3, <1>5, <2>3, <2>4, <2>5, <2>7, WritesIs, WriteKeeps
<1> QED
  BY <1>3, <1>4, <1>5 DEF PurgeTexts

(* The process dies. *)
LEMMA CrashKeeps == ASSUME TranslationInv, NEW s \in Session, Crash(s) PROVE TranslationInv'
PROOF
<1>1. /\ call[s] # Idle /\ call' = [call EXCEPT ![s] = Idle] /\ UNCHANGED tables /\ late' = late
      /\ torn' = torn \cup {call[s].guid}
  BY DEF Crash, To
<1>2. PICK g \in Guid, c \in Call \cup {Idle} : g = call[s].guid /\ c = Idle
  BY <1>1, CallIs DEF TranslationInv, Based, Call
<1> QED
  BY <1>1, <1>2, TearKeeps

(* midgard_object_undelete: everybody in a call on the object is overtaken. *)
LEMMA UndeleteKeeps ==
  ASSUME TranslationInv, NEW s \in Session, NEW g \in Guid, Undelete(s, g) PROVE TranslationInv'
PROOF
<1>1. /\ call[s] = Idle /\ Staged(g, "live") /\ UNCHANGED <<text, nextId, nextText, call, torn>>
      /\ \E i \in RowsOf(g) : row[i].stage = "deleted"
      /\ late' = late \cup {t \in Session : call[t] # Idle /\ call[t].guid = g}
  BY DEF Undelete
<1>2. Based /\ TypeOK /\ IdsGivenOut /\ Sound(g)
  BY DEF TranslationInv, Based
<1>3. /\ row' \in [RowId -> Record \cup {NoRow}] /\ RowsChange(g)
      /\ nextId' \in 1..(MaxRow + 1) /\ entry' \in [Guid -> Stage \cup {"none"}]
      /\ AllOf(g)' = AllOf(g) /\ RowsOf(g)' = RowsOf(g)
      /\ entry[g] # "none" => entry'[g] = "live"
  BY <1>1, <1>2, StagedIs DEF Stage
<1>4. TextsChange(g) /\ TablesTyped /\ (\A i : TextsOf(i)' = TextsOf(i)) /\ text' = text
  BY <1>1, <1>2, <1>3, SameTexts, TextsSame DEF TablesTyped
<1>5. Moves(s) /\ call'[s] = Idle
  BY <1>1, <1>2 DEF Moves, TypeOK
<1>6. entry'[g] = "live"
  BY <1>1, <1>2, <1>3 DEF RowsOf, IdsGivenOut
<1>7. \A t \in Session : On(t, g) => t \in late'
  BY <1>1 DEF On
<1>8. Sound(g)'
  <2>1. CASE \E t \in Session : On(t, g) /\ call[t].pc \in {"add", "texts"}
    <3>1. Doomed(g)'
      BY <1>1, <1>7, <2>1 DEF Doomed, On
    <3> QED
      BY <3>1 DEF Sound
  <2>2. CASE g \in torn
    BY <1>1, <2>2 DEF Sound
  <2>3. CASE /\ ~ \E t \in Session : On(t, g) /\ call[t].pc \in {"add", "texts"}
             /\ g \notin torn
    <3>1. AlmostWhole(g) /\ \A i, pc : pc \in {"add", "texts"} => ~Pending(g, i, pc)
      BY <1>2, <2>3 DEF Sound, Doomed, Pending, TypeOK
    <3>2. AlmostWhole(g)'
      BY <1>3, <1>4, <1>6, <3>1 DEF AlmostWhole
    <3>3. \A t \in Session \ late' : ~On(t, g)'
      BY <1>1, <1>7 DEF On
    <3> QED
      BY <3>2, <3>3 DEF Sound
  <2> QED
    BY <2>1, <2>2, <2>3
<1>9. late' \subseteq Session /\ torn' \subseteq Guid
  BY <1>1, <1>2 DEF TypeOK
<1>10. \A t \in Session \ {s} : ~On(t, g) => (t \in late <=> t \in late')
  BY <1>1 DEF On
<1> QED
  BY <1>1, <1>2, <1>3, <1>4, <1>5, <1>8, <1>9, <1>10, StepKeeps
(* What a document does not have is removed, a language at a time. *)
LEMMA TrimKeeps == ASSUME TranslationInv, NEW s \in Session, Trim(s) PROVE TranslationInv'
PROOF
<1>1. In(s, "trim") /\ UNCHANGED <<row, nextId, nextText, entry>>
  BY DEF Trim
<1>2. /\ call[s] # Idle /\ call[s] \in Call /\ call[s].guid \in Guid /\ call[s].pc = "trim"
      /\ Based /\ TypeOK /\ StepFits(call[s]) /\ IdsFit(call[s])
      /\ call[s].op = "import" => ImportFits(call[s])
  BY <1>1, InCall
<1>3. PICK b \in Call, g \in Guid : b = call[s] /\ g = b.guid
  BY <1>2
<1>4. b.op = "import" /\ ImportFits(b)
  BY <1>2, <1>3 DEF StepFits, Importing
<1>5. PICK l \in b.trim : l = Min(b.trim)
  <2>1. b.trim \in SUBSET Nat
    BY TranslationAssumption DEF Call
  <2>2. b.trim # {}
    BY <1>2, <1>3, <1>4 DEF ImportFits
  <2> QED
    BY <2>1, <2>2, FirstIsThere
<1>6. PICK rest \in SUBSET Lang : rest = b.trim \ {l}
  BY DEF Call
<1>7. PICK p \in {"end", "trim"} : p = IF rest = {} THEN "end" ELSE "trim"
  OBVIOUS
<1>8. PICK c : c = WithTrim(b, p, rest)
  OBVIOUS
<1>9. c \in Call /\ c.pc = p /\ c.trim = rest /\ c.id = b.id /\ SameImport(c, b) /\ SameWrite(c, b)
  BY <1>7, <1>8, TrimChanged, StepNames
<1>10. /\ text' = Without(InLang(b.id, l)) /\ To(s, c)
       /\ late' = late \cup {t \in Session \ {s} : call[t] # Idle /\ call[t].guid = g}
       /\ torn' = IF s \in late \/ ~b.ok THEN torn \cup {g} ELSE torn
  BY <1>3, <1>5, <1>6, <1>7, <1>8 DEF Trim, WithTrim
<1>11. call' = [call EXCEPT ![s] = c] /\ call'[s] = c /\ c # Idle
  BY <1>2, <1>9, <1>10, TranslationAssumption DEF To, TypeOK
<1>12. PICK j \in AllOf(g) : j = b.id
  BY <1>2, <1>3 DEF IdsFit
<1>13. PICK doomed \in SUBSET TextsOf(j) : doomed = InLang(j, l)
  BY DEF InLang
<1>14. /\ text' \in [TextId -> Text \cup {NoRow}] /\ nextText' \in 1..(MaxText + 1) /\ TextsChange(g)
       /\ \A i : TextsOf(i)' = TextsOf(i) \ doomed
       /\ \A i : i # j => TextsOf(i)' = TextsOf(i)
       /\ \A i : \A k \in TextsOf(i)' : text'[k] = text[k]
  BY <1>1, <1>2, <1>10, <1>12, <1>13, WithoutIs
<1>15. RowsChange(g) /\ TablesTyped
  BY <1>1, <1>2, <1>14, SameRows DEF TablesTyped
<1>16. RowsOf(g)' = RowsOf(g) /\ AllOf(g)' = AllOf(g) /\ LiveOf(g)' = LiveOf(g) /\ row' = row
  BY <1>1 DEF RowsOf, AllOf, LiveOf
<1>17. Moves(s)
  <2>1. StepFits(call[s])' /\ IdsFit(call[s])'
    BY <1>2, <1>3, <1>4, <1>7, <1>9, <1>11, <1>12, <1>16 DEF StepFits, IdsFit, SameImport, SameWrite, Importing
  <2>2. ImportFits(call[s])'
    BY <1>2, <1>3, <1>4, <1>6, <1>7, <1>9, <1>11 DEF ImportFits, SameImport, SameWrite, Importing, AfterNodes
  <2> QED
    BY <1>3, <1>9, <1>11, <2>1, <2>2 DEF Moves, CallFits, SameImport
<1>18. ASSUME g \notin torn', AlmostWhole(g), Alone(s, g), Knows(call[s])
       PROVE  AlmostWhole(g)' /\ Knows(call[s])'
  <2>1. \A i, pc : pc \in {"add", "texts"} => ~Pending(g, i, pc)
    BY <1>2, <1>18, OnlyWriter
  <2>2. j \in LiveOf(g) /\ KnowsImport(b) /\ b.ok
    BY <1>2, <1>3, <1>4, <1>10, <1>12, <1>18 DEF Knows, KnowsRows
  <2>3. PICK d, n : d \in Docs /\ d = b.doc /\ n = b.at /\ d.guid = g /\ n \in 1..Len(d.nodes) /\ n = Len(d.nodes)
    BY <1>2, <1>3, <1>4 DEF ImportFits, AfterNodes
  <2>4. Nodes(b) = n /\ n > 0 /\ n \in Nat /\ Nodes(call[s])' = n /\ d = call'[s].doc
    BY <1>2, <1>3, <1>7, <1>9, <1>11, <2>3, DocIs DEF Nodes, AfterNodes, SameImport
  <2>5. Arrived(d, n)
    BY <2>2, <2>3, <2>4 DEF KnowsImport
  <2>6. ~d.deleted
    BY <2>2, <2>3, <2>5 DEF Arrived
  <2>7. row[j].name = d.name /\ \A m \in 1..n : Holds(j, d.nodes[m])
    BY <1>18, <2>2, <2>3, <2>5, <2>6, Rows DEF Arrived, AlmostWhole
  <2>8. l \notin DocLangs(d) /\ \A m \in 1..n : d.nodes[m].lang \in DocLangs(d)
    BY <1>2, <1>3, <1>4, <1>5, <2>3, DocIs DEF ImportFits
  <2>9. \A m \in 1..n : Holds(j, d.nodes[m])'
    <3>1. SUFFICES ASSUME NEW m \in 1..n PROVE Holds(j, d.nodes[m])'
      OBVIOUS
    <3>2. PICK k \in TextsOf(j) : text[k].lang = d.nodes[m].lang /\ text[k].body = d.nodes[m].body
      BY <2>7, <3>1 DEF Holds
    <3>3. k \in TextsOf(j)'
      BY <1>13, <1>14, <2>8, <3>1, <3>2 DEF InLang
    <3> QED
      BY <1>14, <3>2, <3>3 DEF Holds
  <2>10. Arrived(d, n)'
    BY <1>16, <2>2, <2>3, <2>6, <2>7, <2>9 DEF Arrived
  <2>11. TextsOf(j)' # {}
    BY <2>4, <2>9 DEF Holds
  <2>12. AlmostWhole(g)'
    BY <1>1, <1>14, <1>16, <1>18, <2>1, <2>2, <2>11, Rows DEF AlmostWhole
  <2>13. KnowsRows(call[s])' /\ KnowsTexts(call[s])'
    BY <1>3, <1>7, <1>9, <1>11, <1>12, <1>16, <2>2 DEF KnowsRows, KnowsTexts, SameImport
  <2>14. \A k \in TextsOf(j)' : text'[k].lang \in rest \cup DocLangs(d)
    <3>1. \A k \in TextsOf(j) : text[k].lang \in b.trim \cup DocLangs(d)
      BY <1>2, <1>3, <1>12, <2>2, <2>3 DEF KnowsImport
    <3>2. \A k \in TextsOf(j)' : k \in TextsOf(j) /\ text'[k] = text[k] /\ text[k].lang # l
      BY <1>13, <1>14 DEF InLang
    <3> QED
      BY <1>6, <3>1, <3>2
  <2>15. \A i \in LiveOf(g) : i = j
    BY <1>18, <2>2, Rows DEF AlmostWhole
  <2>16. Arrived(call[s].doc, Nodes(call[s]))'
    BY <2>4, <2>10
  <2>17. KnowsImport(call[s])'
    BY <1>3, <1>7, <1>9, <1>11, <1>12, <1>16, <2>3, <2>14, <2>15, <2>16 DEF KnowsImport, SameImport
  <2> QED
    BY <2>13, <2>12, <2>17 DEF Knows
<1>19. torn' \in {torn, torn \cup {g}} /\ (s \in late => g \in torn')
  BY <1>10
<1> QED
  BY <1>2, <1>3, <1>10, <1>14, <1>15, <1>17, <1>18, <1>19, WriteKeeps
-----------------------------------------------------------------------------
(* Everything session s can do. *)
Does(s) ==
  \/ \E l \in Spoken :
       \/ \E i \in RowId : Fetch(s, i, l)
       \/ \E g \in Guid, n \in Name, b \in Body : Create(s, g, n, b, l)
       \/ \E n \in Name, b \in Body : Update(s, n, b, l)
       \/ Delete(s, l)
       \/ \E d \in Docs : Import(s, d, l)
  \/ UpdateRow(s) \/ LookText(s) \/ LookRow(s) \/ WriteText(s) \/ AddText(s) \/ InsertRow(s)
  \/ Count(s) \/ Cut(s) \/ Mark(s)
  \/ Purge(s) \/ PurgeTexts(s) \/ Release(s)
  \/ \E g \in Guid : Undelete(s, g)
  \/ ImportLook(s) \/ ImportUndelete(s) \/ ImportName(s)
  \/ Find(s) \/ ListLangs(s) \/ Trim(s) \/ EndImport(s)
  \/ Crash(s)

LEMMA NextIs == Next => \E s \in Session : Does(s)
PROOF
  BY Zenon DEF Next, Does

LEMMA InitSound == Init => TranslationInv
PROOF
<1>1. SUFFICES ASSUME Init PROVE TranslationInv
  OBVIOUS
<1>2. /\ \A i \in RowId : row[i] = NoRow
      /\ \A k \in TextId : text[k] = NoRow
      /\ \A s \in Session : call[s] = Idle
  BY <1>1 DEF Init
<1>3. TypeOK
  BY <1>1, TranslationAssumption DEF Init, TypeOK
<1>4. Based
  BY <1>2, <1>3 DEF Based, IdsGivenOut, CallsFit
<1>5. \A g \in Guid : AllOf(g) = {} /\ RowsOf(g) = {} /\ LiveOf(g) = {}
  BY <1>2 DEF AllOf, RowsOf, LiveOf
<1>6. \A g \in Guid : AlmostWhole(g)
  BY <1>5 DEF AlmostWhole
<1>7. \A g \in Guid : Sound(g)
  BY <1>2, <1>6 DEF Sound, On
<1> QED
  BY <1>4, <1>7 DEF TranslationInv

LEMMA StutterKeeps == ASSUME TranslationInv, UNCHANGED vars PROVE TranslationInv'
PROOF
<1>1. UNCHANGED tables /\ call' = call /\ late' = late /\ torn' = torn
  BY DEF vars
<1>2. Based /\ TypeOK
  BY DEF TranslationInv, Based
<1>3. row' = row /\ text' = text /\ nextId' = nextId /\ nextText' = nextText /\ entry' = entry
  BY <1>1 DEF tables
<1>4. TypeOK' /\ IdsGivenOut'
  BY <1>1, <1>2, <1>3 DEF Based, TypeOK, IdsGivenOut
<1>5. \A g : AllOf(g)' = AllOf(g)
  BY <1>3 DEF AllOf
<1>6. CallsFit'
  BY <1>1, <1>2, <1>3, <1>5 DEF Based, CallsFit, CallFits, StepFits, IdsFit, ImportFits
<1>7. ASSUME NEW g \in Guid PROVE Sound(g)'
  <2>1. Untouched(g)
    BY <1>3, <1>5 DEF Untouched, TextsOf
  <2>2. Sound(g) /\ late \subseteq Session
    BY <1>2 DEF TranslationInv, TypeOK
  <2> QED
    BY <1>1, <1>2, <2>1, <2>2, SoundUntouched
<1> QED
  BY <1>4, <1>6, <1>7 DEF TranslationInv, Based

LEMMA NextKeeps == ASSUME TranslationInv, [Next]_vars PROVE TranslationInv'
PROOF
<1>1. CASE UNCHANGED vars
  BY <1>1, StutterKeeps
<1>2. CASE Next
  <2>1. PICK s \in Session : Does(s)
    BY <1>2, NextIs
  <2>2. CASE \E l \in Spoken :
               \/ \E i \in RowId : Fetch(s, i, l)
               \/ \E g \in Guid, n \in Name, b \in Body : Create(s, g, n, b, l)
               \/ \E n \in Name, b \in Body : Update(s, n, b, l)
               \/ Delete(s, l)
               \/ \E d \in Docs : Import(s, d, l)
    BY <2>2, FetchKeeps, CreateKeeps, UpdateKeeps, DeleteKeeps, ImportKeeps
  <2>3. CASE UpdateRow(s) \/ LookText(s) \/ LookRow(s) \/ WriteText(s) \/ AddText(s) \/ InsertRow(s)
    BY <2>3, UpdateRowKeeps, LookTextKeeps, LookRowKeeps, WriteTextKeeps, AddTextKeeps, InsertRowKeeps
  <2>4. CASE Count(s) \/ Cut(s) \/ Mark(s) \/ Purge(s) \/ PurgeTexts(s) \/ Release(s)
    BY <2>4, CountKeeps, CutKeeps, MarkKeeps, PurgeKeeps, PurgeTextsKeeps, ReleaseKeeps
  <2>5. CASE \E g \in Guid : Undelete(s, g)
    BY <2>5, UndeleteKeeps
  <2>6. CASE ImportLook(s) \/ ImportUndelete(s) \/ ImportName(s)
    BY <2>6, ImportLookKeeps, ImportUndeleteKeeps, ImportNameKeeps
  <2>7. CASE Find(s) \/ ListLangs(s) \/ Trim(s) \/ EndImport(s) \/ Crash(s)
    BY <2>7, FindKeeps, ListLangsKeeps, TrimKeeps, EndImportKeeps, CrashKeeps
  <2> QED
    BY <2>1, <2>2, <2>3, <2>4, <2>5, <2>6, <2>7 DEF Does
<1> QED
  BY <1>1, <1>2

(* The invariant holds in every reachable state: every object is torn, or
   about to be torn, or whole but for what is being put right, and who was not
   overtaken on it still knows how it is (types.c, midgard_replicator.c). *)
THEOREM TranslationInvHolds == Spec => []TranslationInv
PROOF
<1>1. Init => TranslationInv
  BY InitSound
<1>2. TranslationInv /\ [Next]_vars => TranslationInv'
  BY NextKeeps
<1> QED
  BY <1>1, <1>2, PTL DEF Spec
LEMMA AtMostOne == ASSUME NEW S, \A x, y \in S : x = y PROVE Cardinality(S) <= 1
PROOF
<1>1. CASE S = {}
  BY <1>1, FS_EmptySet
<1>2. CASE S # {}
  <2>1. PICK x : x \in S
    BY <1>2
  <2>2. S = {x}
    BY <2>1
  <2>3. Cardinality({x}) = 1
    BY FS_Singleton
  <2> QED
    BY <2>2, <2>3
<1> QED
  BY <1>1, <1>2

(* Nobody who could still spoil an object is left, but for those named. *)
LEMMA NobodyLeft ==
  ASSUME TranslationInv, NEW g \in Guid, g \notin torn, NEW others, ~Busy(g, others),
         \A s \in Session \cap others : On(s, g) => call[s].pc \notin {"add", "texts"}
  PROVE  /\ AlmostWhole(g) /\ \A i, pc : pc \in {"add", "texts"} => ~Pending(g, i, pc)
         /\ \A s \in Session \ late : On(s, g) => Knows(call[s])
PROOF
<1>1. ASSUME NEW s \in Session, On(s, g) PROVE call[s].pc \notin {"add", "texts"}
  BY <1>1 DEF Busy, On
<1>2. Sound(g) /\ late \subseteq Session
  BY DEF TranslationInv, Based, TypeOK
<1>3. ~Doomed(g) /\ \A i, pc : pc \in {"add", "texts"} => ~Pending(g, i, pc)
  BY <1>1, <1>2 DEF Doomed, Pending
<1> QED
  BY <1>2, <1>3 DEF Sound

LEMMA WholeFromInv == TranslationInv => ObjectsAreWhole
PROOF
<1>1. SUFFICES ASSUME TranslationInv, NEW g \in Guid \ torn, ~Busy(g, {})
               PROVE  /\ Cardinality(RowsOf(g)) <= 1
                      /\ \A i \in RowsOf(g) : TextsOf(i) # {} /\ \A l \in Lang : Cardinality(InLang(i, l)) <= 1
                      /\ \A i \in RowId : row[i] # NoRow /\ row[i].guid = g /\ row[i].stage = "purged"
                           => TextsOf(i) = {}
  BY DEF ObjectsAreWhole
<1>2. AlmostWhole(g) /\ \A i, pc : pc \in {"add", "texts"} => ~Pending(g, i, pc)
  BY <1>1, NobodyLeft
<1>3. RowsOf(g) \subseteq AllOf(g)
  BY Rows
<1>4. Cardinality(RowsOf(g)) <= 1
  BY <1>2, AtMostOne DEF AlmostWhole
<1>5. \A i \in RowsOf(g) : TextsOf(i) # {}
  BY <1>2 DEF AlmostWhole
<1>6. ASSUME NEW i \in RowsOf(g), NEW l \in Lang PROVE Cardinality(InLang(i, l)) <= 1
  <2>1. \A k, m \in InLang(i, l) : k = m
    BY <1>2, <1>3 DEF AlmostWhole, InLang
  <2> QED
    BY <2>1, AtMostOne
<1>7. ASSUME NEW i \in RowId, row[i] # NoRow, row[i].guid = g, row[i].stage = "purged" PROVE TextsOf(i) = {}
  <2>1. i \in AllOf(g) \ RowsOf(g)
    BY <1>7 DEF AllOf, RowsOf
  <2> QED
    BY <1>2, <2>1 DEF AlmostWhole
<1> QED
  BY <1>4, <1>5, <1>6, <1>7

LEMMA ImportedFromInv == TranslationInv => ImportedIsWhole
PROOF
<1> DEFINE Here(i) == {[lang |-> text[k].lang, body |-> text[k].body] : k \in TextsOf(i)}
<1>1. SUFFICES ASSUME TranslationInv, NEW s \in Session, In(s, "end"), s \notin late,
                      call[s].guid \notin torn, ~Busy(call[s].guid, {s}), call[s].ok,
                      ~call[s].doc.deleted, call[s].conn = 0
               PROVE  \E i \in LiveOf(call[s].guid) :
                        /\ row[i].name = call[s].doc.name
                        /\ ToSet(call[s].doc.nodes) \subseteq Here(i)
                        /\ \A t \in Here(i) \ ToSet(call[s].doc.nodes) : t.lang = 0
  BY Zenon DEF ImportedIsWhole
<1>2. /\ call[s] # Idle /\ call[s] \in Call /\ call[s].guid \in Guid /\ call[s].pc = "end"
      /\ StepFits(call[s]) /\ (call[s].op = "import" => ImportFits(call[s])) /\ TypeOK
  BY <1>1, InCall
<1>3. call[s].op = "import" /\ ImportFits(call[s])
  BY <1>2 DEF StepFits, Importing
<1>4. PICK g \in Guid, d \in Docs : g = call[s].guid /\ d = call[s].doc /\ d.guid = g /\ call[s].at = Len(d.nodes)
  BY <1>2, <1>3 DEF ImportFits, AfterNodes
<1>5. AlmostWhole(g) /\ \A t \in Session \ late : On(t, g) => Knows(call[t])
  BY <1>1, <1>2, <1>4, NobodyLeft
<1>6. KnowsImport(call[s])
  BY <1>1, <1>2, <1>3, <1>4, <1>5 DEF On, Knows
<1>7. /\ Len(d.nodes) \in Nat \ {0}
      /\ \A m \in 1..Len(d.nodes) : d.nodes[m] \in [lang : Lang, body : DocBodies]
      /\ \A m \in 1..Len(d.nodes) : d.nodes[m] \in ToSet(d.nodes)
      /\ \A l \in DocLangs(d) \ {0} : \E m \in 1..Len(d.nodes) : d.nodes[m].lang = l
  BY DocIs
<1>8. Arrived(d, Len(d.nodes))
  BY <1>1, <1>2, <1>4, <1>6, <1>7 DEF KnowsImport, Nodes, AfterNodes
<1>9. PICK i \in LiveOf(g) : row[i].name = d.name /\ \A m \in 1..Len(d.nodes) : Holds(i, d.nodes[m])
  BY <1>1, <1>4, <1>8 DEF Arrived
<1>10. \A k \in TextsOf(i) : text[k].lang \in DocLangs(d)
  BY <1>1, <1>2, <1>4, <1>6, <1>9 DEF KnowsImport
<1>11. ASSUME NEW n \in ToSet(d.nodes) PROVE n \in Here(i)
  <2>1. PICK m \in 1..Len(d.nodes) : n = d.nodes[m]
    <3>1. d.nodes \in Seq([lang : Lang, body : DocBodies])
      BY TranslationAssumption
    <3>2. DOMAIN d.nodes = 1..Len(d.nodes)
      BY <3>1, Elements
    <3> QED
      BY <1>11, <3>2 DEF ToSet
  <2>2. PICK k \in TextsOf(i) : text[k].lang = n.lang /\ text[k].body = n.body
    BY <1>9, <2>1 DEF Holds
  <2>3. n \in [lang : Lang, body : DocBodies]
    BY <1>7, <2>1
  <2>4. n = [lang |-> text[k].lang, body |-> text[k].body]
    BY <2>2, <2>3
  <2> QED
    BY <2>4
<1>12. ASSUME NEW t \in Here(i), t.lang # 0 PROVE t \in ToSet(d.nodes)
  <2>1. PICK k \in TextsOf(i) : t = [lang |-> text[k].lang, body |-> text[k].body]
    BY <1>12
  <2>2. PICK m \in 1..Len(d.nodes) : d.nodes[m].lang = text[k].lang
    BY <1>7, <1>10, <1>12, <2>1
  <2>3. PICK j \in TextsOf(i) : text[j].lang = d.nodes[m].lang /\ text[j].body = d.nodes[m].body
    BY <1>9 DEF Holds
  <2>4. j = k
    BY <1>5, <1>9, <2>2, <2>3, Rows DEF AlmostWhole
  <2>5. t = d.nodes[m]
    BY <1>7, <2>1, <2>2, <2>3, <2>4
  <2> QED
    BY <1>7, <2>5
<1> QED
  BY <1>4, <1>9, <1>11, <1>12

(* An object nobody works on is whole - one record, with a text, not two of
   one language, no text without its record - unless a call wrote to it that
   had been overtaken, died or was refused a statement (_update_records,
   midgard_object_delete, midgard_object_purge in types.c). *)
THEOREM WholeHolds == Spec => []ObjectsAreWhole
PROOF
  BY TranslationInvHolds, WholeFromInv, PTL

(* At the end of an import that nobody disturbed, the object has exactly the
   languages and texts of the document (midgard_replicator_import_from_xml). *)
THEOREM ImportedHolds == Spec => []ImportedIsWhole
PROOF
  BY TranslationInvHolds, ImportedFromInv, PTL
(* Every step is one session's, and these are the ones that write texts. *)
LEMMA OneWrites ==
  ASSUME TranslationInv, NEW t \in Session, NEW s \in Session, Does(t)
  PROVE  /\ t # s => call'[s] = call[s]
         /\ text' = text \/ In(t, "cut") \/ In(t, "texts") \/ In(t, "trim") \/ WriteText(t) \/ AddText(t)
PROOF
<1>1. call \in [Session -> Call \cup {Idle}]
  BY DEF TranslationInv, Based, TypeOK
<1>2. \A c, pc, ok : To(t, c) \/ Go(t, pc) \/ Return(t, ok) \/ Begin(t, c) => (t # s => call'[s] = call[s])
  BY <1>1 DEF To, Go, Return, Begin
<1>3. CASE \E l \in Spoken :
             \/ \E i \in RowId : Fetch(t, i, l)
             \/ \E g \in Guid, n \in Name, b \in Body : Create(t, g, n, b, l)
             \/ \E n \in Name, b \in Body : Update(t, n, b, l)
             \/ Delete(t, l)
             \/ \E d \in Docs : Import(t, d, l)
  <2>1. PICK l \in Spoken :
             \/ \E i \in RowId : Fetch(t, i, l)
             \/ \E g \in Guid, n \in Name, b \in Body : Create(t, g, n, b, l)
             \/ \E n \in Name, b \in Body : Update(t, n, b, l)
             \/ Delete(t, l)
             \/ \E d \in Docs : Import(t, d, l)
    BY <1>3
  <2>2. text' = text
    BY <2>1 DEF Fetch, Create, Update, Delete, Import, Reads, tables
  <2>3. \E c : To(t, c) \/ Begin(t, c)
    BY <2>1, Zenon DEF Fetch, Create, Update, Delete, Import
  <2> QED
    BY <1>2, <2>2, <2>3
<1>4. CASE UpdateRow(t) \/ LookText(t) \/ LookRow(t) \/ InsertRow(t)
  <2>1. text' = text
    BY <1>4 DEF UpdateRow, LookText, LookRow, InsertRow, Reads, tables
  <2>2. \E c, pc, ok : To(t, c) \/ Go(t, pc) \/ Return(t, ok)
    BY <1>4, Zenon DEF UpdateRow, LookText, LookRow, InsertRow
  <2> QED
    BY <1>2, <2>1, <2>2
<1>5. CASE WriteText(t) \/ AddText(t) \/ Cut(t) \/ PurgeTexts(t) \/ Trim(t)
  <2>1. \E c, ok : To(t, c) \/ Return(t, ok)
    BY <1>5, Zenon DEF WriteText, AddText, Cut, PurgeTexts, Trim
  <2> QED
    BY <1>2, <1>5, <2>1 DEF Cut, PurgeTexts, Trim
<1>6. CASE Count(t) \/ Mark(t) \/ Purge(t) \/ Release(t) \/ EndImport(t) \/ Crash(t)
  <2>1. text' = text
    BY <1>6 DEF Count, Mark, Purge, Release, EndImport, Crash, Reads, tables
  <2>2. \E c, pc, ok : To(t, c) \/ Go(t, pc) \/ Return(t, ok)
    BY <1>6, Zenon DEF Count, Mark, Purge, Release, EndImport, Crash
  <2> QED
    BY <1>2, <2>1, <2>2
<1>7. CASE \E g \in Guid : Undelete(t, g)
  BY <1>7 DEF Undelete
<1>8. CASE ImportLook(t) \/ ImportUndelete(t) \/ ImportName(t) \/ Find(t) \/ ListLangs(t)
  <2>1. text' = text
    BY <1>8 DEF ImportLook, ImportUndelete, ImportName, Find, ListLangs, Reads, tables
  <2>2. \E c, pc, ok : To(t, c) \/ Go(t, pc) \/ Return(t, ok)
    BY <1>8, Zenon DEF ImportLook, ImportUndelete, ImportName, Find, ListLangs
  <2> QED
    BY <1>2, <2>1, <2>2
<1> QED
  BY <1>3, <1>4, <1>5, <1>6, <1>7, <1>8 DEF Does

(* What an update writes is a text in its language. *)
LEMMA TextIsWritten ==
  ASSUME TypeOK, NEW c \in Call, NEW i \in RowId
  PROVE  TextColumns(c, i) \in Text /\ TextColumns(c, i).lang = c.l /\ TextColumns(c, i) # NoRow
PROOF
<1>1. TextColumns(c, i) \in Text /\ TextColumns(c, i).lang = c.l
  BY DEF TextColumns, Text, Call
<1> QED
  BY <1>1, TranslationAssumption

LEMMA StaysFromInv ==
  ASSUME TranslationInv, [Next]_vars, NEW s \in Session, call[s] # Idle,
         call[s].op \in {"create", "update"}, call'[s] # call[s],
         NEW k \in TextId, text[k] # NoRow, text'[k] # text[k]
  PROVE  /\ text[k].lang = call[s].l /\ text'[k] # NoRow /\ text'[k].lang = text[k].lang
         /\ row[text[k].sid].guid = call[s].guid
PROOF
<1>1. Next
  BY DEF vars, tables
<1>2. PICK t \in Session : Does(t)
  BY <1>1, NextIs
<1>3. /\ t # s => call'[s] = call[s]
      /\ text' = text \/ In(t, "cut") \/ In(t, "texts") \/ In(t, "trim") \/ WriteText(t) \/ AddText(t)
  BY <1>2, OneWrites
<1>4. /\ call[s] \in Call /\ StepFits(call[s]) /\ IdsFit(call[s]) /\ TypeOK /\ IdsGivenOut
  BY CallIs DEF TranslationInv, Based, CallsFit, CallFits
<1>5. WriteText(s) \/ AddText(s)
  BY <1>3, <1>4 DEF In, StepFits
<1>6. CASE AddText(s)
  <2>1. k # nextText
    BY <1>4 DEF IdsGivenOut, TypeOK
  <2> QED
    BY <1>4, <1>6, <2>1 DEF AddText, TypeOK
<1>7. CASE WriteText(s)
  <2>1. call[s].pc = "write"
    BY <1>7 DEF WriteText, In
  <2>2. k = call[s].found /\ text'[k] = TextColumns(call[s], text[k].sid)
    BY <1>4, <1>7 DEF WriteText, TypeOK
  <2>3. text[k].lang = call[s].l /\ text[k].sid \in AllOf(call[s].guid)
    BY <1>4, <2>1, <2>2 DEF IdsFit
  <2>4. text'[k] # NoRow /\ text'[k].lang = call[s].l
    BY <1>4, <2>2, <2>3, TextIsWritten DEF AllOf
  <2> QED
    BY <2>3, <2>4 DEF AllOf
<1> QED
  BY <1>5, <1>6, <1>7

(* An update changes texts of its own object in the language the connection
   has then, and none in another, whatever the interleaving (_update_records). *)
THEOREM OtherLanguagesHold == Spec => OtherLanguagesStay
PROOF
<1>1. TranslationInv /\ [Next]_vars =>
        [\A s \in Session : call[s] # Idle /\ call[s].op \in {"create", "update"} /\ call'[s] # call[s] =>
           \A k \in TextId : text[k] # NoRow /\ text'[k] # text[k] =>
             text[k].lang = call[s].l /\ text'[k] # NoRow /\ text'[k].lang = text[k].lang
               /\ row[text[k].sid].guid = call[s].guid]_vars
  BY StaysFromInv
<1> QED
  BY <1>1, TranslationInvHolds, PTL DEF Spec, OtherLanguagesStay

=============================================================================
