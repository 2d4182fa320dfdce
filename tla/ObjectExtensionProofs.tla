------------------------ MODULE ObjectExtensionProofs ------------------------
(***************************************************************************)
(* What ObjectExtension guarantees for every number of sessions, names,    *)
(* values and records, with crashes and refusals.                          *)
(***************************************************************************)
EXTENDS ObjectExtension, FiniteSetTheorems, TLAPS

USE ExtensionAssumption, NoRecordAssumption

(* Types of the variables. *)
Collector == [Name -> Value \cup {Empty}]
Blob == [row : RowId, channel : {"closed", "w", "r"}]
Creating == [op : {"create"}, name : Name, value : Value \cup {Empty}, looked : BOOLEAN]
Updating == [op : {"update"}, row : RowId, name : Name, value : Value \cup {Empty}]
Looping == [op : {"delete", "purge", "unlink"}, todo : SUBSET RowId]
Unlinked == [op : {"unlinked"}, row : RowId, todo : SUBSET RowId]
Call == Creating \cup Updating \cup Looping \cup Unlinked

TypeOK ==
  /\ class \in {"parameter", "attachment"}
  /\ row \in [RowId -> Record \cup {NoRow, Gone}]
  /\ file \subseteq RowId
  /\ cache \in [Session -> Collector \cup {Unread}]
  /\ blob \in [Session -> Blob \cup {NoBlob}]
  /\ pc \in [Session -> Call \cup {Ready}]
  /\ stale \in [Session -> SUBSET Name]
  /\ excused \subseteq RowId

(* Which calls there are for which class; only parameters have a collector. *)
CallFits(s) ==
  /\ class = "attachment" => cache[s] = Unread
  /\ class = "parameter" /\ At(s, "create") => cache[s] # Unread
  /\ At(s, "update") => class = "parameter" /\ cache[s] # Unread
  /\ At(s, "unlink") \/ At(s, "unlinked") => class = "attachment"

(* What the collector has of the names that nobody else wrote is in the table. *)
Agrees(s) ==
  cache[s] # Unread =>
    \A n \in Name \ stale[s] :
      IF Live(n) = {} THEN cache[s][n] = Empty ELSE cache[s][n] \in LiveValues(n)

(* A record about to be updated has been selected by its name, and is as it was
   unless somebody else wrote. *)
Selected(s) ==
  At(s, "update") =>
    /\ row[pc[s].row] # NoRow
    /\ Is(pc[s].row) => row[pc[s].row].name = pc[s].name
    /\ pc[s].name \notin stale[s] => pc[s].row \in Live(pc[s].name)

(* A file whose attachment is about to be purged is gone, or could not be
   removed. *)
UnlinkedFirst(s) ==
  At(s, "unlinked") => pc[s].row \notin file \/ pc[s].row \in excused

ExtensionInv ==
  /\ TypeOK
  /\ \A s \in Session : CallFits(s) /\ Agrees(s) /\ Selected(s) /\ UnlinkedFirst(s)
  /\ NoStrayFile

-----------------------------------------------------------------------------
LEMMA TypeInit == Init => TypeOK
PROOF
  BY DEF Init, TypeOK

(* A record that is updated or deleted stays a record of its name. *)
LEMMA TouchedRecord ==
  ASSUME NEW w \in Record, NEW v \in Value \cup {Empty}
  PROVE  /\ [w EXCEPT !.live = FALSE] \in Record /\ [w EXCEPT !.live = FALSE].name = w.name
         /\ [w EXCEPT !.live = FALSE].live = FALSE
         /\ [w EXCEPT !.value = v] \in Record /\ [w EXCEPT !.value = v].name = w.name
         /\ [w EXCEPT !.value = v].value = v /\ [w EXCEPT !.value = v].live = w.live
PROOF
  BY DEF Record

(* What the call a session is in looks like. *)
LEMMA CallIs ==
  ASSUME TypeOK, NEW s \in Session
  PROVE  /\ At(s, "create") => pc[s] \in Creating
         /\ At(s, "update") => pc[s] \in Updating
         /\ At(s, "delete") \/ At(s, "purge") \/ At(s, "unlink") => pc[s] \in Looping
         /\ At(s, "unlinked") => pc[s] \in Unlinked
PROOF
<1>1. pc[s] \in Call \/ pc[s] = Ready
  BY DEF TypeOK
<1> QED
  BY <1>1 DEF At, Call, Creating, Updating, Looping, Unlinked

LEMMA TypeOfPc ==
  ASSUME TypeOK, NEW s \in Session, NEW c \in Call \cup {Ready}, Goto(s, c)
  PROVE  pc' \in [Session -> Call \cup {Ready}] /\ pc'[s] = c
         /\ \A t \in Session : t # s => pc'[t] = pc[t]
PROOF
  BY DEF TypeOK, Goto

(* The next record of a loop. *)
LEMMA Looped ==
  ASSUME TypeOK, NEW s \in Session, pc[s] \in Looping, NEW r \in RowId, Next1(s, r)
  PROVE  pc' \in [Session -> Call \cup {Ready}]
         /\ \E c \in Looping \cup {Ready} : Goto(s, c) /\ (c # Ready => c.op = pc[s].op)
PROOF
<1>1. [pc[s] EXCEPT !.todo = @ \ {r}] \in Looping
      /\ [pc[s] EXCEPT !.todo = @ \ {r}].op = pc[s].op
  BY DEF Looping
<1>2. PICK c \in Looping \cup {Ready} : Goto(s, c) /\ (c # Ready => c.op = pc[s].op)
  BY <1>1 DEF Next1
<1> QED
  BY <1>2, TypeOfPc DEF Call

LEMMA TypeOfRow ==
  ASSUME TypeOK, NEW r \in RowId, NEW w \in Record \cup {NoRow, Gone}, row' = [row EXCEPT ![r] = w]
  PROVE  row' \in [RowId -> Record \cup {NoRow, Gone}]
         /\ row'[r] = w /\ \A q \in RowId : q # r => row'[q] = row[q]
PROOF
  BY DEF TypeOK

LEMMA TypeOfStale ==
  ASSUME TypeOK, NEW s \in Session, NEW n \in Name, NEW own, Outdated(s, n, own)
  PROVE  stale' \in [Session -> SUBSET Name] /\ \A t \in Session : stale[t] \subseteq stale'[t]
PROOF
  BY DEF TypeOK, Outdated

LEMMA TypeOfCache ==
  ASSUME TypeOK, NEW s \in Session, NEW n \in Name, NEW v \in Value \cup {Empty},
         cache[s] # Unread, Cached(s, n, v)
  PROVE  cache' \in [Session -> Collector \cup {Unread}]
         /\ cache'[s] = [cache[s] EXCEPT ![n] = v]
         /\ \A t \in Session : t # s => cache'[t] = cache[t]
PROOF
<1>1. cache[s] \in Collector
  BY DEF TypeOK
<1>2. [cache[s] EXCEPT ![n] = v] \in Collector
  BY <1>1 DEF Collector
<1> QED
  BY <1>2 DEF TypeOK, Cached

(* What Write makes of a record. *)
Rewritten(p) == IF ~Is(p.row) THEN row[p.row]
                ELSE IF p.value = Empty THEN [row[p.row] EXCEPT !.live = FALSE]
                ELSE [row[p.row] EXCEPT !.value = p.value]

LEMMA WriteIs ==
  ASSUME TypeOK, NEW s \in Session, Write(s)
  PROVE  /\ pc[s] \in Updating /\ At(s, "update") /\ pc[s].row \in RowId /\ pc[s].name \in Name
         /\ pc[s].value \in Value \cup {Empty}
         /\ Rewritten(pc[s]) \in Record \cup {NoRow, Gone}
         /\ ~Is(pc[s].row) => Rewritten(pc[s]) = row[pc[s].row]
         /\ Is(pc[s].row) => Rewritten(pc[s]) \in Record
                             /\ Rewritten(pc[s]).name = row[pc[s].row].name
         /\ \/ /\ row' = [row EXCEPT ![pc[s].row] = Rewritten(pc[s])]
               /\ Cached(s, pc[s].name, pc[s].value)
               /\ Outdated(s, pc[s].name, TRUE)
            \/ UNCHANGED <<row, cache, stale>>
         /\ Goto(s, Ready)
         /\ UNCHANGED <<class, file, blob, excused>>
PROOF
<1>1. At(s, "update")
  BY DEF Write, At
<1>2. pc[s] \in Updating
  BY <1>1, CallIs
<1>3. pc[s].row \in RowId /\ pc[s].name \in Name /\ pc[s].value \in Value \cup {Empty}
  BY <1>2 DEF Updating
<1>4. row[pc[s].row] \in Record \cup {NoRow, Gone}
  BY <1>3 DEF TypeOK
<1>5. Is(pc[s].row) => /\ Rewritten(pc[s]) \in Record
                       /\ Rewritten(pc[s]).name = row[pc[s].row].name
  BY <1>3, <1>4, TouchedRecord DEF Rewritten, Is
<1>6. ~Is(pc[s].row) => Rewritten(pc[s]) = row[pc[s].row]
  BY DEF Rewritten
<1>7. /\ \/ /\ row' = [row EXCEPT ![pc[s].row] = Rewritten(pc[s])]
            /\ Cached(s, pc[s].name, pc[s].value)
            /\ Outdated(s, pc[s].name, TRUE)
         \/ UNCHANGED <<row, cache, stale>>
      /\ Goto(s, Ready)
      /\ UNCHANGED <<class, file, blob, excused>>
  BY DEF Write, Rewritten
<1> QED
  BY <1>1, <1>2, <1>3, <1>4, <1>5, <1>6, <1>7

(* A step of a loop that deletes or purges a record, unless it is refused or  *)
(* the record is no longer there.                                             *)
Erase(s) == DeleteEach(s) \/ PurgeEach(s) \/ PurgeUnlinked(s)

LEMMA EraseIs ==
  ASSUME TypeOK, NEW s \in Session, Erase(s)
  PROVE  /\ \E r \in RowId, w \in Record \cup {NoRow, Gone} :
              /\ row' = [row EXCEPT ![r] = w]
              /\ \/ w = row[r]
                 \/ Is(r) /\ (w = Gone \/ (w \in Record /\ w.name = row[r].name /\ ~w.live))
              /\ excused' \in {excused, excused \cup {r}}
              /\ w = Gone /\ row[r] # Gone
                   => r \in excused' \/ (At(s, "unlinked") /\ r = pc[s].row)
              /\ \/ UNCHANGED stale /\ (At(s, "unlinked") \/ w = row[r])
                 \/ row[r].name \in Name /\ Outdated(s, row[r].name, FALSE)
         /\ \E c \in Looping \cup {Ready} :
              Goto(s, c) /\ (c # Ready => c.op = pc[s].op \/ At(s, "unlinked"))
         /\ UNCHANGED <<class, file, cache, blob>>
PROOF
<1>1. ASSUME NEW r \in RowId
      PROVE  /\ row[r] \in Record \cup {NoRow, Gone} /\ row = [row EXCEPT ![r] = row[r]]
             /\ Is(r) => /\ row[r] \in Record /\ row[r].name \in Name
                         /\ [row[r] EXCEPT !.live = FALSE] \in Record
                         /\ [row[r] EXCEPT !.live = FALSE].name = row[r].name
                         /\ ~[row[r] EXCEPT !.live = FALSE].live
  <2>1. row[r] \in Record \cup {NoRow, Gone} /\ row = [row EXCEPT ![r] = row[r]]
    BY DEF TypeOK
  <2>2. Is(r) => row[r] \in Record
    BY <2>1 DEF Is
  <2>3. \A w \in Record : /\ w.name \in Name /\ [w EXCEPT !.live = FALSE] \in Record
                          /\ [w EXCEPT !.live = FALSE].name = w.name
                          /\ ~[w EXCEPT !.live = FALSE].live
    BY DEF Record
  <2> QED
    BY <2>1, <2>2, <2>3
<1>2. CASE DeleteEach(s)
  <2>1. pc[s] \in Looping /\ pc[s].todo \subseteq RowId
    BY <1>2, CallIs DEF DeleteEach, Looping
  <2>2. PICK r \in RowId :
          /\ Next1(s, r)
          /\ \/ Is(r) /\ row' = [row EXCEPT ![r].live = FALSE] /\ Outdated(s, row[r].name, FALSE)
             \/ UNCHANGED <<row, stale>>
    BY <1>2, <2>1 DEF DeleteEach
  <2>3. \E c \in Looping \cup {Ready} : Goto(s, c) /\ (c # Ready => c.op = pc[s].op)
    BY <2>1, <2>2, Looped
  <2>4. CASE Is(r) /\ row' = [row EXCEPT ![r].live = FALSE] /\ Outdated(s, row[r].name, FALSE)
    <3>1. PICK w \in Record : w = [row[r] EXCEPT !.live = FALSE]
      BY <1>1, <2>4
    <3>2. row' = [row EXCEPT ![r] = w] /\ w.name = row[r].name /\ ~w.live /\ row[r].name \in Name
      BY <1>1, <2>4, <3>1
    <3>3. w # Gone
      OBVIOUS
    <3> QED
      BY <1>2, <2>3, <2>4, <3>2, <3>3 DEF DeleteEach
  <2>5. CASE UNCHANGED <<row, stale>>
    BY <1>1, <1>2, <2>3, <2>5 DEF DeleteEach
  <2> QED
    BY <2>2, <2>4, <2>5
<1>3. CASE PurgeEach(s)
  <2>1. pc[s] \in Looping /\ pc[s].todo \subseteq RowId
    BY <1>3, CallIs DEF PurgeEach, Looping
  <2>2. PICK r \in RowId :
          /\ Next1(s, r)
          /\ \/ /\ Is(r) /\ row' = [row EXCEPT ![r] = Gone] /\ Outdated(s, row[r].name, FALSE)
                /\ excused' = excused \cup {r}
             \/ UNCHANGED <<row, stale, excused>>
    BY <1>3, <2>1 DEF PurgeEach
  <2>3. \E c \in Looping \cup {Ready} : Goto(s, c) /\ (c # Ready => c.op = pc[s].op)
    BY <2>1, <2>2, Looped
  <2>4. UNCHANGED <<class, file, cache, blob>>
    BY <1>3 DEF PurgeEach
  <2>5. CASE /\ Is(r) /\ row' = [row EXCEPT ![r] = Gone] /\ Outdated(s, row[r].name, FALSE)
             /\ excused' = excused \cup {r}
    BY <1>1, <2>3, <2>4, <2>5
  <2>6. CASE UNCHANGED <<row, stale, excused>>
    BY <1>1, <2>3, <2>4, <2>6
  <2> QED
    BY <2>2, <2>5, <2>6
<1>4. CASE PurgeUnlinked(s)
  <2>1. At(s, "unlinked") /\ pc[s] \in Unlinked
    BY <1>4, CallIs DEF PurgeUnlinked
  <2> PICK r, rest : r = pc[s].row /\ rest = pc[s].todo \ {r}
    OBVIOUS
  <2>2. r \in RowId /\ rest \subseteq RowId
    BY <2>1 DEF Unlinked
  <2>3. /\ Goto(s, IF rest = {} THEN Ready ELSE [op |-> "unlink", todo |-> rest])
        /\ row' = [row EXCEPT ![r] = IF Is(r) THEN Gone ELSE @] \/ UNCHANGED row
        /\ UNCHANGED <<class, file, cache, blob, stale, excused>>
    BY <1>4 DEF PurgeUnlinked
  <2>4. \E c \in Looping \cup {Ready} : Goto(s, c)
    BY <2>2, <2>3 DEF Looping
  <2>5. CASE Is(r) /\ row' = [row EXCEPT ![r] = Gone]
    BY <2>1, <2>2, <2>3, <2>4, <2>5
  <2>6. CASE row' = row
    BY <1>1, <2>1, <2>2, <2>3, <2>4, <2>6
  <2>7. ~Is(r) /\ row' = [row EXCEPT ![r] = IF Is(r) THEN Gone ELSE @] => row' = row
    BY <1>1, <2>2
  <2> QED
    BY <2>3, <2>5, <2>6, <2>7
<1> QED
  BY <1>2, <1>3, <1>4 DEF Erase

(* What a session does that leaves the table, the collectors and the warnings *)
(* alone, or sets only its own collector.                                     *)
Calm(s) ==
  \/ GetParameter(s) \/ SetNew(s) \/ SetOld(s) \/ CreateAttachment(s) \/ ForEach(s)
  \/ Unlink(s) \/ NewBlob(s) \/ WriteContent(s) \/ ReadContent(s) \/ RemoveFile(s)
  \/ Free(s) \/ Crash(s)

LEMMA CalmType == ASSUME TypeOK, NEW s \in Session, Calm(s) PROVE TypeOK'
PROOF
<1>1. CASE GetParameter(s)
  <2>1. PICK c \in Collector \cup {Unread} : cache' = [cache EXCEPT ![s] = c]
    BY <1>1 DEF GetParameter, Nothing, Collector
  <2>2. stale' \in [Session -> SUBSET Name]
    BY <1>1 DEF GetParameter, TypeOK
  <2> QED
    BY <1>1, <2>1, <2>2 DEF GetParameter, TypeOK
<1>2. ASSUME NEW c \in Call, Goto(s, c), UNCHANGED <<class, row, file, cache, blob, stale, excused>>
      PROVE  TypeOK'
  BY <1>2, TypeOfPc DEF TypeOK
<1>3. CASE SetNew(s)
  <2>1. PICK n \in Name, v \in Value :
          Goto(s, [op |-> "create", name |-> n, value |-> v, looked |-> TRUE])
    BY <1>3 DEF SetNew
  <2>2. [op |-> "create", name |-> n, value |-> v, looked |-> TRUE] \in Call
    BY DEF Call, Creating
  <2> QED
    BY <1>2, <1>3, <2>1, <2>2 DEF SetNew
<1>4. CASE SetOld(s)
  <2>1. PICK n \in Name, v \in Value \cup {Empty}, r \in RowId :
          Goto(s, [op |-> "update", row |-> r, name |-> n, value |-> v])
    BY <1>4 DEF SetOld, Live
  <2>2. [op |-> "update", row |-> r, name |-> n, value |-> v] \in Call
    BY DEF Call, Updating
  <2> QED
    BY <1>2, <1>4, <2>1, <2>2 DEF SetOld
<1>5. CASE CreateAttachment(s)
  <2>1. PICK n \in Name, looked \in BOOLEAN :
          Goto(s, [op |-> "create", name |-> n, value |-> Empty, looked |-> looked])
    BY <1>5 DEF CreateAttachment
  <2>2. [op |-> "create", name |-> n, value |-> Empty, looked |-> looked] \in Call
    BY DEF Call, Creating
  <2> QED
    BY <1>2, <1>5, <2>1, <2>2 DEF CreateAttachment
<1>6. CASE ForEach(s)
  <2>1. PICK ns \in {{n} : n \in Name} \cup {Name}, how \in {"delete", "purge", "unlink"} :
          Goto(s, [op |-> how, todo |-> UNION {Live(n) : n \in ns}])
    BY <1>6 DEF ForEach
  <2>2. UNION {Live(n) : n \in ns} \in SUBSET RowId
    BY DEF Live
  <2>3. [op |-> how, todo |-> UNION {Live(n) : n \in ns}] \in Call
    BY <2>2 DEF Call, Looping
  <2> QED
    BY <1>2, <1>6, <2>1, <2>3 DEF ForEach
<1>7. CASE Unlink(s)
  <2>1. pc[s] \in Looping /\ pc[s].todo \subseteq RowId
    BY <1>7, CallIs DEF Unlink, Looping
  <2>2. PICK r \in pc[s].todo :
          /\ (file' = file \ {r} /\ UNCHANGED excused) \/ (excused' = excused \cup {r} /\ UNCHANGED file)
          /\ Goto(s, [op |-> "unlinked", row |-> r, todo |-> pc[s].todo])
    BY <1>7 DEF Unlink
  <2>3. [op |-> "unlinked", row |-> r, todo |-> pc[s].todo] \in Call
    BY <2>1 DEF Call, Unlinked
  <2>4. pc' \in [Session -> Call \cup {Ready}]
    BY <2>2, <2>3, TypeOfPc
  <2>5. file' \subseteq RowId /\ excused' \subseteq RowId
    BY <2>1, <2>2 DEF TypeOK
  <2> QED
    BY <1>7, <2>4, <2>5 DEF Unlink, TypeOK
<1>8. CASE NewBlob(s)
  <2>1. PICK r \in RowId : blob' = [blob EXCEPT ![s] = [row |-> r, channel |-> "closed"]]
    BY <1>8 DEF NewBlob, Live
  <2> QED
    BY <1>8, <2>1 DEF NewBlob, TypeOK, Blob
<1>9. CASE WriteContent(s) \/ ReadContent(s) \/ RemoveFile(s)
  <2>1. blob[s] \in Blob
    BY <1>9 DEF WriteContent, ReadContent, RemoveFile, TypeOK
  <2>2. blob[s].row \in RowId /\ [blob[s] EXCEPT !.channel = "w"] \in Blob
        /\ [blob[s] EXCEPT !.channel = "r"] \in Blob
    BY <2>1 DEF Blob
  <2>3. blob' \in [Session -> Blob \cup {NoBlob}]
    BY <1>9, <2>2 DEF WriteContent, ReadContent, RemoveFile, TypeOK
  <2>4. file' \subseteq RowId /\ excused' \subseteq RowId
    BY <1>9, <2>2 DEF WriteContent, ReadContent, RemoveFile, TypeOK
  <2> QED
    BY <1>9, <2>3, <2>4 DEF WriteContent, ReadContent, RemoveFile, TypeOK
<1>10. CASE Free(s)
  BY <1>10 DEF Free, TypeOK
<1>11. CASE Crash(s)
  BY <1>11, TypeOfPc DEF Crash, TypeOK
<1> QED
  BY <1>1, <1>3, <1>4, <1>5, <1>6, <1>7, <1>8, <1>9, <1>10, <1>11 DEF Calm

LEMMA TypeStep == ExtensionInv /\ [Next]_vars => TypeOK'
PROOF
<1> SUFFICES ASSUME ExtensionInv, TypeOK, [Next]_vars PROVE TypeOK'
  BY DEF ExtensionInv
<1>1. CASE UNCHANGED vars
  BY <1>1 DEF vars, TypeOK
<1>2. ASSUME NEW s \in Session, Insert(s) PROVE TypeOK'
  <2>1. pc[s] \in Creating /\ At(s, "create")
    BY <1>2, CallIs DEF Insert, At
  <2>2. pc[s].name \in Name /\ pc[s].value \in Value \cup {Empty}
    BY <2>1 DEF Creating
  <2>3. row' \in [RowId -> Record \cup {NoRow, Gone}]
    <3>1. [name |-> pc[s].name, value |-> pc[s].value, live |-> TRUE] \in Record
      BY <2>2 DEF Record
    <3> QED
      BY <1>2, <3>1 DEF Insert, NextFree, TypeOK
  <2>4. stale' \in [Session -> SUBSET Name]
    BY <1>2, <2>2, TypeOfStale DEF Insert, TypeOK
  <2>5. cache' \in [Session -> Collector \cup {Unread}]
    <3>1. class = "parameter" => cache[s] # Unread
      BY <2>1 DEF ExtensionInv, CallFits
    <3>2. CASE UNCHANGED cache
      BY <3>2 DEF TypeOK
    <3>3. CASE class = "parameter" /\ Cached(s, pc[s].name, pc[s].value)
      BY <2>2, <3>1, <3>3, TypeOfCache
    <3> QED
      BY <1>2, <3>2, <3>3 DEF Insert
  <2>6. pc' \in [Session -> Call \cup {Ready}] /\ UNCHANGED <<class, file, blob, excused>>
    BY <1>2, TypeOfPc DEF Insert
  <2> QED
    BY <2>3, <2>4, <2>5, <2>6 DEF TypeOK
<1>3. ASSUME NEW s \in Session, Write(s) PROVE TypeOK'
  <2>1. cache[s] # Unread
    BY <1>3, WriteIs DEF ExtensionInv, CallFits
  <2>2. pc' \in [Session -> Call \cup {Ready}] /\ UNCHANGED <<class, file, blob, excused>>
    BY <1>3, WriteIs, TypeOfPc
  <2>3. CASE UNCHANGED <<row, cache, stale>>
    BY <2>2, <2>3 DEF TypeOK
  <2>4. CASE /\ row' = [row EXCEPT ![pc[s].row] = Rewritten(pc[s])]
             /\ Cached(s, pc[s].name, pc[s].value)
             /\ Outdated(s, pc[s].name, TRUE)
    <3>1. row' \in [RowId -> Record \cup {NoRow, Gone}]
      BY <1>3, <2>4, WriteIs, TypeOfRow
    <3>2. cache' \in [Session -> Collector \cup {Unread}]
      BY <1>3, <2>1, <2>4, WriteIs, TypeOfCache
    <3>3. stale' \in [Session -> SUBSET Name]
      BY <1>3, <2>4, WriteIs, TypeOfStale
    <3> QED
      BY <2>2, <3>1, <3>2, <3>3 DEF TypeOK
  <2> QED
    BY <1>3, <2>3, <2>4, WriteIs
<1>4. ASSUME NEW s \in Session, Erase(s) PROVE TypeOK'
  <2>1. PICK r \in RowId, w \in Record \cup {NoRow, Gone} :
          row' = [row EXCEPT ![r] = w] /\ excused' \in {excused, excused \cup {r}}
    BY <1>4, EraseIs
  <2>2. stale' \in [Session -> SUBSET Name]
    BY <1>4, EraseIs, TypeOfStale DEF TypeOK
  <2>3. row' \in [RowId -> Record \cup {NoRow, Gone}]
    BY <2>1, TypeOfRow
  <2>4. pc' \in [Session -> Call \cup {Ready}] /\ UNCHANGED <<class, file, cache, blob>>
    BY <1>4, EraseIs, TypeOfPc DEF Call
  <2>5. excused' \subseteq RowId
    BY <2>1 DEF TypeOK
  <2> QED
    BY <2>2, <2>3, <2>4, <2>5 DEF TypeOK
<1>5. ASSUME NEW s \in Session, Calm(s) PROVE TypeOK'
  BY <1>5, CalmType
<1> QED
  BY <1>1, <1>2, <1>3, <1>4, <1>5 DEF Next, Calm, Erase

-----------------------------------------------------------------------------
(* What a collector knows.  A step of s that leaves other collectors right    *)
(* about every name they are not warned of.                                   *)
Named(q, n) == Is(q) /\ row[q].name = n

Elsewhere(n) == \A q \in RowId : row'[q] = row[q] \/ (~Named(q, n) /\ ~Named(q, n)')

NamesStay ==
  \A q \in RowId : row[q] # NoRow =>
    /\ row'[q] # NoRow
    /\ Is(q)' => Is(q) /\ row'[q].name = row[q].name

Warned(t) ==
  /\ stale[t] \subseteq stale'[t]
  /\ cache[t] # Unread => \A n \in Name \ stale'[t] : Elsewhere(n)

Polite(s) ==
  /\ class' = class
  /\ NamesStay
  /\ \A t \in Session \ {s} : pc'[t] = pc[t] /\ cache'[t] = cache[t] /\ Warned(t)

LEMMA SameLive ==
  ASSUME NEW n \in Name, Elsewhere(n)
  PROVE  Live(n)' = Live(n) /\ LiveValues(n)' = LiveValues(n)
PROOF
<1>1. Live(n)' = Live(n)
  BY DEF Elsewhere, Named, Live, Is
<1>2. \A q \in Live(n) : row'[q] = row[q]
  BY DEF Elsewhere, Named, Live
<1> QED
  BY <1>1, <1>2 DEF LiveValues

LEMMA AgreesKept ==
  ASSUME NEW t \in Session, Agrees(t), cache'[t] = cache[t], Warned(t)
  PROVE  Agrees(t)'
PROOF
<1> SUFFICES ASSUME cache[t] # Unread, NEW n \in Name \ stale'[t]
             PROVE  IF Live(n)' = {} THEN cache[t][n] = Empty
                                     ELSE cache[t][n] \in LiveValues(n)'
  BY DEF Agrees
<1>1. Elsewhere(n) /\ n \notin stale[t]
  BY DEF Warned
<1> QED
  BY <1>1, SameLive DEF Agrees

LEMMA SelectedKept ==
  ASSUME TypeOK, NEW t \in Session, CallFits(t), Selected(t), pc'[t] = pc[t], Warned(t), NamesStay
  PROVE  Selected(t)'
PROOF
<1> SUFFICES ASSUME At(t, "update") PROVE Selected(t)'
  BY DEF Selected, At
<1> PICK q, n : q = pc[t].row /\ n = pc[t].name
  OBVIOUS
<1>1. q \in RowId /\ n \in Name
  BY CallIs DEF Updating
<1>2. row'[q] # NoRow /\ (Is(q)' => row'[q].name = n)
  BY <1>1 DEF Selected, NamesStay
<1>3. n \notin stale'[t] => q \in Live(n)'
  BY <1>1, SameLive DEF Selected, CallFits, Warned
<1> QED
  BY <1>2, <1>3 DEF Selected

LEMMA OthersKeep ==
  ASSUME ExtensionInv, NEW s \in Session, Polite(s), NEW t \in Session, t # s
  PROVE  CallFits(t)' /\ Agrees(t)' /\ Selected(t)'
PROOF
<1>1. /\ CallFits(t) /\ Agrees(t) /\ Selected(t) /\ TypeOK
      /\ pc'[t] = pc[t] /\ cache'[t] = cache[t] /\ Warned(t) /\ NamesStay /\ class' = class
  BY DEF ExtensionInv, Polite
<1>2. CallFits(t)'
  BY <1>1 DEF CallFits, At
<1> QED
  BY <1>1, <1>2, AgreesKept, SelectedKept

(* A step goes to a call or ends one.                                         *)
LEMMA OthersCalls ==
  ASSUME TypeOK, NEW s \in Session, NEW c, Goto(s, c), NEW t \in Session, t # s
  PROVE  pc'[t] = pc[t]
PROOF
  BY DEF TypeOK, Goto

LEMMA EraseIsPolite ==
  ASSUME ExtensionInv, NEW s \in Session, Erase(s)
  PROVE  Polite(s) /\ CallFits(s)' /\ Agrees(s)' /\ Selected(s)'
PROOF
<1>1. TypeOK /\ CallFits(s) /\ Agrees(s)
  BY DEF ExtensionInv
<1>2. PICK c \in Looping \cup {Ready} :
        Goto(s, c) /\ (c # Ready => c.op = pc[s].op \/ At(s, "unlinked"))
  BY <1>1, EraseIs
<1>3. pc'[s] = c /\ (\A t \in Session : t # s => pc'[t] = pc[t]) /\ UNCHANGED <<class, cache>>
  BY <1>1, <1>2, EraseIs DEF Goto, TypeOK
<1>4. PICK r \in RowId, w \in Record \cup {NoRow, Gone} :
        /\ row' = [row EXCEPT ![r] = w]
        /\ w = row[r] \/ (Is(r) /\ (w = Gone \/ (w \in Record /\ w.name = row[r].name /\ ~w.live)))
        /\ \/ UNCHANGED stale /\ (At(s, "unlinked") \/ w = row[r])
           \/ row[r].name \in Name /\ Outdated(s, row[r].name, FALSE)
  BY <1>1, EraseIs
<1>5. row'[r] = w /\ \A q \in RowId : q # r => row'[q] = row[q]
  BY <1>1, <1>4, TypeOfRow
<1>6. NamesStay
  BY <1>4, <1>5 DEF NamesStay, Is
<1>7. ASSUME NEW n \in Name, w = row[r] \/ n # row[r].name PROVE Elsewhere(n)
  BY <1>4, <1>5, <1>7 DEF Elsewhere, Named, Is
<1>8. ASSUME NEW t \in Session PROVE Warned(t)
  <2>1. stale[t] \subseteq stale'[t]
    BY <1>1, <1>4, TypeOfStale
  <2>2. ASSUME cache[t] # Unread, NEW n \in Name \ stale'[t] PROVE Elsewhere(n)
    <3>1. ~At(s, "unlinked")
      BY <1>1, <2>2 DEF CallFits, ExtensionInv, TypeOK
    <3>2. CASE w = row[r]
      BY <1>7, <3>2
    <3>3. CASE Outdated(s, row[r].name, FALSE)
      BY <1>1, <1>7, <2>2, <3>3 DEF Outdated
    <3> QED
      BY <1>4, <3>1, <3>2, <3>3
  <2> QED
    BY <2>1, <2>2 DEF Warned
<1>9. Polite(s)
  BY <1>3, <1>6, <1>8 DEF Polite
<1>10. Agrees(s)'
  BY <1>1, <1>3, <1>8, AgreesKept
<1>11. Selected(s)' /\ CallFits(s)'
  <2>1. c # Ready => c.op \in {"delete", "purge", "unlink"}
    BY DEF Looping
  <2>2. c # Ready /\ c.op = "unlink" => class = "attachment"
    <3>1. c # Ready /\ c.op = "unlink" => At(s, "unlinked") \/ At(s, "unlink")
      BY <1>2, <1>1, EraseIs DEF Erase, DeleteEach, PurgeEach, PurgeUnlinked, At
    <3> QED
      BY <1>1, <3>1 DEF CallFits
  <2>3. CallFits(s)'
    BY <1>1, <1>3, <2>1, <2>2 DEF CallFits, At
  <2>4. Selected(s)'
    BY <1>3, <2>1 DEF Selected, At
  <2> QED
    BY <2>3, <2>4
<1> QED
  BY <1>9, <1>10, <1>11

LEMMA InsertIsPolite ==
  ASSUME ExtensionInv, NEW s \in Session, Insert(s)
  PROVE  Polite(s) /\ CallFits(s)' /\ Agrees(s)' /\ Selected(s)'
PROOF
<1>1. TypeOK /\ CallFits(s) /\ Agrees(s) /\ At(s, "create")
  BY DEF ExtensionInv, Insert, At
<1> PICK n, v : n = pc[s].name /\ v = pc[s].value
  OBVIOUS
<1>2. n \in Name /\ v \in Value \cup {Empty}
  BY <1>1, CallIs DEF Creating
<1>3. pc'[s] = Ready /\ (\A t \in Session : t # s => pc'[t] = pc[t]) /\ class' = class
  BY <1>1, TypeOfPc, OthersCalls DEF Insert
<1>4. CallFits(s)' /\ Selected(s)'
  <2>1. class = "attachment" => cache' = cache
    BY DEF Insert
  <2> QED
    BY <1>1, <1>3, <2>1 DEF CallFits, Selected, At
<1>5. CASE UNCHANGED <<row, cache, stale>>
  <2>1. \A t \in Session : Warned(t)
    BY <1>5 DEF Warned, Elsewhere
  <2>2. NamesStay
    BY <1>5 DEF NamesStay, Is
  <2> QED
    BY <1>1, <1>3, <1>4, <1>5, <2>1, <2>2, AgreesKept DEF Polite
<1>6. CASE \E r \in NextFree : row' = [row EXCEPT ![r] = [name |-> n, value |-> v, live |-> TRUE]]
  <2>1. PICK r \in RowId : row[r] = NoRow
                           /\ row' = [row EXCEPT ![r] = [name |-> n, value |-> v, live |-> TRUE]]
    BY <1>6 DEF NextFree
  <2>2. PICK w \in Record : w.name = n /\ w.value = v /\ w.live /\ row' = [row EXCEPT ![r] = w]
    BY <1>2, <2>1 DEF Record
  <2>3. row'[r] = w /\ \A q \in RowId : q # r => row'[q] = row[q]
    BY <1>1, <2>2, TypeOfRow
  <2>4. NamesStay
    BY <2>1, <2>3 DEF NamesStay, Is
  <2>5. \A m \in Name : m # n => Elsewhere(m)
    BY <2>1, <2>2, <2>3 DEF Elsewhere, Named, Is
  <2>6. CASE class = "attachment"
    <3>1. UNCHANGED <<cache, stale>>
      BY <1>3, <2>6, <2>1, <1>1 DEF Insert, NextFree
    <3>2. \A t \in Session : cache[t] = Unread
      BY <2>6 DEF ExtensionInv, CallFits
    <3>3. \A t \in Session : Warned(t)
      BY <3>1, <3>2 DEF Warned
    <3> QED
      BY <1>1, <1>3, <1>4, <2>4, <3>1, <3>3, AgreesKept DEF Polite
  <2>7. CASE class = "parameter"
    <3>1. Cached(s, n, v) /\ Outdated(s, n, TRUE)
      <4>1. row' # row
        BY <1>1, <2>1, <2>3
      <4> QED
        BY <2>7, <4>1 DEF Insert
    <3>2. cache[s] # Unread /\ cache[s] \in Collector
      BY <1>1, <2>7 DEF CallFits, TypeOK
    <3>3. /\ cache'[s] = [cache[s] EXCEPT ![n] = v]
          /\ \A t \in Session : t # s => cache'[t] = cache[t]
      BY <1>1, <1>2, <3>1, <3>2, TypeOfCache
    <3>4. /\ \A t \in Session : stale[t] \subseteq stale'[t]
          /\ \A t \in Session : t # s /\ cache[t] # Unread => n \in stale'[t]
      BY <1>1, <1>2, <3>1, TypeOfStale DEF Outdated, TypeOK
    <3>5. \A t \in Session : t # s => Warned(t)
      BY <2>5, <3>4 DEF Warned
    <3>6. Agrees(s)'
      <4> SUFFICES ASSUME NEW m \in Name \ stale'[s]
                   PROVE  IF Live(m)' = {} THEN cache'[s][m] = Empty
                                           ELSE cache'[s][m] \in LiveValues(m)'
        BY DEF Agrees
      <4>1. CASE m = n
        <5>1. r \in Live(n)'
          BY <2>2, <2>3 DEF Live, Is
        <5>2. v \in LiveValues(n)'
          BY <2>2, <2>3, <5>1 DEF LiveValues
        <5> QED
          BY <1>2, <3>2, <3>3, <4>1, <5>1, <5>2 DEF Collector
      <4>2. CASE m # n
        <5>1. Live(m)' = Live(m) /\ LiveValues(m)' = LiveValues(m)
          BY <2>5, <4>2, SameLive
        <5>2. cache'[s][m] = cache[s][m] /\ m \notin stale[s]
          BY <3>2, <3>3, <3>4, <4>2 DEF Collector
        <5> QED
          BY <1>1, <3>2, <5>1, <5>2 DEF Agrees
      <4> QED
        BY <4>1, <4>2
    <3> QED
      BY <1>3, <1>4, <2>4, <3>3, <3>5, <3>6 DEF Polite
  <2> QED
    BY <1>1, <2>6, <2>7 DEF TypeOK
<1> QED
  BY <1>5, <1>6 DEF Insert

(* A set of two or more has a cardinality above one.                          *)
LEMMA OnlyOne ==
  ASSUME NEW S \in SUBSET RowId, ~(Cardinality(S) > 1), NEW r \in S
  PROVE  S = {r}
PROOF
<1>0. IsFiniteSet(RowId)
  BY FS_Interval DEF RowId
<1>1. IsFiniteSet(S) /\ Cardinality(S) \in Nat
  BY <1>0, FS_Subset, FS_CardinalityType
<1>2. {r} \in SUBSET S /\ IsFiniteSet({r}) /\ Cardinality({r}) = 1
  BY FS_Singleton
<1>3. Cardinality({r}) <= Cardinality(S) /\ (Cardinality(S) = Cardinality({r}) => S = {r})
  BY <1>1, <1>2, FS_Subset
<1> QED
  BY <1>1, <1>2, <1>3

LEMMA WriteIsPolite ==
  ASSUME ExtensionInv, NEW s \in Session, Write(s)
  PROVE  Polite(s) /\ CallFits(s)' /\ Agrees(s)' /\ Selected(s)'
PROOF
<1>1. TypeOK /\ CallFits(s) /\ Agrees(s) /\ Selected(s)
  BY DEF ExtensionInv
<1> PICK r, n, v, w : r = pc[s].row /\ n = pc[s].name /\ v = pc[s].value /\ w = Rewritten(pc[s])
  OBVIOUS
<1>2. /\ At(s, "update") /\ r \in RowId /\ n \in Name /\ v \in Value \cup {Empty}
      /\ w \in Record \cup {NoRow, Gone}
      /\ ~Is(r) => w = row[r]
      /\ Is(r) => w \in Record /\ w.name = row[r].name
  BY <1>1, WriteIs
<1>3. pc'[s] = Ready /\ (\A t \in Session : t # s => pc'[t] = pc[t]) /\ class' = class
  BY <1>1, TypeOfPc, OthersCalls, WriteIs
<1>4. /\ class = "parameter" /\ cache[s] # Unread /\ cache[s] \in Collector
      /\ Is(r) => row[r].name = n
      /\ n \notin stale[s] => r \in Live(n)
      /\ row[r] # NoRow
  BY <1>1, <1>2 DEF CallFits, Selected, TypeOK
<1>5. CallFits(s)' /\ Selected(s)'
  BY <1>3, <1>4 DEF CallFits, Selected, At
<1>6. CASE UNCHANGED <<row, cache, stale>>
  <2>1. \A t \in Session : Warned(t)
    BY <1>6 DEF Warned, Elsewhere
  <2>2. NamesStay
    BY <1>6 DEF NamesStay, Is
  <2> QED
    BY <1>1, <1>3, <1>5, <1>6, <2>1, <2>2, AgreesKept DEF Polite
<1>7. CASE row' = [row EXCEPT ![r] = w] /\ Cached(s, n, v) /\ Outdated(s, n, TRUE)
  <2>1. row'[r] = w /\ \A q \in RowId : q # r => row'[q] = row[q]
    BY <1>1, <1>2, <1>7, TypeOfRow
  <2>2. NamesStay
    BY <1>2, <1>4, <2>1 DEF NamesStay, Is
  <2>3. \A m \in Name : m # n => Elsewhere(m)
    BY <1>2, <1>4, <2>1 DEF Elsewhere, Named, Is
  <2>4. /\ cache'[s] = [cache[s] EXCEPT ![n] = v]
        /\ \A t \in Session : t # s => cache'[t] = cache[t]
    BY <1>1, <1>2, <1>4, <1>7, TypeOfCache
  <2>5. /\ \A t \in Session : stale[t] \subseteq stale'[t]
        /\ \A t \in Session : t # s /\ cache[t] # Unread => n \in stale'[t]
        /\ Cardinality(Live(n)) > 1 => n \in stale'[s]
    BY <1>1, <1>2, <1>4, <1>7, TypeOfStale DEF Outdated, TypeOK
  <2>6. \A t \in Session : t # s => Warned(t)
    BY <2>3, <2>5 DEF Warned
  <2>7. Agrees(s)'
    <3> SUFFICES ASSUME NEW m \in Name \ stale'[s]
                 PROVE  IF Live(m)' = {} THEN cache'[s][m] = Empty
                                         ELSE cache'[s][m] \in LiveValues(m)'
      BY DEF Agrees
    <3>1. CASE m = n
      <4>1. Live(n) = {r}
        <5>1. r \in Live(n) /\ ~(Cardinality(Live(n)) > 1)
          BY <1>4, <2>5, <3>1
        <5>2. Live(n) \in SUBSET RowId
          BY DEF Live
        <5> QED
          BY <5>1, <5>2, OnlyOne
      <4>2. Is(r) /\ row[r] \in Record /\ row[r].live /\ row[r].name = n
        BY <1>1, <1>2, <4>1 DEF Live, Is, TypeOK
      <4>3. cache'[s][m] = v
        BY <1>2, <1>4, <2>4, <3>1 DEF Collector
      <4>4. Live(n)' \subseteq {r}
        BY <2>1, <4>1 DEF Live, Is
      <4>5. CASE v = Empty
        <5>1. ~w.live
          BY <1>2, <4>2, <4>5, TouchedRecord DEF Rewritten
        <5>2. Live(n)' = {}
          BY <2>1, <4>4, <5>1 DEF Live
        <5> QED
          BY <3>1, <4>3, <4>5, <5>2
      <4>6. CASE v # Empty
        <5>1. w \in Record /\ w.live /\ w.name = n /\ w.value = v
          BY <1>2, <4>2, <4>6, TouchedRecord DEF Rewritten
        <5>2. r \in Live(n)'
          BY <1>2, <2>1, <5>1 DEF Live, Is
        <5>3. v \in LiveValues(n)'
          BY <2>1, <5>1, <5>2 DEF LiveValues
        <5> QED
          BY <3>1, <4>3, <5>2, <5>3
      <4> QED
        BY <4>5, <4>6
    <3>2. CASE m # n
      <4>1. Live(m)' = Live(m) /\ LiveValues(m)' = LiveValues(m)
        BY <2>3, <3>2, SameLive
      <4>2. cache'[s][m] = cache[s][m] /\ m \notin stale[s]
        BY <1>4, <2>4, <2>5, <3>2 DEF Collector
      <4> QED
        BY <1>1, <1>4, <4>1, <4>2 DEF Agrees
    <3> QED
      BY <3>1, <3>2
  <2> QED
    BY <1>3, <1>5, <2>2, <2>4, <2>6, <2>7 DEF Polite
<1> QED
  BY <1>1, <1>6, <1>7, WriteIs

LEMMA CalmIsPolite ==
  ASSUME ExtensionInv, NEW s \in Session, Calm(s)
  PROVE  Polite(s) /\ CallFits(s)' /\ Agrees(s)' /\ Selected(s)'
PROOF
<1>1. TypeOK /\ CallFits(s) /\ Agrees(s) /\ Selected(s)
  BY DEF ExtensionInv
<1>2. /\ UNCHANGED <<class, row>>
      /\ \A t \in Session : t # s => pc'[t] = pc[t] /\ cache'[t] = cache[t] /\ stale'[t] = stale[t]
  BY <1>1 DEF Calm, GetParameter, SetNew, SetOld, CreateAttachment, ForEach, Unlink, NewBlob,
     WriteContent, ReadContent, RemoveFile, Free, Crash, Goto, TypeOK
<1>3. Polite(s)
  BY <1>2 DEF Polite, NamesStay, Warned, Elsewhere, Is
<1>4. \A n \in Name : Live(n)' = Live(n) /\ LiveValues(n)' = LiveValues(n)
  BY <1>2, SameLive DEF Elsewhere
<1>5. ASSUME UNCHANGED <<cache, stale>> PROVE Agrees(s)'
  BY <1>1, <1>4, <1>5 DEF Agrees
<1>6. CASE GetParameter(s)
  <2>1. pc' = pc /\ At(s, "update") = FALSE /\ pc[s] = Ready /\ class = "parameter"
    BY <1>6 DEF GetParameter, Parameters, At
  <2>2. CallFits(s)' /\ Selected(s)'
    BY <1>2, <2>1 DEF CallFits, Selected, At
  <2>3. CASE /\ \E c \in Collector : Collected(c) /\ cache' = [cache EXCEPT ![s] = c]
             /\ UNCHANGED stale
    <3>1. PICK c \in Collector : Collected(c) /\ cache'[s] = c
      BY <1>1, <2>3 DEF TypeOK
    <3> QED
      BY <1>3, <1>4, <2>2, <3>1 DEF Agrees, Collected
  <2>4. CASE stale' = [stale EXCEPT ![s] = Name]
    BY <1>1, <1>3, <2>2, <2>4 DEF Agrees, TypeOK
  <2> QED
    BY <1>6, <2>3, <2>4 DEF GetParameter, Collector
<1>7. CASE Free(s)
  <2>1. pc' = pc /\ pc[s] = Ready
    BY <1>7 DEF Free
  <2>2. UNCHANGED <<cache, stale>> \/ cache'[s] = Unread
    BY <1>1, <1>7 DEF Free, TypeOK
  <2>3. CallFits(s)' /\ Selected(s)'
    BY <1>1, <1>2, <2>1, <2>2 DEF CallFits, Selected, At
  <2>4. Agrees(s)'
    BY <1>5, <2>2 DEF Agrees
  <2> QED
    BY <1>3, <2>3, <2>4
<1>8. CASE Crash(s)
  <2>1. pc'[s] = Ready /\ cache'[s] = Unread
    BY <1>1, <1>8, TypeOfPc DEF Crash, TypeOK
  <2> QED
    BY <1>2, <1>3, <2>1 DEF CallFits, Selected, Agrees, At
<1>9. CASE SetNew(s)
  <2>1. PICK n \in Name, v \in Value :
          pc'[s] = [op |-> "create", name |-> n, value |-> v, looked |-> TRUE]
    BY <1>1, <1>9 DEF SetNew, Goto, TypeOK
  <2>2. cache' = cache /\ stale' = stale /\ cache[s] # Unread /\ class = "parameter"
    BY <1>9 DEF SetNew, Parameters
  <2>3. CallFits(s)' /\ Selected(s)'
    BY <1>2, <2>1, <2>2 DEF CallFits, Selected, At
  <2> QED
    BY <1>3, <1>5, <2>2, <2>3
<1>10. CASE SetOld(s)
  <2>1. PICK n \in Name, v \in Value \cup {Empty}, r \in RowId :
          r \in Live(n) /\ Goto(s, [op |-> "update", row |-> r, name |-> n, value |-> v])
    BY <1>10 DEF SetOld, Live
  <2>2. PICK c : c = [op |-> "update", row |-> r, name |-> n, value |-> v] /\ pc'[s] = c
    BY <1>1, <2>1 DEF Goto, TypeOK
  <2>3. c.op = "update" /\ c.row = r /\ c.name = n
    BY <2>2
  <2>4. cache' = cache /\ stale' = stale /\ cache[s] # Unread /\ class = "parameter"
    BY <1>10 DEF SetOld, Parameters
  <2>5. CallFits(s)'
    BY <1>2, <2>2, <2>3, <2>4 DEF CallFits, At
  <2>6. row[r] # NoRow /\ row[r].name = n /\ Is(r) /\ r \in Live(n)'
    BY <1>4, <2>1 DEF Live, Is
  <2>7. Selected(s)'
    BY <1>2, <2>2, <2>3, <2>6 DEF Selected, Is
  <2> QED
    BY <1>3, <1>5, <2>4, <2>5, <2>7
<1>11. CASE CreateAttachment(s)
  <2>1. PICK n \in Name, looked \in BOOLEAN :
          pc'[s] = [op |-> "create", name |-> n, value |-> Empty, looked |-> looked]
    BY <1>1, <1>11 DEF CreateAttachment, Goto, TypeOK
  <2>2. cache' = cache /\ stale' = stale /\ class = "attachment"
    BY <1>11 DEF CreateAttachment, Attachments
  <2>3. CallFits(s)' /\ Selected(s)'
    BY <1>1, <1>2, <2>1, <2>2 DEF CallFits, Selected, At
  <2> QED
    BY <1>3, <1>5, <2>2, <2>3
<1>12. CASE ForEach(s)
  <2>1. PICK c : /\ pc'[s] = c /\ c.op \in {"delete", "purge", "unlink"}
                 /\ c.op = "unlink" => class = "attachment"
    <3>1. PICK how, todo : /\ Goto(s, [op |-> how, todo |-> todo])
                           /\ how \in {"delete", "purge", "unlink"}
                           /\ how = "unlink" => class = "attachment"
      BY <1>12 DEF ForEach
    <3>2. pc'[s] = [op |-> how, todo |-> todo]
      BY <1>1, <3>1 DEF Goto, TypeOK
    <3> QED
      BY <3>1, <3>2
  <2>2. cache' = cache /\ stale' = stale
    BY <1>12 DEF ForEach
  <2>3. CallFits(s)' /\ Selected(s)'
    BY <1>1, <1>2, <2>1, <2>2 DEF CallFits, Selected, At
  <2> QED
    BY <1>3, <1>5, <2>2, <2>3
<1>13. CASE Unlink(s)
  <2>1. PICK r, todo : pc'[s] = [op |-> "unlinked", row |-> r, todo |-> todo]
    <3>1. PICK r, todo : Goto(s, [op |-> "unlinked", row |-> r, todo |-> todo])
      BY <1>13 DEF Unlink
    <3> QED
      BY <1>1, <3>1 DEF Goto, TypeOK
  <2>2. cache' = cache /\ stale' = stale /\ class = "attachment"
    BY <1>1, <1>13 DEF Unlink, CallFits
  <2>3. CallFits(s)' /\ Selected(s)'
    BY <1>1, <1>2, <2>1, <2>2 DEF CallFits, Selected, At
  <2> QED
    BY <1>3, <1>5, <2>2, <2>3
<1>14. CASE NewBlob(s) \/ WriteContent(s) \/ ReadContent(s) \/ RemoveFile(s)
  <2>1. UNCHANGED <<row, class, pc, cache, stale>>
    BY <1>14 DEF NewBlob, WriteContent, ReadContent, RemoveFile
  <2>2. CallFits(s)' /\ Selected(s)'
    BY <1>1, <1>4, <2>1, CallIs DEF CallFits, Selected, At, Is, Updating
  <2> QED
    BY <1>3, <1>5, <2>1, <2>2
<1> QED
  BY <1>6, <1>7, <1>8, <1>9, <1>10, <1>11, <1>12, <1>13, <1>14 DEF Calm

-----------------------------------------------------------------------------
(* Files.  Whatever takes no file away from a purge leaves no stray one.      *)
LEMMA FilesStay ==
  ASSUME ExtensionInv, file' \subseteq file, excused \subseteq excused',
         \A r \in file' : row'[r] = Gone => row[r] = Gone \/ r \in excused',
         NEW s \in Session, \A t \in Session : t # s => pc'[t] = pc[t],
         At(s, "unlinked")' => pc'[s].row \notin file' \/ pc'[s].row \in excused'
  PROVE  NoStrayFile' /\ \A t \in Session : UnlinkedFirst(t)'
PROOF
<1>1. NoStrayFile'
  BY DEF ExtensionInv, NoStrayFile
<1>2. ASSUME NEW t \in Session, t # s PROVE UnlinkedFirst(t)'
  BY <1>2 DEF ExtensionInv, UnlinkedFirst, At
<1>3. UnlinkedFirst(s)'
  BY DEF UnlinkedFirst
<1> QED
  BY <1>1, <1>2, <1>3

LEMMA FilesStep ==
  ASSUME ExtensionInv, [Next]_vars
  PROVE  NoStrayFile' /\ \A t \in Session : UnlinkedFirst(t)'
PROOF
<1>1. TypeOK
  BY DEF ExtensionInv
<1>2. CASE UNCHANGED vars
  BY <1>2 DEF vars, ExtensionInv, NoStrayFile, UnlinkedFirst, At
<1>3. ASSUME NEW s \in Session, Insert(s) PROVE NoStrayFile' /\ \A t \in Session : UnlinkedFirst(t)'
  <2>1. pc'[s] = Ready /\ (\A t \in Session : t # s => pc'[t] = pc[t]) /\ UNCHANGED <<file, excused>>
    BY <1>1, <1>3, TypeOfPc, OthersCalls DEF Insert
  <2>2. pc[s].name \in Name /\ pc[s].value \in Value \cup {Empty}
    BY <1>1, <1>3, CallIs DEF Insert, At, Creating
  <2>3. [name |-> pc[s].name, value |-> pc[s].value, live |-> TRUE] \in Record
    BY <2>2 DEF Record
  <2>4. \A r \in RowId : row'[r] = Gone => row[r] = Gone
    BY <1>1, <1>3, <2>3 DEF Insert, NextFree, TypeOK
  <2>5. \A r \in file' : row'[r] = Gone => row[r] = Gone
    BY <1>1, <2>1, <2>4 DEF TypeOK
  <2> QED
    BY <2>1, <2>5, FilesStay DEF At
<1>4. ASSUME NEW s \in Session, Write(s) PROVE NoStrayFile' /\ \A t \in Session : UnlinkedFirst(t)'
  <2>1. pc'[s] = Ready /\ (\A t \in Session : t # s => pc'[t] = pc[t]) /\ UNCHANGED <<file, excused>>
    BY <1>1, <1>4, TypeOfPc, OthersCalls, WriteIs
  <2> PICK r, w : r = pc[s].row /\ w = Rewritten(pc[s])
    OBVIOUS
  <2>2. /\ r \in RowId /\ w \in Record \cup {NoRow, Gone} /\ (w = row[r] \/ w \in Record)
        /\ row' = [row EXCEPT ![r] = w] \/ row' = row
    BY <1>1, <1>4, WriteIs
  <2>3. \A q \in RowId : row'[q] = Gone => row[q] = Gone
    BY <1>1, <2>2, TypeOfRow
  <2>4. \A q \in file' : row'[q] = Gone => row[q] = Gone
    BY <1>1, <2>1, <2>3 DEF TypeOK
  <2> QED
    BY <2>1, <2>4, FilesStay DEF At
<1>5. ASSUME NEW s \in Session, Erase(s) PROVE NoStrayFile' /\ \A t \in Session : UnlinkedFirst(t)'
  <2>1. PICK c \in Looping \cup {Ready} : Goto(s, c)
    BY <1>1, <1>5, EraseIs
  <2>2. pc'[s] = c /\ (\A t \in Session : t # s => pc'[t] = pc[t]) /\ file' = file
    BY <1>1, <1>5, <2>1, EraseIs DEF Goto, TypeOK
  <2>3. ~At(s, "unlinked")'
    BY <2>2 DEF At, Looping
  <2>4. PICK r \in RowId, w \in Record \cup {NoRow, Gone} :
          /\ row' = [row EXCEPT ![r] = w]
          /\ excused' \in {excused, excused \cup {r}}
          /\ w = Gone /\ row[r] # Gone => r \in excused' \/ (At(s, "unlinked") /\ r = pc[s].row)
    BY <1>1, <1>5, EraseIs
  <2>5. row'[r] = w /\ \A q \in RowId : q # r => row'[q] = row[q]
    BY <1>1, <2>4, TypeOfRow
  <2>6. At(s, "unlinked") /\ r = pc[s].row => r \notin file \/ r \in excused
    BY DEF ExtensionInv, UnlinkedFirst
  <2>7. excused \subseteq excused'
    BY <2>4
  <2>8. \A q \in file' : row'[q] = Gone => row[q] = Gone \/ q \in excused'
    BY <1>1, <2>2, <2>4, <2>5, <2>6, <2>7 DEF TypeOK
  <2> QED
    BY <2>2, <2>3, <2>7, <2>8, FilesStay
<1>6. ASSUME NEW s \in Session, Unlink(s) PROVE NoStrayFile' /\ \A t \in Session : UnlinkedFirst(t)'
  <2>1. PICK r, todo : /\ (file' = file \ {r} /\ UNCHANGED excused)
                          \/ (excused' = excused \cup {r} /\ UNCHANGED file)
                       /\ Goto(s, [op |-> "unlinked", row |-> r, todo |-> todo])
    BY <1>6 DEF Unlink
  <2>2. pc'[s] = [op |-> "unlinked", row |-> r, todo |-> todo]
        /\ (\A t \in Session : t # s => pc'[t] = pc[t]) /\ row' = row
    BY <1>1, <1>6, <2>1 DEF Unlink, Goto, TypeOK
  <2>3. pc'[s].row = r
    BY <2>2
  <2> QED
    BY <2>1, <2>2, <2>3, FilesStay
<1>7. ASSUME NEW s \in Session, WriteContent(s) PROVE NoStrayFile' /\ \A t \in Session : UnlinkedFirst(t)'
  <2> PICK r : r = blob[s].row
    OBVIOUS
  <2>1. /\ file' = file \cup {r} /\ UNCHANGED <<row, pc>>
        /\ excused' = IF BeingPurged(r) THEN excused \cup {r} ELSE excused
    BY <1>7 DEF WriteContent
  <2>2. NoStrayFile'
    BY <2>1 DEF ExtensionInv, NoStrayFile, BeingPurged
  <2>3. ASSUME NEW t \in Session PROVE UnlinkedFirst(t)'
    BY <2>1 DEF ExtensionInv, UnlinkedFirst, BeingPurged, At
  <2> QED
    BY <2>2, <2>3
<1>8. ASSUME NEW s \in Session, Calm(s), ~Unlink(s), ~WriteContent(s)
      PROVE  NoStrayFile' /\ \A t \in Session : UnlinkedFirst(t)'
  <2>1. /\ UNCHANGED <<row, excused>> /\ file' \subseteq file
        /\ \A t \in Session : t # s => pc'[t] = pc[t]
    BY <1>1, <1>8 DEF Calm, GetParameter, SetNew, SetOld, CreateAttachment, ForEach, NewBlob,
       ReadContent, RemoveFile, Free, Crash, Goto, TypeOK
  <2>2. At(s, "unlinked")' => pc'[s] = pc[s]
    <3>1. CASE pc' = pc
      BY <3>1
    <3>2. ASSUME NEW c, Goto(s, c), c = Ready \/ c.op # "unlinked" PROVE ~At(s, "unlinked")'
      BY <1>1, <3>2 DEF Goto, At, TypeOK
    <3>3. CASE SetNew(s) \/ CreateAttachment(s)
      <4>1. PICK n, v, l : Goto(s, [op |-> "create", name |-> n, value |-> v, looked |-> l])
        BY <3>3 DEF SetNew, CreateAttachment
      <4> QED
        BY <3>2, <4>1
    <3>4. CASE SetOld(s)
      <4>1. PICK n, v, r : Goto(s, [op |-> "update", row |-> r, name |-> n, value |-> v])
        BY <3>4 DEF SetOld
      <4> QED
        BY <3>2, <4>1
    <3>5. CASE ForEach(s)
      <4>1. PICK how, todo : how # "unlinked" /\ Goto(s, [op |-> how, todo |-> todo])
        BY <3>5 DEF ForEach
      <4> QED
        BY <3>2, <4>1
    <3>6. CASE Crash(s)
      BY <3>2, <3>6 DEF Crash
    <3> QED
      BY <1>8, <3>1, <3>3, <3>4, <3>5, <3>6 DEF Calm, GetParameter, NewBlob, ReadContent,
         RemoveFile, Free
  <2>3. At(s, "unlinked")' => pc'[s].row \notin file' \/ pc'[s].row \in excused'
    BY <2>1, <2>2 DEF ExtensionInv, UnlinkedFirst, At
  <2> QED
    BY <2>1, <2>3, FilesStay
<1> QED
  BY <1>2, <1>3, <1>4, <1>5, <1>6, <1>7, <1>8 DEF Next, Calm, Erase

-----------------------------------------------------------------------------
LEMMA ExtensionInit == Init => ExtensionInv
PROOF
<1> SUFFICES ASSUME Init PROVE ExtensionInv
  OBVIOUS
<1>1. NoStrayFile
  BY DEF Init, NoStrayFile
<1>2. \A s \in Session : CallFits(s) /\ Agrees(s) /\ Selected(s) /\ UnlinkedFirst(s)
  BY DEF Init, CallFits, Agrees, Selected, UnlinkedFirst, At
<1> QED
  BY <1>1, <1>2, TypeInit DEF ExtensionInv

LEMMA ExtensionStep == ExtensionInv /\ [Next]_vars => ExtensionInv'
PROOF
<1> SUFFICES ASSUME ExtensionInv, [Next]_vars
             PROVE  \A t \in Session : CallFits(t)' /\ Agrees(t)' /\ Selected(t)'
  BY TypeStep, FilesStep DEF ExtensionInv
<1>1. CASE UNCHANGED vars
  BY <1>1 DEF vars, ExtensionInv, CallFits, Agrees, Selected, At, Live, LiveValues, Is
<1>2. ASSUME NEW s \in Session, Insert(s) \/ Write(s) \/ Erase(s) \/ Calm(s)
      PROVE  \A t \in Session : CallFits(t)' /\ Agrees(t)' /\ Selected(t)'
  BY <1>2, OthersKeep, InsertIsPolite, WriteIsPolite, EraseIsPolite, CalmIsPolite
<1> QED
  BY <1>1, <1>2 DEF Next, Calm, Erase

(* Whatever sessions do, and wherever they die or are refused: the collector  *)
(* of a session is right about what nobody else wrote, what it is about to    *)
(* update is what it selected, and a file goes before its attachment.         *)
THEOREM ExtensionInvariant == Spec => []ExtensionInv
PROOF
  BY ExtensionInit, ExtensionStep, PTL DEF Spec

(* set_parameter keeps the collector of the instance and the table together,  *)
(* for any number of sessions, names and values.                              *)
THEOREM CollectorsAgree == Spec => []FreshCacheAgrees
PROOF
<1>1. ExtensionInv => FreshCacheAgrees
  BY DEF ExtensionInv, Agrees, FreshCacheAgrees
<1> QED
  BY <1>1, ExtensionInvariant, PTL

(* No file outlives its purged attachment but those that were to be kept,     *)
(* could not be removed or were written again.                                *)
THEOREM FilesGo == Spec => []NoStrayFile
PROOF
<1>1. ExtensionInv => NoStrayFile
  BY DEF ExtensionInv
<1> QED
  BY <1>1, ExtensionInvariant, PTL

-----------------------------------------------------------------------------
(* Names.  The records of a name that were looked up before, and the sessions *)
(* about to create one.                                                       *)
Seen(n) == Live(n) \ unseen
Creators(n) == {s \in Session : At(s, "create") /\ pc[s].name = n /\ pc[s].looked}
Bounded(n) == Cardinality(Seen(n)) + Cardinality(Creators(n)) <= Cardinality(Session)

LEMMA NamesAreFinite ==
  ASSUME NEW n
  PROVE  /\ IsFiniteSet(Seen(n)) /\ Cardinality(Seen(n)) \in Nat
         /\ IsFiniteSet(Creators(n)) /\ Cardinality(Creators(n)) \in Nat
         /\ Cardinality(Session) \in Nat /\ Cardinality(Creators(n)) <= Cardinality(Session)
PROOF
<1>1. IsFiniteSet(RowId) /\ Seen(n) \in SUBSET RowId
  BY FS_Interval DEF RowId, Live, Seen
<1>2. Creators(n) \in SUBSET Session
  BY DEF Creators
<1>3. IsFiniteSet(Seen(n)) /\ IsFiniteSet(Creators(n)) /\ Cardinality(Creators(n)) <= Cardinality(Session)
  BY <1>1, <1>2, FS_Subset
<1> QED
  BY <1>3, FS_CardinalityType

(* Fewer records and fewer creators. *)
LEMMA FewerNames ==
  ASSUME NEW n, Bounded(n), NEW L \in SUBSET Seen(n), NEW C \in SUBSET Creators(n)
  PROVE  Cardinality(L) + Cardinality(C) <= Cardinality(Session)
PROOF
<1>1. Cardinality(L) <= Cardinality(Seen(n)) /\ IsFiniteSet(L)
  BY NamesAreFinite, FS_Subset
<1>2. Cardinality(C) <= Cardinality(Creators(n)) /\ IsFiniteSet(C)
  BY NamesAreFinite, FS_Subset
<1>3. Cardinality(L) \in Nat /\ Cardinality(C) \in Nat
  BY <1>1, <1>2, FS_CardinalityType
<1> QED
  BY <1>1, <1>2, <1>3, NamesAreFinite DEF Bounded

(* A creator becomes a record. *)
LEMMA CreatorsTurn ==
  ASSUME NEW n, Bounded(n), NEW s \in Creators(n), NEW r, NEW L \in SUBSET (Seen(n) \cup {r}),
         NEW C \in SUBSET (Creators(n) \ {s})
  PROVE  Cardinality(L) + Cardinality(C) <= Cardinality(Session)
PROOF
<1> PICK M, D : M = Seen(n) \cup {r} /\ D = Creators(n) \ {s}
  OBVIOUS
<1>1. IsFiniteSet(M) /\ Cardinality(M) <= Cardinality(Seen(n)) + 1
  <2>1. IsFiniteSet(Seen(n)) /\ Cardinality(Seen(n)) \in Nat
    BY NamesAreFinite
  <2>2. /\ IsFiniteSet(M)
        /\ Cardinality(M) = IF r \in Seen(n) THEN Cardinality(Seen(n)) ELSE Cardinality(Seen(n)) + 1
    BY <2>1, FS_AddElement
  <2> QED
    BY <2>1, <2>2
<1>2. IsFiniteSet(D) /\ Cardinality(D) = Cardinality(Creators(n)) - 1
  BY NamesAreFinite, FS_RemoveElement
<1>3. IsFiniteSet(L) /\ Cardinality(L) <= Cardinality(M)
  BY <1>1, FS_Subset
<1>4. IsFiniteSet(C) /\ Cardinality(C) <= Cardinality(D)
  BY <1>2, FS_Subset
<1>5. /\ Cardinality(L) \in Nat /\ Cardinality(C) \in Nat
      /\ Cardinality(M) \in Nat /\ Cardinality(D) \in Nat
  BY <1>1, <1>2, <1>3, <1>4, FS_CardinalityType
<1> QED
  BY <1>1, <1>2, <1>3, <1>4, <1>5, NamesAreFinite DEF Bounded

LEMMA NamesStep ==
  ASSUME ExtensionInv, class = "attachment", [Next]_vars, NEW n \in Name, Bounded(n)
  PROVE  Bounded(n)'
PROOF
<1>1. TypeOK
  BY DEF ExtensionInv
<1>2. ASSUME Seen(n)' \subseteq Seen(n), Creators(n)' \subseteq Creators(n) PROVE Bounded(n)'
  BY <1>2, FewerNames DEF Bounded
<1>3. ASSUME row' = row, unseen' = unseen PROVE Seen(n)' = Seen(n)
  BY <1>3 DEF Live, Is, Seen
<1>4. CASE UNCHANGED vars
  BY <1>2, <1>3, <1>4 DEF vars, Creators, At
<1>5. ASSUME NEW s \in Session, NEW c, Goto(s, c), c = Ready \/ c.op # "create"
      PROVE  Creators(n)' \subseteq Creators(n) \ {s}
  BY <1>1, <1>5 DEF Creators, At, Goto, TypeOK
<1>6. ASSUME NEW s \in Session, Insert(s) PROVE Bounded(n)'
  <2>1. Creators(n)' \subseteq Creators(n) \ {s}
    BY <1>5, <1>6 DEF Insert
  <2>2. CASE row' = row /\ unseen' = unseen
    BY <1>2, <1>3, <2>1, <2>2
  <2>3. CASE \E r \in NextFree :
               /\ row' = [row EXCEPT ![r] = [name |-> pc[s].name, value |-> pc[s].value, live |-> TRUE]]
               /\ unseen' = IF pc[s].looked THEN unseen ELSE unseen \cup {r}
    <3>1. PICK r \in RowId :
            /\ row' = [row EXCEPT ![r] = [name |-> pc[s].name, value |-> pc[s].value, live |-> TRUE]]
            /\ unseen' = IF pc[s].looked THEN unseen ELSE unseen \cup {r}
      BY <2>3 DEF NextFree
    <3>2. \A q \in RowId : q # r => row'[q] = row[q]
      BY <3>1
    <3>3. CASE pc[s].name = n /\ pc[s].looked
      <4>1. s \in Creators(n)
        BY <1>6, <3>3 DEF Insert, Creators, At
      <4>2. Seen(n)' \subseteq Seen(n) \cup {r}
        BY <3>1, <3>2, <3>3 DEF Live, Is, Seen
      <4> QED
        BY <2>1, <4>1, <4>2, CreatorsTurn DEF Bounded
    <3>4. CASE pc[s].name # n
      <4>1. row'[r].name # n
        BY <1>1, <3>1, <3>4 DEF TypeOK
      <4>2. Seen(n)' \subseteq Seen(n)
        BY <3>1, <3>2, <4>1 DEF Live, Is, Seen
      <4> QED
        BY <1>2, <2>1, <4>2
    <3>5. CASE ~pc[s].looked
      <4>1. Seen(n)' \subseteq Seen(n)
        BY <3>1, <3>2, <3>5 DEF Live, Is, Seen
      <4> QED
        BY <1>2, <2>1, <4>1
    <3> QED
      BY <3>3, <3>4, <3>5
  <2> QED
    BY <1>6, <2>2, <2>3 DEF Insert
<1>7. ASSUME NEW s \in Session, Write(s) PROVE FALSE
  BY <1>1, <1>7, WriteIs DEF ExtensionInv, CallFits
<1>8. ASSUME NEW s \in Session, Erase(s) PROVE Bounded(n)'
  <2>1. PICK c \in Looping \cup {Ready} : Goto(s, c)
    BY <1>1, <1>8, EraseIs
  <2>2. Creators(n)' \subseteq Creators(n)
    BY <1>5, <2>1 DEF Looping
  <2>3. PICK r \in RowId, w \in Record \cup {NoRow, Gone} :
          /\ row' = [row EXCEPT ![r] = w]
          /\ w = row[r] \/ (Is(r) /\ (w = Gone \/ (w \in Record /\ ~w.live)))
    BY <1>1, <1>8, EraseIs
  <2>4. row'[r] = w /\ \A q \in RowId : q # r => row'[q] = row[q]
    BY <1>1, <2>3, TypeOfRow
  <2>5. Seen(n)' \subseteq Seen(n)
    <3>1. unseen' = unseen
      BY <1>8 DEF Erase, DeleteEach, PurgeEach, PurgeUnlinked
    <3> QED
      BY <2>3, <2>4, <3>1 DEF Live, Is, Seen
  <2> QED
    BY <1>2, <2>2, <2>5
<1>9. ASSUME NEW s \in Session, CreateAttachment(s) PROVE Bounded(n)'
  <2>1. PICK m \in Name, looked \in BOOLEAN :
          /\ looked => Live(m) = {}
          /\ Goto(s, [op |-> "create", name |-> m, value |-> Empty, looked |-> looked])
    BY <1>9 DEF CreateAttachment
  <2>2. /\ pc'[s] = [op |-> "create", name |-> m, value |-> Empty, looked |-> looked]
        /\ row' = row /\ unseen' = unseen
        /\ \A t \in Session : t # s => pc'[t] = pc[t]
    BY <1>1, <1>9, <2>1, OthersCalls DEF CreateAttachment, Goto, TypeOK
  <2>3. CASE n = m /\ looked
    <3>1. Seen(n)' = {}
      BY <1>3, <2>1, <2>2, <2>3 DEF Seen
    <3>2. Creators(n)' \in SUBSET Session
      BY DEF Creators
    <3>3. /\ Cardinality(Creators(n)') <= Cardinality(Session)
          /\ Cardinality(Creators(n)') \in Nat
      BY <3>2, FS_Subset, FS_CardinalityType
    <3> QED
      BY <3>1, <3>3, FS_EmptySet, NamesAreFinite DEF Bounded
  <2>4. CASE n # m \/ ~looked
    <3>1. pc'[s].name = m /\ pc'[s].looked = looked
      BY <2>2
    <3>2. Creators(n)' \subseteq Creators(n)
      BY <2>2, <2>4, <3>1 DEF Creators, At
    <3> QED
      BY <1>2, <1>3, <2>2, <3>2
  <2> QED
    BY <2>3, <2>4
<1>10. ASSUME NEW s \in Session, Calm(s), ~CreateAttachment(s) PROVE Bounded(n)'
  <2>1. row' = row /\ unseen' = unseen
    BY <1>10 DEF Calm, GetParameter, SetNew, SetOld, CreateAttachment, ForEach, Unlink, NewBlob,
       WriteContent, ReadContent, RemoveFile, Free, Crash
  <2>2. ~GetParameter(s) /\ ~SetNew(s) /\ ~SetOld(s)
    BY DEF GetParameter, SetNew, SetOld, Parameters
  <2>3. CASE ForEach(s)
    <3>1. PICK how, todo : how # "create" /\ Goto(s, [op |-> how, todo |-> todo])
      BY <2>3 DEF ForEach
    <3> QED
      BY <1>2, <1>3, <1>5, <2>1, <3>1
  <2>4. CASE Unlink(s)
    <3>1. PICK r, todo : Goto(s, [op |-> "unlinked", row |-> r, todo |-> todo])
      BY <2>4 DEF Unlink
    <3> QED
      BY <1>2, <1>3, <1>5, <2>1, <3>1
  <2>5. CASE Crash(s)
    BY <1>2, <1>3, <1>5, <2>1, <2>5 DEF Crash
  <2>6. CASE pc' = pc
    BY <1>2, <1>3, <2>1, <2>6 DEF Creators, At
  <2> QED
    BY <1>10, <2>2, <2>3, <2>4, <2>5, <2>6 DEF Calm, NewBlob, WriteContent, ReadContent,
       RemoveFile, Free
<1> QED
  BY <1>4, <1>6, <1>7, <1>8, <1>9, <1>10 DEF Next, Calm, Erase

(* The class of a behaviour does not change. *)
LEMMA ClassStays == [Next]_vars => class' = class
PROOF
  BY DEF vars, Next, GetParameter, SetNew, SetOld, CreateAttachment, Insert, Write, ForEach,
     DeleteEach, PurgeEach, Unlink, PurgeUnlinked, NewBlob, WriteContent, ReadContent,
     RemoveFile, Free, Crash

LEMMA NamesInit == Init => NamesPerSession
PROOF
<1> SUFFICES ASSUME Init, NEW n \in Name PROVE Bounded(n)
  BY DEF NamesPerSession, Bounded, Creators, Seen
<1>1. Seen(n) = {} /\ Creators(n) = {}
  BY DEF Init, Live, Is, Seen, Creators, At
<1> QED
  BY <1>1, FS_EmptySet, NamesAreFinite DEF Bounded

(* Sessions that look up the name of an attachment at the same time create    *)
(* duplicates, but never more than there are sessions, however many there are *)
(* and however many records were created after a refused look-up.             *)
THEOREM NamesBounded == Spec => []NamesPerSession
PROOF
<1>1. NamesPerSession <=> (class = "attachment" => \A n \in Name : Bounded(n))
  BY DEF NamesPerSession, Bounded, Creators, Seen
<1>2. ExtensionInv /\ NamesPerSession /\ [Next]_vars => NamesPerSession'
  <2> SUFFICES ASSUME ExtensionInv, NamesPerSession, [Next]_vars, class' = "attachment",
                      NEW n \in Name
               PROVE  Bounded(n)'
    BY DEF NamesPerSession, Bounded, Creators, Seen
  <2> QED
    BY <1>1, ClassStays, NamesStep
<1> QED
  BY <1>2, NamesInit, ExtensionInvariant, PTL DEF Spec

==============================================================================
