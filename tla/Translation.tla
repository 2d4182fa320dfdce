---------------------------- MODULE Translation ----------------------------
(***************************************************************************)
(* Multilingual objects: a record in the table of the class and, for every *)
(* language, a record of texts that names it (src/src/types.c), and the    *)
(* import of documents that hold an object in several languages            *)
(* (src/src/midgard_replicator.c).                                         *)
(*                                                                         *)
(* Every action is one statement.  The entry of the catalogue is written   *)
(* together with the record here; ObjectStore has the two apart.           *)
(***************************************************************************)
EXTENDS Naturals, Sequences, FiniteSets, FiniteSetsExt, SequencesExt

CONSTANTS
  Session,   \* client processes of one sitegroup
  Guid,
  Name, Body,
  Lang,      \* language ids; 0 is the one without code
  Spoken,    \* those of them the connections are set to
  Default,   \* the default language of the connections
  Docs,      \* what other sites export: [guid, name, deleted, nodes]
  NoRow, Idle,
  MaxRow, MaxText,    \* bounds: how many records and texts are ever inserted
  MaxCalls,           \* bound: how many calls are ever begun
  MayCrash, MayFail   \* may a process die, or a statement be refused?  Once

RowId == 1..MaxRow
TextId == 1..MaxText

DocBodies == UNION {{n.body : n \in ToSet(d.nodes)} : d \in Docs}
Names == Name \cup {d.name : d \in Docs} \cup {NoRow}
Bodies == Body \cup DocBodies \cup {NoRow}
Stage == {"live", "deleted", "purged"}

Record == [guid : Guid, name : Names, stage : Stage]
Text == [sid : RowId, lang : Lang, body : Bodies]

(* The call a session is in; Blank tells what its fields are. *)
Calls == {"hold", "create", "update", "delete", "purge", "import"}
Steps == {"held", "insert", "row", "look", "id", "write", "add", "count", "cut", "mark", "texts",
          "db", "undelete", "name", "find", "langs", "trim", "end"}
Call == [op : Calls, pc : Steps,
         guid : Guid, id : RowId \cup {0}, lang : Lang, name : Names, body : Bodies,
         l : Lang, d : Lang, found : TextId \cup {0}, conn : Lang, doc : Docs \cup {NoRow}, at : Nat,
         ok : BOOLEAN, trim : SUBSET Lang]

(* A document has a node for every language of its object, of which the
   exporter's list has each once (midgard_object_get_languages). *)
ASSUME TranslationAssumption ==
  /\ 0 \in Lang /\ Default \in Lang /\ Spoken \subseteq Lang /\ Lang \subseteq Nat
  /\ MaxRow \in Nat /\ MaxText \in Nat /\ MaxCalls \in Nat
  /\ \A d \in Docs :
       /\ d.guid \in Guid /\ d.deleted \in BOOLEAN
       /\ d.nodes \in Seq([lang : Lang, body : DocBodies]) /\ Len(d.nodes) > 0
       /\ \A m, n \in 1..Len(d.nodes) : d.nodes[m].lang = d.nodes[n].lang => m = n
  /\ NoRow \notin Record \cup Text \cup Docs /\ Idle \notin Call

VARIABLES
  row,     \* row id -> a record; a purged one is kept for history
  text,    \* text id -> a text
  nextId, nextText,
  entry,   \* the catalogue: guid -> its stage, or "none"
  call,    \* the call each session is in
  calls,   \* how many calls were begun
  late,    \* history: sessions overtaken on their object during their call
  torn,    \* history: objects that were written by such a session, or half
  faults   \* history: what went wrong, "crash" and "refusal"

tables == <<row, text, nextId, nextText, entry>>
vars == <<tables, call, calls, late, torn, faults>>

RowsOf(g) == {i \in RowId : row[i] # NoRow /\ row[i].guid = g /\ row[i].stage # "purged"}
LiveOf(g) == {i \in RowsOf(g) : row[i].stage = "live"}
TextsOf(i) == {k \in TextId : text[k] # NoRow /\ text[k].sid = i}
InLang(i, l) == {k \in TextsOf(i) : text[k].lang = l}
LangsOf(ids) == {text[k].lang : k \in UNION {TextsOf(i) : i \in ids}}

(* The text a query in language l picks, with d for a fallback; 0: none, and
   the object is not found. *)
Picked(i, l, d) ==
  CASE InLang(i, l) # {} -> Min(InLang(i, l))
    [] InLang(i, l) = {} /\ InLang(i, d) # {} -> Min(InLang(i, d))
    [] OTHER -> 0

(* _object_in_tree, for an instance in language `own': what the first object
   of this name that the query finds is to it. *)
InTree(g, n, own, l, d) ==
  LET same == {i \in UNION {LiveOf(x) : x \in Guid} : row[i].name = n /\ Picked(i, l, d) # 0}
  IN  CASE same = {} -> "none"
        [] same # {} /\ text[Picked(Min(same), l, d)].lang # own -> "other language"
        [] OTHER -> IF row[Min(same)].guid = g THEN "none" ELSE "duplicate"

-----------------------------------------------------------------------------
(* A connection can be set to another language between two calls, so each
   call has one of its own.  A call: `lang' of the instance; `l' and `d', the
   language and the default language it runs in; `found', the text an update
   is about; of an import the document, the node it is at, whether all nodes
   could be imported, the language of the connection (which `l' is set back
   to at the end) and the languages to be removed. *)
Blank == [op |-> "hold", pc |-> "held", guid |-> CHOOSE g \in Guid : TRUE, id |-> 0, lang |-> 0,
          name |-> NoRow, body |-> NoRow, l |-> Default, d |-> Default, found |-> 0,
          conn |-> Default, doc |-> NoRow, at |-> 0, ok |-> TRUE, trim |-> {}]

Init ==
  /\ row = [i \in RowId |-> NoRow] /\ nextId = 1
  /\ text = [k \in TextId |-> NoRow] /\ nextText = 1
  /\ entry = [g \in Guid |-> "none"]
  /\ call = [s \in Session |-> Idle] /\ calls = 0
  /\ late = {} /\ torn = {} /\ faults = {}

Begin(s, c) ==
  /\ call[s] = Idle /\ calls < MaxCalls
  /\ call' = [call EXCEPT ![s] = c] /\ calls' = calls + 1
  /\ late' = late \ {s}
In(s, pc) == call[s] # Idle /\ call[s].pc = pc
To(s, c) == call' = [call EXCEPT ![s] = c] /\ UNCHANGED calls
Go(s, pc) == call' = [call EXCEPT ![s].pc = pc] /\ UNCHANGED calls

(* The call ends; an import goes on with the next node, or with what is to be
   removed. *)
Return(s, ok) ==
  LET c == call[s]
      last == c.doc # NoRow /\ c.at = Len(c.doc.nodes)
  IN  IF c.op # "import" THEN To(s, Idle)
      ELSE To(s, [Blank EXCEPT !.op = "import", !.guid = c.guid, !.doc = c.doc, !.conn = c.conn,
                               !.ok = c.ok /\ ok, !.at = IF last THEN c.at ELSE c.at + 1,
                               !.pc = IF last THEN "find" ELSE "db"])

(* _build_create_or_update_query: the properties of an instance, by the table
   they are kept in. *)
RecordColumns(c, stage) == [guid |-> c.guid, name |-> c.name, stage |-> stage]
TextColumns(c, sid) == [sid |-> sid, lang |-> c.l, body |-> c.body]

Reads == UNCHANGED <<tables, torn, faults>>

(* A session writes to an object: who is in a call on it has been overtaken. *)
Writes(s, g) ==
  /\ late' = late \cup {t \in Session \ {s} : call[t] # Idle /\ call[t].guid = g}
  /\ torn' = IF s \in late THEN torn \cup {g} ELSE torn
  /\ UNCHANGED faults

Refused(s) ==
  /\ MayFail /\ faults = {}
  /\ faults' = {"refusal"}
  /\ late' = late \cup {s}
  /\ UNCHANGED torn

(* A live object that has a text in the language or the default one. *)
Fetch(s, i, l) ==
  /\ row[i] # NoRow /\ row[i].stage = "live"
  /\ LET p == Picked(i, l, Default)
     IN  p # 0 /\ Begin(s, [Blank EXCEPT !.guid = row[i].guid, !.id = i, !.lang = text[p].lang])
  /\ Reads

Release(s) == In(s, "held") /\ To(s, Idle) /\ UNCHANGED late /\ Reads

-----------------------------------------------------------------------------
(* midgard_object_create: the guid is new.  If the first object of that name
   is there in another language only, the call goes on as an update of the
   new instance, which matches no record, writes nothing and answers TRUE. *)
Create(s, g, n, b, l) ==
  /\ entry[g] = "none" /\ \A d \in Docs : d.guid # g
  /\ \A t \in Session : call[t] # Idle => call[t].guid # g
  /\ LET tree == InTree(g, n, l, l, Default)
         c == [Blank EXCEPT !.guid = g, !.name = n, !.body = b, !.l = l]
     IN  \/ tree = "none" /\ Begin(s, [c EXCEPT !.op = "create", !.pc = "insert"])
         \/ tree = "other language" /\ Begin(s, [c EXCEPT !.op = "update", !.pc = "row"])
  /\ Reads

(* midgard_object_update, in the language the connection has now, whatever
   the instance was read in. *)
Update(s, n, b, l) ==
  /\ In(s, "held")
  /\ InTree(call[s].guid, n, call[s].lang, l, Default) # "duplicate"
  /\ To(s, [call[s] EXCEPT !.op = "update", !.pc = "row", !.id = 0, !.lang = 0,
                           !.name = n, !.body = b, !.l = l])
  /\ UNCHANGED late /\ Reads

(* The record, whatever its stage, and if there is none; its entry says that the
   object was updated then, also if it said deleted or purged. *)
UpdateRow(s) ==
  /\ In(s, "row")
  /\ LET g == call[s].guid
     IN  \/ /\ row' = [i \in RowId |-> IF i \in RowsOf(g) THEN [row[i] EXCEPT !.name = call[s].name] ELSE row[i]]
            /\ entry' = [entry EXCEPT ![g] = IF @ = "none" THEN @ ELSE "live"]
            /\ Go(s, "look") /\ Writes(s, g)
         \/ Return(s, FALSE) /\ UNCHANGED <<row, entry>> /\ Refused(s)
  /\ UNCHANGED <<text, nextId, nextText>>

(* Mutant: any text of the object will do. *)
LookAnyText(s) ==
  /\ In(s, "look")
  /\ LET mine == UNION {TextsOf(i) : i \in RowsOf(call[s].guid)}
     IN  \/ mine # {} /\ To(s, [call[s] EXCEPT !.pc = "write", !.found = Min(mine)]) /\ Reads /\ UNCHANGED late
         \/ mine = {} /\ Go(s, "id") /\ Reads /\ UNCHANGED late

(* _update_records: the text of this language, which is updated if there is
   one; one that could not be looked up is taken for missing. *)
LookText(s) ==
  /\ In(s, "look")
  /\ LET mine == UNION {InLang(i, call[s].l) : i \in RowsOf(call[s].guid)}
     IN  \/ mine # {} /\ To(s, [call[s] EXCEPT !.pc = "write", !.found = Min(mine)]) /\ Reads /\ UNCHANGED late
         \/ mine = {} /\ Go(s, "id") /\ Reads /\ UNCHANGED late
         \/ Go(s, "id") /\ Refused(s) /\ UNCHANGED tables

LookRow(s) ==
  /\ In(s, "id")
  /\ LET ids == RowsOf(call[s].guid)
     IN  IF ids = {} THEN Return(s, TRUE)
         ELSE To(s, [call[s] EXCEPT !.pc = "add", !.id = Min(ids)])
  /\ UNCHANGED late /\ Reads

WriteText(s) ==
  /\ In(s, "write")
  /\ LET c == call[s]
     IN  \/ /\ text' = IF text[c.found] = NoRow THEN text
                       ELSE [text EXCEPT ![c.found] = TextColumns(c, @.sid)]
            /\ Writes(s, c.guid)
         \/ UNCHANGED text /\ Refused(s)
  /\ Return(s, TRUE)
  /\ UNCHANGED <<row, nextId, nextText, entry>>

(* ... else inserted; so does _insert_records for a new object. *)
AddText(s) ==
  /\ In(s, "add") /\ nextText \in TextId
  /\ LET c == call[s]
     IN  \/ /\ text' = [text EXCEPT ![nextText] = TextColumns(c, c.id)]
            /\ nextText' = nextText + 1 /\ Writes(s, c.guid)
         \/ /\ UNCHANGED <<text, nextText, late>> /\ MayFail /\ faults = {}
            /\ faults' = {"refusal"} /\ torn' = torn \cup {c.guid}
  /\ Return(s, TRUE)
  /\ UNCHANGED <<row, nextId, entry>>

InsertRow(s) ==
  /\ In(s, "insert") /\ nextId \in RowId
  /\ LET c == call[s]
         stage == IF c.doc # NoRow /\ c.doc.deleted THEN "deleted" ELSE "live"
     IN  \/ /\ row' = [row EXCEPT ![nextId] = RecordColumns(c, stage)]
            /\ nextId' = nextId + 1 /\ entry' = [entry EXCEPT ![c.guid] = "live"]
            /\ To(s, [c EXCEPT !.pc = "add", !.id = nextId]) /\ Writes(s, c.guid)
         \/ Return(s, FALSE) /\ UNCHANGED <<row, nextId, entry>> /\ Refused(s)
  /\ UNCHANGED <<text, nextText>>

-----------------------------------------------------------------------------
(* midgard_object_delete: in another language than the default one only the
   text of that language, if there is more than one language. *)
Delete(s, l) ==
  /\ In(s, "held")
  /\ To(s, [call[s] EXCEPT !.op = "delete", !.l = l,
                           !.pc = IF l = Default THEN "mark" ELSE "count"])
  /\ UNCHANGED late /\ Reads

(* Mutant: one language is enough. *)
CountAny(s) ==
  /\ In(s, "count")
  /\ Go(s, IF LangsOf(LiveOf(call[s].guid)) # {} THEN "cut" ELSE "mark")
  /\ UNCHANGED late /\ Reads

Count(s) ==
  /\ In(s, "count")
  /\ Go(s, IF Cardinality(LangsOf(LiveOf(call[s].guid))) > 1 THEN "cut" ELSE "mark")
  /\ UNCHANGED late /\ Reads

Without(doomed) == [k \in TextId |-> IF k \in doomed THEN NoRow ELSE text[k]]

Cut(s) ==
  /\ In(s, "cut")
  /\ \/ text' = Without(InLang(call[s].id, call[s].l)) /\ Writes(s, call[s].guid)
     \/ UNCHANGED text /\ Refused(s)
  /\ Return(s, TRUE)
  /\ UNCHANGED <<row, nextId, nextText, entry>>

Staged(g, stage) ==
  /\ row' = [i \in RowId |-> IF i \in RowsOf(g) THEN [row[i] EXCEPT !.stage = stage] ELSE row[i]]
  /\ entry' = [entry EXCEPT ![g] = IF @ = "none" THEN @ ELSE stage]

Mark(s) ==
  /\ In(s, "mark")
  /\ \/ Staged(call[s].guid, "deleted") /\ Writes(s, call[s].guid) /\ Return(s, TRUE)
     \/ UNCHANGED <<row, entry>> /\ Refused(s) /\ Return(s, FALSE)
  /\ UNCHANGED <<text, nextId, nextText>>

(* midgard_object_purge: the record, then the texts that name its id.  A
   refused DELETE of the record is taken for success. *)
Purge(s) ==
  /\ In(s, "held")
  /\ LET g == call[s].guid
     IN  \/ RowsOf(g) = {} /\ To(s, Idle) /\ UNCHANGED <<row, entry, late, torn, faults>>
         \/ /\ RowsOf(g) # {} /\ Staged(g, "purged") /\ Writes(s, g)
            /\ To(s, [call[s] EXCEPT !.op = "purge", !.pc = "texts"])
         \/ /\ UNCHANGED row /\ entry' = [entry EXCEPT ![g] = "purged"] /\ Refused(s)
            /\ To(s, [call[s] EXCEPT !.op = "purge", !.pc = "texts"])
  /\ UNCHANGED <<text, nextId, nextText>>

PurgeTexts(s) ==
  /\ In(s, "texts")
  /\ \/ text' = Without(TextsOf(call[s].id)) /\ Writes(s, call[s].guid)
     \/ /\ UNCHANGED <<text, late>> /\ MayFail /\ faults = {}
        /\ faults' = {"refusal"} /\ torn' = torn \cup {call[s].guid}
  /\ Return(s, TRUE)
  /\ UNCHANGED <<row, nextId, nextText, entry>>

(* midgard_object_undelete, which finds the record by its guid. *)
Undelete(s, g) ==
  /\ call[s] = Idle /\ calls < MaxCalls /\ calls' = calls + 1
  /\ \E i \in RowsOf(g) : row[i].stage = "deleted"
  /\ Staged(g, "live")
  /\ late' = late \cup {t \in Session : call[t] # Idle /\ call[t].guid = g}
  /\ UNCHANGED <<text, nextId, nextText, call, torn, faults>>

-----------------------------------------------------------------------------
(* midgard_replicator_import_from_xml: a node for each language, imported in
   that language as it is the default one; then the languages the document
   does not have are removed. *)
Import(s, d, l) ==
  /\ Begin(s, [Blank EXCEPT !.op = "import", !.doc = d, !.guid = d.guid, !.at = 1, !.conn = l, !.pc = "db"])
  /\ Reads

(* Mutant: the object is looked up in the language of the node. *)
InDatabaseInLang(g, l) == {i \in RowsOf(g) : InLang(i, l) # {}}

(* The object in whatever language, deleted or not. *)
InDatabase(g, l) == {i \in RowsOf(g) : TextsOf(i) # {}}

(* midgard_replicator_import_object; an object without texts is found by its
   entry only, and created once more. *)
ImportLook(s) ==
  /\ In(s, "db")
  /\ LET c == call[s]
         node == c.doc.nodes[c.at]
         there == InDatabase(c.guid, node.lang)
         new == [c EXCEPT !.name = c.doc.name, !.body = node.body, !.l = node.lang, !.d = node.lang]
         Missing == IF entry[c.guid] \in {"none", "live"} THEN To(s, [new EXCEPT !.pc = "name"])
                    ELSE Return(s, FALSE)
     IN  \/ there = {} /\ Missing /\ Reads /\ UNCHANGED late
         \/ there # {} /\ c.doc.deleted /\ To(s, [new EXCEPT !.pc = "mark"]) /\ Reads /\ UNCHANGED late
         \/ /\ there # {} /\ ~c.doc.deleted
            /\ To(s, [new EXCEPT !.pc = IF row[Min(there)].stage = "deleted" THEN "undelete" ELSE "name",
                                 !.id = Min(there)])
            /\ Reads /\ UNCHANGED late
         \/ there # {} /\ Missing /\ Refused(s) /\ UNCHANGED tables

ImportUndelete(s) ==
  /\ In(s, "undelete")
  /\ Staged(call[s].guid, "live") /\ Writes(s, call[s].guid)
  /\ Go(s, "name")
  /\ UNCHANGED <<text, nextId, nextText>>

(* The check of the name, in the update or the create that follows. *)
ImportName(s) ==
  /\ In(s, "name")
  /\ LET c == call[s]
     IN  IF InTree(c.guid, c.name, c.l, c.l, c.d) = "duplicate" THEN Return(s, FALSE)
         ELSE To(s, [c EXCEPT !.pc = IF c.id = 0 THEN "insert" ELSE "row", !.id = 0])
  /\ UNCHANGED late /\ Reads

(* __delete_multilang_content_hack: the object as the connection sees it or,
   if its language is 0, as one of the nodes' languages shows it. *)
Find(s) ==
  /\ In(s, "find")
  /\ LET c == call[s]
         Sees(i, node) == IF node.lang # 0 /\ c.conn = 0 THEN Picked(i, node.lang, node.lang) # 0
                          ELSE Picked(i, c.conn, Default) # 0
         there == {i \in LiveOf(c.guid) : \E node \in ToSet(c.doc.nodes) : Sees(i, node)}
     IN  IF entry[c.guid] # "live" \/ there = {} THEN Go(s, "end")
         ELSE To(s, [c EXCEPT !.pc = "langs", !.id = Min(there)])
  /\ UNCHANGED late /\ Reads

(* midgard_object_get_languages, less language 0 and those of the document. *)
ListLangs(s) ==
  /\ In(s, "langs")
  /\ LET c == call[s]
         gone == LangsOf(LiveOf(c.guid)) \ ({0} \cup {node.lang : node \in ToSet(c.doc.nodes)})
     IN  To(s, [c EXCEPT !.pc = IF gone = {} THEN "end" ELSE "trim", !.trim = gone])
  /\ UNCHANGED late /\ Reads

(* Nobody asks whether the nodes could be imported: if none was, the object
   may lose its last text. *)
Trim(s) ==
  /\ In(s, "trim")
  /\ LET c == call[s]
         rest == c.trim \ {Min(c.trim)}
     IN  /\ text' = Without(InLang(c.id, Min(c.trim)))
         /\ To(s, [c EXCEPT !.pc = IF rest = {} THEN "end" ELSE "trim", !.trim = rest])
         /\ late' = late \cup {t \in Session \ {s} : call[t] # Idle /\ call[t].guid = c.guid}
         /\ torn' = IF s \in late \/ ~c.ok THEN torn \cup {c.guid} ELSE torn
  /\ UNCHANGED <<row, nextId, nextText, entry, faults>>

EndImport(s) == In(s, "end") /\ To(s, Idle) /\ UNCHANGED late /\ Reads

(* The process dies; what it did stays done. *)
Crash(s) ==
  /\ MayCrash /\ faults = {}
  /\ call[s] # Idle /\ call[s].pc # "held"
  /\ To(s, Idle) /\ faults' = {"crash"}
  /\ torn' = torn \cup {call[s].guid}
  /\ UNCHANGED <<tables, late>>

-----------------------------------------------------------------------------
Next ==
  \E s \in Session :
    \/ \E l \in Spoken :
         \/ \E i \in RowId : Fetch(s, i, l)
         \/ \E g \in Guid, n \in Name, b \in Body : Create(s, g, n, b, l)
         \/ \E n \in Name, b \in Body : Update(s, n, b, l)
         \/ Delete(s, l)
         \/ \E d \in Docs : Import(s, d, l)
    \/ UpdateRow(s) \/ LookText(s) \/ LookRow(s) \/ WriteText(s) \/ AddText(s) \/ InsertRow(s)
    \/ Count(s) \/ Cut(s) \/ Mark(s)
    \/ Purge(s) \/ PurgeTexts(s) \/ Release(s)
    \/ \E g \in Guid : Undelete(s, g)
    \/ ImportLook(s) \/ ImportUndelete(s) \/ ImportName(s)
    \/ Find(s) \/ ListLangs(s) \/ Trim(s) \/ EndImport(s)
    \/ Crash(s)

Spec == Init /\ [][Next]_vars

-----------------------------------------------------------------------------
Busy(g, others) == \E s \in Session \ others : call[s] # Idle /\ call[s].pc # "held" /\ call[s].guid = g

(* An object nobody works on is whole: one record at most, with a text, not
   two of one language, and no text without its record.  The check-then-act
   of update, delete, purge and import breaks this only for objects a call
   wrote to after it had been overtaken on them, had died or had been refused
   a statement, or whose import was refused (_update_records, midgard_object_-
   delete, midgard_object_purge, midgard_replicator_import_object). *)
ObjectsAreWhole ==
  \A g \in Guid \ torn : ~Busy(g, {}) =>
    /\ Cardinality(RowsOf(g)) <= 1
    /\ \A i \in RowsOf(g) : TextsOf(i) # {} /\ \A l \in Lang : Cardinality(InLang(i, l)) <= 1
    /\ \A i \in RowId : row[i] # NoRow /\ row[i].guid = g /\ row[i].stage = "purged" => TextsOf(i) = {}

(* A document that was imported without anybody interfering leaves its object
   with exactly the languages and texts it has, language 0 aside, if the
   importer's own language is 0: no translation is lost, overwritten by
   another, or left behind (midgard_replicator_import_from_xml). *)
ImportedIsWhole ==
  \A s \in Session :
    LET c == call[s]
        undisturbed == s \notin late /\ c.guid \notin torn /\ ~Busy(c.guid, {s})
    IN  In(s, "end") /\ undisturbed /\ c.ok /\ ~c.doc.deleted /\ c.conn = 0 =>
          \E i \in LiveOf(c.guid) :
            LET here == {[lang |-> text[k].lang, body |-> text[k].body] : k \in TextsOf(i)}
            IN  /\ row[i].name = c.doc.name
                /\ ToSet(c.doc.nodes) \subseteq here
                /\ \A t \in here \ ToSet(c.doc.nodes) : t.lang = 0

(* Whatever the interleaving, an update changes texts of its own object in
   the language the connection has then, and none in another (_update_records). *)
OtherLanguagesStay ==
  [][\A s \in Session : call[s] # Idle /\ call[s].op \in {"create", "update"} /\ call'[s] # call[s] =>
       \A k \in TextId : text[k] # NoRow /\ text'[k] # text[k] =>
         text[k].lang = call[s].l /\ text'[k] # NoRow /\ text'[k].lang = text[k].lang
           /\ row[text[k].sid].guid = call[s].guid]_vars

=============================================================================
