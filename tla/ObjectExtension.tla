--------------------------- MODULE ObjectExtension ---------------------------
(***************************************************************************)
(* Parameters and attachments of one object: records of their own that     *)
(* name the object as their parent (midgard_object_parameter.c,            *)
(* midgard_object_attachment.c), the collector in which an instance keeps  *)
(* the parameters of a domain (midgard_collector.c), and the file of an    *)
(* attachment (midgard_blob.c).                                            *)
(*                                                                         *)
(* Parameters and attachments are records of the same kind, listed,        *)
(* deleted and purged by the same functions; `class' says which of the two *)
(* a behaviour is about.  One step is one statement or file operation, and *)
(* the steps of the sessions interleave.  Sessions are alike and of one    *)
(* sitegroup; the GValue a caller hands to set_parameter, which the        *)
(* collector keeps a pointer to, is not changed by him afterwards.         *)
(***************************************************************************)
EXTENDS Integers, FiniteSets

CONSTANTS
  Session,   \* client processes, each with an instance of the object
  Name,      \* names of parameters or attachments
  Value,     \* values of parameters, the empty one aside
  Empty,     \* the empty value, and no value at all
  NoRow,     \* no record was inserted under this row id
  Gone,      \* the record under this id was purged
  Unread,    \* no collector for the domain yet
  NoBlob,    \* the session has no blob instance
  Ready,     \* a session between two calls
  MaxRow,    \* bound: how many records are ever inserted
  MayFail,   \* may the server or the file system refuse?
  MayCrash   \* may a process die?

ASSUME ExtensionAssumption ==
  /\ Empty \notin Value /\ Ready # NoBlob /\ NoRow # Gone
  /\ MaxRow \in Nat /\ {MayFail, MayCrash} \subseteq BOOLEAN
  /\ IsFiniteSet(Session)

VARIABLES
  class,    \* "parameter" or "attachment"
  row,      \* the table: row id -> record
  file,     \* the files there are, by the row id of their attachment
  cache,    \* the collector of each session: name -> value
  blob,     \* the blob each session has
  pc,       \* the call each session is in
  stale,    \* history: names the collector of a session may be wrong about
  excused,  \* history: files no purge is expected to have removed
  unseen    \* history: attachments created after a refused look-up of the name

vars == <<class, row, file, cache, blob, pc, stale, excused, unseen>>

RowId == 1..MaxRow
Record == [name : Name, value : Value \cup {Empty}, live : BOOLEAN]
ASSUME NoRecordAssumption == NoRow \notin Record /\ Gone \notin Record

Is(r) == row[r] \notin {NoRow, Gone}
Live(n) == {r \in RowId : Is(r) /\ row[r].live /\ row[r].name = n}
LiveValues(n) == {row[r].value : r \in Live(n)}

-----------------------------------------------------------------------------
(* midgard_collector_execute: a collector has the names selected; of several
   records of one name the last row read counts, in no set order. *)
Collected(c) ==
  \A n \in Name : IF Live(n) = {} THEN c[n] = Empty ELSE c[n] \in LiveValues(n)

(* A SELECT the server refuses leaves the collector empty. *)
Nothing == [n \in Name |-> Empty]

(* midgard_collector_set and _remove_key. *)
Cached(s, n, v) == cache' = [cache EXCEPT ![s][n] = v]

(* History: after a write of s to name n, collectors that may differ from the
   table: those of others, and his own if several records share the name. *)
Outdated(s, n, own) ==
  stale' = [t \in Session |->
    IF cache[t] # Unread /\ (t # s \/ ~own \/ Cardinality(Live(n)) > 1)
      THEN stale[t] \cup {n} ELSE stale[t]]

-----------------------------------------------------------------------------
Init ==
  /\ class \in {"parameter", "attachment"}
  /\ row = [r \in RowId |-> NoRow]
  /\ file = {}
  /\ cache = [s \in Session |-> Unread]
  /\ blob = [s \in Session |-> NoBlob]
  /\ pc = [s \in Session |-> Ready]
  /\ stale = [s \in Session |-> {}]
  /\ excused = {}
  /\ unseen = {}

Parameters(s) == class = "parameter" /\ pc[s] = Ready
Attachments(s) == class = "attachment" /\ pc[s] = Ready
Goto(s, p) == pc' = [pc EXCEPT ![s] = p]

(* The first midgard_object_get_parameter of a domain, by itself or as the
   beginning of set_parameter: the collector is made, executed and kept. *)
GetParameter(s) ==
  /\ Parameters(s) /\ cache[s] = Unread
  /\ \/ /\ \E c \in [Name -> Value \cup {Empty}] :
             Collected(c) /\ cache' = [cache EXCEPT ![s] = c]
        /\ UNCHANGED stale
     \/ /\ MayFail
        /\ cache' = [cache EXCEPT ![s] = Nothing]
        /\ stale' = [stale EXCEPT ![s] = Name]
  /\ UNCHANGED <<class, row, file, blob, pc, excused, unseen>>

(* midgard_object_set_parameter of a name the collector does not have: the
   record is to be created. *)
SetNew(s) ==
  /\ Parameters(s) /\ cache[s] # Unread
  /\ \E n \in Name, v \in Value :
       /\ cache[s][n] = Empty
       /\ Goto(s, [op |-> "create", name |-> n, value |-> v, looked |-> TRUE])
  /\ UNCHANGED <<class, row, file, cache, blob, stale, excused, unseen>>

(* ... of a name it has: the records are selected and the first is updated,
   or deleted if the new value is empty.  If there is none the call ends
   there, and the collector keeps the name. *)
SetOld(s) ==
  /\ Parameters(s) /\ cache[s] # Unread
  /\ \E n \in Name, v \in Value \cup {Empty} :
       /\ cache[s][n] # Empty
       /\ \E r \in Live(n) : Goto(s, [op |-> "update", row |-> r, name |-> n, value |-> v])
  /\ UNCHANGED <<class, row, file, cache, blob, stale, excused, unseen>>

(* Mutant: the name is not looked up. *)
CreateAttachmentAnyway(s) ==
  /\ Attachments(s)
  /\ \E n \in Name :
       Goto(s, [op |-> "create", name |-> n, value |-> Empty, looked |-> TRUE])
  /\ UNCHANGED <<class, row, file, cache, blob, stale, excused, unseen>>

(* midgard_object_create_attachment: is the name taken?  A count the server
   refuses is answered with 0 (midgard_query_builder_count), and the name taken
   for free.  Attachments without a name are not looked up and not in here. *)
CreateAttachment(s) ==
  /\ Attachments(s)
  /\ \E n \in Name, looked \in BOOLEAN :
       /\ IF looked THEN Live(n) = {} ELSE MayFail
       /\ Goto(s, [op |-> "create", name |-> n, value |-> Empty, looked |-> looked])
  /\ UNCHANGED <<class, row, file, cache, blob, stale, excused, unseen>>

(* The row id AUTO_INCREMENT gives out next, none at the bound. *)
NextFree == {r \in RowId : row[r] = NoRow /\ \A q \in 1..(r - 1) : row[q] # NoRow}

(* The INSERT of either; a new parameter goes into the collector. *)
Insert(s) ==
  /\ pc[s] # Ready /\ pc[s].op = "create"
  /\ LET p == pc[s] IN
     \/ /\ \E r \in NextFree :
             /\ row' = [row EXCEPT ![r] = [name |-> p.name, value |-> p.value, live |-> TRUE]]
             /\ unseen' = IF p.looked THEN unseen ELSE unseen \cup {r}
        /\ IF class = "parameter"
             THEN Cached(s, p.name, p.value) /\ Outdated(s, p.name, TRUE)
             ELSE UNCHANGED <<cache, stale>>
     \/ /\ MayFail \/ NextFree = {}
        /\ UNCHANGED <<row, cache, stale, unseen>>
  /\ Goto(s, Ready)
  /\ UNCHANGED <<class, file, blob, excused>>

(* Mutant: an update is not brought to the collector. *)
WriteUncached(s) ==
  /\ pc[s] # Ready /\ pc[s].op = "update"
  /\ LET p == pc[s]
         new == IF ~Is(p.row) THEN row[p.row]
                ELSE IF p.value = Empty THEN [row[p.row] EXCEPT !.live = FALSE]
                ELSE [row[p.row] EXCEPT !.value = p.value]
     IN  \/ /\ row' = [row EXCEPT ![p.row] = new]
            /\ Outdated(s, p.name, TRUE)
         \/ MayFail /\ UNCHANGED <<row, stale>>
  /\ UNCHANGED cache
  /\ Goto(s, Ready)
  /\ UNCHANGED <<class, file, blob, excused, unseen>>

(* midgard_object_update or _delete of the record selected: the statement goes
   by guid, and TRUE is answered whether it found the record or not. *)
Write(s) ==
  /\ pc[s] # Ready /\ pc[s].op = "update"
  /\ LET p == pc[s]
         new == IF ~Is(p.row) THEN row[p.row]
                ELSE IF p.value = Empty THEN [row[p.row] EXCEPT !.live = FALSE]
                ELSE [row[p.row] EXCEPT !.value = p.value]
     IN  \/ /\ row' = [row EXCEPT ![p.row] = new]
            /\ Cached(s, p.name, p.value)
            /\ Outdated(s, p.name, TRUE)
         \/ MayFail /\ UNCHANGED <<row, cache, stale>>
  /\ Goto(s, Ready)
  /\ UNCHANGED <<class, file, blob, excused, unseen>>

-----------------------------------------------------------------------------
(* midgard_object_delete_ and purge_parameters and _attachments: the records
   that match are selected, of one name or of all, and worked through. *)
ForEach(s) ==
  /\ pc[s] = Ready
  /\ \E ns \in {{n} : n \in Name} \cup {Name},
        how \in {"delete", "purge"} \cup (IF class = "attachment" THEN {"unlink"} ELSE {}) :
       LET todo == UNION {Live(n) : n \in ns} IN
       todo # {} /\ Goto(s, [op |-> how, todo |-> todo])
  /\ UNCHANGED <<class, row, file, cache, blob, stale, excused, unseen>>

At(s, op) == pc[s] # Ready /\ pc[s].op = op
Next1(s, r) == Goto(s, IF pc[s].todo = {r} THEN Ready ELSE [pc[s] EXCEPT !.todo = @ \ {r}])

DeleteEach(s) ==
  /\ At(s, "delete")
  /\ \E r \in pc[s].todo :
       /\ Next1(s, r)
       /\ IF Is(r) THEN \/ /\ row' = [row EXCEPT ![r].live = FALSE]
                           /\ Outdated(s, row[r].name, FALSE)
                        \/ MayFail /\ UNCHANGED <<row, stale>>
          ELSE UNCHANGED <<row, stale>>
  /\ UNCHANGED <<class, file, cache, blob, excused, unseen>>

(* Without its file, which may be shared. *)
PurgeEach(s) ==
  /\ At(s, "purge")
  /\ \E r \in pc[s].todo :
       /\ Next1(s, r)
       /\ IF Is(r) THEN \/ /\ row' = [row EXCEPT ![r] = Gone]
                           /\ Outdated(s, row[r].name, FALSE)
                           /\ excused' = excused \cup {r}
                        \/ MayFail /\ UNCHANGED <<row, stale, excused>>
          ELSE UNCHANGED <<row, stale, excused>>
  /\ UNCHANGED <<class, file, cache, blob, unseen>>

(* Mutant: the record is purged first. *)
UnlinkAfterwards(s) ==
  /\ At(s, "unlink")
  /\ \E r \in pc[s].todo :
       /\ row' = [row EXCEPT ![r] = IF Is(r) THEN Gone ELSE @]
       /\ Goto(s, [op |-> "unlinked", row |-> r, todo |-> pc[s].todo])
  /\ UNCHANGED <<class, file, cache, blob, stale, excused, unseen>>

(* midgard_core_object_parameters_purge_with_blob: first the file; that it
   could not be removed is not noticed. *)
Unlink(s) ==
  /\ At(s, "unlink")
  /\ \E r \in pc[s].todo :
       /\ \/ file' = file \ {r} /\ UNCHANGED excused
          \/ /\ MayFail /\ r \in file
             /\ excused' = excused \cup {r} /\ UNCHANGED file
       /\ Goto(s, [op |-> "unlinked", row |-> r, todo |-> pc[s].todo])
  /\ UNCHANGED <<class, row, cache, blob, stale, unseen>>

(* ... then the record. *)
PurgeUnlinked(s) ==
  /\ At(s, "unlinked")
  /\ LET r == pc[s].row
         rest == pc[s].todo \ {r}
     IN  /\ Goto(s, IF rest = {} THEN Ready ELSE [op |-> "unlink", todo |-> rest])
         /\ \/ row' = [row EXCEPT ![r] = IF Is(r) THEN Gone ELSE @]
            \/ MayFail /\ UNCHANGED row
  /\ UNCHANGED <<class, file, cache, blob, stale, excused, unseen>>

-----------------------------------------------------------------------------
(* midgard_blob_new on an attachment fetched from the database. *)
NewBlob(s) ==
  /\ Attachments(s) /\ blob[s] = NoBlob
  /\ \E r \in UNION {Live(n) : n \in Name} :
       blob' = [blob EXCEPT ![s] = [row |-> r, channel |-> "closed"]]
  /\ UNCHANGED <<class, row, file, cache, pc, stale, excused, unseen>>

BeingPurged(r) == row[r] = Gone \/ \E t \in Session : At(t, "unlinked") /\ pc[t].row = r

(* midgard_blob_write_content: the first write opens the file, and makes it
   unless it is there; later ones use that channel, whatever became of the
   file.  Through a channel opened for reading nothing is written. *)
WriteContent(s) ==
  /\ Attachments(s) /\ blob[s] # NoBlob /\ blob[s].channel = "closed"
  /\ LET r == blob[s].row IN
     /\ blob' = [blob EXCEPT ![s].channel = "w"]
     /\ file' = file \cup {r}
     /\ excused' = IF BeingPurged(r) THEN excused \cup {r} ELSE excused
  /\ UNCHANGED <<class, row, cache, pc, stale, unseen>>

(* midgard_blob_read_content opens the file only if it is there. *)
ReadContent(s) ==
  /\ Attachments(s) /\ blob[s] # NoBlob /\ blob[s].channel = "closed"
  /\ blob[s].row \in file
  /\ blob' = [blob EXCEPT ![s].channel = "r"]
  /\ UNCHANGED <<class, row, file, cache, pc, stale, excused, unseen>>

(* midgard_blob_remove_file *)
RemoveFile(s) ==
  /\ Attachments(s) /\ blob[s] # NoBlob /\ blob[s].row \in file
  /\ file' = file \ {blob[s].row}
  /\ UNCHANGED <<class, row, cache, blob, pc, stale, excused, unseen>>

(* The blob, or the instance of the object with its collectors, is freed. *)
Free(s) ==
  /\ pc[s] = Ready
  /\ \/ blob[s] # NoBlob /\ blob' = [blob EXCEPT ![s] = NoBlob] /\ UNCHANGED <<cache, stale>>
     \/ /\ cache[s] # Unread /\ cache' = [cache EXCEPT ![s] = Unread]
        /\ stale' = [stale EXCEPT ![s] = {}] /\ UNCHANGED blob
  /\ UNCHANGED <<class, row, file, pc, excused, unseen>>

Crash(s) ==
  /\ MayCrash /\ pc[s] # Ready
  /\ Goto(s, Ready)
  /\ cache' = [cache EXCEPT ![s] = Unread]
  /\ blob' = [blob EXCEPT ![s] = NoBlob]
  /\ stale' = [stale EXCEPT ![s] = {}]
  /\ UNCHANGED <<class, row, file, excused, unseen>>

Next ==
  \E s \in Session :
    \/ GetParameter(s) \/ SetNew(s) \/ SetOld(s) \/ CreateAttachment(s)
    \/ Insert(s) \/ Write(s)
    \/ ForEach(s) \/ DeleteEach(s) \/ PurgeEach(s) \/ Unlink(s) \/ PurgeUnlinked(s)
    \/ NewBlob(s) \/ WriteContent(s) \/ ReadContent(s) \/ RemoveFile(s)
    \/ Free(s) \/ Crash(s)

Spec == Init /\ [][Next]_vars

-----------------------------------------------------------------------------
(* What the collector of an instance says of a name is what the table says,
   unless another session, a delete_parameters or a duplicate has been in
   between: set_parameter keeps the two together through every create, update
   and delete of its own, refused or not. *)
FreshCacheAgrees ==
  \A s \in Session : cache[s] # Unread =>
    \A n \in Name \ stale[s] :
      IF Live(n) = {} THEN cache[s][n] = Empty ELSE cache[s][n] \in LiveValues(n)

(* The name of an attachment is looked up before the INSERT: sessions that do
   so at the same time create duplicates, but of the records created after a
   look-up that was answered never more of one name than there are sessions,
   created or about to be, and whatever else was created after a refused one
   (midgard_object_create_attachment, midgard_query_builder_count). *)
NamesPerSession ==
  class = "attachment" =>
    \A n \in Name :
      Cardinality(Live(n) \ unseen)
          + Cardinality({s \in Session : At(s, "create") /\ pc[s].name = n /\ pc[s].looked})
        <= Cardinality(Session)

(* The file of a purged attachment is gone, whatever was interrupted, unless
   it was to be kept, could not be removed, or was written again through a
   blob while the attachment was being purged. *)
NoStrayFile ==
  \A r \in file : row[r] = Gone => r \in excused

=============================================================================
