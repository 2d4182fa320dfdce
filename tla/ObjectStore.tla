---------------------------- MODULE ObjectStore ----------------------------
(***************************************************************************)
(* The life of MgdSchema objects in the database: src/src/types.c (create, *)
(* update, delete, purge, set_guid), src/src/midgard_object.c (lookup and  *)
(* undelete by guid) and the export half of src/src/midgard_replicator.c.  *)
(*                                                                         *)
(* An object is a row of its class's table (`rows') and an entry of the    *)
(* repligard table (`entry'), which remembers the last action done to the  *)
(* guid.  The library runs no SQL transaction: each handler is a sequence  *)
(* of single statements, and the statements of several sessions (one per   *)
(* client process) interleave.  Every action below is the part of a        *)
(* handler up to and including one state-changing statement; pc[s] says    *)
(* which statement session s runs next.                                    *)
(*                                                                         *)
(* Quota counters, tree checks, metadata other than the deleted flag and   *)
(* the revisor, and multilingual content are in other modules or left out. *)
(***************************************************************************)
EXTENDS Integers, FiniteSets

CONSTANTS
  Session,       \* client processes, each with its own connection
  Guid,          \* guids
  Sitegroup,     \* sitegroups
  SG0,           \* the sitegroup with id 0, shared by all
  Root,          \* sessions logged in as SG0 administrator
  Anonymous,     \* sessions with no user logged in
  SessionSg,     \* SessionSg[s]: sitegroup of the connection of s
  NoGuid,        \* a NULL guid property
  NoRow,         \* no record under this row id
  NoEntry,       \* no repligard record under this key
  MaxRow,        \* bound: how many rows are ever inserted
  MayCrash,      \* may a client process die between two statements?
  MayFail,       \* may the server refuse a statement?
  Careful        \* do clients only act on objects that are live right now?

ASSUME StoreAssumption ==
  /\ SG0 \in Sitegroup
  /\ Root \subseteq Session
  /\ Anonymous \subseteq Session
  /\ SessionSg \in [Session -> Sitegroup]
  /\ NoGuid \notin Guid
  /\ MaxRow \in Nat
  /\ MayCrash \in BOOLEAN
  /\ MayFail \in BOOLEAN
  /\ Careful \in BOOLEAN

VARIABLES
  rows,      \* the object table: row id -> record
  nextId,    \* its AUTO_INCREMENT
  entry,     \* the repligard table, PRIMARY KEY (guid, sitegroup)
  stored,    \* history: the guids a row was ever inserted for
  obj,       \* the MgdObject instance each session holds
  pc,        \* the statement each session runs next
  arg,       \* guid argument of the handler a session is in
  faults,    \* history: "crash" and "refusal", if there were such
  ret        \* what the last finished call of the session returned

vars == <<rows, nextId, entry, stored, obj, pc, arg, faults, ret>>

RowId == 1..MaxRow
Row == [guid : Guid, sg : Sitegroup, deleted : BOOLEAN, revisor : Session]
ASSUME NoRowAssumption == NoRow \notin Row

(* MGD_OBJECT_ACTION_CREATE, _UPDATE, _DELETE and _PURGE *)
ObjectAction == {"create", "update", "delete", "purge"}
ASSUME NoEntryAssumption == NoEntry \notin ObjectAction

Handle == [guid : Guid \cup {NoGuid}, sg : Sitegroup]

Statement == {"idle", "create_entry", "update_entry", "delete_entry",
              "purge_entry", "undelete_row", "undelete_entry", "set_guid_fetch"}

EmptyHandle(s) == [guid |-> NoGuid, sg |-> SessionSg[s]]

-----------------------------------------------------------------------------
(* The records a WHERE guid = g AND sitegroup = x clause selects. *)
Matches(g, x) == {i \in RowId : rows[i] # NoRow /\ rows[i].guid = g /\ rows[i].sg = x}

Live(i) == rows[i] # NoRow /\ ~rows[i].deleted

(* The sitegroup condition the query builder and the guid lookups add. *)
CanSee(s, x) == s \in Root \/ x \in {SG0, SessionSg[s]}

(* Mutant: objects of SG0 are taken for everybody's. *)
ViolatesOrShared(s, x) == s \notin Root /\ x \notin {SG0, SessionSg[s]}

(* _midgard_object_violates_sitegroup *)
ViolatesSitegroup(s, x) == s \notin Root /\ (x = SG0 \/ x # SessionSg[s])

(* "UPDATE repligard SET object_action = a WHERE guid = g AND sitegroup = x":
   no record is added when there is none. *)
MarkEntry(g, x, a) ==
  [k \in DOMAIN entry |-> IF k = <<g, x>> /\ entry[k] # NoEntry THEN a ELSE entry[k]]

(* Mutant: a guid is free again as soon as nobody holds it. *)
FreshInMemory(g) == \A t \in Session : obj[t].guid # g /\ arg[t] # g

(* midgard_guid_new: a random guid nobody has seen. *)
Fresh(g) == /\ g \notin stored
            /\ \A t \in Session : obj[t].guid # g /\ arg[t] # g

(* Careful clients fetched the object just now and saw it. *)
MayActOn(s) == Careful => \E i \in Matches(obj[s].guid, obj[s].sg) : Live(i)

(* The server refuses a statement. *)
Refused == MayFail /\ faults' = faults \cup {"refusal"}

Goto(s, l) == pc' = [pc EXCEPT ![s] = l]
Return(s, v) == /\ pc' = [pc EXCEPT ![s] = "idle"]
                /\ arg' = [arg EXCEPT ![s] = NoGuid]
                /\ ret' = [ret EXCEPT ![s] = v]

-----------------------------------------------------------------------------
Init ==
  /\ rows = [i \in RowId |-> NoRow]
  /\ nextId = 1
  /\ entry = [k \in Guid \X Sitegroup |-> NoEntry]
  /\ stored = {}
  /\ obj = [s \in Session |-> EmptyHandle(s)]
  /\ pc = [s \in Session |-> "idle"]
  /\ arg = [s \in Session |-> NoGuid]
  /\ faults = {}
  /\ ret = [s \in Session |-> FALSE]

-----------------------------------------------------------------------------
(* midgard_object_new with no value; the sitegroup property of a new object
   can be set by root and by anonymous sessions only. *)
NewObject(s) ==
  /\ pc[s] = "idle"
  /\ \E x \in Sitegroup :
       /\ x = SessionSg[s] \/ s \in Root \cup Anonymous
       /\ obj' = [obj EXCEPT ![s] = [guid |-> NoGuid, sg |-> x]]
  /\ Return(s, TRUE)
  /\ UNCHANGED <<rows, nextId, entry, stored, faults>>

(* midgard_object_new with a guid: one query for visible records that are not
   deleted; root gets nothing when several sitegroups have the guid. *)
Fetch(s, g) ==
  /\ pc[s] = "idle"
  /\ LET found == {i \in RowId : Live(i) /\ rows[i].guid = g /\ CanSee(s, rows[i].sg)} IN
     \/ /\ found = {} \/ (s \in Root /\ Cardinality(found) > 1)
        /\ Return(s, FALSE)
        /\ UNCHANGED obj
     \/ /\ s \in Root => Cardinality(found) = 1
        /\ \E i \in found : obj' = [obj EXCEPT ![s] = [guid |-> g, sg |-> rows[i].sg]]
        /\ Return(s, TRUE)
  /\ UNCHANGED <<rows, nextId, entry, stored, faults>>

(* midgard_object_set_guid.  It looks the guid up with
   midgard_object_class_get_object_by_guid, which answers NULL for a guid
   whose entry says deleted or purged, and fetches the object otherwise. *)
EntriesOf(s, g) == {x \in Sitegroup : entry[<<g, x>>] # NoEntry /\ CanSee(s, x)}

SetGuid(s, g) ==
  /\ pc[s] = "idle"
  /\ ~Careful
  /\ \/ /\ obj[s].guid # NoGuid
        /\ Return(s, FALSE)
        /\ UNCHANGED obj
     \/ /\ obj[s].guid = NoGuid
        /\ LET seen == EntriesOf(s, g) IN
           \/ /\ \/ seen = {}
                 \/ s \in Root /\ Cardinality(seen) > 1
                 \/ \E x \in seen : entry[<<g, x>>] \in {"delete", "purge"}
              /\ obj' = [obj EXCEPT ![s].guid = g]
              /\ Return(s, TRUE)
           \/ /\ s \in Root => Cardinality(seen) = 1
              /\ \E x \in seen : entry[<<g, x>>] \in {"create", "update"}
              /\ Goto(s, "set_guid_fetch")
              /\ arg' = [arg EXCEPT ![s] = g]
              /\ UNCHANGED <<obj, ret>>
  /\ UNCHANGED <<rows, nextId, entry, stored, faults>>

SetGuidFetch(s) ==
  /\ pc[s] = "set_guid_fetch"
  /\ LET found == {i \in RowId : Live(i) /\ rows[i].guid = arg[s] /\ CanSee(s, rows[i].sg)}
         isDuplicate == found # {} /\ (s \in Root => Cardinality(found) = 1) IN
     /\ Return(s, ~isDuplicate)
     /\ obj' = IF isDuplicate THEN obj ELSE [obj EXCEPT ![s].guid = arg[s]]
  /\ UNCHANGED <<rows, nextId, entry, stored, faults>>

-----------------------------------------------------------------------------
(* _midgard_object_create(object, NULL, OBJECT_UPDATE_NONE).  The new guid is
   assigned to the object before its properties are validated. *)
MayCreate(s) == obj[s].guid = NoGuid /\ ~ViolatesSitegroup(s, obj[s].sg)

CreateRefused(s) ==
  /\ pc[s] = "idle"
  /\ ~MayCreate(s)
  /\ Return(s, FALSE)
  /\ UNCHANGED <<rows, nextId, entry, stored, obj, faults>>

CreateInvalid(s) ==
  /\ pc[s] = "idle"
  /\ ~Careful
  /\ MayCreate(s)
  /\ \E g \in Guid : Fresh(g) /\ obj' = [obj EXCEPT ![s].guid = g]
  /\ Return(s, FALSE)
  /\ UNCHANGED <<rows, nextId, entry, stored, faults>>

(* Mutant: the row is written before the object gets its guid. *)
InsertBeforeGuid(s) ==
  /\ pc[s] = "idle" /\ MayCreate(s) /\ nextId <= MaxRow
  /\ rows' = [rows EXCEPT ![nextId] =
       [guid |-> obj[s].guid, sg |-> obj[s].sg, deleted |-> FALSE, revisor |-> s]]
  /\ nextId' = nextId + 1
  /\ Goto(s, "create_entry")
  /\ UNCHANGED <<entry, stored, obj, arg, ret, faults>>

(* Mutant: create returns without adding the repligard record. *)
InsertOnly(s) ==
  /\ pc[s] = "idle" /\ MayCreate(s) /\ nextId <= MaxRow
  /\ \E g \in Guid :
       /\ Fresh(g)
       /\ obj' = [obj EXCEPT ![s].guid = g]
       /\ rows' = [rows EXCEPT ![nextId] =
            [guid |-> g, sg |-> obj[s].sg, deleted |-> FALSE, revisor |-> s]]
       /\ stored' = stored \cup {g}
  /\ nextId' = nextId + 1
  /\ Return(s, TRUE)
  /\ UNCHANGED <<entry, faults>>

CreateInsert(s) ==
  /\ pc[s] = "idle"
  /\ MayCreate(s)
  /\ nextId <= MaxRow
  /\ \E g \in Guid :
       /\ Fresh(g)
       /\ obj' = [obj EXCEPT ![s].guid = g]
       /\ rows' = [rows EXCEPT ![nextId] =
            [guid |-> g, sg |-> obj[s].sg, deleted |-> FALSE, revisor |-> s]]
       /\ stored' = stored \cup {g}
  /\ nextId' = nextId + 1
  /\ Goto(s, "create_entry")
  /\ UNCHANGED <<entry, arg, ret, faults>>

(* The INSERT is refused: the guid is dropped again. *)
CreateFails(s) ==
  /\ pc[s] = "idle"
  /\ Refused
  /\ MayCreate(s)
  /\ Return(s, FALSE)
  /\ UNCHANGED <<rows, nextId, entry, stored, obj>>

(* "INSERT INTO repligard": create returns TRUE whether or not it succeeds. *)
CreateEntry(s) ==
  /\ pc[s] = "create_entry"
  /\ LET k == <<obj[s].guid, obj[s].sg>> IN
     \/ entry' = [entry EXCEPT ![k] = IF @ = NoEntry THEN "create" ELSE @] /\ UNCHANGED faults
     \/ Refused /\ UNCHANGED entry
  /\ Return(s, TRUE)
  /\ UNCHANGED <<rows, nextId, stored, obj>>

-----------------------------------------------------------------------------
(* _midgard_object_update(object, OBJECT_UPDATE_NONE).  Neither the number of
   records the UPDATE changed nor their deleted flag is looked at. *)
UpdateRow(s) ==
  /\ pc[s] = "idle"
  /\ ~ViolatesSitegroup(s, obj[s].sg)
  /\ MayActOn(s)
  /\ rows' = [i \in RowId |-> IF i \in Matches(obj[s].guid, obj[s].sg)
                              THEN [rows[i] EXCEPT !.revisor = s] ELSE rows[i]]
  /\ Goto(s, "update_entry")
  /\ UNCHANGED <<nextId, entry, stored, obj, arg, ret, faults>>

(* midgard_replicator_export: _midgard_object_update(object,
   OBJECT_UPDATE_EXPORTED) sets metadata_exported only. *)
ExportRow(s) ==
  /\ pc[s] = "idle"
  /\ obj[s].guid # NoGuid
  /\ ~ViolatesSitegroup(s, obj[s].sg)
  /\ MayActOn(s)
  /\ Goto(s, "update_entry")
  /\ UNCHANGED <<rows, nextId, entry, stored, obj, arg, ret, faults>>

UpdateEntry(s) ==
  /\ pc[s] = "update_entry"
  /\ \/ entry' = MarkEntry(obj[s].guid, obj[s].sg, "update") /\ UNCHANGED faults
     \/ Refused /\ UNCHANGED entry
  /\ Return(s, TRUE)
  /\ UNCHANGED <<rows, nextId, stored, obj>>

(* midgard_object_delete *)
DeleteRow(s) ==
  /\ pc[s] = "idle"
  /\ ~ViolatesSitegroup(s, obj[s].sg)
  /\ obj[s].guid # NoGuid
  /\ MayActOn(s)
  /\ rows' = [i \in RowId |-> IF i \in Matches(obj[s].guid, obj[s].sg)
                              THEN [rows[i] EXCEPT !.deleted = TRUE, !.revisor = s]
                              ELSE rows[i]]
  /\ Goto(s, "delete_entry")
  /\ UNCHANGED <<nextId, entry, stored, obj, arg, ret, faults>>

DeleteEntry(s) ==
  /\ pc[s] = "delete_entry"
  /\ \/ entry' = MarkEntry(obj[s].guid, obj[s].sg, "delete") /\ UNCHANGED faults
     \/ Refused /\ UNCHANGED entry
  /\ Return(s, TRUE)
  /\ UNCHANGED <<rows, nextId, stored, obj>>

(* Mutant: records marked deleted stay, and the count is not looked at. *)
PurgeLiveRow(s) ==
  /\ pc[s] = "idle" /\ ~ViolatesSitegroup(s, obj[s].sg)
  /\ obj[s].guid # NoGuid /\ MayActOn(s)
  /\ rows' = [i \in RowId |-> IF i \in Matches(obj[s].guid, obj[s].sg) /\ Live(i)
                              THEN NoRow ELSE rows[i]]
  /\ Goto(s, "purge_entry")
  /\ UNCHANGED <<nextId, entry, stored, obj, arg, ret, faults>>

(* midgard_object_purge.  Nothing deleted means MGD_ERR_NOT_EXISTS; a refused
   DELETE leaves mysql_affected_rows at -1, which is taken for success. *)
PurgeRow(s) ==
  /\ pc[s] = "idle"
  /\ ~ViolatesSitegroup(s, obj[s].sg)
  /\ obj[s].guid # NoGuid
  /\ MayActOn(s)
  /\ LET doomed == Matches(obj[s].guid, obj[s].sg) IN
     \/ /\ doomed # {}
        /\ rows' = [i \in RowId |-> IF i \in doomed THEN NoRow ELSE rows[i]]
        /\ Goto(s, "purge_entry")
        /\ UNCHANGED <<arg, faults, ret>>
     \/ /\ doomed = {}
        /\ Return(s, FALSE)
        /\ UNCHANGED <<rows, faults>>
     \/ /\ Refused
        /\ Goto(s, "purge_entry")
        /\ UNCHANGED <<rows, arg, ret>>
  /\ UNCHANGED <<nextId, entry, stored, obj>>

PurgeEntry(s) ==
  /\ pc[s] = "purge_entry"
  /\ \/ entry' = MarkEntry(obj[s].guid, obj[s].sg, "purge") /\ UNCHANGED faults
     \/ Refused /\ UNCHANGED entry
  /\ Return(s, TRUE)
  /\ UNCHANGED <<rows, nextId, stored, obj>>

(* What update, export, delete and purge answer without reaching a statement
   that changes anything: a sitegroup violation, a NULL guid, invalid
   properties or a refused first statement. *)
CallRefused(s) ==
  /\ pc[s] = "idle"
  /\ \/ /\ ViolatesSitegroup(s, obj[s].sg) \/ obj[s].guid = NoGuid
        /\ UNCHANGED faults
     \/ Refused
  /\ Return(s, FALSE)
  /\ UNCHANGED <<rows, nextId, entry, stored, obj>>

-----------------------------------------------------------------------------
(* midgard_object_class_undelete: it reads the entry, then clears the deleted
   flag, then marks the entry of the connection's own sitegroup. *)
Undelete(s, g) ==
  /\ pc[s] = "idle"
  /\ LET seen == EntriesOf(s, g) IN
     \/ /\ seen = {} \/ \E x \in seen : entry[<<g, x>>] # "delete"
        /\ Return(s, FALSE)
     \/ /\ \E x \in seen : entry[<<g, x>>] = "delete"
        /\ Goto(s, "undelete_row")
        /\ arg' = [arg EXCEPT ![s] = g]
        /\ UNCHANGED ret
  /\ UNCHANGED <<rows, nextId, entry, stored, obj, faults>>

UndeleteRow(s) ==
  /\ pc[s] = "undelete_row"
  /\ \/ /\ rows' = [i \in RowId |->
             IF rows[i] # NoRow /\ rows[i].guid = arg[s]
                /\ (s \in Root \/ rows[i].sg = SessionSg[s])
             THEN [rows[i] EXCEPT !.deleted = FALSE] ELSE rows[i]]
        /\ Goto(s, "undelete_entry")
        /\ UNCHANGED <<arg, faults, ret>>
     \/ /\ Refused
        /\ Return(s, FALSE)
        /\ UNCHANGED rows
  /\ UNCHANGED <<nextId, entry, stored, obj>>

UndeleteEntry(s) ==
  /\ pc[s] = "undelete_entry"
  /\ \/ entry' = MarkEntry(arg[s], SessionSg[s], "update") /\ UNCHANGED faults
     \/ Refused /\ UNCHANGED entry
  /\ Return(s, TRUE)
  /\ UNCHANGED <<rows, nextId, stored, obj>>

-----------------------------------------------------------------------------
(* The process dies; its successor starts with nothing in memory. *)
Crash(s) ==
  /\ MayCrash
  /\ pc[s] # "idle"
  /\ faults' = faults \cup {"crash"}
  /\ obj' = [obj EXCEPT ![s] = EmptyHandle(s)]
  /\ Return(s, FALSE)
  /\ UNCHANGED <<rows, nextId, entry, stored>>

Next ==
  \E s \in Session :
    \/ NewObject(s)
    \/ \E g \in Guid : Fetch(s, g) \/ SetGuid(s, g) \/ Undelete(s, g)
    \/ SetGuidFetch(s)
    \/ CreateRefused(s) \/ CreateInvalid(s) \/ CreateInsert(s)
    \/ CreateFails(s) \/ CreateEntry(s)
    \/ UpdateRow(s) \/ ExportRow(s) \/ UpdateEntry(s)
    \/ DeleteRow(s) \/ DeleteEntry(s)
    \/ PurgeRow(s) \/ PurgeEntry(s)
    \/ CallRefused(s)
    \/ UndeleteRow(s) \/ UndeleteEntry(s)
    \/ Crash(s)

Spec == Init /\ [][Next]_vars

-----------------------------------------------------------------------------
TypeOK ==
  /\ rows \in [RowId -> Row \cup {NoRow}]
  /\ nextId \in 1..(MaxRow + 1)
  /\ entry \in [Guid \X Sitegroup -> ObjectAction \cup {NoEntry}]
  /\ stored \subseteq Guid
  /\ obj \in [Session -> Handle]
  /\ pc \in [Session -> Statement]
  /\ arg \in [Session -> Guid \cup {NoGuid}]
  /\ faults \subseteq {"crash", "refusal"}
  /\ ret \in [Session -> BOOLEAN]

-----------------------------------------------------------------------------
RecordsOf(g) == {i \in RowId : rows[i] # NoRow /\ rows[i].guid = g}

AtRest == \A s \in Session : pc[s] = "idle"

(* As long as the server refused no statement, an entry says "purged" only    *)
(* when the record is really gone: midgard_object_purge writes the tombstone  *)
(* after its DELETE, and nobody brings the record back in between.            *)
TombstoneHasNoRow ==
  "refusal" \notin faults =>
  \A g \in Guid, x \in Sitegroup : entry[<<g, x>>] = "purge" => Matches(g, x) = {}

(* The inductive strengthening of TombstoneHasNoRow.  A record has a guid     *)
(* that was stored, under an id that was given out; a session about to write  *)
(* a tombstone has seen the record go, and because the guid was stored once   *)
(* no create can bring it back.  UniqueGuid is no achievement of the code     *)
(* modelled here: it rests on midgard_guid_new giving out Fresh guids.        *)
UniqueGuid == \A g \in Guid : \A i, j \in RecordsOf(g) : i = j

StoreInv ==
  /\ TypeOK
  /\ UniqueGuid
  /\ \A i \in RowId : rows[i] # NoRow => rows[i].guid \in stored /\ i < nextId

PurgeInv ==
  /\ StoreInv
  /\ TombstoneHasNoRow
  /\ "refusal" \notin faults =>
       /\ \A g \in Guid, x \in Sitegroup : entry[<<g, x>>] = "purge" => g \in stored
       /\ \A s \in Session : pc[s] = "purge_entry" =>
             obj[s].guid \in stored /\ Matches(obj[s].guid, obj[s].sg) = {}

(* Without crashes and refused statements every record can be found by guid:  *)
(* either its entry exists or its creator is just about to add it, and no     *)
(* other handler removes or moves entries.                                    *)
RowIsCatalogued ==
  faults = {} => \A i \in RowId : rows[i] # NoRow =>
    \/ entry[<<rows[i].guid, rows[i].sg>>] # NoEntry
    \/ \E s \in Session : /\ pc[s] = "create_entry"
                          /\ obj[s].guid = rows[i].guid
                          /\ obj[s].sg = rows[i].sg

(* A record or an entry of a sitegroup changes only by a step of a session    *)
(* that may write there: root, or a session of that sitegroup.  The handlers  *)
(* check the handle once, before their first statement; undelete has no       *)
(* handle and relies on its WHERE clauses.                                    *)
MayWrite(s, x) == s \in Root \/ x = SessionSg[s]

RowsIn(x) == {<<i, rows[i]>> : i \in {j \in RowId : rows[j] # NoRow /\ rows[j].sg = x}}
EntriesIn(x) == [g \in Guid |-> entry[<<g, x>>]]

OnlyOwnerWrites ==
  [][\A x \in Sitegroup : RowsIn(x)' # RowsIn(x) \/ EntriesIn(x)' # EntriesIn(x)
       => \E s \in Session : pc'[s] # pc[s] /\ MayWrite(s, x)]_vars

(* The stages of an object as the object tables show them. *)
Stage(g) ==
  CASE \E i \in RecordsOf(g) : Live(i) -> "live"
    [] RecordsOf(g) # {} /\ ~\E i \in RecordsOf(g) : Live(i) -> "deleted"
    [] RecordsOf(g) = {} /\ g \in stored -> "purged"
    [] OTHER -> "unborn"

StageOfAll == [g \in Guid |-> Stage(g)]

L == INSTANCE Lifecycle WITH status <- StageOfAll

(* The object tables keep the promises of the abstract life cycle however     *)
(* the statements of the sessions interleave, crash or fail: no guid is       *)
(* created twice and no purged object comes back, by undelete of a stale      *)
(* entry for instance.                                                        *)
LifecycleRefined == L!Spec

=============================================================================
