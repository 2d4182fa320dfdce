---------------------------- MODULE Replication ----------------------------
(***************************************************************************)
(* Objects carried between databases by src/src/midgard_replicator.c: a    *)
(* site serializes its objects and its purged guids to documents, another  *)
(* site imports them.  The library moves no document itself: `docs' holds  *)
(* every document ever written, and any of them may be imported any number *)
(* of times, in any order, late or never.                                  *)
(*                                                                         *)
(* The handlers of ObjectStore are single steps here, but an import reads  *)
(* the database object first and writes later: the clients of the site may *)
(* change the object in between.  One sitegroup, one language, one         *)
(* importer per site; refused imports change nothing and are left out.     *)
(***************************************************************************)
EXTENDS Integers

CONSTANTS
  Site,         \* databases that replicate to each other
  Guid,
  Content,      \* what the properties of an object hold
  Needs,        \* Needs[g]: the objects that object g is made to link to
  Usage,        \* the ways sites are used, of which a behaviour has one
  NoRow, NoEntry, Idle,
  MaxVersion    \* bound: changes made to one object

(* Usage: the sites whose clients change objects, who creates what, what else *)
(* is done, the `force' arguments of imports, and the seconds that pass.      *)
ASSUME ReplicationAssumption ==
  /\ Needs \in [Guid -> SUBSET Guid]
  /\ MaxVersion \in Nat \ {0}
  /\ \A u \in Usage :
       /\ u.authors \subseteq Site /\ u.force \subseteq BOOLEAN /\ u.seconds \in Nat
       /\ u.contents \subseteq Content
       /\ u.creates \subseteq Site \X Guid
       /\ u.deletes \cup u.undeletes \cup u.purges \subseteq Guid

VARIABLES
  usage,       \* how the sites are used
  row,         \* row[n][g]: the record of g at site n
  entry,       \* entry[n][g]: object_action of its repligard record
  docs,        \* documents written so far
  importing,   \* the import running at each site, after its query
  now          \* the clock, in the seconds metadata.revised is kept in

vars == <<usage, row, entry, docs, importing, now>>

Time == 0..usage.seconds

(* A record: its properties, its links and what metadata says of it.
   `version' is history: how many changes of its author the record shows. *)
State == [content : Content, links : SUBSET Guid, revised : Time, deleted : BOOLEAN,
          version : 1..MaxVersion]
ObjectDoc == [guid : Guid, state : State]
PurgeDoc == [guid : Guid, purge : {"yes"}]
(* An import: the document, the object made from it and the one found here. *)
Import == [doc : ObjectDoc, object : State, force : BOOLEAN, dbobject : State \cup {NoRow}]

(* What the entry of an object says became of it. *)
ObjectAction == {"create", "update", "delete", "purge"}

ASSUME NoEntryAssumption == NoEntry \notin ObjectAction

ASSUME NoRowAssumption ==
  \A seconds \in {u.seconds : u \in Usage} :
    NoRow \notin [content : Content, links : SUBSET Guid, revised : 0..seconds,
                  deleted : BOOLEAN, version : 1..MaxVersion]

Exists(n, g) == row[n][g] # NoRow
Live(n, g) == Exists(n, g) /\ ~row[n][g].deleted

(* Mutant: objects updated since they were created are not found. *)
ByGuidUnchanged(n, g) == entry[n][g] = "create" /\ Live(n, g)

(* midgard_object_class_get_object_by_guid answers an object. *)
ByGuid(n, g) == entry[n][g] \in {"create", "update"} /\ Live(n, g)

SetRow(n, g, w) == row' = [row EXCEPT ![n][g] = w]
SetEntry(n, g, a) == entry' = [entry EXCEPT ![n][g] = a]
MarkEntry(n, g, a) == SetEntry(n, g, IF entry[n][g] = NoEntry THEN NoEntry ELSE a)

-----------------------------------------------------------------------------
Init ==
  /\ usage \in Usage
  /\ row = [n \in Site |-> [g \in Guid |-> NoRow]]
  /\ entry = [n \in Site |-> [g \in Guid |-> NoEntry]]
  /\ docs = {}
  /\ importing = [n \in Site |-> Idle]
  /\ now = 0

(* When a client of n changes object g: every change has a second of its own. *)
Client(n, g) ==
  /\ n \in usage.authors
  /\ Exists(n, g) => row[n][g].version < MaxVersion
  /\ now < usage.seconds
  /\ now' = now + 1
  /\ UNCHANGED <<usage, docs, importing>>

(* midgard_object_create: a new guid is unknown everywhere. *)
Create(n, g, c) ==
  /\ <<n, g>> \in usage.creates /\ c \in usage.contents
  /\ Client(n, g)
  /\ \A m \in Site : entry[m][g] = NoEntry /\ ~Exists(m, g)
  /\ \A d \in docs : d.guid # g
  /\ \A p \in Needs[g] : Live(n, p)
  /\ SetRow(n, g, [content |-> c, links |-> Needs[g], revised |-> now', deleted |-> FALSE,
                   version |-> 1])
  /\ SetEntry(n, g, "create")

(* midgard_object_update of a freshly fetched object *)
Update(n, g, c) ==
  /\ c \in usage.contents
  /\ Client(n, g)
  /\ Live(n, g)
  /\ SetRow(n, g, [row[n][g] EXCEPT !.content = c, !.revised = now', !.version = @ + 1])
  /\ MarkEntry(n, g, "update")

(* midgard_object_delete *)
Delete(n, g) ==
  /\ g \in usage.deletes
  /\ Client(n, g)
  /\ Live(n, g)
  /\ SetRow(n, g, [row[n][g] EXCEPT !.deleted = TRUE, !.revised = now', !.version = @ + 1])
  /\ MarkEntry(n, g, "delete")

(* midgard_object_class_undelete leaves metadata.revised alone. *)
Undelete(n, g) ==
  /\ g \in usage.undeletes
  /\ Client(n, g)
  /\ entry[n][g] = "delete"
  /\ Exists(n, g)
  /\ SetRow(n, g, [row[n][g] EXCEPT !.deleted = FALSE, !.version = @ + 1])
  /\ MarkEntry(n, g, "update")

Purge(n, g) ==
  /\ g \in usage.purges
  /\ Client(n, g)
  /\ Exists(n, g)
  /\ SetRow(n, g, NoRow)
  /\ MarkEntry(n, g, "purge")

-----------------------------------------------------------------------------
(* A link is a row id and written as the guid of what it leads to; one to an
   object deleted or purged here is left out. *)
LinkGuids(n, links) == {p \in links : Live(n, p)}
Written(n, g) == [row[n][g] EXCEPT !.links = LinkGuids(n, @)]

(* midgard_replicator_serialize: deleted objects are written as well. *)
Serialize(n, g) ==
  /\ Exists(n, g)
  /\ docs' = docs \cup {[guid |-> g, state |-> Written(n, g)]}
  /\ UNCHANGED <<usage, row, entry, importing, now>>

(* midgard_replicator_export_purged *)
ExportPurged(n) ==
  /\ docs' = docs \cup {[guid |-> g, purge |-> "yes"] :
                          g \in {h \in Guid : entry[n][h] = "purge"}}
  /\ UNCHANGED <<usage, row, entry, importing, now>>

(* The clock of the servers. *)
Tick ==
  /\ now < usage.seconds
  /\ now' = now + 1
  /\ UNCHANGED <<usage, row, entry, docs, importing>>

-----------------------------------------------------------------------------
(* _nodes2object: the guids an object links to must be known here; by force
   the links to those that are not are set to 0. *)
DependenciesMet(n, d) == \A p \in d.state.links : ByGuid(n, p)
Unserialized(n, d) == [d.state EXCEPT !.links = {p \in @ : ByGuid(n, p)}]

(* An object without record here is created unless the repligard table says
   that it is deleted, or was purged and the import is not forced. *)
CreateRegardless(n, g, force) == ~Exists(n, g)                          \* mutant
MayRecreate(n, g, force) ==
  /\ ~Exists(n, g)
  /\ entry[n][g] \in {NoEntry, "create", "update"} \/ (force /\ entry[n][g] = "purge")

(* The dates of revision, as the midgard_timestamp of both shows them. *)
NeverNewer(n, d) == FALSE                                               \* mutant
NotNewer(n, d) == d.state.revised <= row[n][d.guid].revised

(* midgard_replicator_import_object up to the decision to take the object: it
   is unknown, purged here and forced, or the record is older. *)
ImportQuery(n, d, force) ==
  /\ importing[n] = Idle
  /\ d \in docs \cap ObjectDoc
  /\ force \/ DependenciesMet(n, d)
  /\ \/ MayRecreate(n, d.guid, force)
     \/ Exists(n, d.guid) /\ (force \/ ~NotNewer(n, d))
  /\ importing' = [importing EXCEPT ![n] =
       [doc |-> d, object |-> Unserialized(n, d), force |-> force, dbobject |-> row[n][d.guid]]]
  /\ UNCHANGED <<usage, row, entry, docs, now>>

(* _midgard_object_create(object, guid, OBJECT_UPDATE_IMPORTED), after the
   entry of a purged object was removed. *)
ImportCreate(n, g) ==
  /\ importing[n].dbobject = NoRow
  /\ SetRow(n, g, importing[n].object)
  /\ SetEntry(n, g, "create")

(* midgard_object_delete of the database object, dated here and now; the
   content of the document is not taken. *)
ImportDeleteEntry(n, g) ==              \* mutant: only the entry says deleted
  LET s == importing[n].object IN
  /\ importing[n].dbobject # NoRow /\ s.deleted
  /\ SetRow(n, g, IF Exists(n, g)
                  THEN [row[n][g] EXCEPT !.revised = now, !.version = s.version] ELSE NoRow)
  /\ MarkEntry(n, g, "delete")

ImportDelete(n, g) ==
  LET s == importing[n].object IN
  /\ importing[n].dbobject # NoRow
  /\ s.deleted
  /\ SetRow(n, g, IF Exists(n, g)
                  THEN [row[n][g] EXCEPT !.deleted = TRUE, !.revised = now,
                                         !.version = s.version]
                  ELSE NoRow)
  /\ MarkEntry(n, g, "delete")

(* A deleted record is undeleted first, which does nothing unless its entry
   says "delete"; _midgard_object_update does not touch the deleted flag. *)
ImportUpdate(n, g) ==
  LET s == importing[n].object
      undeleted == importing[n].dbobject.deleted /\ entry[n][g] = "delete" IN
  /\ importing[n].dbobject # NoRow
  /\ ~s.deleted
  /\ SetRow(n, g, IF Exists(n, g)
                  THEN [s EXCEPT !.deleted = row[n][g].deleted /\ ~undeleted]
                  ELSE NoRow)
  /\ MarkEntry(n, g, "update")

ImportWrite(n) ==
  /\ importing[n] # Idle
  /\ LET g == importing[n].doc.guid IN
     ImportCreate(n, g) \/ ImportDelete(n, g) \/ ImportUpdate(n, g)
  /\ importing' = [importing EXCEPT ![n] = Idle]
  /\ UNCHANGED <<usage, docs, now>>

(* midgard_replicator_import_from_xml of a purge document.  It works for an
   object that is live here.  A deleted one is handed to midgard_object_purge
   as a NULL pointer, and an unknown or purged one fails the assertion of
   _nodes2object: the process dies and the database stays as it was. *)
ImportPurge(n, d) ==
  /\ importing[n] = Idle
  /\ d \in docs \cap PurgeDoc
  /\ ByGuid(n, d.guid)
  /\ SetRow(n, d.guid, NoRow)
  /\ MarkEntry(n, d.guid, "purge")
  /\ UNCHANGED <<usage, docs, importing, now>>

Next ==
  \/ Tick
  \/ \E n \in Site :
       \/ \E g \in Guid :
            \/ \E c \in Content : Create(n, g, c) \/ Update(n, g, c)
            \/ Delete(n, g) \/ Undelete(n, g) \/ Purge(n, g)
            \/ Serialize(n, g)
       \/ ExportPurged(n)
       \/ \E d \in docs : ImportPurge(n, d) \/ \E f \in usage.force : ImportQuery(n, d, f)
       \/ ImportWrite(n)

Spec == Init /\ [][Next]_vars

(* Somebody runs the export and the import again and again: what is current is
   written some time, and a document that could be taken is taken some time. *)
Newest(g) == {d \in docs \cap ObjectDoc :
                 /\ d.guid = g
                 /\ \A e \in docs \cap ObjectDoc :
                      e.guid = g => e.state.version <= d.state.version}

Replicated ==
  \A n \in Site :
    /\ \A g \in Guid : WF_vars(Serialize(n, g))
    /\ WF_vars(ExportPurged(n))
    /\ WF_vars(ImportWrite(n))
    /\ \A g \in Guid : SF_vars(\E d \in docs : d.guid = g /\ ImportPurge(n, d))
    /\ \A g \in Guid : SF_vars(\E d \in Newest(g) : ImportQuery(n, d, FALSE))

FairSpec == Spec /\ Replicated

-----------------------------------------------------------------------------
(* The import running at site n writes document d by force in this step. *)
ForcedWrite(n, d) ==
  /\ importing[n] # Idle
  /\ importing'[n] = Idle
  /\ importing[n].force
  /\ importing[n].doc = d

Forced(n, g) == \E d \in docs \cap ObjectDoc : d.guid = g /\ ForcedWrite(n, d)

(* Without force a record is never replaced by an older one, whatever order   *)
(* the documents of several sites come in, unless a client of the site        *)
(* changes the record between the two steps of the import.                    *)
Overtaken(n, g) == /\ importing[n] # Idle
                   /\ importing[n].doc.guid = g
                   /\ importing[n].dbobject # row[n][g]

RevisedNeverGoesBack ==
  [][\A n \in Site, g \in Guid :
       Exists(n, g) /\ Exists(n, g)' /\ ~Forced(n, g) /\ ~Overtaken(n, g)
         => row'[n][g].revised >= row[n][g].revised]_vars

(* While the repligard table of a site says that it purged an object, no       *)
(* document brings the object back without force, however late or often it    *)
(* comes.  (An import that was running when a client purged the object writes *)
(* "update" over the entry, and the site has forgotten the purge.)            *)
PurgedStaysPurged ==
  [][\A n \in Site, g \in Guid :
       entry[n][g] = "purge" /\ ~Forced(n, g) => ~Exists(n, g)']_vars

(* One site's clients make all changes, they undelete nothing, and nothing is *)
(* imported by force.  (A deleted object that a site imports gets an entry    *)
(* "create", and later documents of the undeleted object do not undelete it.) *)
OneMaster == /\ \A n, m \in usage.authors : n = m
             /\ usage.undeletes = {} /\ TRUE \notin usage.force

(* With one master, a record that shows the same change as a document is      *)
(* deleted if and only if the document says so; and in whatever order the     *)
(* documents of any site come, a record links to nothing its site has never   *)
(* known.                                                                     *)
ImportedIsWhatWasSent ==
  \A n \in Site :
    /\ \A d \in docs \cap ObjectDoc :
         OneMaster /\ Exists(n, d.guid) /\ row[n][d.guid].version = d.state.version
           => row[n][d.guid].deleted = d.state.deleted
    /\ \A g \in Guid : Exists(n, g) => \A p \in row[n][g].links : entry[n][p] # NoEntry

(* With one master the other sites end up with what it has, although     *)
(* documents come in any order: the same records live, with the same content  *)
(* and the same links.                                                        *)
SameAs(n, m, g) ==
  /\ Live(n, g) <=> Live(m, g)
  /\ Live(n, g) => row[n][g].content = row[m][g].content /\ row[n][g].links = row[m][g].links

Converges ==
  \A g \in Guid :
    OneMaster => <>[](\A n \in usage.authors, m \in Site : SameAs(n, m, g))

=============================================================================
