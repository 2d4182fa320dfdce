# Midgard core: models and proofs

A verification development for the Midgard core library (`src/`): TLA+ modules
that model how objects are stored, linked, translated, replicated, locked,
metered and queried, how users log in and pages are resolved, and how the
classes get their tables; TLC configurations that check them on small
instances; and TLAPS proofs of what matters most for every value of the
constants. Line numbers are those of `src/`; `types.c` stands for
`src/src/types.c` and so on.

## 1. The system

Midgard core is a C library in the client process. A client opens a MySQL
connection, works with GObject instances (`MgdObject`) of classes read from an
XML schema, and the library turns calls into SQL. There is no server of
Midgard's own, **no SQL transaction and no lock**: every call is a sequence of
single statements, and the statements of all client processes interleave in the
database. Where the code can go wrong is therefore seldom inside one call but
between the statements of several, between a table and the tables that describe
it (repligard, quota, texts, page cache), and between the database and what a
process keeps of it (instances, collectors, tables of names, identities).

| Component | State it keeps | Operations | Talks to |
|---|---|---|---|
| Object store (`types.c`, `midgard_object.c`) | a table per class; the instance in memory | create, update, delete, purge, set_guid, fetch, lookup by guid, undelete | repligard, quota, tree checks |
| Multilingual objects (`types.c`) | a second table: a record of texts per object and language | the same, per language | object store, replicator |
| Repligard catalogue (table `repligard`) | the last action per (guid, sitegroup) | added by create, moved by update, delete, purge, undelete, removed by a forced import | object store, replicator |
| Replicator (`midgard_replicator.c`, `midgard_core_object.c`) | nothing but the XML documents it returns | serialize, export, export_purged, import_object, import_from_xml | object store, repligard |
| Locks and approvals (`types.c:3740-4218`) | `metadata_islocked`, `_isapproved`, locker, approver, revision; a cached copy per instance | lock, unlock, approve, unapprove, is_locked, is_approved | update |
| Quota (`midgard_quota.c`) | table `quota`: limits and counters per sitegroup and type; `metadata_size` | create, update, remove, size_is_reached | create, update, purge |
| Metadata (`types_metadata.c`) | attributes of every object | getters, setters, SQL fragments | all of the above |
| Tree (`types.c:810-1040`, `tree_core.c`) | parent and up links | checks of names and cycles, listings, walks, paths | object store |
| Legacy trees (`tree.c`) | the tree read at the start of a call | recursive copy, move and delete | object store, files |
| Parameters (`midgard_object_parameter.c`) | a collector per domain, cached in the instance | get, set, list, delete, purge | object store, collector |
| Attachments, blobs (`midgard_object_attachment.c`, `midgard_blob.c`) | a record and a file | create, read, write, remove | object store, file system |
| Users, sitegroups (`midgard_user.c`, `midgard_sitegroup.c`, `midgard.c`) | two identities, person and sitegroup of a connection, its table of sitegroup names | auth, logout, force root, set sitegroup, password, create and rename sitegroups | connection |
| Page resolution (`pageresolve.c`) | table `cache`: the elements a page was rendered with | find host, parse path, load elements, touch | database |
| Query builder, collector (`query_builder.c`, `midgard_core_query_builder.c`, constraints, `midgard_collector.c`) | a query under construction; keys and values collected | constraints, groups, orders, languages, execute, count, keys and values | object store |
| Schema (`mgdschema.c`) | the types read, their properties, parents and tables | read files and includes, prepare, register, inherit, validate | class registration |
| Storage (`query.c`, `midgard_config.c`) | the database's tables, columns and indexes | create basic tables, create and update a class' tables | schema |
| Connection, configuration, reflection, D-Bus, rest of the legacy API, styles | see section 5 | | |

What makes each component correct:

* **Object store.** A guid names one object for good: never two records, no
  record that comes back after a purge. Only sessions of a sitegroup (or root)
  change its objects. Hard because each call is several statements, processes
  die between them and the server may refuse any.
* **Multilingual objects.** One text per language and never none; writing one
  language leaves the others alone. Hard because texts are looked up, counted
  and then written.
* **Repligard.** The entry tells what became of the object; a tombstone has no
  record; every record has an entry.
* **Replicator.** Documents come in any order, late, twice or never. Newer data
  is never replaced by older data, a purged object does not come back, links
  survive, and the replica ends up with the master's objects and languages.
* **Locks.** The check and the UPDATE are two statements and both go by cached
  flags. Locks exclude, an approval vouches for the content it was given to,
  and no update silently undoes what others wrote.
* **Quota.** Counters that are moved by separate statements stay right in every
  order, and limits are not overshot by more than concurrency explains.
* **Tree.** Names are unique below one parent and nobody is his own ancestor;
  listings show exactly the tree. The checks are SELECTs before the write, a
  listing is a SELECT per level.
* **Legacy trees.** A copy is the tree again and stays apart from its source;
  a deletion that reports success left nothing. Both go on after refusals, and
  take a refused SELECT for one without rows.
* **Parameters, attachments.** What an instance remembers of its parameters is
  what the table says as long as nobody else wrote; one record per name; no file
  without a record.
* **Users.** A user id and the signature belong to one person; root comes from
  sitegroup 0; a user works in his own sitegroup.
* **Pages.** A load finds every element the page is made of, and the cache
  serves nothing else.
* **Queries.** A query lists what the caller asked for, whatever the order of
  his calls. That refused calls leave no trace and that count counts without limit
  is documented, but not so.
* **Schema and storage.** Every file is read once, whatever includes it; types
  know their parents whatever the order; a table reported as done has its
  columns, and one that was updated its indexes. (Creating it promises indexes too,
  and makes none for links.)

The hazards this amounts to are listed one by one, with their lines, in
`PROJECT.json`.

## 2. Modules

| Module | Models |
|---|---|
| `Lifecycle` | abstract: the stages unborn, live, deleted, purged the headers promise |
| `ObjectStore` | the object store and repligard, statement by statement; implements `Lifecycle` |
| `ObjectStoreProofs` | theorems about `ObjectStore` |
| `Translation` | multilingual objects, their texts, and the import of documents in several languages |
| `TranslationProofs` | theorems about `Translation` |
| `Replication` | sites that export and import objects, links and purges |
| `ObjectLock` | locking, approving and updating one object through cached instances |
| `ObjectQuota` | quota accounting of create, update and purge |
| `ObjectQuotaProofs` | theorems about `ObjectQuota` |
| `ObjectTree` | the checks of names and links, listings, walks and paths |
| `LegacyTree` | recursive copy and deletion of the C API |
| `Trees` | what both share: siblings in the order of their ids |
| `TreeProofs` | theorems about `ObjectTree` and `LegacyTree` |
| `ObjectExtension` | parameters and their collector, attachments and their files |
| `ObjectExtensionProofs` | theorems about `ObjectExtension` |
| `UserSession` | logins, identities, sitegroups of connections |
| `UserSessionProofs` | theorems about `UserSession` |
| `PageResolve` | hosts, paths, elements and the page cache |
| `StaleCopyProofs` | theorems about `ObjectLock` and `PageResolve`, where clients work with copies |
| `QueryBuilder` | queries and collectors, from the first call to the answer |
| `Schema` | reading of schema files and preparation of types |
| `AnyOrderProofs` | theorems about `Schema` and `Replication`, which read what comes in any order |
| `Storage` | extends `Schema`: the tables of its classes, statement by statement |
| `MC...` | model values and instances for TLC |

Definitions named as mutants in their comments are plausible mistakes in the
code; with one of them in place of the definition after it a property must
fail. They take no part in any specification.

In every module an action is the part of a handler up to and including one
statement (or file operation), unless said otherwise, and statements of all
sessions interleave. Variables marked "history" in a module's declaration are
read by properties only.

### ObjectStore

`rows` is the table of one class (row id -> record), `entry` the repligard
table with its primary key (guid, sitegroup), `obj[s]` the instance session `s`
holds, `pc[s]` the statement it runs next. `midgard_object_purge` is `PurgeRow`
(checks and DELETE, `types.c:2928-3041`) and `PurgeEntry` (the tombstone,
`types.c:3052-3065`); `midgard_object_class_undelete` is `Undelete` (the
lookup), `UndeleteRow` and `UndeleteEntry`. `SetGuid` and `SetGuidFetch` are the
two queries of `midgard_object_set_guid`. Refusals that reach no statement are
`CreateRefused`, `CreateInvalid` and `CallRefused`. `Crash` is the death of a
process between two statements (`MayCrash`); with `MayFail` the server refuses
statements wherever the code ignores or handles that. `faults` records which of
the two has happened.

`Careful` clients use only objects that are live at that moment and give no
guids of their own; all others act on whatever instance they hold. Replication
is switched on (`MGD_CNC_REPLICATION`), `SessionSg` is the sitegroup of a
connection, `Root` its SG0 administrators. Row ids are given out up to `MaxRow`.

`StageOfAll` reads off the stage of every guid from the object table and
refines `Lifecycle` (`LifecycleRefined`). `stored` holds the guids a record was
ever inserted for; it makes "unborn" and "purged" different, and no action's
guard depends on it but `Fresh`, the assumption that a new guid was never used
(`midgard_guid_new`).

### Translation

`row` and `text` are the two tables of a class with languages; a text names its
record (`sid`) and language. `Picked` is the fallback of a query: the text in
the language of the connection, else in the default one, else the object is not
found. The statements of `midgard_object_create`, `_update`, `_delete`,
`_purge`, `_undelete` and of a document's import are actions of their own:
`LookAnyText`, `LookText`, `LookRow`, `WriteText` and `AddText` are
`_update_records` (`types.c:690-790`), `CountAny` and `Count` the counts a
deletion begins with, `ImportLook` to `EndImport` the walk of
`midgard_replicator_import_from_xml` over the languages of a document and the
removal of those it does not have. A repligard entry is written together with
the record here; `ObjectStore` has the two apart. `late` and `torn` are history:
who was overtaken on his object, and which objects such a session, a crash or a
refusal left half written. `TranslationAssumption` says that a document has no
language twice: the exporter's list is a collector of the languages of the texts
(`midgard_object_get_languages`, `types.c:3558-3640`).

### Replication

`row[n][g]` and `entry[n][g]` are the record and entry of `g` at site `n`;
`docs` every document ever written. Handlers of the object store are single
steps, but an import is two: `ImportQuery` (reads the database object and
decides, `midgard_replicator.c:418-640`) and `ImportWrite` (create, delete or
update), with the clients of the site in between. A record carries `links`
(written as guids by `LinkGuids`, resolved again at the importing site) and
`revised`, the date the importer goes by; `version` is history: how many changes
of its author it shows. `usage` says how the sites of a behaviour are used: who
creates and changes what, whether imports may be forced, how many seconds pass.
Every change falls in a second of its own, which is the assumption under which
the dates can order changes at all.

### ObjectLock

`row` is one record, `handle[s]` the instance of session `s`: content,
revision, locker, approver, and two flags that are `Unset` until read. `Check`
is the first half of lock, unlock, approve and unapprove (the flag is read from
the instance, or selected), `SetLock` and `SetApproval` the unconditional
UPDATE. `Update` writes what the instance holds, locker and approver included,
and clears the approval. `UpdateRefused` is an update whose statement the quota
or the server refuses: the instance has been brought up to date already
(`types.c:1195-1204`). `stale` is history: another session wrote since the
instance was read, or an update of it was refused.

### ObjectQuota

`CheckSg` to `CountSg` are `midgard_quota_create`, `Measure` to `AddSg`
`midgard_quota_update`, `UncountType` to `DropSg` `midgard_quota_remove`. A
session's `job` is the object it is working on. `Metered` and `TypeMetered` are
the sitegroups with a quota record. Quota is switched on and the older quota of
`midgard.c` is not. Any statement may be refused (`Refused`, `SizeRead`, at most
`MaxRefused` of them): a limit that could not be read is none and then nothing is
counted, a counter that could not be moved stays, and a refused DELETE, which
leaves `mysql_affected_rows` at -1, passes for one that deleted the row
(`types.c:3031-3043`). `tooHigh` and `tooLow` are history: the sitegroups whose
counters a refused statement or an administrator's purge (`Misbook`) has made wrong.

### ObjectTree

`row` is the table of a class with an `up` link and, if `ParentIds` has more
than 0, a `parent` link. `Create` and `Update` are the checks that need one
SELECT (`IsValid`, `IsCircular`), `UpdateName` the check of the name
(`NameTaken`), `InsertRow` and `UpdateRow` the write. `List`, `ListChildren` and
`ListLevel` are the listings of `tree_core.c`, a SELECT per level; `WalkUpLive`
and `WalkUp` the walks to the root (`mgd_is_in_tree` and its kin), a SELECT per
node; `FindByPath`, `PathElement` and `PathFetch` `midgard_object_get_by_path`.
`late` is history: a session during whose call another one wrote.

### LegacyTree

`dir` and `leaf` are the tables of a tree (topics and articles, pages and
elements, ...), `extra` the parameters, attachments, files and contents of its
objects. A job first reads the tree (`BeginCopy`, `BeginDelete` with `Walk`) and
then works node by node; a step is a node or leaf with its extras. `Copier` and
`Deleter` tell, kind by kind, what `tree.c` takes along and what it forgets.
Another client may change the tree between two steps (`Change`, `ChangeDir`,
`ChangeLeaf`), and the call returns or the process dies (`EndJob`). Statements
and file operations are refused (`Refuse`), and each refusal has the effect the
code gives it. A refused SELECT reads as one without rows (`mgd_vquery`,
`midgard.c:1529`): the tree ends there (`Reads`), a node is not copied and `ups`
keeps an id of the source (`SkipNode`), extras and leaves are passed over. A
refused INSERT gives id 0, a refused DELETE is and-ed to the answer (`Answer`).
`Fates` are what can become of a row to be deleted; one of another sitegroup is
spared, with success, because the DELETE does not match it. `mgd_delete` of a
row that is not there any more succeeds, too, so a job overtaken by another
client's deletion goes on.
`origin` is history: which row is a copy of which; `missed`: the job has missed
a node or, deleting, a row without its answer telling. If the two reads of a copy
differ, `ups` may be too short for the walk and the process writes past its end;
the model stops such a copy at that node.

### ObjectExtension

`row` holds the parameters or attachments (`class`) of one object, `file` the
files of attachments, `cache[s]` the collector of session `s`, `blob[s]` its
blob. `SetNew`, `SetOld`, `Insert`, `Write` and `WriteUncached` are
`midgard_object_set_parameter`; `ForEach`, `DeleteEach`, `PurgeEach`, `Unlink`
and `PurgeUnlinked` the functions that delete or purge all parameters or
attachments, with or without their files; `WriteContent`, `ReadContent` and
`RemoveFile` those of a blob. A refused count of a name is answered with 0
(`query_builder.c:418-428`), so `CreateAttachment` may create a name that is taken
(`looked`). `stale` is history: names a collector may be wrong about because
somebody else wrote; `excused`: files nobody is expected to have removed;
`unseen`: attachments created after a refused count.

### UserSession

`identity[c]` are the two `mgd_userinfo` of a connection (page and setuid),
`current[c]` which of them counts, `mgdPerson` the person objects are signed
with, `account` the `MidgardUser`, `connSg` and `sgIds` the connection's
sitegroup and table of sitegroup names. `Auth`, `LookupSitegroup`,
`LookupPerson`, `LookupGroups` and `FetchPerson` are the SELECTs of
`midgard_user_auth` and `mgd_auth_su` (`midgard.c:1255` on); the others are a
call each. `PersonDeleted`, `MemberChanged`, `SitegroupUpdate` and
`SitegroupCreate` change what a login under way reads. Any SELECT of a login may be
refused, which the code takes for no rows: no sitegroup, nobody, no groups or no
person object. `vanished` is history: logins that did not get the person object.
Whether a password is right is chosen.

### PageResolve

`FindHost` and `ParseUri` are `mgd_find_host` and `mgd_parse_uri` as operators;
`Request`, `Select`, `Add`, `SelectCached` and `Finish` the rendering of a page,
one SELECT or INSERT at a time; `Change` and `Touch` a change of an element and
`mgd_cache_touch`. `suspect` is history: pages filled while somebody changed or
filled them as well, or that were refused a row.

### QueryBuilder

`query` has the fields of `MidgardQueryBuilderPrivate` (tables after FROM,
joins, constraints, the stack of open groups, orders, limits, languages),
`collector` those of `MidgardCollectorPrivate`. Every public call is an action;
a property's name is parsed part by part (`Parse`, `ParseToken`), and what was
added before a bad part stays, as in the code. `Execute`, `Count` and
`CollectorExecute` evaluate the query over small tables by the meaning of its
SQL: a row of the result is a choice of one row from every table after FROM.
`asked` is history: the constraint the caller wrote, with its groups.

### Schema and Storage

`Schema` reads: `ReadGlobal` and `ReadEntry` begin a call of
`midgard_schema_read_file`, `Visit` is one path of `read_schema_path` (includes
are followed, a file seen is not visited again, nothing is read of a directory
that is included), `Parse`, `Register`, `Postconfig` and `Validate` what is done
with the types. `Breaks` is what ends the process there: a malformed file, and an
included directory with a subdirectory named like a schema file, which is opened
as one. A source of the model says which paths are directories, what is in them,
and which names end in ".xml".
`ReadAttribute` and `Prepared` are what the attributes of a property come to:
its table and field, links, indexes, the multilingual table. The order in which
a directory lists its files is left open.

`Storage` goes on where the schema is ready: `CreateTables`, `CreateClass` and
`UpdateClass` put together what is to be done, and each look at the database
and each change of it is a step (`LookTable`, `MakeTable`, `AddColumn`,
`LookOldIndex`, `DropIndex`, `Modify`, `AddIndex`, `InsertRoot`, ...), with
`Crash`, refusals and another installer in between. Any class can be created or
updated by itself, those of persons and members too. `misled` is history: an
installer met the table of persons while a call for that class was making it.

## 3. What TLC checks

| Run | Instance | Shows |
|---|---|---|
| `store_faults` | 2 clients of a sitegroup and an SG0 administrator, 1 guid, 2 rows, crashes and refused statements | `TypeOK`, `TombstoneHasNoRow`, `RowIsCatalogued`, `OnlyOwnerWrites`, refinement of `Lifecycle` |
| `translations` | 2 sessions, 2 guids, languages 0, 1 and 2 (the default), 2 records, 3 texts, 3 calls, 3 documents, one crash or refusal | `ObjectsAreWhole`, `ImportedIsWhole`, `OtherLanguagesStay` |
| `replication` | master and replica with a parent and a child (2 contents); two sites that both change one object, without and with force | `ImportedIsWhatWasSent`, `RevisedNeverGoesBack`, `PurgedStaysPurged`, and `Converges` under fairness |
| `stale_copies` | 2 users, 2 contents, 3 revisions, refused statements / 2 clients, 2 hosts over 2 pages and 2 styles, 4 elements, 2 languages, 3 renderings, 1 change, crashes and refused rows | `FreshHandleAgrees`, `ApprovalIsSigned`, `LockExcludes`, `CurrentWriterLosesNothing` / `LoadIsComplete`, `CacheServesPage` |
| `quota_peers` | a client and an administrator in one of two sitegroups, a limit of 1 record, 3 rows, any one statement refused | `RecordsCounted`, `OvershootBounded` |
| `tree_peers` | 2 sessions, one of them reading, 2 records, 1 name, listings of depth 2 or unlimited, 3 paths | `UndisturbedReadsAreExact`, `NamesAreKept`, `NoMutualParents` |
| `legacy_trees` | all 6 kinds, 3 nodes and 1 leaf, 1 job, 1 change of another client, 2 refusals | `CopyIsFaithful`, `CopyStaysApart`, `SuccessIsComplete` |
| `collectors` | 2 sessions, 1 name, 2 values, 2 records, crashes and refusals, of the look-up of a name too / 5 objects with and without languages, topics and parameters; 4 calls | `FreshCacheAgrees`, `NamesPerSession`, `NoStrayFile` / `ListsWhatWasAsked`, `CollectsWhatWasAsked` |
| `sessions` | 2 connections, a root user and a user of the second of 2 sitegroups (a third can be created), 2 logins, 2 changes or refused SELECTs | `IdentityAgrees`, `WorksAtHome` |
| `storage` | 5 sets of schema files, 2 installers, an empty and two older databases, 2 calls, a crash and a refusal | `ReadsWhatIsIncluded`, `HierarchyIsMirrored`, `StorageIsComplete`, `LinksAreIndexed` |

Two runs look at two modules each: `stale_copies` (`MCStaleCopies`) at `ObjectLock` /
`PageResolve`, `collectors` (`MCCollectors`) at `ObjectExtension` / `QueryBuilder`.
The two of a pair share no variable and none of their properties speaks of both, so
that a behaviour in which their steps interleave shows nothing that its steps of one
module alone do not: in each behaviour of such a run only the module steps that
`begun` names, and the other stays in one of its initial states. The states of the
run are those of the two modules, added up and not multiplied.

Two runs check what a comment or header of the repository says and the code does
not do. TLC is expected to find each property violated, and `PROJECT.json` quotes the
sentence under "findings":

| Run | Says | Property TLC refutes |
|---|---|---|
| `refused_constraints` | a constraint that is refused does not change the query (`query_builder.h:183`) | `RefusedCallsLeaveNoTrace` |
| `included_directories` | the schema files of an included directory are read (`mgdschema.c:1340`) | `IncludedDirectoriesAreRead` |

Sessions, clients and installers that are alike are interchanged by SYMMETRY
where a run checks safety only.

Why these bounds are enough. The hazards of the store are races of two sessions
over one object, with a third whose rights differ; two rows let a record come
back or stand beside another. Three texts and two records are the least in
which an object gets two texts of a language, or a second record, beside a
correct one. In `replication` a parent and its child are the least that makes
documents come in the wrong order, and three versions the least in which an old
document arrives between two newer ones. Three revisions let a session hold an
instance that is two writes behind. A limit of one record and two sessions let
both pass the check before either counts; three row ids let the overshoot be
followed by a purge and a create. Two records make the smallest cycle the code
looks for; a single session with three records, which makes the cycles it does
not look for, satisfies the same properties. Three nodes have a chain and a fork,
and two refusals can hit a node and what hangs on it. Two attachments and a session
about to create a third are one more than two sessions may make of a name. Two
logins suffice to find what an earlier one left behind. Three renderings are one that fills the cache,
one that overtakes it and one that is served. Four calls of a query reach every
pair of nested groups with a condition in each and a refused name between. The
schema files have an include in a circle, one included twice by the same and by
different files, a child read before its parent, a malformed file, and directories
with files and with a subdirectory named like one.

`CHECK_DEADLOCK FALSE` stands in the runs in which the model ends: the bound on
calls is used up in `translations`, `legacy_trees`, `sessions`, `storage`, in the second
module of `stale_copies` and `collectors`, and in the two runs that expect a violation;
and a process that meets a malformed or repeated schema file aborts. The other runs
check for deadlock: there, clients can always fetch or start something, tick or repeat
an export.

### Fairness

Only `Converges` is a liveness property. The library moves no document and
starts nothing by itself, so fairness is a claim about the people who run it,
not about the code: somebody exports again and again what there is (`WF` of
`Serialize` and `ExportPurged`), finishes an import he started (`WF` of
`ImportWrite`), and offers the newest document of each object whenever it could
be taken (`SF` of `ImportQuery` on `Newest(g)`, `SF` of `ImportPurge`). Strong
fairness is needed because other imports and the clients of the site enable and
disable the import again and again. Nothing is assumed of the clients: they may
stop at any moment. All other calls run to their end in a bounded number of
statements or stop with the process, and what they promise is safety; the loops
that do not end are named below.

### What the models show besides

Properties speak of what the code achieves, so several have a premise: a session
that was not overtaken, a server that refused nothing, a page nobody else was
filling. The premises are real; without them the models show the following.

* *Store and quota.* An administrator's undelete leaves the entry at "delete"; a
  client's undelete of a shared object of sitegroup 0 answers TRUE and changes
  nothing (`types.h:619` promises FALSE on failure). A refused DELETE of a purge
  still writes the tombstone, and a client that purges while an import runs loses
  it to the import's entry. An administrator's purge or a refused statement lets
  the counters drift, and a purge whose DELETE was refused lowers them with the
  record kept, so that a limit can be overshot at will; a create adds nothing to `sg_size`, because the INSERT has
  written `metadata_size` already.
* *Replication.* The purge of an object that was deleted at the replica first is
  never carried out. Undelete does not set `metadata.revised`, so an importer
  cannot tell that the object is newer. An object that is deleted when a site
  first imports it gets an entry "create" there, and `midgard_object_undelete` acts
  on "delete" only: later documents of the object, undeleted, update the record but
  leave it deleted. Links to deleted objects are left out of
  documents; a forced import sets links to unknown objects to 0; multilingual
  objects are imported whatever the dates say.
* *Translations.* A create whose name is taken in another language goes on as an
  update of a new instance, writes nothing and answers TRUE. In the default
  language names that exist in other languages only are not found, so they are
  duplicated; a rename may take a name found in another language. A refused
  SELECT of the text is taken for "no text" and adds a second one. Deleting an
  object in a language it has no text in answers TRUE. An object without any text
  is invisible, and an import creates a second record of its guid. Translations a
  document lacks are removed even if all its nodes were refused.
* *Locks.* Both of two sessions that read the flag before either writes get the
  lock; an instance never notices a lock taken after it read the flag.
* *Tree.* `if (up_pspec)` never holds, so a class with both links refuses parent
  0 even if `up` is set. Cycles of three and more objects are not detected, and
  `mgd_is_in_tree` and unlimited listings never end on one. A deletion leaves
  orphans; an undelete checks no name.
* *Legacy trees.* `mgd_delete_all_content` always answers 0; deleters of styles
  and snippetdirs leave contents behind, and parents go before children. A copy
  whose INSERT was refused goes on with id 0. A node whose SELECT is refused is not
  copied, and the copies of what is below it hang below the source. A deletion
  answers 1 although a list it could not read was passed over, or a row of another
  sitegroup is still there (`missed`).
* *Parameters, attachments.* Setting a cached parameter whose record vanished
  answers FALSE for good; a refused SELECT is cached as "no parameters". Deleting
  all answers TRUE if one was deleted; an attachment whose name could not be counted
  is created even if the name is taken, as often as that happens; purging with blobs answers FALSE always
  and ignores files it could not remove.
* *Users.* The user of a connection stays that of an earlier login; a person
  deleted between the SELECTs of a login, or a refused SELECT of his object, leaves
  rights without signature (`vanished`), and after `mgd_auth_unsetuid` objects are
  still signed with the person of the setuid login (`midgard.c:1319`); the
  table of sitegroup names is that of the last load, so that a login by name can
  end in another sitegroup. Two sessions can create a sitegroup of one name.
* *Pages.* A page counts as cached as soon as one row of it is there: half-filled
  pages are served, and so are those of which a row was refused
  (`pageresolve.c:519`). The cached SELECTs look at neither host nor language.
* *Queries.* A refused linked or parameter name leaves its joins and conditions
  behind, although `query_builder.h:183` says that the state does not change
  (`refused_constraints`), which is why `ListsWhatWasAsked` leaves out queries with
  tables only refused names have led to; such
  conditions are inner joins even inside OR groups; ordering by a linked
  property drops objects without link. `count` ignores the limit of a plain class,
  respects it for a multilingual one, and with an offset answers 0
  (`query_builder.h:316-317` promises a count without limit and offset). A collector
  executed twice with two values never ends.
* *Schema and storage.* A directory that is included contributes no file
  (`mgdschema.c:1359`, the run `included_directories`); a file included by two calls
  aborts the process, and so does a malformed one (`mgdschema.c:1287`, although the
  comment at 1269 says that a warning is logged). A table
  that is there is taken for complete by create, also by an installer whose
  administrator then finds no place in a half-made table of persons, and his INSERT
  fails unnoticed (`misled`); links of a class that was created and not updated have
  no index, although `midgard_config.h:249` promises one; an old index name never
  matches; a column that has an index can never become a longtext. Two installers
  can create two administrators. A table that only properties name is not made if its
  name is part of another's (`mgdschema.c:886`), and of two classes that make one
  table with different primary fields at the same time one lacks its own (`Unmade`);
  an update of a class that asks for no index on a shared column drops the index
  another one has asked for (`Unasked`). `StorageIsComplete` and `LinksAreIndexed`
  leave these out by name; `Story` of the instance is such a class, and without
  any one of the three exceptions the run fails.

## 4. What is proved

`ObjectStoreProofs` (for every number of sessions, guids, sitegroups and rows):

* `TypeCorrect`: `Spec => []TypeOK`.
* `StoreInvariant`: `Spec => []StoreInv`, what the other theorems rest on, with
  crashes and refused statements: every record's guid is in `stored` and its row id
  was given out, and a guid has one record (`UniqueGuid`). The last is a consequence
  of the assumption `Fresh`, a fresh guid not being in `stored`, and no property
  of its own. `OnlyCreateAdds` is the lemma that no other action adds a record or
  changes a guid.
* `TombstonesAreTrue`: `Spec => []TombstoneHasNoRow`, which speaks of servers that
  refused nothing so far (`faults`). A session that has run its DELETE and not yet
  written the tombstone must be covered: `PurgeInv` adds that for such a session
  there is no record of the guid, and that the guid was stored, so that no create
  can bring one back.
* `RecordsAreCatalogued`: `Spec => []RowIsCatalogued`: as long as nothing died and
  nothing was refused, a record has its entry, or the session that created it is
  about to add it.
* `RefinesLifecycle`: `Spec => LifecycleRefined`. Initial states map to initial
  states (`RefinementInit`), every step to a step of `Lifecycle` or a stutter
  (`RefinementStep`), action by action, from `StoreInv`.
* `OwnersWrite`: `Spec => OnlyOwnerWrites`. A call that takes several statements
  checks the owner in the first and writes in a later one: `OwnerInv` adds that the
  instance of a session about to write was checked and has kept its sitegroup.

`StaleCopyProofs`, on `ObjectLock` (for every number of sessions and contents):

* `LockTypeCorrect`, `ApprovalsAreGenuine`: from the inductive `LockInv`, which
  adds that a session about to write has an instance whose flag it found in the
  opposite state (`CheckedFirst`).
* `InstancesAgree`: `FreshHandleAgrees`, inductive relative to `LockInv`.
* `LocksExclude` and `NothingIsLost`: the action properties follow from these
  invariants step by step.

`StaleCopyProofs`, on `PageResolve` (for sites of every size and shape, and every
number of clients, changes, touches and crashes):

* `PageInvariant`: `PageSpec => []PageInv`. Beside the types, and the fact that elements
  in one place differ in name, it says of a load of a page that is not `suspect` that
  it has come through some number of its SELECTs, has found of every name the `First`
  element in them, and that the cache has a row for each it has added (`OnCourse`); of a
  row of such a page that it names an element a load chooses, found where it still is
  (`IsChosen`); and of a page with a row that all a load chooses is there, once no load of
  it on that host is under way (`IsComplete`).
* `LoadsAreComplete`: `PageSpec => []LoadIsComplete`. What takes proof:
  - The recursive functions. `Above` and `Styles` exist because nothing hangs below
    itself (`ClimbExists`, by the least height where they would not), the one in
    `ParseUri` and the one in `FromCache` because they count steps (`RunExists`).
  - The style. `ParseUri` takes the last style set on the way down, `LoadIsComplete`
    speaks of the nearest one on the way up to the page of the host: `StyleBelow` shows
    that a component of the path keeps both together. That needs a way to the root
    that goes through no page twice (`WayOnce`).
  - The languages. A load asks for each level twice, first for what is translated; the
    first of a name in its SELECTs is the first of that name on the levels all the same
    (`FirstIsChosen`), since a level has one element of a name at most.
* `CacheServes`: `PageSpec => []CacheServesPage`. In the join no row can replace another,
  since the elements a load chooses differ in name (`ChosenNames`), so what is served
  is what the rows name (`CacheIsJoined`).

`AnyOrderProofs`, on `Schema` (for every set of schema files and every order):

* `SchemaInvariant`: `SchemaSpec => []SchemaInv`, where `SchemaSpec` is what the run's `Spec`
  does before the schema is ready. While a root is read (`Reading`), the files seen are
  reached from it, and what they include is seen or still on the stack (`Visited`); so
  an empty stack means that all is seen (`AllSeen`), because `Reached` is the least
  set with the root that includes what its files include. What would end the
  process is still on the stack, or nothing the root leads to does (`Sound`). The types are those the
  files of the roots done and the files parsed define, each once (`Collected`), and
  the children of a type are classes that name it; after every file, all of them
  (`Mirrored`).
* `FilesAreRead`, `ParentsKnowChildren`: `SchemaSpec => []ReadsWhatIsIncluded`,
  `SchemaSpec => []HierarchyIsMirrored`. What a definition comes to is a recursive
  function over its properties and attributes; that it exists and leaves parent and
  children of the type alone (`ReadTypeIs`) follows from the least number where it
  would not.

`AnyOrderProofs`, on `Replication` (for every number of sites, objects, authors and seconds):

* `ReplicationInvariant`: `Spec => []ReplicationInv`. Its parts beside the types
  are `Dated` (no date is ahead of the clock), `PurgedIsGone` (an entry that says
  purged has no record) and `ImportsAreFounded`: what an import found in its
  query still holds when it writes. The last is what makes the invariant
  inductive, since the clients of the site go on in between: an object the import
  is going to create is still absent and was not purged, because only an import
  brings a missing object and a site has one import at a time.
* `PurgesAreFinal`: `Spec => PurgedStaysPurged`, whichever documents come,
  however late.
* `DatesNeverGoBack`: `Spec => RevisedNeverGoesBack`.
* `ImportsAreFaithful`: `Spec => []ImportedIsWhatWasSent`, from two more invariants.
  `LinksKnown`: every record, and every object an import holds, links to guids
  that have an entry. `MasterInv` speaks of the `Marks` of an object: what any
  record, document or running import says of its version, date and deletion. The
  deletion is the last change in all of them (`Ordered`), none is ahead of the
  master's own record (`Leads`), and what an import found has not changed, at the
  master because it takes in nothing but deletions, elsewhere because nobody else
  writes (`Fits`). A step adds at most one mark (`WriteMarks`): ahead of all
  (`MasterChanges`) or a copy of one (`CopyIsMastered`). Without
  the premise `OneMaster` it is false: see section 3, "Replication".

`TreeProofs`, on `ObjectTree` (for every number of sessions, names and records):

* `ChecksHold`: `Spec => []TreeInv`. Records link to records with smaller ids
  than the next one; and what a session has checked (`Checked`: the name is not
  taken, the link closes no cycle) still holds unless somebody overtook it.
* `NamesKept`: `Spec => NamesAreKept`. The code compares only the first record
  of a name with the object it updates; the proof shows that this is enough,
  because a record that is the first of its name already had it before
  (`FreeName`).
* `NoNewCycles`: `Spec => NoMutualParents`. The check looks at the children while
  the update writes a link upwards; a new record has no children because
  nothing links to an id that was not given out.

* `ReadsHold`: `Spec => []ReadInv`. A reader takes one SELECT after the other, so the
  invariant says what it knows in between, as long as nobody wrote (`WalkKnows`,
  `PathKnows`, `ListKnows`): how far above its object a walk has come and that the
  root was not on the way; which object the first elements of a path lead to; that
  the n-th level read is the set of live objects n live links below the root.
* `WalksHold`, `PathsHold`, `ListingsHold` and their conjunction `ReadsAreExact`:
  `Spec => []UndisturbedReadsAreExact`. What takes proof:
  - Chains of links. `Ancestor` is a recursive function over the numbers up to n;
    that such a function exists, and what it is at n, follows from the least number
    where it would fail (`LeastOf`), since the library's induction theorems cannot
    be used (see below).
  - A walk that has taken more than `MaxRow` steps goes round in a cycle
    (`RoundTheCycle`, from the pigeonhole theorem), so it has passed every ancestor
    the object has.
  - A listing is a nested concatenation (`Ids`). `Forest` says of a sequence that it
    lists a set below an object, each member once and after the one it hangs from;
    it is shown to survive adding the parent in front and concatenating siblings,
    and then to hold at every height, again by the least one where it would not.
    That nothing is listed twice needs a root that is on no cycle: it gives each
    object a single depth.

`FirstIsThere`, on which `FreeName` rests, and `LeastOf` take the least element of a
set from the library's theorem on well-founded relations.

`TreeProofs`, on `LegacyTree` (for trees of every kind, shape and size, and every
number of jobs, other clients' changes and refused statements):

* `LegacyInvariant`: `LegacySpec => []LegacyInv`. Beside the types: ids are given out in
  order and a dir hangs below an older one (`TreeShape`), a job is at a step its
  operation has and what it holds in `ups` was given out (`JobShape`), extras belong to
  ids that were given out and are of a kind the copier takes along (`ExtraShape`), and
  `NoStrayFile` (no file without its attachment). What `Copied` and `Removed` may leave
  behind is stated once (`RemovedMeans` and its kin).
* `DeletesAreComplete`: `LegacySpec => []SuccessIsComplete`. The additional invariant
  `DeleteKnown` says of a delete that nobody disturbed, that has missed nothing and whose
  answer is still success: each
  node of the tree is done with (`Cleared`) or still to be visited, and the node whose
  row goes next has lost its extras and has its leaves listed.
* `CopiesStayApart`, `CopiesAreFaithful`: `LegacySpec => []CopyStaysApart`,
  `LegacySpec => []CopyIsFaithful`. While a copy works, the tables grow and a walk taken
  now would be another one, so the invariant `CopyKnown` speaks of some walk `W` and of the
  number `p` of its stops that are made (`OnWay`): the rest is still to be done
  (`CopyRoute`), what `ups` holds at the level of a stop made is a copy or 0, and no
  node of `W` is a copy (`CopyApart`), as long as every node could be read (`missed`);
  as long as nothing was refused, each stop made has
  exactly one copy with the same extras, and `ups` holds the copy of the last stop of
  each level (`CopyExact`). What takes proof:
  - The walk. `Grove` says of a sequence that every stop that is not at its top hangs from
    an earlier one a level above, with only deeper ones between (`ParentAt`), that
    siblings ascend, and that no child is missing. It is shown to survive adding the
    node above and concatenating siblings, and then to hold of `Walk` at every height,
    by the least height where it would not.
  - That nothing is walked twice (`NoNodeTwice`), from the levels and the ascending
    siblings; otherwise `ups` would be overwritten with a second copy.
  - That the entry of `ups` a node is hung below is the copy of *its* parent, not of
    another node of that level: between the two all stops are deeper.
  - That the stops of the walk are what the tree `InTree` of the property holds
    (`InTreeIs`), two recursive definitions, again by the least level.
  - Copies themselves are outside the tree: new rows have ids that nothing links to.

`ObjectExtensionProofs` (for every number of sessions, names, values and records):

* `ExtensionInvariant`: `Spec => []ExtensionInv`. Beside the types it says which
  calls a class of records has (`CallFits`), that a collector is right about the
  names that nobody else wrote (`Agrees`), that the record about to be updated is
  still what was selected unless somebody wrote (`Selected`), and that a file is
  gone before its attachment is purged (`UnlinkedFirst`). `Agrees` alone is not
  inductive: an update goes by the record selected one statement earlier.
* `CollectorsAgree`: `Spec => []FreshCacheAgrees`.
* `FilesGo`: `Spec => []NoStrayFile`.
* `NamesBounded`: `Spec => []NamesPerSession`, by counting the records of a name
  and the sessions about to create one (`Creators`), but for those whose look-up was
  refused: a create turns one of the sessions into a record, and only a name without
  records gets new creators.

`UserSessionProofs` (for every number of connections, persons, groups and
sitegroups):

* `SessionInvariant`: `Spec => []SessionInv`, where `SessionInv` says what each
  step of a login may rely on while persons, memberships and names of sitegroups
  change. From the start of a login until a person is found the identity in use
  is nobody's, and so is that of the page while the other one is used; the person
  found is one of the sitegroup asked for, or of sitegroup 0 for a root login
  (`FoundRight`); every id a name ever had is in `bearers` (`NamesRemembered`), so
  two different translations of a name, by the database and by the connection's
  table, prove that the name moved.
* `RightsAreSigned`: `Spec => []IdentityAgrees`, of connections that have a user id.
* `UsersWorkAtHome`: `Spec => []WorksAtHome`.

`ObjectQuotaProofs` (for every number of sessions, sitegroups, rows and every
limit, with administrators and refused statements of every kind):

* `QuotaInvariant`: `Spec => []QuotaInv`. That the counter equals the records
  plus the objects under way is the last of its parts; it is preserved only
  because a session that is about to delete a row knows the row's sitegroup
  (`DeletesItsOwn`, which needs that no id is given out twice), because every
  creating session finds a free row (`RoomLeft`, the bound of the model), and
  because a purge that goes to the wrong counters has been recorded
  (`MisbookingsKnown`). Equality is proved as two inequalities (`Agrees`), since a
  counter that was made too high stays an upper bound and conversely: an
  administrator's purge breaks one half in each of two sitegroups.
* `CountersAreTrue`: `Spec => []RecordsCounted`. `ThereChange` tells for any step
  how the number of records and of objects under way changes; every action is
  then arithmetic. Subtracting stops at zero, but a session that subtracts is
  itself counted, so the counter is positive.
* `LimitsHold`: `Spec => []OvershootBounded`, from `CheckHolds`: the counter and the
  sessions that passed the check and have not counted yet are together less than
  the limit plus the number of sessions.

`TranslationProofs` (for every number of sessions, objects, languages, documents,
records and texts, with crashes and refused statements):

* `TranslationInvHolds`: `Spec => []TranslationInv`. `ObjectsAreWhole` speaks of objects
  nobody works on, so it says nothing of the states in between; the invariant must.
  Of every object it says one of three things (`Sound`): it was torn; or somebody
  who was overtaken on it stands before a statement that looks at nothing any more
  (`Doomed`: the INSERT of a text, the DELETE of the texts of a purge), which will
  tear it; or it is whole except for what a session that was not overtaken is about
  to put right (`AlmostWhole`, `Pending`), and every such session still `Knows`
  what it found: that its text is missing or there, that no record stands in the
  way of its INSERT, that another language is left, that the nodes of its document
  up to the present one have `Arrived`. The case in the middle is needed because a
  refused SELECT makes a session as blind as another session's write does, a
  statement before the damage. What an overtaken session holds fits at least its
  step (`CallsFit`), whatever the tables have become.
* The proof has a lemma for each kind of step - one that only reads (`QuietKeeps`),
  one that writes (`WriteKeeps`: everybody else on the object becomes `late`, so only
  the writer must still know something), one that tears (`TearKeeps`) - and one for
  each action, which tells what that action reads or writes. Objects a step is not
  about are `Untouched`.
* `WholeHolds`, `ImportedHolds`: `Spec => []ObjectsAreWhole`, `Spec => []ImportedIsWhole`.
* `OtherLanguagesHold`: `Spec => OtherLanguagesStay`. Only `WriteText` changes a text for
  an update, one that was found in its language; texts never change theirs.

The proofs rest on the named assumptions of the modules (`StoreAssumption`,
`NoRowAssumption`, `NoEntryAssumption`, `LockAssumption`, `NoneAssumption`,
`ReplicationAssumption`, `TreeAssumption`, `LegacyAssumption`, `ExtensionAssumption`,
`NoRecordAssumption`, `SessionAssumption`, `ReadyAssumption`,
`QuotaAssumption`, `TranslationAssumption`, `SchemaAssumption`, and of `PageResolve` `SiteAssumption`,
`HostAssumption`, `TreesAssumption` and its own `ReadyAssumption`), which only say what
the constants are; TLC evaluates them in every run. Two of them speak of data that the
code takes for granted: elements in one place differ in name, which `ObjectTree` is
about, and no page or style hangs below itself, as `mgd_load_styles` would otherwise
never return.

Only model-checked: the properties of all modules not named in this section.
`Converges` and whatever depends on ENABLED are out of the prover's reach and stay
with TLC; so is what the RECURSIVE operators and folds of `QueryBuilder` and the lists
of statements of `Storage` come to for every input, which would need induction over
data. (`ObjectTree`, `LegacyTree`, `PageResolve` and `Schema` have recursive functions
on numbers or trees, whose induction could be replaced by the least counterexample.)

## 5. What is not modelled

* Property values, string formatting, SQL text, XML layout, GObject signals:
  data the properties do not tell apart.
* Two importers at one site at the same time, imports refused by quota, and the
  import of blobs.
* Of trees: `midgard_object_get_parent`, which answers NULL for every class
  without parent class, and `midgard_object_build_path` and `_get_tree`, which
  assemble strings and lists of what the modelled listings return.
* Of quota: the sizes of blobs' files and `midgard_object_get_size`.
* Of the connection and configuration: connecting to MySQL, key files, the
  parser of the old configuration file, switches for debugging.
* Reflection and class registration: accessors of what `Schema` put together.
* Of the legacy API: escaping, formatting, memory pools and plain accessors.
* `midgard_style.c`, the preparser (a lexer that turns templates into PHP), D-Bus
  signals (nothing in the library depends on them), and vendored code.

## 6. Plan

Done: all modules of section 2. Next, in this order:

1. Compositions: imports against locks and approvals (an import leaves
   `isapproved` alone while it replaces the content), two importers per site,
   quota under imports.
2. Import and export of blobs; `midgard_style.c` on the elements `PageResolve`
   loads.
3. Proofs: `StorageIsComplete` and `LinksAreIndexed`.
