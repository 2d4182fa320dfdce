--------------------------------- MODULE Storage --------------------------------
(***************************************************************************)
(* The tables of the classes (query.c): midgard_config_create_midgard_-    *)
(* tables, midgard_config_create_class_table and midgard_config_update_-   *)
(* class_table.  Each is a long sequence of statements, none of them in a  *)
(* transaction: an installer can die between two of them, the server can   *)
(* refuse any of them, and two installers can work on the same tables.     *)
(*                                                                         *)
(* A job is the list of what a call has still to do; a step is one         *)
(* statement, a look or a change.  The database may hold tables an older   *)
(* release made.  Character sets are only looked at and left out.          *)
(***************************************************************************)
EXTENDS Schema

CONSTANTS
  Session,
  Old,          \* what the database may hold at first: functions from tables
  Metadata,     \* columns of metadata: name -> type
  MetaIndexed,  \* those of them with an index
  NoTable,
  MaxCalls,     \* bound: calls of the three operations
  MayCrash, MayFail  \* may a process die, a statement be refused?  Once each

VARIABLES
  table,   \* the database: table -> NoTable or [cols, idx]
  root,    \* how many persons and members were inserted for the administrator
  job,     \* what each session does: [todo, at, seen, ok]
  calls,   \* calls so far
  whole,   \* history: classes whose storage a call reported as done
  fresh,   \* history: those of them whose call was midgard_config_update_class_table
  misled,  \* history: has an installer met the table of persons that a call of
           \* midgard_config_create_class_table was making?
  faults   \* history: what went wrong so far, "crash" and "refusal"

dbVars == <<table, root, job, calls, whole, fresh, misled, faults>>
vars == <<schemaVars, dbVars>>

(* A job: `todo' what is to be done yet, `at' the statement of its first item,
   `seen' the index a look found, `ok' whether its column could be made. *)
Idle == [todo |-> <<>>, at |-> "idle", seen |-> None, ok |-> TRUE]

Init == SchemaInit /\ table \in Old /\ root = [persons |-> 0, members |-> 0]
        /\ job = [s \in Session |-> Idle] /\ calls = 0
        /\ whole = {} /\ fresh = {} /\ misled = FALSE /\ faults = {}

-----------------------------------------------------------------------------
(* What the statements of a class are. *)

Textual == {"varchar(255)", "varchar(100)", "longtext"}
TypeOfColumn ==
  ("string" :> "varchar(255)") @@ ("longtext" :> "longtext") @@ ("guid" :> "varchar(80)")
  @@ ("int" :> "int(11)") @@ ("uint" :> "int(11)") @@ ("bool" :> "tinyint(1)")
  @@ ("float" :> "float") @@ ("datetime" :> "datetime")
ColumnType(p) == IF p.dbtype # None THEN p.dbtype ELSE TypeOfColumn[p.gtype]

(* __property_is_indexed, and guids. *)
Indexed(t, q) ==
  \/ t.props[q].link # None \/ t.props[q].linked \/ t.props[q].index
  \/ q \in {t.up, t.parentProperty}
  \/ t.useLang /\ q = "sid"
  \/ t.props[q].gtype = "guid"

Item(do, class, tab, col, type, index) ==
  [do |-> do, class |-> class, table |-> tab, col |-> col, type |-> type, index |-> index]

(* The properties of a class that are stored, in their order. *)
Stored(t) == SelectSeq(t.order, LAMBDA q : Nick(t, t.props[q]) # None)
PropertyItems(do, c, names) ==
  LET t == types[c]
  IN  [i \in DOMAIN names |->
         LET q == names[i] IN Item(do, c, Nick(t, t.props[q])[1], Nick(t, t.props[q])[2],
                                   ColumnType(t.props[q]), Indexed(t, q))]

(* The metadata columns of the class' own table and their indexes. *)
MetadataItems(c) ==
  [i \in 1..Cardinality(DOMAIN Metadata) |->
     LET m == SetToSeq(DOMAIN Metadata)[i] IN Item("meta", c, types[c].table, m, Metadata[m], FALSE)]
  \o [i \in 1..Cardinality(MetaIndexed) |->
     Item("index", c, types[c].table, SetToSeq(MetaIndexed)[i], None, FALSE)]

(* _midgard_core_query_create_class_storage. *)
CreateItems(c) ==
  LET t == types[c]
      others == SelectSeq(Stored(t), LAMBDA q : q # t.primary)
  IN  [i \in DOMAIN t.tables |-> Item("table", c, t.tables[i], t.primaryField,
                                      IF t.primary = "guid" THEN "varchar(80)" ELSE "int(11)",
                                      i = Len(t.tables))]
      \o PropertyItems("add", c, others)
      \o <<Item("add", c, t.table, "guid", "varchar(80)", FALSE),
           Item("index", c, t.table, "guid", None, FALSE)>>
      \o MetadataItems(c) \o <<Item("created", c, t.table, None, None, FALSE)>>

(* _midgard_core_query_update_class_storage. *)
UpdateItems(c) ==
  <<Item("exists", c, types[c].table, None, None, FALSE)>>
  \o PropertyItems("column", c, Stored(types[c]))
  \o MetadataItems(c) \o <<Item("updated", c, types[c].table, None, None, FALSE)>>

(* midgard_config_create_midgard_tables. *)
BasicItems ==
  <<Item("basic", None, "repligard", "guid", "varchar(80)", FALSE),
    Item("basic", None, "sitegroup", "id", "int(11)", FALSE)>>
  \o CreateItems("midgard_person") \o CreateItems("midgard_member")
  \o <<Item("root", None, "person", None, None, FALSE)>>

-----------------------------------------------------------------------------
Call(s, items) ==
  /\ pc = "ready" /\ job[s] = Idle /\ calls < MaxCalls
  /\ calls' = calls + 1
  /\ job' = [job EXCEPT ![s] = [Idle EXCEPT !.todo = items, !.at = "begin"]]
  /\ UNCHANGED <<table, root, whole, fresh, misled, faults>>

CreateTables(s) ==
  {"midgard_person", "midgard_member"} \subseteq classes /\ Call(s, BasicItems)
CreateClass(s) == \E c \in classes : types[c].table # None /\ Call(s, CreateItems(c))
UpdateClass(s) == \E c \in classes : types[c].table # None /\ Call(s, UpdateItems(c))

(* The session goes on: to another statement of the same item, to the next
   item, or past the items of the class, which it leaves as it is. *)
At(s, do, at) == job[s].at = at /\ Head(job[s].todo).do \in do
Now(s) == Head(job[s].todo)
Stay(s, at, seen) == job' = [job EXCEPT ![s].at = at, ![s].seen = seen]
GoOn(s, todo) ==
  job' = [job EXCEPT ![s] = IF todo = <<>> THEN Idle
                            ELSE [Idle EXCEPT !.todo = todo, !.at = "begin"]]
Done(s) == GoOn(s, Tail(job[s].todo))
Leave(s) ==
  LET todo == job[s].todo
      ends == {i \in DOMAIN todo : todo[i].do \in {"created", "updated"}}
  IN  GoOn(s, SubSeq(todo, 1 + CHOOSE i \in ends : \A k \in ends : i <= k, Len(todo)))

(* The server may refuse any statement, once; one it cannot carry out, it does. *)
Taken == UNCHANGED faults
Refused == MayFail /\ "refusal" \notin faults /\ faults' = faults \cup {"refusal"}
Kept == UNCHANGED <<root, calls, whole, fresh, misled>>
Change(new) == (Taken /\ table' = new) \/ (Refused /\ UNCHANGED table)

Has(t, c) == table[t] # NoTable /\ c \in DOMAIN table[t].cols
IndexesOn(t, c) == IF table[t] = NoTable THEN {} ELSE {x \in table[t].idx : x[2] = c}

WithTable(t, c, type) ==
  IF table[t] = NoTable THEN [table EXCEPT ![t] = [cols |-> c :> type, idx |-> {}]] ELSE table
CanAdd(t, c) == table[t] # NoTable /\ ~Has(t, c)
WithColumn(t, c, type) ==
  IF CanAdd(t, c) THEN [table EXCEPT ![t].cols = (c :> type) @@ @] ELSE table
(* A long text is not indexed without the length of a key. *)
WithIndex(t, c, kind) ==
  IF Has(t, c) /\ table[t].cols[c] # "longtext"
    THEN [table EXCEPT ![t].idx = @ \cup {<<kind, c>>}] ELSE table
CanModify(t, c, type) == Has(t, c) /\ (type = "longtext" => IndexesOn(t, c) = {})

(* mgd_vquery: that there is nothing and that the look failed are the same. *)
Rows(found) == {<<found, FALSE>>, <<None, TRUE>>}
Looked(s, found, Then(_)) ==
  /\ \E r \in Rows(found) : (IF r[2] THEN Refused ELSE Taken) /\ Then(r[1])
  /\ UNCHANGED <<table, root, calls, whole, fresh>>
Look(s, found, Then(_)) == Looked(s, found, Then) /\ UNCHANGED misled

-----------------------------------------------------------------------------
(* Creating the tables.  The columns follow only if the last one, the class'
   own, was missing: else all is taken to be there. *)
Installs(s) == \E k \in DOMAIN job[s].todo : job[s].todo[k].do = "root"
Makes(s, c) == \E k \in DOMAIN job[s].todo : job[s].todo[k].do = "created" /\ job[s].todo[k].class = c
LookTable(s) ==
  /\ At(s, {"table"}, "begin")
  /\ LET t == Now(s).table
     IN  /\ Looked(s, IF table[t] = NoTable THEN None ELSE "table",
                   LAMBDA found :
                     IF found = None THEN Stay(s, "make", None)
                     ELSE IF Now(s).index THEN Leave(s) ELSE Done(s))
         /\ misled' = (misled \/
              /\ table[t] # NoTable /\ Installs(s) /\ Now(s).class = "midgard_person"
              /\ \E o \in Session : ~Installs(o) /\ Makes(o, "midgard_person"))

MakeTable(s) ==
  /\ At(s, {"table"}, "make")
  /\ \/ Stay(s, "sitegroup", None) /\ Taken
        /\ table' = WithTable(Now(s).table, Now(s).col, Now(s).type)
     \/ Leave(s) /\ Refused /\ UNCHANGED table
  /\ Kept

(* Its sitegroup column and the key on it; a refusal goes unnoticed. *)
AddSitegroup(s) ==
  /\ At(s, {"table"}, "sitegroup") /\ Stay(s, "key", None)
  /\ Change(WithColumn(Now(s).table, "sitegroup", "int(11)")) /\ Kept
KeySitegroup(s) ==
  /\ At(s, {"table"}, "key") /\ Done(s)
  /\ Change(WithIndex(Now(s).table, "sitegroup", "key")) /\ Kept

(* The column of a property, guid and those of metadata; whether they could
   be added is only logged. *)
AddColumn(s) ==
  /\ At(s, {"add"}, "begin") \/ At(s, {"meta"}, "add")
  /\ Done(s) /\ Change(WithColumn(Now(s).table, Now(s).col, Now(s).type)) /\ Kept

LookMetadata(s) ==
  /\ At(s, {"meta"}, "begin")
  /\ Look(s, IF Has(Now(s).table, Now(s).col) THEN "column" ELSE None,
          LAMBDA found : IF found = None THEN Stay(s, "add", None) ELSE Done(s))

(* The end of creating and of updating a class. *)
Finish(s) ==
  /\ At(s, {"created", "updated"}, "begin")
  /\ LET c == Now(s).class
     IN  /\ whole' = IF Now(s).do = "updated" \/ "refusal" \notin faults THEN whole \cup {c} ELSE whole
         /\ fresh' = IF Now(s).do = "updated" THEN fresh \cup {c} ELSE fresh
  /\ Done(s) /\ UNCHANGED <<table, root, calls, misled, faults>>

-----------------------------------------------------------------------------
(* Updating a class whose table there is: every stored property is compared
   with its column. *)
LookStorage(s) ==
  /\ At(s, {"exists"}, "begin")
  /\ Look(s, IF table[Now(s).table] = NoTable THEN None ELSE "table",
          LAMBDA found : IF found = None THEN Leave(s) ELSE Done(s))

(* On to the index; a column that could not be added or changed ends the call
   after that. *)
ToIndex(s, ok) ==
  IF Now(s).index /\ Now(s).col # "id"
    THEN job' = [job EXCEPT ![s].at = "index", ![s].ok = ok]
    ELSE IF ok THEN Done(s) ELSE Leave(s)

(* Mutant: the columns of other tables than the class' own are left alone. *)
LookOwnColumn(s) ==
  /\ At(s, {"column"}, "begin")
  /\ Look(s, IF Has(Now(s).table, Now(s).col) THEN table[Now(s).table].cols[Now(s).col] ELSE None,
          LAMBDA type :
            IF Now(s).table # types[Now(s).class].table THEN Done(s)
            ELSE IF type = None THEN Stay(s, "add", None)
            ELSE IF type = Now(s).type THEN ToIndex(s, TRUE)
            ELSE Stay(s, IF type \in Textual THEN "text" ELSE "old", None))

LookColumn(s) ==
  /\ At(s, {"column"}, "begin")
  /\ Look(s, IF Has(Now(s).table, Now(s).col) THEN table[Now(s).table].cols[Now(s).col] ELSE None,
          LAMBDA type :
            IF type = None THEN Stay(s, "add", None)
            ELSE IF type = Now(s).type THEN ToIndex(s, TRUE)
            ELSE Stay(s, IF type \in Textual THEN "text" ELSE "old", None))

AddMissing(s) ==
  /\ At(s, {"column"}, "add")
  /\ LET t == Now(s).table  c == Now(s).col
     IN  \/ Taken /\ table' = WithColumn(t, c, Now(s).type) /\ ToIndex(s, CanAdd(t, c))
         \/ Refused /\ UNCHANGED table /\ ToIndex(s, FALSE)
  /\ Kept

(* Before a column changes its type, an index on a text is dropped, and one
   an older release made. *)
LookOldIndex(s) ==
  /\ At(s, {"column"}, "text") \/ At(s, {"column"}, "old")
  /\ LET on == IndexesOn(Now(s).table, Now(s).col)
         wrong == IF job[s].at = "text" THEN on ELSE {x \in on : x[1] = "old"}
     IN  \E x \in (IF wrong = {} THEN {None} ELSE wrong) :
           Look(s, x, LAMBDA found :
             IF found # None THEN Stay(s, IF job[s].at = "text" THEN "dropText" ELSE "dropOld", found)
             ELSE Stay(s, IF job[s].at = "text" THEN "old" ELSE "modify", None))
DropIndex(s) ==
  /\ At(s, {"column"}, "dropText") \/ At(s, {"column"}, "dropOld")
  /\ Change([table EXCEPT ![Now(s).table].idx = @ \ {job[s].seen}])
  /\ Stay(s, IF job[s].at = "dropText" THEN "old" ELSE "modify", None) /\ Kept

(* Mutant: a column that was changed is done with. *)
ModifyOnly(s) ==
  /\ At(s, {"column"}, "modify")
  /\ LET t == Now(s).table  c == Now(s).col  able == CanModify(t, c, Now(s).type)
     IN  \/ /\ Taken /\ IF able THEN Done(s) ELSE Leave(s)
            /\ table' = IF able THEN [table EXCEPT ![t].cols[c] = Now(s).type] ELSE table
         \/ Refused /\ UNCHANGED table /\ Leave(s)
  /\ Kept

Modify(s) ==
  /\ At(s, {"column"}, "modify")
  /\ LET t == Now(s).table  c == Now(s).col  able == CanModify(t, c, Now(s).type)
     IN  \/ /\ Taken /\ ToIndex(s, able)
            /\ table' = IF able THEN [table EXCEPT ![t].cols[c] = Now(s).type] ELSE table
         \/ Refused /\ UNCHANGED table /\ ToIndex(s, FALSE)
  /\ Kept

(* __add_table_index, whose answer nobody asks for. *)
AfterIndex(s) == IF job[s].ok THEN Done(s) ELSE Leave(s)
LookIndex(s) ==
  /\ At(s, {"column"}, "index") \/ At(s, {"index"}, "begin")
  /\ Look(s, IF <<"idx", Now(s).col>> \in IndexesOn(Now(s).table, Now(s).col) THEN "index" ELSE None,
          LAMBDA found : IF found = None THEN Stay(s, "addIndex", None) ELSE AfterIndex(s))
AddIndex(s) ==
  /\ At(s, {"column", "index"}, "addIndex") /\ AfterIndex(s)
  /\ Change(WithIndex(Now(s).table, Now(s).col, "idx")) /\ Kept

-----------------------------------------------------------------------------
(* midgard_config_create_midgard_tables: the catalogue and the sitegroups,
   without which it ends, and at last the administrator, unless there is one:
   a person and a member that names the person's id, 1.  The catalogue's
   entries for the two are left out. *)
MakeBasic(s) ==
  /\ At(s, {"basic"}, "begin")
  /\ \/ Done(s) /\ Taken /\ table' = WithTable(Now(s).table, Now(s).col, Now(s).type)
     \/ job' = [job EXCEPT ![s] = Idle] /\ Refused /\ UNCHANGED table
  /\ Kept

LookRoot(s) ==
  /\ At(s, {"root"}, "begin")
  /\ Look(s, IF root.persons = 0 THEN None ELSE "root",
          LAMBDA found : IF found = None THEN Stay(s, "person", None) ELSE Done(s))

(* A record is inserted if the columns the INSERT names are there: the guid,
   properties, here all that the class stores, and of the person the sitegroup,
   who created it and when, and its revision. *)
Named(c) ==
  {"guid"} \cup
  IF c = "midgard_member" THEN {}
  ELSE {"sitegroup"} \cup (DOMAIN Metadata \cap {"metadata_creator", "metadata_created", "metadata_revision"})
Complete(c) ==
  /\ \A x \in Named(c) : Has(types[c].table, x)
  /\ \A q \in Range(Stored(types[c])) :
       LET x == Nick(types[c], types[c].props[q]) IN Has(x[1], x[2])

InsertRoot(s) ==
  /\ At(s, {"root"}, "person") \/ At(s, {"root"}, "member")
  /\ LET first == job[s].at = "person"
     IN  /\ IF first THEN Stay(s, "member", None) ELSE Done(s)
         /\ \/ /\ Taken
               /\ root' = IF first
                    THEN [root EXCEPT !.persons = IF Complete("midgard_person") THEN @ + 1 ELSE @]
                    ELSE [root EXCEPT !.members = IF Complete("midgard_member") THEN @ + 1 ELSE @]
            \/ Refused /\ UNCHANGED root
  /\ whole' = IF job[s].at = "member" THEN whole \cup {"root"} ELSE whole
  /\ UNCHANGED <<table, calls, fresh, misled>>

(* The process ends, once; what it did stays done. *)
Crash(s) ==
  /\ MayCrash /\ "crash" \notin faults /\ job[s] # Idle
  /\ job' = [job EXCEPT ![s] = Idle] /\ faults' = faults \cup {"crash"}
  /\ UNCHANGED table /\ Kept

Step(s) ==
  \/ CreateTables(s) \/ CreateClass(s) \/ UpdateClass(s)
  \/ LookTable(s) \/ MakeTable(s) \/ AddSitegroup(s) \/ KeySitegroup(s) \/ AddColumn(s)
  \/ LookMetadata(s) \/ Finish(s)
  \/ LookStorage(s) \/ LookColumn(s) \/ AddMissing(s) \/ LookOldIndex(s) \/ DropIndex(s)
  \/ Modify(s) \/ LookIndex(s) \/ AddIndex(s)
  \/ MakeBasic(s) \/ LookRoot(s) \/ InsertRoot(s) \/ Crash(s)

Next ==
  \/ SchemaNext /\ UNCHANGED dbVars
  \/ (\E s \in Session : Step(s)) /\ UNCHANGED schemaVars

Spec == Init /\ [][Next]_vars

-----------------------------------------------------------------------------
(* Types that several classes disagree about: each updates the other's column. *)
Disputed(x, type) ==
  \E c \in classes : \E q \in Range(Stored(types[c])) :
    Nick(types[c], types[c].props[q]) = x /\ ColumnType(types[c].props[q]) # type

(* What create cannot make: a column of a table that has no list entry because
   its name is part of another's, and the column of the primary property, if
   another class that makes the same table would give it another one. *)
Unmade(c, q) ==
  LET x == Nick(types[c], types[c].props[q])
  IN  \/ x[1] \notin Range(types[c].tables)
      \/ q = types[c].primary /\ \E k \in classes :
           x[1] \in Range(types[k].tables) /\ types[k].primaryField # x[2]

(* Administrators are stored in a table of their own. *)
PersonsAlone ==
  /\ \A q \in Range(Stored(types["midgard_person"])) : ~Unmade("midgard_person", q)
  /\ \A c \in classes \ {"midgard_person"} :
       types["midgard_person"].table \notin Range(types[c].tables)

(* Once a call of midgard_config_update_class_table has answered TRUE, or one
   of midgard_config_create_class_table that added the columns without being
   refused a statement, every property the class stores has its column, in
   whichever table (but for those create cannot make), and after an update it is
   of the type the schema asks for, unless classes that share it disagree:
   whatever calls died or were refused before, and whoever works on the same
   tables.
   If nothing failed, the basic tables come with an administrator when nobody
   works on them any more, also if several installers were called at once, as
   long as no other class makes the table of the persons first, and no installer
   found it while midgard_config_create_class_table, which takes any class, was
   making it: that one takes the table for complete and its INSERT fails
   unnoticed.  That he is a member of the administrators cannot be said: an installer may insert
   the person while another has the table of members half made, and that one
   then finds the person there. *)
StorageIsComplete ==
  /\ \A c \in whole \ {"root"} : \A q \in Range(Stored(types[c])) :
       LET p == types[c].props[q]  x == Nick(types[c], p)
       IN  /\ c \in fresh \/ ~Unmade(c, q) => Has(x[1], x[2])
           /\ c \in fresh /\ ~Disputed(x, ColumnType(p))
                => table[x[1]].cols[x[2]] = ColumnType(p)
  /\ faults = {} /\ (\A s \in Session : job[s] = Idle) /\ "root" \in whole
       /\ PersonsAlone /\ ~misled => root.persons > 0

(* If nothing failed and nobody works on the tables, then every column that a
   link of some class leads from or to has an index after the updates of the
   classes it belongs to, also when its type was changed and its index dropped
   for that; unless another class stores a property in that column that asks for
   no index, and so does not put back one it drops.  It speaks of updates only.
   midgard_config.h:249-251 promises the indexes of midgard_config_create_class_table
   too, which makes none for a property (query.c:1105). *)
LinkColumns(c) ==
  {q \in Range(Stored(types[c])) :
     \/ types[c].props[q].link # None
     \/ \E k \in classes : \E r \in DOMAIN types[k].props :
          types[k].props[r].link = [class |-> c, target |-> q]}
Unasked(x) ==
  \E c \in classes : \E q \in Range(Stored(types[c])) :
    Nick(types[c], types[c].props[q]) = x /\ ~Indexed(types[c], q)
LinksAreIndexed ==
  faults = {} /\ (\A s \in Session : job[s] = Idle) =>
    \A c \in fresh : \A q \in LinkColumns(c) :
      LET p == types[c].props[q]  x == Nick(types[c], p)
      IN  x[2] = "id" \/ ColumnType(p) = "longtext" \/ Disputed(x, ColumnType(p))
            \/ Unasked(x) \/ IndexesOn(x[1], x[2]) # {}

=============================================================================
