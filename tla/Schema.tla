--------------------------------- MODULE Schema ---------------------------------
(***************************************************************************)
(* How the classes come to be (mgdschema.c): the global schema file and    *)
(* the files of a directory are read one after the other, each with the    *)
(* files it includes; the types they define are entered in the schema,     *)
(* registered as classes, and tied to their parents and to what they link  *)
(* to.  What is found twice or malformed ends the process (g_error).       *)
(*                                                                         *)
(* One process reads; what is left open is the order in which the          *)
(* directory lists its files and the files of one call are parsed.  The    *)
(* order in which a hash table lists the properties of a type is taken to  *)
(* be the order of the file.  Checks that only log are left out.           *)
(***************************************************************************)
EXTENDS Integers, Sequences, FiniteSets, SequencesExt

CONSTANTS
  Sources,       \* sets of schema files: [global, dir, folders, xml, file], folders
                 \* with the paths in them, xml those whose name ends so
  Inside(_, _),  \* is a table's name part of another's?
  None, Malformed

(* A file lists what it includes and its types, a type its properties and a
   property its attributes; a type has a name (g_assert). *)
Listed(x) == x \in Seq(Range(x))
SourcesAssumption ==
  \A s \in Sources : \A p \in DOMAIN s.file : s.file[p] # Malformed =>
    /\ Listed(s.file[p].includes) /\ Listed(s.file[p].types)
    /\ \A i \in DOMAIN s.file[p].types :
         LET t == s.file[p].types[i]
         IN  /\ t.name # None /\ Listed(t.props)
             /\ \A q \in DOMAIN t.props : Listed(t.props[q].attrs)
ASSUME SchemaAssumption == SourcesAssumption

VARIABLES
  source,   \* the files there are: path -> [types, includes], or Malformed
  pc,       \* "start", "files", "parse", "register", "next", "ready", "aborted"
  entries,  \* files of the directory still to be read
  stack,    \* paths read_schema_path is still to visit
  files,    \* files seen by this call of midgard_schema_read_file
  parsed,   \* those already parsed into the schema
  types,    \* schema->types: name -> attributes
  classes   \* names registered as GTypes

schemaVars == <<source, pc, entries, stack, files, parsed, types, classes>>

-----------------------------------------------------------------------------
(* Reading a definition.  Attributes are <<key, value>>, the value of a link
   [class, target]; they are read in their order. *)

NewProperty(gtype) ==
  [gtype |-> gtype, dbtype |-> None, field |-> None, table |-> None, up |-> FALSE,
   parent |-> FALSE, primary |-> FALSE, link |-> None, multilang |-> FALSE,
   index |-> FALSE, linked |-> FALSE]

NewType(table, parent) ==
  [table |-> table, parent |-> parent, up |-> None, parentProperty |-> None,
   primary |-> "guid", primaryField |-> "guid", useLang |-> FALSE,
   props |-> <<>>, order |-> <<>>, tables |-> <<>>, childs |-> {}]

(* The types a property may be declared with; any other one is a string. *)
AllowedTypes ==
  ("integer" :> "int") @@ ("unsigned integer" :> "uint") @@ ("float" :> "float")
  @@ ("double" :> "float") @@ ("string" :> "string") @@ ("text" :> "longtext")
  @@ ("longtext" :> "longtext") @@ ("guid" :> "guid") @@ ("bool" :> "bool")
  @@ ("boolean" :> "bool") @@ ("datetime" :> "datetime")

PropertyType(attrs) ==
  LET declared == SelectSeq(attrs, LAMBDA a : a[1] = "type")
  IN  IF declared # <<>> /\ Last(declared)[2] \in DOMAIN AllowedTypes
        THEN AllowedTypes[Last(declared)[2]] ELSE "string"

First(old, new) == IF old = None THEN new ELSE old

(* What one attribute of the property `name' changes, in the property and in
   its type: the first up and parent property and the last primary one count. *)
ReadAttribute(name, both, a) ==
  LET t == both.type  p == both.property  v == a[2]
      Prop(q) == [both EXCEPT !.property = q]
  IN  CASE a[1] = "dbtype" -> Prop([p EXCEPT !.dbtype = v])
        [] a[1] = "field" -> Prop([p EXCEPT !.field = First(@, v)])
        [] a[1] = "table" -> Prop([p EXCEPT !.table = First(@, v)])
        [] a[1] = "index" -> Prop([p EXCEPT !.index = @ \/ v = "yes"])
        [] a[1] = "link" -> Prop([p EXCEPT !.link = v])
        [] a[1] = "multilang" /\ v = "yes" ->
             [type |-> [t EXCEPT !.useLang = TRUE], property |-> [p EXCEPT !.multilang = TRUE]]
        [] a[1] = "upfield" ->
             [type |-> [t EXCEPT !.up = First(@, name)],
              property |-> [p EXCEPT !.up = TRUE, !.field = v]]
        [] a[1] = "parentfield" ->
             [type |-> [t EXCEPT !.parentProperty = First(@, name)],
              property |-> [p EXCEPT !.parent = TRUE, !.field = v]]
        [] a[1] = "primaryfield" ->
             [type |-> [t EXCEPT !.primary = name, !.primaryField = v],
              property |-> [p EXCEPT !.primary = TRUE, !.field = v]]
        [] OTHER -> both

(* A property declared twice keeps its first declaration. *)
ReadProperty(t, d) ==
  IF d.name \in DOMAIN t.props THEN t
  ELSE LET after[n \in 0..Len(d.attrs)] ==
             IF n = 0 THEN [type |-> t, property |-> NewProperty(PropertyType(d.attrs))]
             ELSE ReadAttribute(d.name, after[n - 1], d.attrs[n])
           read == after[Len(d.attrs)]
           p == [read.property EXCEPT !.field = First(@, d.name)]
       IN  [read.type EXCEPT !.props = (d.name :> p) @@ @, !.order = Append(@, d.name)]

ReadType(d) ==
  LET after[n \in 0..Len(d.props)] ==
        IF n = 0 THEN NewType(d.table, d.parent) ELSE ReadProperty(after[n - 1], d.props[n])
  IN  after[Len(d.props)]

-----------------------------------------------------------------------------
(* Preparing a type for its registration. *)

(* Where a property is stored; one that is both up and parent is stored
   nowhere, unless a table is named. *)
Nick(t, p) ==
  IF p.table # None THEN <<p.table, p.field>>
  ELSE IF p.up /\ p.parent THEN None ELSE <<t.table, p.field>>

(* The tables of a type: those its properties name, unless a name listed
   already has it as a part, and then its own, listed or not. *)
ListTable(list, p) ==
  IF p.table = None \/ \E i \in DOMAIN list : p.table = list[i] \/ Inside(p.table, list[i])
    THEN list ELSE Append(list, p.table)

CoreProperties ==
  ("guid" :> [NewProperty("guid") EXCEPT !.field = "guid"])
  @@ ("sitegroup" :> [NewProperty("uint") EXCEPT !.field = "sitegroup"])

Prepared(t) ==
  LET listed == FoldLeft(ListTable, <<>>, [i \in DOMAIN t.order |-> t.props[t.order[i]]])
  IN  [t EXCEPT !.tables = IF t.table = None THEN listed ELSE Append(listed, t.table),
                !.props = CoreProperties @@
                          [n \in DOMAIN t.props |->
                             [t.props[n] EXCEPT !.gtype = IF t.props[n].primary THEN "uint" ELSE @]]]

-----------------------------------------------------------------------------
(* midgard_connection_open: the global schema, then the directory. *)

SchemaInit ==
  /\ source \in Sources
  /\ pc = "start" /\ entries = source.dir /\ stack = <<>>
  /\ files = {} /\ parsed = {} /\ types = <<>> /\ classes = {}

(* midgard_schema_read_file: a new table of seen files for every call. *)
ReadFile(path) ==
  /\ stack' = <<path>> /\ files' = {} /\ parsed' = {} /\ pc' = "files"

ReadGlobal == pc = "start" /\ ReadFile(source.global) /\ UNCHANGED <<source, entries, types, classes>>

ReadEntry ==
  /\ pc = "next"
  /\ \E path \in entries : ReadFile(path) /\ entries' = entries \ {path}
  /\ UNCHANGED <<source, types, classes>>

Readable(path) ==
  /\ path \in DOMAIN source.file \ DOMAIN source.folders
  /\ source.file[path] # Malformed

(* What ends the process: a malformed file, and a directory with a subdirectory
   named as a schema file, since read_schema_directory opens its files as
   directories and its subdirectories as files. *)
Breaks(path) ==
  IF path \in DOMAIN source.folders
  THEN source.folders[path] \cap DOMAIN source.folders \cap source.xml # {}
  ELSE path \in DOMAIN source.file /\ source.file[path] = Malformed

(* Mutant: what is included is visited without what was still to be. *)
VisitForgetting ==
  /\ pc = "files" /\ stack # <<>>
  /\ LET path == Head(stack)
     IN  IF Breaks(path) THEN pc' = "aborted" /\ UNCHANGED <<stack, files>>
         ELSE IF ~Readable(path) \/ path \in files
           THEN stack' = Tail(stack) /\ UNCHANGED <<pc, files>>
         ELSE /\ stack' = source.file[path].includes
              /\ files' = files \cup {path} /\ UNCHANGED pc
  /\ UNCHANGED <<source, entries, parsed, types, classes>>

(* read_schema_path: of a directory that is included no file is read; a missing
   path and a file seen already are passed over. *)
Visit ==
  /\ pc = "files" /\ stack # <<>>
  /\ LET path == Head(stack)
     IN  IF Breaks(path) THEN pc' = "aborted" /\ UNCHANGED <<stack, files>>
         ELSE IF ~Readable(path) \/ path \in files
           THEN stack' = Tail(stack) /\ UNCHANGED <<pc, files>>
         ELSE /\ stack' = source.file[path].includes \o Tail(stack)
              /\ files' = files \cup {path} /\ UNCHANGED pc
  /\ UNCHANGED <<source, entries, parsed, types, classes>>

(* parse_schema: a type known already ends the process. *)
Parse ==
  /\ pc = "files" /\ stack = <<>>
  /\ \E path \in files \ parsed :
       LET defs == source.file[path].types
           names == [i \in DOMAIN defs |-> defs[i].name]
       IN  IF IsInjective(names) /\ Range(names) \cap DOMAIN types = {}
             THEN /\ types' = [n \in DOMAIN types \cup Range(names) |->
                                IF n \in DOMAIN types THEN types[n]
                                ELSE ReadType(defs[CHOOSE i \in DOMAIN defs : names[i] = n])]
                  /\ parsed' = parsed \cup {path} /\ UNCHANGED pc
             ELSE pc' = "aborted" /\ UNCHANGED <<types, parsed>>
  /\ UNCHANGED <<source, entries, stack, files, classes>>

(* A type without properties is not registered; one that is stays as it is. *)
Register ==
  /\ pc = "files" /\ stack = <<>> /\ parsed = files
  /\ LET new == {n \in DOMAIN types \ classes : types[n].order # <<>>}
     IN  /\ types' = [n \in DOMAIN types |-> IF n \in new THEN Prepared(types[n]) ELSE types[n]]
         /\ classes' = classes \cup new
  /\ pc' = "register"
  /\ UNCHANGED <<source, entries, stack, files, parsed>>

(* Mutant: the parents of the types this call read are looked up, once. *)
PostconfigOfFile ==
  /\ pc = "register"
  /\ types' = [n \in DOMAIN types |->
       [types[n] EXCEPT !.childs = @ \cup
          {c \in classes : types[c].parent = n /\
             \E p \in parsed : \E i \in DOMAIN source.file[p].types : source.file[p].types[i].name = c}]]
  /\ pc' = "next"
  /\ UNCHANGED <<source, entries, stack, files, parsed, classes>>

(* Every type of the schema is entered with its parent, if the schema has it;
   one that is no class as the type 0. *)
Postconfig ==
  /\ pc = "register"
  /\ types' = [n \in DOMAIN types |->
       [types[n] EXCEPT !.childs = @ \cup
          {IF c \in classes THEN c ELSE None : c \in {d \in DOMAIN types : types[d].parent = n}}]]
  /\ pc' = "next"
  /\ UNCHANGED <<source, entries, stack, files, parsed, classes>>

(* The properties that links lead to. *)
LinkTargets(ts, cs) ==
  {x \in cs \X UNION {DOMAIN ts[n].props : n \in cs} :
     x[2] \in DOMAIN ts[x[1]].props /\
     \E n \in cs : \E r \in DOMAIN ts[n].props :
       ts[n].props[r].link = [class |-> x[1], target |-> x[2]]}

(* __midgard_schema_validate: marks them; all else it finds is only logged. *)
Validate ==
  /\ pc = "next" /\ entries = {}
  /\ types' = [n \in DOMAIN types |->
       [types[n] EXCEPT !.props =
          [q \in DOMAIN @ |-> [@[q] EXCEPT !.linked = @ \/ <<n, q>> \in LinkTargets(types, classes)]]]]
  /\ pc' = "ready"
  /\ UNCHANGED <<source, entries, stack, files, parsed, classes>>

SchemaNext ==
  ReadGlobal \/ ReadEntry \/ Visit \/ Parse \/ Register \/ Postconfig \/ Validate

SchemaSpec == SchemaInit /\ [][SchemaNext]_schemaVars

-----------------------------------------------------------------------------
(* What reading promises. *)

Included(S) ==
  {q \in DOMAIN source.file : Readable(q) /\
     \E p \in S : Readable(p) /\ q \in Range(source.file[p].includes)}
(* What is in every set of files that has the path and what its files include. *)
Reached(path) ==
  {p \in DOMAIN source.file : \A S \in SUBSET DOMAIN source.file :
     (Readable(path) => path \in S) /\ Included(S) \subseteq S => p \in S}
Roots == {source.global} \cup source.dir
(* The files read, once for every root that leads to them. *)
Readings == {d \in Roots \X DOMAIN source.file : d[2] \in Reached(d[1])}
Definitions ==
  UNION {{<<d[1], d[2], i>> : i \in DOMAIN source.file[d[2]].types} : d \in Readings}
DefinedName(d) == source.file[d[2]].types[d[3]].name

(* Nothing that a path leads to ends the process. *)
Sound(path) ==
  /\ ~Breaks(path)
  /\ \A p \in Reached(path) : \A q \in Range(source.file[p].includes) : ~Breaks(q)

(* Every file has been read and every type registered. *)
AllRead == pc = "next" /\ entries = {}

(* Whatever order the directory lists its files in, and however files include
   each other or themselves: reading ends in the schema that has every type
   these files define, if none of them defines a type that another one, or the
   same one read for another file of the directory, defines too; otherwise, or
   if a file is malformed, it does not end in a schema.  That files of an
   included directory are not among them is IncludedDirectoriesAreRead's
   matter.  For malformed files the code is followed, which logs with g_error
   and so aborts (mgdschema.c:1287), not the comment above it, by which it
   "logs a warning and returns" (mgdschema.c:1269). *)
ReadsWhatIsIncluded ==
  AllRead =>
    /\ DOMAIN types = {DefinedName(d) : d \in Definitions}
    /\ \A d, e \in Definitions : DefinedName(d) = DefinedName(e) => d = e
    /\ \A path \in Roots : Sound(path)

(* What is in a directory and, at any depth, in the directories in it. *)
Below(folder) ==
  LET in(f) == IF f \in DOMAIN source.folders THEN source.folders[f] ELSE {}
      all == UNION {in(f) : f \in DOMAIN source.folders}
  IN  {x \in all : \A S \in SUBSET all : in(folder) \subseteq S /\ UNION {in(f) : f \in S} \subseteq S => x \in S}

(* mgdschema.c:1340-1343 of a directory that is included: all files with the
   suffix ".xml" are read, and subdirectories recursed into.  So their types are
   in the schema.  The code does not hold this: its test is the wrong way round
   (mgdschema.c:1359). *)
IncludedDirectoriesAreRead ==
  AllRead =>
    \A d \in Readings : \A f \in Range(source.file[d[2]].includes) \cap DOMAIN source.folders :
      \A p \in Below(f) \cap source.xml : Readable(p) =>
        \A k \in DOMAIN source.file[p].types : source.file[p].types[k].name \in DOMAIN types

(* When all is read every class is listed as a child of the type its
   definition names as its parent, in whatever order the files that define
   the two were read, and no type lists another class. *)
HierarchyIsMirrored ==
  AllRead => \A n \in DOMAIN types :
    types[n].childs \ {None} =
      {c \in classes : \E d \in Definitions :
         DefinedName(d) = c /\ source.file[d[2]].types[d[3]].parent = n}
=============================================================================
