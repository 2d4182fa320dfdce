---------------------------- MODULE QueryBuilder ----------------------------
(* A query under construction: the calls of a client on a query builder or on
   the collector built on it, and the SELECT that is made of them. A call is
   an action. A row of the result is a choice of one row from every table
   after FROM, and a condition is [left, right, values]: the field `left' is
   equal to the field `right', or is one of `values'.

   The queried class "object" has a property of its own, a link to a topic and,
   if it is multilingual, a title in a table of its own; parameters stand for
   attachments too. Values are compared for equality only, and the order of the
   result is left open: ORDER BY matters by what it adds to the query. *)
EXTENDS Integers, FiniteSets, Sequences, SequencesExt, FiniteSetsExt, Functions

CONSTANTS
  Objects, Contents, Topics, Extensions,  \* the tables, sets of rows
  Settings,                \* [multilang, lang, default, root, sitegroup]
  Compared,                \* <<name, values>> to compare; names are split at the dots
  Related,                 \* pairs of names to compare with each other
  Below,                   \* names to look for in a tree
  Sorted,                  \* <<name, direction>> to sort by
  Numbers, Langs,          \* limits and offsets, and languages to set
  Columns,                 \* names of keys and values of a collector
  MaxOf,                   \* bounds on the calls of each kind
  MaxCalls,                \* and on all of them together
  None

VARIABLES
  env,        \* the class, the connection's languages, its user
  query,      \* MidgardQueryBuilderPrivate
  collector,  \* MidgardCollectorPrivate, or None
  answer,     \* what the last call returned
  asked,      \* history: what was asked for, the open groups last
  led,        \* history: tables that the names of accepted calls led to
  refused,    \* history: tables that the names of refused calls led to
  calls       \* number of calls of each kind, for the bounds

queryVars == <<env, query, collector, answer, asked, led, refused, calls>>

-----------------------------------------------------------------------------
(* Properties of the classes and where they are stored. *)
Props(klass) ==
  CASE klass = "object" -> {"value", "topic"} \cup (IF env.multilang THEN {"title"} ELSE {})
    [] klass = "topic" -> {"value", "up"}
    [] OTHER -> {"value"}

LinkTo(klass, name) == IF name \in {"topic", "up"} \cap Props(klass) THEN "topic" ELSE None

Field(klass, name) ==
  IF name = "title" THEN <<"content", "value">>
  ELSE <<IF klass = "parameter" THEN "extension" ELSE klass, name>>

Equal(left, right) == [left |-> left, right |-> right, values |-> {}]
OneOf(left, values) == [left |-> left, right |-> None, values |-> values]

(* __join_reference: two conditions at the top level, whatever group is open. *)
JoinReference(q, table) ==
  [q EXCEPT !.constraints = @ \o
     <<Equal(<<"extension", "parent">>, <<table, "id">>),
       OneOf(<<"extension", "deleted">>, {FALSE})>>]

(* A link joins the two tables, once (__add_join). *)
JoinLink(q, left) ==
  LET join == Equal(left, <<"topic", "id">>) IN
  [q EXCEPT !.tables = @ \cup {left[1], "topic"},
            !.joins = IF Contains(@, join) THEN @ ELSE Append(@, join)]

(* __set_schema_property_attr: one part of a property's name. The last part is
   a field even if it is a link. *)
ParseToken(path, sofar, k) ==
  LET name == path[k]
      table == sofar.left[1]
  IN  CASE ~sofar.ok -> sofar
        [] sofar.ok /\ name = "parameter" ->
             [ok |-> TRUE, klass |-> "parameter", left |-> <<"extension", None>>,
              query |-> JoinReference(sofar.query, table)]
        [] sofar.ok /\ name # "parameter" /\ name \notin Props(sofar.klass) ->
             [sofar EXCEPT !.ok = FALSE]
        [] sofar.ok /\ k < Len(path) /\ LinkTo(sofar.klass, name) # None ->
             [ok |-> TRUE, klass |-> LinkTo(sofar.klass, name), left |-> <<"topic", None>>,
              query |-> JoinLink(sofar.query, Field(sofar.klass, name))]
        [] OTHER -> [sofar EXCEPT !.left = Field(sofar.klass, name)]

(* _midgard_core_qb_parse_property: what a refused name has added stays. *)
Parse(q, path) ==
  LET start == [ok |-> TRUE, klass |-> "object", left |-> <<"object", None>>, query |-> q]
      name == path[1]
  IN  CASE Len(path) = 1 /\ name \in Props("object") ->
             [start EXCEPT !.left = Field("object", name),
                           !.query.tables = @ \cup {Field("object", name)[1]}]
        [] Len(path) \in 2..3 ->
             FoldLeft(LAMBDA sofar, k : ParseToken(path, sofar, k), start, [k \in DOMAIN path |-> k])
        [] OTHER -> [start EXCEPT !.ok = FALSE]

(* midgard_query_builder_add_constraint, its last part. *)
Put(q, condition) ==
  LET r == [q EXCEPT !.tables = @ \cup {condition.left[1]}] IN
  IF q.groupingRef > 0
  THEN [r EXCEPT !.group[q.cursor].constraints = Append(@, condition)]
  ELSE [r EXCEPT !.constraints = Append(@, condition)]

-----------------------------------------------------------------------------
(* The SELECT. *)
Tables == [object |-> Objects, content |-> Contents, topic |-> Topics, extension |-> Extensions]
From(table) == IF table \in query.tables THEN Tables[table] ELSE {None}

FieldOf(row, field) == row[field[1]][field[2]]
Holds(row, c) ==
  IF c.right = None THEN FieldOf(row, c.left) \in c.values
                    ELSE FieldOf(row, c.left) = FieldOf(row, c.right)

(* add_sql of a group: its conditions and then the groups in it, with its type
   between them; an empty group is "1=1". *)
GroupHolds(row) ==
  LET holds[g \in DOMAIN query.group] ==
        LET G == query.group[g]
            conditions == {Holds(row, G.constraints[k]) : k \in DOMAIN G.constraints}
            nested == {holds[G.nested[k]] : k \in DOMAIN G.nested}
        IN  IF G.type = "AND" THEN FALSE \notin conditions \cup nested
            ELSE conditions \cup nested = {} \/ TRUE \in conditions \cup nested
  IN  \A k \in DOMAIN query.groups : holds[query.groups[k]]

(* _midgard_core_qb_is_multilingual: the current and the default language are
   queried together. *)
Fallback == /\ env.multilang /\ ~query.unsetLang
            /\ env.lang # env.default /\ query.lang < 0

(* use_lang: the languages of the contents. *)
LangHolds(row) ==
  env.multilang =>
    /\ row.object.id = row.content.sid
    /\ ~query.unsetLang /\ (query.lang >= 0 \/ env.lang = env.default) =>
         row.content.lang = IF query.lang > -1 THEN query.lang ELSE env.lang
    /\ Fallback => row.content.lang \in {env.lang, env.default}

Visible(o) ==
  /\ env.root \/ o.sitegroup \in {0, env.sitegroup}
  /\ query.includeDeleted \/ ~o.deleted

(* The rows of the SELECT without LIMIT, _midgard_core_qb_get_sql. *)
Selected ==
  {row \in {[object |-> o, content |-> c, topic |-> t, extension |-> e] :
              o \in From("object"), c \in From("content"), t \in From("topic"),
              e \in From("extension")} :
     /\ Visible(row.object)
     /\ LangHolds(row)
     /\ \A k \in DOMAIN query.constraints : Holds(row, query.constraints[k])
     /\ \A k \in DOMAIN query.joins : Holds(row, query.joins[k])
     /\ GroupHolds(row)}

(* "ORDER BY lang" and then "GROUP BY sid": the first of every object's. *)
FirstOfEach(rows) ==
  IF ~Fallback THEN rows
  ELSE LET Of(row) == {x \in rows : x.object = row.object}
           Before(x, y) == IF env.lang > env.default THEN x.content.lang >= y.content.lang
                                                     ELSE x.content.lang <= y.content.lang
           first(row) == {x \in Of(row) : \A y \in Of(row) : Before(x, y)}
       IN  {CHOOSE x \in first(row) : TRUE : row \in rows}

(* LIMIT and OFFSET: the order being open, any rows of the right number. *)
Pages(rows) ==
  LET left == Cardinality(rows) - query.offset
      size == IF query.limit # None /\ query.limit < left THEN query.limit ELSE left
  IN  IF query.offset = 0 /\ query.limit = None THEN {rows}
      ELSE kSubset(IF size < 0 THEN 0 ELSE size, rows)

(* The server refuses the statement: a condition on a table that is not after
   FROM, OFFSET without LIMIT, no direction of an order; with the fallback
   names of orders that are no columns, and a column twice. *)
Fails(columns) ==
  \/ \E k \in DOMAIN query.constraints :
       LET c == query.constraints[k] IN
       {c.left[1]} \cup (IF c.right = None THEN {} ELSE {c.right[1]}) \notin SUBSET query.tables
  \/ query.offset # 0 /\ query.limit = None
  \/ ~Fallback /\ \E k \in DOMAIN query.orders : query.orders[k].dir = None
  \/ /\ Fallback /\ columns # None
     /\ \/ \E k \in DOMAIN query.orders :
             query.orders[k].dir = None \/ query.orders[k].name \notin ToSet(columns)
        \/ ~IsInjective(columns)

(* Every call that gets to the SELECT turns the list of groups around. *)
Turned(q) == [q EXCEPT !.groups = Reverse(@)]

-----------------------------------------------------------------------------
NewQuery ==
  [constraints |-> <<>>, groups |-> <<>>, group |-> <<>>, cursor |-> None, groupingRef |-> 0,
   joins |-> <<>>, tables |-> {"object"} \cup (IF env.multilang THEN {"content"} ELSE {}),
   orders |-> <<>>, limit |-> None, offset |-> 0, lang |-> -1, unsetLang |-> FALSE,
   includeDeleted |-> FALSE]

QueryInit ==
  /\ env \in Settings
  /\ query = NewQuery
  /\ collector = None
  /\ answer = [op |-> "call", value |-> TRUE]
  /\ asked = <<[type |-> "AND", of |-> <<>>]>>
  /\ led = {} /\ refused = {}
  /\ calls = [kind \in DOMAIN MaxOf |-> 0]

Answer(op, value) == answer' = [op |-> op, value |-> value]
Return(value) == Answer("call", value)

Alive == IF collector = None THEN TRUE ELSE ~collector.hangs

(* A call of the given kind within its bounds. *)
Call(kind) ==
  /\ Alive
  /\ calls[kind] < MaxOf[kind]
  /\ FoldFunction(+, 0, calls) < MaxCalls
  /\ calls' = [calls EXCEPT ![kind] = @ + 1]

Ask(what) == asked' = [asked EXCEPT ![Len(asked)].of = Append(@, what)]

TablesOf(path) ==
  (IF "parameter" \in ToSet(path) THEN {"extension"} ELSE {})
  \cup (IF Len(path) > 1 /\ path[1] = "topic" THEN {"topic"} ELSE {})

Led(accepted, tables) ==
  IF accepted THEN led' = led \cup tables /\ UNCHANGED refused
              ELSE refused' = refused \cup tables /\ UNCHANGED led

(* A value that is refused, as the empty array of an IN, is refused only after
   the name was parsed. *)
AddConstraint(path, values) ==
  /\ Call("conditions")
  /\ LET p == Parse(query, path) IN
     IF p.ok /\ values # {}
     THEN /\ query' = Put(p.query, OneOf(p.left, values))
          /\ Ask([path |-> path, with |-> None, values |-> values])
          /\ Return(TRUE)
     ELSE /\ query' = p.query
          /\ Return(FALSE)
          /\ UNCHANGED asked
  /\ Led(answer'.value, TablesOf(path))
  /\ UNCHANGED <<env, collector>>

(* INTREE: the ids below one, as mgd_tree lists them now. *)
Tree(id) ==
  LET below[n \in 0..Cardinality(Topics)] ==
        IF n = 0 THEN {id} ELSE below[n - 1] \cup {t.id : t \in {t \in Topics : t.up \in below[n - 1]}}
  IN  below[Cardinality(Topics)]

AddInTree(path, id) ==
  /\ Call("conditions")
  /\ LET p == Parse(query, path) IN
     IF p.ok /\ p.left[2] \in {"topic", "up"}
     THEN /\ query' = Put(p.query, OneOf(p.left, Tree(id)))
          /\ Ask([path |-> path, with |-> None, values |-> Tree(id)])
          /\ Return(TRUE)
     ELSE /\ query' = p.query
          /\ Return(FALSE)
          /\ UNCHANGED asked
  /\ Led(answer'.value, TablesOf(path))
  /\ UNCHANGED <<env, collector>>

AddConstraintWithProperty(path, with) ==
  /\ Call("conditions")
  /\ LET p == Parse(query, path)
         r == Parse(p.query, with)
     IN  IF p.ok /\ r.ok
         THEN /\ query' = Put([r.query EXCEPT !.tables = @ \cup {r.left[1]}], Equal(p.left, r.left))
              /\ Ask([path |-> path, with |-> with, values |-> {}])
              /\ Return(TRUE)
         ELSE /\ query' = IF p.ok THEN r.query ELSE p.query
              /\ Return(FALSE)
              /\ UNCHANGED asked
  /\ Led(answer'.value, TablesOf(path) \cup (IF Parse(query, path).ok THEN TablesOf(with) ELSE {}))
  /\ UNCHANGED <<env, collector>>

(* midgard_query_builder_begin_group; without a type it is "OR". *)
BeginGroup(type) ==
  LET new == Len(query.group) + 1
      group == [type |-> IF type = None THEN "OR" ELSE type, constraints |-> <<>>, nested |-> <<>>,
                parent |-> IF query.groupingRef > 0 THEN query.cursor ELSE None]
      opened == [query EXCEPT !.group = Append(@, group), !.cursor = new, !.groupingRef = @ + 1]
  IN  /\ Call("groups")
      /\ query' = IF query.groupingRef > 0
                  THEN [opened EXCEPT !.group[query.cursor].nested = <<new>> \o @]
                  ELSE [opened EXCEPT !.groups = <<new>> \o @]
      /\ asked' = Append(asked, [type |-> group.type, of |-> <<>>])
      /\ Return(TRUE)
      /\ UNCHANGED <<env, collector, led, refused>>

(* What closing the innermost group means to the caller. *)
AskGroup ==
  LET n == Len(asked) IN
  asked' = [SubSeq(asked, 1, n - 1) EXCEPT ![n - 1].of = Append(@, asked[n])]

(* Mutant: the cursor stays in the group that was closed. *)
EndGroupThere ==
  /\ Alive
  /\ query.groupingRef > 0
  /\ query' = [query EXCEPT !.groupingRef = @ - 1]
  /\ AskGroup
  /\ Return(TRUE)
  /\ UNCHANGED <<env, collector, led, refused, calls>>

(* midgard_query_builder_end_group, if one is open. *)
EndGroup ==
  /\ Alive
  /\ query.groupingRef > 0
  /\ query' = [query EXCEPT !.cursor = query.group[@].parent, !.groupingRef = @ - 1]
  /\ AskGroup
  /\ Return(TRUE)
  /\ UNCHANGED <<env, collector, led, refused, calls>>

(* midgard_query_builder_add_order: a direction of NULL is taken for valid and
   written as it is. *)
AddOrder(path, dir) ==
  /\ Call("settings")
  /\ LET p == Parse(query, path) IN
     IF p.ok
     THEN /\ query' = [p.query EXCEPT !.tables = @ \cup {p.left[1]},
                         !.orders = Append(@, [name |-> Last(path), dir |-> dir])]
          /\ Return(TRUE)
     ELSE /\ query' = p.query
          /\ Return(FALSE)
  /\ Led(answer'.value, TablesOf(path))
  /\ UNCHANGED <<env, collector, asked>>

Set(q) ==
  /\ Call("settings")
  /\ query' = q
  /\ Return(TRUE)
  /\ UNCHANGED <<env, collector, asked, led, refused>>

SetLimit(limit) == Set([query EXCEPT !.limit = limit])
SetOffset(offset) == Set([query EXCEPT !.offset = offset])
SetLang(lang) == Set([query EXCEPT !.lang = lang])
UnsetLanguages == Set([query EXCEPT !.unsetLang = TRUE])
IncludeDeleted == Set([query EXCEPT !.includeDeleted = TRUE])

(* midgard_query_builder_execute: no objects while a group is open, or if the
   statement fails; sitegroups, which only root may query, are left out. *)
ClassColumns == SetToSeq(Props("object"))

Execute ==
  /\ collector = None
  /\ IF query.groupingRef > 0 THEN Answer("execute", {}) /\ UNCHANGED query
     ELSE /\ \E rows \in IF Fails(ClassColumns) THEN {{}} ELSE Pages(FirstOfEach(Selected)) :
               Answer("execute", rows)
          /\ query' = Turned(query)
  /\ UNCHANGED <<env, collector, asked, led, refused, calls>>

(* MQB_SELECT_GUID: COUNT(guid) is one row, that LIMIT 0 or any OFFSET skips;
   of a multilingual class the rows of the query are counted. *)
Counted ==
  IF Fails(None) \/ (env.multilang /\ query.unsetLang) THEN {0}
  ELSE IF env.multilang THEN {Cardinality(page) : page \in Pages(FirstOfEach(Selected))}
  ELSE {IF query.limit = 0 \/ query.offset > 0 THEN 0 ELSE Cardinality(Selected)}

Count ==
  /\ collector = None
  /\ IF query.groupingRef > 0 THEN Answer("count", 0) /\ UNCHANGED query
     ELSE /\ \E n \in Counted : Answer("count", n)
          /\ query' = Turned(query)
  /\ UNCHANGED <<env, collector, asked, led, refused, calls>>

-----------------------------------------------------------------------------
(* midgard_collector_new: the value of the domain is a constraint; the name is
   parsed a second time only to be checked. *)
CollectorNew(domain, values) ==
  /\ Call("conditions")
  /\ query = NewQuery /\ collector = None /\ values # {}
  /\ LET p == Parse(query, domain)
         q == IF p.ok THEN Put(p.query, OneOf(p.left, values)) ELSE p.query
     IN  /\ p.ok
         /\ query' = Parse(q, domain).query
         /\ collector' = [columns |-> <<>>, list |-> <<>>, turned |-> FALSE, hangs |-> FALSE,
                          fresh |-> TRUE]
  /\ Ask([path |-> domain, with |-> None, values |-> values])
  /\ Return(TRUE)
  /\ Led(TRUE, TablesOf(domain))
  /\ UNCHANGED env

(* A column of the SELECT: a field and its name, that of the property. *)
Column(left, name, path) == [left |-> left, name |-> name, path |-> path]
Sid == Column(<<"content", "sid">>, "sid", None)

(* midgard_collector_set_key_property; `sid' is what the fallback groups by. *)
CollectorSetKey(key, values) ==
  /\ values # {}
  /\ collector # None
  /\ Call("columns")
  /\ LET p == Parse(query, key)
         columns == <<Column(p.left, "midgard_collector_key", key)>>
                    \o (IF env.multilang /\ ~query.unsetLang THEN <<Sid>> ELSE <<>>)
     IN  IF p.ok
         THEN /\ collector' = [collector EXCEPT !.columns = @ \o columns]
              /\ query' = IF values = None THEN p.query ELSE
                          LET r == Parse(p.query, key) IN Put(r.query, OneOf(r.left, values))
              /\ IF values = None THEN UNCHANGED asked
                 ELSE Ask([path |-> key, with |-> None, values |-> values])
              /\ Return(TRUE)
         ELSE /\ query' = p.query
              /\ Return(FALSE)
              /\ UNCHANGED <<collector, asked>>
  /\ Led(answer'.value, TablesOf(key))
  /\ UNCHANGED env

CollectorAddValue(path) ==
  /\ collector # None
  /\ Call("columns")
  /\ LET p == Parse(query, path) IN
     IF collector.columns # <<>> /\ p.ok
     THEN /\ collector' = [collector EXCEPT
                             !.columns = Append(@, Column(p.left, Last(path), path))]
          /\ query' = p.query
          /\ Return(TRUE)
     ELSE /\ query' = IF collector.columns = <<>> THEN query ELSE p.query
          /\ Return(FALSE)
          /\ UNCHANGED collector
  /\ Led(answer'.value, IF collector.columns = <<>> THEN {} ELSE TablesOf(path))
  /\ UNCHANGED <<env, asked>>

(* Mutant: the last column for the key. *)
KeyOfLast(row) == FieldOf(row, Last(collector.columns).left)

KeyOf(row) == FieldOf(row, collector.columns[1].left)

(* What midgard_collector_execute and _set keep of a row: the columns named as
   a property of the class. *)
Subkeys(row) ==
  [name \in {c.name : c \in ToSet(collector.columns)} \cap Props("object") |->
     LET k == CHOOSE k \in DOMAIN collector.columns :
                /\ collector.columns[k].name = name
                /\ \A j \in k + 1 .. Len(collector.columns) : collector.columns[j].name # name
     IN  FieldOf(row, collector.columns[k].left)]

Listed(key) == IF key \in DOMAIN collector.list THEN collector.list[key] ELSE <<>>
Over(new, old) == [n \in DOMAIN new \cup DOMAIN old |-> IF n \in DOMAIN new THEN new[n] ELSE old[n]]

(* The list after the rows were set one by one; `last' is the last row of every
   key. A row that keeps nothing makes no key, unless it has a single column. *)
ListOf(last, keys) ==
  [k \in {k \in keys : Len(collector.columns) = 1 \/ Subkeys(last[k]) # <<>>}
           \cup DOMAIN collector.list |->
     IF k \notin keys THEN collector.list[k] ELSE Over(Subkeys(last[k]), Listed(k))]

(* midgard_collector_execute, whether groups are open or not. It turns the list
   of columns around and keeps the old head of it: of two and more columns that
   makes a ring, and the next call never ends. *)
CollectorExecute ==
  /\ collector # None /\ Alive
  /\ IF collector.columns = <<>> THEN Return(FALSE) /\ UNCHANGED <<query, collector>>
     ELSE IF collector.turned
     THEN /\ collector' = [collector EXCEPT !.hangs = TRUE]
          /\ UNCHANGED <<query, answer>>
     ELSE LET names == [k \in DOMAIN collector.columns |-> collector.columns[k].name]
              turned == [collector EXCEPT !.turned = Len(collector.columns) > 1]
          IN  /\ query' = Turned(query)
              /\ \E rows \in IF Fails(names) THEN {{}} ELSE Pages(FirstOfEach(Selected)) :
                   LET keys == {KeyOf(row) : row \in rows} IN
                   \E last \in [keys -> rows] :
                     /\ \A k \in keys : KeyOf(last[k]) = k
                     /\ collector' = IF rows = {} THEN turned ELSE
                          [turned EXCEPT !.list = ListOf(last, keys),
                                         !.fresh = collector.list = <<>>]
                     /\ Answer("collect", rows # {})
  /\ UNCHANGED <<env, asked, led, refused, calls>>

CollectorRemoveKey(key) ==
  /\ collector # None
  /\ Call("columns")
  /\ IF key \in DOMAIN collector.list
     THEN /\ collector' = [collector EXCEPT !.list =
                             [k \in DOMAIN @ \ {key} |-> @[k]]]
          /\ Return(TRUE)
     ELSE Return(FALSE) /\ UNCHANGED collector
  /\ UNCHANGED <<env, query, asked, led, refused>>

-----------------------------------------------------------------------------
QueryNext ==
  \/ \E c \in Compared : \/ AddConstraint(c[1], c[2])
                         \/ CollectorNew(c[1], c[2])
                         \/ CollectorSetKey(c[1], c[2])
  \/ \E path \in Below, t \in Topics : AddInTree(path, t.id)
  \/ \E r \in Related : AddConstraintWithProperty(r[1], r[2])
  \/ \E type \in {"AND", None} : BeginGroup(type)
  \/ EndGroup
  \/ \E s \in Sorted : AddOrder(s[1], s[2])
  \/ \E n \in Numbers : SetLimit(n) \/ SetOffset(n)
  \/ \E lang \in Langs : SetLang(lang)
  \/ UnsetLanguages \/ IncludeDeleted
  \/ Execute \/ Count
  \/ \E path \in Columns : CollectorSetKey(path, None) \/ CollectorAddValue(path)
  \/ CollectorExecute
  \/ collector # None /\ \E key \in DOMAIN collector.list : CollectorRemoveKey(key)

QuerySpec == QueryInit /\ [][QueryNext]_queryVars

-----------------------------------------------------------------------------
(* Properties.                                                                *)

(* What an object has at the end of a name: a view of it is a choice of its   *)
(* contents, its topic and one of its parameters, if it has such.             *)
Languages ==
  IF query.unsetLang THEN {c.lang : c \in Contents}
  ELSE IF query.lang >= 0 THEN {query.lang} ELSE {env.lang, env.default}

OrNone(rows) == IF rows = {} THEN {None} ELSE rows

ContentsOf(o) == {c \in Contents : c.sid = o.id /\ c.lang \in Languages}

Views(o) ==
  {[object |-> o, content |-> c, topic |-> t, extension |-> e] :
     c \in IF env.multilang THEN ContentsOf(o) ELSE {None},
     t \in OrNone({t \in Topics : t.id = o.topic}),
     e \in OrNone({e \in Extensions : e.parent = o.id /\ ~e.deleted})}

PropertyOf(view, path) ==
  CASE path = <<"value">> -> view.object.value
    [] path = <<"topic">> -> view.object.topic
    [] path = <<"title">> -> view.content.value
    [] path = <<"topic", "value">> -> view.topic.value
    [] path = <<"topic", "up">> -> view.topic.up
    [] path = <<"parameter", "value">> -> view.extension.value

(* Nested brackets; one that is empty restricts nothing.                      *)
RECURSIVE Means(_, _)
Means(what, view) ==
  IF "type" \notin DOMAIN what
  THEN IF what.with = None THEN PropertyOf(view, what.path) \in what.values
       ELSE PropertyOf(view, what.path) = PropertyOf(view, what.with)
  ELSE LET each == {Means(what.of[k], view) : k \in DOMAIN what.of}
       IN  IF what.type = "AND" THEN FALSE \notin each ELSE each = {} \/ TRUE \in each

(* The views in which an object is what was asked for. The tables the names   *)
(* lead to are joined to it: it must have a counterpart there.                *)
Matching(o) ==
  {v \in Views(o) : (\A t \in led : v[t] # None) /\ Means(asked[1], v)}

Unlimited == query.limit = None /\ query.offset = 0

ListedAre(rows) ==
  query.groupingRef = 0 /\ Unlimited /\ ~Fails(ClassColumns) =>
    {row.object : row \in rows} = {o \in Objects : Visible(o) /\ Matching(o) # {}}

(* query_builder.h:164-251: a query lists the objects that match its          *)
(* constraints, grouped as the caller grouped them, and no others, however    *)
(* deep and in whatever order the groups were opened, filled and closed; and  *)
(* an object that matches in the current language is listed in it, any other  *)
(* in the default language, and with this fallback none comes twice. A query  *)
(* that a refused call has joined to a table of its own is excepted, see      *)
(* RefusedCallsLeaveNoTrace.                                                  *)
ListsWhatWasAsked ==
  answer.op = "execute" =>
    /\ refused \subseteq led => ListedAre(answer.value)
    /\ Fallback => \A row \in answer.value :
         /\ \A other \in answer.value : other.object = row.object => other = row
         /\ (\E v \in Matching(row.object) : v.content.lang = env.lang)
              => row.content.lang = env.lang

(* query_builder.h:181-184: add_constraint answers FALSE to a constraint that *)
(* is not valid "and does not change the state of the query builder". So what *)
(* a query lists depends on the constraints accepted, whatever was refused    *)
(* before. The code does not hold this: what a refused name has joined stays. *)
RefusedCallsLeaveNoTrace == answer.op = "execute" => ListedAre(answer.value)

(* After a collector was executed its keys are those of the objects that      *)
(* match, and all that it tells of a key is true of one of these objects. (A  *)
(* multilingual class with nothing but a key collects nothing.)               *)
Tells(k, v) ==
  \A name \in DOMAIN collector.list[k] : \E c \in ToSet(collector.columns) :
    c.name = name /\ PropertyOf(v, c.path) = collector.list[k][name]

Collecting ==
  /\ collector # None /\ answer.op = "collect"
  /\ answer.value /\ collector.fresh
  /\ query.groupingRef = 0 /\ Unlimited /\ refused \subseteq led
  /\ \/ Len(collector.columns) = 1
     \/ \E c \in ToSet(collector.columns) : c.name \in Props("object")

CollectsWhatWasAsked ==
  Collecting =>
    LET key == collector.columns[1].path
        matching == UNION {Matching(o) : o \in {o \in Objects : Visible(o)}}
    IN  /\ \A k \in DOMAIN collector.list : \E v \in matching : PropertyOf(v, key) = k /\ Tells(k, v)
        /\ ~Fallback => {PropertyOf(v, key) : v \in matching} = DOMAIN collector.list

=============================================================================
