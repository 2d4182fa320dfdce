----------------------------- MODULE ObjectTree -----------------------------
(***************************************************************************)
(* Objects linked by `up' (and, in some classes, `parent'): the checks of  *)
(* create and update that keep names unique and links free of cycles       *)
(* (src/src/types.c, src/src/midgard_core_object_class.c), and the readers *)
(* that list a tree, walk up to its root (src/src/tree_core.c) or follow a *)
(* path of names down from the top (src/src/types.c).                      *)
(*                                                                         *)
(* The checks are SELECTs of their own, before the INSERT or UPDATE; a     *)
(* listing is a SELECT per level, a walk one per node, a path one per      *)
(* element.  Every action is one statement, and the statements of the      *)
(* sessions interleave.                                                    *)
(***************************************************************************)
EXTENDS Integers, Sequences, FiniteSets, SequencesExt, FiniteSetsExt, Trees

CONSTANTS
  Session,     \* client processes of one sitegroup
  Reader,      \* those of them that list trees and walk
  Name,        \* names of objects
  NoName,      \* the empty name
  ParentIds,   \* values of the parent property; {0}: the class has none
  NoRow,       \* no record under this row id
  Idle,        \* a session between two calls
  MaxRow,      \* bound: how many records are ever inserted
  Roots,       \* the roots they list and walk to
  Depths,      \* the depths listings are asked for; 0: no limit
  Paths,       \* the paths they ask for: sequences of names
  MaxDepth     \* bound: how deep a listing without limit gets

ASSUME TreeAssumption ==
  /\ Reader \subseteq Session /\ Roots \subseteq 0..MaxRow
  /\ NoName \notin Name
  /\ 0 \in ParentIds
  /\ \A p \in Paths : p # << >> /\ p \in Seq(Name \cup {NoName})
  /\ MaxRow \in Nat /\ Depths \subseteq Nat /\ MaxDepth \in Nat

VARIABLES
  row,      \* the table of the class: row id -> record
  nextId,   \* its AUTO_INCREMENT
  call,     \* the call each session is in
  late      \* history: sessions overtaken by a write during their call

vars == <<row, nextId, call, late>>

RowId == 1..MaxRow
Link == 0..MaxRow          \* values of an up property: 0 is the top
Content == [up : Link, parent : ParentIds, name : Name \cup {NoName}]
Node == [up : Link, parent : ParentIds, name : Name \cup {NoName}, deleted : BOOLEAN]

HasParent == ParentIds # {0}

Live(i) == row[i] # NoRow /\ ~row[i].deleted
ChildrenOf(u) == {i \in RowId : Live(i) /\ row[i].up = u}

-----------------------------------------------------------------------------
(* _midgard_core_object_is_valid: up_pspec is looked up only if it is set
   already (`if(up_pspec)'), so it never is, and a class with both links is
   treated as one with a parent only. *)
IsValid(c) == HasParent => c.parent # 0

(* Mutant: the object is searched among the children of the new `up'. *)
IsCircularAbove(i, c) == i # 0 /\ i \in ChildrenOf(c.up)

(* _is_circular: is the object's `up' one of its own direct children? *)
IsCircular(i, c) == i # 0 /\ c.up \in ChildrenOf(i)

(* The scope of a name: the parent if the class has one, else up. *)
Scope(c) == IF HasParent THEN c.parent ELSE c.up

(* Mutant: only new objects are looked up by name. *)
NewNameTaken(i, c) ==
  /\ i = 0 /\ c.name # NoName
  /\ \E k \in RowId : Live(k) /\ Scope(row[k]) = Scope(c) /\ row[k].name = c.name

(* _object_in_tree: of the records with this name in this scope only the
   first one returned is compared with the object.  The query has no order;
   the table is read by ascending id. *)
NameTaken(i, c) ==
  LET same == {k \in RowId : Live(k) /\ Scope(row[k]) = Scope(c) /\ row[k].name = c.name}
  IN  /\ c.name # NoName
      /\ same # {}
      /\ i # Min(same)

-----------------------------------------------------------------------------
Init ==
  /\ row = [i \in RowId |-> NoRow]
  /\ nextId = 1
  /\ call = [s \in Session |-> Idle]
  /\ late = {}

Begin(s, c) == call[s] = Idle /\ call' = [call EXCEPT ![s] = c] /\ late' = late \ {s}
In(s, pc) == call[s] # Idle /\ call[s].pc = pc
Goto(s, pc) == call' = [call EXCEPT ![s].pc = pc] /\ UNCHANGED late
Return(s) == call' = [call EXCEPT ![s] = Idle]

(* A session writes: whoever is in a call has been overtaken. *)
Overtake(s) == late' = (late \ {s}) \cup {t \in Session \ {s} : call[t] # Idle}

(* midgard_object_create: valid, no other object of that name. *)
Create(s, c) ==
  /\ IsValid(c) /\ ~NameTaken(0, c)
  /\ Begin(s, [op |-> "create", id |-> 0, content |-> c, pc |-> "write"])
  /\ UNCHANGED <<row, nextId>>

(* midgard_object_update of an instance of record i, whatever its properties
   have been set to: valid, not circular. *)
Update(s, i, c) ==
  /\ IsValid(c) /\ ~IsCircular(i, c)
  /\ Begin(s, [op |-> "update", id |-> i, content |-> c, pc |-> "name"])
  /\ UNCHANGED <<row, nextId>>

(* The second SELECT of an update: the name. *)
UpdateName(s) ==
  /\ In(s, "name")
  /\ IF NameTaken(call[s].id, call[s].content)
     THEN Return(s) /\ late' = late \ {s}
     ELSE Goto(s, "write")
  /\ UNCHANGED <<row, nextId>>

WithContent(c, d) == [up |-> c.up, parent |-> c.parent, name |-> c.name, deleted |-> d]

InsertRow(s) ==
  /\ In(s, "write") /\ call[s].op = "create"
  /\ nextId \in RowId
  /\ row' = [row EXCEPT ![nextId] = WithContent(call[s].content, FALSE)]
  /\ nextId' = nextId + 1
  /\ Return(s) /\ Overtake(s)

UpdateRow(s) ==
  /\ In(s, "write") /\ call[s].op = "update"
  /\ row' = [row EXCEPT ![call[s].id] =
               IF @ = NoRow THEN NoRow ELSE WithContent(call[s].content, @.deleted)]
  /\ UNCHANGED nextId
  /\ Return(s) /\ Overtake(s)

(* The call ends without a write: the server refuses the statement, the
   caller takes the answer of a reader, or the process dies. *)
End(s) ==
  /\ call[s] # Idle
  /\ Return(s) /\ late' = late \ {s}
  /\ UNCHANGED <<row, nextId>>

(* midgard_object_delete, _undelete and _purge look at no other object. *)
SetDeleted(s, i, d) ==
  /\ call[s] = Idle
  /\ row[i] # NoRow /\ row[i].deleted # d
  /\ row' = [row EXCEPT ![i].deleted = d]
  /\ Overtake(s)
  /\ UNCHANGED <<nextId, call>>

Delete(s, i) == SetDeleted(s, i, TRUE)
Undelete(s, i) == SetDeleted(s, i, FALSE)

Purge(s, i) ==
  /\ call[s] = Idle
  /\ row[i] # NoRow
  /\ row' = [row EXCEPT ![i] = NoRow]
  /\ Overtake(s)
  /\ UNCHANGED <<nextId, call>>

-----------------------------------------------------------------------------
(* mgd_tree and mgd_walk_table_tree: mgd_tree_build reads the tree below
   `root' with one SELECT per level. *)
List(s, root, max) ==
  /\ Begin(s, [op |-> "list", root |-> root, max |-> max, levels |-> << >>, pc |-> "level"])
  /\ UNCHANGED <<row, nextId>>

(* midgard_object_list: the children of an object, one query by `up'. *)
ListChildren(s, i) == i # 0 /\ List(s, i, 1)

(* mgd_tree_get_level: the live children of the nodes of the level above. *)
NextLevel(levels, root) ==
  LET above == IF levels = << >> THEN {root} ELSE {n.id : n \in Last(levels)}
  IN  {[id |-> i, up |-> row[i].up] : i \in {k \in RowId : Live(k) /\ row[k].up \in above}}

(* The loop of mgd_tree_build: until a level is empty or deep enough. *)
ListLevel(s) ==
  /\ In(s, "level")
  /\ LET c == call[s]
         next == NextLevel(c.levels, c.root)
     IN  \/ /\ next = {} \/ (c.max # 0 /\ Len(c.levels) = c.max)
            /\ Goto(s, "listed")
         \/ /\ next # {} /\ Len(c.levels) < (IF c.max = 0 THEN MaxDepth ELSE c.max)
            /\ call' = [call EXCEPT ![s].levels = Append(@, next)]
            /\ UNCHANGED late
  /\ UNCHANGED <<row, nextId>>

(* mgd_tree_get_ids: the tree flattened, each node before its children.  A
   node h levels above the lowest one has its children in level depth - h + 1. *)
Ids(root, levels) ==
  LET depth == Len(levels)
      Children(h, i) == InOrder({n.id : n \in {m \in levels[depth - h + 1] : m.up = i}})
      below[h \in 0..depth] ==
        [i \in Link |->
           IF h = 0 THEN <<i>>
           ELSE <<i>> \o FlattenSeq([j \in DOMAIN Children(h, i) |-> below[h - 1][Children(h, i)[j]]])]
  IN  below[depth][root]

(* midgard_object_is_in_tree: the object exists; mgd_is_in_tree goes up from
   it, deleted objects included, one SELECT per step, until it is at `root'
   or finds no record.  Nothing bounds the loop; the level is counted up to
   MaxRow + 1 here. *)
IsInTree(s, root, i) ==
  /\ row[i] # NoRow
  /\ Begin(s, [op |-> "walk", root |-> root, from |-> i, id |-> i, level |-> 0,
               pc |-> IF i = root THEN "found" ELSE "up"])
  /\ UNCHANGED <<row, nextId>>

(* Mutant: a deleted object ends the walk. *)
WalkUpLive(s) ==
  /\ In(s, "up")
  /\ LET c == call[s]
     IN  IF c.id = 0 \/ ~Live(c.id) THEN Goto(s, "missed")
         ELSE /\ call' = [call EXCEPT ![s].id = row[c.id].up, ![s].level = IF @ > MaxRow THEN @ ELSE @ + 1,
                                     ![s].pc = IF row[c.id].up = c.root THEN "found" ELSE "up"]
              /\ UNCHANGED late
  /\ UNCHANGED <<row, nextId>>

WalkUp(s) ==
  /\ In(s, "up")
  /\ LET c == call[s]
     IN  IF c.id = 0 \/ row[c.id] = NoRow THEN Goto(s, "missed")
         ELSE /\ call' = [call EXCEPT ![s].id = row[c.id].up,
                                     ![s].level = IF @ > MaxRow THEN @ ELSE @ + 1,
                                     ![s].pc = IF row[c.id].up = c.root THEN "found" ELSE "up"]
              /\ UNCHANGED late
  /\ UNCHANGED <<row, nextId>>

(* midgard_object_get_by_path for a class without parent class: the names of
   the path one after the other, starting at the top. *)
FindByPath(s, path) ==
  /\ ~HasParent
  /\ Begin(s, [op |-> "path", path |-> path, at |-> 1, id |-> 0, pc |-> "element"])
  /\ UNCHANGED <<row, nextId>>

(* __get_id_from_path_element: the live object of this name below the one of
   the element before; of several the first one the server returns, which is
   the one of the lowest id. *)
PathElement(s) ==
  /\ In(s, "element")
  /\ LET c == call[s]
         named == {i \in ChildrenOf(c.id) : row[i].name = c.path[c.at]}
     IN  IF named = {} THEN Goto(s, "nowhere")
         ELSE /\ call' = [call EXCEPT ![s].id = Min(named), ![s].at = c.at + 1,
                                     ![s].pc = IF c.at = Len(c.path) THEN "fetch" ELSE "element"]
              /\ UNCHANGED late
  /\ UNCHANGED <<row, nextId>>

(* Then midgard_object_new by the id of the last element: one more query. *)
PathFetch(s) ==
  /\ In(s, "fetch")
  /\ Goto(s, IF Live(call[s].id) THEN "there" ELSE "nowhere")
  /\ UNCHANGED <<row, nextId>>

-----------------------------------------------------------------------------
(* Links are set to the top or to an object that was created. *)
Contents == {c \in Content : c.up < nextId}

Next ==
  \E s \in Session :
    \/ \E c \in Contents : Create(s, c)
    \/ \E i \in 1..(nextId - 1), c \in Contents : Update(s, i, c)
    \/ UpdateName(s) \/ InsertRow(s) \/ UpdateRow(s) \/ End(s)
    \/ \E i \in RowId : Delete(s, i) \/ Undelete(s, i) \/ Purge(s, i)
    \/ /\ s \in Reader
       /\ \E root \in Roots :
            \/ \E max \in Depths : List(s, root, max)
            \/ ListChildren(s, root)
            \/ \E i \in RowId : IsInTree(s, root, i)
    \/ s \in Reader /\ \E path \in Paths : FindByPath(s, path)
    \/ ListLevel(s) \/ WalkUp(s) \/ PathElement(s) \/ PathFetch(s)

Spec == Init /\ [][Next]_vars

-----------------------------------------------------------------------------
(* Two live objects of one scope with one name. *)
Clash(i, j) ==
  /\ i # j /\ Live(i) /\ Live(j)
  /\ Scope(row[i]) = Scope(row[j]) /\ row[i].name = row[j].name /\ row[i].name # NoName

TwoCycle(i, j) == i # j /\ Live(i) /\ Live(j) /\ row[i].up = j /\ row[j].up = i

Writes(s) == In(s, "write") /\ call'[s] = Idle

(* Names are taken twice only by race or by undelete: a create or update
   during which nobody else wrote brings no second object of a name into a
   scope (_object_in_tree). *)
NamesAreKept ==
  [][\A s \in Session : Writes(s) /\ s \notin late =>
       \A i, j \in RowId : Clash(i, j)' => Clash(i, j)]_vars

(* Likewise two objects become each other's parent only by race or by
   undelete (_is_circular), even though the check looks at children and the
   update writes a link upwards. *)
NoMutualParents ==
  [][\A s \in Session : Writes(s) /\ s \notin late =>
       \A i, j \in RowId : TwoCycle(i, j)' => TwoCycle(i, j)]_vars

(* The object n links above i: 0 is the top, -1 is above the top and above
   what is missing. *)
LinkOf(i) == IF i \in RowId /\ row[i] # NoRow THEN row[i].up ELSE -1

Ancestor(i, n) ==
  LET above[k \in 0..n] == IF k = 0 THEN i ELSE LinkOf(above[k - 1])
  IN  above[n]

(* i hangs n links below root, all of them of live objects. *)
HangsBelow(i, root, n) ==
  /\ Ancestor(i, n) = root
  /\ \A k \in 0..(n - 1) : Ancestor(i, k) \in RowId \ {root} /\ Live(Ancestor(i, k))

(* A root that is its own ancestor has no finite listing. *)
OnCycle(i) == i # 0 /\ \E n \in 1..MaxRow : Ancestor(i, n) = i

(* The listing a session holds is the tree below its root: the root and,
   once each, the live objects that reach it by links of live objects within
   the depth asked for, each after the object it hangs below. *)
ListedExactly(s) ==
  LET c == call[s]
      ids == Ids(c.root, c.levels)
      depth == IF c.max = 0 THEN MaxRow ELSE c.max
      expected == {i \in RowId : \E n \in 1..depth : HangsBelow(i, c.root, n)}
  IN  /\ ToSet(ids) = expected \cup {c.root}
      /\ Len(ids) = Cardinality(expected) + 1
      /\ \A k \in 2..Len(ids) : \E m \in 1..(k - 1) : ids[m] = row[ids[k]].up

(* Live object i is at this path: the names of the live objects above it
   spell the path from the top. *)
IsAt(i, path) ==
  LET n == Len(path)
  IN  HangsBelow(i, 0, n) /\ \A k \in 1..n : row[Ancestor(i, n - k)].name = path[k]

(* On the way to it is an object with a namesake in its scope. *)
Ambiguous(i, n) ==
  \E k \in 0..(n - 1), j \in RowId :
    /\ j # Ancestor(i, k)
    /\ Live(j) /\ row[j].up = Ancestor(i, k + 1)
    /\ row[j].name = row[Ancestor(i, k)].name

(* A walk answers by all records, deleted ones included. *)
WalksAreExact ==
  \A s \in Session \ late :
    LET c == call[s] IN
    /\ In(s, "missed") => ~\E n \in 0..MaxRow : Ancestor(c.from, n) = c.root
    /\ In(s, "found") => Ancestor(c.from, c.level) = c.root

PathsAreExact ==
  \A s \in Session \ late :
    LET c == call[s] IN
    /\ In(s, "there") => IsAt(c.id, c.path)
    /\ In(s, "nowhere") => \A i \in RowId : IsAt(i, c.path) => Ambiguous(i, Len(c.path))

(* What a reader learns by several SELECTs nobody wrote during is what the
   links say.  A listing (mgd_tree, downwards by level) is exact.  A walk
   (mgd_is_in_tree, upwards) answers by all records, deleted ones included,
   so it finds what any listing of that root shows, but not the other way
   round.  A path (midgard_object_get_by_path) leads to the object at it, and
   to nothing only if there is none or names on the way are taken twice. *)
UndisturbedReadsAreExact ==
  /\ \A s \in Session \ late : In(s, "listed") /\ ~OnCycle(call[s].root) => ListedExactly(s)
  /\ WalksAreExact /\ PathsAreExact

=============================================================================
