----------------------------- MODULE LegacyTree -----------------------------
(***************************************************************************)
(* Recursive copy and delete of the C API: src/src/tree.c with the walk of *)
(* src/src/tree_core.c.  A tree of `dir' objects (topics, events, pages,   *)
(* styles, snippet directories; articles with their replies) owns `leaf'   *)
(* objects, and each object has extras: parameters, attachments with a     *)
(* file each, content in a language.                                       *)
(*                                                                         *)
(* A copy or delete first reads the whole tree, then works through it node *)
(* by node.  One step is one node or one leaf with its extras; between the *)
(* steps another client may change the tree (at most MaxChanges times), a  *)
(* statement or file operation may be refused (MaxRefused times), and the  *)
(* process may die.  The build has HAVE_MIDGARD_MULTILANG, its default.    *)
(***************************************************************************)
EXTENDS Integers, Sequences, FiniteSets, SequencesExt, Trees

CONSTANTS
  Kinds,       \* the kinds of trees looked at
  Dirs,        \* bound: dirs at the start
  Leaves,      \* bound: leaves at the start
  MaxDir,      \* bound: row ids of dirs
  MaxLeaf,     \* bound: row ids of leaves
  MaxJobs,     \* bound: calls of copy and delete
  MaxChanges,  \* bound: writes of other clients
  MaxRefused,  \* bound: refused statements and file operations, rows spared
  Unused,       \* no record was ever inserted under this id
  Gone,        \* the record under this id was deleted
  NoJob         \* no job

ASSUME LegacyAssumption ==
  /\ Kinds \subseteq {"article", "topic", "event", "page", "style", "snippetdir"}
  /\ MaxDir \in Nat /\ MaxLeaf \in Nat /\ MaxRefused \in Nat
  /\ Dirs \in 0..MaxDir /\ Leaves \in 0..MaxLeaf
  /\ Unused # Gone /\ {Unused, Gone} \cap 0..MaxDir = {}

VARIABLES
  kind,       \* the kind of tree, fixed
  dir, leaf,  \* the tables: id -> up, id -> owner
  extra,      \* extras of objects
  job,        \* the copy or delete under way
  jobs,       \* how many there were
  changes,    \* how often another client wrote
  refused,    \* how often a statement was refused or a row spared
  disturbed,  \* history: another client wrote during the job
  missed,     \* history: the job has missed a node or, deleting, a row
  origin      \* history: what each row copied by the job is a copy of

legacyVars == <<kind, dir, leaf, extra, job, jobs, changes, refused, disturbed, missed,
                origin>>

DirId == 1..MaxDir
LeafId == 1..MaxLeaf
HasDir(d) == dir[d] \notin {Unused, Gone}
HasLeaf(l) == leaf[l] \notin {Unused, Gone}
What == {"parameter", "attachment", "file", "content"}
Extra == [of : {"dir", "leaf"}, oid : 0..(MaxDir + MaxLeaf), what : What]

-----------------------------------------------------------------------------
(* What the copier of each kind takes along with a node and with its leaves;
   how a leaf is read: again by its id, or from the list ("held"). *)
PA == {"parameter", "attachment"}
PAC == PA \cup {"content"}

ArticleCopier    == [node |-> PAC, leaf |-> {}, read |-> "held"]
TopicCopier      == [node |-> PA,  leaf |-> PAC, read |-> "again"]
EventCopier      == [node |-> PA,  leaf |-> PA,  read |-> "held"]
PageCopier       == [node |-> PAC, leaf |-> PAC, read |-> "again"]
StyleCopier      == [node |-> PA,  leaf |-> PAC, read |-> "again"]
SnippetdirCopier == [node |-> PA,  leaf |-> PAC, read |-> "held"]

Copier == [article |-> ArticleCopier, topic |-> TopicCopier, event |-> EventCopier,
           page |-> PageCopier, style |-> StyleCopier, snippetdir |-> SnippetdirCopier][kind]

(* What the deleters remove.  Elements of a style and snippets of a snippet
   directory keep their content. *)
ArticleDeleter    == [node |-> PAC, leaf |-> {}]
TopicDeleter      == [node |-> PA,  leaf |-> PAC]
EventDeleter      == [node |-> PA,  leaf |-> PA]
PageDeleter       == [node |-> PAC, leaf |-> PAC]
StyleDeleter      == [node |-> PA,  leaf |-> PA]
SnippetdirDeleter == [node |-> PA,  leaf |-> PA]

Deleter == [article |-> ArticleDeleter, topic |-> TopicDeleter, event |-> EventDeleter,
            page |-> PageDeleter, style |-> StyleDeleter, snippetdir |-> SnippetdirDeleter][kind]

-----------------------------------------------------------------------------
Have(of, oid) == {w \in What : [of |-> of, oid |-> oid, what |-> w] \in extra}
Add(of, oid, ws) == {[of |-> of, oid |-> oid, what |-> w] : w \in ws}

(* How many statements may still be refused. *)
Refusals == 0..(MaxRefused - refused)

(* mgd_copy_all_parameters, _attachments and _content: what arrives at the
   copy, and how many statements, SELECT or INSERT, were refused for it.  A
   blob's record is inserted before its file is written. *)
Copied(of, oid, ws) ==
  LET all == Have(of, oid) \cap (ws \cup (IF "attachment" \in ws THEN {"file"} ELSE {}))
  IN  {r \in [got : SUBSET all, n : Refusals] :
         /\ "file" \in r.got => "attachment" \in r.got
         /\ r.n = Cardinality(all \ r.got) - (IF {"attachment", "file"} \subseteq all \ r.got THEN 1 ELSE 0)}

(* What can become of a row: deleted; its DELETE refused; spared, because it
   belongs to another sitegroup and the DELETE, which names the sitegroup,
   matches nothing; never seen, because the SELECT was refused; or, of an
   attachment, kept because its file cannot be unlinked. *)
Fates == {"gone", "refused", "spared", "unread", "stuck"}

Met(f, fates) == {w \in DOMAIN f : f[w] \in fates}

(* What has come of it.  A blob's file goes before its record.  Only a refused
   DELETE is answered with 0: mgd_vquery returns the same for a refused SELECT
   as for no rows.  mgd_delete_all_content answers 0 whatever it did: its return
   code starts at 0 and is only and-ed. *)
Outcome(f, ws, file) ==
  [gone |-> Met(f, {"gone"}) \cup (IF "attachment" \in Met(f, {"unread", "stuck"}) THEN {} ELSE file),
   ok |-> "content" \notin ws /\ Met(f, {"refused"}) = {},
   missed |-> Met(f, {"spared", "unread"}) # {},
   n |-> Cardinality(Met(f, Fates \ {"gone"}))]

(* mgd_delete_all_attachments, _parameters and _content. *)
Removed(of, oid, ws) ==
  LET rows == Have(of, oid) \cap ws
      file == IF "attachment" \in ws THEN Have(of, oid) \cap {"file"} ELSE {}
  IN  {Outcome(f, ws, file) :
         f \in {g \in [rows -> Fates] : \A w \in rows : g[w] = "stuck" => w = "attachment" /\ file # {}}}

(* mgd_delete of a row: refused is answered with 0, spared with 1. *)
RowFates(there) == {"gone", "refused"} \cup (IF there THEN {"spared"} ELSE {})

(* Mutant: a record that stays does not count as a failure. *)
AnswerAnyway(ok, x, fate) == ok /\ x.ok

(* Every answer is and-ed to the return code. *)
Answer(ok, x, fate) == ok /\ x.ok /\ fate # "refused"

-----------------------------------------------------------------------------
Children(i) == {d \in DirId : dir[d] = i}

(* Mutant: the walk is cut off at the first level. *)
WalkOfOneLevel(root) ==
  LET first == InOrder(Children(root))
  IN  <<[id |-> root, level |-> 0]>> \o [k \in DOMAIN first |-> [id |-> first[k], level |-> 1]]

(* mgd_walk_table_tree with order 1: each node before its children, siblings
   by id.  The root is walked whether it exists or not.  Nothing hangs deeper
   than there are ids; below[h] is the walk from a node h levels above that. *)
Walk(root) ==
  LET below[h \in 0..MaxDir] ==
        [i \in DirId |->
           IF h = 0 THEN <<[id |-> i, level |-> MaxDir]>>
           ELSE <<[id |-> i, level |-> MaxDir - h]>>
                \o FlattenSeq([k \in DOMAIN InOrder(Children(i)) |-> below[h - 1][InOrder(Children(i))[k]]])]
  IN  below[MaxDir][root]

(* Up to some level. *)
Cut(walk, level) ==
  LET kept == InOrder({k \in DOMAIN walk : walk[k].level <= level})
  IN  [a \in DOMAIN kept |-> walk[kept[a]]]

(* Each level is a SELECT: the tree ends where one is refused, as it does where
   one finds nothing. *)
Reads(root) ==
  {[walk |-> Walk(root), n |-> 0]}
    \cup {[walk |-> Cut(Walk(root), Walk(root)[k].level), n |-> 1] : k \in DOMAIN Walk(root)}

(* mgd_tree: the ids of a walk, closed by a 0. *)
Tree(walk) == Append([k \in DOMAIN walk |-> walk[k].id], 0)

LeavesOf(d) == InOrder({l \in LeafId : leaf[l] = d})

Refuse(n) == refused + n <= MaxRefused /\ refused' = refused + n

Work(j) == /\ job' = j
           /\ UNCHANGED <<kind, jobs, changes, disturbed>>

-----------------------------------------------------------------------------
NoOrigin == [dir |-> [d \in DirId |-> 0], leaf |-> [l \in LeafId |-> 0]]

(* Any forest of some dirs, each below an older one, with some leaves. *)
LegacyInit ==
  /\ kind \in Kinds
  /\ \E n \in 1..Dirs, m \in 0..Leaves :
       /\ dir \in [DirId -> 0..MaxDir \cup {Unused}]
       /\ \A d \in DirId : IF d <= n THEN dir[d] \in 0..(d - 1) ELSE dir[d] = Unused
       /\ leaf \in [LeafId -> 1..n \cup {Unused}]
       /\ \A l \in LeafId : leaf[l] # Unused <=> l <= m /\ kind # "article"
  /\ extra = UNION ({Add("dir", d, Copier.node \cup {"file"}) : d \in {e \in DirId : dir[e] # Unused}}
                  \cup {Add("leaf", l, Copier.leaf \cup {"file"}) : l \in {m \in LeafId : leaf[m] # Unused}})
  /\ job = NoJob /\ jobs = 0
  /\ changes = 0 /\ refused = 0
  /\ disturbed = FALSE /\ missed = FALSE
  /\ origin = NoOrigin

(* Copying: `ups' has room for one id more than the tree has nodes and holds,
   at level + 1, the copy made last at that level.  Until then it holds the
   ids of the tree it was allocated with. *)
BeginCopy(root) ==
  /\ job = NoJob /\ jobs < MaxJobs
  /\ jobs' = jobs + 1
  /\ \E r \in Reads(root) :
       /\ Refuse(r.n)
       /\ missed' = (r.n # 0)
       /\ job' = [op |-> "copy", root |-> root, pc |-> "walk", ups |-> Tree(r.walk),
                  todo |-> << >>, leaves |-> << >>, to |-> 0, ok |-> TRUE]
  /\ disturbed' = FALSE
  /\ origin' = NoOrigin
  /\ UNCHANGED <<kind, dir, leaf, extra, changes>>

(* The tree is read a second time to be walked. *)
StartCopy ==
  /\ job # NoJob /\ job.pc = "walk"
  /\ \E r \in Reads(job.root) :
       /\ Refuse(r.n)
       /\ missed' = (missed \/ r.n # 0)
       /\ Work([job EXCEPT !.pc = "node", !.todo = r.walk])
  /\ UNCHANGED <<dir, leaf, extra, origin>>

AtNode(op) == job # NoJob /\ job.op = op /\ job.pc = "node" /\ job.todo # << >> /\ job.leaves = << >>

(* Ids the tables hand out next: none when the bound is reached. *)
NewDir == {d \in DirId : dir[d] = Unused /\ \A e \in DirId : dir[e] = Unused => d <= e}
NewLeaf == {l \in LeafId : leaf[l] = Unused /\ \A m \in LeafId : leaf[m] = Unused => l <= m}

(* A copier does not find the node, which is gone or whose SELECT is refused:
   nothing is copied, and `ups' keeps what it had, so that what is below this
   node may come to hang below the source. *)
SkipNode ==
  /\ AtNode("copy")
  /\ LET there == HasDir(Head(job.todo).id) IN
     /\ Refuse(IF there THEN 1 ELSE 0)
     /\ missed' = (missed \/ there)
  /\ Work([job EXCEPT !.todo = Tail(@)])
  /\ UNCHANGED <<dir, leaf, extra, origin>>

(* Mutant: a refused INSERT leaves `ups' alone, too. *)
CopyDirKept(new, level) == IF new = 0 THEN job.ups ELSE [job.ups EXCEPT ![level + 2] = new]

(* up[level + 1] = the new id, 0 if the INSERT was refused. *)
CopyDir(new, level) == [job.ups EXCEPT ![level + 2] = new]

(* mgd_copy_object of a node with its extras, then the list of its leaves;
   an INSERT that is refused gives id 0 and the rest goes on with that, a list
   that is refused is empty. *)
CopyNode ==
  /\ AtNode("copy")
  /\ LET old == Head(job.todo).id
         level == Head(job.todo).level
         above == IF level = 0 THEN 0 ELSE job.ups[level + 1]
     IN  /\ HasDir(old)
         /\ level + 2 \in DOMAIN job.ups
         /\ \E new \in {0} \cup NewDir,
                x \in Copied("dir", old, Copier.node), leaves \in {LeavesOf(old), << >>} :
              /\ Refuse(x.n + (IF new = 0 THEN 1 ELSE 0) + (IF leaves = LeavesOf(old) THEN 0 ELSE 1))
              /\ IF new = 0 THEN UNCHANGED <<dir, origin>>
                 ELSE /\ dir' = [dir EXCEPT ![new] = above]
                      /\ origin' = [origin EXCEPT !.dir[new] = old]
              /\ extra' = extra \cup Add("dir", new, x.got)
              /\ Work([job EXCEPT !.ups = CopyDir(new, level), !.to = new,
                                  !.leaves = leaves, !.todo = Tail(@)])
  /\ UNCHANGED <<leaf, missed>>

(* A leaf of the node just copied, with its extras.  One that is read again is
   left out if it is gone or its SELECT is refused. *)
CopyLeaf ==
  /\ job # NoJob /\ job.op = "copy" /\ job.leaves # << >>
  /\ LET old == Head(job.leaves) IN
     \/ /\ Copier.read = "again"
        /\ Refuse(IF HasLeaf(old) THEN 1 ELSE 0)
        /\ UNCHANGED <<leaf, extra, origin>>
     \/ /\ Copier.read = "again" => HasLeaf(old)
        /\ \E new \in {0} \cup NewLeaf, x \in Copied("leaf", old, Copier.leaf) :
             /\ Refuse(x.n + (IF new = 0 THEN 1 ELSE 0))
             /\ IF new = 0 THEN UNCHANGED <<leaf, origin>>
                ELSE /\ leaf' = [leaf EXCEPT ![new] = job.to]
                     /\ origin' = [origin EXCEPT !.leaf[new] = old]
             /\ extra' = extra \cup Add("leaf", new, x.got)
  /\ Work([job EXCEPT !.leaves = Tail(@)])
  /\ UNCHANGED <<dir, missed>>

-----------------------------------------------------------------------------
(* Deleting: the walk is read once; `ups' only remembers what was in it. *)
BeginDelete(root) ==
  /\ job = NoJob /\ jobs < MaxJobs
  /\ jobs' = jobs + 1
  /\ \E r \in Reads(root) :
       /\ Refuse(r.n)
       /\ missed' = (r.n # 0)
       /\ job' = [op |-> "delete", root |-> root, pc |-> "node", ups |-> Tree(Walk(root)),
                  todo |-> r.walk, leaves |-> << >>, to |-> 0, ok |-> TRUE]
  /\ disturbed' = FALSE
  /\ UNCHANGED <<kind, dir, leaf, extra, changes, origin>>

(* A deleter removes the parameters and attachments of the node and lists its
   leaves, none if the list is refused; no step stops it. *)
CleanNode ==
  /\ AtNode("delete")
  /\ LET d == Head(job.todo).id IN
     \E x \in Removed("dir", d, Deleter.node \ {"content"}), leaves \in {LeavesOf(d), << >>} :
       /\ Refuse(x.n + (IF leaves = LeavesOf(d) THEN 0 ELSE 1))
       /\ missed' = (missed \/ x.missed \/ leaves # LeavesOf(d))
       /\ extra' = extra \ Add("dir", d, x.gone)
       /\ Work([job EXCEPT !.ok = Answer(@, x, "gone"), !.leaves = leaves, !.pc = "row"])
  /\ UNCHANGED <<dir, leaf, origin>>

(* A leaf with its extras. *)
DeleteLeaf ==
  /\ job # NoJob /\ job.op = "delete" /\ job.leaves # << >>
  /\ LET l == Head(job.leaves) IN
     \E x \in Removed("leaf", l, Deleter.leaf), fate \in RowFates(HasLeaf(l)) :
       /\ Refuse(x.n + (IF fate = "gone" THEN 0 ELSE 1))
       /\ missed' = (missed \/ x.missed \/ fate = "spared")
       /\ extra' = extra \ Add("leaf", l, x.gone)
       /\ leaf' = IF fate = "gone" THEN [leaf EXCEPT ![l] = Gone] ELSE leaf
       /\ Work([job EXCEPT !.ok = Answer(@, x, fate), !.leaves = Tail(@)])
  /\ UNCHANGED <<dir, origin>>

(* Finally the content, if the deleter removes it, and the row; a row that is
   not there is deleted with success, too. *)
DeleteNode ==
  /\ job # NoJob /\ job.op = "delete" /\ job.pc = "row" /\ job.leaves = << >>
  /\ LET d == Head(job.todo).id IN
     \E x \in Removed("dir", d, Deleter.node \cap {"content"}), fate \in RowFates(HasDir(d)) :
       /\ Refuse(x.n + (IF fate = "gone" THEN 0 ELSE 1))
       /\ missed' = (missed \/ x.missed \/ fate = "spared")
       /\ extra' = extra \ Add("dir", d, x.gone)
       /\ dir' = IF fate = "gone" /\ HasDir(d) THEN [dir EXCEPT ![d] = Gone] ELSE dir
       /\ Work([job EXCEPT !.ok = Answer(@, x, fate), !.todo = Tail(@), !.pc = "node"])
  /\ UNCHANGED <<leaf, origin>>

Done == job # NoJob /\ job.pc = "node" /\ job.todo = << >> /\ job.leaves = << >>

(* The call returns, or the process dies in the middle of it. *)
EndJob ==
  /\ job # NoJob
  /\ job' = NoJob
  /\ disturbed' = FALSE
  /\ UNCHANGED <<kind, dir, leaf, extra, jobs, changes, refused, missed, origin>>

-----------------------------------------------------------------------------
(* Another client: mgd_create, mgd_move_object, mgd_delete of a row. *)
Change ==
  /\ changes < MaxChanges
  /\ changes' = changes + 1
  /\ disturbed' = (job # NoJob)
  /\ UNCHANGED <<kind, extra, job, jobs, refused, missed, origin>>

Above(d) == {0} \cup {e \in DirId : HasDir(e) /\ e < d}

ChangeDir ==
  /\ Change
  /\ \E d \in DirId :
       \/ d \in NewDir /\ \E u \in Above(d) : dir' = [dir EXCEPT ![d] = u]
       \/ HasDir(d) /\ \E u \in Above(d) \cup {Gone} : dir' = [dir EXCEPT ![d] = u]
  /\ UNCHANGED leaf

ChangeLeaf ==
  /\ Change /\ kind # "article"
  /\ \E l \in LeafId :
       \/ l \in NewLeaf /\ \E d \in DirId : HasDir(d) /\ leaf' = [leaf EXCEPT ![l] = d]
       \/ HasLeaf(l) /\ leaf' = [leaf EXCEPT ![l] = Gone]
  /\ UNCHANGED dir

LegacyNext ==
  \/ \E root \in 1..Dirs : BeginCopy(root) \/ BeginDelete(root)
  \/ StartCopy \/ SkipNode \/ CopyNode \/ CopyLeaf
  \/ CleanNode \/ DeleteLeaf \/ DeleteNode
  \/ EndJob \/ ChangeDir \/ ChangeLeaf

LegacySpec == LegacyInit /\ [][LegacyNext]_legacyVars

-----------------------------------------------------------------------------
CopiesOf(d) == {c \in DirId : origin.dir[c] = d}
LeafCopiesOf(l) == {c \in LeafId : origin.leaf[c] = l}
InTree(d) ==
  LET within[n \in 0..MaxDir] ==
        IF n = 0 THEN {job.root} ELSE within[n - 1] \cup UNION {Children(i) : i \in within[n - 1]}
  IN  d \in within[MaxDir]

(* A copy that was neither disturbed nor refused anything is the same tree
   again: every node below the root has exactly one copy, which hangs below
   the copy of the node above, the root's at the top; and so for the leaves,
   with all the extras (the `ups' array of topic_copier and its kin). *)
CopyIsFaithful ==
  Done /\ job.op = "copy" /\ HasDir(job.root) /\ ~disturbed /\ ~missed /\ refused = 0 =>
    \A d \in DirId :
      IF ~InTree(d) THEN CopiesOf(d) = {}
      ELSE \E c \in DirId :
             /\ CopiesOf(d) = {c}
             /\ Have("dir", c) = Have("dir", d)
             /\ IF d = job.root THEN dir[c] = 0 ELSE origin.dir[dir[c]] = dir[d]
             /\ \A l \in LeafId : leaf[l] = d =>
                  \E m \in LeafId : /\ LeafCopiesOf(l) = {m} /\ leaf[m] = c
                                    /\ Have("leaf", m) = Have("leaf", l)

(* Whatever INSERT is refused, and whatever SELECT of extras and leaves, a copy
   of a tree whose root is there never grows into its source: what it makes
   hangs below its own nodes or at the top.  Not so if another client disturbs
   it or the SELECT of a node is refused, for then `ups' holds an id of the
   source at that level (the copiers of tree.c, which take no row and no answer
   for the same). *)
CopyStaysApart ==
  job # NoJob /\ job.op = "copy" /\ HasDir(job.root) /\ ~disturbed /\ ~missed =>
    \A c \in DirId : origin.dir[c] # 0 => dir[c] = 0 \/ origin.dir[dir[c]] # 0

(* A delete of a tree that answers 1 has removed it all, whatever DELETE or
   unlink was refused: of every node that was in the tree no record, leaf or
   parameter is left, and no attachment but those whose file could not be
   unlinked.  The answer does not tell of a refused SELECT, nor of a row of
   another sitegroup: both are `missed' (the deleters of tree.c, mgd_delete). *)
SuccessIsComplete ==
  Done /\ job.op = "delete" /\ job.ok /\ ~disturbed /\ ~missed =>
    \A k \in 1..(Len(job.ups) - 1) :
      LET d == job.ups[k]
          left == Have("dir", d)
      IN  /\ ~HasDir(d) /\ \A l \in LeafId : leaf[l] # d
          /\ "parameter" \notin left
          /\ "attachment" \in left => "file" \in left

=============================================================================
