---------------------------- MODULE ObjectQuota ----------------------------
(***************************************************************************)
(* Quota accounting: src/src/midgard_quota.c, and the calls create, update *)
(* and purge in src/src/types.c make to it.  A sitegroup has a quota       *)
(* record of its own (typename '') and may have one for a type; each holds *)
(* limits and counters.  Limits are checked with SELECTs and counters are  *)
(* moved by later UPDATEs, so what one session counts others do not know   *)
(* yet.  Every action is one statement.                                    *)
(*                                                                         *)
(* The records of one type are modelled, and of each its sitegroup, its    *)
(* real size and the metadata_size the quota goes by.  The older quota of  *)
(* midgard.c is not enabled.                                               *)
(***************************************************************************)
EXTENDS Integers, FiniteSets

CONSTANTS
  Session,
  Sitegroup,
  Root,           \* sessions logged in as SG0 administrator
  SessionSg,      \* SessionSg[s]: sitegroup of the connection of s
  Metered,        \* sitegroups that have a quota record
  TypeMetered,    \* sitegroups that have a quota record for the type
  MaxRecords,     \* limit_sg_records and limit_type_records, 0 for no limit
  MaxSize,        \* limit_sg_size and limit_type_size, 0 for no limit
  Size,           \* sizes of objects
  NoRow, NoJob,
  MaxRow,         \* bound: how many rows are ever inserted
  MaxUpdates,     \* bound: how many updates are made
  MaxRefused      \* bound: how many statements the server refuses

ASSUME QuotaAssumption ==
  /\ Root \subseteq Session
  /\ IsFiniteSet(Session)
  /\ SessionSg \in [Session -> Sitegroup]
  /\ Metered \subseteq Sitegroup
  /\ TypeMetered \subseteq Sitegroup
  /\ MaxRecords \in Nat
  /\ MaxSize \in Nat
  /\ Size \subseteq Nat \ {0}
  /\ MaxRow \in Nat
  /\ MaxUpdates \in Nat
  /\ MaxRefused \in Nat

VARIABLES
  table,        \* the records of the type
  nextId,       \* its AUTO_INCREMENT
  updates,      \* history: updates made
  sgRecords,    \* sg_records of each sitegroup
  typeRecords,  \* type_records of the type in each sitegroup
  sgSize,       \* sg_size
  typeSize,     \* type_size
  pc,           \* the statement each session runs next
  job,          \* what each session is working on
  ret,          \* what the last finished call returned
  refused,      \* history: statements the server refused
  tooHigh,      \* history: sitegroups whose counters count what is not there
  tooLow        \* history: sitegroups whose counters miss what is there

counters == <<sgRecords, typeRecords, sgSize, typeSize>>
drift == <<refused, tooHigh, tooLow>>
vars == <<table, nextId, updates, counters, pc, job, ret, drift>>

RowId == 1..MaxRow
Row == [sg : Sitegroup, content : Size, size : Int]
Job == [sg : Sitegroup, id : 0..MaxRow, size : Int, diff : Int]

ASSUME NoRowAssumption == NoRow \notin Row /\ NoJob \notin Job

Statement == {"idle", "check_sg", "check_type", "check_size", "count_type", "count_sg",
              "insert", "measure", "add_row", "add_type", "add_sg",
              "delete", "uncount_type", "uncount_sg", "drop_type", "drop_sg"}

-----------------------------------------------------------------------------
Goto(s, l) == pc' = [pc EXCEPT ![s] = l]
Return(s, v) == /\ pc' = [pc EXCEPT ![s] = "idle"]
                /\ job' = [job EXCEPT ![s] = NoJob]
                /\ ret' = [ret EXCEPT ![s] = v]

(* "UPDATE quota SET counter = counter + n WHERE ... sitegroup = x" changes a
   record only where there is one. *)
Add(counter, rowsOf, x, n) ==
  [y \in Sitegroup |-> IF y = x /\ x \in rowsOf THEN counter[y] + n ELSE counter[y]]

(* midgard_quota_remove stops at zero. *)
Subtract(counter, rowsOf, x, n) ==
  IF counter[x] > 0 THEN Add(counter, rowsOf, x, -n) ELSE counter

ReachedBefore(used, more, limit) == limit > 0 /\ used > limit           \* mutant
Reached(used, more, limit) == limit > 0 /\ used + more > limit

(* midgard_quota_size_is_reached: the sitegroup's record is the object's, the
   type's record is the connection's; without the first the second is not
   looked at. *)
SizeIsReached(s, x, more) ==
  /\ x \in Metered
  /\ \/ Reached(sgSize[x], more, MaxSize)
     \/ SessionSg[s] \in TypeMetered /\ Reached(typeSize[SessionSg[s]], more, MaxSize)

In(statements) == {s \in Session : pc[s] \in statements}
Creating == {"check_sg", "check_type", "check_size", "count_type", "count_sg", "insert"}

MayWrite(s, x) == s \in Root \/ x = SessionSg[s]

(* Sessions keep instances of objects that others have purged since. *)
Holds(s, i, x) == /\ i < nextId
                  /\ MayWrite(s, x)
                  /\ table[i] # NoRow => x = table[i].sg

StoredSize(i) == IF table[i] = NoRow THEN 0 ELSE table[i].size

(* midgard_query_get_single_row answers NULL when its SELECT is refused, as if
   there were no row. *)
Refuse == refused < MaxRefused /\ refused' = refused + 1

SizeRead(i, n) == \/ n = StoredSize(i) /\ UNCHANGED refused
                  \/ n = 0 /\ Refuse

-----------------------------------------------------------------------------
Init ==
  /\ table = [i \in RowId |-> NoRow]
  /\ nextId = 1
  /\ updates = 0
  /\ sgRecords = [x \in Sitegroup |-> 0]
  /\ typeRecords = [x \in Sitegroup |-> 0]
  /\ sgSize = [x \in Sitegroup |-> 0]
  /\ typeSize = [x \in Sitegroup |-> 0]
  /\ pc = [s \in Session |-> "idle"]
  /\ job = [s \in Session |-> NoJob]
  /\ ret = [s \in Session |-> FALSE]
  /\ refused = 0 /\ tooHigh = {} /\ tooLow = {}

(* _midgard_object_create, up to midgard_quota_create *)
Create(s, x, n) ==
  /\ pc[s] = "idle"
  /\ MayWrite(s, x)
  /\ nextId + Cardinality(In(Creating)) <= MaxRow
  /\ job' = [job EXCEPT ![s] = [sg |-> x, id |-> 0, size |-> n, diff |-> 0]]
  /\ Goto(s, "check_sg")
  /\ UNCHANGED <<table, nextId, updates, counters, ret, drift>>

(* midgard_quota_create: without a quota record there is no limit, and
   nothing is counted. *)
CheckSg(s) ==
  /\ pc[s] = "check_sg"
  /\ LET x == job[s].sg IN
     \/ x \notin Metered /\ Goto(s, "insert") /\ UNCHANGED <<job, ret>>
     \/ x \in Metered /\ Reached(sgRecords[x], 1, MaxRecords) /\ Return(s, FALSE)
     \/ /\ x \in Metered /\ ~Reached(sgRecords[x], 1, MaxRecords)
        /\ Goto(s, "check_type")
        /\ UNCHANGED <<job, ret>>
  /\ UNCHANGED <<table, nextId, updates, counters, drift>>

CheckType(s) ==
  /\ pc[s] = "check_type"
  /\ LET x == job[s].sg IN
     \/ x \notin TypeMetered /\ Goto(s, "insert") /\ UNCHANGED <<job, ret>>
     \/ x \in TypeMetered /\ Reached(typeRecords[x], 1, MaxRecords) /\ Return(s, FALSE)
     \/ /\ x \in TypeMetered /\ ~Reached(typeRecords[x], 1, MaxRecords)
        /\ Goto(s, "check_size")
        /\ UNCHANGED <<job, ret>>
  /\ UNCHANGED <<table, nextId, updates, counters, drift>>

CheckSize(s) ==
  /\ pc[s] = "check_size"
  /\ IF SizeIsReached(s, job[s].sg, job[s].size)
     THEN Return(s, FALSE)
     ELSE Goto(s, "count_type") /\ UNCHANGED <<job, ret>>
  /\ UNCHANGED <<table, nextId, updates, counters, drift>>

CountType(s) ==
  /\ pc[s] = "count_type"
  /\ typeRecords' = Add(typeRecords, TypeMetered, job[s].sg, 1)
  /\ Goto(s, "count_sg")
  /\ UNCHANGED <<table, nextId, updates, sgRecords, sgSize, typeSize, job, ret, drift>>

CountSg(s) ==
  /\ pc[s] = "count_sg"
  /\ sgRecords' = Add(sgRecords, Metered, job[s].sg, 1)
  /\ Goto(s, "insert")
  /\ UNCHANGED <<table, nextId, updates, typeRecords, sgSize, typeSize, job, ret, drift>>

(* The INSERT sets metadata_size already. *)
Insert(s) ==
  /\ pc[s] = "insert"
  /\ table' = [table EXCEPT ![nextId] =
       [sg |-> job[s].sg, content |-> job[s].size, size |-> job[s].size]]
  /\ nextId' = nextId + 1
  /\ job' = [job EXCEPT ![s].id = nextId]
  /\ Goto(s, "measure")
  /\ UNCHANGED <<updates, counters, ret, drift>>

-----------------------------------------------------------------------------
(* _midgard_object_update.  The whole size is checked, not its growth.  The
   UPDATE itself may be refused. *)
Update(s, i, x, n) ==
  /\ pc[s] = "idle"
  /\ updates < MaxUpdates
  /\ Holds(s, i, x)
  /\ updates' = updates + 1
  /\ \/ /\ (SizeIsReached(s, x, n) /\ UNCHANGED refused) \/ Refuse
        /\ Return(s, FALSE)
        /\ UNCHANGED table
     \/ /\ (~SizeIsReached(s, x, n) /\ UNCHANGED refused) \/ Refuse
        /\ table' = IF table[i] = NoRow THEN table ELSE [table EXCEPT ![i].content = n]
        /\ job' = [job EXCEPT ![s] = [sg |-> x, id |-> i, size |-> n, diff |-> 0]]
        /\ Goto(s, "measure")
        /\ UNCHANGED ret
  /\ UNCHANGED <<nextId, counters, tooHigh, tooLow>>

(* midgard_quota_update compares the size of the object with metadata_size of
   its row (0 when there is none); create and update ignore its answer. *)
Measure(s) ==
  /\ pc[s] = "measure"
  /\ LET diff == job[s].size - StoredSize(job[s].id) IN
     \/ /\ SizeIsReached(s, job[s].sg, diff) \/ diff = 0
        /\ Return(s, TRUE)
     \/ /\ ~SizeIsReached(s, job[s].sg, diff) /\ diff # 0
        /\ job' = [job EXCEPT ![s].diff = diff]
        /\ Goto(s, "add_row")
        /\ UNCHANGED ret
  /\ UNCHANGED <<table, nextId, updates, counters, drift>>

AddRow(s) ==
  /\ pc[s] = "add_row"
  /\ table' = [i \in RowId |-> IF i = job[s].id /\ table[i] # NoRow
                               THEN [table[i] EXCEPT !.size = @ + job[s].diff]
                               ELSE table[i]]
  /\ Goto(s, "add_type")
  /\ UNCHANGED <<nextId, updates, counters, job, ret, drift>>

AddType(s) ==
  /\ pc[s] = "add_type"
  /\ typeSize' = Add(typeSize, TypeMetered, job[s].sg, job[s].diff)
  /\ Goto(s, "add_sg")
  /\ UNCHANGED <<table, nextId, updates, sgRecords, typeRecords, sgSize, job, ret, drift>>

AddSg(s) ==
  /\ pc[s] = "add_sg"
  /\ sgSize' = Add(sgSize, Metered, job[s].sg, job[s].diff)
  /\ Return(s, TRUE)
  /\ UNCHANGED <<table, nextId, updates, sgRecords, typeRecords, typeSize, drift>>

-----------------------------------------------------------------------------
(* midgard_object_purge: the size is read before the DELETE, and the counters
   of the connection's own sitegroup are moved after it. *)
Purge(s, i, x) ==
  /\ pc[s] = "idle"
  /\ Holds(s, i, x)
  /\ \E n \in {0, StoredSize(i)} :
       /\ SizeRead(i, n)
       /\ job' = [job EXCEPT ![s] = [sg |-> x, id |-> i, size |-> n, diff |-> 0]]
  /\ Goto(s, "delete")
  /\ UNCHANGED <<table, nextId, updates, counters, ret, tooHigh, tooLow>>

Misbook(s) ==
  LET x == job[s].sg
      y == SessionSg[s]
  IN  /\ tooHigh' = tooHigh \cup ({x} \ {y})
      /\ tooLow' = tooLow \cup ({y} \ {x})
      /\ UNCHANGED refused

DeleteUncounted(s) ==                   \* mutant: the number of deleted rows is not looked at
  /\ pc[s] = "delete"
  /\ table' = [table EXCEPT ![job[s].id] = NoRow]
  /\ Goto(s, "uncount_type")
  /\ Misbook(s)
  /\ UNCHANGED <<nextId, updates, counters, job, ret>>

Delete(s) ==
  /\ pc[s] = "delete"
  /\ \/ /\ table[job[s].id] = NoRow
        /\ Return(s, FALSE)
        /\ UNCHANGED <<table, drift>>
     \/ /\ table[job[s].id] # NoRow
        /\ table' = [table EXCEPT ![job[s].id] = NoRow]
        /\ Goto(s, "uncount_type")
        /\ Misbook(s)
        /\ UNCHANGED <<job, ret>>
  /\ UNCHANGED <<nextId, updates, counters>>

UncountType(s) ==
  /\ pc[s] = "uncount_type"
  /\ typeRecords' = Subtract(typeRecords, TypeMetered, SessionSg[s], 1)
  /\ Goto(s, "uncount_sg")
  /\ UNCHANGED <<table, nextId, updates, sgRecords, sgSize, typeSize, job, ret, drift>>

UncountSg(s) ==
  /\ pc[s] = "uncount_sg"
  /\ sgRecords' = Subtract(sgRecords, Metered, SessionSg[s], 1)
  /\ Goto(s, "drop_type")
  /\ UNCHANGED <<table, nextId, updates, typeRecords, sgSize, typeSize, job, ret, drift>>

DropType(s) ==
  /\ pc[s] = "drop_type"
  /\ typeSize' = Subtract(typeSize, TypeMetered, SessionSg[s], job[s].size)
  /\ Goto(s, "drop_sg")
  /\ UNCHANGED <<table, nextId, updates, sgRecords, typeRecords, sgSize, job, ret, drift>>

DropSg(s) ==
  /\ pc[s] = "drop_sg"
  /\ sgSize' = Subtract(sgSize, Metered, SessionSg[s], job[s].size)
  /\ Return(s, TRUE)
  /\ UNCHANGED <<table, nextId, updates, sgRecords, typeRecords, typeSize, drift>>

(* The server refuses the statement a session is at, and only the INSERT of
   the object stops for it.  A limit that could not be read is none, and then
   nothing is counted; a counter that could not be moved is left as it is; a
   DELETE with -1 affected rows passes for one that deleted the row, and the
   connection's sitegroup pays for it.  A size that could not be read is 0. *)
AfterRefusal ==
  [measure |-> "add_row", check_sg |-> "insert", check_type |-> "insert", check_size |-> "count_type",
   count_type |-> "count_sg", count_sg |-> "insert",
   add_row |-> "add_type", add_type |-> "add_sg", delete |-> "uncount_type",
   uncount_type |-> "uncount_sg", uncount_sg |-> "drop_type", drop_type |-> "drop_sg"]

Refused(s) ==
  /\ Refuse
  /\ \/ /\ pc[s] \in {"check_sg", "check_type", "count_type", "count_sg"}
        /\ Goto(s, AfterRefusal[pc[s]])
        /\ tooLow' = tooLow \cup {job[s].sg}
        /\ UNCHANGED <<job, ret, tooHigh>>
     \/ /\ pc[s] = "insert"
        /\ Return(s, FALSE)
        /\ tooHigh' = tooHigh \cup {job[s].sg}
        /\ UNCHANGED tooLow
     \/ /\ pc[s] = "delete"
        /\ Goto(s, AfterRefusal[pc[s]])
        /\ job' = [job EXCEPT ![s].sg = SessionSg[s]]
        /\ tooLow' = tooLow \cup {SessionSg[s]}
        /\ UNCHANGED <<ret, tooHigh>>
     \/ /\ pc[s] \in {"uncount_type", "uncount_sg"}
        /\ Goto(s, AfterRefusal[pc[s]])
        /\ tooHigh' = tooHigh \cup {SessionSg[s]}
        /\ UNCHANGED <<job, ret, tooLow>>
     \/ /\ pc[s] \in {"check_size", "add_row", "add_type", "drop_type"}
        /\ Goto(s, AfterRefusal[pc[s]])
        /\ UNCHANGED <<job, ret, tooHigh, tooLow>>
     \/ /\ pc[s] = "measure"
        /\ \E n \in {0, StoredSize(job[s].id)} \ {job[s].size} :
             job' = [job EXCEPT ![s].diff = job[s].size - n]
        /\ Goto(s, AfterRefusal[pc[s]])
        /\ UNCHANGED <<ret, tooHigh, tooLow>>
     \/ /\ pc[s] \in {"add_sg", "drop_sg"}
        /\ Return(s, TRUE)
        /\ UNCHANGED <<tooHigh, tooLow>>
  /\ UNCHANGED <<table, nextId, updates, counters>>

Next ==
  \E s \in Session :
    \/ \E x \in Sitegroup, n \in Size : Create(s, x, n)
    \/ CheckSg(s) \/ CheckType(s) \/ CheckSize(s) \/ CountType(s) \/ CountSg(s)
    \/ Insert(s)
    \/ \E i \in RowId, x \in Sitegroup :
         Purge(s, i, x) \/ \E n \in Size : Update(s, i, x, n)
    \/ Measure(s) \/ AddRow(s) \/ AddType(s) \/ AddSg(s)
    \/ Delete(s) \/ UncountType(s) \/ UncountSg(s) \/ DropType(s) \/ DropSg(s)
    \/ Refused(s)

Spec == Init /\ [][Next]_vars

-----------------------------------------------------------------------------
AtRest == In({"idle"}) = Session

RowsOf(x) == {i \in RowId : table[i] # NoRow /\ table[i].sg = x}
Busy(statements, x) == {s \in In(statements) : job[s].sg = x}
Counted == Metered \cap TypeMetered

(* MgdObjects.xml:580: sg_records is the number of records of the sitegroup,  *)
(* and type_records that of the type: a counter differs from what the table   *)
(* holds only by the objects that sessions are just creating or purging, so   *)
(* that no order of the statements of several sessions makes them drift.      *)
(* What does is a refused statement (the INSERT after the object was counted, *)
(* the reading of a limit, the moving of a counter, and a DELETE, which is    *)
(* taken for done), and an administrator's purge, which goes to the counters  *)
(* of his sitegroup.                                                          *)
RecordsCounted ==
  \A x \in Counted \ (tooHigh \cup tooLow) :
    /\ sgRecords[x] = Cardinality(RowsOf(x))
         + Cardinality(Busy({"insert", "uncount_type", "uncount_sg"}, x))
    /\ typeRecords[x] = Cardinality(RowsOf(x))
         + Cardinality(Busy({"count_sg", "insert", "uncount_type"}, x))

(* The check and the count are statements of their own: every other session   *)
(* may slip in between, but no more than one object each.  An administrator   *)
(* of the sitegroup who purges objects of others, and a refused statement     *)
(* that leaves a counter behind what there is, void the limit altogether.     *)
OvershootBounded ==
  MaxRecords > 0 => \A x \in Counted \ tooLow :
    Cardinality(RowsOf(x)) < MaxRecords + Cardinality(Session)

=============================================================================
