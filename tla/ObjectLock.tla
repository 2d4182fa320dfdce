----------------------------- MODULE ObjectLock -----------------------------
(***************************************************************************)
(* Locking and approving an object, and the copy of its metadata every     *)
(* session keeps: src/src/types.c (lock, unlock, approve, unapprove,       *)
(* is_locked, is_approved, update) over src/src/query.c.                   *)
(*                                                                         *)
(* Each handler looks at the flag it has cached, or selects it, and then   *)
(* runs an unconditional UPDATE: the check and the write are two steps,    *)
(* and other sessions run between them.  One record is modelled, objects   *)
(* are independent of each other; a session stands for the person it is    *)
(* logged in as.                                                           *)
(***************************************************************************)
EXTENDS Naturals

CONSTANTS
  Session,
  LoggedIn,      \* sessions with a user; the others are anonymous
  Nobody,        \* the empty locker or approver guid
  Content,       \* what the properties of the object hold
  None,          \* no record, no handle
  Unset,         \* a flag that has not been read
  MaxRevision,   \* bound: revisions counted
  MayFail        \* may the server refuse a statement?

ASSUME LockAssumption ==
  /\ LoggedIn \subseteq Session
  /\ Nobody \notin Session
  /\ MaxRevision \in Nat
  /\ MayFail \in BOOLEAN

VARIABLES
  row,       \* the record
  handle,    \* the instance of the object each session holds
  pc,        \* "idle", or the call whose UPDATE the session runs next
  ret,       \* what the last finished call returned
  stale,     \* history: did another session write since the handle was read,
             \* or was an update of it refused?
  signed     \* history: who approved the object last, and with what content

vars == <<row, handle, pc, ret, stale, signed>>

Person == Session \cup {Nobody}

Record == [content : Content, revision : 0..MaxRevision, locker : Person,
           islocked : BOOLEAN, approver : Person, isapproved : BOOLEAN]

(* lock_is_set and approve_is_set are FALSE as long as a flag is Unset. *)
Copy == [content : Content, revision : 0..MaxRevision, locker : Person,
         islocked : BOOLEAN \cup {Unset}, approver : Person,
         isapproved : BOOLEAN \cup {Unset}]

Call == {"lock", "unlock", "approve", "unapprove"}

ASSUME NoneAssumption == Unset \notin BOOLEAN /\ None \notin Record /\ None \notin Copy

-----------------------------------------------------------------------------
Init ==
  /\ row = None
  /\ handle = [s \in Session |-> None]
  /\ pc = [s \in Session |-> "idle"]
  /\ ret = [s \in Session |-> FALSE]
  /\ stale = [s \in Session |-> FALSE]
  /\ signed = [by |-> Nobody, content |-> None]

Return(s, v) == pc' = [pc EXCEPT ![s] = "idle"] /\ ret' = [ret EXCEPT ![s] = v]

MayCall(s) ==
  /\ pc[s] = "idle"
  /\ handle[s] # None
  /\ handle[s].revision < MaxRevision

(* Session s writes the record, and its own handle as it writes. *)
Write(s, newRow, newHandle) ==
  /\ row' = newRow
  /\ handle' = [handle EXCEPT ![s] = newHandle]
  /\ stale' = [t \in Session |-> IF t = s THEN stale[s] ELSE TRUE]

(* midgard_object_create: whoever creates the object holds an instance whose
   flags are unset. *)
Create(s, c) ==
  /\ row = None
  /\ LET new == [content |-> c, revision |-> 0, locker |-> Nobody, islocked |-> FALSE,
                 approver |-> Nobody, isapproved |-> FALSE] IN
     Write(s, new, [new EXCEPT !.islocked = Unset, !.isapproved = Unset])
  /\ Return(s, TRUE)
  /\ UNCHANGED signed

(* A query, or midgard_object_new with the guid, gives a new instance. *)
Fetch(s) ==
  /\ pc[s] = "idle"
  /\ row # None
  /\ handle' = [handle EXCEPT ![s] = row]
  /\ stale' = [stale EXCEPT ![s] = FALSE]
  /\ UNCHANGED <<row, pc, ret, signed>>

(* midgard_object_update.  The statement carries the locker and the approver
   of the instance, not its islocked flag, and clears isapproved.  The instance
   is brought up to date before the statement is run, and stays so if the
   quota or the server refuses it. *)
UpdatedOnApproval(s, c) ==              \* mutant: an approval survives the update
  [handle[s] EXCEPT !.content = c, !.revision = @ + 1, !.isapproved = row.isapproved]
UpdatedByLocker(s, c) ==                \* mutant: whoever updates becomes the locker
  [handle[s] EXCEPT !.content = c, !.revision = @ + 1, !.locker = s, !.isapproved = FALSE]

Updated(s, c) == [handle[s] EXCEPT !.content = c, !.revision = @ + 1, !.isapproved = FALSE]

UpdateRowOnly(s, c) ==                  \* mutant: the instance is not brought up to date
  /\ MayCall(s)
  /\ Write(s, [Updated(s, c) EXCEPT !.islocked = row.islocked], handle[s])
  /\ Return(s, TRUE)
  /\ UNCHANGED signed

Update(s, c) ==
  /\ MayCall(s)
  /\ Write(s, [Updated(s, c) EXCEPT !.islocked = row.islocked], Updated(s, c))
  /\ Return(s, TRUE)
  /\ UNCHANGED signed

UpdateRefused(s, c) ==
  /\ MayFail
  /\ MayCall(s)
  /\ handle' = [handle EXCEPT ![s] = Updated(s, c)]
  /\ stale' = [stale EXCEPT ![s] = TRUE]
  /\ Return(s, FALSE)
  /\ UNCHANGED <<row, signed>>

-----------------------------------------------------------------------------
(* midgard_object_is_locked and midgard_object_is_approved: the cached flag, or
   else what a SELECT finds; a SELECT that is refused counts as FALSE. *)
ReadFlag(s, field, answer) ==
  \/ /\ handle[s][field] # Unset
     /\ answer = handle[s][field]
     /\ UNCHANGED handle
  \/ /\ handle[s][field] = Unset
     /\ answer = row[field]
     /\ handle' = [handle EXCEPT ![s][field] = answer]
  \/ /\ handle[s][field] = Unset
     /\ MayFail
     /\ answer = FALSE
     /\ UNCHANGED handle

(* The first half of lock, unlock, approve and unapprove: an object that is
   already in the wanted state is refused. *)
Field(call) == IF call \in {"lock", "unlock"} THEN "islocked" ELSE "isapproved"
Wanted(call) == call \in {"lock", "approve"}

CheckUnheeded(s, call) ==               \* mutant: the flag is read and not looked at
  /\ MayCall(s)
  /\ s \in LoggedIn
  /\ \E answer \in BOOLEAN : ReadFlag(s, Field(call), answer)
  /\ pc' = [pc EXCEPT ![s] = call]
  /\ UNCHANGED <<row, ret, stale, signed>>

Check(s, call) ==
  /\ MayCall(s)
  /\ s \in LoggedIn
  /\ \E answer \in BOOLEAN :
       /\ ReadFlag(s, Field(call), answer)
       /\ \/ answer # Wanted(call) /\ pc' = [pc EXCEPT ![s] = call] /\ UNCHANGED ret
          \/ answer = Wanted(call) /\ Return(s, FALSE)
  /\ UNCHANGED <<row, stale, signed>>

(* No user is logged in, or the server refuses the UPDATE. *)
Refused(s) ==
  /\ \/ MayCall(s) /\ s \notin LoggedIn
     \/ MayFail /\ pc[s] # "idle"
  /\ Return(s, FALSE)
  /\ UNCHANGED <<row, handle, stale, signed>>

(* _midgard_core_query_update_object_fields, by guid and sitegroup alone *)
SetLock(s) ==
  /\ pc[s] \in {"lock", "unlock"}
  /\ LET Set(r) == [r EXCEPT !.islocked = (pc[s] = "lock"), !.locker = s,
                             !.revision = handle[s].revision + 1] IN
     Write(s, Set(row), Set(handle[s]))
  /\ Return(s, TRUE)
  /\ UNCHANGED signed

SetApproval(s) ==
  /\ pc[s] \in {"approve", "unapprove"}
  /\ LET Set(r) == [r EXCEPT !.isapproved = (pc[s] = "approve"), !.approver = s,
                             !.revision = handle[s].revision + 1] IN
     Write(s, Set(row), Set(handle[s]))
  /\ signed' = [by |-> s, content |-> row.content]
  /\ Return(s, TRUE)

Next ==
  \E s \in Session :
    \/ \E c \in Content : Create(s, c) \/ Update(s, c) \/ UpdateRefused(s, c)
    \/ Fetch(s)
    \/ \E call \in Call : Check(s, call)
    \/ Refused(s)
    \/ SetLock(s) \/ SetApproval(s)

Spec == Init /\ [][Next]_vars

-----------------------------------------------------------------------------
TypeOK ==
  /\ row \in Record \cup {None}
  /\ handle \in [Session -> Copy \cup {None}]
  /\ pc \in [Session -> Call \cup {"idle"}]
  /\ ret \in [Session -> BOOLEAN]
  /\ stale \in [Session -> BOOLEAN]
  /\ signed \in [by : Person, content : Content \cup {None}]

(* Whatever the sessions do at the same time, an instance differs from the    *)
(* record only when somebody else wrote or an update of it was refused: each  *)
(* handler leaves in memory what it has written, and a flag it has not read   *)
(* stays unset.                                                               *)
FreshHandleAgrees ==
  \A s \in Session : handle[s] # None /\ ~stale[s] =>
    /\ row # None
    /\ handle[s].content = row.content
    /\ handle[s].revision = row.revision
    /\ handle[s].locker = row.locker /\ handle[s].islocked \in {row.islocked, Unset}
    /\ handle[s].approver = row.approver /\ handle[s].isapproved \in {row.isapproved, Unset}

(* An approved record names who approved it and still has the content it had  *)
(* then, although updates with stale instances overwrite the approver: the    *)
(* same statement withdraws the approval.                                     *)
ApprovalIsSigned ==
  row # None /\ row.isapproved => signed = [by |-> row.approver, content |-> row.content]

(* A call that is going to change a flag found the opposite in its instance,  *)
(* or could not read it.                                                      *)
CheckedFirst ==
  \A s \in Session :
    /\ pc[s] \in {"lock", "unlock"} => handle[s].islocked # Wanted(pc[s])
    /\ pc[s] \in {"approve", "unapprove"} => handle[s].isapproved # Wanted(pc[s])

(* The inductive strengthening: a session that is about to write has an       *)
(* instance, there is a record once there is an instance, and the bound       *)
(* leaves room for the revision it is about to write.                         *)
LockInv ==
  /\ TypeOK
  /\ ApprovalIsSigned
  /\ CheckedFirst
  /\ \A s \in Session :
       /\ handle[s] # None => row # None
       /\ pc[s] # "idle" => handle[s] # None /\ handle[s].revision < MaxRevision

(* An object that is locked cannot be locked again (src/src/types.c:4028)     *)
(* unless by a session that acts on an old instance, or was refused the       *)
(* SELECT of the flag; nothing but the check before the UPDATE enforces it.   *)
LockExcludes ==
  [][\A s \in Session :
       /\ pc[s] = "lock" /\ pc'[s] = "idle" /\ ret'[s]
       /\ ~stale[s] /\ handle[s].islocked # Unset
       => ~row.islocked]_vars

(* A session that writes with a current instance loses nothing of what others *)
(* wrote: the revision is increased by one (midgard_metadata.h:135), and who  *)
(* locked or approved the object changes only with a lock or an approval,     *)
(* although every update carries both names from the instance.                *)
Wrote(s) == row # None /\ row' # row /\ handle'[s] # handle[s]

CurrentWriterLosesNothing ==
  [][\A s \in Session : Wrote(s) /\ ~stale[s] =>
       /\ row'.revision = row.revision + 1
       /\ pc[s] \notin {"lock", "unlock"} =>
            row'.locker = row.locker /\ row'.islocked = row.islocked
       /\ pc[s] \notin {"approve", "unapprove"} => row'.approver = row.approver]_vars

=============================================================================
