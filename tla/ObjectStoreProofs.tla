------------------------- MODULE ObjectStoreProofs -------------------------
(***************************************************************************)
(* What ObjectStore guarantees for every set of sessions, guids and        *)
(* sitegroups, every bound on the records, and any mix of crashes and      *)
(* refused statements unless a theorem says otherwise.                     *)
(***************************************************************************)
EXTENDS ObjectStore, FiniteSetTheorems, TLAPS

USE StoreAssumption, NoRowAssumption, NoEntryAssumption

(* An UPDATE of a record changes neither its guid nor its sitegroup. *)
LEMMA TouchedRow ==
  ASSUME NEW w \in Row, NEW t \in Session
  PROVE  /\ [w EXCEPT !.revisor = t] \in Row
         /\ [w EXCEPT !.revisor = t].guid = w.guid
         /\ [w EXCEPT !.revisor = t].sg = w.sg
         /\ [w EXCEPT !.deleted = TRUE, !.revisor = t] \in Row
         /\ [w EXCEPT !.deleted = TRUE, !.revisor = t].guid = w.guid
         /\ [w EXCEPT !.deleted = TRUE, !.revisor = t].sg = w.sg
         /\ [w EXCEPT !.deleted = FALSE] \in Row
         /\ [w EXCEPT !.deleted = FALSE].guid = w.guid
         /\ [w EXCEPT !.deleted = FALSE].sg = w.sg
PROOF
  BY DEF Row

(* The actions that leave the object table alone. *)
Quiet(s) ==
  \/ NewObject(s)
  \/ \E g \in Guid : Fetch(s, g) \/ SetGuid(s, g) \/ Undelete(s, g)
  \/ SetGuidFetch(s)
  \/ CreateRefused(s) \/ CreateInvalid(s) \/ CreateFails(s) \/ CreateEntry(s)
  \/ ExportRow(s) \/ UpdateEntry(s) \/ DeleteEntry(s) \/ PurgeEntry(s)
  \/ CallRefused(s) \/ UndeleteEntry(s) \/ Crash(s)

LEMMA QuietType ==
  ASSUME TypeOK, NEW s \in Session, Quiet(s)
  PROVE  TypeOK'
PROOF
<1>1. CASE NewObject(s)
  BY <1>1 DEF NewObject, Return, TypeOK, Handle, Statement
<1>2. ASSUME NEW g \in Guid, Fetch(s, g) PROVE TypeOK'
  <2>1. obj' \in [Session -> Handle]
    <3>1. CASE UNCHANGED obj
      BY <3>1 DEF TypeOK
    <3>2. ASSUME NEW i \in RowId, Live(i),
                 obj' = [obj EXCEPT ![s] = [guid |-> g, sg |-> rows[i].sg]]
          PROVE  obj' \in [Session -> Handle]
      <4>1. rows[i] \in Row
        BY <3>2 DEF TypeOK, Live
      <4> QED
        BY <3>2, <4>1 DEF TypeOK, Row, Handle
    <3> QED
      BY <1>2, <3>1, <3>2 DEF Fetch
  <2>2. /\ pc' \in [Session -> Statement]
        /\ arg' \in [Session -> Guid \cup {NoGuid}]
        /\ ret' \in [Session -> BOOLEAN]
    BY <1>2 DEF Fetch, Return, TypeOK, Statement
  <2> QED
    BY <1>2, <2>1, <2>2 DEF Fetch, TypeOK
<1>3. ASSUME NEW g \in Guid, SetGuid(s, g) PROVE TypeOK'
  <2>1. obj' \in [Session -> Handle]
    <3>1. UNCHANGED obj \/ obj' = [obj EXCEPT ![s].guid = g]
      BY <1>3 DEF SetGuid
    <3>2. obj[s] \in Handle
      BY DEF TypeOK
    <3>3. [obj[s] EXCEPT !.guid = g] \in Handle
      BY <3>2 DEF Handle
    <3> QED
      BY <3>1, <3>3 DEF TypeOK
  <2>2. \/ Return(s, FALSE) \/ Return(s, TRUE)
        \/ /\ Goto(s, "set_guid_fetch")
           /\ arg' = [arg EXCEPT ![s] = g]
           /\ UNCHANGED ret
    BY <1>3 DEF SetGuid
  <2>3. /\ pc' \in [Session -> Statement]
        /\ arg' \in [Session -> Guid \cup {NoGuid}]
        /\ ret' \in [Session -> BOOLEAN]
    BY <2>2 DEF Return, Goto, TypeOK, Statement
  <2> QED
    BY <1>3, <2>1, <2>3 DEF SetGuid, TypeOK
<1>4. ASSUME NEW g \in Guid, Undelete(s, g) PROVE TypeOK'
  <2>1. \/ Return(s, FALSE)
        \/ /\ Goto(s, "undelete_row")
           /\ arg' = [arg EXCEPT ![s] = g]
           /\ UNCHANGED ret
    BY <1>4 DEF Undelete
  <2>2. /\ pc' \in [Session -> Statement]
        /\ arg' \in [Session -> Guid \cup {NoGuid}]
        /\ ret' \in [Session -> BOOLEAN]
    BY <2>1 DEF Return, Goto, TypeOK, Statement
  <2> QED
    BY <1>4, <2>2 DEF Undelete, TypeOK
<1>5. CASE SetGuidFetch(s)
  BY <1>5 DEF SetGuidFetch, Return, TypeOK, Handle, Statement
<1>6. CASE CreateRefused(s)
  BY <1>6 DEF CreateRefused, Return, TypeOK, Statement
<1>7. CASE CreateInvalid(s)
  BY <1>7 DEF CreateInvalid, Return, TypeOK, Handle, Statement
<1>8. CASE CreateFails(s)
  BY <1>8 DEF CreateFails, Refused, Return, TypeOK, Statement
<1>9. CASE CreateEntry(s)
  BY <1>9 DEF CreateEntry, Refused, Return, TypeOK, Statement, ObjectAction
<1>10. CASE ExportRow(s)
  BY <1>10 DEF ExportRow, Goto, TypeOK, Statement
<1>11. CASE UpdateEntry(s)
  BY <1>11 DEF UpdateEntry, Refused, MarkEntry, Return, TypeOK, Statement, ObjectAction
<1>12. CASE DeleteEntry(s)
  BY <1>12 DEF DeleteEntry, Refused, MarkEntry, Return, TypeOK, Statement, ObjectAction
<1>13. CASE PurgeEntry(s)
  BY <1>13 DEF PurgeEntry, Refused, MarkEntry, Return, TypeOK, Statement, ObjectAction
<1>14. CASE CallRefused(s)
  BY <1>14 DEF CallRefused, Refused, Return, TypeOK, Statement
<1>15. CASE UndeleteEntry(s)
  BY <1>15 DEF UndeleteEntry, Refused, MarkEntry, Return, TypeOK, Statement, ObjectAction
<1>16. CASE Crash(s)
  BY <1>16 DEF Crash, EmptyHandle, Return, TypeOK, Handle, Statement
<1> QED
  BY <1>1, <1>2, <1>3, <1>4, <1>5, <1>6, <1>7, <1>8, <1>9, <1>10, <1>11,
     <1>12, <1>13, <1>14, <1>15, <1>16 DEF Quiet

LEMMA RowType ==
  ASSUME TypeOK, NEW s \in Session,
         \/ CreateInsert(s) \/ UpdateRow(s) \/ DeleteRow(s)
         \/ PurgeRow(s) \/ UndeleteRow(s)
  PROVE  TypeOK'
PROOF
<1>1. CASE CreateInsert(s)
  BY <1>1 DEF CreateInsert, Goto, TypeOK, Handle, Statement, RowId, Row
<1>2. CASE UpdateRow(s)
  <2>1. ASSUME NEW i \in RowId, i \in Matches(obj[s].guid, obj[s].sg)
        PROVE  [rows[i] EXCEPT !.revisor = s] \in Row
    <3>1. rows[i] \in Row
      BY <2>1 DEF TypeOK, Matches
    <3> QED
      BY <3>1, TouchedRow
  <2> QED
    BY <1>2, <2>1 DEF UpdateRow, Goto, TypeOK, Statement
<1>3. CASE DeleteRow(s)
  <2>1. ASSUME NEW i \in RowId, i \in Matches(obj[s].guid, obj[s].sg)
        PROVE  [rows[i] EXCEPT !.deleted = TRUE, !.revisor = s] \in Row
    <3>1. rows[i] \in Row
      BY <2>1 DEF TypeOK, Matches
    <3> QED
      BY <3>1, TouchedRow
  <2> QED
    BY <1>3, <2>1 DEF DeleteRow, Goto, TypeOK, Statement
<1>4. CASE PurgeRow(s)
  BY <1>4 DEF PurgeRow, Refused, Goto, Return, TypeOK, Statement
<1>5. CASE UndeleteRow(s)
  <2>1. ASSUME NEW i \in RowId, rows[i] # NoRow
        PROVE  [rows[i] EXCEPT !.deleted = FALSE] \in Row
    <3>1. rows[i] \in Row
      BY <2>1 DEF TypeOK
    <3> QED
      BY <3>1, TouchedRow
  <2>2. rows' \in [RowId -> Row \cup {NoRow}]
    BY <1>5, <2>1 DEF UndeleteRow, TypeOK
  <2> QED
    BY <1>5, <2>2 DEF UndeleteRow, Refused, Goto, Return, TypeOK, Statement
<1> QED
  BY <1>1, <1>2, <1>3, <1>4, <1>5

LEMMA TypeInit == Init => TypeOK
PROOF
  BY DEF Init, TypeOK, EmptyHandle, Handle, Statement

LEMMA TypeStep == TypeOK /\ [Next]_vars => TypeOK'
PROOF
<1> SUFFICES ASSUME TypeOK, [Next]_vars PROVE TypeOK'
  OBVIOUS
<1>1. ASSUME NEW s \in Session, Quiet(s) PROVE TypeOK'
  BY <1>1, QuietType
<1>2. ASSUME NEW s \in Session,
             \/ CreateInsert(s) \/ UpdateRow(s) \/ DeleteRow(s)
             \/ PurgeRow(s) \/ UndeleteRow(s)
      PROVE  TypeOK'
  BY <1>2, RowType
<1>3. CASE UNCHANGED vars
  BY <1>3 DEF vars, TypeOK
<1> QED
  BY <1>1, <1>2, <1>3 DEF Next, Quiet

(* Type correctness: in particular a handle always keeps a sitegroup, and     *)
(* the AUTO_INCREMENT never runs past the bound on the records.               *)
THEOREM TypeCorrect == Spec => []TypeOK
PROOF
  BY TypeInit, TypeStep, PTL DEF Spec

-----------------------------------------------------------------------------
(* Uniqueness of records. *)

NoNewRecord ==
  /\ \A i \in RowId : rows'[i] # NoRow =>
       rows[i] # NoRow /\ rows'[i].guid = rows[i].guid /\ rows'[i].sg = rows[i].sg
  /\ stored' = stored
  /\ nextId' = nextId

(* Only create adds a record; the others change it in place or remove it. *)
LEMMA OnlyCreateAdds ==
  ASSUME TypeOK, NEW s \in Session,
         Quiet(s) \/ UpdateRow(s) \/ DeleteRow(s) \/ PurgeRow(s) \/ UndeleteRow(s)
  PROVE  NoNewRecord
PROOF
<1>1. CASE Quiet(s)
  BY <1>1 DEF NoNewRecord, Quiet, NewObject, Fetch, SetGuid, Undelete, SetGuidFetch,
     CreateRefused, CreateInvalid, CreateFails, CreateEntry, ExportRow, UpdateEntry,
     DeleteEntry, PurgeEntry, CallRefused, UndeleteEntry, Crash
<1>2. ASSUME NEW i \in RowId, rows[i] # NoRow PROVE rows[i] \in Row
  BY <1>2 DEF TypeOK
<1>3. CASE UpdateRow(s)
  <2>1. ASSUME NEW i \in RowId, rows'[i] # NoRow
        PROVE  rows[i] # NoRow /\ rows'[i].guid = rows[i].guid /\ rows'[i].sg = rows[i].sg
    <3>1. CASE i \in Matches(obj[s].guid, obj[s].sg)
      BY <1>2, <1>3, <3>1, TouchedRow DEF UpdateRow, Matches
    <3>2. CASE i \notin Matches(obj[s].guid, obj[s].sg)
      BY <1>3, <2>1, <3>2 DEF UpdateRow
    <3> QED
      BY <3>1, <3>2
  <2> QED
    BY <1>3, <2>1 DEF UpdateRow, NoNewRecord
<1>4. CASE DeleteRow(s)
  <2>1. ASSUME NEW i \in RowId, rows'[i] # NoRow
        PROVE  rows[i] # NoRow /\ rows'[i].guid = rows[i].guid /\ rows'[i].sg = rows[i].sg
    <3>1. CASE i \in Matches(obj[s].guid, obj[s].sg)
      BY <1>2, <1>4, <3>1, TouchedRow DEF DeleteRow, Matches
    <3>2. CASE i \notin Matches(obj[s].guid, obj[s].sg)
      BY <1>4, <2>1, <3>2 DEF DeleteRow
    <3> QED
      BY <3>1, <3>2
  <2> QED
    BY <1>4, <2>1 DEF DeleteRow, NoNewRecord
<1>5. CASE PurgeRow(s)
  BY <1>5 DEF PurgeRow, NoNewRecord
<1>6. CASE UndeleteRow(s)
  <2>1. ASSUME NEW i \in RowId, rows'[i] # NoRow
        PROVE  rows[i] # NoRow /\ rows'[i].guid = rows[i].guid /\ rows'[i].sg = rows[i].sg
    <3>1. CASE rows'[i] = rows[i]
      BY <2>1, <3>1
    <3>2. CASE rows[i] # NoRow /\ rows'[i] = [rows[i] EXCEPT !.deleted = FALSE]
      BY <1>2, <3>2, TouchedRow
    <3> QED
      BY <1>6, <3>1, <3>2 DEF UndeleteRow
  <2> QED
    BY <1>6, <2>1 DEF UndeleteRow, NoNewRecord
<1> QED
  BY <1>1, <1>3, <1>4, <1>5, <1>6

LEMMA StoreInvStep == StoreInv /\ [Next]_vars => StoreInv'
PROOF
<1> SUFFICES ASSUME StoreInv, [Next]_vars PROVE StoreInv'
  OBVIOUS
<1>1. TypeOK'
  BY TypeStep DEF StoreInv
<1>2. CASE NoNewRecord
  <2>1. UniqueGuid'
    BY <1>2 DEF StoreInv, UniqueGuid, RecordsOf, NoNewRecord
  <2>2. (\A i \in RowId : rows[i] # NoRow => rows[i].guid \in stored /\ i < nextId)'
    BY <1>2 DEF StoreInv, NoNewRecord
  <2> QED
    BY <1>1, <2>1, <2>2 DEF StoreInv
<1>3. ASSUME NEW s \in Session, CreateInsert(s) PROVE StoreInv'
  <2>1. PICK g \in Guid :
          /\ Fresh(g)
          /\ rows' = [rows EXCEPT ![nextId] =
               [guid |-> g, sg |-> obj[s].sg, deleted |-> FALSE, revisor |-> s]]
          /\ stored' = stored \cup {g}
    BY <1>3 DEF CreateInsert
  <2>2. nextId \in RowId /\ nextId' = nextId + 1
    BY <1>3 DEF CreateInsert, StoreInv, TypeOK, RowId
  <2>3. /\ rows'[nextId].guid = g
        /\ \A i \in RowId : i # nextId => rows'[i] = rows[i]
    BY <2>1, <2>2 DEF StoreInv, TypeOK
  <2>4. (\A i \in RowId : rows[i] # NoRow => rows[i].guid \in stored /\ i < nextId)'
    BY <2>1, <2>2, <2>3 DEF StoreInv, RowId
  <2>5. g \notin stored
    BY <2>1 DEF Fresh
  <2>6. UniqueGuid'
    <3> SUFFICES ASSUME NEW i \in RowId, NEW j \in RowId,
                        rows'[i] # NoRow, rows'[j] # NoRow, rows'[i].guid = rows'[j].guid
                 PROVE  i = j
      BY DEF UniqueGuid, RecordsOf
    <3>1. CASE i # nextId /\ j # nextId
      <4>1. rows[i].guid \in Guid
        BY <2>3, <3>1 DEF StoreInv, TypeOK, Row
      <4> QED
        BY <2>3, <3>1, <4>1 DEF StoreInv, UniqueGuid, RecordsOf
    <3>2. CASE i = nextId \/ j = nextId
      BY <2>3, <2>5, <3>2 DEF StoreInv
    <3> QED
      BY <3>1, <3>2
  <2> QED
    BY <1>1, <2>4, <2>6 DEF StoreInv
<1>4. ASSUME NEW s \in Session,
             Quiet(s) \/ UpdateRow(s) \/ DeleteRow(s) \/ PurgeRow(s) \/ UndeleteRow(s)
      PROVE  StoreInv'
  BY <1>2, <1>4, OnlyCreateAdds DEF StoreInv
<1>5. CASE UNCHANGED vars
  BY <1>2, <1>5 DEF vars, NoNewRecord
<1> QED
  BY <1>3, <1>4, <1>5 DEF Next, Quiet

LEMMA StoreInvInit == Init => StoreInv
PROOF
  BY TypeInit DEF Init, StoreInv, UniqueGuid, RecordsOf, RowId

THEOREM StoreInvariant == Spec => []StoreInv
PROOF
  BY StoreInvInit, StoreInvStep, PTL DEF Spec

-----------------------------------------------------------------------------
(* Tombstones. *)

TombstonesKnown ==
  "refusal" \notin faults =>
  \A g \in Guid, x \in Sitegroup : entry[<<g, x>>] = "purge" => g \in stored

PurgersSawItGo ==
  "refusal" \notin faults =>
  \A s \in Session : pc[s] = "purge_entry" =>
    obj[s].guid \in stored /\ Matches(obj[s].guid, obj[s].sg) = {}

LEMMA PurgeInvParts ==
  PurgeInv <=> StoreInv /\ TombstoneHasNoRow /\ TombstonesKnown /\ PurgersSawItGo
PROOF
  BY DEF PurgeInv, TombstonesKnown, PurgersSawItGo

(* No step adds to what a guid already stored matches. *)
LEMMA MatchesShrink ==
  ASSUME StoreInv, [Next]_vars, NEW g \in stored, NEW x \in Sitegroup
  PROVE  Matches(g, x)' \subseteq Matches(g, x) /\ g \in stored'
PROOF
<1>1. CASE NoNewRecord
  BY <1>1 DEF NoNewRecord, Matches
<1>2. ASSUME NEW s \in Session, CreateInsert(s) PROVE Matches(g, x)' \subseteq Matches(g, x) /\ g \in stored'
  <2>1. PICK h \in Guid :
          /\ Fresh(h)
          /\ rows' = [rows EXCEPT ![nextId] =
               [guid |-> h, sg |-> obj[s].sg, deleted |-> FALSE, revisor |-> s]]
          /\ stored' = stored \cup {h}
    BY <1>2 DEF CreateInsert
  <2>2. h # g
    BY <2>1 DEF Fresh
  <2>3. \A i \in RowId : rows'[i] = rows[i] \/ rows'[i].guid = h
    BY <2>1 DEF StoreInv, TypeOK
  <2> QED
    BY <2>1, <2>2, <2>3 DEF Matches
<1>3. ASSUME NEW s \in Session,
             Quiet(s) \/ UpdateRow(s) \/ DeleteRow(s) \/ PurgeRow(s) \/ UndeleteRow(s)
      PROVE  NoNewRecord
  BY <1>3, OnlyCreateAdds DEF StoreInv
<1>4. CASE UNCHANGED vars
  BY <1>4 DEF vars, Matches
<1> QED
  BY <1>1, <1>2, <1>3, <1>4 DEF Next, Quiet

(* Only midgard_object_purge writes a tombstone, and only for what it purged. *)
LEMMA NewTombstone ==
  ASSUME TypeOK, [Next]_vars, NEW g \in Guid, NEW x \in Sitegroup,
         entry'[<<g, x>>] = "purge", entry[<<g, x>>] # "purge"
  PROVE  \E s \in Session : pc[s] = "purge_entry" /\ obj[s].guid = g /\ obj[s].sg = x
PROOF
<1>1. ASSUME NEW s \in Session, PurgeEntry(s)
      PROVE  pc[s] = "purge_entry" /\ obj[s].guid = g /\ obj[s].sg = x
  BY <1>1 DEF PurgeEntry, Refused, MarkEntry, TypeOK
<1>2. ASSUME NEW s \in Session, CreateEntry(s) PROVE FALSE
  BY <1>2 DEF CreateEntry, Refused, TypeOK
<1>3. ASSUME NEW s \in Session, UpdateEntry(s) PROVE FALSE
  BY <1>3 DEF UpdateEntry, Refused, MarkEntry, TypeOK
<1>4. ASSUME NEW s \in Session, DeleteEntry(s) PROVE FALSE
  BY <1>4 DEF DeleteEntry, Refused, MarkEntry, TypeOK
<1>5. ASSUME NEW s \in Session, UndeleteEntry(s) PROVE FALSE
  BY <1>5 DEF UndeleteEntry, Refused, MarkEntry, TypeOK
<1>6. ASSUME UNCHANGED entry PROVE FALSE
  BY <1>6
<1> QED
  BY <1>1, <1>2, <1>3, <1>4, <1>5, <1>6 DEF Next, vars, NewObject, Fetch, SetGuid,
     Undelete, SetGuidFetch, CreateRefused, CreateInvalid, CreateInsert, CreateFails,
     UpdateRow, ExportRow, DeleteRow, PurgeRow, CallRefused, UndeleteRow, Crash

(* What the server once refused stays refused. *)
LEMMA FaultsStay ==
  ASSUME TypeOK, [Next]_vars
  PROVE  faults \subseteq faults'
PROOF
  BY DEF Next, vars, Refused, NewObject, Fetch, SetGuid, Undelete, SetGuidFetch,
     CreateRefused, CreateInvalid, CreateInsert, CreateFails, CreateEntry, UpdateRow,
     ExportRow, UpdateEntry, DeleteRow, DeleteEntry, PurgeRow, PurgeEntry,
     CallRefused, UndeleteRow, UndeleteEntry, Crash

(* The only way to the tombstone is a DELETE that removed the record; the     *)
(* handle does not change until the call is over.                             *)
LEMMA Purging ==
  ASSUME StoreInv, "refusal" \notin faults', [Next]_vars, NEW s \in Session, pc'[s] = "purge_entry"
  PROVE  \/ pc[s] = "purge_entry" /\ obj'[s] = obj[s]
         \/ /\ obj[s].guid \in stored
            /\ obj'[s] = obj[s]
            /\ (Matches(obj[s].guid, obj[s].sg) = {})'
PROOF
<1>1. ASSUME NEW t \in Session, PurgeRow(t), t = s
      PROVE  /\ obj[s].guid \in stored
             /\ obj'[s] = obj[s]
             /\ (Matches(obj[s].guid, obj[s].sg) = {})'
  <2>1. /\ Matches(obj[s].guid, obj[s].sg) # {}
        /\ rows' = [i \in RowId |-> IF i \in Matches(obj[s].guid, obj[s].sg) THEN NoRow ELSE rows[i]]
        /\ obj' = obj
    BY <1>1 DEF PurgeRow, Refused, Return, StoreInv, TypeOK
  <2>2. obj[s].guid \in stored
    BY <2>1 DEF Matches, StoreInv
  <2>3. (Matches(obj[s].guid, obj[s].sg) = {})'
    BY <2>1 DEF Matches
  <2> QED
    BY <2>1, <2>2, <2>3
<1>2. ASSUME NEW t \in Session, t # s, Quiet(t) \/ CreateInsert(t) \/ UpdateRow(t)
               \/ DeleteRow(t) \/ PurgeRow(t) \/ UndeleteRow(t)
      PROVE  pc'[s] = pc[s] /\ obj'[s] = obj[s]
  BY <1>2 DEF Quiet, NewObject, Fetch, SetGuid, Undelete, SetGuidFetch,
     CreateRefused, CreateInvalid, CreateInsert, CreateFails, CreateEntry, UpdateRow,
     ExportRow, UpdateEntry, DeleteRow, DeleteEntry, PurgeRow, PurgeEntry,
     CallRefused, UndeleteRow, UndeleteEntry, Crash, Goto, Return, StoreInv, TypeOK
<1>3. ASSUME Quiet(s) \/ CreateInsert(s) \/ UpdateRow(s) \/ DeleteRow(s) \/ UndeleteRow(s)
      PROVE  pc'[s] # "purge_entry"
  BY <1>3 DEF Quiet, NewObject, Fetch, SetGuid, Undelete, SetGuidFetch,
     CreateRefused, CreateInvalid, CreateInsert, CreateFails, CreateEntry, UpdateRow,
     ExportRow, UpdateEntry, DeleteRow, DeleteEntry, PurgeEntry,
     CallRefused, UndeleteRow, UndeleteEntry, Crash, Goto, Return, StoreInv, TypeOK
<1>4. CASE UNCHANGED vars
  BY <1>4 DEF vars
<1> QED
  BY <1>1, <1>2, <1>3, <1>4 DEF Next, Quiet

LEMMA PurgeInvStep == PurgeInv /\ [Next]_vars => PurgeInv'
PROOF
<1> SUFFICES ASSUME PurgeInv, [Next]_vars PROVE PurgeInv'
  OBVIOUS
<1>0. CASE "refusal" \in faults'
  BY <1>0, StoreInvStep DEF PurgeInv, TombstoneHasNoRow
<1> SUFFICES ASSUME "refusal" \notin faults' PROVE PurgeInv'
  BY <1>0
<1>6. "refusal" \notin faults
  BY FaultsStay DEF PurgeInv, StoreInv
<1>1. StoreInv /\ TombstoneHasNoRow /\ TombstonesKnown /\ PurgersSawItGo
  BY PurgeInvParts
<1>2. StoreInv'
  BY <1>1, StoreInvStep
<1>3. ASSUME NEW s \in Session, pc[s] = "purge_entry", NEW g, NEW x,
             g = obj[s].guid, x = obj[s].sg
      PROVE  g \in stored' /\ Matches(g, x)' = {}
  <2>1. g \in stored /\ Matches(g, x) = {} /\ x \in Sitegroup
    BY <1>1, <1>3, <1>6 DEF PurgersSawItGo, StoreInv, TypeOK, Handle
  <2> QED
    BY <1>1, <2>1, MatchesShrink
<1>4. ASSUME NEW g \in Guid, NEW x \in Sitegroup, entry'[<<g, x>>] = "purge"
      PROVE  g \in stored' /\ Matches(g, x)' = {}
  <2>1. CASE entry[<<g, x>>] = "purge"
    BY <1>1, <1>6, <2>1, MatchesShrink DEF TombstoneHasNoRow, TombstonesKnown
  <2>2. CASE entry[<<g, x>>] # "purge"
    <3>1. PICK s \in Session : pc[s] = "purge_entry" /\ obj[s].guid = g /\ obj[s].sg = x
      BY <1>1, <1>4, <2>2, NewTombstone DEF StoreInv
    <3> QED
      BY <1>3, <3>1
  <2> QED
    BY <2>1, <2>2
<1>5. PurgersSawItGo'
  <2> SUFFICES ASSUME NEW s \in Session, pc'[s] = "purge_entry"
               PROVE  (obj[s].guid \in stored /\ Matches(obj[s].guid, obj[s].sg) = {})'
    BY DEF PurgersSawItGo
  <2>1. CASE pc[s] = "purge_entry" /\ obj'[s] = obj[s]
    <3>1. obj[s].guid \in stored' /\ (Matches(obj[s].guid, obj[s].sg) = {})'
      BY <1>3, <2>1
    <3> QED
      BY <2>1, <3>1
  <2>2. CASE /\ obj[s].guid \in stored
             /\ obj'[s] = obj[s]
             /\ (Matches(obj[s].guid, obj[s].sg) = {})'
    <3>1. obj[s].sg \in Sitegroup
      BY <1>1 DEF StoreInv, TypeOK, Handle
    <3> QED
      BY <1>1, <2>2, <3>1, MatchesShrink
  <2> QED
    BY <1>1, <2>1, <2>2, Purging
<1> QED
  BY <1>2, <1>4, <1>5 DEF PurgeInv, TombstoneHasNoRow, PurgersSawItGo

LEMMA PurgeInvInit == Init => PurgeInv
PROOF
  BY StoreInvInit DEF Init, PurgeInv, TombstoneHasNoRow, ObjectAction

(* As long as the server refused no statement, a tombstone is never written   *)
(* over a record that is still there, however the sessions interleave or      *)
(* crash.                                                                     *)
THEOREM TombstonesAreTrue == Spec => []TombstoneHasNoRow
PROOF
<1>1. PurgeInv => TombstoneHasNoRow
  BY DEF PurgeInv
<1> QED
  BY <1>1, PurgeInvInit, PurgeInvStep, PTL DEF Spec

(* A record keeps its entry, or a session that is about to add it: entries    *)
(* are marked, never removed, and no step but a crash takes a session away    *)
(* from the entry it has to add.                                              *)
EntriesStay == \A k \in Guid \X Sitegroup : entry[k] # NoEntry => entry'[k] # NoEntry

Catalogued(i) ==
  \/ entry[<<rows[i].guid, rows[i].sg>>] # NoEntry
  \/ \E s \in Session : /\ pc[s] = "create_entry"
                        /\ obj[s].guid = rows[i].guid
                        /\ obj[s].sg = rows[i].sg

LEMMA EntriesAreKept ==
  ASSUME TypeOK, [Next]_vars
  PROVE  EntriesStay
PROOF
<1>1. ASSUME NEW s \in Session,
             \/ CreateEntry(s) \/ UpdateEntry(s) \/ DeleteEntry(s)
             \/ PurgeEntry(s) \/ UndeleteEntry(s)
      PROVE  EntriesStay
  <2>1. ASSUME NEW g, NEW x, NEW a \in ObjectAction, entry' = MarkEntry(g, x, a)
        PROVE  EntriesStay
    BY <2>1 DEF MarkEntry, EntriesStay, TypeOK
  <2>2. CASE CreateEntry(s)
    BY <2>2 DEF CreateEntry, EntriesStay, TypeOK, ObjectAction
  <2> QED
    BY <1>1, <2>1, <2>2 DEF UpdateEntry, DeleteEntry, PurgeEntry, UndeleteEntry,
       EntriesStay, ObjectAction
<1>2. ASSUME UNCHANGED entry PROVE EntriesStay
  BY <1>2 DEF EntriesStay
<1> QED
  BY <1>1, <1>2 DEF Next, vars, NewObject, Fetch, SetGuid, Undelete, SetGuidFetch,
     CreateRefused, CreateInvalid, CreateInsert, CreateFails, UpdateRow, ExportRow,
     DeleteRow, PurgeRow, CallRefused, UndeleteRow, Crash

(* A session keeps its instance until it has added the entry.                 *)
CreatorHasGuid == \A s \in Session : pc[s] = "create_entry" => obj[s].guid \in Guid

LEMMA OthersLeaveAlone ==
  ASSUME TypeOK, NEW s \in Session, NEW t \in Session, t # s,
         \/ Quiet(t) \/ CreateInsert(t) \/ UpdateRow(t)
         \/ DeleteRow(t) \/ PurgeRow(t) \/ UndeleteRow(t)
  PROVE  pc'[s] = pc[s] /\ obj'[s] = obj[s]
PROOF
  BY DEF Quiet, NewObject, Fetch, SetGuid, Undelete, SetGuidFetch,
     CreateRefused, CreateInvalid, CreateInsert, CreateFails, CreateEntry, UpdateRow,
     ExportRow, UpdateEntry, DeleteRow, DeleteEntry, PurgeRow, PurgeEntry,
     CallRefused, UndeleteRow, UndeleteEntry, Crash, Goto, Return, TypeOK

(* From "create_entry" a session goes on with CreateEntry or dies.            *)
LEMMA CreatorsNextStep ==
  ASSUME TypeOK, NEW s \in Session, pc[s] = "create_entry", faults' = {},
         \/ Quiet(s) \/ CreateInsert(s) \/ UpdateRow(s)
         \/ DeleteRow(s) \/ PurgeRow(s) \/ UndeleteRow(s)
  PROVE  /\ entry' = [entry EXCEPT ![<<obj[s].guid, obj[s].sg>>] =
                         IF @ = NoEntry THEN "create" ELSE @]
         /\ pc' = [pc EXCEPT ![s] = "idle"]
PROOF
<1>1. CASE CreateEntry(s)
  BY <1>1 DEF CreateEntry, Refused, Return
<1>2. CASE Crash(s)
  BY <1>2 DEF Crash
<1> QED
  BY <1>1, <1>2 DEF Quiet, NewObject, Fetch, SetGuid, Undelete, SetGuidFetch,
     CreateRefused, CreateInvalid, CreateInsert, CreateFails, UpdateRow,
     ExportRow, UpdateEntry, DeleteRow, DeleteEntry, PurgeRow, PurgeEntry,
     CallRefused, UndeleteRow, UndeleteEntry

LEMMA CreatorStays ==
  ASSUME TypeOK, CreatorHasGuid, [Next]_vars, faults' = {},
         NEW s \in Session, pc[s] = "create_entry"
  PROVE  \/ pc'[s] = "create_entry" /\ obj'[s] = obj[s]
         \/ entry'[<<obj[s].guid, obj[s].sg>>] # NoEntry
PROOF
<1>1. ASSUME NEW t \in Session, t # s,
             \/ Quiet(t) \/ CreateInsert(t) \/ UpdateRow(t)
             \/ DeleteRow(t) \/ PurgeRow(t) \/ UndeleteRow(t)
      PROVE  pc'[s] = pc[s] /\ obj'[s] = obj[s]
  BY <1>1, OthersLeaveAlone
<1>2. ASSUME \/ Quiet(s) \/ CreateInsert(s) \/ UpdateRow(s)
             \/ DeleteRow(s) \/ PurgeRow(s) \/ UndeleteRow(s)
      PROVE  entry'[<<obj[s].guid, obj[s].sg>>] # NoEntry
  <2>1. entry' = [entry EXCEPT ![<<obj[s].guid, obj[s].sg>>] =
                    IF @ = NoEntry THEN "create" ELSE @]
    BY <1>2, CreatorsNextStep
  <2>2. <<obj[s].guid, obj[s].sg>> \in Guid \X Sitegroup
    BY DEF CreatorHasGuid, TypeOK, Handle
  <2> QED
    BY <2>1, <2>2 DEF TypeOK, ObjectAction
<1>3. CASE UNCHANGED vars
  BY <1>3 DEF vars
<1> QED
  BY <1>1, <1>2, <1>3 DEF Next, Quiet

LEMMA CreatorHasGuidStep ==
  ASSUME TypeOK, CreatorHasGuid, [Next]_vars
  PROVE  CreatorHasGuid'
PROOF
<1> SUFFICES ASSUME NEW s \in Session, pc'[s] = "create_entry"
             PROVE  obj'[s].guid \in Guid
  BY DEF CreatorHasGuid
<1>1. ASSUME NEW t \in Session, t # s,
             \/ Quiet(t) \/ CreateInsert(t) \/ UpdateRow(t)
             \/ DeleteRow(t) \/ PurgeRow(t) \/ UndeleteRow(t)
      PROVE  pc'[s] = pc[s] /\ obj'[s] = obj[s]
  BY <1>1, OthersLeaveAlone
<1>2. CASE CreateInsert(s)
  BY <1>2 DEF CreateInsert, TypeOK, Handle
<1>3. ASSUME \/ Quiet(s) \/ UpdateRow(s) \/ DeleteRow(s)
             \/ PurgeRow(s) \/ UndeleteRow(s)
      PROVE  FALSE
  BY <1>3 DEF Quiet, NewObject, Fetch, SetGuid, Undelete, SetGuidFetch,
     CreateRefused, CreateInvalid, CreateFails, CreateEntry, UpdateRow,
     ExportRow, UpdateEntry, DeleteRow, DeleteEntry, PurgeRow, PurgeEntry,
     CallRefused, UndeleteRow, UndeleteEntry, Crash, Goto, Return, TypeOK
<1>4. CASE UNCHANGED vars
  BY <1>4 DEF vars, CreatorHasGuid
<1> QED
  BY <1>1, <1>2, <1>3, <1>4 DEF Next, Quiet, CreatorHasGuid

(* RowIsCatalogued with what it rests on. *)
CatalogueInv == TypeOK /\ CreatorHasGuid /\ (faults = {} => \A i \in RowId : rows[i] # NoRow => Catalogued(i))

LEMMA CatalogueStep == CatalogueInv /\ [Next]_vars => CatalogueInv'
PROOF
<1> SUFFICES ASSUME CatalogueInv, [Next]_vars PROVE CatalogueInv'
  OBVIOUS
<1>1. TypeOK /\ CreatorHasGuid /\ TypeOK' /\ CreatorHasGuid'
  BY TypeStep, CreatorHasGuidStep DEF CatalogueInv
<1>2. ASSUME faults' = {}, NEW i \in RowId, rows'[i] # NoRow, rows[i] # NoRow,
             rows'[i].guid = rows[i].guid, rows'[i].sg = rows[i].sg
      PROVE  Catalogued(i)'
  <2>1. Catalogued(i)
    BY <1>1, <1>2, FaultsStay DEF CatalogueInv
  <2>2. CASE entry[<<rows[i].guid, rows[i].sg>>] # NoEntry
    <3>1. <<rows[i].guid, rows[i].sg>> \in Guid \X Sitegroup
      BY <1>1, <1>2 DEF TypeOK, Row
    <3> QED
      BY <1>1, <1>2, <2>2, <3>1, EntriesAreKept DEF EntriesStay, Catalogued
  <2>3. ASSUME NEW s \in Session, pc[s] = "create_entry",
               obj[s].guid = rows[i].guid, obj[s].sg = rows[i].sg
        PROVE  Catalogued(i)'
    BY <1>1, <1>2, <2>3, CreatorStays DEF Catalogued
  <2> QED
    BY <2>1, <2>2, <2>3 DEF Catalogued
<1>3. ASSUME faults' = {}, NEW i \in RowId, rows'[i] # NoRow
      PROVE  Catalogued(i)'
  <2>1. CASE NoNewRecord
    BY <1>2, <1>3, <2>1 DEF NoNewRecord
  <2>2. ASSUME NEW s \in Session, CreateInsert(s) PROVE Catalogued(i)'
    <3>1. PICK g \in Guid :
            /\ obj' = [obj EXCEPT ![s].guid = g]
            /\ rows' = [rows EXCEPT ![nextId] =
                 [guid |-> g, sg |-> obj[s].sg, deleted |-> FALSE, revisor |-> s]]
      BY <2>2 DEF CreateInsert
    <3>2. CASE i = nextId
      <4>1. rows'[i].guid = g /\ rows'[i].sg = obj[s].sg
        BY <1>1, <3>1, <3>2 DEF TypeOK
      <4>2. obj'[s].guid = g /\ obj'[s].sg = obj[s].sg /\ pc'[s] = "create_entry"
        BY <1>1, <2>2, <3>1 DEF CreateInsert, Goto, TypeOK, Handle
      <4> QED
        BY <4>1, <4>2 DEF Catalogued
    <3>3. CASE i # nextId
      BY <1>1, <1>2, <1>3, <3>1, <3>3 DEF TypeOK
    <3> QED
      BY <3>2, <3>3
  <2>3. ASSUME NEW s \in Session,
               Quiet(s) \/ UpdateRow(s) \/ DeleteRow(s) \/ PurgeRow(s) \/ UndeleteRow(s)
        PROVE  NoNewRecord
    BY <1>1, <2>3, OnlyCreateAdds
  <2>4. CASE UNCHANGED vars
    BY <2>1, <2>4 DEF vars, NoNewRecord
  <2> QED
    BY <2>1, <2>2, <2>3, <2>4 DEF Next, Quiet
<1> QED
  BY <1>1, <1>3 DEF CatalogueInv

(* As long as no process died and no statement was refused, every record can  *)
(* be found by its guid, or its creator is about to see to that.              *)
THEOREM RecordsAreCatalogued == Spec => []RowIsCatalogued
PROOF
<1>1. Init => CatalogueInv
  BY TypeInit DEF Init, CatalogueInv, CreatorHasGuid
<1>2. CatalogueInv => RowIsCatalogued
  BY DEF CatalogueInv, RowIsCatalogued, Catalogued
<1> QED
  BY <1>1, <1>2, CatalogueStep, PTL DEF Spec

-----------------------------------------------------------------------------
(* Refinement of the abstract life cycle. *)

HasLive(g) == \E i \in RecordsOf(g) : Live(i)

LEMMA StageIs ==
  ASSUME NEW g \in Guid
  PROVE  /\ HasLive(g) => Stage(g) = "live"
         /\ ~HasLive(g) /\ RecordsOf(g) # {} => Stage(g) = "deleted"
         /\ RecordsOf(g) = {} /\ g \in stored => Stage(g) = "purged"
         /\ RecordsOf(g) = {} /\ g \notin stored => Stage(g) = "unborn"
PROOF
<1>1. RecordsOf(g) = {} => ~HasLive(g)
  BY DEF HasLive
<1> QED
  BY <1>1 DEF Stage, HasLive

(* A step that changes only records of g changes only the stage of g. *)
LEMMA StageOfOthers ==
  ASSUME NEW g \in Guid,
         \A i \in RowId : rows'[i] # rows[i] =>
           /\ rows[i] # NoRow => rows[i].guid = g
           /\ rows'[i] # NoRow => rows'[i].guid = g,
         \A h \in Guid : h # g => (h \in stored' <=> h \in stored),
         NEW h \in Guid, h # g
  PROVE  Stage(h)' = Stage(h)
PROOF
<1>1. RecordsOf(h)' = RecordsOf(h)
  BY DEF RecordsOf
<1>2. \A i \in RecordsOf(h) : rows'[i] = rows[i]
  BY DEF RecordsOf
<1>3. HasLive(h)' <=> HasLive(h)
  BY <1>1, <1>2 DEF HasLive, Live
<1> QED
  BY <1>1, <1>3, StageIs DEF HasLive, Stage

OnlyTouches(g) ==
  /\ \A i \in RowId : rows'[i] # rows[i] =>
       /\ rows[i] # NoRow => rows[i].guid = g
       /\ rows'[i] # NoRow => rows'[i].guid = g
  /\ \A h \in Guid : h # g => (h \in stored' <=> h \in stored)

StageMove(from, to) ==
  \/ from = to
  \/ from = "unborn" /\ to = "live"
  \/ from = "live" /\ to = "deleted"
  \/ from = "deleted" /\ to = "live"
  \/ from \in {"live", "deleted"} /\ to = "purged"

LEMMA LifecycleStep ==
  ASSUME NEW g \in Guid, OnlyTouches(g), StageMove(Stage(g), Stage(g)')
  PROVE  L!Next \/ StageOfAll' = StageOfAll
PROOF
<1>1. StageOfAll' = [StageOfAll EXCEPT ![g] = Stage(g)']
  <2>1. \A h \in Guid : h # g => Stage(h)' = Stage(h)
    BY StageOfOthers DEF OnlyTouches
  <2> QED
    BY <2>1 DEF StageOfAll
<1>2. StageOfAll[g] = Stage(g)
  BY DEF StageOfAll
<1>3. StageOfAll = [StageOfAll EXCEPT ![g] = Stage(g)]
  BY DEF StageOfAll
<1> QED
  BY <1>1, <1>2, <1>3 DEF StageMove, L!Next, L!Create, L!Delete, L!Undelete, L!Purge

LEMMA OneMatch ==
  ASSUME StoreInv, NEW g, NEW x, Matches(g, x) # {}
  PROVE  \E i \in RowId : /\ rows[i] \in Row
                          /\ rows[i].guid = g
                          /\ Matches(g, x) = {i}
                          /\ RecordsOf(g) = {i}
PROOF
<1>1. PICK i \in RowId : i \in Matches(g, x)
  BY DEF Matches
<1>2. rows[i] \in Row /\ rows[i].guid = g /\ g \in Guid
  BY <1>1 DEF Matches, StoreInv, TypeOK, Row
<1>3. i \in RecordsOf(g)
  BY <1>1 DEF Matches, RecordsOf
<1>4. RecordsOf(g) = {i}
  BY <1>2, <1>3 DEF StoreInv, UniqueGuid
<1>5. Matches(g, x) \subseteq RecordsOf(g)
  BY DEF Matches, RecordsOf
<1> QED
  BY <1>1, <1>2, <1>4, <1>5

(* A step that rewrites or removes the one record of g. *)
LEMMA RecordStep ==
  ASSUME StoreInv, NEW g \in Guid, NEW i \in RowId, RecordsOf(g) = {i},
         NEW w \in Row \cup {NoRow},
         rows' = [rows EXCEPT ![i] = w], stored' = stored,
         w # NoRow => w.guid = g
  PROVE  L!Next \/ StageOfAll' = StageOfAll
PROOF
<1>1. rows \in [RowId -> Row \cup {NoRow}] /\ rows[i] # NoRow /\ rows[i].guid = g
      /\ g \in stored
  BY DEF StoreInv, TypeOK, RecordsOf
<1>2. OnlyTouches(g)
  BY <1>1 DEF OnlyTouches
<1>3. Stage(g) \in {"live", "deleted"}
  BY StageIs
<1>4. CASE w = NoRow
  <2>1. RecordsOf(g)' = {}
    BY <1>1, <1>4 DEF RecordsOf
  <2>2. Stage(g)' = "purged"
    BY <1>1, <2>1 DEF Stage
  <2> QED
    BY <1>2, <1>3, <2>2, LifecycleStep DEF StageMove
<1>5. CASE w # NoRow
  <2>1. RecordsOf(g)' = {i}
    BY <1>1, <1>5 DEF RecordsOf
  <2>2. Stage(g)' \in {"live", "deleted"}
    BY <2>1 DEF Stage
  <2> QED
    BY <1>2, <1>3, <2>2, LifecycleStep DEF StageMove
<1> QED
  BY <1>4, <1>5

LEMMA QuietStage ==
  ASSUME UNCHANGED <<rows, stored>>
  PROVE  StageOfAll' = StageOfAll
PROOF
  BY DEF StageOfAll, Stage, RecordsOf, Live

LEMMA RefinementStep ==
  ASSUME StoreInv, [Next]_vars
  PROVE  L!Next \/ StageOfAll' = StageOfAll
PROOF
<1>1. ASSUME NEW s \in Session, CreateInsert(s)
      PROVE  L!Next \/ StageOfAll' = StageOfAll
  <2>1. PICK g \in Guid :
          /\ Fresh(g)
          /\ rows' = [rows EXCEPT ![nextId] =
               [guid |-> g, sg |-> obj[s].sg, deleted |-> FALSE, revisor |-> s]]
          /\ stored' = stored \cup {g}
    BY <1>1 DEF CreateInsert
  <2>2. nextId \in RowId /\ rows[nextId] = NoRow
    BY <1>1 DEF CreateInsert, StoreInv, TypeOK, RowId
  <2>3. g \notin stored /\ RecordsOf(g) = {}
    BY <2>1 DEF Fresh, StoreInv, RecordsOf
  <2>4. rows'[nextId] \in Row /\ rows'[nextId].guid = g /\ ~rows'[nextId].deleted
    BY <2>1, <2>2 DEF StoreInv, TypeOK, Row, Handle
  <2>5. OnlyTouches(g)
    BY <2>1, <2>2, <2>4 DEF OnlyTouches, StoreInv, TypeOK
  <2>6. Stage(g) = "unborn"
    BY <2>3, StageIs
  <2>7. nextId \in RecordsOf(g)' /\ (\E i \in RecordsOf(g) : Live(i))'
    BY <2>2, <2>4 DEF RecordsOf, Live
  <2>8. Stage(g)' = "live"
    BY <2>7 DEF Stage
  <2> QED
    BY <2>5, <2>6, <2>8, LifecycleStep DEF StageMove
<1>2. ASSUME NEW s \in Session, UpdateRow(s)
      PROVE  L!Next \/ StageOfAll' = StageOfAll
  <2>1. CASE Matches(obj[s].guid, obj[s].sg) = {}
    BY <1>2, <2>1, QuietStage DEF UpdateRow, StoreInv, TypeOK
  <2>2. CASE Matches(obj[s].guid, obj[s].sg) # {}
    <3>1. PICK i \in RowId : /\ rows[i] \in Row
                             /\ rows[i].guid = obj[s].guid
                             /\ Matches(obj[s].guid, obj[s].sg) = {i}
                             /\ RecordsOf(obj[s].guid) = {i}
      BY <2>2, OneMatch
    <3>2. rows' = [rows EXCEPT ![i] = [rows[i] EXCEPT !.revisor = s]] /\ stored' = stored
      BY <1>2, <3>1 DEF UpdateRow, StoreInv, TypeOK
    <3>3. [rows[i] EXCEPT !.revisor = s] \in Row
          /\ [rows[i] EXCEPT !.revisor = s].guid = obj[s].guid
      BY <3>1, TouchedRow
    <3>4. obj[s].guid \in Guid
      BY <3>1 DEF Row
    <3> QED
      BY <3>1, <3>2, <3>3, <3>4, RecordStep
  <2> QED
    BY <2>1, <2>2
<1>3. ASSUME NEW s \in Session, DeleteRow(s)
      PROVE  L!Next \/ StageOfAll' = StageOfAll
  <2>1. CASE Matches(obj[s].guid, obj[s].sg) = {}
    BY <1>3, <2>1, QuietStage DEF DeleteRow, StoreInv, TypeOK
  <2>2. CASE Matches(obj[s].guid, obj[s].sg) # {}
    <3>1. PICK i \in RowId : /\ rows[i] \in Row
                             /\ rows[i].guid = obj[s].guid
                             /\ Matches(obj[s].guid, obj[s].sg) = {i}
                             /\ RecordsOf(obj[s].guid) = {i}
      BY <2>2, OneMatch
    <3>2. /\ rows' = [rows EXCEPT ![i] = [rows[i] EXCEPT !.deleted = TRUE, !.revisor = s]]
          /\ stored' = stored
      BY <1>3, <3>1 DEF DeleteRow, StoreInv, TypeOK
    <3>3. [rows[i] EXCEPT !.deleted = TRUE, !.revisor = s] \in Row
          /\ [rows[i] EXCEPT !.deleted = TRUE, !.revisor = s].guid = obj[s].guid
      BY <3>1, TouchedRow
    <3>4. obj[s].guid \in Guid
      BY <3>1 DEF Row
    <3> QED
      BY <3>1, <3>2, <3>3, <3>4, RecordStep
  <2> QED
    BY <2>1, <2>2
<1>4. ASSUME NEW s \in Session, PurgeRow(s)
      PROVE  L!Next \/ StageOfAll' = StageOfAll
  <2>1. CASE UNCHANGED rows
    BY <1>4, <2>1, QuietStage DEF PurgeRow
  <2>2. CASE rows' # rows
    <3>1. /\ Matches(obj[s].guid, obj[s].sg) # {}
          /\ rows' = [i \in RowId |-> IF i \in Matches(obj[s].guid, obj[s].sg)
                                      THEN NoRow ELSE rows[i]]
          /\ stored' = stored
      BY <1>4, <2>2 DEF PurgeRow
    <3>2. PICK i \in RowId : /\ rows[i] \in Row
                             /\ rows[i].guid = obj[s].guid
                             /\ Matches(obj[s].guid, obj[s].sg) = {i}
                             /\ RecordsOf(obj[s].guid) = {i}
      BY <3>1, OneMatch
    <3>3. rows' = [rows EXCEPT ![i] = NoRow]
      BY <3>1, <3>2 DEF StoreInv, TypeOK
    <3> QED
      BY <3>1, <3>2, <3>3, RecordStep DEF Row
  <2> QED
    BY <2>1, <2>2
<1>5. ASSUME NEW s \in Session, UndeleteRow(s)
      PROVE  L!Next \/ StageOfAll' = StageOfAll
  <2>1. CASE UNCHANGED rows
    BY <1>5, <2>1, QuietStage DEF UndeleteRow
  <2>2. CASE rows' # rows
    <3>1. /\ rows' = [i \in RowId |->
               IF rows[i] # NoRow /\ rows[i].guid = arg[s]
                  /\ (s \in Root \/ rows[i].sg = SessionSg[s])
               THEN [rows[i] EXCEPT !.deleted = FALSE] ELSE rows[i]]
          /\ stored' = stored
      BY <1>5, <2>2 DEF UndeleteRow
    <3>2. PICK i \in RowId : rows'[i] # rows[i]
      BY <2>2, <3>1 DEF StoreInv, TypeOK
    <3>3. rows[i] # NoRow /\ rows[i].guid = arg[s] /\ rows[i] \in Row
          /\ rows'[i] = [rows[i] EXCEPT !.deleted = FALSE]
      BY <3>1, <3>2 DEF StoreInv, TypeOK
    <3>4. RecordsOf(arg[s]) = {i} /\ arg[s] \in Guid
      BY <3>3 DEF StoreInv, UniqueGuid, RecordsOf, Row
    <3>5. \A j \in RowId : j # i => rows'[j] = rows[j]
      BY <3>1, <3>4 DEF RecordsOf
    <3>6. rows' = [rows EXCEPT ![i] = [rows[i] EXCEPT !.deleted = FALSE]]
      BY <3>1, <3>3, <3>5 DEF StoreInv, TypeOK
    <3>7. [rows[i] EXCEPT !.deleted = FALSE] \in Row
          /\ [rows[i] EXCEPT !.deleted = FALSE].guid = arg[s]
      BY <3>3, TouchedRow
    <3> QED
      BY <3>1, <3>4, <3>6, <3>7, RecordStep
  <2> QED
    BY <2>1, <2>2
<1>6. ASSUME NEW s \in Session, Quiet(s) PROVE UNCHANGED <<rows, stored>>
  BY <1>6 DEF Quiet, NewObject, Fetch, SetGuid, Undelete, SetGuidFetch,
     CreateRefused, CreateInvalid, CreateFails, CreateEntry, ExportRow, UpdateEntry,
     DeleteEntry, PurgeEntry, CallRefused, UndeleteEntry, Crash
<1>7. CASE UNCHANGED vars
  BY <1>7, QuietStage DEF vars
<1> QED
  BY <1>1, <1>2, <1>3, <1>4, <1>5, <1>6, <1>7, QuietStage DEF Next, Quiet

LEMMA RefinementInit == Init => L!Init
PROOF
<1> SUFFICES ASSUME Init PROVE L!Init
  OBVIOUS
<1>1. ASSUME NEW g \in Guid PROVE Stage(g) = "unborn"
  <2>1. RecordsOf(g) = {} /\ g \notin stored
    BY DEF Init, RecordsOf
  <2> QED
    BY <2>1, StageIs
<1> QED
  BY <1>1 DEF L!Init, StageOfAll

(* Every behaviour of the sessions, statement by statement, with crashes and  *)
(* refused statements, is one of the abstract life cycle.                     *)
THEOREM RefinesLifecycle == Spec => LifecycleRefined
PROOF
<1>1. StoreInv /\ [Next]_vars => [L!Next]_StageOfAll
  BY RefinementStep
<1> QED
  BY <1>1, RefinementInit, StoreInvariant, PTL DEF Spec, LifecycleRefined, L!Spec

-----------------------------------------------------------------------------
(* Ownership.  Whoever is to write an entry for his instance has had its      *)
(* sitegroup checked, and the instance does not change meanwhile.             *)
AboutToWrite == {"create_entry", "update_entry", "delete_entry", "purge_entry"}
HandleChecked ==
  \A s \in Session : pc[s] \in AboutToWrite => ~ViolatesSitegroup(s, obj[s].sg)

OwnerInv == StoreInv /\ HandleChecked

LEMMA OwnerInvStep == OwnerInv /\ [Next]_vars => OwnerInv'
PROOF
<1> SUFFICES ASSUME OwnerInv, [Next]_vars PROVE HandleChecked'
  BY StoreInvStep DEF OwnerInv
<1>1. CASE UNCHANGED vars
  BY <1>1 DEF vars, OwnerInv, HandleChecked, ViolatesSitegroup
<1>2. ASSUME NEW s \in Session,
             \/ Quiet(s) \/ CreateInsert(s) \/ UpdateRow(s)
             \/ DeleteRow(s) \/ PurgeRow(s) \/ UndeleteRow(s),
             pc'[s] \in AboutToWrite => ~ViolatesSitegroup(s, obj[s].sg)'
      PROVE  HandleChecked'
  BY <1>2, OthersLeaveAlone DEF OwnerInv, StoreInv, HandleChecked, ViolatesSitegroup
<1>3. ASSUME NEW s \in Session, Quiet(s), ~ExportRow(s) PROVE pc'[s] \notin AboutToWrite
  BY <1>3 DEF AboutToWrite, OwnerInv, StoreInv, TypeOK, Quiet, NewObject, Fetch, SetGuid, Undelete,
     SetGuidFetch, CreateRefused, CreateInvalid, CreateFails, CreateEntry, UpdateEntry,
     DeleteEntry, PurgeEntry, CallRefused, UndeleteEntry, Crash, Goto, Return
<1>4. ASSUME NEW s \in Session, UndeleteRow(s) PROVE pc'[s] \notin AboutToWrite
  BY <1>4 DEF AboutToWrite, OwnerInv, StoreInv, TypeOK, UndeleteRow, Goto, Return
<1>5. ASSUME NEW s \in Session, ExportRow(s) \/ UpdateRow(s) \/ DeleteRow(s) \/ PurgeRow(s)
      PROVE  ~ViolatesSitegroup(s, obj[s].sg)'
  BY <1>5 DEF ExportRow, UpdateRow, DeleteRow, PurgeRow, ViolatesSitegroup
<1>6. ASSUME NEW s \in Session, CreateInsert(s) PROVE ~ViolatesSitegroup(s, obj[s].sg)'
  <2>1. PICK g \in Guid : obj' = [obj EXCEPT ![s].guid = g]
    BY <1>6 DEF CreateInsert
  <2>2. obj'[s].sg = obj[s].sg
    BY <2>1 DEF OwnerInv, StoreInv, TypeOK, Handle
  <2> QED
    BY <1>6, <2>2 DEF CreateInsert, MayCreate, ViolatesSitegroup
<1> QED
  BY <1>1, <1>2, <1>3, <1>4, <1>5, <1>6 DEF Next, Quiet

(* A statement of s that changes records and entries of its own sitegroup.    *)
Owns(s) ==
  /\ pc'[s] # pc[s]
  /\ \A i \in RowId : rows'[i] # rows[i] =>
       /\ rows[i] # NoRow => MayWrite(s, rows[i].sg)
       /\ rows'[i] # NoRow => MayWrite(s, rows'[i].sg)
  /\ \A g \in Guid, x \in Sitegroup :
       entry'[<<g, x>>] # entry[<<g, x>>] => MayWrite(s, x)

LEMMA OwnsIsEnough ==
  ASSUME NEW s \in Session, Owns(s), NEW x \in Sitegroup,
         RowsIn(x)' # RowsIn(x) \/ EntriesIn(x)' # EntriesIn(x)
  PROVE  MayWrite(s, x)
PROOF
<1>1. CASE RowsIn(x)' # RowsIn(x)
  <2> SUFFICES ASSUME ~MayWrite(s, x) PROVE RowsIn(x)' = RowsIn(x)
    BY <1>1
  <2>1. \A i \in RowId :
          \/ rows[i] # NoRow /\ rows[i].sg = x
          \/ rows'[i] # NoRow /\ rows'[i].sg = x
          => rows'[i] = rows[i]
    BY DEF Owns
  <2> QED
    BY <2>1 DEF RowsIn
<1>2. CASE EntriesIn(x)' # EntriesIn(x)
  BY <1>2 DEF Owns, EntriesIn
<1> QED
  BY <1>1, <1>2

LEMMA AllowedToWrite ==
  ASSUME NEW s \in Session, NEW x \in Sitegroup, ~ViolatesSitegroup(s, x)
  PROVE  MayWrite(s, x)
PROOF
  BY DEF ViolatesSitegroup, MayWrite

LEMMA MarkedEntry ==
  ASSUME TypeOK, NEW h \in Guid \cup {NoGuid}, NEW y \in Sitegroup, NEW a,
         entry' = MarkEntry(h, y, a),
         NEW g \in Guid, NEW x \in Sitegroup, entry'[<<g, x>>] # entry[<<g, x>>]
  PROVE  x = y
PROOF
  BY DEF MarkEntry, TypeOK

(* Every statement that changes a record or an entry is of this kind.         *)
LEMMA WritersOwn ==
  ASSUME OwnerInv, NEW s \in Session,
         \/ Quiet(s) \/ CreateInsert(s) \/ UpdateRow(s)
         \/ DeleteRow(s) \/ PurgeRow(s) \/ UndeleteRow(s)
  PROVE  Owns(s) \/ UNCHANGED <<rows, entry>>
PROOF
<1>1. obj[s] \in Handle /\ arg[s] \in Guid \cup {NoGuid} /\ SessionSg[s] \in Sitegroup
      /\ obj[s].sg \in Sitegroup /\ obj[s].guid \in Guid \cup {NoGuid}
  <2>1. obj[s] \in Handle /\ arg[s] \in Guid \cup {NoGuid}
    BY DEF OwnerInv, StoreInv, TypeOK
  <2>2. \A h \in Handle : h.sg \in Sitegroup /\ h.guid \in Guid \cup {NoGuid}
    BY DEF Handle
  <2>3. SessionSg[s] \in Sitegroup
    OBVIOUS
  <2> QED
    BY <2>1, <2>2, <2>3
<1>2. ASSUME rows' = rows, NEW h \in Guid \cup {NoGuid}, NEW y \in Sitegroup, MayWrite(s, y),
             NEW a, entry' = MarkEntry(h, y, a), pc'[s] # pc[s]
      PROVE  Owns(s)
  BY <1>2, MarkedEntry DEF Owns, OwnerInv, StoreInv
<1>3. CASE pc[s] \in AboutToWrite
  <2>1. MayWrite(s, obj[s].sg)
    BY <1>1, <1>3, AllowedToWrite DEF OwnerInv, HandleChecked
  <2>2. CASE CreateEntry(s)
    <3>1. pc'[s] # pc[s] /\ rows' = rows
      BY <2>2 DEF CreateEntry, Return, OwnerInv, StoreInv, TypeOK
    <3>2. CASE UNCHANGED entry
      BY <3>1, <3>2
    <3>3. CASE entry' = [entry EXCEPT ![<<obj[s].guid, obj[s].sg>>] =
                           IF @ = NoEntry THEN "create" ELSE @]
      <4>1. \A g \in Guid, x \in Sitegroup : entry'[<<g, x>>] # entry[<<g, x>>] => x = obj[s].sg
        BY <3>3 DEF OwnerInv, StoreInv, TypeOK
      <4> QED
        BY <2>1, <3>1, <4>1 DEF Owns
    <3> QED
      BY <2>2, <3>2, <3>3 DEF CreateEntry
  <2>3. CASE UpdateEntry(s) \/ DeleteEntry(s) \/ PurgeEntry(s)
    <3>1. pc'[s] # pc[s] /\ rows' = rows
      BY <2>3 DEF UpdateEntry, DeleteEntry, PurgeEntry, Return, OwnerInv, StoreInv, TypeOK
    <3>2. UNCHANGED entry \/ \E a : entry' = MarkEntry(obj[s].guid, obj[s].sg, a)
      BY <2>3 DEF UpdateEntry, DeleteEntry, PurgeEntry
    <3> QED
      BY <1>1, <1>2, <2>1, <3>1, <3>2
  <2>4. CASE Crash(s)
    BY <2>4 DEF Crash
  <2> QED
    BY <1>3, <2>2, <2>3, <2>4 DEF AboutToWrite, Quiet, NewObject, Fetch, SetGuid, Undelete,
       SetGuidFetch, CreateRefused, CreateInvalid, CreateInsert, CreateFails, UpdateRow,
       ExportRow, DeleteRow, PurgeRow, CallRefused, UndeleteRow, UndeleteEntry
<1>4. CASE UndeleteEntry(s)
  <2>1. pc'[s] # pc[s] /\ rows' = rows /\ MayWrite(s, SessionSg[s])
    BY <1>4 DEF UndeleteEntry, Return, OwnerInv, StoreInv, TypeOK, MayWrite
  <2>2. UNCHANGED entry \/ entry' = MarkEntry(arg[s], SessionSg[s], "update")
    BY <1>4 DEF UndeleteEntry
  <2> QED
    BY <1>1, <1>2, <2>1, <2>2
<1>5. CASE UndeleteRow(s)
  <2>1. CASE UNCHANGED rows
    BY <1>5, <2>1 DEF UndeleteRow
  <2>2. CASE ~UNCHANGED rows
    <3>1. pc'[s] # pc[s] /\ entry' = entry
      BY <1>5 DEF UndeleteRow, Goto, Return, OwnerInv, StoreInv, TypeOK
    <3>2. ASSUME NEW i \in RowId, rows'[i] # rows[i]
          PROVE  /\ rows[i] # NoRow => MayWrite(s, rows[i].sg)
                 /\ rows'[i] # NoRow => MayWrite(s, rows'[i].sg)
      <4>1. rows[i] # NoRow /\ MayWrite(s, rows[i].sg) /\ rows'[i] = [rows[i] EXCEPT !.deleted = FALSE]
        BY <1>5, <2>2, <3>2 DEF UndeleteRow, MayWrite
      <4>2. rows[i] \in Row
        BY <4>1 DEF OwnerInv, StoreInv, TypeOK
      <4> QED
        BY <4>1, <4>2, TouchedRow
    <3> QED
      BY <3>1, <3>2 DEF Owns
  <2> QED
    BY <2>1, <2>2
<1>6. CASE CreateInsert(s)
  <2>1. PICK g \in Guid : rows' = [rows EXCEPT ![nextId] =
          [guid |-> g, sg |-> obj[s].sg, deleted |-> FALSE, revisor |-> s]]
    BY <1>6 DEF CreateInsert
  <2>2. pc'[s] # pc[s] /\ entry' = entry /\ MayWrite(s, obj[s].sg)
    BY <1>1, <1>6, AllowedToWrite DEF CreateInsert, MayCreate, Goto, OwnerInv, StoreInv, TypeOK
  <2>3. nextId \in RowId /\ rows[nextId] = NoRow
    BY <1>6 DEF CreateInsert, OwnerInv, StoreInv, TypeOK, RowId
  <2>4. \A i \in RowId : rows'[i] # rows[i] => rows[i] = NoRow /\ rows'[i].sg = obj[s].sg
    BY <2>1, <2>3 DEF OwnerInv, StoreInv, TypeOK
  <2> QED
    BY <2>2, <2>4 DEF Owns
<1>7. CASE UpdateRow(s) \/ DeleteRow(s) \/ PurgeRow(s)
  <2>1. entry' = entry /\ MayWrite(s, obj[s].sg)
    BY <1>1, <1>7, AllowedToWrite DEF UpdateRow, DeleteRow, PurgeRow
  <2>2. pc'[s] # pc[s] \/ UNCHANGED rows
    BY <1>7 DEF UpdateRow, DeleteRow, PurgeRow, Goto, OwnerInv, StoreInv, TypeOK
  <2>3. ASSUME NEW i \in RowId, rows'[i] # rows[i]
        PROVE  /\ rows[i] # NoRow /\ rows[i].sg = obj[s].sg
               /\ rows'[i] # NoRow => rows'[i].sg = obj[s].sg
    <3>1. /\ i \in Matches(obj[s].guid, obj[s].sg)
          /\ \/ rows'[i] = [rows[i] EXCEPT !.revisor = s]
             \/ rows'[i] = [rows[i] EXCEPT !.deleted = TRUE, !.revisor = s]
             \/ rows'[i] = NoRow
      BY <1>7, <2>3 DEF UpdateRow, DeleteRow, PurgeRow
    <3>2. rows[i] \in Row /\ rows[i] # NoRow /\ rows[i].sg = obj[s].sg
      BY <3>1 DEF Matches, OwnerInv, StoreInv, TypeOK
    <3>3. /\ [rows[i] EXCEPT !.revisor = s].sg = rows[i].sg
          /\ [rows[i] EXCEPT !.deleted = TRUE, !.revisor = s].sg = rows[i].sg
      BY <3>2, TouchedRow
    <3> QED
      BY <3>1, <3>2, <3>3
  <2> QED
    BY <2>1, <2>2, <2>3 DEF Owns
<1> QED
  BY <1>3, <1>4, <1>5, <1>6, <1>7 DEF AboutToWrite, Quiet, NewObject, Fetch, SetGuid, Undelete,
     SetGuidFetch, CreateRefused, CreateInvalid, CreateFails, CreateEntry, UpdateEntry,
     DeleteEntry, PurgeEntry, ExportRow, CallRefused, Crash

(* Nobody but root and the sessions of a sitegroup changes its records and    *)
(* entries: the checks come before the first statement of a call, and the     *)
(* instance they were made for is the one the last statement writes.          *)
THEOREM OwnersWrite == Spec => OnlyOwnerWrites
PROOF
<1>1. OwnerInv /\ [Next]_vars =>
        [\A x \in Sitegroup : RowsIn(x)' # RowsIn(x) \/ EntriesIn(x)' # EntriesIn(x)
           => \E s \in Session : pc'[s] # pc[s] /\ MayWrite(s, x)]_vars
  <2> SUFFICES ASSUME OwnerInv, Next, NEW x \in Sitegroup,
                      RowsIn(x)' # RowsIn(x) \/ EntriesIn(x)' # EntriesIn(x)
               PROVE  \E s \in Session : pc'[s] # pc[s] /\ MayWrite(s, x)
    OBVIOUS
  <2>1. PICK s \in Session : \/ Quiet(s) \/ CreateInsert(s) \/ UpdateRow(s)
                             \/ DeleteRow(s) \/ PurgeRow(s) \/ UndeleteRow(s)
    BY DEF Next, Quiet
  <2>2. ~UNCHANGED <<rows, entry>>
    BY DEF RowsIn, EntriesIn
  <2>3. Owns(s)
    BY <2>1, <2>2, WritersOwn
  <2> QED
    BY <2>3, OwnsIsEnough DEF Owns
<1>2. Init => OwnerInv
  BY StoreInvInit DEF Init, OwnerInv, HandleChecked, AboutToWrite
<1> QED
  BY <1>1, <1>2, OwnerInvStep, PTL DEF Spec, OnlyOwnerWrites

=============================================================================
