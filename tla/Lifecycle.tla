----------------------------- MODULE Lifecycle -----------------------------
(***************************************************************************)
(* What the documentation of midgard/types.h (MidgardObjectAction,         *)
(* midgard_object_delete, _purge and _undelete) promises about one object, *)
(* whatever the number of clients: an object is created at most once under *)
(* a guid, a deleted object can come back, a purged one never does.        *)
(***************************************************************************)
CONSTANT Guid

VARIABLE status      \* status[g]: the stage of the object identified by g

Stages == {"unborn", "live", "deleted", "purged"}

TypeOK == status \in [Guid -> Stages]

Init == status = [g \in Guid |-> "unborn"]

Create(g) ==
  /\ status[g] = "unborn"
  /\ status' = [status EXCEPT ![g] = "live"]

Delete(g) ==
  /\ status[g] = "live"
  /\ status' = [status EXCEPT ![g] = "deleted"]

Undelete(g) ==
  /\ status[g] = "deleted"
  /\ status' = [status EXCEPT ![g] = "live"]

Purge(g) ==
  /\ status[g] \in {"live", "deleted"}
  /\ status' = [status EXCEPT ![g] = "purged"]

Next == \E g \in Guid : Create(g) \/ Delete(g) \/ Undelete(g) \/ Purge(g)

Spec == Init /\ [][Next]_status

=============================================================================
