-------------------------------- MODULE Trees --------------------------------
(* What both tree APIs have in common: siblings are selected in the order of *)
(* their ids.                                                                *)
EXTENDS Integers, FiniteSets

(* ORDER BY id. *)
InOrder(ids) ==
  CHOOSE f \in [1..Cardinality(ids) -> ids] : \A a, b \in DOMAIN f : a < b => f[a] < f[b]

=============================================================================
