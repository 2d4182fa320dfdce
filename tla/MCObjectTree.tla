---------------------------- MODULE MCObjectTree ----------------------------
(* Small instances of ObjectTree for TLC. *)
EXTENDS ObjectTree, TLC

CONSTANTS a, b, n1

(* A path of one element, one of two, and one with an empty element. *)
SomePaths == {<<n1>>, <<n1, n1>>, <<NoName, n1>>}

=============================================================================
