---------------------------- MODULE MCLegacyTree ----------------------------
(* Small instances of LegacyTree for TLC. *)
EXTENDS LegacyTree, TLC

=============================================================================
