--------------------------- MODULE MCObjectQuota ---------------------------
(* Small instances of ObjectQuota for TLC. *)
EXTENDS ObjectQuota, TLC

CONSTANTS a, b, x0, x1

(* A client of a sitegroup, and an administrator who has set it. *)
PeersSg == (a :> x1) @@ (b :> x1)

=============================================================================
