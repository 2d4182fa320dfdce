--------------------------- MODULE MCObjectStore ---------------------------
(* Small instances of ObjectStore for TLC. *)
EXTENDS ObjectStore, TLC

CONSTANTS a, b, r, x0, x1, g1, g2

(* Two clients of one sitegroup and an administrator. *)
SgOfEach == (a :> x1) @@ (b :> x1) @@ (r :> x0)
Clients == Permutations({a, b})

=============================================================================
