----------------------------- MODULE MCCollectors -----------------------------
(* Small instances of ObjectExtension and QueryBuilder for TLC: parameters are read
   through a collector, which is a query, but the tables of the two modules are
   different ones, so that each is looked at while the other has not begun. *)
EXTENDS ObjectExtension, MCQueryBuilder

CONSTANTS a, b, n1, v1, v2

Alike == Permutations(Session) \cup Permutations(Value)

VARIABLE begun  \* which of the two has begun

CollectorsInit == /\ Init /\ QueryInit /\ begun \in {"parameters", "query"}
                  /\ begun = "parameters" => ~env.multilang
                  /\ begun = "query" => class = "parameter"
CollectorsNext == \/ begun = "parameters" /\ Next /\ UNCHANGED <<queryVars, begun>>
                  \/ begun = "query" /\ QueryNext /\ UNCHANGED <<vars, begun>>
CollectorsSpec == CollectorsInit /\ [][CollectorsNext]_<<vars, queryVars, begun>>

===============================================================================
