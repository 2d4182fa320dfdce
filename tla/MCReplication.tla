--------------------------- MODULE MCReplication ---------------------------
(* Small instances of Replication for TLC: two sites and two ways to use them. *)
EXTENDS Replication, TLC

CONSTANTS m, r, g1, g2, c1, c2

ChildNeedsParent == (g1 :> {}) @@ (g2 :> {g1})

(* A master and a replica: an object and its child, which comes and goes. *)
OneWay == [authors |-> {m}, creates |-> {<<m, g1>>, <<m, g2>>}, contents |-> {c1, c2},
           deletes |-> {g2}, undeletes |-> {}, purges |-> {g2},
           force |-> {FALSE}, seconds |-> 4]

(* Two sites that both change one object in every way.  The sites are alike,
   so which of them creates it does not matter. *)
BothWays == [authors |-> {m, r}, creates |-> {<<m, g1>>}, contents |-> {c1}, deletes |-> {g1},
             undeletes |-> {g1}, purges |-> {g1}, force |-> {FALSE}, seconds |-> 4]

(* The same with imports by force as well: in less time, or without deletion. *)
ByForce == [BothWays EXCEPT !.force = BOOLEAN, !.seconds = 2]
PurgedByForce == [BothWays EXCEPT !.force = BOOLEAN, !.deletes = {}, !.undeletes = {},
                                  !.seconds = 3]

Usages == {OneWay, BothWays, ByForce, PurgedByForce}

=============================================================================
