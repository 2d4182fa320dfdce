--------------------------- MODULE MCTranslation ---------------------------
(* A small instance of Translation for TLC. *)
EXTENDS Translation, TLC

CONSTANTS a, b, g1, g2, n1, n2, b1, b2

Alike == Permutations(Session)

Node(l, x) == [lang |-> l, body |-> x]
Doc(n, deleted, nodes) == [guid |-> g1, name |-> n, deleted |-> deleted, nodes |-> nodes]

(* What a master exports of one object over time: in two languages, in one of
   them, and after its deletion. *)
SomeDocs == {
  Doc(n1, FALSE, <<Node(0, b2), Node(1, b2)>>),
  Doc(n1, FALSE, <<Node(2, b2)>>),
  Doc(n1, TRUE, <<Node(1, b2)>>) }

=============================================================================
