---------------------------- MODULE MCUserSession ----------------------------
(* Two connections, a root user and the user of the second sitegroup. *)
EXTENDS UserSession, TLC

CONSTANTS a, b, su, joe, u, v, g, n1, n2

TwoSitegroups == <<[name |-> n1, admingroup |-> NoGroup], [name |-> n2, admingroup |-> g]>>
Home(p) == IF p = su THEN 0 ELSE 2
FirstLogin(p) == IF p = joe THEN u ELSE v
FirstGroups(p) == IF p = joe THEN {g} ELSE {RootGroup}

Alike == Permutations(Conn)

=============================================================================
