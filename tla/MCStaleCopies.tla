----------------------------- MODULE MCStaleCopies -----------------------------
(* Small instances of ObjectLock and PageResolve for TLC.  Both are about copies of
   records, kept in an instance of an object and in the table cache, and they share
   no state: each is looked at while the other has not begun.

   Users a and b and an anonymous session n lock and approve.  The pages are a root
   page with a style, and an active page below that a second host of another style
   has as its root; a menu in the page and in the second style, a footer in the
   root page and in the first style. *)
EXTENDS ObjectLock, PageResolve, TLC

CONSTANTS a, b, n, c1, c2, s1, s2, news, menu, foot, www

Up(p) == IF p = 2 THEN 1 ELSE Nowhere
PName(p) == IF p = 2 THEN news ELSE menu
PStyle(p) == IF p = 1 THEN s1 ELSE Nowhere
Active(p) == p = 2
SUp(s) == IF s = s2 THEN s1 ELSE Nowhere
EName(e) == IF e \in {10, 13} THEN foot ELSE menu
InOther(e) == e \in {11, 12}
Where(e) == CASE e = 10 -> 1 [] e = 11 -> 2 [] e = 12 -> s2 [] OTHER -> s1
TwoHosts ==
  {[id |-> 1, name |-> www, port |-> 0, prefix |-> <<>>, online |-> TRUE, page |-> 1, style |-> s2],
   [id |-> 2, name |-> www, port |-> 81, prefix |-> <<news>>, online |-> TRUE, page |-> 2, style |-> s2]}

Alike == Permutations({a, b})

VARIABLE begun  \* which of the two has begun

CopiesInit == Init /\ PageInit /\ begun \in {"object", "page"}
CopiesNext == \/ begun = "object" /\ Next /\ UNCHANGED <<pageVars, begun>>
              \/ begun = "page" /\ PageNext /\ UNCHANGED <<vars, begun>>
CopiesSpec == CopiesInit /\ [][CopiesNext]_<<vars, pageVars, begun>>
================================================================================
