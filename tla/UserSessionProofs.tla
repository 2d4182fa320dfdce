------------------------- MODULE UserSessionProofs -------------------------
(***************************************************************************)
(* What UserSession guarantees for every number of connections, persons,   *)
(* groups and sitegroups: whose rights a connection has and where it works.*)
(***************************************************************************)
EXTENDS UserSession, FiniteSetTheorems, TLAPS

USE SessionAssumption, ReadyAssumption

(* Types of the variables. *)
Identity == [id : Person \cup {Nobody}, admin : BOOLEAN, root : BOOLEAN,
             groups : SUBSET (Group \cup {RootGroup}), sg : 0..MaxSg]
Call == Asking \cup Finding \cup Founding

TypeOK ==
  /\ sitegroup \in [SgId -> SgRecord \cup {NoSg}]
  /\ person \in [Person -> [login : Login, live : BOOLEAN]]
  /\ member \in [Person -> SUBSET (Group \cup {RootGroup})]
  /\ current \in [Conn -> {"page", "setuid"}]
  /\ identity \in [Conn -> [{"page", "setuid"} -> Identity]]
  /\ mgdPerson \in [Conn -> Person \cup {Nobody}]
  /\ account \in [Conn -> Person \cup {Nobody}]
  /\ sgIds \in [Conn -> [SgName -> 0..MaxSg]]
  /\ connSg \in [Conn -> 0..MaxSg]
  /\ pc \in [Conn -> Call \cup {Ready}]
  /\ count \in [logins : Nat, changes : Nat]
  /\ vanished \subseteq Conn /\ moved \subseteq Conn
  /\ bearers \in [SgName -> SUBSET SgId]

(* Every id a name has, in the table or in the names a connection loaded, is
   one it ever had. *)
NamesRemembered ==
  \A n \in SgName :
    /\ Bearing(n) \subseteq bearers[n]
    /\ \A c \in Conn : sgIds[c][n] \in bearers[n] \cup {0}

Renamed == \E n \in SgName : Cardinality(bearers[n]) > 1

At(c, stages) == pc[c] # Ready /\ pc[c].at \in stages
Resting(c) == pc[c] = Ready \/ At(c, {"create"})

(* While a connection uses the setuid identity, that of the page is nobody's. *)
PageIsNobodys(c) == current[c] = "setuid" => identity[c]["page"].id = Nobody

(* Nobody is logged in until a person is found; the person found is of
   sitegroup 0 for a root login, of the sitegroup requested otherwise. *)
FoundRight(c) ==
  /\ At(c, {"sitegroup", "person"}) => Cur(c).id = Nobody
  /\ At(c, {"person", "member", "object"}) /\ pc[c].q.sg # NoName
       => pc[c].req \in bearers[pc[c].q.sg]
  /\ At(c, {"member", "object"}) =>
       /\ Cur(c).id \in Person
       /\ HomeOf(Cur(c).id) = IF pc[c].rootuser THEN 0 ELSE pc[c].req
  /\ At(c, {"object"}) =>
       /\ Cur(c).root => pc[c].rootuser
       /\ ~pc[c].rootuser => Cur(c).sg = pc[c].req

(* What the properties say of connections between two calls, and during the
   creation of a sitegroup. *)
Signs(c) == c \notin vanished /\ Cur(c).id # Nobody => mgdPerson[c] = Cur(c).id
AtHome(c) ==
  Cur(c).id # Nobody =>
    /\ Cur(c).root => HomeOf(Cur(c).id) = 0
    /\ c \notin moved \cup vanished /\ HomeOf(Cur(c).id) # 0 /\ Cur(c).sg # HomeOf(Cur(c).id)
         => Renamed
SettledRight(c) == Resting(c) => Signs(c) /\ AtHome(c)

ConnOK(c) == PageIsNobodys(c) /\ FoundRight(c) /\ SettledRight(c)

SessionInv == TypeOK /\ NamesRemembered /\ \A c \in Conn : ConnOK(c)

-----------------------------------------------------------------------------
(* What a call that is under way looks like. *)
LEMMA CallIs ==
  ASSUME TypeOK, NEW c \in Conn
  PROVE  /\ At(c, {"sitegroup"}) => pc[c] \in Asking
         /\ At(c, {"person"}) \/ At(c, {"member"}) \/ At(c, {"object"}) => pc[c] \in Finding
         /\ At(c, {"create"}) => pc[c] \in Founding
PROOF
<1>1. pc[c] \in Call \/ pc[c] = Ready
  BY DEF TypeOK
<1> QED
  BY <1>1 DEF At, Call, Asking, Finding, Founding

LEMMA FindingIs ==
  ASSUME NEW p \in Finding
  PROVE  /\ [p EXCEPT !.at = "member"] \in Finding /\ [p EXCEPT !.at = "object"] \in Finding
         /\ p.q \in Request /\ p.host \in 0..MaxSg /\ p.rootuser \in BOOLEAN
         /\ p.req \in 0..MaxSg /\ p.admingroup \in Group \cup {NoGroup}
         /\ p.q.sg \in SgName \cup {NoName}
         /\ \A at \in {"member", "object"} :
              /\ [p EXCEPT !.at = at].at = at /\ [p EXCEPT !.at = at].q = p.q
              /\ [p EXCEPT !.at = at].req = p.req /\ [p EXCEPT !.at = at].rootuser = p.rootuser
PROOF
  BY DEF Finding, Request

LEMMA TypeOfPc ==
  ASSUME TypeOK, NEW c \in Conn, NEW p \in Call \cup {Ready}, Goto(c, p)
  PROVE  pc' \in [Conn -> Call \cup {Ready}] /\ pc'[c] = p
         /\ \A d \in Conn : d # c => pc'[d] = pc[d]
PROOF
  BY DEF TypeOK, Goto

LEMMA TypeOfIdentity ==
  ASSUME TypeOK, NEW c \in Conn, NEW i \in Identity, SetIdentity(c, i)
  PROVE  /\ identity' \in [Conn -> [{"page", "setuid"} -> Identity]]
         /\ identity'[c][current[c]] = i
         /\ current[c] = "setuid" => identity'[c]["page"] = identity[c]["page"]
         /\ \A d \in Conn : d # c => identity'[d] = identity[d]
PROOF
<1>1. identity[c] \in [{"page", "setuid"} -> Identity] /\ current[c] \in {"page", "setuid"}
  BY DEF TypeOK
<1>2. identity' = [identity EXCEPT ![c] = [identity[c] EXCEPT ![current[c]] = i]]
  BY DEF SetIdentity
<1>3. [identity[c] EXCEPT ![current[c]] = i] \in [{"page", "setuid"} -> Identity]
  BY <1>1
<1> QED
  BY <1>1, <1>2, <1>3 DEF TypeOK

LEMMA CurIs ==
  ASSUME TypeOK, NEW c \in Conn
  PROVE  Cur(c) \in Identity
PROOF
<1>1. identity[c] \in [{"page", "setuid"} -> Identity] /\ current[c] \in {"page", "setuid"}
  BY DEF TypeOK
<1> QED
  BY <1>1 DEF Cur

LEMMA BlankIs ==
  ASSUME NEW g \in 0..MaxSg
  PROVE  Blank(g) \in Identity /\ Blank(g).id = Nobody /\ ~Blank(g).root /\ Blank(g).sg = g
PROOF
  BY DEF Blank, Identity

(* An identity with some fields changed. *)
LEMMA ChangedIdentity ==
  ASSUME NEW i \in Identity, NEW g \in 0..MaxSg, NEW p \in Person \cup {Nobody}, NEW r \in BOOLEAN
  PROVE  /\ i.id \in Person \cup {Nobody} /\ i.sg \in 0..MaxSg /\ i.root \in BOOLEAN
         /\ [i EXCEPT !.sg = g] \in Identity /\ [i EXCEPT !.sg = g].id = i.id
         /\ [i EXCEPT !.sg = g].root = i.root /\ [i EXCEPT !.sg = g].sg = g
         /\ [i EXCEPT !.id = p] \in Identity /\ [i EXCEPT !.id = p].id = p
         /\ [i EXCEPT !.id = Nobody, !.admin = TRUE, !.root = r] \in Identity
         /\ [i EXCEPT !.id = Nobody, !.admin = TRUE, !.root = r].id = Nobody
PROOF
  BY DEF Identity

LEMMA LoggedIn ==
  ASSUME NEW i \in Identity, NEW p \in Person
  PROVE  [i EXCEPT !.id = p] \in Identity /\ [i EXCEPT !.id = p].id = p
PROOF
  BY DEF Identity

LEMMA IdsAreFinite ==
  ASSUME NEW S \in SUBSET SgId
  PROVE  IsFiniteSet(S) /\ Cardinality(S) \in Nat
PROOF
<1>1. IsFiniteSet(SgId)
  BY FS_Interval DEF SgId
<1> QED
  BY <1>1, FS_Subset, FS_CardinalityType

(* Names keep the ids they had, so that a name once given twice stays so. *)
MoreBearers == \A n \in SgName : bearers[n] \subseteq bearers'[n]

LEMMA RenamedStays ==
  ASSUME TypeOK, TypeOK', MoreBearers, Renamed
  PROVE  Renamed'
PROOF
<1>1. PICK n \in SgName : Cardinality(bearers[n]) > 1
  BY DEF Renamed
<1>2. bearers[n] \in SUBSET bearers'[n] /\ IsFiniteSet(bearers'[n])
      /\ Cardinality(bearers'[n]) \in Nat /\ Cardinality(bearers[n]) \in Nat
  BY IdsAreFinite DEF MoreBearers, TypeOK
<1>3. Cardinality(bearers[n]) <= Cardinality(bearers'[n])
  BY <1>2, FS_Subset
<1>4. Cardinality(bearers'[n]) > 1
  BY <1>1, <1>2, <1>3
<1> QED
  BY <1>4 DEF Renamed

(* Two ids of one name. *)
LEMMA TwoIds ==
  ASSUME TypeOK, NEW n \in SgName, NEW i \in bearers[n], NEW j \in bearers[n], i # j
  PROVE  Renamed
PROOF
<1>1. {i, j} \in SUBSET bearers[n] /\ IsFiniteSet({i}) /\ Cardinality({i}) = 1 /\ j \notin {i}
  BY FS_Singleton
<1>2. Cardinality({i} \cup {j}) = 2
  <2>1. Cardinality({i} \cup {j}) = Cardinality({i}) + 1
    BY <1>1, FS_AddElement
  <2> QED
    BY <1>1, <2>1
<1>3. Cardinality({i, j}) = 2
  <2>1. {i} \cup {j} = {i, j}
    OBVIOUS
  <2> QED
    BY <1>2, <2>1
<1>4. IsFiniteSet(bearers[n]) /\ Cardinality(bearers[n]) \in Nat
  BY IdsAreFinite DEF TypeOK
<1>5. Cardinality({i, j}) <= Cardinality(bearers[n])
  BY <1>1, <1>4, FS_Subset
<1>6. Cardinality(bearers[n]) > 1
  BY <1>3, <1>4, <1>5
<1> QED
  BY <1>6 DEF Renamed

(* What the steps of others leave a connection. *)
Untouched(c) ==
  /\ identity'[c] = identity[c] /\ current'[c] = current[c]
  /\ mgdPerson'[c] = mgdPerson[c] /\ pc'[c] = pc[c]
  /\ c \in vanished => c \in vanished'
  /\ c \in moved => c \in moved'

LEMMA UntouchedKept ==
  ASSUME SessionInv, TypeOK', MoreBearers, NEW c \in Conn, Untouched(c)
  PROVE  ConnOK(c)'
PROOF
<1>1. TypeOK /\ PageIsNobodys(c) /\ FoundRight(c) /\ SettledRight(c)
  BY DEF SessionInv, ConnOK
<1>2. Cur(c)' = Cur(c) /\ (\A S : At(c, S)' = At(c, S)) /\ Resting(c)' = Resting(c)
  BY DEF Untouched, Cur, At, Resting
<1>3. PageIsNobodys(c)'
  BY <1>1 DEF Untouched, PageIsNobodys
<1>4. FoundRight(c)'
  <2>1. At(c, {"person", "member", "object"}) => pc[c].q.sg \in SgName \cup {NoName}
    BY <1>1, CallIs, FindingIs DEF At
  <2> QED
    BY <1>1, <1>2, <2>1 DEF Untouched, FoundRight, MoreBearers
<1>5. SettledRight(c)'
  BY <1>1, <1>2, RenamedStays DEF Untouched, SettledRight, Signs, AtHome
<1> QED
  BY <1>3, <1>4, <1>5 DEF ConnOK

-----------------------------------------------------------------------------
(* What every step of a connection c must show. *)
StepOf(c) ==
  /\ TypeOK' /\ MoreBearers /\ NamesRemembered'
  /\ \A d \in Conn : d # c => Untouched(d)
  /\ ConnOK(c)'

LEMMA CountIs ==
  ASSUME NEW k \in [logins : Nat, changes : Nat]
  PROVE  /\ [k EXCEPT !.logins = @ + 1] \in [logins : Nat, changes : Nat]
         /\ [k EXCEPT !.changes = @ + 1] \in [logins : Nat, changes : Nat]
PROOF
<1>1. k.logins \in Nat /\ k.changes \in Nat
  OBVIOUS
<1>2. k.logins + 1 \in Nat /\ k.changes + 1 \in Nat
  BY <1>1
<1> QED
  BY <1>2

LEMMA ChangeIs == ASSUME TypeOK, Change PROVE count' \in [logins : Nat, changes : Nat]
PROOF
  BY CountIs DEF TypeOK, Change

LEMMA NamesKept ==
  ASSUME SessionInv, UNCHANGED <<sitegroup, bearers, sgIds>>
  PROVE  MoreBearers /\ NamesRemembered'
PROOF
  BY DEF SessionInv, NamesRemembered, MoreBearers, Bearing

(* A login begins: both identities concerned are nobody's. *)
LEMMA StartIs ==
  ASSUME SessionInv, NEW c \in Conn, NEW setuid \in BOOLEAN, NEW host \in 0..MaxSg,
         Start(c, setuid, host)
  PROVE  /\ identity' \in [Conn -> [{"page", "setuid"} -> Identity]]
         /\ current' \in [Conn -> {"page", "setuid"}]
         /\ mgdPerson' \in [Conn -> Person \cup {Nobody}]
         /\ Cur(c)'.id = Nobody /\ PageIsNobodys(c)'
         /\ \A d \in Conn : d # c => /\ identity'[d] = identity[d] /\ current'[d] = current[d]
                                    /\ mgdPerson'[d] = mgdPerson[d]
PROOF
<1> PICK now, sg : /\ now = (IF setuid THEN "setuid" ELSE current[c])
                   /\ sg = (IF setuid THEN host ELSE Cur(c).sg)
  OBVIOUS
<1>1. TypeOK /\ PageIsNobodys(c)
  BY DEF SessionInv, ConnOK
<1>2. /\ now \in {"page", "setuid"} /\ sg \in 0..MaxSg /\ current[c] \in {"page", "setuid"}
      /\ identity[c] \in [{"page", "setuid"} -> Identity]
  BY <1>1, CurIs, ChangedIdentity DEF TypeOK
<1>3. PICK i \in [{"page", "setuid"} -> Identity] :
        /\ i = [w \in {"page", "setuid"} |->
                  IF w = now THEN Blank(sg)
                  ELSE IF w = current[c] THEN Cleared(identity[c][w]) ELSE identity[c][w]]
        /\ identity' = [identity EXCEPT ![c] = i]
  <2>1. \A w \in {"page", "setuid"} : Cleared(identity[c][w]) \in Identity
    BY <1>2, BlankIs, ChangedIdentity DEF Cleared
  <2>2. [w \in {"page", "setuid"} |->
           IF w = now THEN Blank(sg)
           ELSE IF w = current[c] THEN Cleared(identity[c][w]) ELSE identity[c][w]]
          \in [{"page", "setuid"} -> Identity]
    BY <1>2, <2>1, BlankIs
  <2> QED
    BY <1>1, <2>2 DEF Start, TypeOK
<1>4. current' = [current EXCEPT ![c] = now] /\ mgdPerson' = [mgdPerson EXCEPT ![c] = Nobody]
  BY DEF Start
<1>5. identity'[c] = i /\ current'[c] = now /\ i[now] = Blank(sg)
  BY <1>1, <1>2, <1>3, <1>4 DEF TypeOK
<1>6. Cur(c)'.id = Nobody
  BY <1>2, <1>5, BlankIs DEF Cur
<1>7. PageIsNobodys(c)'
  <2>1. CASE now = "setuid" /\ current[c] = "page"
    <3>1. i["page"] = Cleared(identity[c]["page"])
      BY <1>3, <2>1
    <3> QED
      BY <1>5, <3>1 DEF PageIsNobodys, Cleared, Blank
  <2>2. CASE now = "setuid" /\ current[c] = "setuid"
    <3>1. i["page"] = identity[c]["page"]
      BY <1>3, <2>2
    <3> QED
      BY <1>1, <1>5, <2>2, <3>1 DEF PageIsNobodys
  <2> QED
    BY <1>2, <1>5, <2>1, <2>2 DEF PageIsNobodys
<1> QED
  BY <1>1, <1>2, <1>3, <1>4, <1>6, <1>7 DEF TypeOK

LEMMA AuthStep == ASSUME SessionInv, NEW c \in Conn, Auth(c) PROVE StepOf(c)
PROOF
<1>1. TypeOK
  BY DEF SessionInv
<1>2. PICK q \in Request, host \in 0..MaxSg, rootuser \in BOOLEAN :
        /\ Start(c, q.how # "trusted", host)
        /\ Goto(c, [at |-> "sitegroup", q |-> q, host |-> host, rootuser |-> rootuser])
  <2>1. PICK q \in Request :
          LET host == IF q.how = "sg0" THEN 0 ELSE Cur(c).sg
              rootuser == q.delim \in RootDelimiter \/ (q.delim = "none" /\ host = 0)
          IN  /\ Start(c, q.how # "trusted", host)
              /\ Goto(c, [at |-> "sitegroup", q |-> q, host |-> host, rootuser |-> rootuser])
    BY DEF Auth
  <2>2. Cur(c).sg \in 0..MaxSg /\ 0 \in 0..MaxSg
    BY <1>1, CurIs DEF Identity
  <2> QED
    BY <2>1, <2>2
<1> PICK p : p = [at |-> "sitegroup", q |-> q, host |-> host, rootuser |-> rootuser]
  OBVIOUS
<1>3. p \in Asking /\ p \in Call /\ p # Ready /\ p.at = "sitegroup"
  BY DEF Asking, Call
<1>4. /\ pc' \in [Conn -> Call \cup {Ready}] /\ pc'[c] = p
      /\ \A d \in Conn : d # c => pc'[d] = pc[d]
  BY <1>1, <1>2, <1>3, TypeOfPc
<1>5. /\ identity' \in [Conn -> [{"page", "setuid"} -> Identity]]
      /\ current' \in [Conn -> {"page", "setuid"}]
      /\ mgdPerson' \in [Conn -> Person \cup {Nobody}]
      /\ Cur(c)'.id = Nobody /\ PageIsNobodys(c)'
      /\ \A d \in Conn : d # c => /\ identity'[d] = identity[d] /\ current'[d] = current[d]
                                 /\ mgdPerson'[d] = mgdPerson[d]
  BY <1>2, StartIs
<1>6. /\ count' = [count EXCEPT !.logins = @ + 1]
      /\ vanished' = vanished \ {c} /\ moved' = moved \ {c}
      /\ UNCHANGED <<sitegroup, person, member, bearers, account, sgIds, connSg>>
  BY DEF Auth, tables, switches
<1>7. TypeOK'
  <2>1. count' \in [logins : Nat, changes : Nat]
    BY <1>1, <1>6, CountIs DEF TypeOK
  <2>2. vanished' \subseteq Conn /\ moved' \subseteq Conn
    BY <1>1, <1>6 DEF TypeOK
  <2>3. UNCHANGED <<sitegroup, person, member, bearers, account, sgIds, connSg>>
    BY <1>6
  <2> QED
    BY <1>1, <1>4, <1>5, <2>1, <2>2, <2>3 DEF TypeOK
<1>8. ConnOK(c)'
  BY <1>3, <1>4, <1>5 DEF ConnOK, FoundRight, SettledRight, Resting, At
<1> QED
  BY <1>4, <1>5, <1>6, <1>7, <1>8, NamesKept DEF StepOf, Untouched

(* A step of a login that leaves everything but the call and perhaps the      *)
(* identity alone.                                                            *)
OnlyCall(c) ==
  /\ UNCHANGED <<sitegroup, person, member, bearers, account, sgIds, connSg,
                 current, mgdPerson, vanished, moved>>
  /\ count' \in [logins : Nat, changes : Nat]
  /\ \E p \in Call \cup {Ready} : Goto(c, p)
  /\ UNCHANGED identity \/ \E i \in Identity : SetIdentity(c, i)

LEMMA OnlyCallStep ==
  ASSUME SessionInv, NEW c \in Conn, OnlyCall(c),
         FoundRight(c)', SettledRight(c)'
  PROVE  StepOf(c)
PROOF
<1>1. TypeOK /\ PageIsNobodys(c)
  BY DEF SessionInv, ConnOK
<1>2. /\ pc' \in [Conn -> Call \cup {Ready}]
      /\ \A d \in Conn : d # c => pc'[d] = pc[d]
  BY <1>1, TypeOfPc DEF OnlyCall
<1>3. /\ identity' \in [Conn -> [{"page", "setuid"} -> Identity]]
      /\ current[c] = "setuid" => identity'[c]["page"] = identity[c]["page"]
      /\ \A d \in Conn : d # c => identity'[d] = identity[d]
  BY <1>1, TypeOfIdentity DEF OnlyCall, TypeOK
<1>4. /\ UNCHANGED <<sitegroup, person, member, bearers, account, sgIds, connSg,
                     current, mgdPerson, vanished, moved>>
      /\ count' \in [logins : Nat, changes : Nat]
  BY DEF OnlyCall
<1>5. TypeOK'
  BY <1>1, <1>2, <1>3, <1>4 DEF TypeOK
<1>6. ConnOK(c)'
  BY <1>1, <1>3, <1>4 DEF ConnOK, PageIsNobodys
<1> QED
  BY <1>2, <1>3, <1>4, <1>5, <1>6, NamesKept DEF StepOf, Untouched

LEMMA LookupSitegroupStep ==
  ASSUME SessionInv, NEW c \in Conn, LookupSitegroup(c) PROVE StepOf(c)
PROOF
<1>1. TypeOK /\ NamesRemembered /\ FoundRight(c) /\ At(c, {"sitegroup"})
  BY DEF SessionInv, ConnOK, LookupSitegroup, At
<1>2. pc[c] \in Asking /\ Cur(c).id = Nobody
  BY <1>1, CallIs DEF FoundRight, At
<1> PICK n : n = pc[c].q.sg
  OBVIOUS
<1>3. n \in SgName \cup {NoName} /\ pc[c].host \in 0..MaxSg
  BY <1>2 DEF Asking, Request
<1>4. /\ UNCHANGED <<sitegroup, person, member, bearers, account, sgIds, connSg,
                     current, identity, mgdPerson, vanished, moved>>
      /\ count' \in [logins : Nat, changes : Nat]
  BY <1>1, ChangeIs DEF LookupSitegroup, tables, switches, Refused, TypeOK
<1>5. Cur(c)' = Cur(c)
  BY <1>4 DEF Cur
<1>6. CASE Goto(c, Ready)
  <2>1. OnlyCall(c) /\ pc'[c] = Ready
    BY <1>1, <1>4, <1>6, TypeOfPc DEF OnlyCall
  <2>2. FoundRight(c)' /\ SettledRight(c)'
    BY <1>2, <1>5, <2>1 DEF FoundRight, SettledRight, At, Signs, AtHome
  <2> QED
    BY <2>1, <2>2, OnlyCallStep
<1>7. ASSUME NEW i \in 0..MaxSg, NEW g \in Group \cup {NoGroup}, n # NoName => i \in bearers[n],
             Goto(c, [at |-> "person", q |-> pc[c].q, host |-> pc[c].host,
                      rootuser |-> pc[c].rootuser, req |-> i, admingroup |-> g])
      PROVE  StepOf(c)
  <2>1. PICK p : p = [at |-> "person", q |-> pc[c].q, host |-> pc[c].host,
                      rootuser |-> pc[c].rootuser, req |-> i, admingroup |-> g]
    OBVIOUS
  <2>2. p \in Finding /\ p.at = "person" /\ p.req = i /\ p.q.sg = n
    BY <1>2, <2>1 DEF Asking, Finding
  <2>3. OnlyCall(c) /\ pc'[c] = p /\ p # Ready
    BY <1>1, <1>4, <1>7, <2>1, <2>2, TypeOfPc DEF OnlyCall, Call
  <2>4. FoundRight(c)' /\ SettledRight(c)'
    BY <1>2, <1>4, <1>5, <1>7, <2>2, <2>3 DEF FoundRight, SettledRight, At, Resting
  <2> QED
    BY <2>3, <2>4, OnlyCallStep
<1>8. ASSUME n # NoName, NEW i \in Bearing(n),
             Goto(c, [at |-> "person", q |-> pc[c].q, host |-> pc[c].host,
                      rootuser |-> pc[c].rootuser, req |-> i, admingroup |-> sitegroup[i].admingroup])
      PROVE  StepOf(c)
  <2>1. i \in bearers[n] /\ i \in 0..MaxSg /\ i \in SgId /\ sitegroup[i] # NoSg
    BY <1>1, <1>3, <1>8 DEF NamesRemembered, Bearing, SgId
  <2>2. sitegroup[i].admingroup \in Group \cup {NoGroup}
    BY <1>1, <2>1 DEF TypeOK, SgRecord
  <2> QED
    BY <1>7, <1>8, <2>1, <2>2
<1> PICK h, own : h = pc[c].host /\ own = IF h = 0 \/ sitegroup[h] = NoSg THEN NoGroup
                                          ELSE sitegroup[h].admingroup
  OBVIOUS
<1>9. own \in Group \cup {NoGroup}
  <2>1. h # 0 => h \in SgId
    BY <1>3 DEF SgId
  <2> QED
    BY <1>1, <2>1 DEF TypeOK, SgRecord
<1>10. ASSUME n = NoName, NEW g \in {own, NoGroup},
             Goto(c, [at |-> "person", q |-> pc[c].q, host |-> pc[c].host,
                      rootuser |-> pc[c].rootuser, req |-> h, admingroup |-> g])
      PROVE  StepOf(c)
  <2>1. g \in Group \cup {NoGroup}
    BY <1>9
  <2> QED
    BY <1>3, <1>7, <1>10, <2>1
<1>11. \/ Goto(c, Ready)
       \/ \E i \in Bearing(n) :
            /\ n # NoName
            /\ Goto(c, [at |-> "person", q |-> pc[c].q, host |-> pc[c].host,
                        rootuser |-> pc[c].rootuser, req |-> i, admingroup |-> sitegroup[i].admingroup])
       \/ \E g \in {own, NoGroup} :
            /\ n = NoName
            /\ Goto(c, [at |-> "person", q |-> pc[c].q, host |-> pc[c].host,
                        rootuser |-> pc[c].rootuser, req |-> h, admingroup |-> g])
  BY DEF LookupSitegroup
<1> QED
  BY <1>6, <1>8, <1>10, <1>11

LEMMA LookupPersonStep ==
  ASSUME SessionInv, NEW c \in Conn, LookupPerson(c) PROVE StepOf(c)
PROOF
<1>1. TypeOK /\ FoundRight(c) /\ At(c, {"person"})
  BY DEF SessionInv, ConnOK, LookupPerson, At
<1>2. pc[c] \in Finding /\ Cur(c).id = Nobody
  BY <1>1, CallIs DEF FoundRight, At
<1>3. /\ UNCHANGED <<sitegroup, person, member, bearers, account, sgIds, connSg,
                     current, mgdPerson, vanished, moved>>
      /\ count' \in [logins : Nat, changes : Nat]
  BY <1>1, ChangeIs DEF LookupPerson, tables, switches, Refused, TypeOK
<1>4. CASE Goto(c, Ready) /\ UNCHANGED identity
  <2>1. OnlyCall(c) /\ pc'[c] = Ready /\ Cur(c)' = Cur(c)
    BY <1>1, <1>3, <1>4, TypeOfPc DEF OnlyCall, Cur
  <2>2. FoundRight(c)' /\ SettledRight(c)'
    BY <1>2, <2>1 DEF FoundRight, SettledRight, At, Signs, AtHome
  <2> QED
    BY <2>1, <2>2, OnlyCallStep
<1>5. ASSUME NEW p \in Candidates(pc[c].q, pc[c].rootuser, pc[c].req),
             SetIdentity(c, [Cur(c) EXCEPT !.id = p]), Goto(c, [pc[c] EXCEPT !.at = "member"])
      PROVE  StepOf(c)
  <2>1. p \in Person /\ HomeOf(p) = IF pc[c].rootuser THEN 0 ELSE pc[c].req
    BY <1>5 DEF Candidates
  <2>2. PICK i \in Identity : i = [Cur(c) EXCEPT !.id = p] /\ i.id = p
    BY <1>1, <2>1, CurIs, LoggedIn
  <2>3. PICK k \in Finding : /\ k = [pc[c] EXCEPT !.at = "member"] /\ k.at = "member"
                            /\ k.q = pc[c].q /\ k.req = pc[c].req /\ k.rootuser = pc[c].rootuser
    BY <1>2, FindingIs
  <2>4. OnlyCall(c) /\ pc'[c] = k /\ k # Ready
    BY <1>1, <1>3, <1>5, <2>2, <2>3, TypeOfPc DEF OnlyCall, Call
  <2>5. Cur(c)' = i
    BY <1>1, <1>3, <1>5, <2>2, TypeOfIdentity DEF Cur
  <2>6. FoundRight(c)' /\ SettledRight(c)'
    BY <1>1, <1>3, <2>1, <2>2, <2>3, <2>4, <2>5 DEF FoundRight, SettledRight, At, Resting
  <2> QED
    BY <2>4, <2>6, OnlyCallStep
<1> QED
  BY <1>4, <1>5 DEF LookupPerson

LEMMA LookupGroupsStep ==
  ASSUME SessionInv, NEW c \in Conn, LookupGroups(c) PROVE StepOf(c)
PROOF
<1>1. TypeOK /\ FoundRight(c) /\ At(c, {"member"})
  BY DEF SessionInv, ConnOK, LookupGroups, At
<1>2. pc[c] \in Finding /\ Cur(c) \in Identity /\ Cur(c).id \in Person
  BY <1>1, CallIs, CurIs DEF FoundRight, At
<1>3. /\ UNCHANGED <<sitegroup, person, member, bearers, account, sgIds, connSg,
                     current, mgdPerson, vanished, moved>>
      /\ count' \in [logins : Nat, changes : Nat]
  BY <1>1, ChangeIs DEF LookupGroups, tables, switches, Refused, TypeOK
<1> DEFINE Outcome(gs, root, admin) ==
      \/ /\ Granted(pc[c].rootuser, root, pc[c].host, pc[c].req)
         /\ SetIdentity(c, [id |-> Cur(c).id, groups |-> gs \ {RootGroup}, sg |-> pc[c].req,
                            admin |-> admin /\ pc[c].q.delim \notin {"$", ";"},
                            root |-> root /\ pc[c].q.delim \notin {"$", ";", "!"}])
         /\ Goto(c, [pc[c] EXCEPT !.at = "object"])
      \/ SetIdentity(c, Cleared(Cur(c))) /\ Goto(c, Ready)
<1>0. PICK groups \in {member[Cur(c).id], {}} :
        Outcome(groups, RootGroup \in groups,
                RootGroup \in groups \/ pc[c].admingroup \in groups)
  BY DEF LookupGroups
<1> PICK root, admin :
      /\ root = (RootGroup \in groups)
      /\ admin = (root \/ pc[c].admingroup \in groups)
  OBVIOUS
<1>6. Outcome(groups, root, admin)
  BY <1>0
<1>4. CASE /\ Granted(pc[c].rootuser, root, pc[c].host, pc[c].req)
           /\ SetIdentity(c, [id |-> Cur(c).id, groups |-> groups \ {RootGroup}, sg |-> pc[c].req,
                              admin |-> admin /\ pc[c].q.delim \notin {"$", ";"},
                              root |-> root /\ pc[c].q.delim \notin {"$", ";", "!"}])
           /\ Goto(c, [pc[c] EXCEPT !.at = "object"])
  <2>1. PICK k \in Finding : /\ k = [pc[c] EXCEPT !.at = "object"] /\ k.at = "object"
                            /\ k.q = pc[c].q /\ k.req = pc[c].req /\ k.rootuser = pc[c].rootuser
    BY <1>2, FindingIs
  <2>2. groups \in SUBSET (Group \cup {RootGroup}) /\ pc[c].req \in 0..MaxSg
    BY <1>1, <1>2 DEF TypeOK, Finding
  <2>3. PICK i \in Identity :
          /\ i.id = Cur(c).id /\ i.sg = pc[c].req /\ (i.root => root)
          /\ SetIdentity(c, i)
    <3> PICK a \in BOOLEAN, b \in BOOLEAN :
          /\ a = (admin /\ pc[c].q.delim \notin {"$", ";"})
          /\ b = (root /\ pc[c].q.delim \notin {"$", ";", "!"})
      OBVIOUS
    <3>1. [id |-> Cur(c).id, groups |-> groups \ {RootGroup}, sg |-> pc[c].req,
           admin |-> a, root |-> b] \in Identity
      BY <1>2, <2>2 DEF Identity
    <3> QED
      BY <1>4, <3>1
  <2>4. root => pc[c].rootuser
    BY <1>4 DEF Granted
  <2>5. OnlyCall(c) /\ pc'[c] = k /\ k # Ready
    BY <1>1, <1>3, <1>4, <2>1, <2>3, TypeOfPc DEF OnlyCall, Call
  <2>6. Cur(c)' = i
    BY <1>1, <1>3, <2>3, TypeOfIdentity DEF Cur
  <2>7. /\ HomeOf(Cur(c).id) = (IF pc[c].rootuser THEN 0 ELSE pc[c].req)
        /\ pc[c].q.sg # NoName => pc[c].req \in bearers[pc[c].q.sg]
    BY <1>1 DEF FoundRight, At
  <2>8. FoundRight(c)' /\ SettledRight(c)'
    <3>1. pc'[c].at = "object" /\ pc'[c] # Ready
      BY <2>1, <2>5
    <3>2. SettledRight(c)'
      BY <3>1 DEF SettledRight, Resting, At
    <3>3. FoundRight(c)'
      <4>1. /\ pc'[c].q = pc[c].q /\ pc'[c].req = pc[c].req
            /\ pc'[c].rootuser = pc[c].rootuser /\ bearers' = bearers
        BY <1>3, <2>1, <2>5
      <4>2. Cur(c)'.id = Cur(c).id /\ Cur(c)'.sg = pc[c].req /\ (Cur(c)'.root => pc[c].rootuser)
        BY <2>3, <2>4, <2>6
      <4> QED
        BY <1>2, <2>7, <3>1, <4>1, <4>2 DEF FoundRight, At
    <3> QED
      BY <3>2, <3>3
  <2> QED
    BY <2>5, <2>8, OnlyCallStep
<1>5. CASE SetIdentity(c, Cleared(Cur(c))) /\ Goto(c, Ready)
  <2>1. Cur(c).sg \in 0..MaxSg
    BY <1>2 DEF Identity
  <2>2. PICK i \in Identity : i = Cleared(Cur(c)) /\ i.id = Nobody
    BY <2>1, BlankIs DEF Cleared
  <2>3. OnlyCall(c) /\ pc'[c] = Ready
    BY <1>1, <1>3, <1>5, <2>2, TypeOfPc DEF OnlyCall
  <2>4. Cur(c)' = i
    BY <1>1, <1>3, <1>5, <2>2, TypeOfIdentity DEF Cur
  <2>5. FoundRight(c)' /\ SettledRight(c)'
    BY <2>2, <2>3, <2>4 DEF FoundRight, SettledRight, At, Signs, AtHome
  <2> QED
    BY <2>3, <2>5, OnlyCallStep
<1> QED
  BY <1>4, <1>5, <1>6

(* The sitegroup of a connection is set: to one that bears the name, or not.  *)
LEMMA SitegroupSetIs ==
  ASSUME TypeOK, NamesRemembered, NEW c \in Conn, NEW n \in SgName \cup {NoName},
         NEW i \in Identity, SitegroupSet(c, n, i)
  PROVE  /\ connSg' \in [Conn -> 0..MaxSg]
         /\ \E k \in Identity :
              /\ SetIdentity(c, k) /\ k.id = i.id /\ k.root = i.root
              /\ k.sg = i.sg \/ (n # NoName /\ k.sg \in bearers[n])
PROOF
<1> PICK g : g = IF n = NoName THEN 0 ELSE sgIds[c][n]
  OBVIOUS
<1>1. g \in 0..MaxSg /\ (n # NoName => g \in bearers[n] \cup {0})
  <2>1. CASE n = NoName
    BY <2>1
  <2>2. CASE n # NoName
    BY <2>2 DEF TypeOK, NamesRemembered
  <2> QED
    BY <2>1, <2>2
<1>2. CASE n # NoName /\ g = 0
  BY <1>2 DEF SitegroupSet, TypeOK
<1>3. CASE ~(n # NoName /\ g = 0)
  <2>1. connSg' = [connSg EXCEPT ![c] = g] /\ SetIdentity(c, IF n = NoName THEN i ELSE [i EXCEPT !.sg = g])
    BY <1>3 DEF SitegroupSet
  <2>2. connSg' \in [Conn -> 0..MaxSg]
    BY <1>1, <2>1 DEF TypeOK
  <2>3. n # NoName => [i EXCEPT !.sg = g] \in Identity /\ [i EXCEPT !.sg = g].sg = g
                      /\ [i EXCEPT !.sg = g].id = i.id /\ [i EXCEPT !.sg = g].root = i.root
                      /\ g \in bearers[n]
    BY <1>1, <1>3 DEF Identity
  <2>4. CASE n = NoName
    BY <2>1, <2>2, <2>4
  <2>5. CASE n # NoName
    BY <2>1, <2>2, <2>3, <2>5
  <2> QED
    BY <2>4, <2>5
<1> QED
  BY <1>2, <1>3

LEMMA FetchPersonStep ==
  ASSUME SessionInv, NEW c \in Conn, FetchPerson(c) PROVE StepOf(c)
PROOF
<1>1. TypeOK /\ NamesRemembered /\ FoundRight(c) /\ PageIsNobodys(c) /\ At(c, {"object"})
  BY DEF SessionInv, ConnOK, FetchPerson, At
<1>2. pc[c] \in Finding /\ Cur(c) \in Identity /\ Cur(c).id \in Person
  BY <1>1, CallIs, CurIs DEF FoundRight, At
<1> PICK p, n : p = Cur(c).id /\ n = pc[c].q.sg
  OBVIOUS
<1>3. n \in SgName \cup {NoName}
  BY <1>2, FindingIs
<1>4. /\ UNCHANGED <<sitegroup, person, member, bearers, sgIds, current, moved>>
      /\ count' \in [logins : Nat, changes : Nat]
  BY <1>1, ChangeIs DEF FetchPerson, tables, Refused, TypeOK
<1>5. /\ pc' \in [Conn -> Call \cup {Ready}] /\ pc'[c] = Ready
      /\ \A d \in Conn : d # c => pc'[d] = pc[d]
  BY <1>1, TypeOfPc DEF FetchPerson
<1>6. HomeOf(p) = (IF pc[c].rootuser THEN 0 ELSE pc[c].req) /\ (Cur(c).root => pc[c].rootuser)
      /\ (~pc[c].rootuser => Cur(c).sg = pc[c].req) /\ (n # NoName => pc[c].req \in bearers[n])
  BY <1>1 DEF FoundRight, At
<1>7. CASE /\ vanished' = vanished \cup {c}
           /\ UNCHANGED <<mgdPerson, account, connSg, identity>>
  <2>1. TypeOK'
    BY <1>1, <1>4, <1>5, <1>7 DEF TypeOK
  <2>2. Cur(c)' = Cur(c)
    BY <1>4, <1>7 DEF Cur
  <2>3. SettledRight(c)'
    BY <1>5, <1>6, <1>7, <2>2 DEF SettledRight, Signs, AtHome
  <2>4. ConnOK(c)'
    BY <1>1, <1>4, <1>5, <1>7, <2>3 DEF ConnOK, PageIsNobodys, FoundRight, At
  <2> QED
    BY <1>4, <1>5, <1>7, <2>1, <2>4, NamesKept DEF StepOf, Untouched
<1>8. CASE /\ mgdPerson' = [mgdPerson EXCEPT ![c] = p]
           /\ account' = [account EXCEPT ![c] = p]
           /\ IF n = NoName THEN UNCHANGED <<connSg, identity>> ELSE SitegroupSet(c, n, Cur(c))
           /\ UNCHANGED vanished
  <2>1. PICK k \in Identity :
          /\ identity' \in [Conn -> [{"page", "setuid"} -> Identity]]
          /\ connSg' \in [Conn -> 0..MaxSg]
          /\ Cur(c)' = k /\ k.id = p /\ k.root = Cur(c).root
          /\ k.sg = Cur(c).sg \/ (n # NoName /\ k.sg \in bearers[n])
          /\ current[c] = "setuid" => identity'[c]["page"] = identity[c]["page"]
          /\ \A d \in Conn : d # c => identity'[d] = identity[d]
    <3>1. CASE n = NoName
      BY <1>1, <1>2, <1>4, <1>8, <3>1 DEF Cur, TypeOK
    <3>2. CASE n # NoName
      <4>1. SitegroupSet(c, n, Cur(c))
        BY <1>8, <3>2
      <4>2. PICK k \in Identity :
              /\ SetIdentity(c, k) /\ k.id = p /\ k.root = Cur(c).root
              /\ k.sg = Cur(c).sg \/ (n # NoName /\ k.sg \in bearers[n])
        BY <1>1, <1>2, <1>3, <4>1, SitegroupSetIs
      <4>3. connSg' \in [Conn -> 0..MaxSg]
        BY <1>1, <1>2, <1>3, <4>1, SitegroupSetIs
      <4>4. Cur(c)' = k
        BY <1>1, <1>4, <4>2, TypeOfIdentity DEF Cur
      <4> QED
        BY <1>1, <4>2, <4>3, <4>4, TypeOfIdentity
    <3> QED
      BY <3>1, <3>2
  <2>2. /\ mgdPerson' \in [Conn -> Person \cup {Nobody}] /\ mgdPerson'[c] = p
        /\ account' \in [Conn -> Person \cup {Nobody}]
        /\ \A d \in Conn : d # c => mgdPerson'[d] = mgdPerson[d]
    BY <1>1, <1>2, <1>8 DEF TypeOK
  <2>3. TypeOK'
    BY <1>1, <1>4, <1>5, <1>8, <2>1, <2>2 DEF TypeOK
  <2>4. HomeOf(p) # 0 /\ k.sg # HomeOf(p) => Renamed
    BY <1>1, <1>6, <1>3, <2>1, TwoIds
  <2>5. MoreBearers /\ NamesRemembered'
    BY <1>4, NamesKept
  <2>6. SettledRight(c)'
    BY <1>1, <1>6, <2>1, <2>2, <2>3, <2>4, <2>5, RenamedStays DEF SettledRight, Signs, AtHome
  <2>7. ConnOK(c)'
    BY <1>1, <1>4, <1>5, <2>1, <2>6 DEF ConnOK, PageIsNobodys, FoundRight, At
  <2> QED
    BY <1>4, <1>5, <1>8, <2>1, <2>2, <2>3, <2>5, <2>7 DEF StepOf, Untouched
<1> QED
  BY <1>7, <1>8 DEF FetchPerson

-----------------------------------------------------------------------------
(* Calls of one step.                                                         *)
LEMMA ReadyStep ==
  ASSUME SessionInv, NEW c \in Conn, pc[c] = Ready, pc' = pc, UNCHANGED <<sitegroup, bearers, sgIds>>,
         TypeOK', \A d \in Conn : d # c => Untouched(d), PageIsNobodys(c)', Signs(c)', AtHome(c)'
  PROVE  StepOf(c)
PROOF
<1>1. FoundRight(c)'
  BY DEF FoundRight, At
<1> QED
  BY <1>1, NamesKept DEF StepOf, ConnOK, SettledRight

LEMMA UnsetuidStep == ASSUME SessionInv, NEW c \in Conn, Unsetuid(c) PROVE StepOf(c)
PROOF
<1>1. TypeOK /\ PageIsNobodys(c) /\ pc[c] = Ready
  BY DEF SessionInv, ConnOK, Unsetuid
<1>2. PICK rsg \in 0..MaxSg : identity' = [identity EXCEPT ![c]["page"].sg = rsg]
  BY DEF Unsetuid
<1>3. /\ current' = [current EXCEPT ![c] = "page"] /\ current[c] = "setuid"
      /\ UNCHANGED <<sitegroup, person, member, bearers, account, sgIds, connSg,
                     mgdPerson, pc, count, vanished, moved>>
  BY DEF Unsetuid, tables, switches
<1>4. identity[c] \in [{"page", "setuid"} -> Identity] /\ identity[c]["page"] \in Identity
  BY <1>1 DEF TypeOK
<1>5. PICK i \in Identity : i = [identity[c]["page"] EXCEPT !.sg = rsg] /\ i.id = identity[c]["page"].id
  <2>1. /\ [identity[c]["page"] EXCEPT !.sg = rsg] \in Identity
        /\ [identity[c]["page"] EXCEPT !.sg = rsg].id = identity[c]["page"].id
    BY <1>4 DEF Identity
  <2> QED
    BY <2>1
<1>6. identity' = [identity EXCEPT ![c] = [identity[c] EXCEPT !["page"] = i]]
  BY <1>2, <1>5
<1>7. [identity[c] EXCEPT !["page"] = i] \in [{"page", "setuid"} -> Identity]
  BY <1>4
<1>8. /\ identity' \in [Conn -> [{"page", "setuid"} -> Identity]]
      /\ identity'[c]["page"] = i /\ \A d \in Conn : d # c => identity'[d] = identity[d]
  BY <1>1, <1>4, <1>6, <1>7 DEF TypeOK
<1>9. /\ current' \in [Conn -> {"page", "setuid"}] /\ current'[c] = "page"
      /\ \A d \in Conn : d # c => current'[d] = current[d]
  BY <1>1, <1>3 DEF TypeOK
<1>10. TypeOK'
  BY <1>1, <1>3, <1>8, <1>9 DEF TypeOK
<1>11. Cur(c)'.id = Nobody
  BY <1>1, <1>3, <1>5, <1>8, <1>9 DEF Cur, PageIsNobodys
<1>12. PageIsNobodys(c)' /\ Signs(c)' /\ AtHome(c)'
  BY <1>9, <1>11 DEF PageIsNobodys, Signs, AtHome
<1> QED
  BY <1>1, <1>3, <1>8, <1>9, <1>10, <1>12, ReadyStep DEF Untouched

(* The sitegroup of a connection, or its rights without a person.             *)
LEMMA SwitchStep ==
  ASSUME SessionInv, NEW c \in Conn, pc[c] = Ready, count' \in [logins : Nat, changes : Nat],
         connSg' \in [Conn -> 0..MaxSg], NEW i \in Identity, SetIdentity(c, i),
         UNCHANGED <<sitegroup, person, member, bearers, account, sgIds, current, mgdPerson, pc, vanished>>,
         \/ i.id = Nobody /\ UNCHANGED moved
         \/ i.id = Cur(c).id /\ i.root = Cur(c).root /\ moved' = moved \cup {c}
  PROVE  StepOf(c)
PROOF
<1>1. TypeOK /\ PageIsNobodys(c) /\ Signs(c) /\ AtHome(c)
  BY DEF SessionInv, ConnOK, SettledRight, Resting
<1>2. /\ identity' \in [Conn -> [{"page", "setuid"} -> Identity]]
      /\ current[c] = "setuid" => identity'[c]["page"] = identity[c]["page"]
      /\ \A d \in Conn : d # c => identity'[d] = identity[d]
  BY <1>1, TypeOfIdentity
<1>3. Cur(c)' = i
  BY <1>1, TypeOfIdentity DEF Cur
<1>4. TypeOK'
  BY <1>1, <1>2 DEF TypeOK
<1>5. PageIsNobodys(c)'
  BY <1>1, <1>2 DEF PageIsNobodys
<1>6. Signs(c)' /\ AtHome(c)'
  BY <1>1, <1>3 DEF Signs, AtHome
<1> QED
  BY <1>2, <1>4, <1>5, <1>6, ReadyStep DEF Untouched

LEMMA SetSitegroupStep ==
  ASSUME SessionInv, NEW c \in Conn, SetSitegroup(c) \/ LegacySetSitegroup(c) PROVE StepOf(c)
PROOF
<1>1. TypeOK /\ NamesRemembered /\ pc[c] = Ready
  BY DEF SessionInv, SetSitegroup, LegacySetSitegroup
<1>2. Cur(c) \in Identity
  BY <1>1, CurIs
<1>3. /\ UNCHANGED <<sitegroup, person, member, bearers, account, sgIds, current, mgdPerson, pc, vanished>>
      /\ moved' = moved \cup {c} /\ count' \in [logins : Nat, changes : Nat]
  BY <1>1, ChangeIs DEF SetSitegroup, LegacySetSitegroup, tables
<1>4. PICK n \in SgName \cup {NoName}, i \in Identity :
        SitegroupSet(c, n, i) /\ i.id = Cur(c).id /\ i.root = Cur(c).root
  <2>1. CASE SetSitegroup(c)
    BY <1>2, <2>1 DEF SetSitegroup
  <2>2. CASE LegacySetSitegroup(c)
    <3>1. PICK g \in 0..MaxSg, n \in SgName \cup {NoName} : SitegroupSet(c, n, [Cur(c) EXCEPT !.sg = g])
      BY <2>2 DEF LegacySetSitegroup
    <3>2. /\ [Cur(c) EXCEPT !.sg = g] \in Identity
          /\ [Cur(c) EXCEPT !.sg = g].id = Cur(c).id /\ [Cur(c) EXCEPT !.sg = g].root = Cur(c).root
      BY <1>2 DEF Identity
    <3> QED
      BY <3>1, <3>2
  <2> QED
    BY <2>1, <2>2
<1>5. connSg' \in [Conn -> 0..MaxSg]
  BY <1>1, <1>4, SitegroupSetIs
<1>6. PICK k \in Identity : SetIdentity(c, k) /\ k.id = Cur(c).id /\ k.root = Cur(c).root
  BY <1>1, <1>4, SitegroupSetIs
<1> QED
  BY <1>1, <1>3, <1>5, <1>6, SwitchStep

LEMMA ForceStep == ASSUME SessionInv, NEW c \in Conn, ForceRights(c) PROVE StepOf(c)
PROOF
<1>1. TypeOK /\ pc[c] = Ready
  BY DEF SessionInv, ForceRights
<1>2. Cur(c) \in Identity
  BY <1>1, CurIs
<1>3. PICK r \in BOOLEAN : SetIdentity(c, [Cur(c) EXCEPT !.id = Nobody, !.admin = TRUE, !.root = r])
  <2>1. PICK root \in BOOLEAN :
          SetIdentity(c, [Cur(c) EXCEPT !.id = Nobody, !.admin = TRUE, !.root = Cur(c).root \/ root])
    BY DEF ForceRights
  <2>2. (Cur(c).root \/ root) \in BOOLEAN
    OBVIOUS
  <2> QED
    BY <2>1, <2>2
<1>4. /\ [Cur(c) EXCEPT !.id = Nobody, !.admin = TRUE, !.root = r] \in Identity
      /\ [Cur(c) EXCEPT !.id = Nobody, !.admin = TRUE, !.root = r].id = Nobody
  BY <1>2 DEF Identity
<1>5. PICK k \in Identity : SetIdentity(c, k) /\ k.id = Nobody
  BY <1>3, <1>4
<1>6. /\ UNCHANGED <<sitegroup, person, member, bearers, account, sgIds, connSg, current, mgdPerson,
                     pc, vanished, moved>>
      /\ count' \in [logins : Nat, changes : Nat]
  BY <1>1, ChangeIs DEF ForceRights, tables, switches
<1> QED
  BY <1>1, <1>5, <1>6, SwitchStep DEF TypeOK

LEMMA PersonIs ==
  ASSUME NEW w \in [login : Login, live : BOOLEAN], NEW l \in Login
  PROVE  /\ [w EXCEPT !.login = l] \in [login : Login, live : BOOLEAN]
         /\ [w EXCEPT !.live = FALSE] \in [login : Login, live : BOOLEAN]
PROOF
  OBVIOUS

(* Whatever leaves the identities, the calls and the names alone.             *)
Aside == UNCHANGED <<sitegroup, bearers, sgIds, connSg, current, identity, mgdPerson, pc, vanished, moved>>

LEMMA AsideStep ==
  ASSUME SessionInv, Aside, TypeOK' PROVE SessionInv'
PROOF
<1>1. \A c \in Conn : Untouched(c)
  BY DEF Aside, Untouched
<1>2. MoreBearers /\ NamesRemembered'
  BY NamesKept DEF Aside
<1> QED
  BY <1>1, <1>2, UntouchedKept DEF SessionInv

LEMMA AsideType ==
  ASSUME SessionInv, NEW c \in Conn, UserNew(c) \/ SetPassword(c)
  PROVE  Aside /\ TypeOK'
PROOF
<1>1. TypeOK
  BY DEF SessionInv
<1>2. Aside /\ count' \in [logins : Nat, changes : Nat] /\ UNCHANGED member
  BY <1>1, ChangeIs DEF UserNew, SetPassword, Aside, tables, switches
<1>3. account' \in [Conn -> Person \cup {Nobody}]
  BY <1>1 DEF UserNew, SetPassword, switches, TypeOK
<1>4. person' \in [Person -> [login : Login, live : BOOLEAN]]
  <2>1. CASE UserNew(c)
    BY <1>1, <2>1 DEF UserNew, tables, TypeOK
  <2>2. CASE SetPassword(c)
    <3>1. PICK l \in Login : person' = [person EXCEPT ![account[c]].login = l]
      BY <2>2 DEF SetPassword
    <3>2. account[c] \in Person
      BY <1>1, <2>2 DEF SetPassword, TypeOK
    <3>3. [person[account[c]] EXCEPT !.login = l] \in [login : Login, live : BOOLEAN]
      <4>1. person[account[c]] \in [login : Login, live : BOOLEAN]
        BY <1>1, <3>2 DEF TypeOK
      <4> QED
        BY <4>1, PersonIs
    <3> QED
      BY <1>1, <3>1, <3>2, <3>3 DEF TypeOK
  <2> QED
    BY <2>1, <2>2
<1> QED
  BY <1>1, <1>2, <1>3, <1>4 DEF TypeOK, Aside

LEMMA OutsideType ==
  ASSUME SessionInv, PersonDeleted \/ MemberChanged
  PROVE  Aside /\ TypeOK'
PROOF
<1>1. TypeOK
  BY DEF SessionInv
<1>2. Aside /\ count' \in [logins : Nat, changes : Nat] /\ UNCHANGED account
  BY <1>1, ChangeIs DEF PersonDeleted, MemberChanged, Aside, switches
<1>3. person' \in [Person -> [login : Login, live : BOOLEAN]]
  <2>1. CASE MemberChanged
    BY <1>1, <2>1 DEF MemberChanged, TypeOK
  <2>2. CASE PersonDeleted
    <3>1. PICK p \in Person : person' = [person EXCEPT ![p].live = FALSE]
      BY <2>2 DEF PersonDeleted
    <3>2. PICK l : l = person[p].login
      OBVIOUS
    <3>3. person[p] \in [login : Login, live : BOOLEAN] /\ l \in Login
      BY <1>1, <3>2 DEF TypeOK
    <3>4. [person[p] EXCEPT !.live = FALSE] \in [login : Login, live : BOOLEAN]
      BY <3>3, PersonIs
    <3> QED
      BY <1>1, <3>1, <3>4 DEF TypeOK
  <2> QED
    BY <2>1, <2>2
<1>4. member' \in [Person -> SUBSET (Group \cup {RootGroup})]
  <2>1. CASE PersonDeleted
    BY <1>1, <2>1 DEF PersonDeleted, TypeOK
  <2>2. CASE MemberChanged
    <3>1. PICK p \in Person, g \in Group \cup {RootGroup} :
            member' = [member EXCEPT ![p] = IF g \in @ THEN @ \ {g} ELSE @ \cup {g}]
      BY <2>2 DEF MemberChanged
    <3>2. (IF g \in member[p] THEN member[p] \ {g} ELSE member[p] \cup {g}) \in SUBSET (Group \cup {RootGroup})
      BY <1>1 DEF TypeOK
    <3> QED
      BY <1>1, <3>1, <3>2 DEF TypeOK
  <2> QED
    BY <2>1, <2>2
<1> QED
  BY <1>1, <1>2, <1>3, <1>4 DEF TypeOK, Aside

(* The sitegroups.                                                            *)
LEMMA SitegroupCheckStep == ASSUME SessionInv, NEW c \in Conn, SitegroupCheck(c) PROVE StepOf(c)
PROOF
<1>1. TypeOK /\ PageIsNobodys(c) /\ Signs(c) /\ AtHome(c)
  BY DEF SessionInv, ConnOK, SettledRight, Resting, SitegroupCheck
<1>2. PICK n \in SgName, g \in Group \cup {NoGroup} :
        Goto(c, [at |-> "create", name |-> n, admingroup |-> g])
  BY DEF SitegroupCheck
<1> PICK p : p = [at |-> "create", name |-> n, admingroup |-> g]
  OBVIOUS
<1>3. p \in Founding /\ p \in Call /\ p # Ready /\ p.at = "create"
  BY DEF Founding, Call
<1>4. /\ pc' \in [Conn -> Call \cup {Ready}] /\ pc'[c] = p
      /\ \A d \in Conn : d # c => pc'[d] = pc[d]
  BY <1>1, <1>2, <1>3, TypeOfPc
<1>5. /\ UNCHANGED <<sitegroup, person, member, bearers, account, sgIds, connSg, current, identity,
                     mgdPerson, vanished, moved>>
      /\ count' \in [logins : Nat, changes : Nat]
  BY <1>1, ChangeIs DEF SitegroupCheck, tables, switches
<1>6. TypeOK'
  BY <1>1, <1>4, <1>5 DEF TypeOK
<1>7. Cur(c)' = Cur(c)
  BY <1>5 DEF Cur
<1>8. PageIsNobodys(c)' /\ Signs(c)' /\ AtHome(c)'
  BY <1>1, <1>5, <1>7 DEF PageIsNobodys, Signs, AtHome, Renamed
<1>9. FoundRight(c)'
  BY <1>3, <1>4 DEF FoundRight, At
<1> QED
  BY <1>4, <1>5, <1>6, <1>8, <1>9, NamesKept DEF StepOf, Untouched, ConnOK, SettledRight

(* A record of the sitegroup table is written, by an INSERT or an UPDATE.     *)
LEMMA RecordWritten ==
  ASSUME SessionInv, NEW i \in SgId, NEW n \in SgName, NEW g \in Group \cup {NoGroup},
         sitegroup' = [sitegroup EXCEPT ![i] = [name |-> n, admingroup |-> g]],
         bearers' = [bearers EXCEPT ![n] = @ \cup {i}]
  PROVE  /\ sitegroup' \in [SgId -> SgRecord \cup {NoSg}]
         /\ bearers' \in [SgName -> SUBSET SgId] /\ MoreBearers
         /\ \A m \in SgName : Bearing(m)' \subseteq bearers'[m]
PROOF
<1>1. TypeOK /\ NamesRemembered
  BY DEF SessionInv
<1>2. PICK w \in SgRecord : w = [name |-> n, admingroup |-> g] /\ w.name = n
  <2>1. [name |-> n, admingroup |-> g] \in SgRecord /\ [name |-> n, admingroup |-> g].name = n
    BY DEF SgRecord
  <2> QED
    BY <2>1
<1>3. sitegroup' \in [SgId -> SgRecord \cup {NoSg}]
  BY <1>1, <1>2 DEF TypeOK
<1>4. bearers' \in [SgName -> SUBSET SgId] /\ MoreBearers /\ i \in bearers'[n]
  BY <1>1 DEF TypeOK, MoreBearers
<1>5. sitegroup'[i].name = n /\ \A j \in SgId : j # i => sitegroup'[j] = sitegroup[j]
  BY <1>1, <1>2 DEF TypeOK
<1>6. ASSUME NEW m \in SgName, NEW j \in Bearing(m)' PROVE j \in bearers'[m]
  <2>1. j \in SgId /\ sitegroup'[j] # NoSg /\ sitegroup'[j].name = m
    BY <1>6 DEF Bearing
  <2>2. CASE j = i
    BY <1>4, <1>5, <2>1, <2>2
  <2>3. CASE j # i
    <3>1. j \in Bearing(m)
      BY <1>5, <2>1, <2>3 DEF Bearing
    <3> QED
      BY <1>1, <1>4, <3>1 DEF NamesRemembered, MoreBearers
  <2> QED
    BY <2>2, <2>3
<1> QED
  BY <1>3, <1>4, <1>6

LEMMA SitegroupCreateStep == ASSUME SessionInv, NEW c \in Conn, SitegroupCreate(c) PROVE StepOf(c)
PROOF
<1>1. /\ TypeOK /\ NamesRemembered /\ PageIsNobodys(c) /\ SettledRight(c)
      /\ At(c, {"create"}) /\ pc[c] \in Founding
  BY CallIs DEF SessionInv, ConnOK, SitegroupCreate, At
<1>2. Signs(c) /\ AtHome(c)
  BY <1>1 DEF SettledRight, Resting
<1>3. /\ pc' \in [Conn -> Call \cup {Ready}] /\ pc'[c] = Ready
      /\ \A d \in Conn : d # c => pc'[d] = pc[d]
  BY <1>1, TypeOfPc DEF SitegroupCreate
<1>4. UNCHANGED <<person, member, account, connSg, current, identity, mgdPerson, count, vanished, moved>>
  BY DEF SitegroupCreate
<1>5. /\ sitegroup' \in [SgId -> SgRecord \cup {NoSg}] /\ sgIds' \in [Conn -> [SgName -> 0..MaxSg]]
      /\ bearers' \in [SgName -> SUBSET SgId] /\ MoreBearers /\ NamesRemembered'
  <2>1. CASE UNCHANGED <<sitegroup, sgIds, bearers>>
    BY <1>1, <2>1, NamesKept DEF TypeOK
  <2>2. ASSUME NEW i \in SgId, NEW t \in [SgName -> 0..MaxSg],
               sitegroup' = [sitegroup EXCEPT ![i] = [name |-> pc[c].name, admingroup |-> pc[c].admingroup]],
               bearers' = [bearers EXCEPT ![pc[c].name] = @ \cup {i}],
               IsTable(t)', sgIds' = [sgIds EXCEPT ![c] = t]
        PROVE  /\ sitegroup' \in [SgId -> SgRecord \cup {NoSg}] /\ sgIds' \in [Conn -> [SgName -> 0..MaxSg]]
               /\ bearers' \in [SgName -> SUBSET SgId] /\ MoreBearers /\ NamesRemembered'
    <3>1. pc[c].name \in SgName /\ pc[c].admingroup \in Group \cup {NoGroup}
      BY <1>1 DEF Founding
    <3>2. /\ sitegroup' \in [SgId -> SgRecord \cup {NoSg}]
          /\ bearers' \in [SgName -> SUBSET SgId] /\ MoreBearers
          /\ \A m \in SgName : Bearing(m)' \subseteq bearers'[m]
      BY <2>2, <3>1, RecordWritten
    <3>3. /\ sgIds' \in [Conn -> [SgName -> 0..MaxSg]] /\ sgIds'[c] = t
          /\ \A d \in Conn : d # c => sgIds'[d] = sgIds[d]
      BY <1>1, <2>2 DEF TypeOK
    <3>4. \A m \in SgName : t[m] \in bearers'[m] \cup {0}
      BY <2>2, <3>2 DEF IsTable
    <3>5. ASSUME NEW m \in SgName, NEW d \in Conn PROVE sgIds'[d][m] \in bearers'[m] \cup {0}
      BY <1>1, <3>2, <3>3, <3>4 DEF NamesRemembered, MoreBearers
    <3> QED
      BY <3>2, <3>3, <3>5 DEF NamesRemembered
  <2> QED
    BY <2>1, <2>2 DEF SitegroupCreate
<1>6. TypeOK'
  BY <1>1, <1>3, <1>4, <1>5 DEF TypeOK
<1>7. Cur(c)' = Cur(c)
  BY <1>4 DEF Cur
<1>8. PageIsNobodys(c)' /\ Signs(c)' /\ AtHome(c)'
  BY <1>1, <1>2, <1>4, <1>5, <1>6, <1>7, RenamedStays DEF PageIsNobodys, Signs, AtHome
<1>9. FoundRight(c)'
  BY <1>3 DEF FoundRight, At
<1> QED
  BY <1>3, <1>4, <1>5, <1>6, <1>8, <1>9 DEF StepOf, Untouched, ConnOK, SettledRight

LEMMA SitegroupUpdateStep == ASSUME SessionInv, NEW c \in Conn, SitegroupUpdate(c) PROVE SessionInv'
PROOF
<1>1. TypeOK /\ NamesRemembered
  BY DEF SessionInv
<1>2. /\ UNCHANGED <<person, member, account, sgIds, connSg, current, identity, mgdPerson, pc, vanished, moved>>
      /\ count' \in [logins : Nat, changes : Nat]
  BY <1>1, ChangeIs DEF SitegroupUpdate, switches
<1>3. /\ sitegroup' \in [SgId -> SgRecord \cup {NoSg}]
      /\ bearers' \in [SgName -> SUBSET SgId] /\ MoreBearers
      /\ \A m \in SgName : Bearing(m)' \subseteq bearers'[m]
  BY RecordWritten DEF SitegroupUpdate
<1>4. TypeOK'
  BY <1>1, <1>2, <1>3 DEF TypeOK
<1>5. NamesRemembered'
  BY <1>1, <1>2, <1>3 DEF NamesRemembered, MoreBearers
<1>6. \A d \in Conn : Untouched(d)
  BY <1>2 DEF Untouched
<1> QED
  BY <1>3, <1>4, <1>5, <1>6, UntouchedKept DEF SessionInv

-----------------------------------------------------------------------------
LEMMA SessionInit == Init => SessionInv
PROOF
<1> SUFFICES ASSUME Init PROVE SessionInv
  OBVIOUS
<1>1. TypeOK
  <2>1. sitegroup \in [SgId -> SgRecord \cup {NoSg}]
    <3>1. \A i \in SgId : i <= Len(FirstSg) => FirstSg[i] \in SgRecord
      BY DEF SgId
    <3> QED
      BY <3>1 DEF Init
  <2>2. Blank(0) \in Identity
    BY BlankIs
  <2>3. \A n \in SgName : Bearing(n) \subseteq SgId
    BY DEF Bearing
  <2>4. sgIds \in [Conn -> [SgName -> 0..MaxSg]] /\ connSg \in [Conn -> 0..MaxSg]
    BY DEF Init
  <2> QED
    BY <2>1, <2>2, <2>3, <2>4 DEF Init, TypeOK
<1>2. NamesRemembered
  <2>1. PICK t \in [SgName -> 0..MaxSg] : IsTable(t) /\ sgIds = [c \in Conn |-> t]
    BY DEF Init
  <2>2. \A n \in SgName : bearers[n] = Bearing(n) /\ t[n] \in Bearing(n) \cup {0}
    BY <2>1 DEF Init, IsTable
  <2> QED
    BY <2>1, <2>2 DEF NamesRemembered
<1>3. ASSUME NEW c \in Conn PROVE ConnOK(c)
  <2>1. Cur(c).id = Nobody /\ pc[c] = Ready /\ current[c] = "page"
    BY DEF Init, Cur, Blank
  <2> QED
    BY <2>1 DEF ConnOK, PageIsNobodys, FoundRight, SettledRight, At, Signs, AtHome
<1> QED
  BY <1>1, <1>2, <1>3 DEF SessionInv

LEMMA SessionStep == SessionInv /\ [Next]_vars => SessionInv'
PROOF
<1> SUFFICES ASSUME SessionInv, [Next]_vars PROVE SessionInv'
  OBVIOUS
<1>1. ASSUME NEW c \in Conn, StepOf(c) PROVE SessionInv'
  BY <1>1, UntouchedKept DEF StepOf, SessionInv
<1>2. CASE UNCHANGED vars
  BY <1>2, AsideStep DEF vars, Aside, SessionInv, TypeOK
<1>3. ASSUME PersonDeleted \/ MemberChanged PROVE SessionInv'
  BY <1>3, OutsideType, AsideStep
<1>4. ASSUME NEW c \in Conn, UserNew(c) \/ SetPassword(c) PROVE SessionInv'
  BY <1>4, AsideType, AsideStep
<1>5. ASSUME NEW c \in Conn,
             \/ Auth(c) \/ LookupSitegroup(c) \/ LookupPerson(c) \/ LookupGroups(c) \/ FetchPerson(c)
             \/ Unsetuid(c) \/ SetSitegroup(c) \/ LegacySetSitegroup(c) \/ ForceRights(c)
             \/ SitegroupCheck(c) \/ SitegroupCreate(c)
      PROVE  StepOf(c)
  BY <1>5, AuthStep, LookupSitegroupStep, LookupPersonStep, LookupGroupsStep, FetchPersonStep,
     UnsetuidStep, SetSitegroupStep, ForceStep, SitegroupCheckStep, SitegroupCreateStep
<1> QED
  BY <1>1, <1>2, <1>3, <1>4, <1>5, SitegroupUpdateStep DEF Next

(* However logins, switches of identity and changes of persons, memberships   *)
(* and sitegroups interleave: a connection is nobody's until a person was     *)
(* found, and the person found is of the sitegroup the login asked for.       *)
THEOREM SessionInvariant == Spec => []SessionInv
PROOF
  BY SessionInit, SessionStep, PTL DEF Spec

(* Between two calls a connection with a user id signs with that person.      *)
THEOREM RightsAreSigned == Spec => []IdentityAgrees
PROOF
<1>1. SessionInv => IdentityAgrees
  BY DEF SessionInv, ConnOK, SettledRight, Resting, Signs, IdentityAgrees
<1> QED
  BY <1>1, SessionInvariant, PTL

(* Who is root belongs to sitegroup 0, and who is not works where he belongs  *)
(* unless a name went to another sitegroup.                                   *)
THEOREM UsersWorkAtHome == Spec => []WorksAtHome
PROOF
<1>1. SessionInv => WorksAtHome
  BY DEF SessionInv, ConnOK, SettledRight, Resting, AtHome, WorksAtHome, Renamed
<1> QED
  BY <1>1, SessionInvariant, PTL

=============================================================================
