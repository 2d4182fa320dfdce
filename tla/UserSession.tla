------------------------------ MODULE UserSession ------------------------------
(***************************************************************************)
(* Who a connection acts for: authentication (mgd_auth_su of midgard.c     *)
(* behind midgard_user_auth), the two identities a connection has (that of *)
(* the page and that of a login), the person and the sitegroup it works    *)
(* in, and the sitegroups with the table of their names that every         *)
(* connection loads once (midgard_connection.c, midgard_sitegroup.c).      *)
(*                                                                         *)
(* A login is several SELECTs, and other connections change persons,       *)
(* memberships and sitegroups between them; any of them may be refused,    *)
(* which mgd_vquery answers as if there were no rows.  Whether a password  *)
(* is right is chosen.  PAM, the su mode no public function asks for, and  *)
(* working copies of a connection are left out.                            *)
(***************************************************************************)
EXTENDS Integers, Sequences, FiniteSets

CONSTANTS
  Conn,        \* connections
  Person,      \* persons
  Login,       \* user names
  Group,       \* groups, the root group aside
  SgName,      \* names of sitegroups
  MaxSg,       \* bound: sitegroup ids are 1..MaxSg, and 0 is none
  HomeOf(_),   \* the sitegroup of a person
  LoginOf(_),  \* his first user name
  GroupsOf(_), \* his first groups
  FirstSg,     \* the sitegroups there are at first: a sequence of records
  RootGroup, Nobody, NoName, NoGroup, Ready, NoSg,
  MaxLogins,   \* bound: logins of a behaviour
  MaxChanges   \* bound: its other calls, changes and refused SELECTs

SgId == 1..MaxSg
SgRecord == [name : SgName, admingroup : Group \cup {NoGroup}]

ASSUME SessionAssumption ==
  /\ FirstSg \in Seq(SgRecord) /\ NoSg \notin SgRecord
  /\ MaxSg \in Nat /\ {MaxLogins, MaxChanges} \subseteq Nat
  /\ RootGroup \notin Group /\ NoGroup \notin Group /\ NoGroup # RootGroup
  /\ Nobody \notin Person /\ NoName \notin SgName
  /\ \A p \in Person : /\ HomeOf(p) \in 0..MaxSg /\ LoginOf(p) \in Login
                       /\ GroupsOf(p) \subseteq Group \cup {RootGroup}

VARIABLES
  sitegroup,  \* the sitegroup table: id -> record
  person,     \* the person table
  member,     \* the member table: person -> groups
  current,    \* which identity a connection uses: "page" or "setuid"
  identity,   \* the two identities of a connection
  mgdPerson,  \* mgd->person: the person object a connection signs with
  account,    \* the MidgardUser of a connection, by its person
  sgIds,      \* the table of sitegroup names of a connection
  connSg,     \* the sitegroup of the MidgardConnection
  pc,         \* the call each connection is in
  count,      \* logins and changes so far
  vanished,   \* history: connections whose login did not get its person object
  moved,      \* history: connections whose sitegroup was set after the login
  bearers     \* history: the ids each name ever had

vars == <<sitegroup, person, member, current, identity, mgdPerson, account,
          sgIds, connSg, pc, count, vanished, moved, bearers>>
tables == <<sitegroup, person, member, bearers>>
switches == <<account, sgIds, connSg>>

Blank(sg) == [id |-> Nobody, admin |-> FALSE, root |-> FALSE, groups |-> {}, sg |-> sg]
Cur(c) == identity[c][current[c]]

(* The names of the sitegroups as mgd_legacy_load_sitegroup_cache reads them:
   of two of one name the lookup finds the first, in no set order. *)
Bearing(n) == {i \in SgId : sitegroup[i] # NoSg /\ sitegroup[i].name = n}
IsTable(t) == \A n \in SgName : IF Bearing(n) = {} THEN t[n] = 0 ELSE t[n] \in Bearing(n)

Init ==
  /\ sitegroup = [i \in SgId |-> IF i <= Len(FirstSg) THEN FirstSg[i] ELSE NoSg]
  /\ person = [p \in Person |-> [login |-> LoginOf(p), live |-> TRUE]]
  /\ member = [p \in Person |-> GroupsOf(p)]
  /\ current = [c \in Conn |-> "page"]
  /\ identity = [c \in Conn |-> [w \in {"page", "setuid"} |-> Blank(0)]]
  /\ mgdPerson = [c \in Conn |-> Nobody]
  /\ account = [c \in Conn |-> Nobody]
  /\ \E t \in [SgName -> 0..MaxSg] : IsTable(t) /\ sgIds = [c \in Conn |-> t]
  /\ connSg = [c \in Conn |-> 0]
  /\ pc = [c \in Conn |-> Ready]
  /\ count = [logins |-> 0, changes |-> 0]
  /\ vanished = {} /\ moved = {}
  /\ bearers = [n \in SgName |-> Bearing(n)]

Goto(c, p) == pc' = [pc EXCEPT ![c] = p]
Change == count.changes < MaxChanges /\ count' = [count EXCEPT !.changes = @ + 1]
Refused == Change
SetIdentity(c, id) == identity' = [identity EXCEPT ![c][current[c]] = id]

-----------------------------------------------------------------------------
(* mgd_clear of what identity is used; its sitegroup stays. *)
Cleared(id) == Blank(id.sg)

(* Mutant: the identity that was used before is not cleared. *)
StartUncleared(c, setuid, host) ==
  LET now == IF setuid THEN "setuid" ELSE current[c]
      sg == IF setuid THEN host ELSE Cur(c).sg
  IN  /\ current' = [current EXCEPT ![c] = now]
      /\ identity' = [identity EXCEPT ![c][now] = Blank(sg)]
      /\ mgdPerson' = [mgdPerson EXCEPT ![c] = Nobody]

(* The beginning of mgd_auth_su: the identity used so far is cleared, then the
   one to be used. *)
Start(c, setuid, host) ==
  LET now == IF setuid THEN "setuid" ELSE current[c]
      sg == IF setuid THEN host ELSE Cur(c).sg
  IN  /\ current' = [current EXCEPT ![c] = now]
      /\ identity' = [identity EXCEPT ![c] =
           [w \in {"page", "setuid"} |->
             IF w = now THEN Blank(sg)
             ELSE IF w = current[c] THEN Cleared(@[w]) ELSE @[w]]]
      /\ mgdPerson' = [mgdPerson EXCEPT ![c] = Nobody]

(* What a login asks for: a user name, perhaps with a delimiter and the name of
   a sitegroup behind it ("*", "!", "$" for root, ";" for a user without his
   admin rights), as midgard_user_auth or the caller put them together.  Behind
   "+" and ";" the name may be missing. *)
RootDelimiter == {"*", "!", "$"}
Request ==
  {q \in [login : Login, delim : {"none", "+", ";"} \cup RootDelimiter,
          sg : SgName \cup {NoName}, how : {"auth", "sg0", "trusted"}] :
     /\ q.delim = "none" => q.sg = NoName
     /\ q.delim \in RootDelimiter => q.sg # NoName}

(* The calls that take several steps: a login looking for its sitegroup, then
   for the person and his rights, and the creation of a sitegroup. *)
Asking == [at : {"sitegroup"}, q : Request, host : 0..MaxSg, rootuser : BOOLEAN]
Finding == [at : {"person", "member", "object"}, q : Request, host : 0..MaxSg,
            rootuser : BOOLEAN, req : 0..MaxSg, admingroup : Group \cup {NoGroup}]
Founding == [at : {"create"}, name : SgName, admingroup : Group \cup {NoGroup}]
ASSUME ReadyAssumption == Ready \notin Asking \cup Finding \cup Founding

(* mgd_auth and mgd_auth_sg0, called by midgard_user_auth to use the setuid
   identity, and mgd_auth_trusted, which stays with the one used. *)
Auth(c) ==
  /\ pc[c] = Ready /\ count.logins < MaxLogins
  /\ \E q \in Request :
       LET host == IF q.how = "sg0" THEN 0 ELSE Cur(c).sg
           rootuser == q.delim \in RootDelimiter \/ (q.delim = "none" /\ host = 0)
       IN  /\ Start(c, q.how # "trusted", host)
           /\ Goto(c, [at |-> "sitegroup", q |-> q, host |-> host, rootuser |-> rootuser])
  /\ count' = [count EXCEPT !.logins = @ + 1]
  /\ vanished' = vanished \ {c} /\ moved' = moved \ {c}
  /\ UNCHANGED <<tables, switches>>

(* The sitegroup named, or that of the host if none is.  One that is not found,
   or whose SELECT is refused, ends the login, the host's has no admin group. *)
LookupSitegroup(c) ==
  /\ pc[c] # Ready /\ pc[c].at = "sitegroup"
  /\ LET n == pc[c].q.sg
         next(i, g) == Goto(c, [at |-> "person", q |-> pc[c].q, host |-> pc[c].host,
                                rootuser |-> pc[c].rootuser, req |-> i, admingroup |-> g])
         h == pc[c].host
     IN  \/ /\ Refused
            /\ IF n = NoName THEN next(h, NoGroup) ELSE Goto(c, Ready)
         \/ /\ UNCHANGED count
            /\ \/ n # NoName /\ Bearing(n) = {} /\ Goto(c, Ready)
               \/ n # NoName /\ \E i \in Bearing(n) : next(i, sitegroup[i].admingroup)
               \/ n = NoName /\ next(h, IF h = 0 \/ sitegroup[h] = NoSg THEN NoGroup
                                       ELSE sitegroup[h].admingroup)
  /\ UNCHANGED <<tables, switches, current, identity, mgdPerson, vanished, moved>>

(* Mutant: of any sitegroup. *)
CandidatesAnywhere(q, rootuser, req) ==
  {p \in Person : /\ person[p].live /\ person[p].login = q.login
                  /\ rootuser => HomeOf(p) = 0 /\ RootGroup \in member[p]}

(* The persons a login can mean. *)
Candidates(q, rootuser, req) ==
  {p \in Person : /\ person[p].live /\ person[p].login = q.login
                  /\ IF rootuser THEN HomeOf(p) = 0 /\ RootGroup \in member[p]
                     ELSE HomeOf(p) = req}

(* One person only may match, and the password must, unless the login is
   trusted: an empty one in the database never does.  A refused SELECT finds
   nobody. *)
LookupPerson(c) ==
  /\ pc[c] # Ready /\ pc[c].at = "person"
  /\ LET found == Candidates(pc[c].q, pc[c].rootuser, pc[c].req)
     IN  \/ /\ Cardinality(found) = 1 /\ pc[c].q.how = "trusted" => Refused
            /\ Cardinality(found) # 1 \/ pc[c].q.how # "trusted" => UNCHANGED count
            /\ Goto(c, Ready) /\ UNCHANGED identity
         \/ \E p \in found :
              /\ found = {p} /\ UNCHANGED count
              /\ SetIdentity(c, [Cur(c) EXCEPT !.id = p])
              /\ Goto(c, [pc[c] EXCEPT !.at = "member"])
  /\ UNCHANGED <<tables, switches, current, mgdPerson, vanished, moved>>

(* May he work in the sitegroup requested? *)
Granted(rootuser, root, host, req) ==
  \/ rootuser /\ root
  \/ ~rootuser /\ ~root /\ ((host # 0 /\ req = host) \/ (host = 0 /\ req # 0))

(* The groups of the person make him admin or root; the delimiter may give
   rights up again; who is not granted the sitegroup is nobody.  A refused
   SELECT shows no groups. *)
LookupGroups(c) ==
  /\ pc[c] # Ready /\ pc[c].at = "member"
  /\ \E groups \in {member[Cur(c).id], {}} :
     LET p == pc[c]
         root == RootGroup \in groups
         admin == root \/ p.admingroup \in groups
     IN  /\ IF groups = member[Cur(c).id] THEN UNCHANGED count ELSE Refused
         /\ IF Granted(p.rootuser, root, p.host, p.req)
            THEN /\ SetIdentity(c, [id |-> Cur(c).id, groups |-> groups \ {RootGroup}, sg |-> p.req,
                                    admin |-> admin /\ p.q.delim \notin {"$", ";"},
                                    root |-> root /\ p.q.delim \notin {"$", ";", "!"}])
                 /\ Goto(c, [p EXCEPT !.at = "object"])
            ELSE SetIdentity(c, Cleared(Cur(c))) /\ Goto(c, Ready)
  /\ UNCHANGED <<tables, switches, current, mgdPerson, vanished, moved>>

(* midgard_connection_set_sitegroup, with the identity id: a name the table of
   the connection does not have changes nothing, none at all leaves the
   identity alone. *)
SitegroupSet(c, n, id) ==
  LET i == IF n = NoName THEN 0 ELSE sgIds[c][n]
  IN  IF n # NoName /\ i = 0
      THEN connSg' = connSg /\ SetIdentity(c, id)
      ELSE /\ connSg' = [connSg EXCEPT ![c] = i]
           /\ SetIdentity(c, IF n = NoName THEN id ELSE [id EXCEPT !.sg = i])

(* The person object: midgard_object_new by id does not find a person deleted
   in the meantime, nor one whose SELECT is refused, and the call ends with the
   rights it gave and nobody to sign. *)
FetchPerson(c) ==
  /\ pc[c] # Ready /\ pc[c].at = "object"
  /\ LET p == Cur(c).id
         n == pc[c].q.sg
     IN  \/ /\ person[p].live
            /\ mgdPerson' = [mgdPerson EXCEPT ![c] = p]
            /\ account' = [account EXCEPT ![c] = p]
            /\ IF n = NoName THEN UNCHANGED <<connSg, identity>> ELSE SitegroupSet(c, n, Cur(c))
            /\ UNCHANGED <<vanished, count>>
         \/ /\ IF person[p].live THEN Refused ELSE UNCHANGED count
            /\ vanished' = vanished \cup {c}
            /\ UNCHANGED <<mgdPerson, account, connSg, identity>>
  /\ Goto(c, Ready)
  /\ UNCHANGED <<tables, sgIds, current, moved>>

-----------------------------------------------------------------------------
(* mgd_auth_unsetuid: back to the identity of the page, in sitegroup rsg; the
   person stays. *)
Unsetuid(c) ==
  /\ pc[c] = Ready /\ current[c] = "setuid"
  /\ \E rsg \in 0..MaxSg :
       /\ identity' = [identity EXCEPT ![c]["page"].sg = rsg]
       /\ current' = [current EXCEPT ![c] = "page"]
  /\ UNCHANGED <<tables, switches, mgdPerson, pc, count, vanished, moved>>

(* midgard_connection_set_sitegroup *)
SetSitegroup(c) ==
  /\ pc[c] = Ready /\ Change
  /\ \E n \in SgName \cup {NoName} : SitegroupSet(c, n, Cur(c))
  /\ moved' = moved \cup {c}
  /\ UNCHANGED <<tables, account, sgIds, current, mgdPerson, pc, vanished>>

(* mgd_set_sitegroup: by id, whether there is such a sitegroup or not; the
   connection follows by the name in its table. *)
LegacySetSitegroup(c) ==
  /\ pc[c] = Ready /\ Change
  /\ \E i \in 0..MaxSg :
       LET named == {n \in SgName : sgIds[c][n] = i}
           id == [Cur(c) EXCEPT !.sg = i]
       IN  IF i = 0 \/ named = {} THEN SitegroupSet(c, NoName, id)
           ELSE \E n \in named : SitegroupSet(c, n, id)
  /\ moved' = moved \cup {c}
  /\ UNCHANGED <<tables, account, sgIds, current, mgdPerson, pc, vanished>>

(* mgd_force_root and mgd_force_admin: rights without a person. *)
ForceRights(c) ==
  /\ pc[c] = Ready /\ Change
  /\ \E root \in BOOLEAN :
       SetIdentity(c, [Cur(c) EXCEPT !.id = Nobody, !.admin = TRUE, !.root = Cur(c).root \/ root])
  /\ UNCHANGED <<tables, switches, current, mgdPerson, pc, vanished, moved>>

(* midgard_user_new of a person fetched. *)
UserNew(c) ==
  /\ pc[c] = Ready /\ Change
  /\ \E p \in Person : person[p].live /\ account' = [account EXCEPT ![c] = p]
  /\ UNCHANGED <<tables, sgIds, connSg, current, identity, mgdPerson, pc, vanished, moved>>

(* midgard_user_password on the MidgardUser of the connection: a person must be
   there, and root, admin and user may, so everyone.  The name need not be
   free. *)
SetPassword(c) ==
  /\ pc[c] = Ready /\ Change
  /\ mgdPerson[c] # Nobody /\ account[c] # Nobody /\ person[account[c]].live
  /\ \E l \in Login : person' = [person EXCEPT ![account[c]].login = l]
  /\ UNCHANGED <<sitegroup, member, bearers, switches, current, identity, mgdPerson, pc, vanished, moved>>

-----------------------------------------------------------------------------
(* midgard_sitegroup_create: for root; is the name taken? *)
SitegroupCheck(c) ==
  /\ pc[c] = Ready /\ Cur(c).root /\ Change
  /\ \E n \in SgName, g \in Group \cup {NoGroup} :
       Bearing(n) = {} /\ Goto(c, [at |-> "create", name |-> n, admingroup |-> g])
  /\ UNCHANGED <<tables, switches, current, identity, mgdPerson, vanished, moved>>

(* ... the INSERT; its connection loads the names anew. *)
SitegroupCreate(c) ==
  /\ pc[c] # Ready /\ pc[c].at = "create"
  /\ \/ \E i \in SgId :
          /\ sitegroup[i] = NoSg /\ \A j \in 1..(i - 1) : sitegroup[j] # NoSg
          /\ sitegroup' = [sitegroup EXCEPT ![i] = [name |-> pc[c].name, admingroup |-> pc[c].admingroup]]
          /\ bearers' = [bearers EXCEPT ![pc[c].name] = @ \cup {i}]
          /\ \E t \in [SgName -> 0..MaxSg] : IsTable(t)' /\ sgIds' = [sgIds EXCEPT ![c] = t]
     \/ /\ \A i \in SgId : sitegroup[i] # NoSg
        /\ UNCHANGED <<sitegroup, sgIds, bearers>>
  /\ Goto(c, Ready)
  /\ UNCHANGED <<person, member, account, connSg, current, identity, mgdPerson, count, vanished, moved>>

(* midgard_sitegroup_update: for root; any name, and nobody is told. *)
SitegroupUpdate(c) ==
  /\ pc[c] = Ready /\ Cur(c).root /\ Change
  /\ \E i \in SgId, n \in SgName, g \in Group \cup {NoGroup} :
       /\ sitegroup[i] # NoSg
       /\ sitegroup' = [sitegroup EXCEPT ![i] = [name |-> n, admingroup |-> g]]
       /\ bearers' = [bearers EXCEPT ![n] = @ \cup {i}]
  /\ UNCHANGED <<person, member, switches, current, identity, mgdPerson, pc, vanished, moved>>

(* The person and member tables are changed through other programs too. *)
PersonDeleted ==
  /\ Change
  /\ \E p \in Person : person[p].live /\ person' = [person EXCEPT ![p].live = FALSE]
  /\ UNCHANGED <<sitegroup, member, bearers, switches, current, identity, mgdPerson, pc, vanished, moved>>

MemberChanged ==
  /\ Change
  /\ \E p \in Person, g \in Group \cup {RootGroup} :
       member' = [member EXCEPT ![p] = IF g \in @ THEN @ \ {g} ELSE @ \cup {g}]
  /\ UNCHANGED <<sitegroup, person, bearers, switches, current, identity, mgdPerson, pc, vanished, moved>>

Next ==
  \/ PersonDeleted \/ MemberChanged
  \/ \E c \in Conn :
       \/ Auth(c) \/ LookupSitegroup(c) \/ LookupPerson(c) \/ LookupGroups(c) \/ FetchPerson(c)
       \/ Unsetuid(c) \/ SetSitegroup(c) \/ LegacySetSitegroup(c) \/ ForceRights(c) \/ UserNew(c)
       \/ SetPassword(c) \/ SitegroupCheck(c) \/ SitegroupCreate(c) \/ SitegroupUpdate(c)

Spec == Init /\ [][Next]_vars

-----------------------------------------------------------------------------
(* Between calls, a connection that has a user id signs with that person, and
   with no other, whichever of its identities it uses, whoever was logged in
   before and whatever login failed half way (mgd_auth_su); only a login whose
   person object could not be fetched, because it was deleted meanwhile or the
   SELECT refused, leaves rights without that signature.  Of a connection
   without user id nothing is said: back from a setuid login it still signs
   with the person that logged in (mgd_auth_unsetuid). *)
IdentityAgrees ==
  \A c \in Conn \ vanished : pc[c] = Ready /\ Cur(c).id # Nobody => mgdPerson[c] = Cur(c).id

(* Who is root belongs to sitegroup 0: a person of another sitegroup who got
   into the root group is not let in at all.
   A user who is not root works in the sitegroup he belongs to until the
   sitegroup of the connection is set: the name he logs in with is translated
   twice, by the database and by the table of the connection, and the two can
   only differ if the name was given to another sitegroup. *)
WorksAtHome ==
  \A c \in Conn :
    LET p == Cur(c).id IN
    pc[c] = Ready /\ p # Nobody =>
      /\ Cur(c).root => HomeOf(p) = 0
      /\ c \notin moved \cup vanished /\ HomeOf(p) # 0 /\ Cur(c).sg # HomeOf(p)
           => \E n \in SgName : Cardinality(bearers[n]) > 1

=============================================================================
