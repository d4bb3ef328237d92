---------------------------- MODULE Services_proofs ----------------------------
(***************************************************************************)
(* Proofs about the services that keep their state in rows of the          *)
(* database, for any ids, callers, permissions and rows at the start, and  *)
(* for any number of calls: what is said of a behaviour that exercises one *)
(* of them.                                                                *)
(***************************************************************************)
EXTENDS Services, Sums_proofs, SequenceTheorems, TLAPS

-----------------------------------------------------------------------------
(* The table of the rows (Rows).                                            *)

\* While there is an id for a row the next one is the least that is free.
LEMMA NextIsFree ==
    ASSUME Room
    PROVE  NextId \in Ids /\ row[NextId] = NoRow /\ \A j \in Ids : row[j] = NoRow => NextId <= j
<1> DEFINE free == {i \in Ids : row[i] = NoRow}
<1>1. Ids \in SUBSET Nat
  BY RowsAssumption, FS_CardinalityType
<1>2. free # {} /\ free \in SUBSET Nat
  BY <1>1 DEF Room
<1> DEFINE Less == {p \in Nat \X Nat : p[1] < p[2]}
<1>a. IsWellFoundedOn(Less, Nat)
  BY NatLessThanWellFounded DEF OpToRel
<1>b. PICK m \in free : \A y \in free : <<y, m>> \notin Less
  <2> HIDE DEF Less, free
  <2> QED
    BY <1>2, <1>a, WFMin
<1>3. \A y \in free : ~(y < m)
  BY <1>1, <1>b
<1>4. m \in Ids /\ row[m] = NoRow /\ \A j \in Ids : row[j] = NoRow => m <= j
  BY <1>1, <1>3
<1> QED
  BY <1>4, <1>1 DEF NextId

\* Short lists of statements.
LEMMA ShortLists ==
    \A x, y, z : /\ <<x>> # <<>> /\ Head(<<x>>) = x /\ Tail(<<x>>) = <<>>
                 /\ <<x, y>> # <<>> /\ Head(<<x, y>>) = x /\ Tail(<<x, y>>) = <<y>>
                 /\ <<x, y, z>> # <<>> /\ Head(<<x, y, z>>) = x /\ Tail(<<x, y, z>>) = <<y, z>>
OBVIOUS

\* A list of two is no list of one.
LEMMA TwoAreNotOne == \A x, y, z : <<x, y>> # <<z>>
<1>1. \A x, y, z : Len(<<x, y>>) # Len(<<z>>)
  OBVIOUS
<1> QED
  BY <1>1

\* Lists that are joined: one and one,
LEMMA OneAndOne ==
    ASSUME NEW x, NEW y
    PROVE  <<x>> \o <<y>> = <<x, y>>
<1>1. PICK joined : joined = <<x>> \o <<y>>
  OBVIOUS
<1>2. PICK two : two = <<x, y>>
  OBVIOUS
<1>3. <<x>> \in Seq({x, y}) /\ <<y>> \in Seq({x, y})
  OBVIOUS
<1>4. joined \in Seq({x, y}) /\ Len(joined) = 2 /\ joined[1] = x /\ joined[2] = y
  BY <1>1, <1>3
<1>5. two \in Seq({x, y}) /\ Len(two) = 2 /\ two[1] = x /\ two[2] = y
  BY <1>2
<1>6. Len(joined) = Len(two) /\ \A i \in 1 .. Len(joined) : joined[i] = two[i]
  BY <1>4, <1>5
<1>7. joined = two
  BY <1>4, <1>5, <1>6, SeqEqual
<1> QED
  BY <1>1, <1>2, <1>7

\* one and two.
LEMMA OneAndTwo ==
    ASSUME NEW x, NEW y, NEW z
    PROVE  <<x>> \o <<y, z>> = <<x, y, z>>
<1>1. PICK joined : joined = <<x>> \o <<y, z>>
  OBVIOUS
<1>2. PICK three : three = <<x, y, z>>
  OBVIOUS
<1>3. <<x>> \in Seq({x, y, z}) /\ <<y, z>> \in Seq({x, y, z})
  OBVIOUS
<1>4. /\ joined \in Seq({x, y, z}) /\ Len(joined) = 3
      /\ joined[1] = x /\ joined[2] = y /\ joined[3] = z
  BY <1>1, <1>3
<1>5. /\ three \in Seq({x, y, z}) /\ Len(three) = 3
      /\ three[1] = x /\ three[2] = y /\ three[3] = z
  BY <1>2
<1>6. Len(joined) = Len(three) /\ \A i \in 1 .. Len(joined) : joined[i] = three[i]
  BY <1>4, <1>5
<1>7. joined = three
  BY <1>4, <1>5, <1>6, SeqEqual
<1> QED
  BY <1>1, <1>2, <1>7

\* What an UPDATE leaves of a row.
LEMMA MergeTells ==
    ASSUME NEW r, NEW set
    PROVE  /\ DOMAIN Merge(r, set) = DOMAIN r
           /\ \A f \in DOMAIN r : Merge(r, set)[f] = IF f \in DOMAIN set THEN set[f] ELSE r[f]
BY DEF Merge

-----------------------------------------------------------------------------
(* Sessions, roles and permissions (Access).                                *)

\* Row i of a table is one of that kind.
Is(tab, i, kind) == i \in Ids /\ tab[i].kind = kind

\* Ids are given in order.
InOrder(tab) == \A i, j \in Ids : i < j /\ tab[i] = NoRow => tab[j] = NoRow

\* What a row refers to is there; the owner's role of an organisation stays
\* somebody's, and a grant is within one organisation.
GrantTells(tab, g) ==
    /\ Is(tab, tab[g].user, "user") /\ Is(tab, tab[g].role, "role")
    /\ tab[tab[g].user].org = tab[tab[g].role].org /\ tab[g].code = <<tab[g].user, tab[g].role>>
OwnerTells(tab, r) ==
    tab[r].system /\ ~tab[r].deleted /\ \E g \in Ids : tab[g].kind = "grant" /\ tab[g].role = r
RowTells(tab, i) ==
    /\ tab[i].kind \in {"user", "role"} => Is(tab, tab[i].org, "organization")
    /\ tab[i].kind = "role" /\ tab[i].owner => OwnerTells(tab, i)
    /\ tab[i].kind = "grant" => GrantTells(tab, i)
    /\ tab[i].kind = "token" => Is(tab, tab[i].session, "session") /\ (tab[i].next # 0 => tab[i].revoked)
AccessRows(tab) ==
    /\ DOMAIN tab = Ids /\ InOrder(tab)
    /\ \A i \in Ids : OfTables(tab[i]) /\ RowTells(tab, i)

\* What a call has still to execute, by the operation it is of.
Registering(q) == \E n \in {1, 2} : q = <<[do |-> "register", code |-> n]>>
LoggingIn(tab, q) == \E u \in Ids :
    Is(tab, u, "user") /\ \/ q = <<Increment(u, "fails")>>
                          \/ q = <<Set(u, [fails |-> 0]), OpenSession(u), Insert(Token(0))>>
                          \/ q = <<OpenSession(u), Insert(Token(0))>>
Opening(tab, s, q) == Is(tab, s, "session") /\ q = <<Insert(Token(s))>>
Revoking(tab, q) ==
    \E s \in Ids : Is(tab, s, "session") /\
        \/ \E b \in BOOLEAN : q = <<RevokeAll(s, b)>>
        \/ q = <<Set(s, [revoked |-> TRUE]), RevokeAll(s, FALSE)>>
        \/ \E t \in Ids : Is(tab, t, "session") /\
             q = <<RevokeAll(t, FALSE), Set(s, [revoked |-> TRUE]), RevokeAll(s, FALSE)>>
Refreshing(tab, t, q) ==
    Is(tab, t, "token") /\ q = <<[do |-> "create", set |-> Token(tab[t].session), of |-> t]>>
\* A change of the roles of an organisation, which ends with its Bump.
OfRole(tab, o, r) == Is(tab, r, "role") /\ tab[r].org = o
OfRoles(tab, o, q) ==
    \/ \E slug \in {"owner", "clerk"}, system \in BOOLEAN :
         q = <<Insert(Role(o, slug, system, FALSE, {})), Bump(o)>>
    \/ \E r \in Ids : OfRole(tab, o, r) /\
         \/ q = <<Set(r, <<>>), Bump(o)>>
         \/ \E b \in BOOLEAN : (tab[r].owner => ~b) /\ q = <<Set(r, [deleted |-> b]), Bump(o)>>
         \/ \E perms \in SUBSET Permissions :
              \/ q = <<[do |-> "see", role |-> r, perms |-> perms], Bump(o)>>
              \/ \E seen : q = <<[do |-> "replace", role |-> r, perms |-> perms, seen |-> seen], Bump(o)>>
         \/ \E u \in Ids : /\ Is(tab, u, "user") /\ tab[u].org = o
                           /\ q = <<Insert(UserRole(u, r)), Bump(o)>>
    \/ \E g \in Ids :
         /\ \/ tab[g].kind = "gone"
            \/ /\ tab[g].kind = "grant" /\ OfRole(tab, o, tab[g].role)
               /\ ~tab[tab[g].role].owner
         /\ q = <<Erase(g), Bump(o)>>
Owing(tab, o, q) == Is(tab, o, "organization") /\ (q = <<Bump(o)>> \/ OfRoles(tab, o, q))

Script(tab, q) ==
    \/ q = <<>> \/ Registering(q) \/ LoggingIn(tab, q) \/ Revoking(tab, q)
    \/ \E i \in Ids : Opening(tab, i, q) \/ Refreshing(tab, i, q) \/ Owing(tab, i, q)
Scripts == DOMAIN todo = Callers /\ \A c \in Callers : Script(row, todo[c])

\* What users were allowed when the version was raised is what they are, or
\* a call that changed it has still to raise the version.
VersionTold(o) ==
    \/ row[o].version = 0 \/ row[o].allowed = Allowed(o)
    \/ \E c \in Callers : Owing(row, o, todo[c])
VersionsTold == ~died => \A o \in Ids : Is(row, o, "organization") => VersionTold(o)

\* Without overlaps: one call runs, a session has one live token at most,
\* and one that is revoked has none, or the call is about to revoke them.
Live(tab, s, t) == tab[t].kind = "token" /\ tab[t].session = s /\ ~tab[t].revoked
Unended(tab, s) == ~tab[s].revoked /\ ~tab[s].replayed
OneLive(tab, s) == \A t, u \in Ids : Live(tab, s, t) /\ Live(tab, s, u) => t = u
NoneLive(tab, s) == \A t \in Ids : ~Live(tab, s, t)
SessionTold(s) ==
    /\ OneLive(row, s)
    /\ \/ Unended(row, s) \/ NoneLive(row, s) \/ \E c \in Callers : todo[c] = <<RevokeAll(s, FALSE)>>
Prepared(tab, q) == \A i \in Ids :
    /\ Opening(tab, i, q) =>
         Unended(tab, i) /\ \A t \in Ids : tab[t].kind = "token" => tab[t].session # i
    /\ Refreshing(tab, i, q) => ~tab[i].revoked /\ Unended(tab, tab[i].session)
OneCall == \A c, d \in Callers : ~Idle(c) /\ ~Idle(d) => c = d
SessionsTold == Orderly =>
    /\ OneCall
    /\ \A s \in Ids : Is(row, s, "session") => SessionTold(s)
    /\ \A c \in Callers : Prepared(row, todo[c])

AccessInv == AccessRows(row) /\ Scripts /\ VersionsTold /\ SessionsTold

\* What the tables' rows have.
LEMMA RowFields ==
    ASSUME NEW r, OfTables(r)
    PROVE  /\ r.kind = "none" => r = NoRow
           /\ r.kind \in {"none", "gone", "organization", "user", "role", "grant", "session", "token"}
           /\ r.kind = "gone" => r = Gone
           /\ r.kind = "organization" => DOMAIN r = {"kind", "code", "version", "allowed"}
           /\ r.kind = "user" => DOMAIN r = {"kind", "code", "org", "fails"}
           /\ r.kind = "role" => DOMAIN r = {"kind", "code", "org", "deleted", "system", "owner", "perms"}
           /\ r.kind = "grant" => DOMAIN r = {"kind", "code", "user", "role"}
           /\ r.kind = "session" => DOMAIN r = {"kind", "user", "revoked", "replayed"}
           /\ r.kind = "token" => DOMAIN r = {"kind", "session", "revoked", "next"}
BY DEF OfTables, Blanks, NoRow, Gone, Organization, User, Role, UserRole, Session, Token

\* A row that has the kind and the columns of a row of a table is one.
LEMMA StaysOfTables ==
    ASSUME NEW r, NEW x, OfTables(r), x.kind = r.kind, DOMAIN x = DOMAIN r, r.kind \notin {"none", "gone"}
    PROVE  OfTables(x)
BY DEF OfTables, NoRow, Gone

\* The rows after the first free id are free.
LEMMA FreeFollow ==
    ASSUME Room, DOMAIN row = Ids, InOrder(row)
    PROVE  /\ \A i \in Ids : i >= NextId <=> row[i] = NoRow
           /\ Unspent >= 5 => NextId .. (NextId + 4) \subseteq Ids
<1> DEFINE free == {i \in Ids : row[i] = NoRow}
<1>1. NextId \in Ids /\ row[NextId] = NoRow /\ \A j \in Ids : row[j] = NoRow => NextId <= j
  BY NextIsFree
<1>2. PICK n \in Nat : Ids = 1 .. n
  BY RowsAssumption, FS_CardinalityType
<1>3. ASSUME NEW i \in Ids PROVE i >= NextId <=> row[i] = NoRow
  BY <1>1, <1>2, <1>3 DEF InOrder
<1>4. free = NextId .. n
  BY <1>1, <1>2, <1>3
<1>5. Cardinality(NextId .. n) = n - NextId + 1
  BY SMTT(60), <1>1, <1>2, FS_Interval
<1>6. Unspent = n - NextId + 1
  BY <1>4, <1>5 DEF Unspent
<1> QED
  BY <1>1, <1>2, <1>3, <1>6
-----------------------------------------------------------------------------
\* How tables change: no row loses its id or changes what the references to
\* it rely on, except that a grant may go.
Grows(tab, new) == \A i \in Ids :
    /\ tab[i].kind # "none" =>
         \/ new[i].kind = tab[i].kind
         \/ tab[i].kind = "grant" /\ new[i].kind = "gone"
    /\ tab[i].kind \in {"user", "role"} => new[i].org = tab[i].org
    /\ tab[i].kind = "role" => new[i].owner = tab[i].owner /\ new[i].system = tab[i].system
    /\ tab[i].kind = "token" => new[i].session = tab[i].session
    /\ tab[i].kind = "grant" /\ new[i].kind = "grant" =>
         new[i].user = tab[i].user /\ new[i].role = tab[i].role /\ new[i].code = tab[i].code

\* A row of a kind other than a grant stays of that kind.
LEMMA IsKept ==
    ASSUME NEW tab, NEW new, Grows(tab, new), NEW i, NEW kind, Is(tab, i, kind), kind \notin {"none", "grant"}
    PROVE  Is(new, i, kind)
BY DEF Grows, Is

\* What changes the roles of an organisation still does.
LEMMA OfRolesKept ==
    ASSUME NEW tab, NEW new, Grows(tab, new), NEW o, NEW q, OfRoles(tab, o, q)
    PROVE  OfRoles(new, o, q)
<1>1. \A r \in Ids : OfRole(tab, o, r) => OfRole(new, o, r) /\ new[r].owner = tab[r].owner
  BY DEF Grows, OfRole, Is
<1>2. CASE \E slug \in {"owner", "clerk"}, system \in BOOLEAN :
             q = <<Insert(Role(o, slug, system, FALSE, {})), Bump(o)>>
  BY <1>2 DEF OfRoles
<1>3. ASSUME NEW r \in Ids, OfRole(tab, o, r),
             q = <<Set(r, <<>>), Bump(o)>>
      PROVE  OfRoles(new, o, q)
  BY <1>1, <1>3 DEF OfRoles
<1>4. ASSUME NEW r \in Ids, OfRole(tab, o, r), NEW b \in BOOLEAN, tab[r].owner => ~b,
             q = <<Set(r, [deleted |-> b]), Bump(o)>>
      PROVE  OfRoles(new, o, q)
  BY <1>1, <1>4 DEF OfRoles
<1>5. ASSUME NEW r \in Ids, OfRole(tab, o, r), NEW perms \in SUBSET Permissions,
             \/ q = <<[do |-> "see", role |-> r, perms |-> perms], Bump(o)>>
             \/ \E seen : q = <<[do |-> "replace", role |-> r, perms |-> perms, seen |-> seen], Bump(o)>>
      PROVE  OfRoles(new, o, q)
  BY <1>1, <1>5 DEF OfRoles
<1>6. ASSUME NEW r \in Ids, OfRole(tab, o, r), NEW u \in Ids, Is(tab, u, "user"), tab[u].org = o,
             q = <<Insert(UserRole(u, r)), Bump(o)>>
      PROVE  OfRoles(new, o, q)
  <2>1. Is(new, u, "user") /\ new[u].org = o
    BY <1>6 DEF Grows, Is
  <2> QED
    BY <1>1, <1>6, <2>1 DEF OfRoles
<1>7. ASSUME NEW g \in Ids, q = <<Erase(g), Bump(o)>>,
             \/ tab[g].kind = "gone"
             \/ tab[g].kind = "grant" /\ OfRole(tab, o, tab[g].role) /\ ~tab[tab[g].role].owner
      PROVE  OfRoles(new, o, q)
  <2>1. \/ new[g].kind = "gone"
        \/ new[g].kind = "grant" /\ OfRole(new, o, new[g].role) /\ ~new[new[g].role].owner
    <3>1. CASE tab[g].kind = "gone"
      BY <3>1 DEF Grows
    <3>2. CASE tab[g].kind = "grant" /\ OfRole(tab, o, tab[g].role) /\ ~tab[tab[g].role].owner
      <4>1. tab[g].role \in Ids
        BY <3>2 DEF OfRole, Is
      <4> QED
        BY <3>2, <4>1, <1>1 DEF Grows
    <3> QED
      BY <1>7, <3>1, <3>2
  <2> QED
    BY <1>7, <2>1 DEF OfRoles
<1> QED
  BY <1>2, <1>3, <1>4, <1>5, <1>6, <1>7 DEF OfRoles

\* Whatever a call has still to execute, it still may.
LEMMA OwingKept ==
    ASSUME NEW tab, NEW new, Grows(tab, new), NEW o, NEW q, Owing(tab, o, q)
    PROVE  Owing(new, o, q)
BY OfRolesKept, IsKept DEF Owing

\* A call may still execute what it has left.
LEMMA ScriptKept ==
    ASSUME NEW tab, NEW new, Grows(tab, new), NEW q, Script(tab, q)
    PROVE  Script(new, q)
<1>1. CASE LoggingIn(tab, q)
  <2>1. \A u \in Ids : Is(tab, u, "user") => Is(new, u, "user")
    BY IsKept
  <2>2. LoggingIn(new, q)
    BY <1>1, <2>1 DEF LoggingIn
  <2> QED
    BY <2>2 DEF Script
<1>2. CASE Revoking(tab, q)
  <2>1. \A u \in Ids : Is(tab, u, "session") => Is(new, u, "session")
    BY IsKept
  <2>2. Revoking(new, q)
    BY <1>2, <2>1 DEF Revoking
  <2> QED
    BY <2>2 DEF Script
<1>3. ASSUME NEW i \in Ids, Opening(tab, i, q) PROVE Script(new, q)
  <2>1. Opening(new, i, q)
    BY <1>3, IsKept DEF Opening
  <2> QED
    BY <2>1 DEF Script
<1>4. ASSUME NEW i \in Ids, Refreshing(tab, i, q) PROVE Script(new, q)
  <2>1. new[i].session = tab[i].session
    BY <1>4 DEF Refreshing, Is, Grows
  <2>2. Refreshing(new, i, q)
    BY <1>4, <2>1, IsKept DEF Refreshing
  <2> QED
    BY <2>2 DEF Script
<1>5. ASSUME NEW i \in Ids, Owing(tab, i, q) PROVE Script(new, q)
  <2>1. Owing(new, i, q)
    BY <1>5, OwingKept
  <2> QED
    BY <2>1 DEF Script
<1> QED
  BY <1>1, <1>2, <1>3, <1>4, <1>5 DEF Script
-----------------------------------------------------------------------------
\* What a user may do is a matter of the users, the grants to them and the
\* roles granted.
SameRights(o) ==
    /\ \A v \in Ids : UserOf(o, v)' <=> UserOf(o, v)
    /\ \A v \in Ids, g \in Ids : UserOf(o, v) =>
         /\ row'[g].kind = "grant" /\ row'[g].user = v <=> row[g].kind = "grant" /\ row[g].user = v
         /\ row[g].kind = "grant" /\ row[g].user = v => row'[g].role = row[g].role
    /\ \A r \in Ids : row[r].kind = "role" /\ row[r].org = o =>
         /\ Found(r, "role")' <=> Found(r, "role")
         /\ row'[r].owner = row[r].owner /\ row'[r].perms = row[r].perms

\* Where neither changes, what the users of an organisation may do does not.
LEMMA AllowedKept ==
    ASSUME AccessRows(row), NEW o, SameRights(o)
    PROVE  Allowed(o)' = Allowed(o)
<1>1. ASSUME NEW v \in Ids, UserOf(o, v)
      PROVE  getUserPermissions(v)' = getUserPermissions(v)
  <2> DEFINE roles == {row[g].role : g \in {h \in OfKind("grant") : row[h].user = v}}
             live == {r \in roles : Found(r, "role")}
  <2>1. roles' = roles
    <3>1. {h \in OfKind("grant") : row[h].user = v}' = {h \in OfKind("grant") : row[h].user = v}
      BY <1>1 DEF SameRights, OfKind
    <3>2. \A g \in {h \in OfKind("grant") : row[h].user = v} : row'[g].role = row[g].role
      BY <1>1 DEF SameRights, OfKind
    <3> QED
      BY <3>1, <3>2
  <2>2. \A r \in roles : r \in Ids /\ row[r].kind = "role" /\ row[r].org = o
    BY <1>1 DEF AccessRows, RowTells, GrantTells, Is, OfKind, UserOf
  <2>3. \A r \in roles : /\ Found(r, "role")' <=> Found(r, "role")
                         /\ row'[r].owner = row[r].owner /\ row'[r].perms = row[r].perms
    BY <2>2 DEF SameRights
  <2>4. live' = live
    BY <2>1, <2>3
  <2>5. \A r \in live : row'[r].owner = row[r].owner /\ row'[r].perms = row[r].perms
    BY <2>3
  <2>6. getUserPermissions(v) = IF \E r \in live : row[r].owner THEN {<<"*", "*">>}
                                ELSE UNION {row[r].perms : r \in live}
    BY Zenon DEF getUserPermissions
  <2>7. getUserPermissions(v)' = IF \E r \in live' : row'[r].owner THEN {<<"*", "*">>}
                                 ELSE UNION {row'[r].perms : r \in live'}
    BY Zenon DEF getUserPermissions
  <2>8. {row'[r].perms : r \in live} = {row[r].perms : r \in live}
    BY <2>5
  <2> HIDE DEF roles, live
  <2> QED
    BY <2>4, <2>5, <2>6, <2>7, <2>8
<1>2. {v \in Ids : UserOf(o, v)}' = {v \in Ids : UserOf(o, v)}
  BY DEF SameRights
<1>3. \A v \in {u \in Ids : UserOf(o, u)} : \A p : authorize(v, p)' <=> authorize(v, p)
  BY <1>1 DEF authorize
<1> QED
  BY <1>2, <1>3 DEF Allowed

\* Where no user, grant or role changes, nobody's rights do.
Still(i) == \/ row'[i] = row[i]
            \/ row[i].kind = "user" /\ row'[i].kind = "user" /\ row'[i].org = row[i].org
            \/ row[i].kind \notin {"user", "grant", "role"} /\ row'[i].kind \notin {"user", "grant", "role"}

\* A step in which all rows are still changes nobody's rights.
LEMMA RightsStay ==
    ASSUME \A i \in Ids : Still(i), NEW o
    PROVE  SameRights(o)
BY DEF SameRights, Still, UserOf, Found
-----------------------------------------------------------------------------
\* A call that begins with statements it may execute keeps the invariant.
LEMMA BeginKeeps ==
    ASSUME AccessInv, NEW c \in Callers, NEW st, Begin(c, st), Script(row, st),
           Orderly /\ Quiet => Prepared(row, st)
    PROVE  AccessInv'
<1>1. /\ row' = row /\ died' = died /\ todo' = [todo EXCEPT ![c] = st] /\ todo[c] = <<>>
      /\ overlapped' = (overlapped \/ ~Quiet)
  BY DEF Begin, Ready, Idle
<1>2. /\ DOMAIN todo' = Callers /\ todo'[c] = st
      /\ \A d \in Callers \ {c} : todo'[d] = todo[d]
  BY <1>1 DEF AccessInv, Scripts
<1>3. Scripts'
  BY <1>1, <1>2 DEF AccessInv, Scripts
<1>4. VersionsTold'
  <2> SUFFICES ASSUME ~died, NEW o \in Ids, Is(row, o, "organization") PROVE VersionTold(o)'
    BY <1>1 DEF VersionsTold
  <2>1. \A i \in Ids : Still(i)
    BY <1>1 DEF Still
  <2>2. Allowed(o)' = Allowed(o)
    BY <2>1, RightsStay, AllowedKept DEF AccessInv
  <2>3. ASSUME NEW d \in Callers, Owing(row, o, todo[d]) PROVE VersionTold(o)'
    <3>1. todo[d] # <<>>
      BY <2>3, ShortLists DEF Owing, OfRoles
    <3>2. Owing(row', o, todo'[d])
      BY <1>1, <1>2, <2>3, <3>1
    <3> QED
      BY <3>2 DEF VersionTold
  <2> QED
    BY <1>1, <2>2, <2>3 DEF AccessInv, VersionsTold, VersionTold
<1>5. SessionsTold'
  <2> SUFFICES ASSUME Orderly' PROVE SessionsTold'
    BY DEF SessionsTold
  <2>1. Orderly /\ Quiet
    BY <1>1 DEF Orderly
  <2>2. \A d \in Callers \ {c} : todo'[d] = <<>>
    BY <1>2, <2>1 DEF Quiet, Idle
  <2>3. OneCall'
    BY <2>2 DEF OneCall, Idle
  <2>4. ASSUME NEW s \in Ids, Is(row, s, "session") PROVE SessionTold(s)'
    <3>1. SessionTold(s)
      BY <2>1, <2>4 DEF AccessInv, SessionsTold
    <3>2. \A d \in Callers : todo[d] # <<RevokeAll(s, FALSE)>>
      BY <2>1, ShortLists DEF Quiet, Idle
    <3> QED
      BY <1>1, <3>1, <3>2 DEF SessionTold
  <2>5. \A i \in Ids : ~Opening(row, i, <<>>) /\ ~Refreshing(row, i, <<>>)
    BY DEF Opening, Refreshing
  <2>6. \A d \in Callers : Prepared(row', todo'[d])
    BY <1>1, <1>2, <2>1, <2>2, <2>5 DEF Prepared
  <2> QED
    BY <1>1, <2>3, <2>4, <2>6 DEF SessionsTold
<1> QED
  BY <1>1, <1>3, <1>4, <1>5 DEF AccessInv

\* So does one that dies.
LEMMA ThrowKeeps ==
    ASSUME AccessInv, NEW c \in Callers, Throw(c)
    PROVE  AccessInv'
<1>1. row' = row /\ died' = TRUE /\ todo' = [todo EXCEPT ![c] = <<>>]
  BY DEF Throw
<1>2. Scripts'
  BY <1>1 DEF AccessInv, Scripts, Script
<1> QED
  BY <1>1, <1>2 DEF AccessInv, VersionsTold, SessionsTold, Orderly

\* A statement that leaves call c with the rest.
Done(c, rest) ==
    todo' = [todo EXCEPT ![c] = rest] /\ UNCHANGED <<begun, overlapped, died>>
\* What it has to keep of the versions,
VersionKept(o, q, rest) ==
    \/ row'[o].version = 0 \/ row'[o].allowed = Allowed(o)' \/ Owing(row', o, rest)
    \/ /\ Is(row, o, "organization") /\ row'[o].version = row[o].version
       /\ row'[o].allowed = row[o].allowed /\ SameRights(o) /\ ~Owing(row, o, q)
\* and of the sessions.
SessionKept(s, rest) ==
    /\ OneLive(row', s)
    /\ Unended(row', s) \/ NoneLive(row', s) \/ rest = <<RevokeAll(s, FALSE)>>

\* A statement that keeps both keeps the invariant.
LEMMA StatementKeeps ==
    ASSUME AccessInv, NEW c \in Callers, ~Idle(c), NEW rest, Done(c, rest),
           AccessRows(row'), Grows(row, row'), Script(row', rest),
           ~died => \A o \in Ids : Is(row', o, "organization") => VersionKept(o, todo[c], rest),
           Orderly => /\ \A s \in Ids : Is(row', s, "session") => SessionKept(s, rest)
                      /\ Prepared(row', rest)
    PROVE  AccessInv'
<1>1. /\ DOMAIN todo' = Callers /\ todo'[c] = rest
      /\ \A d \in Callers \ {c} : todo'[d] = todo[d]
      /\ died' = died /\ overlapped' = overlapped
  BY DEF AccessInv, Scripts, Done
<1>2. Scripts'
  BY <1>1, ScriptKept DEF AccessInv, Scripts
<1>3. VersionsTold'
  <2> SUFFICES ASSUME ~died, NEW o \in Ids, Is(row', o, "organization") PROVE VersionTold(o)'
    BY <1>1 DEF VersionsTold
  <2>1. VersionKept(o, todo[c], rest)
    OBVIOUS
  <2>2. CASE Owing(row', o, rest)
    BY <1>1, <2>2 DEF VersionTold
  <2>3. CASE /\ Is(row, o, "organization") /\ row'[o].version = row[o].version
             /\ row'[o].allowed = row[o].allowed /\ SameRights(o) /\ ~Owing(row, o, todo[c])
    <3>1. Allowed(o)' = Allowed(o)
      BY <2>3, AllowedKept DEF AccessInv
    <3>2. VersionTold(o)
      BY <2>3 DEF AccessInv, VersionsTold
    <3>3. ASSUME NEW d \in Callers, Owing(row, o, todo[d]) PROVE Owing(row', o, todo'[d])
      BY <1>1, <2>3, <3>3, OwingKept
    <3> QED
      BY <2>3, <3>1, <3>2, <3>3 DEF VersionTold
  <2> QED
    BY <2>1, <2>2, <2>3 DEF VersionKept, VersionTold
<1>4. SessionsTold'
  <2> SUFFICES ASSUME Orderly' PROVE SessionsTold'
    BY DEF SessionsTold
  <2>1. Orderly
    BY <1>1 DEF Orderly
  <2>2. \A d \in Callers \ {c} : todo'[d] = <<>>
    BY <1>1, <2>1 DEF AccessInv, SessionsTold, OneCall, Idle
  <2>3. OneCall'
    BY <2>2 DEF OneCall, Idle
  <2>4. ASSUME NEW s \in Ids, Is(row', s, "session") PROVE SessionTold(s)'
    BY <1>1, <2>1, <2>4 DEF SessionKept, SessionTold
  <2>5. \A i \in Ids : ~Opening(row', i, <<>>) /\ ~Refreshing(row', i, <<>>)
    BY DEF Opening, Refreshing
  <2>6. \A d \in Callers : Prepared(row', todo'[d])
    BY <1>1, <2>1, <2>2, <2>5 DEF Prepared
  <2> QED
    BY <2>3, <2>4, <2>6 DEF SessionsTold
<1> QED
  BY <1>2, <1>3, <1>4 DEF AccessInv
-----------------------------------------------------------------------------
\* The operations: each begins with statements that it may execute.

\* Only a single insert needs that its session is sound.
LEMMA PreparedUnless ==
    ASSUME NEW tab, NEW q, Head(q).do # "create" \/ Tail(q) # <<>>
    PROVE  Prepared(tab, q)
<1>1. ASSUME NEW x, q = <<x>>, x.do = "create" PROVE FALSE
  BY <1>1, ShortLists
<1>2. ASSUME NEW i \in Ids, Opening(tab, i, q) PROVE FALSE
  BY <1>1, <1>2 DEF Opening, Insert
<1>3. ASSUME NEW i \in Ids, Refreshing(tab, i, q) PROVE FALSE
  BY <1>1, <1>3 DEF Refreshing
<1> QED
  BY <1>2, <1>3 DEF Prepared

\* A change of roles is a list of two statements.
LEMMA RoleBegins ==
    ASSUME AccessInv, NEW c \in Callers, NEW o, Is(row, o, "organization"), NEW st, OfRoles(row, o, st),
           NEW x, st = <<x, Bump(o)>>, Begin(c, st)
    PROVE  AccessInv'
<1>1. Script(row, st)
  <2>1. Owing(row, o, st)
    BY DEF Owing
  <2> QED
    BY <2>1 DEF Script, Is
<1>2. Prepared(row, st)
  <2>1. Tail(st) # <<>>
    BY ShortLists
  <2> QED
    BY <2>1, PreparedUnless
<1> QED
  BY <1>1, <1>2, BeginKeeps

\* A registration begins.
LEMMA RegisterKeeps ==
    ASSUME AccessInv, NEW c \in Callers, Register(c)
    PROVE  AccessInv'
<1>1. PICK n \in {1, 2} : Begin(c, <<[do |-> "register", code |-> n]>>)
  BY DEF Register
<1>2. Script(row, <<[do |-> "register", code |-> n]>>)
  BY DEF Script, Registering
<1>3. Prepared(row, <<[do |-> "register", code |-> n]>>)
  <2>1. Head(<<[do |-> "register", code |-> n]>>).do # "create"
    BY ShortLists
  <2> QED
    BY <2>1, PreparedUnless
<1> QED
  BY <1>1, <1>2, <1>3, BeginKeeps

\* A login begins, with the right password or a wrong one.
LEMMA LoginKeeps ==
    ASSUME AccessInv, NEW c \in Callers, NEW u \in Ids, Login(c, u)
    PROVE  AccessInv'
<1>1. Is(row, u, "user")
  BY DEF Login, Is
<1>2. ASSUME NEW st, Begin(c, st), LoggingIn(row, st), Head(st).do # "create" PROVE AccessInv'
  BY <1>2, PreparedUnless, BeginKeeps DEF Script
<1>3. CASE Begin(c, <<Increment(u, "fails")>>)
  <2>1. LoggingIn(row, <<Increment(u, "fails")>>)
    BY <1>1 DEF LoggingIn
  <2>2. Head(<<Increment(u, "fails")>>).do # "create"
    BY ShortLists DEF Increment
  <2> QED
    BY <1>2, <1>3, <2>1, <2>2
<1>4. CASE Begin(c, <<Set(u, [fails |-> 0]), OpenSession(u), Insert(Token(0))>>)
  <2>1. LoggingIn(row, <<Set(u, [fails |-> 0]), OpenSession(u), Insert(Token(0))>>)
    BY <1>1 DEF LoggingIn
  <2>2. Head(<<Set(u, [fails |-> 0]), OpenSession(u), Insert(Token(0))>>).do # "create"
    BY ShortLists DEF Set
  <2> QED
    BY <1>2, <1>4, <2>1, <2>2
<1> QED
  BY <1>3, <1>4 DEF Login

\* A call that revokes.
LEMMA RevokingBegins ==
    ASSUME AccessInv, NEW c \in Callers, NEW st, Begin(c, st), Revoking(row, st), Head(st).do # "create"
    PROVE  AccessInv'
BY PreparedUnless, BeginKeeps DEF Script

\* A logout begins, with a refresh token or without.
LEMMA LogoutKeeps ==
    ASSUME AccessInv, NEW c \in Callers, NEW s \in Ids, Logout(c, s)
    PROVE  AccessInv'
<1> DEFINE own == <<Set(s, [revoked |-> TRUE]), RevokeAll(s, FALSE)>>
<1>1. Is(row, s, "session")
  BY DEF Logout, Is
<1>2. CASE Begin(c, own)
  <2>1. Revoking(row, own)
    BY <1>1 DEF Revoking
  <2>2. Head(own).do # "create"
    BY ShortLists DEF Set
  <2> QED
    BY <1>2, <2>1, <2>2, RevokingBegins
<1>3. ASSUME NEW t \in OfKind("token"), Begin(c, <<RevokeAll(row[t].session, FALSE)>> \o own)
      PROVE  AccessInv'
  <2> DEFINE st == <<RevokeAll(row[t].session, FALSE), Set(s, [revoked |-> TRUE]), RevokeAll(s, FALSE)>>
  <2>1. <<RevokeAll(row[t].session, FALSE)>> \o own = st
    BY OneAndTwo
  <2>2. Is(row, row[t].session, "session")
    BY <1>3 DEF OfKind, AccessInv, AccessRows, RowTells
  <2>3. Revoking(row, st)
    BY <1>1, <2>2 DEF Revoking, Is
  <2>4. Head(st).do # "create"
    BY ShortLists DEF RevokeAll
  <2> QED
    BY <1>3, <2>1, <2>3, <2>4, RevokingBegins
<1> QED
  BY <1>2, <1>3 DEF Logout

\* A refresh begins, with a token that is good or one that is not.
LEMMA RefreshKeeps ==
    ASSUME AccessInv, NEW c \in Callers, NEW t \in Ids, Refresh(c, t)
    PROVE  AccessInv'
<1>1. Is(row, t, "token") /\ Is(row, row[t].session, "session")
  BY DEF Refresh, Is, AccessInv, AccessRows, RowTells
<1>2. CASE row[t].revoked /\ Begin(c, <<RevokeAll(row[t].session, TRUE)>>)
  <2>1. Revoking(row, <<RevokeAll(row[t].session, TRUE)>>)
    BY <1>1 DEF Revoking, Is
  <2>2. Head(<<RevokeAll(row[t].session, TRUE)>>).do # "create"
    BY ShortLists DEF RevokeAll
  <2> QED
    BY <1>2, <2>1, <2>2, RevokingBegins
<1>3. CASE /\ ~row[t].revoked /\ ~row[row[t].session].revoked
           /\ BeginInsert(c, <<[do |-> "create", set |-> Token(row[t].session), of |-> t]>>)
  <2> DEFINE st == <<[do |-> "create", set |-> Token(row[t].session), of |-> t]>>
  <2>1. Begin(c, st)
    BY <1>3 DEF BeginInsert
  <2>2. Script(row, st)
    BY <1>1 DEF Script, Refreshing
  <2>3. ASSUME Orderly, Quiet PROVE Prepared(row, st)
    <3>1. SessionTold(row[t].session)
      BY <1>1, <2>3 DEF AccessInv, SessionsTold, Is
    <3>2. Live(row, row[t].session, t)
      BY <1>1, <1>3 DEF Live, Is
    <3>3. Unended(row, row[t].session)
      BY <2>3, <3>1, <3>2, ShortLists DEF SessionTold, NoneLive, Quiet, Idle
    <3>4. \A i \in Ids : ~Opening(row, i, st) /\ (Refreshing(row, i, st) => i = t)
      BY DEF Opening, Refreshing, Insert
    <3> QED
      BY <1>3, <3>3, <3>4 DEF Prepared
  <2> QED
    BY <2>1, <2>2, <2>3, BeginKeeps
<1> QED
  BY <1>2, <1>3 DEF Refresh

\* The creation of a role begins.
LEMMA CreateRoleKeeps ==
    ASSUME AccessInv, NEW c \in Callers, NEW o \in OfKind("organization"), CreateRole(c, o)
    PROVE  AccessInv'
<1>1. PICK slug \in {"owner", "clerk"}, system \in BOOLEAN :
        BeginInsert(c, <<Insert(Role(o, slug, system, FALSE, {})), Bump(o)>>)
  BY DEF CreateRole
<1> DEFINE st == <<Insert(Role(o, slug, system, FALSE, {})), Bump(o)>>
<1>2. OfRoles(row, o, st)
  BY DEF OfRoles
<1>3. Is(row, o, "organization")
  BY DEF OfKind, Is
<1>4. Begin(c, st)
  BY <1>1 DEF BeginInsert
<1> HIDE DEF st
<1>5. st = <<Insert(Role(o, slug, system, FALSE, {})), Bump(o)>>
  BY DEF st
<1> QED
  BY <1>2, <1>3, <1>4, <1>5, RoleBegins

\* What is changed of a role begins alike.
LEMMA OfRoleKeeps ==
    ASSUME AccessInv, NEW c \in Callers, NEW o \in OfKind("organization"), NEW r \in Ids,
           \/ UpdateRole(c, o, r) \/ DeleteRole(c, o, r) \/ RestoreRole(c, o, r)
           \/ SetRolePermissions(c, o, r)
    PROVE  AccessInv'
<1>1. Is(row, o, "organization")
  BY DEF OfKind, Is
<1>2. OfRole(row, o, r)
  BY DEF UpdateRole, DeleteRole, RestoreRole, SetRolePermissions, RoleOf, Found, OfRole, Is
<1>3. CASE UpdateRole(c, o, r)
  <2> DEFINE st == <<Set(r, <<>>), Bump(o)>>
  <2>1. OfRoles(row, o, st)
    BY <1>2 DEF OfRoles
  <2>2. Begin(c, st) /\ st = <<Set(r, <<>>), Bump(o)>>
    BY <1>3 DEF UpdateRole
  <2> HIDE DEF st
  <2> QED
    BY <1>1, <2>1, <2>2, RoleBegins
<1>4. ASSUME NEW b \in BOOLEAN, row[r].owner => ~b, Begin(c, <<Set(r, [deleted |-> b]), Bump(o)>>)
      PROVE  AccessInv'
  <2> DEFINE st == <<Set(r, [deleted |-> b]), Bump(o)>>
  <2>1. OfRoles(row, o, st)
    BY <1>2, <1>4 DEF OfRoles
  <2>2. Begin(c, st) /\ st = <<Set(r, [deleted |-> b]), Bump(o)>>
    BY <1>4
  <2> HIDE DEF st
  <2> QED
    BY <1>1, <2>1, <2>2, RoleBegins
<1>5. CASE DeleteRole(c, o, r)
  <2>1. row[r].owner => row[r].system
    BY <1>2 DEF AccessInv, AccessRows, RowTells, OwnerTells, OfRole, Is
  <2> QED
    BY <1>4, <1>5, <2>1 DEF DeleteRole
<1>6. CASE RestoreRole(c, o, r)
  BY <1>4, <1>6 DEF RestoreRole
<1>7. CASE SetRolePermissions(c, o, r)
  <2>1. PICK perms \in SUBSET Permissions :
          Begin(c, <<[do |-> "see", role |-> r, perms |-> perms], Bump(o)>>)
    BY <1>7 DEF SetRolePermissions
  <2> DEFINE st == <<[do |-> "see", role |-> r, perms |-> perms], Bump(o)>>
  <2>2. OfRoles(row, o, st)
    BY <1>2 DEF OfRoles
  <2>3. Begin(c, st) /\ st = <<[do |-> "see", role |-> r, perms |-> perms], Bump(o)>>
    BY <2>1
  <2> HIDE DEF st
  <2> QED
    BY <1>1, <2>2, <2>3, RoleBegins
<1> QED
  BY <1>3, <1>5, <1>6, <1>7

\* So does what is changed of who has it.
LEMMA GrantKeeps ==
    ASSUME AccessInv, NEW c \in Callers, NEW o \in OfKind("organization"), NEW r \in Ids, NEW u \in Ids,
           AssignRole(c, o, u, r) \/ RemoveRole(c, o, u, r)
    PROVE  AccessInv'
<1>1. Is(row, o, "organization")
  BY DEF OfKind, Is
<1>2. OfRole(row, o, r) /\ Is(row, u, "user") /\ row[u].org = o
  BY DEF AssignRole, RemoveRole, RoleOf, UserOf, Found, OfRole, Is
<1>3. CASE AssignRole(c, o, u, r)
  <2> DEFINE st == <<Insert(UserRole(u, r)), Bump(o)>>
  <2>1. OfRoles(row, o, st)
    BY <1>2 DEF OfRoles
  <2>2. Begin(c, st) /\ st = <<Insert(UserRole(u, r)), Bump(o)>>
    BY <1>3 DEF AssignRole, BeginInsert
  <2> HIDE DEF st
  <2> QED
    BY <1>1, <2>1, <2>2, RoleBegins
<1>4. CASE RemoveRole(c, o, u, r)
  <2>1. PICK g \in OfKind("grant") : row[g].code = <<u, r>> /\ Begin(c, <<Erase(g), Bump(o)>>)
    BY <1>4 DEF RemoveRole
  <2>2. g \in Ids /\ row[g].kind = "grant" /\ row[g].role = r /\ ~row[r].owner
    BY <1>4, <2>1 DEF RemoveRole, OfKind, AccessInv, AccessRows, RowTells, GrantTells
  <2> DEFINE st == <<Erase(g), Bump(o)>>
  <2>3. OfRoles(row, o, st)
    BY <1>2, <2>2 DEF OfRoles
  <2>4. Begin(c, st) /\ st = <<Erase(g), Bump(o)>>
    BY <2>1
  <2> HIDE DEF st
  <2> QED
    BY <1>1, <2>3, <2>4, RoleBegins
<1> QED
  BY <1>3, <1>4
-----------------------------------------------------------------------------
\* What a statement leaves of the rows.
Alters(tab, new, i) ==
    /\ new[i].kind = tab[i].kind
    /\ tab[i].kind = "role" /\ tab[i].owner => ~new[i].deleted
    /\ tab[i].kind = "token" => (new[i].next # 0 => new[i].revoked)

\* Rows that only grow, and are altered as that says, go on telling.
LEMMA RowsGrow ==
    ASSUME NEW tab, NEW new, AccessRows(tab), Grows(tab, new), DOMAIN new = Ids, InOrder(new),
           \A i \in Ids : OfTables(new[i]),
           \A i \in Ids : new[i].kind = "gone" \/ Alters(tab, new, i) \/ RowTells(new, i),
           \A g \in Ids : tab[g].kind = "grant" /\ tab[tab[g].role].owner => new[g].kind = "grant"
    PROVE  AccessRows(new)
<1>1. ASSUME NEW i \in Ids, Alters(tab, new, i) PROVE RowTells(new, i)
  <2>1. RowTells(tab, i)
    BY DEF AccessRows
  <2>2. new[i].kind \in {"user", "role"} => Is(new, new[i].org, "organization")
    <3> SUFFICES ASSUME new[i].kind \in {"user", "role"} PROVE Is(new, new[i].org, "organization")
      OBVIOUS
    <3>1. Is(tab, tab[i].org, "organization") /\ new[i].org = tab[i].org
      BY <1>1, <2>1 DEF RowTells, Alters, Grows
    <3> QED
      BY <3>1, IsKept
  <2>3. new[i].kind = "role" /\ new[i].owner => OwnerTells(new, i)
    <3> SUFFICES ASSUME new[i].kind = "role", new[i].owner PROVE OwnerTells(new, i)
      OBVIOUS
    <3>1. tab[i].kind = "role" /\ tab[i].owner /\ new[i].system = tab[i].system
      BY <1>1 DEF Alters, Grows
    <3>2. OwnerTells(tab, i)
      BY <2>1, <3>1 DEF RowTells
    <3>3. PICK g \in Ids : tab[g].kind = "grant" /\ tab[g].role = i
      BY <3>2 DEF OwnerTells
    <3>4. new[g].kind = "grant" /\ new[g].role = i
      BY <3>1, <3>3 DEF Grows
    <3> QED
      BY <1>1, <3>1, <3>2, <3>4 DEF OwnerTells, Alters
  <2>4. new[i].kind = "grant" => GrantTells(new, i)
    <3> SUFFICES ASSUME new[i].kind = "grant" PROVE GrantTells(new, i)
      OBVIOUS
    <3>1. tab[i].kind = "grant" /\ GrantTells(tab, i)
      BY <1>1, <2>1 DEF Alters, RowTells
    <3>2. new[i].user = tab[i].user /\ new[i].role = tab[i].role /\ new[i].code = tab[i].code
      BY <3>1 DEF Grows
    <3>3. /\ Is(new, tab[i].user, "user") /\ new[tab[i].user].org = tab[tab[i].user].org
          /\ Is(new, tab[i].role, "role") /\ new[tab[i].role].org = tab[tab[i].role].org
      BY <3>1 DEF GrantTells, Is, Grows
    <3> QED
      BY <3>1, <3>2, <3>3 DEF GrantTells
  <2>5. new[i].kind = "token" =>
          Is(new, new[i].session, "session") /\ (new[i].next # 0 => new[i].revoked)
    <3> SUFFICES ASSUME new[i].kind = "token"
                 PROVE Is(new, new[i].session, "session") /\ (new[i].next # 0 => new[i].revoked)
      OBVIOUS
    <3>1. Is(tab, tab[i].session, "session") /\ new[i].session = tab[i].session
      BY <1>1, <2>1 DEF RowTells, Alters, Grows
    <3>2. Is(new, new[i].session, "session")
      BY <3>1, IsKept
    <3> QED
      BY <1>1, <3>2 DEF Alters
  <2> QED
    BY <2>2, <2>3, <2>4, <2>5 DEF RowTells
<1>2. ASSUME NEW i \in Ids, new[i].kind = "gone" PROVE RowTells(new, i)
  BY <1>2 DEF RowTells
<1> QED
  BY <1>1, <1>2 DEF AccessRows

\* An insert takes the next id.
LEMMA RowIsAdded ==
    ASSUME AccessRows(row), Room, NEW new, DOMAIN new = Ids, OfTables(new[NextId]),
           new[NextId].kind \notin {"none", "gone"}, RowTells(new, NextId),
           Grows(row, new), \A i \in Ids \ {NextId} : OfTables(new[i]) /\ Alters(row, new, i)
    PROVE  AccessRows(new)
<1>1. NextId \in Ids /\ row[NextId] = NoRow
  BY NextIsFree
<1>2. \A i \in Ids : i >= NextId <=> row[i] = NoRow
  BY FreeFollow DEF AccessRows
<1>3. \A i \in Ids \ {NextId} : new[i] = NoRow <=> row[i] = NoRow
  BY RowFields DEF Alters, AccessRows, NoRow
<1>4. InOrder(new)
  <2>1. PICK n \in Nat : Ids = 1 .. n
    BY RowsAssumption, FS_CardinalityType
  <2>2. new[NextId] # NoRow
    BY DEF NoRow
  <2> SUFFICES ASSUME NEW i \in Ids, NEW j \in Ids, i < j, new[i] = NoRow PROVE new[j] = NoRow
    BY DEF InOrder
  <2>3. row[i] = NoRow /\ i # NextId
    BY <1>3, <2>2
  <2>4. row[j] = NoRow /\ j # NextId
    BY <1>1, <1>2, <2>1, <2>3
  <2> QED
    BY <1>3, <2>4
<1>5. \A i \in Ids : new[i].kind = "gone" \/ Alters(row, new, i) \/ RowTells(new, i)
  OBVIOUS
<1>6. \A g \in Ids : row[g].kind = "grant" => new[g].kind = "grant"
  BY <1>1 DEF Alters, NoRow
<1>7. \A i \in Ids : OfTables(new[i])
  OBVIOUS
<1> QED
  BY <1>4, <1>5, <1>6, <1>7, RowsGrow

\* A change of columns leaves the order of the rows.
LEMMA RowsAreAltered ==
    ASSUME NEW tab, NEW new, AccessRows(tab), DOMAIN new = Ids, Grows(tab, new),
           \A i \in Ids : OfTables(new[i]) /\ Alters(tab, new, i)
    PROVE  AccessRows(new)
<1>1. \A i \in Ids : new[i] = NoRow <=> tab[i] = NoRow
  BY RowFields DEF Alters, AccessRows, NoRow
<1>2. InOrder(new)
  BY <1>1 DEF InOrder, AccessRows
<1>3. \A g \in Ids : tab[g].kind = "grant" => new[g].kind = "grant"
  BY DEF Alters
<1> QED
  BY <1>2, <1>3, RowsGrow
-----------------------------------------------------------------------------
\* The statements.  What is left to a call tells by its head which it is.
LEMMA RevokingTells ==
    ASSUME NEW tab, NEW q, Revoking(tab, q)
    PROVE  \E s \in Ids : Is(tab, s, "session") /\
             \/ \E b \in BOOLEAN : Head(q) = RevokeAll(s, b) /\ Tail(q) = <<>>
             \/ Head(q) = Set(s, [revoked |-> TRUE]) /\ Tail(q) = <<RevokeAll(s, FALSE)>>
             \/ \E t \in Ids : /\ Is(tab, t, "session") /\ Head(q) = RevokeAll(s, FALSE)
                               /\ Tail(q) = <<Set(t, [revoked |-> TRUE]), RevokeAll(t, FALSE)>>
<1>1. PICK s \in Ids : Is(tab, s, "session") /\
        \/ \E b \in BOOLEAN : q = <<RevokeAll(s, b)>>
        \/ q = <<Set(s, [revoked |-> TRUE]), RevokeAll(s, FALSE)>>
        \/ \E t \in Ids : Is(tab, t, "session") /\
             q = <<RevokeAll(t, FALSE), Set(s, [revoked |-> TRUE]), RevokeAll(s, FALSE)>>
  BY DEF Revoking
<1>2. ASSUME NEW b \in BOOLEAN, q = <<RevokeAll(s, b)>>
      PROVE  Head(q) = RevokeAll(s, b) /\ Tail(q) = <<>>
  BY <1>2, ShortLists
<1>3. ASSUME q = <<Set(s, [revoked |-> TRUE]), RevokeAll(s, FALSE)>>
      PROVE  Head(q) = Set(s, [revoked |-> TRUE]) /\ Tail(q) = <<RevokeAll(s, FALSE)>>
  BY <1>3, ShortLists
<1>4. ASSUME NEW t \in Ids, Is(tab, t, "session"),
             q = <<RevokeAll(t, FALSE), Set(s, [revoked |-> TRUE]), RevokeAll(s, FALSE)>>
      PROVE  /\ Head(q) = RevokeAll(t, FALSE)
             /\ Tail(q) = <<Set(s, [revoked |-> TRUE]), RevokeAll(s, FALSE)>>
  <2>1. PICK x, y, z : /\ x = RevokeAll(t, FALSE) /\ y = Set(s, [revoked |-> TRUE])
                       /\ z = RevokeAll(s, FALSE)
    OBVIOUS
  <2>2. q = <<x, y, z>>
    BY <1>4, <2>1
  <2>3. Head(q) = x /\ Tail(q) = <<y, z>>
    BY <2>2, ShortLists
  <2> QED
    BY <2>1, <2>3
<1> QED
  BY <1>1, <1>2, <1>3, <1>4

\* What a login has next.
LEMMA LoggingInTells ==
    ASSUME NEW tab, NEW q, LoggingIn(tab, q)
    PROVE  \E u \in Ids : Is(tab, u, "user") /\
             \/ Head(q) = Increment(u, "fails") /\ Tail(q) = <<>>
             \/ Head(q) = Set(u, [fails |-> 0]) /\ Tail(q) = <<OpenSession(u), Insert(Token(0))>>
             \/ Head(q) = OpenSession(u) /\ Tail(q) = <<Insert(Token(0))>>
<1>1. PICK u \in Ids : Is(tab, u, "user") /\
        \/ q = <<Increment(u, "fails")>>
        \/ q = <<Set(u, [fails |-> 0]), OpenSession(u), Insert(Token(0))>>
        \/ q = <<OpenSession(u), Insert(Token(0))>>
  BY DEF LoggingIn
<1>2. ASSUME q = <<Increment(u, "fails")>>
      PROVE  Head(q) = Increment(u, "fails") /\ Tail(q) = <<>>
  BY <1>2, ShortLists
<1>3. ASSUME q = <<Set(u, [fails |-> 0]), OpenSession(u), Insert(Token(0))>>
      PROVE  Head(q) = Set(u, [fails |-> 0]) /\ Tail(q) = <<OpenSession(u), Insert(Token(0))>>
  BY <1>3, ShortLists
<1>4. ASSUME q = <<OpenSession(u), Insert(Token(0))>>
      PROVE  Head(q) = OpenSession(u) /\ Tail(q) = <<Insert(Token(0))>>
  BY <1>4, ShortLists
<1> QED
  BY <1>1, <1>2, <1>3, <1>4

\* What a change of roles begins with.
RoleHead(tab, o, h) ==
    \/ \E slug \in {"owner", "clerk"}, system \in BOOLEAN : h = Insert(Role(o, slug, system, FALSE, {}))
    \/ \E r \in Ids : OfRole(tab, o, r) /\
         \/ h = Set(r, <<>>)
         \/ \E b \in BOOLEAN : (tab[r].owner => ~b) /\ h = Set(r, [deleted |-> b])
         \/ \E perms \in SUBSET Permissions :
              \/ h = [do |-> "see", role |-> r, perms |-> perms]
              \/ \E seen : h = [do |-> "replace", role |-> r, perms |-> perms, seen |-> seen]
         \/ \E u \in Ids : Is(tab, u, "user") /\ tab[u].org = o /\ h = Insert(UserRole(u, r))
    \/ \E g \in Ids :
         /\ \/ tab[g].kind = "gone"
            \/ /\ tab[g].kind = "grant" /\ OfRole(tab, o, tab[g].role)
               /\ ~tab[tab[g].role].owner
         /\ h = Erase(g)

\* A change of roles is one such statement and the raise of the version.
LEMMA OfRolesIs ==
    ASSUME NEW tab, NEW o, NEW q
    PROVE  OfRoles(tab, o, q) <=> \E h : RoleHead(tab, o, h) /\ q = <<h, Bump(o)>>
BY DEF OfRoles, RoleHead

\* So its head and tail are those.
LEMMA OfRolesTells ==
    ASSUME NEW tab, NEW o, NEW q, OfRoles(tab, o, q)
    PROVE  RoleHead(tab, o, Head(q)) /\ Tail(q) = <<Bump(o)>> /\ q = <<Head(q), Bump(o)>>
<1>1. PICK h : RoleHead(tab, o, h) /\ q = <<h, Bump(o)>>
  BY OfRolesIs
<1>2. Head(q) = h /\ Tail(q) = <<Bump(o)>>
  BY <1>1, ShortLists
<1> QED
  BY <1>1, <1>2

\* Which statements are not those of a change of roles.
LEMMA OwesNot ==
    ASSUME NEW tab, NEW o, NEW q, Head(q) # Bump(o), Tail(q) # <<Bump(o)>>
    PROVE  ~Owing(tab, o, q)
BY ShortLists, OfRolesTells DEF Owing

\* The statements by their names.
LEMMA Statements ==
    /\ \A x : Insert(x).do = "create" /\ Insert(x).set = x
    /\ \A i, x : Set(i, x).do = "update" /\ Set(i, x).ids = {i} /\ Set(i, x).set = x
    /\ \A i : Erase(i).do = "erase" /\ Erase(i).id = i
    /\ \A i, f : Increment(i, f).do = "increment" /\ Increment(i, f).id = i /\ Increment(i, f).field = f
    /\ \A u : OpenSession(u).do = "enter" /\ OpenSession(u).user = u
    /\ \A i, b : /\ RevokeAll(i, b).do = "revoke" /\ RevokeAll(i, b).session = i
                 /\ RevokeAll(i, b).replay = b
    /\ \A o : Bump(o) = Increment(o, "version")
BY DEF Insert, Set, Erase, Increment, OpenSession, RevokeAll, Bump

\* It has one of five names.
LEMMA RoleHeadNames ==
    ASSUME NEW tab, NEW o, NEW h, RoleHead(tab, o, h)
    PROVE  h.do \in {"create", "update", "see", "replace", "erase"}
<1>1. ASSUME NEW slug \in {"owner", "clerk"}, NEW system \in BOOLEAN,
             h = Insert(Role(o, slug, system, FALSE, {}))
      PROVE  h.do = "create"
  BY <1>1, Statements
<1>2. ASSUME NEW r \in Ids, NEW u \in Ids, h = Insert(UserRole(u, r)) PROVE h.do = "create"
  BY <1>2, Statements
<1>3. ASSUME NEW r \in Ids, NEW x, h = Set(r, x) PROVE h.do = "update"
  BY <1>3, Statements
<1>4. ASSUME NEW r \in Ids, NEW perms, h = [do |-> "see", role |-> r, perms |-> perms]
      PROVE h.do = "see"
  BY <1>4
<1>5. ASSUME NEW r \in Ids, NEW perms, NEW seen,
             h = [do |-> "replace", role |-> r, perms |-> perms, seen |-> seen]
      PROVE h.do = "replace"
  BY <1>5
<1>6. ASSUME NEW g \in Ids, h = Erase(g) PROVE h.do = "erase"
  BY <1>6, Statements
<1> QED
  BY <1>1, <1>2, <1>3, <1>4, <1>5, <1>6 DEF RoleHead

\* Its statement, by what it does: it inserts a role or a grant, changes a
\* role, looks at the permissions of one, replaces them, or takes a grant.
Adds(tab, o, h) ==
    \/ \E slug \in {"owner", "clerk"}, system \in BOOLEAN :
         h = Insert(Role(o, slug, system, FALSE, {}))
    \/ \E r \in Ids, u \in Ids : /\ OfRole(tab, o, r) /\ Is(tab, u, "user") /\ tab[u].org = o
                                /\ h = Insert(UserRole(u, r))
EditsRole(tab, o, h) ==
    \E r \in Ids : OfRole(tab, o, r) /\
      \/ h = Set(r, <<>>)
      \/ \E b \in BOOLEAN : (tab[r].owner => ~b) /\ h = Set(r, [deleted |-> b])
LooksAt(tab, o, h) ==
    \E r \in Ids, perms \in SUBSET Permissions :
      OfRole(tab, o, r) /\ h = [do |-> "see", role |-> r, perms |-> perms]
Swaps(tab, o, h) ==
    \E r \in Ids, perms \in SUBSET Permissions : \E seen :
      OfRole(tab, o, r) /\ h = [do |-> "replace", role |-> r, perms |-> perms, seen |-> seen]
Takes(tab, o, h) ==
    \E g \in Ids :
      /\ h = Erase(g)
      /\ \/ tab[g].kind = "gone"
         \/ /\ tab[g].kind = "grant" /\ OfRole(tab, o, tab[g].role)
            /\ ~tab[tab[g].role].owner

\* An insert adds a role or a grant.
LEMMA RoleInserts ==
    ASSUME NEW tab, NEW o, NEW h, RoleHead(tab, o, h), h.do = "create"
    PROVE  Adds(tab, o, h)
<1>1. \A r, x : h # Set(r, x)
  BY Statements
<1>2. \A r, x : h # [do |-> "see", role |-> r, perms |-> x]
  OBVIOUS
<1>3. \A r, x, y : h # [do |-> "replace", role |-> r, perms |-> x, seen |-> y]
  OBVIOUS
<1>4. \A g : h # Erase(g)
  BY Statements
<1> QED
  BY <1>1, <1>2, <1>3, <1>4 DEF RoleHead, Adds

\* An update changes a role.
LEMMA RoleUpdates ==
    ASSUME NEW tab, NEW o, NEW h, RoleHead(tab, o, h), h.do = "update"
    PROVE  EditsRole(tab, o, h)
<1>1. \A x : h # Insert(x)
  BY Statements
<1>2. \A r, x : h # [do |-> "see", role |-> r, perms |-> x]
  OBVIOUS
<1>3. \A r, x, y : h # [do |-> "replace", role |-> r, perms |-> x, seen |-> y]
  OBVIOUS
<1>4. \A g : h # Erase(g)
  BY Statements
<1> QED
  BY <1>1, <1>2, <1>3, <1>4 DEF RoleHead, EditsRole

\* The statement that sees looks at permissions.
LEMMA RoleSees ==
    ASSUME NEW tab, NEW o, NEW h, RoleHead(tab, o, h), h.do = "see"
    PROVE  LooksAt(tab, o, h)
<1>1. \A x : h # Insert(x)
  BY Statements
<1>2. \A r, x : h # Set(r, x)
  BY Statements
<1>3. \A r, x, y : h # [do |-> "replace", role |-> r, perms |-> x, seen |-> y]
  OBVIOUS
<1>4. \A g : h # Erase(g)
  BY Statements
<1> QED
  BY <1>1, <1>2, <1>3, <1>4 DEF RoleHead, LooksAt

\* The one that replaces swaps them.
LEMMA RoleReplaces ==
    ASSUME NEW tab, NEW o, NEW h, RoleHead(tab, o, h), h.do = "replace"
    PROVE  Swaps(tab, o, h)
<1>1. \A x : h # Insert(x)
  BY Statements
<1>2. \A r, x : h # Set(r, x)
  BY Statements
<1>3. \A r, x : h # [do |-> "see", role |-> r, perms |-> x]
  OBVIOUS
<1>4. \A g : h # Erase(g)
  BY Statements
<1> QED
  BY <1>1, <1>2, <1>3, <1>4 DEF RoleHead, Swaps

\* A delete takes a grant.
LEMMA RoleErases ==
    ASSUME NEW tab, NEW o, NEW h, RoleHead(tab, o, h), h.do = "erase"
    PROVE  Takes(tab, o, h)
<1>1. \A x : h # Insert(x)
  BY Statements
<1>2. \A r, x : h # Set(r, x)
  BY Statements
<1>3. \A r, x : h # [do |-> "see", role |-> r, perms |-> x]
  OBVIOUS
<1>4. \A r, x, y : h # [do |-> "replace", role |-> r, perms |-> x, seen |-> y]
  OBVIOUS
<1> QED
  BY <1>1, <1>2, <1>3, <1>4 DEF RoleHead, Takes

\* None of its inserts rotates a token.
LEMMA RoleInsertsOnly ==
    ASSUME NEW tab, NEW o, NEW h, RoleHead(tab, o, h), h.do = "create"
    PROVE  "of" \notin DOMAIN h
<1>1. \A x : "of" \notin DOMAIN Insert(x)
  BY DEF Insert
<1>2. Adds(tab, o, h)
  BY RoleInserts
<1> QED
  BY <1>1, <1>2 DEF Adds

\* The scripts by their heads.
LEMMA ScriptTells ==
    ASSUME NEW tab, NEW q, Script(tab, q), q # <<>>
    PROVE  \/ Head(q).do = "register" /\ Registering(q) /\ Tail(q) = <<>>
           \/ LoggingIn(tab, q) \/ Revoking(tab, q)
           \/ \E s \in Ids : Opening(tab, s, q) /\ Head(q) = Insert(Token(s)) /\ Tail(q) = <<>>
           \/ \E t \in Ids :
                /\ Refreshing(tab, t, q) /\ Tail(q) = <<>>
                /\ Head(q) = [do |-> "create", set |-> Token(tab[t].session), of |-> t]
           \/ \E o \in Ids : Is(tab, o, "organization") /\ Head(q) = Bump(o) /\ Tail(q) = <<>>
           \/ \E o \in Ids : Is(tab, o, "organization") /\ RoleHead(tab, o, Head(q)) /\ Tail(q) = <<Bump(o)>>
<1>1. CASE Registering(q)
  <2>1. PICK n \in {1, 2} : q = <<[do |-> "register", code |-> n]>>
    BY <1>1 DEF Registering
  <2>2. Head(q) = [do |-> "register", code |-> n] /\ Tail(q) = <<>>
    BY <2>1, ShortLists
  <2> QED
    BY <1>1, <2>2
<1>2. ASSUME NEW s \in Ids, Opening(tab, s, q) PROVE Head(q) = Insert(Token(s)) /\ Tail(q) = <<>>
  BY <1>2, ShortLists DEF Opening
<1>3. ASSUME NEW t \in Ids, Refreshing(tab, t, q)
      PROVE  Head(q) = [do |-> "create", set |-> Token(tab[t].session), of |-> t] /\ Tail(q) = <<>>
  BY <1>3, ShortLists DEF Refreshing
<1>4. ASSUME NEW o \in Ids, Owing(tab, o, q)
      PROVE  /\ Is(tab, o, "organization")
             /\ \/ Head(q) = Bump(o) /\ Tail(q) = <<>>
                \/ RoleHead(tab, o, Head(q)) /\ Tail(q) = <<Bump(o)>>
  <2>1. CASE q = <<Bump(o)>>
    BY <1>4, <2>1, ShortLists DEF Owing
  <2>2. CASE OfRoles(tab, o, q)
    BY <1>4, <2>2, OfRolesTells DEF Owing
  <2> QED
    BY <1>4, <2>1, <2>2 DEF Owing
<1> QED
  BY <1>1, <1>2, <1>3, <1>4 DEF Script

\* The names tell which script it is.
LEMMA ByName ==
    ASSUME NEW tab, NEW q, Script(tab, q), q # <<>>
    PROVE  LET h == Head(q)
               changes(do) == h.do = do => \E o \in Ids : /\ Is(tab, o, "organization")
                                                          /\ RoleHead(tab, o, h) /\ Tail(q) = <<Bump(o)>>
           IN /\ h.do = "register" => Registering(q) /\ Tail(q) = <<>>
              /\ h.do = "revoke" => Revoking(tab, q)
              /\ h.do = "enter" => \E u \in Ids :
                   Is(tab, u, "user") /\ h = OpenSession(u) /\ Tail(q) = <<Insert(Token(0))>>
              /\ h.do = "increment" =>
                   /\ Tail(q) = <<>>
                   /\ \/ \E u \in Ids : Is(tab, u, "user") /\ h = Increment(u, "fails")
                      \/ \E o \in Ids : Is(tab, o, "organization") /\ h = Bump(o)
              /\ h.do = "update" =>
                   \/ \E u \in Ids : /\ Is(tab, u, "user") /\ h = Set(u, [fails |-> 0])
                                     /\ Tail(q) = <<OpenSession(u), Insert(Token(0))>>
                   \/ \E s \in Ids : /\ Is(tab, s, "session") /\ h = Set(s, [revoked |-> TRUE])
                                     /\ Tail(q) = <<RevokeAll(s, FALSE)>>
                   \/ \E o \in Ids : /\ Is(tab, o, "organization")
                                     /\ RoleHead(tab, o, h) /\ Tail(q) = <<Bump(o)>>
              /\ h.do = "create" =>
                   \/ \E s \in Ids : Opening(tab, s, q) /\ h = Insert(Token(s)) /\ Tail(q) = <<>>
                   \/ \E t \in Ids :
                        /\ Refreshing(tab, t, q) /\ Tail(q) = <<>>
                        /\ h = [do |-> "create", set |-> Token(tab[t].session), of |-> t]
                   \/ \E o \in Ids : /\ Is(tab, o, "organization")
                                     /\ RoleHead(tab, o, h) /\ Tail(q) = <<Bump(o)>>
              /\ changes("see") /\ changes("replace") /\ changes("erase")
<1> DEFINE h == Head(q)
<1>1. LoggingIn(tab, q) => \E u \in Ids : Is(tab, u, "user") /\
             \/ h.do = "increment" /\ h = Increment(u, "fails") /\ Tail(q) = <<>>
             \/ h.do = "update" /\ h = Set(u, [fails |-> 0]) /\ Tail(q) = <<OpenSession(u), Insert(Token(0))>>
             \/ h.do = "enter" /\ h = OpenSession(u) /\ Tail(q) = <<Insert(Token(0))>>
  <2> SUFFICES ASSUME LoggingIn(tab, q)
      PROVE \E u \in Ids : Is(tab, u, "user") /\
             \/ h.do = "increment" /\ h = Increment(u, "fails") /\ Tail(q) = <<>>
             \/ h.do = "update" /\ h = Set(u, [fails |-> 0]) /\ Tail(q) = <<OpenSession(u), Insert(Token(0))>>
             \/ h.do = "enter" /\ h = OpenSession(u) /\ Tail(q) = <<Insert(Token(0))>>
    OBVIOUS
  <2>1. PICK u \in Ids : Is(tab, u, "user") /\
             \/ h = Increment(u, "fails") /\ Tail(q) = <<>>
             \/ h = Set(u, [fails |-> 0]) /\ Tail(q) = <<OpenSession(u), Insert(Token(0))>>
             \/ h = OpenSession(u) /\ Tail(q) = <<Insert(Token(0))>>
    BY LoggingInTells
  <2> HIDE DEF h
  <2> QED
    BY <2>1, Statements
<1>2. Revoking(tab, q) =>
        \/ h.do = "revoke"
        \/ \E s \in Ids : /\ Is(tab, s, "session") /\ h.do = "update" /\ h = Set(s, [revoked |-> TRUE])
                          /\ Tail(q) = <<RevokeAll(s, FALSE)>>
  <2> SUFFICES ASSUME Revoking(tab, q)
      PROVE \/ h.do = "revoke"
            \/ \E s \in Ids : /\ Is(tab, s, "session") /\ h.do = "update" /\ h = Set(s, [revoked |-> TRUE])
                              /\ Tail(q) = <<RevokeAll(s, FALSE)>>
    OBVIOUS
  <2>1. PICK s \in Ids : Is(tab, s, "session") /\
             \/ \E b \in BOOLEAN : h = RevokeAll(s, b) /\ Tail(q) = <<>>
             \/ h = Set(s, [revoked |-> TRUE]) /\ Tail(q) = <<RevokeAll(s, FALSE)>>
             \/ \E t \in Ids : /\ Is(tab, t, "session") /\ h = RevokeAll(s, FALSE)
                               /\ Tail(q) = <<Set(t, [revoked |-> TRUE]), RevokeAll(t, FALSE)>>
    BY RevokingTells
  <2>2. \A b : RevokeAll(s, b).do = "revoke"
    BY Statements
  <2>3. Set(s, [revoked |-> TRUE]).do = "update"
    BY Statements
  <2> HIDE DEF h
  <2> QED
    BY <2>1, <2>2, <2>3
<1>3. \A s : h = Insert(Token(s)) => h.do = "create"
  BY Statements
<1>4. \A t, x : h = [do |-> "create", set |-> x, of |-> t] => h.do = "create"
  OBVIOUS
<1>5. \A o : h = Bump(o) => h.do = "increment"
  BY Statements
<1>6. \A o : RoleHead(tab, o, h) => h.do \in {"create", "update", "see", "replace", "erase"}
  BY RoleHeadNames
<1>7. \/ h.do = "register" /\ Registering(q) /\ Tail(q) = <<>>
      \/ LoggingIn(tab, q) \/ Revoking(tab, q)
      \/ \E s \in Ids : Opening(tab, s, q) /\ h = Insert(Token(s)) /\ Tail(q) = <<>>
      \/ \E t \in Ids : /\ Refreshing(tab, t, q) /\ Tail(q) = <<>>
                        /\ h = [do |-> "create", set |-> Token(tab[t].session), of |-> t]
      \/ \E o \in Ids : Is(tab, o, "organization") /\ h = Bump(o) /\ Tail(q) = <<>>
      \/ \E o \in Ids : Is(tab, o, "organization") /\ RoleHead(tab, o, h) /\ Tail(q) = <<Bump(o)>>
  BY ScriptTells
<1> HIDE DEF h
<1>8. h.do = "register" => Registering(q) /\ Tail(q) = <<>>
  BY <1>1, <1>2, <1>3, <1>4, <1>5, <1>6, <1>7
<1>9. h.do = "revoke" => Revoking(tab, q)
  BY <1>1, <1>2, <1>3, <1>4, <1>5, <1>6, <1>7
<1>10. h.do = "enter" => \E u \in Ids :
         Is(tab, u, "user") /\ h = OpenSession(u) /\ Tail(q) = <<Insert(Token(0))>>
  BY <1>1, <1>2, <1>3, <1>4, <1>5, <1>6, <1>7
<1>11. h.do = "increment" =>
         /\ Tail(q) = <<>>
         /\ \/ \E u \in Ids : Is(tab, u, "user") /\ h = Increment(u, "fails")
            \/ \E o \in Ids : Is(tab, o, "organization") /\ h = Bump(o)
  BY <1>1, <1>2, <1>3, <1>4, <1>5, <1>6, <1>7
<1>12. h.do = "update" =>
         \/ \E u \in Ids : /\ Is(tab, u, "user") /\ h = Set(u, [fails |-> 0])
                           /\ Tail(q) = <<OpenSession(u), Insert(Token(0))>>
         \/ \E s \in Ids : /\ Is(tab, s, "session") /\ h = Set(s, [revoked |-> TRUE])
                           /\ Tail(q) = <<RevokeAll(s, FALSE)>>
         \/ \E o \in Ids : /\ Is(tab, o, "organization")
                           /\ RoleHead(tab, o, h) /\ Tail(q) = <<Bump(o)>>
  BY <1>1, <1>2, <1>3, <1>4, <1>5, <1>6, <1>7
<1>13. h.do = "create" =>
         \/ \E s \in Ids : Opening(tab, s, q) /\ h = Insert(Token(s)) /\ Tail(q) = <<>>
         \/ \E t \in Ids : /\ Refreshing(tab, t, q) /\ Tail(q) = <<>>
                           /\ h = [do |-> "create", set |-> Token(tab[t].session), of |-> t]
         \/ \E o \in Ids : /\ Is(tab, o, "organization")
                           /\ RoleHead(tab, o, h) /\ Tail(q) = <<Bump(o)>>
  BY <1>1, <1>2, <1>3, <1>4, <1>5, <1>6, <1>7
<1>14. h.do \in {"see", "replace", "erase"} =>
         \E o \in Ids : Is(tab, o, "organization") /\ RoleHead(tab, o, h) /\ Tail(q) = <<Bump(o)>>
  BY <1>1, <1>2, <1>3, <1>4, <1>5, <1>6, <1>7
<1> QED
  BY <1>8, <1>9, <1>10, <1>11, <1>12, <1>13, <1>14 DEF h

\* A session that gains no live token is told of as before.
LEMMA SessionStays ==
    ASSUME AccessInv, Orderly, NEW c \in Callers, ~Idle(c), NEW rest, NEW s, Is(row, s, "session"),
           \A t \in Ids : Live(row', s, t) => Live(row, s, t),
           Unended(row, s) => Unended(row', s) \/ NoneLive(row', s) \/ rest = <<RevokeAll(s, FALSE)>>,
           todo[c] = <<RevokeAll(s, FALSE)>> => NoneLive(row', s)
    PROVE  SessionKept(s, rest)
<1>1. SessionTold(s) /\ OneCall
  BY DEF AccessInv, SessionsTold, Is
<1>2. OneLive(row', s)
  BY <1>1 DEF SessionTold, OneLive
<1>3. CASE NoneLive(row, s)
  BY <1>2, <1>3 DEF NoneLive, SessionKept
<1>4. ASSUME NEW d \in Callers, todo[d] = <<RevokeAll(s, FALSE)>> PROVE NoneLive(row', s)
  <2>1. ~Idle(d)
    BY <1>4, ShortLists DEF Idle
  <2>2. d = c
    BY <1>1, <2>1 DEF OneCall
  <2> QED
    BY <1>4, <2>2
<1> QED
  BY <1>1, <1>2, <1>3, <1>4 DEF SessionTold, SessionKept

\* Nothing left, or no insert first, needs no sound session.
LEMMA NothingPrepared == \A tab : Prepared(tab, <<>>)
BY ShortLists DEF Prepared, Opening, Refreshing

\* A statement that touches nobody's rights.
LEMMA PlainStatement ==
    ASSUME AccessInv, NEW c \in Callers, ~Idle(c), NEW rest, Done(c, rest),
           AccessRows(row'), Grows(row, row'), Script(row', rest), \A i \in Ids : Still(i),
           \A o \in Ids : Is(row', o, "organization") =>
               Is(row, o, "organization") /\ row'[o].version = row[o].version
               /\ row'[o].allowed = row[o].allowed,
           \A o : ~Owing(row, o, todo[c]),
           Orderly => /\ \A s \in Ids : Is(row', s, "session") => SessionKept(s, rest)
                      /\ Prepared(row', rest)
    PROVE  AccessInv'
<1>1. \A o : SameRights(o)
  BY RightsStay
<1>2. \A o \in Ids : Is(row', o, "organization") => VersionKept(o, todo[c], rest)
  BY <1>1 DEF VersionKept
<1> QED
  BY <1>2, StatementKeeps

\* updateMany over the tokens of a session.
LEMMA RevokeTokensKeeps ==
    ASSUME AccessInv, NEW c \in Callers, RevokeTokens(c)
    PROVE  AccessInv'
<1> DEFINE q == todo[c]
<1>1. ~Idle(c) /\ Head(q).do = "revoke" /\ Script(row, q) /\ q # <<>>
  BY DEF RevokeTokens, Idle, AccessInv, Scripts
<1>2. Revoking(row, q)
  BY <1>1, ByName
<1>3. PICK s \in Ids, b \in BOOLEAN :
        /\ Is(row, s, "session") /\ Head(q) = RevokeAll(s, b)
        /\ \/ Tail(q) = <<>>
           \/ \E t \in Ids : /\ Is(row, t, "session")
                             /\ Tail(q) = <<Set(t, [revoked |-> TRUE]), RevokeAll(t, FALSE)>>
  <2> HIDE DEF q
  <2>1. PICK s \in Ids : Is(row, s, "session") /\
             \/ \E b \in BOOLEAN : Head(q) = RevokeAll(s, b) /\ Tail(q) = <<>>
             \/ Head(q) = Set(s, [revoked |-> TRUE]) /\ Tail(q) = <<RevokeAll(s, FALSE)>>
             \/ \E t \in Ids : /\ Is(row, t, "session") /\ Head(q) = RevokeAll(s, FALSE)
                               /\ Tail(q) = <<Set(t, [revoked |-> TRUE]), RevokeAll(t, FALSE)>>
    BY <1>2, RevokingTells
  <2>2. Head(q) # Set(s, [revoked |-> TRUE])
    BY <1>1, Statements
  <2> QED
    BY <2>1, <2>2
<1>4. Done(c, Tail(q)) /\ DOMAIN row' = Ids
  BY DEF RevokeTokens, Done
<1>5. \A i \in Ids : row'[i] =
        IF row[i].kind = "token" /\ row[i].session = s THEN [row[i] EXCEPT !.revoked = TRUE]
        ELSE IF i = s /\ b THEN [row[i] EXCEPT !.replayed = TRUE] ELSE row[i]
  BY <1>3 DEF RevokeTokens, TokensOf, OfKind, RevokeAll
<1>6. \A i \in Ids : /\ row[i].kind = "token" => DOMAIN row[i] = {"kind", "session", "revoked", "next"}
                     /\ row[i].kind = "session" => DOMAIN row[i] = {"kind", "user", "revoked", "replayed"}
  BY RowFields DEF AccessInv, AccessRows
<1>7. ASSUME NEW i \in Ids
      PROVE  /\ DOMAIN row'[i] = DOMAIN row[i] /\ row'[i].kind = row[i].kind
             /\ row[i].kind \notin {"token", "session"} => row'[i] = row[i]
             /\ row[i].kind = "token" =>
                  /\ row'[i].session = row[i].session /\ row'[i].next = row[i].next
                  /\ row[i].revoked \/ row[i].session = s <=> row'[i].revoked
             /\ row[i].kind = "session" =>
                  /\ row'[i].revoked = row[i].revoked
                  /\ i # s => row'[i].replayed = row[i].replayed
  <2>1. CASE row[i].kind = "token" /\ row[i].session = s
    <3>1. row'[i] = [row[i] EXCEPT !.revoked = TRUE]
      BY <1>5, <2>1
    <3> QED
      BY <1>6, <2>1, <3>1
  <2>2. CASE i = s /\ b
    <3>1. row[i].kind = "session"
      BY <1>3, <2>2 DEF Is
    <3>2. row'[i] = [row[i] EXCEPT !.replayed = TRUE]
      BY <1>5, <2>2, <3>1
    <3> QED
      BY <1>6, <2>2, <3>1, <3>2
  <2>3. CASE ~(row[i].kind = "token" /\ row[i].session = s) /\ ~(i = s /\ b)
    BY <1>5, <2>3
  <2> QED
    BY <2>1, <2>2, <2>3
<1>8. Grows(row, row')
  BY <1>7 DEF Grows
<1>9. AccessRows(row')
  <2>1. \A i \in Ids : OfTables(row'[i])
    BY <1>7, StaysOfTables DEF AccessInv, AccessRows
  <2>2. \A i \in Ids : Alters(row, row', i)
    <3> SUFFICES ASSUME NEW i \in Ids PROVE Alters(row, row', i)
      OBVIOUS
    <3>1. RowTells(row, i)
      BY DEF AccessInv, AccessRows
    <3> QED
      BY <1>7, <3>1 DEF Alters, RowTells, OwnerTells
  <2> QED
    BY <1>4, <1>8, <2>1, <2>2, RowsAreAltered DEF AccessInv
<1>10. Script(row', Tail(q))
  <2>1. Script(row, Tail(q))
    BY <1>3 DEF Script, Revoking, Is
  <2> QED
    BY <1>8, <2>1, ScriptKept
<1>11. \A o : ~Owing(row, o, q)
  <2>1. \A o : Head(q) # Bump(o)
    BY <1>3 DEF RevokeAll, Bump, Increment
  <2>2. \A o : Tail(q) # <<Bump(o)>>
    <3>1. CASE Tail(q) = <<>>
      BY SMTT(60), <3>1, ShortLists
    <3>2. ASSUME NEW t \in Ids, Tail(q) = <<Set(t, [revoked |-> TRUE]), RevokeAll(t, FALSE)>>
          PROVE  \A o : Tail(q) # <<Bump(o)>>
      BY <3>2, TwoAreNotOne, Zenon
    <3> QED
      BY <1>3, <3>1, <3>2
  <2> HIDE DEF q
  <2> QED
    BY <2>1, <2>2, OwesNot
<1>12. ASSUME Orderly, NEW x \in Ids, Is(row', x, "session") PROVE SessionKept(x, Tail(q))
  <2>1. Is(row, x, "session")
    BY <1>7, <1>12 DEF Is
  <2>2. \A t \in Ids : Live(row', x, t) => Live(row, x, t)
    BY <1>7 DEF Live
  <2>3. NoneLive(row', s)
    BY <1>7 DEF NoneLive, Live
  <2>4. Unended(row, x) => Unended(row', x) \/ NoneLive(row', x)
    BY <1>7, <2>1, <2>3 DEF Unended, Is
  <2>5. q = <<RevokeAll(x, FALSE)>> => x = s
    BY <1>3, ShortLists DEF RevokeAll
  <2> HIDE DEF q
  <2> QED
    BY <1>1, <1>12, <2>1, <2>2, <2>3, <2>4, <2>5, SessionStays DEF q
<1>13. Prepared(row', Tail(q))
  <2>1. ASSUME NEW t \in Ids, Tail(q) = <<Set(t, [revoked |-> TRUE]), RevokeAll(t, FALSE)>>
        PROVE  Prepared(row', Tail(q))
    <3>1. PICK x, y : x = Set(t, [revoked |-> TRUE]) /\ y = RevokeAll(t, FALSE)
      OBVIOUS
    <3>a. Tail(q) = <<x, y>>
      BY <2>1, <3>1
    <3>b. Head(Tail(q)) = x
      BY <3>a, ShortLists
    <3>c. x.do = "update"
      BY <3>1, Statements
    <3>2. Head(Tail(q)).do # "create"
      BY <3>b, <3>c
    <3> QED
      BY <3>2, PreparedUnless
  <2> QED
    BY <1>3, <2>1, NothingPrepared
<1>14. \A i \in Ids : Still(i)
  BY <1>7 DEF Still
<1>15. \A o \in Ids : Is(row', o, "organization") =>
         Is(row, o, "organization") /\ row'[o].version = row[o].version /\ row'[o].allowed = row[o].allowed
  BY <1>7 DEF Is
<1> QED
  BY <1>1, <1>4, <1>8, <1>9, <1>10, <1>11, <1>12, <1>13, <1>14, <1>15, PlainStatement

\* An insert of a row whose references are there.
LEMMA InsertTells ==
    ASSUME AccessRows(row), Room, NEW r, OfTables(r), r.kind \notin {"none", "gone"},
           row' = [row EXCEPT ![NextId] = r],
           r.kind \in {"user", "role"} => Is(row, r.org, "organization"),
           r.kind = "role" => ~r.owner,
           r.kind = "grant" =>
               /\ Is(row, r.user, "user") /\ Is(row, r.role, "role")
               /\ row[r.user].org = row[r.role].org /\ r.code = <<r.user, r.role>>,
           r.kind = "token" => Is(row, r.session, "session") /\ r.next = 0
    PROVE  /\ AccessRows(row') /\ Grows(row, row') /\ NextId \in Ids /\ row[NextId] = NoRow
           /\ row'[NextId] = r /\ \A i \in Ids \ {NextId} : row'[i] = row[i]
<1>1. NextId \in Ids /\ row[NextId] = NoRow
  BY NextIsFree
<1>2. /\ DOMAIN row' = Ids /\ row'[NextId] = r /\ \A i \in Ids \ {NextId} : row'[i] = row[i]
  BY <1>1 DEF AccessRows
<1>3. Grows(row, row')
  BY <1>1, <1>2 DEF Grows, NoRow
<1>4. \A i \in Ids : \A kind : Is(row, i, kind) /\ kind # "none" => row'[i] = row[i]
  BY <1>1, <1>2 DEF Is, NoRow
<1>5. RowTells(row', NextId)
  <2>1. r.kind \in {"user", "role"} => Is(row', r.org, "organization")
    BY <1>4 DEF Is
  <2>2. r.kind = "token" => Is(row', r.session, "session")
    BY <1>4 DEF Is
  <2>3. r.kind = "grant" =>
          /\ Is(row', r.user, "user") /\ Is(row', r.role, "role")
          /\ row'[r.user].org = row'[r.role].org
    BY <1>4 DEF Is
  <2> QED
    BY <1>2, <2>1, <2>2, <2>3 DEF RowTells, GrantTells
<1>6. ASSUME NEW i \in Ids \ {NextId} PROVE OfTables(row'[i]) /\ Alters(row, row', i)
  <2>1. OfTables(row[i]) /\ RowTells(row, i) /\ row'[i] = row[i]
    BY <1>2 DEF AccessRows
  <2> QED
    BY <2>1 DEF Alters, RowTells, OwnerTells
<1> QED
  BY <1>1, <1>2, <1>3, <1>5, <1>6, RowIsAdded

\* A login's session.
LEMMA EnterSessionKeeps ==
    ASSUME AccessInv, NEW c \in Callers, EnterSession(c)
    PROVE  AccessInv'
<1> DEFINE q == todo[c]
<1>1. ~Idle(c) /\ Head(q).do = "enter" /\ Script(row, q) /\ q # <<>> /\ Room
  BY DEF EnterSession, Idle, AccessInv, Scripts
<1>3. PICK u \in Ids : Is(row, u, "user") /\ Head(q) = OpenSession(u) /\ Tail(q) = <<Insert(Token(0))>>
  BY <1>1, ByName
<1>4. PICK k : k = NextId
  OBVIOUS
<1> DEFINE rest == <<Insert(Token(k))>>
<1>5. Done(c, rest) /\ row' = [row EXCEPT ![NextId] = Session(u)]
  <2>1. Head(todo[c]).user = u
    BY <1>3, Statements
  <2> QED
    BY <1>4, <2>1 DEF EnterSession, Done
<1>6. /\ OfTables(Session(u)) /\ Session(u).kind = "session"
      /\ ~Session(u).revoked /\ ~Session(u).replayed
  BY DEF OfTables, Blanks, Session
<1>7. /\ AccessRows(row') /\ Grows(row, row') /\ k \in Ids /\ row[k] = NoRow
      /\ row'[k] = Session(u) /\ \A i \in Ids \ {k} : row'[i] = row[i]
  BY <1>1, <1>4, <1>5, <1>6, InsertTells DEF AccessInv
<1>8. Is(row', k, "session") /\ Unended(row', k)
  BY <1>6, <1>7 DEF Is, Unended
<1>9. \A t \in Ids : row'[t].kind = "token" => row'[t].session # k
  <2> SUFFICES ASSUME NEW t \in Ids, row'[t].kind = "token" PROVE row'[t].session # k
    OBVIOUS
  <2>1. row'[t] = row[t]
    BY <1>6, <1>7
  <2>2. Is(row, row[t].session, "session")
    BY <2>1 DEF AccessInv, AccessRows, RowTells
  <2> QED
    BY <1>7, <2>1, <2>2 DEF Is, NoRow
<1>10. Script(row', rest)
  BY <1>7, <1>8 DEF Script, Opening
<1>11. Prepared(row', rest)
  <2>1. \A i : Opening(row', i, rest) => i = k
    BY DEF Opening, Insert, Token
  <2>2. \A i : ~Refreshing(row', i, rest)
    BY DEF Refreshing, Insert
  <2> HIDE DEF rest
  <2> QED
    BY <1>8, <1>9, <2>1, <2>2 DEF Prepared
<1>12. \A o : ~Owing(row, o, q)
  <2>1. \A o : Head(q) # Bump(o)
    BY <1>1, Statements
  <2>2. \A o : Tail(q) # <<Bump(o)>>
    <3>1. \A x, y : <<x>> = <<y>> => x = y
      BY ShortLists
    <3>2. \A o : Insert(Token(0)) # Bump(o)
      BY Statements
    <3> QED
      BY <1>3, <3>1, <3>2
  <2> HIDE DEF q
  <2> QED
    BY <2>1, <2>2, OwesNot
<1>13. ASSUME Orderly, NEW x \in Ids, Is(row', x, "session") PROVE SessionKept(x, rest)
  <2>1. CASE x = k
    <3>1. NoneLive(row', x)
      BY <1>9, <2>1 DEF NoneLive, Live
    <3> QED
      BY <1>8, <2>1, <3>1 DEF SessionKept, OneLive, NoneLive
  <2>2. CASE x # k
    <3>1. Is(row, x, "session")
      BY <1>7, <1>13, <2>2 DEF Is
    <3>2. \A t \in Ids : Live(row', x, t) => Live(row, x, t)
      BY <1>6, <1>7 DEF Live
    <3>3. Unended(row, x) => Unended(row', x)
      BY <1>7, <2>2, <3>1 DEF Unended, Is
    <3>4. q # <<RevokeAll(x, FALSE)>>
      <4>1. q = <<RevokeAll(x, FALSE)>> => Head(q) = RevokeAll(x, FALSE)
        BY ShortLists
      <4>2. RevokeAll(x, FALSE).do = "revoke"
        BY DEF RevokeAll
      <4> QED
        BY <1>1, <4>1, <4>2
    <3> HIDE DEF rest
    <3> QED
      BY <1>1, <1>13, <3>1, <3>2, <3>3, <3>4, SessionStays
  <2> QED
    BY <2>1, <2>2
<1>14. \A i \in Ids : Still(i)
  BY <1>6, <1>7 DEF Still, NoRow
<1>15. \A o \in Ids : Is(row', o, "organization") =>
         Is(row, o, "organization") /\ row'[o].version = row[o].version /\ row'[o].allowed = row[o].allowed
  BY <1>6, <1>7 DEF Is
<1> HIDE DEF rest
<1> QED
  BY <1>1, <1>5, <1>7, <1>10, <1>11, <1>12, <1>13, <1>14, <1>15, PlainStatement

\* One transaction for the next token and the old one.
LEMMA RotateKeeps ==
    ASSUME AccessInv, NEW c \in Callers, Rotate(c)
    PROVE  AccessInv'
<1> DEFINE q == todo[c]
<1>1. /\ ~Idle(c) /\ Head(q).do = "create" /\ "of" \in DOMAIN Head(q) /\ Script(row, q)
      /\ q # <<>> /\ Room
  BY DEF Rotate, Idle, AccessInv, Scripts
<1>2. PICK t \in Ids :
        /\ Refreshing(row, t, q) /\ Tail(q) = <<>>
        /\ Head(q) = [do |-> "create", set |-> Token(row[t].session), of |-> t]
  <2>1. \A o : RoleHead(row, o, Head(q)) => FALSE
    <3> SUFFICES ASSUME NEW o, RoleHead(row, o, Head(q)) PROVE FALSE
      OBVIOUS
    <3> HIDE DEF q
    <3> QED
      BY <1>1, RoleInsertsOnly
  <2>2. \A s : Head(q) # Insert(Token(s))
    BY <1>1 DEF Insert
  <2> HIDE DEF q
  <2> QED
    BY <1>1, <2>1, <2>2, ByName
<1>3. PICK s : s = row[t].session
  OBVIOUS
<1>4. PICK k : k = NextId
  OBVIOUS
<1>5. /\ k \in Ids /\ row[k] = NoRow /\ Is(row, t, "token") /\ Is(row, s, "session") /\ t # k
      /\ DOMAIN row[t] = {"kind", "session", "revoked", "next"}
  <2>1. k \in Ids /\ row[k] = NoRow
    BY <1>1, <1>4, NextIsFree
  <2>2. Is(row, t, "token")
    BY SMTT(60), <1>2 DEF Refreshing
  <2>3. t \in Ids /\ RowTells(row, t) /\ OfTables(row[t]) /\ row[t].kind = "token"
    BY SMTT(60), <2>2 DEF Is, AccessInv, AccessRows
  <2>4. Is(row, s, "session")
    BY SMTT(60), <1>3, <2>3 DEF RowTells
  <2> QED
    BY <2>1, <2>2, <2>3, <2>4, RowFields DEF Is, NoRow
<1>6. Done(c, <<>>) /\ DOMAIN row' = Ids
  BY <1>2 DEF Rotate, Done, AccessInv, AccessRows
<1>7. /\ row'[k] = Token(s) /\ row'[t] = [row[t] EXCEPT !.next = k, !.revoked = TRUE]
      /\ \A i \in Ids \ {k, t} : row'[i] = row[i]
  <2>1. Head(todo[c]).set = Token(s) /\ Head(todo[c]).of = t
    BY SMTT(60), <1>2, <1>3
  <2>2. row' = [row EXCEPT ![k] = Token(s), ![t].next = k, ![t].revoked = TRUE]
    BY <1>4, <2>1 DEF Rotate
  <2>3. DOMAIN row = Ids
    BY DEF AccessInv, AccessRows
  <2> QED
    BY <1>5, <2>2, <2>3 DEF Is
<1>8. /\ Token(s).kind = "token" /\ Token(s).session = s /\ ~Token(s).revoked /\ Token(s).next = 0
      /\ OfTables(Token(s))
  BY DEF OfTables, Blanks, Token
<1>9. /\ row'[t].kind = "token" /\ row'[t].session = s /\ row'[t].revoked
      /\ DOMAIN row'[t] = DOMAIN row[t]
  BY <1>3, <1>5, <1>7 DEF Is
<1>10. Grows(row, row')
  <2>1. row[k].kind = "none" /\ row[t].kind = "token"
    BY <1>5 DEF Is, NoRow
  <2>2. \A i \in Ids : row[i].kind # "none" /\ i # t => row'[i] = row[i]
    BY <1>7, <2>1
  <2> QED
    BY <1>3, <1>9, <2>1, <2>2 DEF Grows
<1>11. AccessRows(row')
  <2>1. Is(row', s, "session")
    BY <1>5, <1>10, IsKept
  <2>2. RowTells(row', k)
    BY <1>7, <1>8, <2>1 DEF RowTells
  <2>3. ASSUME NEW i \in Ids \ {k} PROVE OfTables(row'[i]) /\ Alters(row, row', i)
    <3>1. OfTables(row[i]) /\ RowTells(row, i)
      BY DEF AccessInv, AccessRows
    <3>2. CASE i = t
      <4>1. OfTables(row'[i])
        BY <1>5, <1>9, <3>1, <3>2, StaysOfTables DEF Is
      <4> QED
        BY <1>5, <1>9, <3>2, <4>1 DEF Alters, Is
    <3>3. CASE i # t
      <4>1. row'[i] = row[i]
        BY <1>7, <3>3
      <4> QED
        BY <3>1, <4>1 DEF Alters, RowTells, OwnerTells
    <3> QED
      BY <3>2, <3>3
  <2> QED
    BY <1>1, <1>4, <1>6, <1>7, <1>8, <1>10, <2>2, <2>3, RowIsAdded DEF AccessInv
<1>12. Script(row', <<>>)
  BY DEF Script
<1>13. \A o : ~Owing(row, o, q)
  <2>1. \A o : Head(q) # Bump(o)
    BY <1>1, Statements
  <2>2. \A o : Tail(q) # <<Bump(o)>>
    BY <1>2, ShortLists
  <2> HIDE DEF q
  <2> QED
    BY <2>1, <2>2, OwesNot
<1>14. ASSUME Orderly, NEW x \in Ids, Is(row', x, "session") PROVE SessionKept(x, <<>>)
  <2>1. Is(row, x, "session")
    BY ZenonT(60), <1>5, <1>7, <1>8, <1>9, <1>14 DEF Is
  <2>2. row'[x] = row[x]
    BY <1>5, <1>7, <1>8, <1>9, <1>14 DEF Is
  <2>3. CASE x = s
    <3>1. ~row[t].revoked /\ Unended(row, s)
      BY <1>2, <1>3, <1>14 DEF AccessInv, SessionsTold, Prepared
    <3>2. OneLive(row, s)
      BY <1>14, <2>1, <2>3 DEF AccessInv, SessionsTold, SessionTold
    <3>3. ASSUME NEW y \in Ids, Live(row', s, y) PROVE y = k
      <4>1. y # t
        BY <1>9, <3>3 DEF Live
      <4>2. CASE y # k
        <5>1. Live(row, s, y) /\ Live(row, s, t)
          BY <1>3, <1>5, <1>7, <3>1, <3>3, <4>1, <4>2 DEF Live, Is
        <5> QED
          BY <1>5, <3>2, <4>1, <5>1 DEF OneLive, Is
      <4> QED
        BY <4>2
    <3>4. Unended(row', s)
      BY <2>2, <2>3, <3>1 DEF Unended
    <3> QED
      BY <2>3, <3>3, <3>4 DEF SessionKept, OneLive
  <2>4. CASE x # s
    <3>1. \A y \in Ids : Live(row', x, y) => Live(row, x, y)
      BY ZenonT(60), <1>7, <1>8, <1>9, <2>4 DEF Live
    <3>2. Unended(row, x) => Unended(row', x)
      BY <2>2 DEF Unended
    <3>3. q # <<RevokeAll(x, FALSE)>>
      <4>1. q = <<RevokeAll(x, FALSE)>> => Head(q) = RevokeAll(x, FALSE)
        BY ShortLists
      <4>2. RevokeAll(x, FALSE).do = "revoke"
        BY DEF RevokeAll
      <4> QED
        BY <1>1, <4>1, <4>2
    <3> QED
      BY <1>1, <1>14, <2>1, <3>1, <3>2, <3>3, SessionStays
  <2> QED
    BY <2>3, <2>4
<1>15. \A i \in Ids : Still(i)
  <2>1. row[k].kind = "none" /\ row[t].kind = "token"
    BY <1>5 DEF Is, NoRow
  <2>2. row'[k].kind = "token"
    BY <1>7, <1>8
  <2>3. \A i \in Ids \ {k, t} : row'[i] = row[i]
    BY <1>7
  <2> QED
    BY <1>9, <2>1, <2>2, <2>3 DEF Still
<1>16. \A o \in Ids : Is(row', o, "organization") =>
         Is(row, o, "organization") /\ row'[o].version = row[o].version /\ row'[o].allowed = row[o].allowed
  BY <1>7, <1>8, <1>9 DEF Is
<1> QED
  BY <1>1, <1>6, <1>10, <1>11, <1>12, <1>13, <1>14, <1>15, <1>16, NothingPrepared, PlainStatement

\* A statement of a change of roles, by which the other organisations are not
\* touched, nor the sessions.
LEMMA RoleStatement ==
    ASSUME AccessInv, NEW c \in Callers, ~Idle(c), NEW o \in Ids, Is(row, o, "organization"),
           Tail(todo[c]) = <<Bump(o)>>,
           NEW rest, Done(c, rest), Owing(row', o, rest), Prepared(row', rest),
           AccessRows(row'), Grows(row, row'),
           \A i \in Ids : row'[i].kind \in {"organization", "session", "token"} => row'[i] = row[i],
           \A p : p # o => SameRights(p)
    PROVE  AccessInv'
<1> DEFINE q == todo[c]
<1>1. q # <<>> /\ Tail(q) # <<>>
  BY ShortLists DEF Idle
<1>2. Script(row', rest)
  BY DEF Script
<1>3. ASSUME NEW p \in Ids, Is(row', p, "organization") PROVE VersionKept(p, q, rest)
  <2>1. CASE p = o
    BY <2>1 DEF VersionKept
  <2>2. CASE p # o
    <3>1. ~Owing(row, p, q)
      <4>1. <<Bump(o)>> # <<Bump(p)>>
        <5>1. Bump(o) # Bump(p)
          BY <2>2, Statements
        <5>2. \A x, y : <<x>> = <<y>> => x = y
          BY ShortLists
        <5> QED
          BY <5>1, <5>2
      <4>2. Tail(<<Bump(p)>>) = <<>>
        BY ShortLists
      <4>3. OfRoles(row, p, q) => Tail(q) = <<Bump(p)>>
        BY OfRolesTells
      <4> HIDE DEF q
      <4> QED
        BY <1>1, <4>1, <4>2, <4>3 DEF Owing, q
    <3>2. row'[p] = row[p] /\ Is(row, p, "organization") /\ SameRights(p)
      BY <1>3, <2>2 DEF Is
    <3> QED
      BY <3>1, <3>2 DEF VersionKept
  <2> QED
    BY <2>1, <2>2
<1>4. ASSUME Orderly, NEW x \in Ids, Is(row', x, "session") PROVE SessionKept(x, rest)
  <2>1. row'[x] = row[x] /\ Is(row, x, "session")
    BY <1>4 DEF Is
  <2>2. \A t \in Ids : Live(row', x, t) => Live(row, x, t)
    BY DEF Live
  <2>3. Unended(row, x) => Unended(row', x)
    BY <2>1 DEF Unended
  <2>4. q # <<RevokeAll(x, FALSE)>>
    BY <1>1, ShortLists
  <2> QED
    BY <1>4, <2>1, <2>2, <2>3, <2>4, SessionStays
<1> QED
  BY <1>2, <1>3, <1>4, StatementKeeps

\* What a change of roles that is due has next, and that it is sound.
LEMMA BumpIsOwing ==
    ASSUME NEW tab, NEW o, Is(tab, o, "organization")
    PROVE  Owing(tab, o, <<Bump(o)>>) /\ Prepared(tab, <<Bump(o)>>)
<1>1. Head(<<Bump(o)>>) = Bump(o) /\ Bump(o).do = "increment"
  BY ShortLists, Statements
<1>2. Prepared(tab, <<Bump(o)>>)
  BY <1>1, PreparedUnless
<1> QED
  BY <1>2 DEF Owing

\* What is changed of one organisation touches no other: it adds a role or a
\* user, changes a role of its own, and adds or takes a grant to its users.
Elsewhere(p, i) ==
    \/ Still(i)
    \/ row[i].kind = "none" /\ row'[i].kind = "role"
    \/ row[i].kind = "none" /\ row'[i].kind = "user" /\ row'[i].org # p
    \/ row[i].kind = "role" /\ row'[i].kind = "role" /\ row[i].org # p
    \/ row[i].kind = "none" /\ row'[i].kind = "grant" /\ ~UserOf(p, row'[i].user)
    \/ row[i].kind = "grant" /\ row'[i].kind = "gone" /\ ~UserOf(p, row[i].user)

\* So the rights in the others stay.
LEMMA RightsElsewhere ==
    ASSUME NEW p, \A i \in Ids : Elsewhere(p, i)
    PROVE  SameRights(p)
<1>1. \A v \in Ids : UserOf(p, v)' <=> UserOf(p, v)
  BY DEF UserOf, Elsewhere, Still
<1>2. ASSUME NEW v \in Ids, NEW g \in Ids, UserOf(p, v)
      PROVE  /\ row'[g].kind = "grant" /\ row'[g].user = v <=> row[g].kind = "grant" /\ row[g].user = v
             /\ row[g].kind = "grant" /\ row[g].user = v => row'[g].role = row[g].role
  <2>1. Elsewhere(p, g)
    OBVIOUS
  <2>2. CASE row'[g] = row[g]
    BY <2>2
  <2>3. CASE row'[g] # row[g] /\ row[g].kind \notin {"grant"} /\ row'[g].kind # "grant"
    BY <2>3
  <2> QED
    BY <1>2, <2>1, <2>2, <2>3 DEF Elsewhere, Still
<1>3. ASSUME NEW r \in Ids, row[r].kind = "role", row[r].org = p PROVE row'[r] = row[r]
  BY <1>3 DEF Elsewhere, Still
<1>4. \A r \in Ids : row[r].kind = "role" /\ row[r].org = p =>
         /\ Found(r, "role")' <=> Found(r, "role")
         /\ row'[r].owner = row[r].owner /\ row'[r].perms = row[r].perms
  BY <1>3 DEF Found
<1> QED
  BY <1>1, <1>2, <1>4 DEF SameRights

\* The statement of a change of roles that inserts a role.
LEMMA RoleInserted ==
    ASSUME AccessInv, NEW c \in Callers, ~Idle(c), NEW o \in Ids, Is(row, o, "organization"),
           Tail(todo[c]) = <<Bump(o)>>, Room, NEW slug, NEW system,
           row' = [row EXCEPT ![NextId] = Role(o, slug, system, FALSE, {})], Done(c, <<Bump(o)>>)
    PROVE  AccessInv'
<1>1. PICK r : r = Role(o, slug, system, FALSE, {})
  OBVIOUS
<1>2. /\ OfTables(r) /\ r.kind = "role" /\ r.org = o /\ r.owner = FALSE
  BY <1>1 DEF OfTables, Blanks, Role
<1>3. PICK k : k = NextId
  OBVIOUS
<1>4. /\ AccessRows(row') /\ Grows(row, row') /\ k \in Ids /\ row[k] = NoRow
      /\ row'[k] = r /\ \A i \in Ids \ {k} : row'[i] = row[i]
  BY <1>1, <1>2, <1>3, InsertTells DEF AccessInv
<1>5. Owing(row', o, <<Bump(o)>>) /\ Prepared(row', <<Bump(o)>>)
  <2>1. Is(row', o, "organization")
    BY <1>4, IsKept
  <2> QED
    BY <2>1, BumpIsOwing
<1>6. \A i \in Ids : row'[i].kind \in {"organization", "session", "token"} => row'[i] = row[i]
  BY <1>2, <1>4
<1>7. ASSUME NEW p PROVE SameRights(p)
  <2>1. row[k].kind = "none"
    BY <1>4 DEF NoRow
  <2>2. \A i \in Ids : Elsewhere(p, i)
    BY <1>2, <1>4, <2>1 DEF Elsewhere, Still
  <2> QED
    BY <2>2, RightsElsewhere
<1> QED
  BY <1>4, <1>5, <1>6, <1>7, RoleStatement

\* One that grants a role.
LEMMA RoleGranted ==
    ASSUME AccessInv, NEW c \in Callers, ~Idle(c), NEW o \in Ids, Is(row, o, "organization"),
           Tail(todo[c]) = <<Bump(o)>>, Room, NEW u \in Ids, NEW r \in Ids,
           OfRole(row, o, r), Is(row, u, "user"), row[u].org = o,
           row' = [row EXCEPT ![NextId] = UserRole(u, r)], Done(c, <<Bump(o)>>)
    PROVE  AccessInv'
<1>1. PICK g : g = UserRole(u, r)
  OBVIOUS
<1>2. OfTables(g) /\ g.kind = "grant" /\ g.user = u /\ g.role = r /\ g.code = <<u, r>>
  BY <1>1 DEF OfTables, Blanks, UserRole
<1>3. PICK k : k = NextId
  OBVIOUS
<1>4. /\ AccessRows(row') /\ Grows(row, row') /\ k \in Ids /\ row[k] = NoRow
      /\ row'[k] = g /\ \A i \in Ids \ {k} : row'[i] = row[i]
  <2>1. Is(row, g.user, "user") /\ Is(row, g.role, "role") /\ row[g.user].org = row[g.role].org
    BY <1>2 DEF OfRole
  <2>2. row' = [row EXCEPT ![NextId] = g]
    BY <1>1
  <2> QED
    BY <1>2, <1>3, <2>1, <2>2, InsertTells DEF AccessInv
<1>5. Owing(row', o, <<Bump(o)>>) /\ Prepared(row', <<Bump(o)>>)
  <2>1. Is(row', o, "organization")
    BY <1>4, IsKept
  <2> QED
    BY <2>1, BumpIsOwing
<1>6. \A i \in Ids : row'[i].kind \in {"organization", "session", "token"} => row'[i] = row[i]
  BY <1>2, <1>4
<1>7. ASSUME NEW p, p # o PROVE SameRights(p)
  <2>1. row[k].kind = "none"
    BY <1>4 DEF NoRow
  <2>2. ~UserOf(p, u)
    BY <1>7 DEF UserOf
  <2>3. \A i \in Ids : Elsewhere(p, i)
    BY <1>2, <1>4, <2>1, <2>2 DEF Elsewhere, Still
  <2> QED
    BY <2>3, RightsElsewhere
<1> QED
  BY <1>4, <1>5, <1>6, <1>7, RoleStatement

\* An insert: of a login's token, of a role, or of a grant.
LEMMA TokenOpened ==
    ASSUME AccessInv, NEW c \in Callers, ~Idle(c), Head(todo[c]).do = "create", Room,
           NEW s \in Ids, Opening(row, s, todo[c]), Tail(todo[c]) = <<>>,
           row' = [row EXCEPT ![NextId] = Token(s)], Done(c, <<>>)
    PROVE  AccessInv'
<1> DEFINE q == todo[c]
<1>1. /\ Token(s).kind = "token" /\ Token(s).session = s /\ ~Token(s).revoked /\ Token(s).next = 0
      /\ OfTables(Token(s))
  BY DEF OfTables, Blanks, Token
<1>2. PICK k : k = NextId
  OBVIOUS
<1>3. Is(row, s, "session")
  BY DEF Opening
<1>4. /\ AccessRows(row') /\ Grows(row, row') /\ k \in Ids /\ row[k] = NoRow
      /\ row'[k] = Token(s) /\ \A i \in Ids \ {k} : row'[i] = row[i]
  BY <1>1, <1>2, <1>3, InsertTells DEF AccessInv
<1>5. Script(row', <<>>)
  BY DEF Script
<1>6. \A o : ~Owing(row, o, q)
  <2>1. \A o : Head(q) # Bump(o)
    BY Statements
  <2>2. \A o : Tail(q) # <<Bump(o)>>
    BY SMTT(60), ShortLists
  <2> HIDE DEF q
  <2> QED
    BY <2>1, <2>2, OwesNot
<1>7. ASSUME Orderly, NEW x \in Ids, Is(row', x, "session") PROVE SessionKept(x, <<>>)
  <2>1. Is(row, x, "session") /\ row'[x] = row[x]
    BY <1>1, <1>4, <1>7 DEF Is
  <2>2. CASE x = s
    <3>1. Unended(row, s) /\ \A t \in Ids : row[t].kind = "token" => row[t].session # s
      BY <1>7 DEF AccessInv, SessionsTold, Prepared
    <3>2. \A t \in Ids : Live(row', s, t) => t = k
      BY <1>4, <3>1 DEF Live
    <3>3. Unended(row', s)
      BY <2>1, <2>2, <3>1 DEF Unended
    <3> QED
      BY <2>2, <3>2, <3>3 DEF SessionKept, OneLive
  <2>3. CASE x # s
    <3>1. \A y \in Ids : Live(row', x, y) => Live(row, x, y)
      BY <1>1, <1>4, <2>3 DEF Live
    <3>2. Unended(row, x) => Unended(row', x)
      BY <2>1 DEF Unended
    <3>3. q # <<RevokeAll(x, FALSE)>>
      <4>1. q = <<RevokeAll(x, FALSE)>> => Head(q) = RevokeAll(x, FALSE)
        BY ShortLists
      <4>2. RevokeAll(x, FALSE).do = "revoke"
        BY DEF RevokeAll
      <4> QED
        BY <4>1, <4>2
    <3> QED
      BY <1>7, <2>1, <3>1, <3>2, <3>3, SessionStays
  <2> QED
    BY <2>2, <2>3
<1>8. \A i \in Ids : Still(i)
  <2>1. row[k].kind = "none"
    BY <1>4 DEF NoRow
  <2> QED
    BY <1>1, <1>4, <2>1 DEF Still
<1>9. \A o \in Ids : Is(row', o, "organization") =>
         Is(row, o, "organization") /\ row'[o].version = row[o].version /\ row'[o].allowed = row[o].allowed
  BY <1>1, <1>4 DEF Is
<1> QED
  BY <1>4, <1>5, <1>6, <1>7, <1>8, <1>9, NothingPrepared, PlainStatement

\* Every insert keeps the invariant.
LEMMA CreateKeeps ==
    ASSUME AccessInv, NEW c \in Callers, CreatePlain(c)
    PROVE  AccessInv'
<1> DEFINE q == todo[c]
<1>1. /\ ~Idle(c) /\ Head(q).do = "create" /\ "of" \notin DOMAIN Head(q) /\ Script(row, q)
      /\ q # <<>> /\ Room
  BY DEF CreatePlain, Create, Idle, AccessInv, Scripts
<1>2. CASE Refused(Head(q).set, 0)
  BY <1>2, ThrowKeeps DEF CreatePlain, Create
<1>3. CASE ~Refused(Head(q).set, 0)
  <2>1. row' = [row EXCEPT ![NextId] = Head(q).set] /\ Done(c, Tail(q))
    BY <1>3 DEF CreatePlain, Create, Done
  <2>2. \/ \E s \in Ids : Opening(row, s, q) /\ Head(q) = Insert(Token(s)) /\ Tail(q) = <<>>
        \/ \E t \in Ids :
             /\ Refreshing(row, t, q) /\ Tail(q) = <<>>
             /\ Head(q) = [do |-> "create", set |-> Token(row[t].session), of |-> t]
        \/ \E o \in Ids : /\ Is(row, o, "organization")
                          /\ RoleHead(row, o, Head(q)) /\ Tail(q) = <<Bump(o)>>
    BY <1>1, ByName
  <2>3. ASSUME NEW s \in Ids, Opening(row, s, q), Head(q) = Insert(Token(s)), Tail(q) = <<>>
        PROVE  AccessInv'
    <3>1. Head(q).set = Token(s)
      BY <2>3, Statements
    <3> QED
      BY <1>1, <2>1, <2>3, <3>1, TokenOpened
  <2>4. ASSUME NEW t \in Ids, Head(q) = [do |-> "create", set |-> Token(row[t].session), of |-> t]
        PROVE  FALSE
    BY <1>1, <2>4
  <2>5. ASSUME NEW o \in Ids, Is(row, o, "organization"), RoleHead(row, o, Head(q)),
               Tail(q) = <<Bump(o)>>
        PROVE  AccessInv'
    <3>1. Adds(row, o, Head(q))
      BY <1>1, <2>5, RoleInserts
    <3>2. ASSUME NEW slug, NEW system, Head(q) = Insert(Role(o, slug, system, FALSE, {}))
          PROVE  AccessInv'
      <4>1. Head(q).set = Role(o, slug, system, FALSE, {})
        BY <3>2, Statements
      <4>2. row' = [row EXCEPT ![NextId] = Role(o, slug, system, FALSE, {})] /\ Done(c, <<Bump(o)>>)
        BY <2>1, <2>5, <4>1
      <4> QED
        BY <1>1, <2>5, <4>2, RoleInserted
    <3>3. ASSUME NEW r \in Ids, NEW u \in Ids, OfRole(row, o, r), Is(row, u, "user"),
                 row[u].org = o, Head(q) = Insert(UserRole(u, r))
          PROVE  AccessInv'
      <4>1. Head(q).set = UserRole(u, r)
        BY <3>3, Statements
      <4>2. row' = [row EXCEPT ![NextId] = UserRole(u, r)] /\ Done(c, <<Bump(o)>>)
        BY <2>1, <2>5, <4>1
      <4> QED
        BY <1>1, <2>5, <3>3, <4>2, RoleGranted
    <3> QED
      BY <3>1, <3>2, <3>3 DEF Adds
  <2> QED
    BY <2>2, <2>3, <2>4, <2>5
<1> QED
  BY <1>2, <1>3

\* One that changes a role.
LEMMA RoleAltered ==
    ASSUME AccessInv, NEW c \in Callers, ~Idle(c), NEW o \in Ids, Is(row, o, "organization"),
           Tail(todo[c]) = <<Bump(o)>>, NEW r \in Ids, OfRole(row, o, r),
           DOMAIN row' = Ids, \A i \in Ids \ {r} : row'[i] = row[i],
           DOMAIN row'[r] = DOMAIN row[r], row'[r].kind = row[r].kind, row'[r].org = row[r].org,
           row'[r].system = row[r].system, row'[r].owner = row[r].owner,
           row[r].owner => ~row'[r].deleted, Done(c, <<Bump(o)>>)
    PROVE  AccessInv'
<1>1. row[r].kind = "role" /\ row[r].org = o
  BY DEF OfRole, Is
<1>2. Grows(row, row')
  BY <1>1 DEF Grows
<1>3. AccessRows(row')
  <2>1. \A i \in Ids : OfTables(row[i]) /\ RowTells(row, i)
    BY DEF AccessInv, AccessRows
  <2>2. OfTables(row'[r])
    BY <1>1, <2>1, StaysOfTables
  <2>3. \A i \in Ids : OfTables(row'[i])
    BY <2>1, <2>2
  <2>4. \A i \in Ids : Alters(row, row', i)
    <3>1. Alters(row, row', r)
      BY <1>1 DEF Alters
    <3>2. ASSUME NEW i \in Ids \ {r} PROVE Alters(row, row', i)
      BY <2>1 DEF Alters, RowTells, OwnerTells
    <3> QED
      BY <3>1, <3>2
  <2> QED
    BY <1>2, <2>3, <2>4, RowsAreAltered DEF AccessInv
<1>4. Owing(row', o, <<Bump(o)>>) /\ Prepared(row', <<Bump(o)>>)
  <2>1. Is(row', o, "organization")
    BY <1>2, IsKept
  <2> QED
    BY <2>1, BumpIsOwing
<1>5. \A i \in Ids : row'[i].kind \in {"organization", "session", "token"} => row'[i] = row[i]
  BY <1>1
<1>6. ASSUME NEW p, p # o PROVE SameRights(p)
  <2>1. \A i \in Ids : Elsewhere(p, i)
    BY <1>1, <1>6 DEF Elsewhere, Still
  <2> QED
    BY <2>1, RightsElsewhere
<1> QED
  BY <1>2, <1>3, <1>4, <1>5, <1>6, RoleStatement

\* One of a login, that counts the failures of a user or forgets them.
LEMMA UserAltered ==
    ASSUME AccessInv, NEW c \in Callers, ~Idle(c), Head(todo[c]).do # "revoke",
           \A o : Head(todo[c]) # Bump(o),
           NEW u \in Ids, Is(row, u, "user"), NEW rest, Script(row', rest), Prepared(row', rest),
           \A o : Tail(todo[c]) # <<Bump(o)>>,
           DOMAIN row' = Ids, \A i \in Ids \ {u} : row'[i] = row[i],
           DOMAIN row'[u] = DOMAIN row[u], row'[u].kind = row[u].kind, row'[u].org = row[u].org,
           Done(c, rest)
    PROVE  AccessInv'
<1> DEFINE q == todo[c]
<1>1. row[u].kind = "user"
  BY DEF Is
<1>2. Grows(row, row')
  BY <1>1 DEF Grows
<1>3. AccessRows(row')
  <2>1. \A i \in Ids : OfTables(row[i]) /\ RowTells(row, i)
    BY DEF AccessInv, AccessRows
  <2>2. OfTables(row'[u])
    BY <1>1, <2>1, StaysOfTables
  <2>3. \A i \in Ids : OfTables(row'[i])
    BY <2>1, <2>2
  <2>4. \A i \in Ids : Alters(row, row', i)
    <3>1. Alters(row, row', u)
      BY <1>1 DEF Alters
    <3>2. ASSUME NEW i \in Ids \ {u} PROVE Alters(row, row', i)
      BY <2>1 DEF Alters, RowTells, OwnerTells
    <3> QED
      BY <3>1, <3>2
  <2> QED
    BY <1>2, <2>3, <2>4, RowsAreAltered DEF AccessInv
<1>4. \A o : ~Owing(row, o, q)
  BY OwesNot
<1>5. ASSUME Orderly, NEW x \in Ids, Is(row', x, "session") PROVE SessionKept(x, rest)
  <2>1. Is(row, x, "session") /\ row'[x] = row[x]
    BY <1>1, <1>5 DEF Is
  <2>2. \A y \in Ids : Live(row', x, y) => Live(row, x, y)
    BY <1>1 DEF Live
  <2>3. Unended(row, x) => Unended(row', x)
    BY <2>1 DEF Unended
  <2>4. q # <<RevokeAll(x, FALSE)>>
    <3>1. q = <<RevokeAll(x, FALSE)>> => Head(q) = RevokeAll(x, FALSE)
      BY ShortLists
    <3>2. RevokeAll(x, FALSE).do = "revoke"
      BY DEF RevokeAll
    <3> QED
      BY <3>1, <3>2
  <2> QED
    BY <1>5, <2>1, <2>2, <2>3, <2>4, SessionStays
<1>6. \A i \in Ids : Still(i)
  BY <1>1 DEF Still
<1>7. \A o \in Ids : Is(row', o, "organization") =>
         Is(row, o, "organization") /\ row'[o].version = row[o].version /\ row'[o].allowed = row[o].allowed
  BY <1>1 DEF Is
<1> QED
  BY <1>2, <1>3, <1>4, <1>5, <1>6, <1>7, PlainStatement

\* One of a logout, which revokes the session.
LEMMA SessionAltered ==
    ASSUME AccessInv, NEW c \in Callers, ~Idle(c), Head(todo[c]).do = "update",
           NEW s \in Ids, Is(row, s, "session"), Tail(todo[c]) = <<RevokeAll(s, FALSE)>>,
           DOMAIN row' = Ids, \A i \in Ids \ {s} : row'[i] = row[i],
           DOMAIN row'[s] = DOMAIN row[s], row'[s].kind = row[s].kind, Done(c, <<RevokeAll(s, FALSE)>>)
    PROVE  AccessInv'
<1> DEFINE q == todo[c]
           rest == <<RevokeAll(s, FALSE)>>
<1>1. row[s].kind = "session"
  BY DEF Is
<1>2. Grows(row, row')
  BY <1>1 DEF Grows
<1>3. AccessRows(row')
  <2>1. \A i \in Ids : OfTables(row[i]) /\ RowTells(row, i)
    BY DEF AccessInv, AccessRows
  <2>2. OfTables(row'[s])
    BY <1>1, <2>1, StaysOfTables
  <2>3. \A i \in Ids : OfTables(row'[i])
    BY <2>1, <2>2
  <2>4. \A i \in Ids : Alters(row, row', i)
    <3>1. Alters(row, row', s)
      BY <1>1 DEF Alters
    <3>2. ASSUME NEW i \in Ids \ {s} PROVE Alters(row, row', i)
      BY <2>1 DEF Alters, RowTells, OwnerTells
    <3> QED
      BY <3>1, <3>2
  <2> QED
    BY <1>2, <2>3, <2>4, RowsAreAltered DEF AccessInv
<1>4. Script(row', rest) /\ Prepared(row', rest)
  <2>1. Is(row', s, "session")
    BY <1>2, IsKept
  <2>2. Revoking(row', rest)
    BY <2>1 DEF Revoking
  <2>3. Head(rest).do = "revoke"
    BY ShortLists DEF RevokeAll
  <2> QED
    BY <2>2, <2>3, PreparedUnless DEF Script
<1>5. \A o : ~Owing(row, o, q)
  <2>1. \A o : Head(q) # Bump(o)
    BY Statements
  <2>2. \A o : Tail(q) # <<Bump(o)>>
    <3>1. \A o : RevokeAll(s, FALSE) # Bump(o)
      BY DEF RevokeAll, Bump, Increment
    <3>2. \A x, y : <<x>> = <<y>> => x = y
      BY ShortLists
    <3> QED
      BY <3>1, <3>2
  <2> HIDE DEF q
  <2> QED
    BY <2>1, <2>2, OwesNot
<1>6. ASSUME Orderly, NEW x \in Ids, Is(row', x, "session") PROVE SessionKept(x, rest)
  <2>1. Is(row, x, "session") /\ (x # s => row'[x] = row[x])
    BY <1>1, <1>6 DEF Is
  <2>2. \A y \in Ids : Live(row', x, y) => Live(row, x, y)
    BY <1>1 DEF Live
  <2>3. Unended(row, x) => Unended(row', x) \/ x = s
    BY <2>1 DEF Unended
  <2>4. q # <<RevokeAll(x, FALSE)>>
    <3>1. q = <<RevokeAll(x, FALSE)>> => Head(q) = RevokeAll(x, FALSE)
      BY ShortLists
    <3>2. RevokeAll(x, FALSE).do = "revoke"
      BY DEF RevokeAll
    <3> QED
      BY <3>1, <3>2
  <2> QED
    BY <1>6, <2>1, <2>2, <2>3, <2>4, SessionStays
<1>7. \A i \in Ids : Still(i)
  BY <1>1 DEF Still
<1>8. \A o \in Ids : Is(row', o, "organization") =>
         Is(row, o, "organization") /\ row'[o].version = row[o].version /\ row'[o].allowed = row[o].allowed
  BY <1>1 DEF Is
<1> QED
  BY <1>2, <1>3, <1>4, <1>5, <1>6, <1>7, <1>8, PlainStatement

\* An UPDATE by id.
LEMMA UpdateTells ==
    ASSUME AccessInv, NEW c \in Callers, NEW i \in Ids, NEW set,
           row[i].kind \in {"user", "role", "session"},
           Head(todo[c]) = Set(i, set), Update(c), ~Throw(c)
    PROVE  /\ DOMAIN row' = Ids /\ \A j \in Ids \ {i} : row'[j] = row[j]
           /\ row'[i] = Merge(row[i], set) /\ Done(c, Tail(todo[c]))
<1>1. PICK s : s = Head(todo[c])
  OBVIOUS
<1>2. s.ids = {i} /\ s.set = set
  BY <1>1, Statements
<1>3. Exists(i)
  BY DEF Exists, NoRow, Gone
<1>4. /\ row' = [j \in Ids |-> IF j \in s.ids /\ Exists(j) THEN Merge(row[j], s.set) ELSE row[j]]
      /\ Done(c, Tail(todo[c]))
  BY <1>1 DEF Update, Done
<1> QED
  BY <1>2, <1>3, <1>4

\* Every update does: of a user, a session or a role.
LEMMA UpdateKeeps ==
    ASSUME AccessInv, NEW c \in Callers, Update(c)
    PROVE  AccessInv'
<1> DEFINE q == todo[c]
<1>1. ~Idle(c) /\ Head(q).do = "update" /\ Script(row, q) /\ q # <<>>
  BY DEF Update, Idle, AccessInv, Scripts
<1> SUFFICES ASSUME ~Throw(c) PROVE AccessInv'
  BY ThrowKeeps
<1>2. \/ \E u \in Ids : /\ Is(row, u, "user") /\ Head(q) = Set(u, [fails |-> 0])
                        /\ Tail(q) = <<OpenSession(u), Insert(Token(0))>>
      \/ \E s \in Ids : /\ Is(row, s, "session") /\ Head(q) = Set(s, [revoked |-> TRUE])
                        /\ Tail(q) = <<RevokeAll(s, FALSE)>>
      \/ \E o \in Ids : /\ Is(row, o, "organization")
                        /\ RoleHead(row, o, Head(q)) /\ Tail(q) = <<Bump(o)>>
  BY <1>1, ByName
<1>3. ASSUME NEW u \in Ids, Is(row, u, "user"), Head(q) = Set(u, [fails |-> 0]),
             Tail(q) = <<OpenSession(u), Insert(Token(0))>>
      PROVE  AccessInv'
  <2>1. /\ DOMAIN row' = Ids /\ \A j \in Ids \ {u} : row'[j] = row[j]
        /\ row'[u] = Merge(row[u], [fails |-> 0]) /\ Done(c, Tail(q))
    BY <1>3, UpdateTells DEF Is
  <2>2. DOMAIN row[u] = {"kind", "code", "org", "fails"}
    BY <1>3, RowFields DEF Is, AccessInv, AccessRows
  <2>3. DOMAIN row'[u] = DOMAIN row[u] /\ row'[u].kind = row[u].kind /\ row'[u].org = row[u].org
    <3>1. PICK set : set = [fails |-> 0]
      OBVIOUS
    <3>2. row'[u] = Merge(row[u], set) /\ DOMAIN set = {"fails"}
      BY <2>1, <3>1
    <3> QED
      BY <2>2, <3>2, MergeTells
  <2>4. \A o : Head(q) # Bump(o)
    BY <1>1, Statements
  <2>5. \A o : Tail(q) # <<Bump(o)>>
    <3>1. \A x, y, z : <<x, y>> # <<z>>
      BY TwoAreNotOne
    <3> QED
      BY <1>3, <3>1, Zenon
  <2>6. Script(row', Tail(q)) /\ Prepared(row', Tail(q))
    <3>1. Is(row', u, "user")
      BY <1>3, <2>3 DEF Is
    <3>2. LoggingIn(row', Tail(q))
      BY <1>3, <3>1 DEF LoggingIn
    <3>3. PICK x, y : x = OpenSession(u) /\ y = Insert(Token(0))
      OBVIOUS
    <3>4. Tail(q) = <<x, y>>
      BY <1>3, <3>3
    <3>5. Head(Tail(q)) = x
      BY <3>4, ShortLists
    <3>6. x.do = "enter"
      BY <3>3, Statements
    <3> HIDE DEF q
    <3> QED
      BY <3>2, <3>5, <3>6, PreparedUnless DEF Script
  <2> QED
    BY <1>1, <1>3, <2>1, <2>3, <2>4, <2>5, <2>6, UserAltered
<1>4. ASSUME NEW s \in Ids, Is(row, s, "session"), Head(q) = Set(s, [revoked |-> TRUE]),
             Tail(q) = <<RevokeAll(s, FALSE)>>
      PROVE  AccessInv'
  <2>1. /\ DOMAIN row' = Ids /\ \A j \in Ids \ {s} : row'[j] = row[j]
        /\ row'[s] = Merge(row[s], [revoked |-> TRUE]) /\ Done(c, Tail(q))
    BY <1>4, UpdateTells DEF Is
  <2>2. DOMAIN row[s] = {"kind", "user", "revoked", "replayed"}
    BY <1>4, RowFields DEF Is, AccessInv, AccessRows
  <2>3. DOMAIN row'[s] = DOMAIN row[s] /\ row'[s].kind = row[s].kind
    BY SMTT(60), <2>1, <2>2, MergeTells
  <2> QED
    BY <1>1, <1>4, <2>1, <2>3, SessionAltered
<1>5. ASSUME NEW o \in Ids, Is(row, o, "organization"), RoleHead(row, o, Head(q)), Tail(q) = <<Bump(o)>>
      PROVE  AccessInv'
  <2>1. EditsRole(row, o, Head(q))
    BY <1>1, <1>5, RoleUpdates
  <2>2. ASSUME NEW r \in Ids, OfRole(row, o, r), NEW set, Head(q) = Set(r, set),
               DOMAIN set \subseteq {"deleted"}, row[r].owner => ("deleted" \notin DOMAIN set \/ ~set.deleted)
        PROVE  AccessInv'
    <3>1. /\ DOMAIN row' = Ids /\ \A j \in Ids \ {r} : row'[j] = row[j]
          /\ row'[r] = Merge(row[r], set) /\ Done(c, Tail(q))
      BY <2>2, UpdateTells DEF Is, OfRole
    <3>2. /\ row[r].kind = "role" /\ (row[r].owner => ~row[r].deleted)
          /\ DOMAIN row[r] = {"kind", "code", "org", "deleted", "system", "owner", "perms"}
      BY <2>2, RowFields DEF Is, OfRole, AccessInv, AccessRows, RowTells, OwnerTells
    <3>3. /\ DOMAIN row'[r] = DOMAIN row[r] /\ row'[r].kind = row[r].kind /\ row'[r].org = row[r].org
          /\ row'[r].system = row[r].system /\ row'[r].owner = row[r].owner
      BY <2>2, <3>1, <3>2, MergeTells
    <3>4. row[r].owner => ~row'[r].deleted
      BY <2>2, <3>1, <3>2, MergeTells
    <3> QED
      BY <1>1, <1>5, <2>2, <3>1, <3>3, <3>4, RoleAltered
  <2>3. ASSUME NEW r \in Ids, OfRole(row, o, r), Head(q) = Set(r, <<>>) PROVE AccessInv'
    <3>1. DOMAIN <<>> = {}
      OBVIOUS
    <3>2. PICK set : set = <<>>
      OBVIOUS
    <3>3. Head(q) = Set(r, set) /\ DOMAIN set = {}
      BY <2>3, <3>1, <3>2
    <3> QED
      BY <2>2, <2>3, <3>3
  <2>4. ASSUME NEW r \in Ids, OfRole(row, o, r), NEW b \in BOOLEAN, row[r].owner => ~b,
               Head(q) = Set(r, [deleted |-> b])
        PROVE  AccessInv'
    <3>1. PICK set : set = [deleted |-> b]
      OBVIOUS
    <3>2. Head(q) = Set(r, set) /\ DOMAIN set = {"deleted"} /\ (set.deleted <=> b)
      BY <2>4, <3>1
    <3> QED
      BY <2>2, <2>4, <3>2
  <2> QED
    BY <2>1, <2>3, <2>4 DEF EditsRole
<1> QED
  BY <1>2, <1>3, <1>4, <1>5

\* The version is raised: it now tells what users are allowed.
LEMMA VersionRaised ==
    ASSUME AccessInv, NEW c \in Callers, ~Idle(c), NEW o \in Ids, Is(row, o, "organization"),
           Head(todo[c]) = Bump(o), Tail(todo[c]) = <<>>,
           DOMAIN row' = Ids, \A i \in Ids \ {o} : row'[i] = row[i],
           DOMAIN row'[o] = DOMAIN row[o], row'[o].kind = row[o].kind, row'[o].allowed = Allowed(o),
           Done(c, <<>>)
    PROVE  AccessInv'
<1> DEFINE q == todo[c]
<1>1. row[o].kind = "organization"
  BY DEF Is
<1>2. Grows(row, row')
  BY <1>1 DEF Grows
<1>3. AccessRows(row')
  <2>1. \A i \in Ids : OfTables(row[i]) /\ RowTells(row, i)
    BY DEF AccessInv, AccessRows
  <2>2. OfTables(row'[o])
    BY <1>1, <2>1, StaysOfTables
  <2>3. \A i \in Ids : OfTables(row'[i])
    BY <2>1, <2>2
  <2>4. \A i \in Ids : Alters(row, row', i)
    <3>1. Alters(row, row', o)
      BY <1>1 DEF Alters
    <3>2. ASSUME NEW i \in Ids \ {o} PROVE Alters(row, row', i)
      BY <2>1 DEF Alters, RowTells, OwnerTells
    <3> QED
      BY <3>1, <3>2
  <2> QED
    BY <1>2, <2>3, <2>4, RowsAreAltered DEF AccessInv
<1>4. Script(row', <<>>)
  BY DEF Script
<1>5. \A i \in Ids : Still(i)
  BY <1>1 DEF Still
<1>6. ASSUME NEW p \in Ids, Is(row', p, "organization") PROVE VersionKept(p, q, <<>>)
  <2>1. SameRights(p)
    BY <1>5, RightsStay
  <2>2. CASE p = o
    <3>1. Allowed(o)' = Allowed(o)
      BY <2>1, <2>2, AllowedKept DEF AccessInv
    <3> QED
      BY <2>2, <3>1 DEF VersionKept
  <2>3. CASE p # o
    <3>1. ~Owing(row, p, q)
      <4>1. Head(q) # Bump(p)
        BY <2>3, Statements
      <4>2. Tail(q) # <<Bump(p)>>
        BY ShortLists
      <4> HIDE DEF q
      <4> QED
        BY <4>1, <4>2, OwesNot
    <3> QED
      BY <1>6, <2>1, <2>3, <3>1 DEF VersionKept, Is
  <2> QED
    BY <2>2, <2>3
<1>7. ASSUME Orderly, NEW x \in Ids, Is(row', x, "session") PROVE SessionKept(x, <<>>)
  <2>1. Is(row, x, "session") /\ row'[x] = row[x]
    BY <1>1, <1>7 DEF Is
  <2>2. \A y \in Ids : Live(row', x, y) => Live(row, x, y)
    BY <1>1 DEF Live
  <2>3. Unended(row, x) => Unended(row', x)
    BY <2>1 DEF Unended
  <2>4. q # <<RevokeAll(x, FALSE)>>
    <3>1. q = <<RevokeAll(x, FALSE)>> => Head(q) = RevokeAll(x, FALSE)
      BY ShortLists
    <3>2. RevokeAll(x, FALSE).do = "revoke" /\ Bump(o).do = "increment"
      BY DEF RevokeAll, Bump, Increment
    <3> QED
      BY <3>1, <3>2
  <2> QED
    BY <1>7, <2>1, <2>2, <2>3, <2>4, SessionStays
<1> QED
  BY <1>2, <1>3, <1>4, <1>6, <1>7, NothingPrepared, StatementKeeps

\* Every increment does: of failures or a version.
LEMMA CountUpKeeps ==
    ASSUME AccessInv, NEW c \in Callers, CountUp(c)
    PROVE  AccessInv'
<1> DEFINE q == todo[c]
<1>1. ~Idle(c) /\ Head(q).do = "increment" /\ Script(row, q) /\ q # <<>>
  BY DEF CountUp, Idle, AccessInv, Scripts
<1>2. /\ Tail(q) = <<>>
      /\ \/ \E u \in Ids : Is(row, u, "user") /\ Head(q) = Increment(u, "fails")
         \/ \E o \in Ids : Is(row, o, "organization") /\ Head(q) = Bump(o)
  BY <1>1, ByName
<1>3. Done(c, <<>>) /\ DOMAIN row = Ids
  BY <1>2 DEF CountUp, Done, AccessInv, AccessRows
<1>4. ASSUME NEW u \in Ids, Is(row, u, "user"), Head(q) = Increment(u, "fails") PROVE AccessInv'
  <2>1. Head(q).id = u /\ Head(q).field = "fails"
    BY <1>4, Statements
  <2>2. row' = [row EXCEPT ![u] = [row[u] EXCEPT !.fails = @ + 1]]
    BY <2>1 DEF CountUp
  <2>3. DOMAIN row[u] = {"kind", "code", "org", "fails"}
    BY <1>4, RowFields DEF Is, AccessInv, AccessRows
  <2>4. row'[u] = [row[u] EXCEPT !.fails = @ + 1]
    BY <1>3, <2>2
  <2>5. DOMAIN row'[u] = DOMAIN row[u] /\ row'[u].kind = row[u].kind /\ row'[u].org = row[u].org
    BY <2>3, <2>4
  <2>6. DOMAIN row' = Ids /\ \A i \in Ids \ {u} : row'[i] = row[i]
    BY <1>3, <2>2
  <2>7. \A o : Head(q) # Bump(o)
    <3>1. \A o : Bump(o).field = "version"
      BY Statements
    <3> QED
      BY <2>1, <3>1
  <2>8. \A o : Tail(q) # <<Bump(o)>>
    BY <1>2, ShortLists
  <2>9. Script(row', <<>>)
    BY DEF Script
  <2>10. Head(q).do # "revoke"
    BY <1>1
  <2> QED
    BY <1>1, <1>3, <1>4, <2>5, <2>6, <2>7, <2>8, <2>9, <2>10, NothingPrepared, UserAltered
<1>5. ASSUME NEW o \in Ids, Is(row, o, "organization"), Head(q) = Bump(o) PROVE AccessInv'
  <2>1. Head(q).id = o /\ Head(q).field = "version"
    BY <1>5, Statements
  <2>2. row' = [row EXCEPT ![o] = [row[o] EXCEPT !.version = @ + 1, !.allowed = Allowed(o)]]
    BY <2>1 DEF CountUp
  <2>3. DOMAIN row[o] = {"kind", "code", "version", "allowed"}
    BY <1>5, RowFields DEF Is, AccessInv, AccessRows
  <2>4. row'[o] = [row[o] EXCEPT !.version = @ + 1, !.allowed = Allowed(o)]
    BY <1>3, <2>2
  <2>5. DOMAIN row'[o] = DOMAIN row[o] /\ row'[o].kind = row[o].kind /\ row'[o].allowed = Allowed(o)
    BY <2>3, <2>4
  <2>6. DOMAIN row' = Ids /\ \A i \in Ids \ {o} : row'[i] = row[i]
    BY <1>3, <2>2
  <2> QED
    BY <1>1, <1>2, <1>3, <1>5, <2>5, <2>6, VersionRaised
<1> QED
  BY <1>2, <1>4, <1>5

\* The permissions of a role are read, and replaced.
LEMMA SeeKeeps ==
    ASSUME AccessInv, NEW c \in Callers, SeePermissions(c)
    PROVE  AccessInv'
<1> DEFINE q == todo[c]
<1>1. ~Idle(c) /\ Head(q).do = "see" /\ Script(row, q) /\ q # <<>>
  BY DEF SeePermissions, Idle, AccessInv, Scripts
<1>2. PICK o \in Ids : Is(row, o, "organization") /\ RoleHead(row, o, Head(q)) /\ Tail(q) = <<Bump(o)>>
  BY <1>1, ByName
<1>3. LooksAt(row, o, Head(q))
  BY <1>1, <1>2, RoleSees
<1>4. PICK r \in Ids, perms \in SUBSET Permissions :
        OfRole(row, o, r) /\ Head(q) = [do |-> "see", role |-> r, perms |-> perms]
  BY <1>3 DEF LooksAt
<1>5. PICK h : h = [do |-> "replace", role |-> r, perms |-> perms, seen |-> row[r].perms]
  OBVIOUS
<1>6. <<h>> \o <<Bump(o)>> = <<h, Bump(o)>>
  <2>1. PICK b : b = Bump(o)
    OBVIOUS
  <2>2. <<h>> \o <<b>> = <<h, b>>
    BY OneAndOne
  <2> QED
    BY <2>1, <2>2
<1>7. Done(c, <<h, Bump(o)>>) /\ row' = row
  <2>1. Read(c, "see", <<h>> \o Tail(q))
    BY <1>4, <1>5 DEF SeePermissions
  <2> QED
    BY <1>2, <1>6, <2>1 DEF Read, Done
<1>8. Owing(row, o, <<h, Bump(o)>>)
  <2>1. RoleHead(row, o, h)
    BY <1>4, <1>5 DEF RoleHead
  <2> QED
    BY <1>2, <2>1, OfRolesIs DEF Owing
<1>9. Prepared(row, <<h, Bump(o)>>)
  <2>1. Tail(<<h, Bump(o)>>) # <<>>
    BY ShortLists
  <2> QED
    BY <2>1, PreparedUnless
<1>10. AccessRows(row) /\ Grows(row, row)
  BY DEF AccessInv, Grows
<1>11. ASSUME NEW p PROVE SameRights(p)
  <2>1. \A i \in Ids : Still(i)
    BY <1>7 DEF Still
  <2> QED
    BY <2>1, RightsStay
<1> QED
  BY <1>1, <1>2, <1>7, <1>8, <1>9, <1>10, <1>11, RoleStatement

\* The permissions of a role are replaced.
LEMMA ReplaceKeeps ==
    ASSUME AccessInv, NEW c \in Callers, ReplacePermissions(c)
    PROVE  AccessInv'
<1> DEFINE q == todo[c]
<1>1. ~Idle(c) /\ Head(q).do = "replace" /\ Script(row, q) /\ q # <<>>
  BY DEF ReplacePermissions, Idle, AccessInv, Scripts
<1> SUFFICES ASSUME ~Throw(c) PROVE AccessInv'
  BY ThrowKeeps
<1>2. PICK o \in Ids : Is(row, o, "organization") /\ RoleHead(row, o, Head(q)) /\ Tail(q) = <<Bump(o)>>
  BY <1>1, ByName
<1>3. Swaps(row, o, Head(q))
  BY <1>1, <1>2, RoleReplaces
<1>4. PICK r \in Ids : OfRole(row, o, r) /\ Head(q).role = r
  BY <1>3 DEF Swaps
<1>5. PICK set : row' = [row EXCEPT ![r].perms = set] /\ Done(c, Tail(q))
  BY <1>4 DEF ReplacePermissions, Done
<1>6. /\ row[r].kind = "role" /\ (row[r].owner => ~row[r].deleted) /\ DOMAIN row = Ids
      /\ DOMAIN row[r] = {"kind", "code", "org", "deleted", "system", "owner", "perms"}
  BY <1>4, RowFields DEF Is, OfRole, AccessInv, AccessRows, RowTells, OwnerTells
<1>7. /\ DOMAIN row' = Ids /\ row'[r] = [row[r] EXCEPT !.perms = set]
      /\ \A i \in Ids \ {r} : row'[i] = row[i]
  BY <1>5, <1>6
<1>8. /\ DOMAIN row'[r] = DOMAIN row[r] /\ row'[r].kind = row[r].kind /\ row'[r].org = row[r].org
      /\ row'[r].system = row[r].system /\ row'[r].owner = row[r].owner
      /\ row'[r].deleted = row[r].deleted
  BY <1>6, <1>7
<1>9. row[r].owner => ~row'[r].deleted
  BY <1>6, <1>8
<1>10. Done(c, <<Bump(o)>>)
  BY <1>2, <1>5
<1>11. OfRole(row, o, r) /\ DOMAIN row' = Ids /\ \A i \in Ids \ {r} : row'[i] = row[i]
  BY <1>4, <1>7
<1> QED
  BY <1>1, <1>2, <1>8, <1>9, <1>10, <1>11, RoleAltered

\* A grant is taken.
LEMMA DeletionKeeps ==
    ASSUME AccessInv, NEW c \in Callers, Deletion(c)
    PROVE  AccessInv'
<1> DEFINE q == todo[c]
<1>1. ~Idle(c) /\ Head(q).do = "erase" /\ Script(row, q) /\ q # <<>>
  BY DEF Deletion, Idle, AccessInv, Scripts
<1> SUFFICES ASSUME ~Throw(c) PROVE AccessInv'
  BY ThrowKeeps
<1>2. PICK o \in Ids : Is(row, o, "organization") /\ RoleHead(row, o, Head(q)) /\ Tail(q) = <<Bump(o)>>
  BY <1>1, ByName
<1>3. Takes(row, o, Head(q))
  BY <1>1, <1>2, RoleErases
<1>4. PICK g \in Ids :
        /\ Head(q) = Erase(g)
        /\ \/ row[g].kind = "gone"
           \/ row[g].kind = "grant" /\ OfRole(row, o, row[g].role) /\ ~row[row[g].role].owner
  BY <1>3 DEF Takes
<1>5. Head(q).id = g
  BY <1>4, Statements
<1>6. \A i \in Ids : OfTables(row[i]) /\ RowTells(row, i)
  BY DEF AccessInv, AccessRows
<1>7. /\ row[g].kind = "grant" /\ OfRole(row, o, row[g].role) /\ ~row[row[g].role].owner
      /\ GrantTells(row, g)
  <2>1. Exists(g)
    BY <1>5 DEF Deletion
  <2>2. row[g].kind # "gone"
    BY <1>6, <2>1, RowFields DEF Exists
  <2> QED
    BY <1>4, <1>6, <2>2 DEF RowTells
<1>8. ASSUME NEW i \in Ids PROVE "parent" \notin DOMAIN row[i]
  <2>1. DOMAIN NoRow = {"kind"} /\ DOMAIN Gone = {"kind"}
    BY DEF NoRow, Gone
  <2> QED
    BY <1>6, <2>1, RowFields
<1>9. /\ DOMAIN row' = Ids /\ row'[g] = Gone /\ \A i \in Ids \ {g} : row'[i] = row[i]
      /\ Done(c, <<Bump(o)>>)
  <2>1. /\ row' = [j \in Ids |->
                     IF j = g THEN Gone
                     ELSE IF "parent" \in DOMAIN row[j] /\ row[j].parent = g
                          THEN [row[j] EXCEPT !.parent = 0] ELSE row[j]]
        /\ Done(c, <<Bump(o)>>)
    BY <1>2, <1>5 DEF Deletion, Done
  <2> QED
    BY <1>8, <2>1
<1>10. row'[g].kind = "gone"
  BY <1>9 DEF Gone
<1>11. Grows(row, row')
  BY <1>7, <1>9, <1>10 DEF Grows
<1>12. AccessRows(row')
  <2>1. OfTables(row'[g])
    BY <1>9 DEF OfTables
  <2>2. \A i \in Ids : OfTables(row'[i])
    BY <1>6, <1>9, <2>1
  <2>3. ASSUME NEW i \in Ids \ {g} PROVE Alters(row, row', i)
    BY <1>6, <1>9 DEF Alters, RowTells, OwnerTells
  <2>4. InOrder(row')
    <3>1. InOrder(row)
      BY DEF AccessInv, AccessRows
    <3>2. row[g] # NoRow /\ row'[g] # NoRow
      BY <1>7, <1>10 DEF NoRow
    <3> QED
      BY <1>9, <3>1, <3>2 DEF InOrder
  <2>5. \A i \in Ids : row[i].kind = "grant" /\ row[row[i].role].owner => row'[i].kind = "grant"
    BY <1>7, <1>9
  <2>6. \A i \in Ids : row'[i].kind = "gone" \/ Alters(row, row', i) \/ RowTells(row', i)
    BY <1>10, <2>3
  <2> QED
    BY <1>9, <1>11, <2>2, <2>4, <2>5, <2>6, RowsGrow DEF AccessInv
<1>13. Owing(row', o, <<Bump(o)>>) /\ Prepared(row', <<Bump(o)>>)
  <2>1. Is(row', o, "organization")
    BY <1>2, <1>11, IsKept
  <2> QED
    BY <2>1, BumpIsOwing
<1>14. \A i \in Ids : row'[i].kind \in {"organization", "session", "token"} => row'[i] = row[i]
  BY <1>9, <1>10
<1>15. ASSUME NEW p, p # o PROVE SameRights(p)
  <2>1. ~UserOf(p, row[g].user)
    BY <1>7, <1>15 DEF UserOf, GrantTells, OfRole
  <2>2. \A i \in Ids : Elsewhere(p, i)
    BY <1>7, <1>9, <1>10, <2>1 DEF Elsewhere, Still
  <2> QED
    BY <2>2, RightsElsewhere
<1> QED
  BY <1>1, <1>2, <1>9, <1>11, <1>12, <1>13, <1>14, <1>15, RoleStatement

\* An organisation, with its first user, who has the owner's role.
Registered(o, n) ==
    /\ {o, o + 1, o + 2, o + 3, o + 4} \subseteq Ids
    /\ \A i \in Ids : i >= o <=> row[i] = NoRow
    /\ DOMAIN row' = Ids /\ \A i \in Ids \ {o, o + 1, o + 2, o + 3, o + 4} : row'[i] = row[i]
    /\ row'[o] = Organization(n) /\ row'[o + 1] = Role(o, "owner", TRUE, TRUE, {})
    /\ row'[o + 2] = Role(o, "manager", TRUE, FALSE, Permissions)
    /\ row'[o + 3] = User(o, n) /\ row'[o + 4] = UserRole(o + 3, o + 1)

\* What a registration makes, unless it throws.
LEMMA RegistrationTells ==
    ASSUME AccessInv, NEW c \in Callers, Registration(c), ~Throw(c)
    PROVE  Done(c, Tail(todo[c])) /\ \E o \in Ids, n \in {Head(todo[c]).code} : Registered(o, n)
<1>1. PICK o, n : o = NextId /\ n = Head(todo[c]).code
  OBVIOUS
<1>2. PICK made : made = <<Organization(n), Role(o, "owner", TRUE, TRUE, {}),
                           Role(o, "manager", TRUE, FALSE, Permissions), User(o, n), UserRole(o + 3, o + 1)>>
  OBVIOUS
<1>3. /\ Unspent >= 5
      /\ row' = [i \in Ids |-> IF i \in o..(o + 4) THEN made[i - o + 1] ELSE row[i]]
      /\ Done(c, Tail(todo[c]))
  <2> DEFINE k == Head(todo[c]).code
             m == <<Organization(k), Role(NextId, "owner", TRUE, TRUE, {}),
                    Role(NextId, "manager", TRUE, FALSE, Permissions), User(NextId, k),
                    UserRole(NextId + 3, NextId + 1)>>
  <2>1. IF Unspent < 5 \/ Refused(m[1], 0) \/ Refused(m[4], 0) THEN Throw(c)
        ELSE /\ row' = [i \in Ids |-> IF i \in NextId..(NextId + 4) THEN m[i - NextId + 1] ELSE row[i]]
             /\ todo' = [todo EXCEPT ![c] = Tail(@)]
             /\ UNCHANGED <<begun, overlapped, died>>
    BY Zenon DEF Registration
  <2>2. made = m
    BY <1>1, <1>2
  <2> HIDE DEF m
  <2>3. Unspent \in Nat
    <3>1. IsFiniteSet({i \in Ids : row[i] = NoRow})
      BY RowsAssumption, FS_Subset
    <3> QED
      BY <3>1, FS_CardinalityType DEF Unspent
  <2>4. ~(Unspent < 5)
    BY <2>1
  <2>5. /\ row' = [i \in Ids |-> IF i \in o..(o + 4) THEN made[i - o + 1] ELSE row[i]]
        /\ Done(c, Tail(todo[c]))
    BY <1>1, <2>1, <2>2 DEF Done
  <2> QED
    BY <2>3, <2>4, <2>5
<1>4. Room
  <2> SUFFICES ASSUME ~Room PROVE FALSE
    OBVIOUS
  <2>1. {i \in Ids : row[i] = NoRow} = {}
    BY DEF Room
  <2>2. Unspent = 0
    BY <2>1, FS_EmptySet DEF Unspent
  <2> QED
    BY <1>3, <2>2
<1>5. /\ \A i \in Ids : i >= o <=> row[i] = NoRow
      /\ o .. (o + 4) \subseteq Ids
  BY <1>1, <1>3, <1>4, FreeFollow DEF AccessInv, AccessRows
<1>6. o \in Ids /\ o \in Nat
  BY <1>1, <1>4, NextIsFree, RowsAssumption, FS_CardinalityType
<1>7. \A i \in Ids : i \in Nat
  BY RowsAssumption, FS_CardinalityType
<1>8. /\ made[1] = Organization(n) /\ made[2] = Role(o, "owner", TRUE, TRUE, {})
      /\ made[3] = Role(o, "manager", TRUE, FALSE, Permissions) /\ made[4] = User(o, n)
      /\ made[5] = UserRole(o + 3, o + 1)
  BY <1>2, Zenon
<1>9. /\ o \in Ids /\ o + 1 \in Ids /\ o + 2 \in Ids /\ o + 3 \in Ids /\ o + 4 \in Ids
  BY <1>5, <1>6
<1>10. /\ row'[o] = made[1] /\ row'[o + 1] = made[2] /\ row'[o + 2] = made[3]
       /\ row'[o + 3] = made[4] /\ row'[o + 4] = made[5]
       /\ DOMAIN row' = Ids /\ \A i \in Ids \ {o, o + 1, o + 2, o + 3, o + 4} : row'[i] = row[i]
  <2>1. \A i \in Ids : row'[i] = IF i \in o..(o + 4) THEN made[i - o + 1] ELSE row[i]
    BY <1>3
  <2>2. /\ o - o + 1 = 1 /\ (o + 1) - o + 1 = 2 /\ (o + 2) - o + 1 = 3 /\ (o + 3) - o + 1 = 4
        /\ (o + 4) - o + 1 = 5
    BY <1>6
  <2>3. /\ o \in o..(o + 4) /\ o + 1 \in o..(o + 4) /\ o + 2 \in o..(o + 4) /\ o + 3 \in o..(o + 4)
        /\ o + 4 \in o..(o + 4)
    BY <1>6
  <2>4. row'[o] = made[1]
    BY <1>9, <2>1, <2>2, <2>3
  <2>5. row'[o + 1] = made[2]
    BY <1>9, <2>1, <2>2, <2>3
  <2>6. row'[o + 2] = made[3]
    BY <1>9, <2>1, <2>2, <2>3
  <2>7. row'[o + 3] = made[4]
    BY <1>9, <2>1, <2>2, <2>3
  <2>8. row'[o + 4] = made[5]
    BY <1>9, <2>1, <2>2, <2>3
  <2>9. \A i \in Ids \ {o, o + 1, o + 2, o + 3, o + 4} : row'[i] = row[i]
    BY <1>6, <1>7, <2>1
  <2>10. DOMAIN row' = Ids
    BY <1>3
  <2> QED
    BY <2>4, <2>5, <2>6, <2>7, <2>8, <2>9, <2>10
<1>11. /\ row'[o] = Organization(n) /\ row'[o + 1] = Role(o, "owner", TRUE, TRUE, {})
       /\ row'[o + 2] = Role(o, "manager", TRUE, FALSE, Permissions)
       /\ row'[o + 3] = User(o, n) /\ row'[o + 4] = UserRole(o + 3, o + 1)
  BY <1>8, <1>10
<1>12. Registered(o, n)
  BY <1>5, <1>9, <1>10, <1>11 DEF Registered
<1> QED
  BY <1>1, <1>3, <1>9, <1>12

\* A registration keeps the invariant: its organisation has version 0.
LEMMA RegistrationKeeps ==
    ASSUME AccessInv, NEW c \in Callers, Registration(c)
    PROVE  AccessInv'
<1> DEFINE q == todo[c]
<1>1. ~Idle(c) /\ Head(q).do = "register" /\ Script(row, q) /\ q # <<>>
  BY DEF Registration, Idle, AccessInv, Scripts
<1> SUFFICES ASSUME ~Throw(c) PROVE AccessInv'
  BY ThrowKeeps
<1>2. Tail(q) = <<>>
  BY <1>1, ByName
<1>a. PICK o \in Ids, n \in {Head(q).code} : Registered(o, n)
  BY RegistrationTells
<1>3. /\ {o, o + 1, o + 2, o + 3, o + 4} \subseteq Ids
      /\ \A i \in Ids : i >= o <=> row[i] = NoRow
      /\ DOMAIN row' = Ids /\ \A i \in Ids \ {o, o + 1, o + 2, o + 3, o + 4} : row'[i] = row[i]
      /\ row'[o] = Organization(n) /\ row'[o + 1] = Role(o, "owner", TRUE, TRUE, {})
      /\ row'[o + 2] = Role(o, "manager", TRUE, FALSE, Permissions)
      /\ row'[o + 3] = User(o, n) /\ row'[o + 4] = UserRole(o + 3, o + 1)
      /\ Done(c, Tail(q))
  BY <1>a, RegistrationTells DEF Registered
<1>4. PICK r, m, u, g : r = o + 1 /\ m = o + 2 /\ u = o + 3 /\ g = o + 4
  OBVIOUS
<1>5. o \in Nat /\ \A i \in Ids : i \in Nat
  BY RowsAssumption, FS_CardinalityType
<1>6. /\ r \in Ids /\ m \in Ids /\ u \in Ids /\ g \in Ids
      /\ \A i \in Ids \ {o, r, m, u, g} : row'[i] = row[i]
  BY <1>3, <1>4
<1>7. row[o] = NoRow /\ row[r] = NoRow /\ row[m] = NoRow /\ row[u] = NoRow /\ row[g] = NoRow
  BY <1>3, <1>4, <1>5, <1>6
<1>8. /\ OfTables(row'[o]) /\ row'[o].kind = "organization" /\ row'[o].version = 0
      /\ OfTables(row'[r]) /\ row'[r].kind = "role" /\ row'[r].org = o /\ row'[r].owner = TRUE
      /\ row'[r].system = TRUE /\ row'[r].deleted = FALSE
      /\ OfTables(row'[m]) /\ row'[m].kind = "role" /\ row'[m].org = o /\ row'[m].owner = FALSE
      /\ OfTables(row'[u]) /\ row'[u].kind = "user" /\ row'[u].org = o
      /\ OfTables(row'[g]) /\ row'[g].kind = "grant" /\ row'[g].user = u /\ row'[g].role = r
      /\ row'[g].code = <<u, r>>
  <2>1. OfTables(row'[o]) /\ row'[o].kind = "organization" /\ row'[o].version = 0
    BY <1>3 DEF Organization, OfTables, Blanks
  <2>2. /\ OfTables(row'[r]) /\ row'[r].kind = "role" /\ row'[r].org = o /\ row'[r].owner = TRUE
        /\ row'[r].system = TRUE /\ row'[r].deleted = FALSE
    BY <1>3, <1>4 DEF Role, OfTables, Blanks
  <2>3. OfTables(row'[m]) /\ row'[m].kind = "role" /\ row'[m].org = o /\ row'[m].owner = FALSE
    BY <1>3, <1>4 DEF Role, OfTables, Blanks
  <2>4. OfTables(row'[u]) /\ row'[u].kind = "user" /\ row'[u].org = o
    <3>1. \A x, y : User(x, y).kind = "user" /\ User(x, y).org = x
      BY DEF User
    <3>2. DOMAIN User(o, n) = DOMAIN User(0, 0)
      BY DEF User
    <3>3. User(0, 0) \in Blanks
      BY DEF Blanks
    <3> QED
      BY <1>3, <1>4, <3>1, <3>2, <3>3 DEF OfTables
  <2>5. /\ OfTables(row'[g]) /\ row'[g].kind = "grant" /\ row'[g].user = u /\ row'[g].role = r
        /\ row'[g].code = <<u, r>>
    <3>1. row'[g] = UserRole(u, r)
      BY <1>3, <1>4
    <3> QED
      BY <3>1 DEF UserRole, OfTables, Blanks
  <2> QED
    BY <2>1, <2>2, <2>3, <2>4, <2>5
<1>9. \A i \in Ids : row[i].kind # "none" => i \notin {o, r, m, u, g} /\ row'[i] = row[i]
  BY <1>6, <1>7 DEF NoRow
<1>10. Grows(row, row')
  BY <1>9 DEF Grows
<1>11. AccessRows(row')
  <2>1. \A i \in Ids : OfTables(row[i]) /\ RowTells(row, i)
    BY DEF AccessInv, AccessRows
  <2>2. \A i \in Ids : OfTables(row'[i])
    BY <1>6, <1>8, <2>1
  <2>3. InOrder(row')
    <3> SUFFICES ASSUME NEW i \in Ids, NEW j \in Ids, i < j, row'[i] = NoRow PROVE row'[j] = NoRow
      BY DEF InOrder
    <3>1. i \notin {o, r, m, u, g}
      BY <1>8 DEF NoRow
    <3>2. row[i] = NoRow
      BY <1>6, <3>1
    <3>3. i > o + 4
      BY <1>3, <1>4, <1>5, <3>1, <3>2
    <3>4. row[j] = NoRow /\ j \notin {o, r, m, u, g}
      BY <1>3, <1>4, <1>5, <3>3
    <3> QED
      BY <1>6, <3>4
  <2>4. /\ Is(row', o, "organization") /\ Is(row', u, "user") /\ Is(row', r, "role")
    BY <1>6, <1>8 DEF Is
  <2>5. /\ RowTells(row', o) /\ RowTells(row', r) /\ RowTells(row', m) /\ RowTells(row', u)
        /\ RowTells(row', g)
    <3>1. OwnerTells(row', r)
      BY <1>6, <1>8 DEF OwnerTells
    <3>2. GrantTells(row', g)
      BY <1>8, <2>4 DEF GrantTells
    <3>3. RowTells(row', o)
      BY <1>8 DEF RowTells
    <3>4. RowTells(row', r)
      BY <1>8, <2>4, <3>1 DEF RowTells
    <3>5. RowTells(row', m)
      BY <1>8, <2>4 DEF RowTells
    <3>6. RowTells(row', u)
      BY <1>8, <2>4 DEF RowTells
    <3>7. RowTells(row', g)
      BY <1>8, <3>2 DEF RowTells
    <3> QED
      BY <3>3, <3>4, <3>5, <3>6, <3>7
  <2>6. ASSUME NEW i \in Ids \ {o, r, m, u, g} PROVE Alters(row, row', i)
    BY <1>6, <2>1 DEF Alters, RowTells, OwnerTells
  <2>7. \A i \in Ids : row'[i].kind = "gone" \/ Alters(row, row', i) \/ RowTells(row', i)
    BY <2>5, <2>6
  <2>8. \A i \in Ids : row[i].kind = "grant" => row'[i].kind = "grant"
    BY <1>9
  <2> QED
    BY <1>3, <1>10, <2>2, <2>3, <2>7, <2>8, RowsGrow DEF AccessInv
<1>12. Done(c, <<>>) /\ Script(row', <<>>)
  BY <1>2, <1>3 DEF Script
<1>13. ASSUME NEW p \in Ids, Is(row', p, "organization") PROVE VersionKept(p, q, <<>>)
  <2>1. CASE p = o
    BY <1>8, <2>1 DEF VersionKept
  <2>2. CASE p # o
    <3>1. p \notin {o, r, m, u, g} /\ row'[p] = row[p] /\ Is(row, p, "organization")
      BY <1>6, <1>8, <1>13, <2>2 DEF Is
    <3>2. SameRights(p)
      <4>1. ~UserOf(p, u)
        BY <1>7 DEF UserOf, NoRow
      <4>2. \A i \in Ids \ {o, r, m, u, g} : Elsewhere(p, i)
        BY <1>6 DEF Elsewhere, Still
      <4>3. Elsewhere(p, o)
        BY <1>7, <1>8 DEF Elsewhere, Still, NoRow
      <4>4. Elsewhere(p, r) /\ Elsewhere(p, m)
        BY <1>7, <1>8 DEF Elsewhere, NoRow
      <4>5. Elsewhere(p, u)
        BY <1>7, <1>8, <2>2 DEF Elsewhere, NoRow
      <4>6. Elsewhere(p, g)
        BY <1>7, <1>8, <4>1 DEF Elsewhere, NoRow
      <4> QED
        BY <4>2, <4>3, <4>4, <4>5, <4>6, RightsElsewhere
    <3>3. ~Owing(row, p, q)
      <4>1. Head(q) # Bump(p)
        BY <1>1, Statements
      <4>2. Tail(q) # <<Bump(p)>>
        BY <1>2, ShortLists
      <4> HIDE DEF q
      <4> QED
        BY <4>1, <4>2, OwesNot
    <3> QED
      BY <3>1, <3>2, <3>3 DEF VersionKept
  <2> QED
    BY <2>1, <2>2
<1>14. ASSUME Orderly, NEW x \in Ids, Is(row', x, "session") PROVE SessionKept(x, <<>>)
  <2>1. Is(row, x, "session") /\ row'[x] = row[x]
    BY <1>6, <1>8, <1>14 DEF Is
  <2>2. \A y \in Ids : Live(row', x, y) => Live(row, x, y)
    BY <1>6, <1>8 DEF Live
  <2>3. Unended(row, x) => Unended(row', x)
    BY <2>1 DEF Unended
  <2>4. q # <<RevokeAll(x, FALSE)>>
    <3>1. q = <<RevokeAll(x, FALSE)>> => Head(q) = RevokeAll(x, FALSE)
      BY ShortLists
    <3>2. RevokeAll(x, FALSE).do = "revoke"
      BY DEF RevokeAll
    <3> QED
      BY <1>1, <3>1, <3>2
  <2> QED
    BY <1>1, <1>14, <2>1, <2>2, <2>3, <2>4, SessionStays
<1> QED
  BY <1>1, <1>10, <1>11, <1>12, <1>13, <1>14, NothingPrepared, StatementKeeps
-----------------------------------------------------------------------------
\* The invariant: it holds at first,
LEMMA AccessStart ==
    ASSUME AccessInit
    PROVE  AccessInv
<1>1. /\ row \in AccessStarts /\ todo = [c \in Callers |-> <<>>] /\ died = FALSE /\ overlapped = FALSE
  BY DEF AccessInit, RowsInit
<1>2. AccessRows(row)
  <2>1. DOMAIN row = Ids /\ InOrder(row) /\ \A i \in Ids : OfTables(row[i])
    BY <1>1, AccessAssumption DEF InOrder
  <2>2. ASSUME NEW i \in Ids PROVE RowTells(row, i)
    <3>1. row[i].kind \in {"user", "role"} => Is(row, row[i].org, "organization")
      BY <1>1, AccessAssumption DEF Is
    <3>2. row[i].kind = "role" /\ row[i].owner => OwnerTells(row, i)
      BY <1>1, AccessAssumption DEF OwnerTells
    <3>3. row[i].kind = "grant" => GrantTells(row, i)
      BY <1>1, AccessAssumption DEF GrantTells, Is
    <3>4. row[i].kind = "token" => Is(row, row[i].session, "session") /\ (row[i].next # 0 => row[i].revoked)
      BY <1>1, AccessAssumption DEF Is
    <3> QED
      BY <3>1, <3>2, <3>3, <3>4 DEF RowTells
  <2> QED
    BY <2>1, <2>2 DEF AccessRows
<1>3. Scripts
  BY <1>1 DEF Scripts, Script
<1>4. VersionsTold
  BY <1>1, AccessAssumption DEF VersionsTold, VersionTold, Is
<1>5. SessionsTold
  <2>1. OneCall
    BY <1>1 DEF OneCall, Idle
  <2>2. ASSUME NEW s \in Ids, Is(row, s, "session") PROVE SessionTold(s)
    <3>1. Unended(row, s)
      BY <1>1, <2>2, AccessAssumption DEF Unended, Is
    <3>2. OneLive(row, s)
      BY <1>1, AccessAssumption DEF OneLive, Live
    <3> QED
      BY <3>1, <3>2 DEF SessionTold
  <2>3. \A c \in Callers : Prepared(row, todo[c])
    BY <1>1, NothingPrepared
  <2> QED
    BY <2>1, <2>2, <2>3 DEF SessionsTold
<1> QED
  BY <1>2, <1>3, <1>4, <1>5 DEF AccessInv

\* every step keeps it,
LEMMA AccessStep ==
    ASSUME AccessInv, AccessNext
    PROVE  AccessInv'
<1>1. PICK c \in Callers :
        \/ AccessCall(c)
        \/ Registration(c) \/ EnterSession(c) \/ RevokeTokens(c) \/ Rotate(c)
        \/ CountUp(c) \/ SeePermissions(c) \/ ReplacePermissions(c)
        \/ Update(c) \/ CreatePlain(c) \/ Deletion(c) \/ Die(c)
  BY DEF AccessNext
<1>2. CASE Registration(c) \/ EnterSession(c) \/ RevokeTokens(c) \/ Rotate(c)
  BY <1>2, RegistrationKeeps, EnterSessionKeeps, RevokeTokensKeeps, RotateKeeps
<1>3. ASSUME Register(c) \/ \E i \in Ids : Login(c, i) \/ Logout(c, i) \/ Refresh(c, i)
      PROVE  AccessInv'
  BY <1>3, RegisterKeeps, LoginKeeps, LogoutKeeps, RefreshKeeps
<1>4. ASSUME NEW org \in OfKind("organization"),
             \/ CreateRole(c, org)
             \/ \E r \in Ids : \/ UpdateRole(c, org, r) \/ DeleteRole(c, org, r)
                               \/ RestoreRole(c, org, r) \/ SetRolePermissions(c, org, r)
                               \/ \E u \in Ids : AssignRole(c, org, u, r) \/ RemoveRole(c, org, u, r)
      PROVE  AccessInv'
  BY <1>4, CreateRoleKeeps, OfRoleKeeps, GrantKeeps
<1>8. CASE AccessCall(c)
  BY <1>3, <1>4, <1>8 DEF AccessCall
<1>5. CASE CountUp(c) \/ SeePermissions(c) \/ ReplacePermissions(c)
  BY <1>5, CountUpKeeps, SeeKeeps, ReplaceKeeps
<1>6. CASE Update(c) \/ CreatePlain(c) \/ Deletion(c)
  BY <1>6, UpdateKeeps, CreateKeeps, DeletionKeeps
<1>7. CASE Die(c)
  BY <1>7, ThrowKeeps DEF Die
<1> QED
  BY <1>1, <1>2, <1>5, <1>6, <1>7, <1>8

\* and so does a step of something else.
LEMMA AccessStutter ==
    ASSUME AccessInv, UNCHANGED rowVars
    PROVE  AccessInv'
<1>1. row' = row /\ todo' = todo /\ died' = died /\ overlapped' = overlapped
  BY DEF rowVars
<1>2. Scripts'
  BY <1>1 DEF AccessInv, Scripts
<1>3. ASSUME NEW o \in Ids, VersionTold(o) PROVE VersionTold(o)'
  <2>1. \A i \in Ids : Still(i)
    BY <1>1 DEF Still
  <2>2. Allowed(o)' = Allowed(o)
    BY <2>1, RightsStay, AllowedKept DEF AccessInv
  <2> QED
    BY <1>1, <1>3, <2>2 DEF VersionTold
<1>4. VersionsTold'
  BY <1>1, <1>3 DEF AccessInv, VersionsTold
<1>5. SessionsTold'
  BY <1>1 DEF AccessInv, SessionsTold, Orderly, OneCall, Idle, SessionTold
<1> QED
  BY <1>1, <1>2, <1>4, <1>5 DEF AccessInv

\* It says what is to be shown of the sessions,
LEMMA SessionsFollow ==
    ASSUME AccessInv
    PROVE  SessionsHold
<1>1. \A i \in Ids : RowTells(row, i)
  BY DEF AccessInv, AccessRows
<1>2. ASSUME Orderly, NEW s \in OfKind("session")
      PROVE  /\ Cardinality({t \in TokensOf(s) : ~row[t].revoked}) <= 1
             /\ \A t \in TokensOf(s) : row[t].next # 0 => row[t].revoked
  <2> DEFINE good == {t \in TokensOf(s) : ~row[t].revoked}
  <2>1. s \in Ids /\ Is(row, s, "session")
    BY <1>2 DEF OfKind, Is
  <2>2. OneLive(row, s)
    BY <1>2, <2>1 DEF AccessInv, SessionsTold, SessionTold
  <2>3. \A t, u \in good : t = u
    BY <2>2 DEF OneLive, Live, TokensOf, OfKind
  <2>4. Cardinality(good) <= 1
    <3>1. CASE good = {}
      BY <3>1, FS_EmptySet
    <3>2. CASE good # {}
      <4>1. PICK t : t \in good
        BY <3>2
      <4>2. good = {t}
        BY <2>3, <4>1
      <4> HIDE DEF good
      <4>3. Cardinality({t}) = 1
        BY FS_Singleton
      <4>4. Cardinality(good) = 1
        BY <4>2, <4>3
      <4> QED
        BY <4>4
    <3> QED
      BY <3>1, <3>2
  <2>5. \A t \in TokensOf(s) : row[t].next # 0 => row[t].revoked
    BY <1>1 DEF RowTells, TokensOf, OfKind
  <2> QED
    BY <2>4, <2>5
<1>3. ASSUME Orderly, Quiet, NEW s \in OfKind("session"), row[s].revoked \/ row[s].replayed,
             NEW t \in TokensOf(s)
      PROVE  row[t].revoked
  <2>1. s \in Ids /\ Is(row, s, "session")
    BY <1>3 DEF OfKind, Is
  <2>2. SessionTold(s)
    BY <1>3, <2>1 DEF AccessInv, SessionsTold
  <2>3. \A c \in Callers : todo[c] # <<RevokeAll(s, FALSE)>>
    BY <1>3, ShortLists DEF Quiet, Idle
  <2>4. NoneLive(row, s)
    BY <1>3, <2>2, <2>3 DEF SessionTold, Unended
  <2> QED
    BY <1>3, <2>4 DEF NoneLive, Live, TokensOf, OfKind
<1> QED
  BY <1>2, <1>3 DEF SessionsHold, OneLiveToken, RevokedIsOut

\* and of the roles.
LEMMA RolesFollow ==
    ASSUME AccessInv
    PROVE  RolesHold
<1>1. \A i \in Ids : RowTells(row, i)
  BY DEF AccessInv, AccessRows
<1>2. ASSUME Quiet, ~died, NEW o \in OfKind("organization"), row[o].version > 0
      PROVE  row[o].allowed = Allowed(o)
  <2>1. o \in Ids /\ Is(row, o, "organization")
    BY <1>2 DEF OfKind, Is
  <2>2. VersionTold(o)
    BY <1>2, <2>1 DEF AccessInv, VersionsTold
  <2>3. \A c \in Callers : ~Owing(row, o, todo[c])
    BY <1>2, ShortLists, OfRolesTells DEF Quiet, Idle, Owing
  <2>4. row[o].version # 0
    BY <1>2
  <2> QED
    BY <2>2, <2>3, <2>4 DEF VersionTold
<1>3. VersionTells
  BY <1>2 DEF VersionTells
<1>4. OwnerStays
  BY <1>1 DEF OwnerStays, OfKind, RowTells, OwnerTells, GrantTells
<1> QED
  BY <1>3, <1>4 DEF RolesHold

\* What is said of a behaviour that exercises sessions, roles and permissions.
AccessPart == part = "access" => AccessInv

\* It holds at first,
LEMMA PartStart == ServicesInit => AccessPart
BY AccessStart DEF ServicesInit, AccessPart

\* and every step keeps it.
LEMMA PartStep == AccessPart /\ [ServicesNext]_serviceVars => AccessPart'
<1> SUFFICES ASSUME AccessPart, [ServicesNext]_serviceVars, part' = "access" PROVE AccessInv'
  BY DEF AccessPart
<1>1. CASE ServicesNext
  <2>1. part = "access" /\ AccessNext
    BY <1>1 DEF ServicesNext
  <2> QED
    BY <2>1, AccessStep DEF AccessPart
<1>2. CASE UNCHANGED serviceVars
  <2>1. part = "access" /\ UNCHANGED rowVars
    BY <1>2 DEF serviceVars
  <2> QED
    BY <2>1, AccessStutter DEF AccessPart
<1> QED
  BY <1>1, <1>2

\* Whatever logins, refreshes, logouts and reuses of tokens come, as long as
\* calls do not overlap and none dies, a session has one refresh token that
\* works at most, the last of its chain, and none once it was logged out of or
\* a token of it came back (AuthService's login, refresh and logout).
THEOREM SessionsAlwaysHold == ServicesSpec => [](part = "access" => SessionsHold)
<1>1. AccessPart => (part = "access" => SessionsHold)
  BY SessionsFollow DEF AccessPart
<1> QED
  BY <1>1, PartStart, PartStep, PTL DEF ServicesSpec

\* Whatever roles and permissions are changed, also by calls that overlap,
\* when none is in progress and none died the role version of an organisation
\* stands for what its users may do; and even where calls died it has an owner,
\* and no grant leads out of it (RbacService, AuthService's register).
THEOREM RolesAlwaysHold == ServicesSpec => [](part = "access" => RolesHold)
<1>1. AccessPart => (part = "access" => RolesHold)
  BY RolesFollow DEF AccessPart
<1> QED
  BY <1>1, PartStart, PartStep, PTL DEF ServicesSpec

\* Every step of the module of sessions and roles by itself keeps it.
LEMMA AccessKept == AccessInv /\ [AccessNext]_accessVars => AccessInv'
BY AccessStep, AccessStutter DEF accessVars
\* Sessions hold, and roles do, in every behaviour of the module of sessions and
\* roles by itself (AuthService, RbacService).
THEOREM AccessAlwaysHolds == AccessSpec => [](SessionsHold /\ RolesHold)
<1>1. AccessInit => AccessInv
  BY AccessStart
<1>2. AccessInv => SessionsHold /\ RolesHold
  BY SessionsFollow, RolesFollow
<1> QED
  BY <1>1, <1>2, AccessKept, PTL DEF AccessSpec
-----------------------------------------------------------------------------
(* Warehouses and leave (Registers).                                        *)

\* A row that may stand at i, or be inserted if i is 0.
Fits(tab, i, new) ==
    /\ OfRegister(new)
    /\ \A j \in Ids \ {i} : ~(IsDefault(new) /\ IsDefault(tab[j])) /\ ~Meets(new, tab[j])

\* What a call has left leaves the tables sound.
Harmless(tab, e) ==
    \/ \E i \in Ids : \E f : e = Set(i, f) /\ Fits(tab, i, Merge(tab[i], f))
    \/ \E r : e = Insert(r) /\ Fits(tab, 0, r)
    \/ \E i \in Ids : e = Erase(i)
Moving(tab, q) ==
    \/ \E s : q = <<Undefault(0), Insert(Warehouse(s, TRUE))>>
    \/ \E i \in Ids : tab[i].kind = "warehouse" /\ q = <<Undefault(i), Set(i, [default |-> TRUE])>>
Sound(tab, q) == q = <<>> \/ (\E e : q = <<e>> /\ Harmless(tab, e)) \/ Moving(tab, q)

\* Without overlaps one call runs, and what it has left leaves them sound.
RegisterInv ==
    ~overlapped => /\ DOMAIN todo = Callers /\ OneCall
                   /\ SoundRegister(row) /\ \A c \in Callers : Sound(row, todo[c])

\* No id is 0.
LEMMA NoIdIsZero == 0 \notin Ids /\ Ids \subseteq Nat
<1>1. Cardinality(Ids) \in Nat
  BY RowsAssumption, FS_CardinalityType
<1> QED
  BY <1>1, RowsAssumption

\* A call begins with statements that leave the tables sound.
LEMMA RegisterBegins ==
    ASSUME RegisterInv, NEW c \in Callers, NEW st, Begin(c, st), ~overlapped /\ Quiet => Sound(row, st)
    PROVE  RegisterInv'
<1> SUFFICES ASSUME ~overlapped' PROVE RegisterInv'
  BY DEF RegisterInv
<1>1. /\ row' = row /\ todo' = [todo EXCEPT ![c] = st] /\ ~overlapped /\ Quiet
  BY DEF Begin
<1>2. /\ DOMAIN todo' = Callers /\ todo'[c] = st
      /\ \A d \in Callers \ {c} : todo'[d] = <<>>
  BY <1>1 DEF RegisterInv, Quiet, Idle
<1>3. OneCall'
  BY <1>2 DEF OneCall, Idle
<1>4. \A d \in Callers : Sound(row', todo'[d])
  BY <1>1, <1>2 DEF Sound
<1> QED
  BY <1>1, <1>2, <1>3, <1>4 DEF RegisterInv

\* One statement.
LEMMA RegisterBegin ==
    ASSUME RegisterInv, NEW c \in Callers, NEW e, Begin(c, <<e>>), ~overlapped /\ Quiet => Harmless(row, e)
    PROVE  RegisterInv'
<1>1. ~overlapped /\ Quiet => Sound(row, <<e>>)
  BY DEF Sound
<1> QED
  BY <1>1, RegisterBegins

\* A column that is neither of the kind nor of what warehouses and leave are
\* compared by,
LEMMA PlainSet ==
    ASSUME SoundRegister(row), NEW i \in Ids, NEW f, "kind" \notin DOMAIN f, row[i].kind \notin {"warehouse", "leave"}
    PROVE  Harmless(row, Set(i, f))
<1>1. Merge(row[i], f).kind = row[i].kind /\ OfRegister(Merge(row[i], f))
  BY MergeTells DEF SoundRegister, OfRegister
<1>2. Fits(row, i, Merge(row[i], f))
  BY <1>1 DEF Fits, IsDefault, Meets, TakesDays
<1> QED
  BY <1>2 DEF Harmless

\* of a warehouse as well,
LEMMA WarehouseSet ==
    ASSUME SoundRegister(row), NEW i \in Ids, NEW f, row[i].kind = "warehouse",
           "kind" \notin DOMAIN f, "default" \in DOMAIN f => ~f.default,
           "deleted" \in DOMAIN f => f.deleted
    PROVE  Harmless(row, Set(i, f))
<1> DEFINE new == Merge(row[i], f)
<1>1. DOMAIN new = DOMAIN row[i] /\ new.kind = "warehouse" /\ OfRegister(new)
  BY MergeTells DEF SoundRegister, OfRegister
<1>2. IsDefault(new) => IsDefault(row[i])
  BY MergeTells DEF IsDefault, SoundRegister, OfRegister
<1>3. Fits(row, i, new)
  BY <1>1, <1>2 DEF Fits, Meets, TakesDays, SoundRegister
<1> QED
  BY <1>3 DEF Harmless

\* or the state of a leave that is pending.
LEMMA LeaveSet ==
    ASSUME SoundRegister(row), NEW i \in Ids, NEW s, row[i].kind = "leave", row[i].status = "PENDING"
    PROVE  Harmless(row, Set(i, [status |-> s]))
<1> DEFINE new == Merge(row[i], [status |-> s])
<1>1. /\ DOMAIN new = DOMAIN row[i] /\ new.kind = "leave" /\ OfRegister(new)
      /\ new.employee = row[i].employee /\ new.from = row[i].from /\ new.to = row[i].to
  BY MergeTells DEF SoundRegister, OfRegister
<1>2. \A j : Meets(new, row[j]) => Meets(row[i], row[j])
  BY <1>1 DEF Meets, TakesDays
<1>3. Fits(row, i, new)
  BY <1>1, <1>2 DEF Fits, IsDefault, SoundRegister
<1> QED
  BY <1>3 DEF Harmless

\* An insert of a row that is neither a default warehouse nor leave.
LEMMA PlainInsert ==
    ASSUME NEW r, "kind" \in DOMAIN r, r.kind \notin {"warehouse", "leave"}
    PROVE  Harmless(row, Insert(r))
<1>1. Fits(row, 0, r)
  BY DEF Fits, OfRegister, IsDefault, Meets, TakesDays
<1> QED
  BY <1>1 DEF Harmless
-----------------------------------------------------------------------------
\* The operations on one row that set a column of it.
LEMMA PutKeeps ==
    ASSUME RegisterInv, NEW c \in Callers, NEW i \in Ids, NEW f, Begin(c, <<Set(i, f)>>),
           "kind" \notin DOMAIN f,
           \/ row[i].kind \notin {"warehouse", "leave"}
           \/ /\ row[i].kind = "warehouse" /\ ("default" \in DOMAIN f => ~f.default)
              /\ ("deleted" \in DOMAIN f => f.deleted)
    PROVE  RegisterInv'
<1>1. ~overlapped => Harmless(row, Set(i, f))
  BY PlainSet, WarehouseSet DEF RegisterInv
<1> QED
  BY <1>1, RegisterBegin

\* An insert of a row that is compared with no other.
LEMMA InsertKeeps ==
    ASSUME RegisterInv, NEW c \in Callers, NEW r, BeginInsert(c, <<Insert(r)>>), "kind" \in DOMAIN r,
           r.kind \notin {"warehouse", "leave"}
    PROVE  RegisterInv'
<1>1. Harmless(row, Insert(r))
  BY PlainInsert
<1> QED
  BY <1>1, RegisterBegin DEF BeginInsert

\* A row is deleted for good.
LEMMA EraseKeeps ==
    ASSUME RegisterInv, NEW c \in Callers, NEW i \in Ids, Begin(c, <<Erase(i)>>)
    PROVE  RegisterInv'
<1>1. Harmless(row, Erase(i))
  BY DEF Harmless
<1> QED
  BY <1>1, RegisterBegin

\* What is inserted and compared with no other row of its kind but by its code.
LEMMA ItemsCreated ==
    ASSUME RegisterInv, NEW c \in Callers,
           \/ CreateCategory(c) \/ CreateUnit(c) \/ CreateProduct(c) \/ CreateVendor(c)
           \/ CreateDepartment(c) \/ CreateDesignation(c) \/ CreateEmployee(c) \/ CheckIn(c)
    PROVE  RegisterInv'
<1>1. CASE CreateCategory(c)
  BY <1>1, InsertKeeps DEF CreateCategory, Category
<1>2. CASE CreateUnit(c)
  BY <1>2, InsertKeeps DEF CreateUnit, Unit
<1>3. CASE CreateProduct(c)
  BY <1>3, InsertKeeps DEF CreateProduct, Product
<1>4. CASE CreateVendor(c)
  BY <1>4, InsertKeeps DEF CreateVendor, Vendor
<1>5. CASE CreateDepartment(c)
  BY <1>5, InsertKeeps DEF CreateDepartment, Department
<1>6. CASE CreateDesignation(c)
  BY <1>6, InsertKeeps DEF CreateDesignation, Designation
<1>7. CASE CreateEmployee(c)
  BY <1>7, InsertKeeps DEF CreateEmployee, Employee
<1>8. CASE CheckIn(c)
  BY <1>8, InsertKeeps DEF CheckIn, Attendance
<1> QED
  BY <1>1, <1>2, <1>3, <1>4, <1>5, <1>6, <1>7, <1>8

\* Products, categories and units.
LEMMA CatalogKeeps ==
    ASSUME RegisterInv, NEW c \in Callers, NEW i \in Ids,
           \/ UpdateCategory(c, i) \/ DeleteCategory(c, i) \/ UpdateUnit(c, i) \/ DeleteUnit(c, i)
           \/ UpdateProduct(c, i) \/ ArchiveProduct(c, i) \/ RestoreProduct(c, i) \/ DeleteProduct(c, i)
    PROVE  RegisterInv'
<1>4. CASE UpdateCategory(c, i)
  <2>1. CASE \E n \in Codes : Place(c, i, "category", [code |-> n])
    BY <2>1, PutKeeps DEF Place
  <2>2. CASE \E p \in {0} \cup All("category") : Place(c, i, "category", [parent |-> p])
    BY <2>2, PutKeeps DEF Place
  <2>3. CASE \E b \in BOOLEAN : Place(c, i, "category", [archived |-> b])
    BY <2>3, PutKeeps DEF Place
  <2> QED
    BY <1>4, <2>1, <2>2, <2>3 DEF UpdateCategory
<1>5. CASE DeleteCategory(c, i) \/ DeleteUnit(c, i)
  BY <1>5, EraseKeeps DEF DeleteCategory, DeleteUnit
<1>6. CASE UpdateUnit(c, i)
  BY <1>6, PutKeeps DEF UpdateUnit, Place
<1>7. CASE UpdateProduct(c, i)
  <2>1. CASE \E s \in Codes : Put(c, i, "product", [code |-> s])
    BY <2>1, PutKeeps DEF Put, Found
  <2>2. CASE \E k \in All("category") : Put(c, i, "product", [parent |-> k])
    BY <2>2, PutKeeps DEF Put, Found
  <2> QED
    BY <1>7, <2>1, <2>2 DEF UpdateProduct
<1>8. CASE ArchiveProduct(c, i) \/ RestoreProduct(c, i)
  BY <1>8, PutKeeps DEF ArchiveProduct, RestoreProduct, Put, Found
<1>9. CASE DeleteProduct(c, i)
  BY <1>9, PutKeeps DEF DeleteProduct, Bury, Put, Found
<1> QED
  BY <1>4, <1>5, <1>6, <1>7, <1>8, <1>9

\* Vendors, departments, designations, employees and their attendance.
LEMMA PeopleKeep ==
    ASSUME RegisterInv, NEW c \in Callers, NEW i \in Ids,
           \/ UpdateVendor(c, i) \/ ArchiveVendor(c, i) \/ RestoreVendor(c, i)
           \/ DeleteVendor(c, i) \/ UpdateDepartment(c, i) \/ UpdateDesignation(c, i)
           \/ UpdateEmployee(c, i) \/ CheckOut(c, i)
    PROVE  RegisterInv'
<1>5. CASE UpdateVendor(c, i)
  BY <1>5, PutKeeps DEF UpdateVendor, Put, Found
<1>6. CASE ArchiveVendor(c, i) \/ RestoreVendor(c, i)
  BY <1>6, PutKeeps DEF ArchiveVendor, RestoreVendor, Put, Found
<1>7. CASE DeleteVendor(c, i)
  BY <1>7, PutKeeps DEF DeleteVendor, Bury, Put, Found
<1>8. CASE UpdateDepartment(c, i)
  BY <1>8, PutKeeps DEF UpdateDepartment, Place
<1>12. CASE UpdateDesignation(c, i)
  BY <1>12, PutKeeps DEF UpdateDesignation, Place
<1>9. CASE UpdateEmployee(c, i)
  <2>1. CASE \E s \in Codes : Place(c, i, "employee", [code |-> s])
    BY <2>1, PutKeeps DEF Place
  <2>2. CASE Place(c, i, "employee", [status |-> "TERMINATED"])
    BY <2>2, PutKeeps DEF Place
  <2> QED
    BY SMTT(60), <1>9, <2>1, <2>2 DEF UpdateEmployee
<1>10. CASE CheckOut(c, i)
  BY <1>10, PutKeeps DEF CheckOut
<1> QED
  BY <1>5, <1>6, <1>7, <1>8, <1>12, <1>9, <1>10

\* Leave is asked for.
LEMMA ApplyKeeps ==
    ASSUME RegisterInv, NEW c \in Callers, ApplyForLeave(c)
    PROVE  RegisterInv'
<1>1. PICK e \in All("employee"), from \in Days, to \in Days :
        ~Booked(e, from, to) /\ BeginInsert(c, <<Insert(LeaveRequest(e, from, to))>>)
  BY DEF ApplyForLeave
<1> DEFINE new == LeaveRequest(e, from, to)
<1>2. OfRegister(new) /\ ~IsDefault(new)
  BY DEF OfRegister, IsDefault, LeaveRequest
<1>3. ASSUME ~overlapped, NEW j \in Ids PROVE ~Meets(new, row[j])
  <2>1. TakesDays(row[j]) => row[j].from \in Nat /\ row[j].to \in Nat
    BY <1>3, RegisterAssumption DEF RegisterInv, SoundRegister, OfRegister, TakesDays
  <2>2. from \in Nat /\ to \in Nat /\ new.from = from /\ new.to = to /\ new.employee = e
    BY RegisterAssumption DEF LeaveRequest
  <2>3. ~(TakesDays(row[j]) /\ row[j].employee = e /\ row[j].from <= to /\ row[j].to >= from)
    BY <1>1 DEF Booked, All, TakesDays
  <2> QED
    BY <2>1, <2>2, <2>3 DEF Meets
<1>4. ~overlapped => Harmless(row, Insert(new))
  BY <1>2, <1>3 DEF Fits, Harmless
<1> QED
  BY <1>1, <1>4, RegisterBegin DEF BeginInsert

\* It is approved or rejected.
LEMMA LeaveKeeps ==
    ASSUME RegisterInv, NEW c \in Callers, NEW i \in Ids,
           ApproveLeave(c, i) \/ RejectLeave(c, i)
    PROVE  RegisterInv'
<1>2. CASE ApproveLeave(c, i)
  <2>1. ~overlapped => Harmless(row, Set(i, [status |-> "APPROVED"]))
    BY <1>2, LeaveSet DEF ApproveLeave, RegisterInv
  <2> QED
    BY <1>2, <2>1, RegisterBegin DEF ApproveLeave
<1>3. CASE RejectLeave(c, i)
  <2>1. ~overlapped => Harmless(row, Set(i, [status |-> "REJECTED"]))
    BY <1>3, LeaveSet DEF RejectLeave, RegisterInv
  <2> QED
    BY <1>3, <2>1, RegisterBegin DEF RejectLeave
<1> QED
  BY <1>2, <1>3

\* What precedes a statement that makes a warehouse the default one.
LEMMA OthersUnset ==
    ASSUME NEW d \in BOOLEAN, NEW i, NEW e
    PROVE  UnsetOthers(d, i) \o <<e>> = IF d THEN <<Undefault(i), e>> ELSE <<e>>
<1>1. CASE d
  BY <1>1, OneAndOne DEF UnsetOthers
<1>2. CASE ~d
  <2>1. PICK one : one = <<e>>
    OBVIOUS
  <2>2. one \in Seq({e})
    BY <2>1
  <2>3. <<>> \o one = one
    BY <2>2, ConcatEmptySeq
  <2> QED
    BY <1>2, <2>1, <2>3 DEF UnsetOthers
<1> QED
  BY <1>1, <1>2

\* A warehouse is created.
LEMMA CreateWarehouseKeeps ==
    ASSUME RegisterInv, NEW c \in Callers, CreateWarehouse(c)
    PROVE  RegisterInv'
<1>1. PICK s \in Codes, d \in BOOLEAN : Begin(c, UnsetOthers(d, 0) \o <<Insert(Warehouse(s, d))>>)
  BY DEF CreateWarehouse, BeginInsert
<1>2. CASE d
  <2>1. Begin(c, <<Undefault(0), Insert(Warehouse(s, TRUE))>>)
    BY <1>1, <1>2, OthersUnset
  <2>2. Sound(row, <<Undefault(0), Insert(Warehouse(s, TRUE))>>)
    BY DEF Sound, Moving
  <2> QED
    BY <2>1, <2>2, RegisterBegins
<1>3. CASE ~d
  <2>1. Begin(c, <<Insert(Warehouse(s, FALSE))>>)
    BY <1>1, <1>3, OthersUnset
  <2>2. Fits(row, 0, Warehouse(s, FALSE))
    BY DEF Fits, OfRegister, IsDefault, Meets, TakesDays, Warehouse
  <2>3. Harmless(row, Insert(Warehouse(s, FALSE)))
    BY <2>2 DEF Harmless
  <2> QED
    BY <2>1, <2>3, RegisterBegin
<1> QED
  BY <1>2, <1>3

\* Warehouses.
LEMMA WarehouseKeeps ==
    ASSUME RegisterInv, NEW c \in Callers, NEW i \in Ids,
           \/ UpdateWarehouse(c, i) \/ ArchiveWarehouse(c, i)
           \/ RestoreWarehouse(c, i) \/ DeleteWarehouse(c, i)
    PROVE  RegisterInv'
<1>2. CASE UpdateWarehouse(c, i)
  <2>1. row[i].kind = "warehouse"
    BY <1>2 DEF UpdateWarehouse, Found
  <2>2. CASE \E s \in Codes : Begin(c, <<Set(i, [code |-> s])>>)
    BY <2>1, <2>2, PutKeeps
  <2>3. ASSUME NEW d \in BOOLEAN, Begin(c, UnsetOthers(d, i) \o <<Set(i, [default |-> d])>>)
        PROVE  RegisterInv'
    <3>1. CASE d
      <4>1. Begin(c, <<Undefault(i), Set(i, [default |-> TRUE])>>)
        BY <2>3, <3>1, OthersUnset
      <4>2. Sound(row, <<Undefault(i), Set(i, [default |-> TRUE])>>)
        BY <2>1 DEF Sound, Moving
      <4> QED
        BY <4>1, <4>2, RegisterBegins
    <3>2. CASE ~d
      <4>1. Begin(c, <<Set(i, [default |-> FALSE])>>)
        BY <2>3, <3>2, OthersUnset
      <4> QED
        BY <2>1, <4>1, PutKeeps
    <3> QED
      BY <3>1, <3>2
  <2> QED
    BY <1>2, <2>2, <2>3 DEF UpdateWarehouse
<1>3. CASE ArchiveWarehouse(c, i) \/ RestoreWarehouse(c, i)
  BY <1>3, PutKeeps DEF ArchiveWarehouse, RestoreWarehouse, Put, Found
<1>4. CASE DeleteWarehouse(c, i)
  BY <1>4, PutKeeps DEF DeleteWarehouse, Bury, Put, Found
<1> QED
  BY <1>2, <1>3, <1>4
-----------------------------------------------------------------------------
\* A statement of the call that runs leaves the tables sound.
LEMMA RegisterExecutes ==
    ASSUME RegisterInv, NEW c \in Callers, ~Idle(c), NEW rest,
           todo' = [todo EXCEPT ![c] = rest], overlapped' = overlapped,
           ~overlapped => SoundRegister(row') /\ Sound(row', rest)
    PROVE  RegisterInv'
<1> SUFFICES ASSUME ~overlapped PROVE RegisterInv'
  BY DEF RegisterInv
<1>1. /\ DOMAIN todo' = Callers /\ todo'[c] = rest
      /\ \A d \in Callers \ {c} : todo'[d] = <<>>
  BY DEF RegisterInv, OneCall, Idle
<1>2. OneCall'
  BY <1>1 DEF OneCall, Idle
<1>3. \A d \in Callers : Sound(row', todo'[d])
  BY <1>1 DEF Sound
<1> QED
  BY <1>1, <1>2, <1>3 DEF RegisterInv

\* A call that dies leaves them as they are.
LEMMA RegisterThrows ==
    ASSUME RegisterInv, NEW c \in Callers, ~Idle(c), Throw(c)
    PROVE  RegisterInv'
<1>1. Sound(row', <<>>)
  BY DEF Sound
<1> QED
  BY <1>1, RegisterExecutes DEF Throw, RegisterInv

\* A row that fits may be written.
LEMMA FitsIn ==
    ASSUME NEW tab, SoundRegister(tab), NEW i \in Ids, NEW then, DOMAIN then = Ids,
           \A j \in Ids \ {i} : then[j] = tab[j], then[i] = tab[i] \/ Fits(tab, i, then[i])
    PROVE  SoundRegister(then)
<1>1. \A r, s : Meets(r, s) => Meets(s, r)
  BY DEF Meets
<1> QED
  BY <1>1 DEF SoundRegister, Fits

\* The statement that clears defaults.
LEMMA UndefaultTells == \A i : Undefault(i).do = "undefault" /\ Undefault(i).but = i
BY DEF Undefault

\* What a list of two begins with, and leaves.
LEMMA OfTwo ==
    ASSUME NEW q, NEW x, NEW y, q = <<x, y>>
    PROVE  Head(q) = x /\ Tail(q) = <<y>>
BY ShortLists

\* What a call has left when its next statement is neither first of two.
LEMMA OneLeft ==
    ASSUME RegisterInv, ~overlapped, NEW c \in Callers, ~Idle(c), Head(todo[c]).do # "undefault"
    PROVE  Harmless(row, Head(todo[c])) /\ Tail(todo[c]) = <<>>
<1>1. Sound(row, todo[c]) /\ todo[c] # <<>>
  BY DEF RegisterInv, Idle
<1>2. ~Moving(row, todo[c])
  <2>1. ASSUME NEW s, todo[c] = <<Undefault(0), Insert(Warehouse(s, TRUE))>> PROVE FALSE
    BY <2>1, OfTwo, Statements, UndefaultTells
  <2>2. ASSUME NEW i, todo[c] = <<Undefault(i), Set(i, [default |-> TRUE])>> PROVE FALSE
    BY <2>2, OfTwo, Statements, UndefaultTells
  <2> QED
    BY <2>1, <2>2 DEF Moving
<1>3. PICK e : todo[c] = <<e>> /\ Harmless(row, e)
  BY <1>1, <1>2 DEF Sound
<1> QED
  BY <1>3, ShortLists

LEMMA RegisterUpdates ==
    ASSUME RegisterInv, NEW c \in Callers, Update(c)
    PROVE  RegisterInv'
<1> DEFINE e == Head(todo[c])
<1>1. ~Idle(c) /\ e.do = "update"
  BY DEF Update
<1>2. CASE Throw(c)
  BY <1>1, <1>2, RegisterThrows
<1>3. CASE ~Throw(c)
  <2>1. /\ row' = [j \in Ids |-> IF j \in e.ids /\ Exists(j) THEN Merge(row[j], e.set) ELSE row[j]]
        /\ todo' = [todo EXCEPT ![c] = Tail(@)] /\ overlapped' = overlapped
    BY <1>3 DEF Update
  <2>2. ASSUME ~overlapped PROVE SoundRegister(row') /\ Tail(todo[c]) = <<>>
    <3>1. Harmless(row, e) /\ Tail(todo[c]) = <<>>
      BY <1>1, <2>2, OneLeft
    <3>2. PICK i \in Ids : \E f : e = Set(i, f) /\ Fits(row, i, Merge(row[i], f))
      <4> HIDE DEF e
      <4> QED
        BY <1>1, <3>1, Statements, UndefaultTells DEF Harmless
    <3>3. PICK f : e = Set(i, f) /\ Fits(row, i, Merge(row[i], f))
      BY <3>2
    <3>4. e.ids = {i} /\ e.set = f
      BY <3>3 DEF Set
    <3>5. SoundRegister(row)
      BY <2>2 DEF RegisterInv
    <3>6. /\ DOMAIN row' = Ids /\ \A j \in Ids \ {i} : row'[j] = row[j]
          /\ row'[i] = row[i] \/ row'[i] = Merge(row[i], f)
      <4> HIDE DEF e
      <4> QED
        BY <2>1, <3>4
    <3> QED
      BY <3>1, <3>3, <3>5, <3>6, FitsIn
  <2>3. ~overlapped => Sound(row', Tail(todo[c]))
    BY <2>2 DEF Sound
  <2> QED
    BY <1>1, <2>1, <2>2, <2>3, RegisterExecutes
<1> QED
  BY <1>2, <1>3

LEMMA RegisterCreates ==
    ASSUME RegisterInv, NEW c \in Callers, Create(c)
    PROVE  RegisterInv'
<1> DEFINE e == Head(todo[c])
<1>1. ~Idle(c) /\ e.do = "create" /\ Room
  BY DEF Create
<1>2. CASE Throw(c)
  BY <1>1, <1>2, RegisterThrows
<1>3. CASE ~Throw(c)
  <2>1. row' = [row EXCEPT ![NextId] = e.set] /\ todo' = [todo EXCEPT ![c] = Tail(@)] /\ overlapped' = overlapped
    BY <1>3 DEF Create
  <2>2. ASSUME ~overlapped PROVE SoundRegister(row') /\ Tail(todo[c]) = <<>>
    <3>1. Harmless(row, e) /\ Tail(todo[c]) = <<>>
      BY <1>1, <2>2, OneLeft
    <3>2. PICK r : e = Insert(r) /\ Fits(row, 0, r)
      <4> HIDE DEF e
      <4> QED
        BY <1>1, <3>1, Statements, UndefaultTells DEF Harmless
    <3>3. e.set = r
      BY <3>2 DEF Insert
    <3>4. NextId \in Ids
      BY <1>1, NextIsFree
    <3>5. Fits(row, NextId, r)
      BY <3>2, NoIdIsZero DEF Fits
    <3>6. /\ DOMAIN row' = Ids /\ \A j \in Ids \ {NextId} : row'[j] = row[j]
          /\ row'[NextId] = r
      BY <2>1, <2>2, <3>3, <3>4 DEF RegisterInv, SoundRegister
    <3> QED
      BY <2>2, <3>1, <3>4, <3>5, <3>6, FitsIn DEF RegisterInv
  <2>3. ~overlapped => Sound(row', Tail(todo[c]))
    BY <2>2 DEF Sound
  <2> QED
    BY <1>1, <2>1, <2>2, <2>3, RegisterExecutes
<1> QED
  BY <1>2, <1>3

LEMMA RegisterErases ==
    ASSUME RegisterInv, NEW c \in Callers, Deletion(c)
    PROVE  RegisterInv'
<1> DEFINE e == Head(todo[c])
<1>1. ~Idle(c) /\ e.do = "erase"
  BY DEF Deletion
<1>2. CASE Throw(c)
  BY <1>1, <1>2, RegisterThrows
<1>3. CASE ~Throw(c)
  <2>1. /\ row' = [j \in Ids |->
                     IF j = e.id THEN Gone
                     ELSE IF "parent" \in DOMAIN row[j] /\ row[j].parent = e.id
                          THEN [row[j] EXCEPT !.parent = 0] ELSE row[j]]
        /\ todo' = [todo EXCEPT ![c] = Tail(@)] /\ overlapped' = overlapped
    BY <1>3 DEF Deletion
  <2>2. ASSUME ~overlapped PROVE SoundRegister(row') /\ Tail(todo[c]) = <<>>
    <3>1. Tail(todo[c]) = <<>>
      BY <1>1, <2>2, OneLeft
    <3>2. \A j \in Ids : row'[j].kind = "gone" \/ row'[j] = row[j] \/ row'[j] = [row[j] EXCEPT !.parent = 0]
      BY <2>1 DEF Gone
    <3>3. DOMAIN row' = Ids
      BY <2>1
    <3>4. \A j \in Ids : OfRegister(row[j])
      BY <2>2 DEF RegisterInv, SoundRegister
    <3>5. \A j \in Ids : \/ OfRegister(row'[j]) /\ row'[j].kind = "gone"
                         \/ row'[j] = row[j]
                         \/ row'[j] = [row[j] EXCEPT !.parent = 0]
      BY <2>1 DEF Gone, OfRegister
    <3>6. ASSUME NEW j \in Ids
          PROVE  /\ OfRegister(row'[j]) /\ (IsDefault(row'[j]) => IsDefault(row[j]))
                 /\ TakesDays(row'[j]) => /\ TakesDays(row[j]) /\ row'[j].employee = row[j].employee
                                          /\ row'[j].from = row[j].from /\ row'[j].to = row[j].to
      BY ZenonT(60), <3>4, <3>5 DEF OfRegister, IsDefault, TakesDays
    <3>7. \A i, j \in Ids : Meets(row'[i], row'[j]) => Meets(row[i], row[j])
      BY <3>6 DEF Meets
    <3> QED
      BY <2>2, <3>1, <3>3, <3>6, <3>7 DEF RegisterInv, SoundRegister
  <2>3. ~overlapped => Sound(row', Tail(todo[c]))
    BY <2>2 DEF Sound
  <2> QED
    BY <1>1, <2>1, <2>2, <2>3, RegisterExecutes
<1> QED
  BY <1>2, <1>3

LEMMA RegisterClears ==
    ASSUME RegisterInv, NEW c \in Callers, ClearDefaults(c)
    PROVE  RegisterInv'
<1> DEFINE u == Head(todo[c])
<1>1. /\ ~Idle(c) /\ u.do = "undefault"
      /\ row' = [j \in Ids |-> IF Found(j, "warehouse") /\ j # u.but
                               THEN [row[j] EXCEPT !.default = FALSE] ELSE row[j]]
      /\ todo' = [todo EXCEPT ![c] = Tail(@)] /\ overlapped' = overlapped
  BY DEF ClearDefaults
<1>2. ASSUME ~overlapped PROVE SoundRegister(row') /\ Sound(row', Tail(todo[c]))
  <2>1. SoundRegister(row) /\ Sound(row, todo[c]) /\ todo[c] # <<>>
    BY <1>1, <1>2 DEF RegisterInv, Idle
  <2>2. ASSUME NEW x, todo[c] = <<x>> PROVE ~Harmless(row, x)
    BY <1>1, <2>2, ShortLists DEF Harmless, Set, Insert, Erase
  <2>3. Moving(row, todo[c])
    BY <2>1, <2>2 DEF Sound
  <2>4. ASSUME NEW j \in Ids
        PROVE  /\ OfRegister(row'[j]) /\ row'[j].kind = row[j].kind
               /\ IsDefault(row'[j]) => IsDefault(row[j]) /\ j = u.but
               /\ TakesDays(row'[j]) => row'[j] = row[j]
    BY <1>1, <2>1 DEF SoundRegister, OfRegister, IsDefault, TakesDays, Found
  <2>5. \A i, j \in Ids : Meets(row'[i], row'[j]) => Meets(row[i], row[j])
    BY <2>4 DEF Meets
  <2>6. DOMAIN row' = Ids
    BY <1>1
  <2>7. SoundRegister(row')
    BY <2>1, <2>4, <2>5, <2>6 DEF SoundRegister
  <2>8. CASE \E s : todo[c] = <<Undefault(0), Insert(Warehouse(s, TRUE))>>
    <3>1. PICK s : todo[c] = <<Undefault(0), Insert(Warehouse(s, TRUE))>>
      BY <2>8
    <3>2. u.but = 0 /\ Tail(todo[c]) = <<Insert(Warehouse(s, TRUE))>>
      <4>1. u = Undefault(0) /\ Tail(todo[c]) = <<Insert(Warehouse(s, TRUE))>>
        BY <3>1, OfTwo
      <4> QED
        BY <4>1, UndefaultTells
    <3>3. \A j \in Ids : ~IsDefault(row'[j])
      BY <2>4, <3>2, NoIdIsZero
    <3>4. Fits(row', 0, Warehouse(s, TRUE))
      BY <3>3 DEF Fits, OfRegister, Meets, TakesDays, Warehouse
    <3>5. Harmless(row', Insert(Warehouse(s, TRUE)))
      BY <3>4 DEF Harmless
    <3> QED
      BY <2>7, <3>2, <3>5 DEF Sound
  <2>9. CASE \E i \in Ids : row[i].kind = "warehouse" /\ todo[c] = <<Undefault(i), Set(i, [default |-> TRUE])>>
    <3>1. PICK i \in Ids : /\ row[i].kind = "warehouse"
                           /\ todo[c] = <<Undefault(i), Set(i, [default |-> TRUE])>>
      BY <2>9
    <3>2. u.but = i /\ Tail(todo[c]) = <<Set(i, [default |-> TRUE])>>
      BY <3>1, OfTwo, Statements, UndefaultTells
    <3>3. \A j \in Ids \ {i} : ~IsDefault(row'[j])
      BY <2>4, <3>2
    <3> DEFINE new == Merge(row'[i], [default |-> TRUE])
    <3>4. new.kind = "warehouse" /\ DOMAIN new = DOMAIN row'[i]
      BY <2>4, <3>1, MergeTells DEF OfRegister
    <3>5. OfRegister(new)
      BY <2>4, <3>1, <3>4 DEF OfRegister
    <3> HIDE DEF new
    <3>6. Fits(row', i, new)
      BY <3>3, <3>4, <3>5 DEF Fits, Meets, TakesDays
    <3>7. Harmless(row', Set(i, [default |-> TRUE]))
      BY <3>6 DEF Harmless, new
    <3> QED
      BY <2>7, <3>2, <3>7 DEF Sound
  <2> QED
    BY <2>3, <2>8, <2>9 DEF Moving
<1> QED
  BY <1>1, <1>2, RegisterExecutes
-----------------------------------------------------------------------------
\* The registers are sound at first,
LEMMA RegisterStart == RegisterInit => RegisterInv
<1> SUFFICES ASSUME RegisterInit PROVE RegisterInv
  OBVIOUS
<1>1. SoundRegister(row)
  BY RegisterAssumption DEF RegisterInit
<1>2. DOMAIN todo = Callers /\ \A c \in Callers : todo[c] = <<>>
  BY DEF RegisterInit, RowsInit
<1> QED
  BY <1>1, <1>2 DEF RegisterInv, OneCall, Idle, Sound

\* and every step keeps them so.
LEMMA RegisterStep ==
    ASSUME RegisterInv, RegisterNext
    PROVE  RegisterInv'
<1>1. ASSUME NEW c \in Callers, CatalogCall(c) PROVE RegisterInv'
  <2>1. CASE CreateCategory(c) \/ CreateUnit(c) \/ CreateProduct(c) \/ CreateWarehouse(c) \/ CreateVendor(c)
    BY <2>1, ItemsCreated, CreateWarehouseKeeps
  <2>2. ASSUME NEW i \in Ids,
               \/ UpdateCategory(c, i) \/ DeleteCategory(c, i) \/ UpdateUnit(c, i) \/ DeleteUnit(c, i)
               \/ UpdateProduct(c, i) \/ ArchiveProduct(c, i) \/ RestoreProduct(c, i) \/ DeleteProduct(c, i)
        PROVE  RegisterInv'
    BY <2>2, CatalogKeeps
  <2> QED
    BY <1>1, <2>1, <2>2, WarehouseKeeps, PeopleKeep DEF CatalogCall
<1>2. ASSUME NEW c \in Callers, PersonnelCall(c) PROVE RegisterInv'
  BY <1>2, ItemsCreated, ApplyKeeps, PeopleKeep, LeaveKeeps DEF PersonnelCall
<1>3. ASSUME NEW c \in Callers, Update(c) \/ Create(c) \/ Deletion(c) \/ ClearDefaults(c) \/ Die(c)
      PROVE  RegisterInv'
  BY <1>3, RegisterUpdates, RegisterCreates, RegisterErases, RegisterClears, RegisterThrows DEF Die
<1> QED
  BY <1>1, <1>2, <1>3 DEF RegisterNext

\* What the registers promise follows.
LEMMA RegistersFollow == RegisterInv => RegistersHold
<1> SUFFICES ASSUME RegisterInv PROVE RegistersHold
  OBVIOUS
<1>1. OneDefaultWarehouse
  <2> DEFINE some == {i \in Ids : Found(i, "warehouse") /\ row[i].default}
  <2>1. ASSUME ~overlapped PROVE Cardinality(some) <= 1
    <3>1. \A i, j \in some : i = j
      BY <2>1 DEF RegisterInv, SoundRegister, IsDefault, Found
    <3>2. CASE some = {}
      BY <3>2, FS_EmptySet
    <3>3. ASSUME NEW i \in some PROVE Cardinality(some) = 1
      <4>1. some = {i}
        BY <3>1, <3>3
      <4>2. Cardinality({i}) = 1
        BY FS_Singleton
      <4> QED
        BY <4>1, <4>2
    <3> QED
      BY <3>2, <3>3
  <2> QED
    BY <2>1 DEF OneDefaultWarehouse
<1>2. LeaveDisjoint
  <2> SUFFICES ASSUME ~overlapped, NEW i \in All("leave"), NEW j \in All("leave"), i # j,
                      row[i].employee = row[j].employee,
                      {row[i].status, row[j].status} \subseteq {"PENDING", "APPROVED"}
               PROVE  row[i].to < row[j].from \/ row[j].to < row[i].from
    BY DEF LeaveDisjoint
  <2>1. i \in Ids /\ j \in Ids /\ TakesDays(row[i]) /\ TakesDays(row[j])
    BY DEF All, TakesDays
  <2>2. ~Meets(row[i], row[j])
    BY <2>1 DEF RegisterInv, SoundRegister
  <2> QED
    BY <2>1, <2>2 DEF Meets
<1> QED
  BY <1>1, <1>2 DEF RegistersHold

\* In a behaviour that exercises the registers.
RegisterPart == part = "registers" => RegisterInv
LEMMA RegisterPartStart == ServicesInit => RegisterPart
BY RegisterStart DEF ServicesInit, RegisterPart
LEMMA RegisterPartStep == RegisterPart /\ [ServicesNext]_serviceVars => RegisterPart'
<1> SUFFICES ASSUME RegisterPart, [ServicesNext]_serviceVars, part' = "registers" PROVE RegisterInv'
  BY DEF RegisterPart
<1>1. CASE ServicesNext
  <2>1. part = "registers" /\ RegisterNext
    BY <1>1 DEF ServicesNext
  <2> QED
    BY <2>1, RegisterStep DEF RegisterPart
<1>2. CASE UNCHANGED serviceVars
  <2>1. part = "registers" /\ UNCHANGED rowVars
    BY <1>2 DEF serviceVars
  <2>2. RegisterInv
    BY <2>1 DEF RegisterPart
  <2> QED
    BY <2>1, <2>2 DEF RegisterInv, rowVars, OneCall, Idle
<1> QED
  BY <1>1, <1>2

\* As long as calls do not overlap, whichever die, an organisation has one
\* default warehouse at most, whatever is made the default, archived, deleted;
\* and no two pending or approved leaves of an employee share a day
\* (WarehouseService's create and update, HrService's leave).
THEOREM RegistersAlwaysHold == ServicesSpec => [](part = "registers" => RegistersHold)
<1>1. RegisterPart => (part = "registers" => RegistersHold)
  BY RegistersFollow DEF RegisterPart
<1> QED
  BY <1>1, RegisterPartStart, RegisterPartStep, PTL DEF ServicesSpec
-----------------------------------------------------------------------------
(* Entries that are reversed, and fiscal years (Accounting).                *)

\* Statements, by what they write: a column of an account, the state of an
\* entry, a column of a year, a row, and the entry that is made.
OfAccount(tab, i) == tab[i].kind \in {"account", "gone"}
AccountSet(tab, i, f) == OfAccount(tab, i) /\ "kind" \notin DOMAIN f
PostSet(tab, i, f) == tab[i].kind = "entry" /\ f = [status |-> "POSTED"]
YearSet(tab, i, f) ==
    /\ tab[i].kind = "year" /\ {"kind", "from"} \cap DOMAIN f = {}
    /\ "to" \in DOMAIN f => f.to \in Dates
BookInsert(r) ==
    "kind" \in DOMAIN r /\ \/ r.kind = "account"
                           \/ r.kind = "year" /\ OfBooks(r)
BookEntry(tab, x) ==
    /\ OfBooks(x) /\ x.kind = "entry"
    /\ \/ x.reverses = 0 /\ x.status = "DRAFT"
       \/ x.reverses \in Ids /\ tab[x.reverses].kind = "entry" /\ x.status = "POSTED"
Entering(tab, e) == \E x : e = Enter(x) /\ BookEntry(tab, x)
BookSet(tab, i, f) == AccountSet(tab, i, f) \/ PostSet(tab, i, f) \/ YearSet(tab, i, f)
BookStatement(tab, e) ==
    \/ \E i \in Ids : \E f : e = Set(i, f) /\ BookSet(tab, i, f)
    \/ \E r : e = Insert(r) /\ BookInsert(r)
    \/ \E i \in Ids : e = Erase(i) /\ OfAccount(tab, i)
    \/ Entering(tab, e)
Closing(tab, q) == \E y \in Ids :
    tab[y].kind = "year" /\ q = <<Set(y, [periodsClosed |-> TRUE]), Set(y, [closed |-> TRUE])>>
Numbering(tab, q) == \E e : q = <<CountEntries, e>> /\ Entering(tab, e)
BookScript(tab, q) ==
    q = <<>> \/ (\E e : q = <<e>> /\ BookStatement(tab, e)) \/ Numbering(tab, q) \/ Closing(tab, q)

\* What a statement asks of the tables where no call overlaps.
BookReady(tab, but, e) ==
    /\ \A i \in Ids : e = Set(i, [status |-> "POSTED"]) /\ tab[i].kind = "entry" => tab[i].status = "DRAFT"
    /\ \A i \in Ids : \A f : e = Set(i, f) /\ tab[i].kind = "year" /\ "to" \in DOMAIN f => i \in but
    /\ \A r : e = Insert(r) /\ r.kind = "year" =>
         \A j \in Ids \ but : tab[j].kind = "year" => r.to < tab[j].from \/ tab[j].to < r.from
    /\ \A x : e = Enter(x) /\ x.reverses # 0 => tab[x.reverses].status = "POSTED"
BookPrepared(tab, but, q) == \A e : q = <<e>> \/ q = <<CountEntries, e>> => BookReady(tab, but, e)

BookInv ==
    /\ DOMAIN todo = Callers /\ BookRows(row)
    /\ \A c \in Callers : BookScript(row, todo[c])
    /\ ~overlapped => /\ OneCall /\ NeatBooks(row, redated)
                      /\ \A c \in Callers : BookPrepared(row, redated, todo[c])

\* How the tables change: entries and years stay what they are.
BooksGrow(tab, new) == \A i \in Ids :
    /\ tab[i].kind \in {"entry", "year"} => new[i].kind = tab[i].kind
    /\ OfAccount(tab, i) => OfAccount(new, i)

\* Whatever a call has left, it still may execute.
LEMMA EnteringKept ==
    ASSUME NEW tab, NEW new, BooksGrow(tab, new), NEW e, Entering(tab, e)
    PROVE  Entering(new, e)
BY DEF Entering, BookEntry, BooksGrow
LEMMA BookScriptKept ==
    ASSUME NEW tab, NEW new, BooksGrow(tab, new), NEW q, BookScript(tab, q)
    PROVE  BookScript(new, q)
<1>1. ASSUME NEW e, BookStatement(tab, e) PROVE BookStatement(new, e)
  <2>1. CASE Entering(tab, e)
    BY <2>1, EnteringKept DEF BookStatement
  <2>2. ASSUME NEW i \in Ids, NEW f, BookSet(tab, i, f) PROVE BookSet(new, i, f)
    BY <2>2 DEF BookSet, AccountSet, PostSet, YearSet, BooksGrow
  <2>3. ASSUME NEW i \in Ids, OfAccount(tab, i) PROVE OfAccount(new, i)
    BY <2>3 DEF BooksGrow
  <2> QED
    BY <1>1, <2>1, <2>2, <2>3 DEF BookStatement
<1>2. CASE Numbering(tab, q)
  <2>1. Numbering(new, q)
    BY <1>2, EnteringKept DEF Numbering
  <2> QED
    BY <2>1 DEF BookScript
<1>3. CASE Closing(tab, q)
  <2>1. Closing(new, q)
    BY <1>3 DEF Closing, BooksGrow
  <2> QED
    BY <2>1 DEF BookScript
<1> QED
  BY <1>1, <1>2, <1>3 DEF BookScript

\* A call begins with statements that it may execute.
LEMMA BookBegins ==
    ASSUME BookInv, NEW c \in Callers, NEW st, Begin(c, st), BookScript(row, st),
           redated \subseteq redated',
           ~overlapped /\ Quiet => BookPrepared(row, redated', st)
    PROVE  BookInv'
<1>1. row' = row /\ todo' = [todo EXCEPT ![c] = st] /\ overlapped' = (overlapped \/ ~Quiet)
  BY DEF Begin
<1>2. /\ DOMAIN todo' = Callers /\ todo'[c] = st
      /\ \A d \in Callers \ {c} : todo'[d] = todo[d]
  BY <1>1 DEF BookInv
<1>3. \A d \in Callers : BookScript(row', todo'[d])
  BY <1>1, <1>2 DEF BookInv
<1>4. ASSUME ~overlapped'
      PROVE  /\ OneCall' /\ NeatBooks(row', redated')
             /\ \A d \in Callers : BookPrepared(row', redated', todo'[d])
  <2>1. ~overlapped /\ Quiet
    BY <1>1, <1>4
  <2>2. \A d \in Callers \ {c} : todo'[d] = <<>>
    BY <1>2, <2>1 DEF Quiet, Idle
  <2>3. OneCall'
    BY <2>2 DEF OneCall, Idle
  <2>4. NeatBooks(row', redated')
    BY <1>1, <2>1 DEF BookInv, NeatBooks
  <2>5. \A e : <<e>> # <<>> /\ <<CountEntries, e>> # <<>>
    BY ShortLists
  <2>6. BookPrepared(row', redated', <<>>)
    BY <2>5 DEF BookPrepared
  <2> QED
    BY <1>1, <1>2, <2>1, <2>2, <2>3, <2>4, <2>6
<1> QED
  BY <1>1, <1>2, <1>3, <1>4 DEF BookInv

\* One statement.
LEMMA BookBegin ==
    ASSUME BookInv, NEW c \in Callers, NEW e, Begin(c, <<e>>), BookStatement(row, e),
           redated \subseteq redated', ~overlapped /\ Quiet => BookReady(row, redated', e)
    PROVE  BookInv'
<1>1. BookScript(row, <<e>>)
  BY DEF BookScript
<1>2. \A x, y : (<<x>> = <<y>> => x = y) /\ <<x>> # <<CountEntries, y>>
  BY TwoAreNotOne
<1>3. ~overlapped /\ Quiet => BookPrepared(row, redated', <<e>>)
  BY <1>2 DEF BookPrepared
<1> QED
  BY <1>1, <1>3, BookBegins
-----------------------------------------------------------------------------
\* Statements are told apart.
LEMMA SetsDiffer == \A i, j, f, g : Set(i, f) = Set(j, g) => i = j /\ f = g
<1>1. \A i, f : Set(i, f).ids = {i} /\ Set(i, f).set = f
  BY Statements
<1> QED
  BY <1>1
LEMMA EnterTells == \A x : Enter(x).do = "enter" /\ Enter(x).entry = x
BY DEF Enter
LEMMA BookForms ==
    ASSUME NEW i, NEW f, NEW r, NEW x, NEW j
    PROVE  /\ Set(i, f) # Insert(r) /\ Set(i, f) # Enter(x) /\ Set(i, f) # Erase(j)
           /\ Insert(r) # Enter(x) /\ Insert(r) # Erase(j) /\ Enter(x) # Erase(j)
<1>1. Set(i, f).do = "update" /\ Insert(r).do = "create" /\ Erase(j).do = "erase" /\ Enter(x).do = "enter"
  BY Statements, EnterTells
<1> HIDE DEF Set
<1> QED
  BY <1>1

\* What a statement asks, by what it is.
LEMMA SetReady ==
    ASSUME NEW tab, NEW but, NEW i, NEW f,
           f = [status |-> "POSTED"] /\ tab[i].kind = "entry" => tab[i].status = "DRAFT",
           tab[i].kind = "year" /\ "to" \in DOMAIN f => i \in but
    PROVE  BookReady(tab, but, Set(i, f))
BY SetsDiffer, BookForms DEF BookReady
LEMMA InsertReady ==
    ASSUME NEW tab, NEW but, NEW r,
           r.kind = "year" => \A j \in Ids \ but :
               tab[j].kind = "year" => r.to < tab[j].from \/ tab[j].to < r.from
    PROVE  BookReady(tab, but, Insert(r))
<1>1. \A s : Insert(r) = Insert(s) => r = s
  BY Statements
<1> QED
  BY <1>1, BookForms DEF BookReady
LEMMA EraseReady ==
    ASSUME NEW tab, NEW but, NEW i
    PROVE  BookReady(tab, but, Erase(i))
BY BookForms DEF BookReady
LEMMA EnterReady ==
    ASSUME NEW tab, NEW but, NEW x, x.reverses # 0 => tab[x.reverses].status = "POSTED"
    PROVE  BookReady(tab, but, Enter(x))
<1>1. \A y : Enter(x) = Enter(y) => x = y
  BY EnterTells
<1> QED
  BY <1>1, BookForms DEF BookReady

\* Accounts.
LEMMA AccountKeeps ==
    ASSUME BookInv, NEW c \in Callers, NEW a \in Ids, NEW f, row[a].kind = "account", "kind" \notin DOMAIN f,
           "status" \notin DOMAIN f, Begin(c, <<Set(a, f)>>), UNCHANGED redated
    PROVE  BookInv'
<1>1. BookSet(row, a, f)
  BY DEF BookSet, AccountSet, OfAccount
<1>2. BookStatement(row, Set(a, f))
  BY <1>1 DEF BookStatement
<1>3. BookReady(row, redated', Set(a, f))
  BY SetReady
<1> QED
  BY <1>2, <1>3, BookBegin
LEMMA AccountsKeep ==
    ASSUME BookInv, NEW c \in Callers, NEW a \in Ids,
           UpdateAccount(c, a) \/ DeleteAccount(c, a)
    PROVE  BookInv'
<1>1. CASE UpdateAccount(c, a)
  <2>1. row[a].kind = "account" /\ UNCHANGED redated
    BY <1>1 DEF UpdateAccount
  <2>2. ASSUME NEW p, Begin(c, <<Set(a, [parent |-> p])>>) PROVE BookInv'
    BY <2>1, <2>2, AccountKeeps
  <2>3. ASSUME NEW t, Begin(c, <<Set(a, [type |-> t])>>) PROVE BookInv'
    BY <2>1, <2>3, AccountKeeps
  <2>4. ASSUME NEW b, Begin(c, <<Set(a, [active |-> b])>>) PROVE BookInv'
    BY <2>1, <2>4, AccountKeeps
  <2> QED
    BY <1>1, <2>2, <2>3, <2>4 DEF UpdateAccount
<1>2. CASE DeleteAccount(c, a)
  <2>1. row[a].kind = "account" /\ UNCHANGED redated
    BY <1>2 DEF DeleteAccount
  <2>2. CASE Begin(c, <<Set(a, [active |-> FALSE])>>)
    BY <2>1, <2>2, AccountKeeps
  <2>3. CASE Begin(c, <<Erase(a)>>)
    <3>1. BookStatement(row, Erase(a))
      BY <2>1 DEF BookStatement, OfAccount
    <3> QED
      BY <2>1, <2>3, <3>1, EraseReady, BookBegin
  <2> QED
    BY <1>2, <2>2, <2>3 DEF DeleteAccount
<1> QED
  BY <1>1, <1>2
LEMMA CreateAccountKeeps ==
    ASSUME BookInv, NEW c \in Callers, CreateAccount(c)
    PROVE  BookInv'
<1>1. PICK t \in Types, p \in {0} \cup {i \in Ids : row[i].kind = "account"} : Begin(c, <<Insert(Account(t, p, FALSE))>>)
  BY DEF CreateAccount, BeginInsert
<1>2. BookInsert(Account(t, p, FALSE)) /\ Account(t, p, FALSE).kind = "account"
  BY DEF BookInsert, Account
<1>3. BookStatement(row, Insert(Account(t, p, FALSE)))
  BY <1>2 DEF BookStatement
<1>4. BookReady(row, redated', Insert(Account(t, p, FALSE)))
  BY <1>2, InsertReady
<1> QED
  BY <1>1, <1>3, <1>4, BookBegin DEF CreateAccount

\* An entry is made of lines, or of an entry that it reverses.
LEMMA NumberingKeeps ==
    ASSUME BookInv, NEW c \in Callers, NEW x, Begin(c, <<CountEntries, Enter(x)>>), BookEntry(row, x),
           UNCHANGED redated, x.reverses # 0 => row[x.reverses].status = "POSTED"
    PROVE  BookInv'
<1>1. Entering(row, Enter(x))
  BY DEF Entering
<1>2. BookScript(row, <<CountEntries, Enter(x)>>)
  BY <1>1 DEF BookScript, Numbering
<1>3. \A e : /\ <<e>> # <<CountEntries, Enter(x)>>
             /\ <<CountEntries, e>> = <<CountEntries, Enter(x)>> => e = Enter(x)
  BY TwoAreNotOne
<1>4. BookPrepared(row, redated, <<CountEntries, Enter(x)>>)
  BY <1>3, EnterReady DEF BookPrepared
<1> QED
  BY <1>2, <1>4, BookBegins
LEMMA CreateEntryKeeps ==
    ASSUME BookInv, NEW c \in Callers, CreateEntry(c)
    PROVE  BookInv'
<1>1. PICK lines \in Vouchers, d \in Dates : Begin(c, <<CountEntries, Enter(Entry(lines, d))>>)
  BY DEF CreateEntry, BeginInsert
<1>2. BookEntry(row, Entry(lines, d)) /\ Entry(lines, d).reverses = 0
  BY DEF BookEntry, Entry, OfBooks
<1> QED
  BY <1>1, <1>2, NumberingKeeps DEF CreateEntry
LEMMA ReverseEntryKeeps ==
    ASSUME BookInv, NEW c \in Callers, NEW i \in Ids, ReverseEntry(c, i)
    PROVE  BookInv'
<1> DEFINE x == [Entry(Swapped(row[i].lines), Today) EXCEPT !.status = "POSTED", !.reverses = i]
<1>1. row[i].kind = "entry" /\ row[i].status = "POSTED" /\ Begin(c, <<CountEntries, Enter(x)>>)
  BY DEF ReverseEntry, BeginInsert
<1>2. BookEntry(row, x) /\ x.reverses = i
  BY <1>1 DEF BookEntry, Entry, OfBooks
<1> HIDE DEF x
<1> QED
  BY <1>1, <1>2, NumberingKeeps DEF ReverseEntry
LEMMA PostEntryKeeps ==
    ASSUME BookInv, NEW c \in Callers, NEW i \in Ids, PostEntry(c, i)
    PROVE  BookInv'
<1>1. row[i].kind = "entry" /\ row[i].status = "DRAFT" /\ Begin(c, <<Set(i, [status |-> "POSTED"])>>)
  BY DEF PostEntry
<1>2. BookSet(row, i, [status |-> "POSTED"])
  BY <1>1 DEF BookSet, PostSet
<1>3. BookStatement(row, Set(i, [status |-> "POSTED"]))
  BY <1>2 DEF BookStatement
<1>4. BookReady(row, redated', Set(i, [status |-> "POSTED"]))
  BY <1>1, SetReady
<1> QED
  BY <1>1, <1>3, <1>4, BookBegin DEF PostEntry

\* Years.
LEMMA CreateYearKeeps ==
    ASSUME BookInv, NEW c \in Callers, CreateYear(c)
    PROVE  BookInv'
<1>1. PICK from \in Dates, to \in Dates : ~Overlaps(from, to) /\ Begin(c, <<Insert(Year(from, to))>>)
  BY DEF CreateYear, BeginInsert
<1> DEFINE r == Year(from, to)
<1>2. /\ r.kind = "year" /\ r.from = from /\ r.to = to /\ OfBooks(r) /\ BookInsert(r)
  BY DEF Year, OfBooks, BookInsert
<1>3. \A j \in Ids : row[j].kind = "year" => to < row[j].from \/ row[j].to < from
  <2> SUFFICES ASSUME NEW j \in Ids, row[j].kind = "year" PROVE to < row[j].from \/ row[j].to < from
    OBVIOUS
  <2>1. row[j].from \in Nat /\ row[j].to \in Nat /\ from \in Nat /\ to \in Nat
    BY BookAssumption DEF BookInv, BookRows, OfBooks
  <2>2. ~(row[j].from <= to /\ row[j].to >= from)
    BY <1>1 DEF Overlaps
  <2> QED
    BY <2>1, <2>2
<1> HIDE DEF r
<1>4. BookStatement(row, Insert(r))
  BY <1>2 DEF BookStatement
<1>5. BookReady(row, redated', Insert(r))
  BY <1>2, <1>3, InsertReady
<1>6. Begin(c, <<Insert(r)>>)
  BY <1>1 DEF r
<1> QED
  BY <1>4, <1>5, <1>6, BookBegin DEF CreateYear
LEMMA UpdateYearKeeps ==
    ASSUME BookInv, NEW c \in Callers, NEW y \in Ids, UpdateYear(c, y)
    PROVE  BookInv'
<1>1. row[y].kind = "year"
  BY DEF UpdateYear
<1>2. ASSUME NEW d \in Dates, Begin(c, <<Set(y, [to |-> d])>>), redated' = redated \cup {y} PROVE BookInv'
  <2>1. BookSet(row, y, [to |-> d])
    BY <1>1, <1>2 DEF BookSet, YearSet
  <2>2. BookStatement(row, Set(y, [to |-> d]))
    BY <2>1 DEF BookStatement
  <2>3. BookReady(row, redated', Set(y, [to |-> d]))
    BY <1>1, <1>2, SetReady
  <2> QED
    BY <1>2, <2>2, <2>3, BookBegin
<1>3. ASSUME NEW b \in BOOLEAN, Begin(c, <<Set(y, [closed |-> b])>>), UNCHANGED redated PROVE BookInv'
  <2>1. BookSet(row, y, [closed |-> b])
    BY <1>1 DEF BookSet, YearSet
  <2>2. BookStatement(row, Set(y, [closed |-> b]))
    BY <2>1 DEF BookStatement
  <2>3. BookReady(row, redated', Set(y, [closed |-> b]))
    BY <1>1, SetReady
  <2> QED
    BY <1>3, <2>2, <2>3, BookBegin
<1> QED
  BY <1>2, <1>3 DEF UpdateYear
LEMMA CloseYearKeeps ==
    ASSUME BookInv, NEW c \in Callers, NEW y \in Ids, CloseYear(c, y)
    PROVE  BookInv'
<1> DEFINE x == Set(y, [periodsClosed |-> TRUE])
           z == Set(y, [closed |-> TRUE])
<1>1. row[y].kind = "year" /\ Begin(c, <<x, z>>) /\ UNCHANGED redated
  BY DEF CloseYear
<1>2. BookScript(row, <<x, z>>)
  BY <1>1 DEF BookScript, Closing
<1>3. \A e : <<e>> # <<x, z>>
  BY TwoAreNotOne
<1>4. x # CountEntries
  BY Statements DEF CountEntries
<1> HIDE DEF x, z
<1>5. BookPrepared(row, redated, <<x, z>>)
  BY <1>3, <1>4 DEF BookPrepared
<1> QED
  BY <1>1, <1>2, <1>5, BookBegins
-----------------------------------------------------------------------------
\* A statement of a call is executed.
LEMMA BookExecutes ==
    ASSUME BookInv, NEW c \in Callers, ~Idle(c), NEW rest,
           todo' = [todo EXCEPT ![c] = rest], overlapped' = overlapped, redated' = redated,
           BookRows(row'), BooksGrow(row, row'), BookScript(row', rest),
           ~overlapped => NeatBooks(row', redated) /\ BookPrepared(row', redated, rest)
    PROVE  BookInv'
<1>1. /\ DOMAIN todo' = Callers /\ todo'[c] = rest
      /\ \A d \in Callers \ {c} : todo'[d] = todo[d]
  BY DEF BookInv
<1>2. \A d \in Callers : BookScript(row', todo'[d])
  BY <1>1, BookScriptKept DEF BookInv
<1>3. ASSUME ~overlapped PROVE OneCall' /\ \A d \in Callers : BookPrepared(row', redated, todo'[d])
  <2>1. \A d \in Callers \ {c} : todo'[d] = <<>>
    BY <1>1, <1>3 DEF BookInv, OneCall, Idle
  <2>2. OneCall'
    BY <2>1 DEF OneCall, Idle
  <2>3. \A e : <<e>> # <<>> /\ <<CountEntries, e>> # <<>>
    BY ShortLists
  <2>4. BookPrepared(row', redated, <<>>)
    BY <2>3 DEF BookPrepared
  <2> QED
    BY <1>1, <1>3, <2>1, <2>2, <2>4
<1> QED
  BY <1>1, <1>2, <1>3 DEF BookInv

\* Or it is not.
LEMMA BookThrows ==
    ASSUME BookInv, NEW c \in Callers, ~Idle(c), Throw(c), UNCHANGED redated
    PROVE  BookInv'
<1>1. row' = row /\ todo' = [todo EXCEPT ![c] = <<>>] /\ overlapped' = overlapped
  BY DEF Throw
<1>2. BooksGrow(row, row')
  BY <1>1 DEF BooksGrow
<1>3. BookScript(row', <<>>)
  BY DEF BookScript
<1>4. \A e : <<e>> # <<>> /\ <<CountEntries, e>> # <<>>
  BY ShortLists
<1>5. BookPrepared(row', redated, <<>>)
  BY <1>4 DEF BookPrepared
<1> QED
  BY <1>1, <1>2, <1>3, <1>5, BookExecutes DEF BookInv

\* Rows that are changed in their place.
BookChange(r, s) ==
    /\ OfBooks(s)
    /\ r.kind \in {"entry", "year"} => s.kind = r.kind
    /\ r.kind \notin {"entry", "year"} => s.kind \notin {"entry", "year"}
    /\ r.kind \in {"account", "gone"} => s.kind \in {"account", "gone"}
    /\ r.kind = "entry" => s.reverses = r.reverses /\ s.status \in {r.status, "POSTED"}
LEMMA BooksChanged ==
    ASSUME NEW tab, BookRows(tab), NEW new, DOMAIN new = Ids, \A j \in Ids : BookChange(tab[j], new[j])
    PROVE  BookRows(new) /\ BooksGrow(tab, new)
<1>1. \A j, i \in Ids : Reverses(new, j, i) <=> Reverses(tab, j, i)
  BY DEF BookChange, Reverses
<1>2. \A j \in Ids : new[j].kind = "entry" <=> tab[j].kind = "entry"
  BY DEF BookChange
<1>3. ASSUME NEW i \in Ids, new[i].kind = "entry"
      PROVE  /\ new[i].status = "REVERSED" => \E j \in Ids : Reverses(new, j, i)
             /\ new[i].reverses # 0 => /\ new[i].status \in {"POSTED", "REVERSED"}
                                       /\ new[i].reverses \in Ids /\ new[new[i].reverses].kind = "entry"
  <2>1. /\ tab[i].kind = "entry" /\ new[i].reverses = tab[i].reverses
        /\ new[i].status \in {tab[i].status, "POSTED"}
    BY <1>2, <1>3 DEF BookChange
  <2> QED
    BY <1>1, <1>2, <2>1 DEF BookRows
<1>4. BooksGrow(tab, new)
  BY DEF BooksGrow, BookChange, OfAccount
<1>5. \A j \in Ids : OfBooks(new[j])
  BY DEF BookChange
<1> QED
  BY <1>3, <1>4, <1>5 DEF BookRows
LEMMA NeatChanged ==
    ASSUME NEW tab, NEW but, NeatBooks(tab, but), NEW new, \A j \in Ids : BookChange(tab[j], new[j]),
           \A j \in Ids : tab[j].kind = "entry" => tab[j].status \in {new[j].status, "DRAFT"},
           \A j \in Ids \ but : tab[j].kind = "year" => new[j].from = tab[j].from /\ new[j].to = tab[j].to
    PROVE  NeatBooks(new, but)
<1>1. \A j, i \in Ids : Reverses(new, j, i) <=> Reverses(tab, j, i)
  BY DEF BookChange, Reverses
<1>2. \A j \in Ids : /\ new[j].kind = "entry" <=> tab[j].kind = "entry"
                     /\ new[j].kind = "year" <=> tab[j].kind = "year"
  BY DEF BookChange
<1>3. ASSUME NEW i \in Ids, NEW j \in Ids, NEW k \in Ids, new[i].kind = "entry", Reverses(new, j, i)
      PROVE  new[i].status = "REVERSED" /\ (Reverses(new, k, i) => j = k)
  <2>1. tab[i].status = "REVERSED" /\ (Reverses(tab, k, i) => j = k)
    BY <1>1, <1>2, <1>3 DEF NeatBooks
  <2> QED
    BY <1>1, <1>2, <1>3, <2>1
<1>4. ASSUME NEW y \in Ids \ but, NEW z \in Ids \ but, new[y].kind = "year", new[z].kind = "year", y # z
      PROVE  new[y].to < new[z].from \/ new[z].to < new[y].from
  BY <1>2, <1>4 DEF NeatBooks
<1> QED
  BY <1>3, <1>4 DEF NeatBooks

\* What an UPDATE is of, and what it leaves.
LEMMA BookUpdateIs ==
    ASSUME BookInv, NEW c \in Callers, ~Idle(c), Head(todo[c]).do = "update"
    PROVE  \E i \in Ids : \E f :
               /\ Head(todo[c]) = Set(i, f) /\ BookSet(row, i, f)
               /\ ~overlapped => BookReady(row, redated, Set(i, f))
               /\ \/ Tail(todo[c]) = <<>>
                  \/ row[i].kind = "year" /\ Tail(todo[c]) = <<Set(i, [closed |-> TRUE])>>
<1>1. BookScript(row, todo[c]) /\ todo[c] # <<>>
  BY DEF BookInv, Idle
<1>2. ASSUME NEW e, todo[c] = <<e>>, BookStatement(row, e)
      PROVE  \E i \in Ids : \E f :
               /\ e = Set(i, f) /\ BookSet(row, i, f)
               /\ ~overlapped => BookReady(row, redated, Set(i, f))
  <2>1. Head(todo[c]) = e
    BY <1>2, ShortLists
  <2>2. \E i \in Ids : \E f : e = Set(i, f) /\ BookSet(row, i, f)
    BY <1>2, <2>1, Statements, EnterTells DEF BookStatement, Entering
  <2>3. ~overlapped => BookReady(row, redated, e)
    BY <1>2 DEF BookInv, BookPrepared
  <2> QED
    BY <2>2, <2>3
<1>3. ~Numbering(row, todo[c])
  <2>1. ASSUME NEW e, todo[c] = <<CountEntries, e>> PROVE FALSE
    <3>1. Head(todo[c]) = CountEntries
      BY <2>1, ShortLists
    <3> QED
      BY <3>1 DEF CountEntries
  <2> QED
    BY <2>1 DEF Numbering
<1>4. CASE Closing(row, todo[c])
  <2>1. PICK y \in Ids : /\ row[y].kind = "year"
                         /\ todo[c] = <<Set(y, [periodsClosed |-> TRUE]), Set(y, [closed |-> TRUE])>>
    BY <1>4 DEF Closing
  <2>2. /\ Head(todo[c]) = Set(y, [periodsClosed |-> TRUE])
        /\ Tail(todo[c]) = <<Set(y, [closed |-> TRUE])>>
    BY <2>1, ShortLists
  <2>3. BookSet(row, y, [periodsClosed |-> TRUE])
    BY <2>1 DEF BookSet, YearSet
  <2>4. BookReady(row, redated, Set(y, [periodsClosed |-> TRUE]))
    BY <2>1, SetReady
  <2> QED
    BY <2>1, <2>2, <2>3, <2>4
<1>5. CASE \E e : todo[c] = <<e>> /\ BookStatement(row, e)
  <2>1. PICK e : todo[c] = <<e>> /\ BookStatement(row, e)
    BY <1>5
  <2>2. Head(todo[c]) = e /\ Tail(todo[c]) = <<>>
    BY <2>1, ShortLists
  <2> QED
    BY <1>2, <2>1, <2>2
<1> QED
  BY <1>1, <1>3, <1>4, <1>5 DEF BookScript
\* What a column that is set leaves of a row.
LEMMA BookMerged ==
    ASSUME NEW tab, NEW i \in Ids, OfBooks(tab[i]), NEW f, BookSet(tab, i, f)
    PROVE  /\ BookChange(tab[i], Merge(tab[i], f))
           /\ tab[i].kind = "entry" => Merge(tab[i], f).status = "POSTED" /\ f = [status |-> "POSTED"]
           /\ tab[i].kind = "year" => /\ Merge(tab[i], f).from = tab[i].from
                                      /\ "to" \notin DOMAIN f => Merge(tab[i], f).to = tab[i].to
<1> DEFINE new == Merge(tab[i], f)
<1>1. /\ DOMAIN new = DOMAIN tab[i]
      /\ \A x \in DOMAIN tab[i] : new[x] = IF x \in DOMAIN f THEN f[x] ELSE tab[i][x]
  BY MergeTells
<1>2. CASE AccountSet(tab, i, f)
  <2>1. new.kind = tab[i].kind /\ tab[i].kind \in {"account", "gone"}
    BY <1>1, <1>2 DEF AccountSet, OfAccount, OfBooks
  <2> HIDE DEF new
  <2>2. OfBooks(new)
    BY <1>1, <2>1 DEF OfBooks
  <2> QED
    BY <2>1, <2>2 DEF BookChange, new
<1>3. CASE PostSet(tab, i, f)
  <2>1. tab[i].kind = "entry" /\ f = [status |-> "POSTED"]
    BY <1>3 DEF PostSet
  <2>2. new.kind = "entry" /\ new.status = "POSTED" /\ new.reverses = tab[i].reverses
    BY <1>1, <2>1 DEF OfBooks
  <2> HIDE DEF new
  <2>3. OfBooks(new)
    BY <1>1, <2>1, <2>2 DEF OfBooks
  <2> QED
    BY <2>1, <2>2, <2>3 DEF BookChange, new
<1>4. CASE YearSet(tab, i, f)
  <2>1. tab[i].kind = "year" /\ new.kind = "year" /\ new.from = tab[i].from /\ new.from \in Dates
    BY <1>1, <1>4 DEF YearSet, OfBooks
  <2>2. new.to \in Dates /\ ("to" \notin DOMAIN f => new.to = tab[i].to)
    BY <1>1, <1>4, <2>1 DEF YearSet, OfBooks
  <2> HIDE DEF new
  <2>3. OfBooks(new)
    BY <1>1, <2>1, <2>2 DEF OfBooks
  <2> QED
    BY <2>1, <2>2, <2>3 DEF BookChange, new
<1> QED
  BY <1>2, <1>3, <1>4 DEF BookSet

\* A row that stays as it is.
LEMMA BookSame == \A r : OfBooks(r) => BookChange(r, r)
BY DEF BookChange

LEMMA BookUpdates ==
    ASSUME BookInv, NEW c \in Callers, Update(c), UNCHANGED redated
    PROVE  BookInv'
<1> DEFINE e == Head(todo[c])
<1>1. ~Idle(c) /\ e.do = "update"
  BY DEF Update
<1>2. CASE Throw(c)
  BY <1>1, <1>2, BookThrows
<1>3. CASE ~Throw(c)
  <2>1. /\ row' = [j \in Ids |-> IF j \in e.ids /\ Exists(j) THEN Merge(row[j], e.set) ELSE row[j]]
        /\ todo' = [todo EXCEPT ![c] = Tail(@)] /\ overlapped' = overlapped
    BY <1>3 DEF Update
  <2>2. PICK i \in Ids : \E f :
               /\ e = Set(i, f) /\ BookSet(row, i, f)
               /\ ~overlapped => BookReady(row, redated, Set(i, f))
               /\ \/ Tail(todo[c]) = <<>>
                  \/ row[i].kind = "year" /\ Tail(todo[c]) = <<Set(i, [closed |-> TRUE])>>
    BY <1>1, BookUpdateIs
  <2>3. PICK f : /\ e = Set(i, f) /\ BookSet(row, i, f)
                 /\ ~overlapped => BookReady(row, redated, Set(i, f))
                 /\ \/ Tail(todo[c]) = <<>>
                    \/ row[i].kind = "year" /\ Tail(todo[c]) = <<Set(i, [closed |-> TRUE])>>
    BY <2>2
  <2>4. e.ids = {i} /\ e.set = f
    BY <2>3, Statements
  <2> HIDE DEF e
  <2>5. /\ DOMAIN row' = Ids /\ \A j \in Ids \ {i} : row'[j] = row[j]
        /\ row'[i] = row[i] \/ row'[i] = Merge(row[i], f)
    BY <2>1, <2>4
  <2>6. \A j \in Ids : OfBooks(row[j])
    BY DEF BookInv, BookRows
  <2>7. \A j \in Ids : BookChange(row[j], row'[j])
    BY <2>3, <2>5, <2>6, BookMerged, BookSame
  <2>8. BookRows(row') /\ BooksGrow(row, row')
    BY <2>5, <2>7, BooksChanged DEF BookInv
  <2>9. ASSUME ~overlapped PROVE NeatBooks(row', redated)
    <3>1. \A j \in Ids : row[j].kind = "entry" => row[j].status \in {row'[j].status, "DRAFT"}
      BY <2>3, <2>5, <2>6, <2>9, BookMerged DEF BookReady
    <3>2. \A j \in Ids \ redated : row[j].kind = "year" => row'[j].from = row[j].from /\ row'[j].to = row[j].to
      <4>1. CASE i \in redated
        BY <2>5, <2>3, <2>6, <4>1, BookMerged
      <4>2. CASE i \notin redated /\ row[i].kind = "year"
        <5>1. "to" \notin DOMAIN f
          BY <2>3, <2>9, <4>2 DEF BookReady
        <5> QED
          BY <2>3, <2>5, <2>6, <5>1, BookMerged
      <4>3. CASE row[i].kind # "year"
        BY <2>5, <4>3
      <4> QED
        BY <4>1, <4>2, <4>3
    <3> QED
      BY <2>7, <2>9, <3>1, <3>2, NeatChanged DEF BookInv
  <2>10. BookScript(row', Tail(todo[c])) /\ BookPrepared(row', redated, Tail(todo[c]))
    <3>1. CASE Tail(todo[c]) = <<>>
      <4>1. \A x : <<x>> # <<>> /\ <<CountEntries, x>> # <<>>
        BY ShortLists
      <4> QED
        BY <3>1, <4>1 DEF BookScript, BookPrepared
    <3>2. CASE row[i].kind = "year" /\ Tail(todo[c]) = <<Set(i, [closed |-> TRUE])>>
      <4>1. row'[i].kind = "year"
        BY <2>7, <3>2 DEF BookChange
      <4>2. BookSet(row', i, [closed |-> TRUE])
        BY <4>1 DEF BookSet, YearSet
      <4>3. BookStatement(row', Set(i, [closed |-> TRUE]))
        BY <4>2 DEF BookStatement
      <4>4. BookReady(row', redated, Set(i, [closed |-> TRUE]))
        BY <4>1, SetReady
      <4>5. \A x, y : (<<x>> = <<y>> => x = y) /\ <<x>> # <<CountEntries, y>>
        BY TwoAreNotOne
      <4>6. BookPrepared(row', redated, <<Set(i, [closed |-> TRUE])>>)
        BY <4>4, <4>5 DEF BookPrepared
      <4> QED
        BY <3>2, <4>3, <4>6 DEF BookScript
    <3> QED
      BY <2>3, <3>1, <3>2
  <2> QED
    BY <1>1, <2>1, <2>8, <2>9, <2>10, BookExecutes
<1> QED
  BY <1>2, <1>3

\* What another statement is of, which ends its call.
LEMMA BookLastIs ==
    ASSUME BookInv, NEW c \in Callers, ~Idle(c), Head(todo[c]).do \notin {"update", "countEntries"}
    PROVE  /\ BookStatement(row, Head(todo[c])) /\ Tail(todo[c]) = <<>>
           /\ ~overlapped => BookReady(row, redated, Head(todo[c]))
<1>1. BookScript(row, todo[c]) /\ todo[c] # <<>>
  BY DEF BookInv, Idle
<1>2. ASSUME NEW x, NEW y, todo[c] = <<x, y>> PROVE Head(todo[c]) = x
  BY <1>2, ShortLists
<1>3. ~Numbering(row, todo[c])
  <2>1. ASSUME NEW e, todo[c] = <<CountEntries, e>> PROVE FALSE
    <3>1. Head(todo[c]) = CountEntries
      BY <1>2, <2>1
    <3> QED
      BY <3>1 DEF CountEntries
  <2> QED
    BY <2>1 DEF Numbering
<1>4. ~Closing(row, todo[c])
  <2>1. ASSUME NEW y, todo[c] = <<Set(y, [periodsClosed |-> TRUE]), Set(y, [closed |-> TRUE])>> PROVE FALSE
    <3>1. Head(todo[c]) = Set(y, [periodsClosed |-> TRUE])
      BY <2>1, ShortLists
    <3> QED
      BY <3>1, Statements
  <2> QED
    BY <2>1 DEF Closing
<1>5. PICK e : todo[c] = <<e>> /\ BookStatement(row, e)
  BY <1>1, <1>3, <1>4 DEF BookScript
<1>6. Head(todo[c]) = e /\ Tail(todo[c]) = <<>>
  BY <1>5, ShortLists
<1>7. ~overlapped => BookReady(row, redated, e)
  BY <1>5 DEF BookInv, BookPrepared
<1> QED
  BY <1>5, <1>6, <1>7

\* After it nothing is left.
LEMMA NothingLeft ==
    ASSUME NEW tab, NEW but
    PROVE  BookScript(tab, <<>>) /\ BookPrepared(tab, but, <<>>)
<1>1. \A x : <<x>> # <<>> /\ <<CountEntries, x>> # <<>>
  BY ShortLists
<1> QED
  BY <1>1 DEF BookScript, BookPrepared

LEMMA BookDeletes ==
    ASSUME BookInv, NEW c \in Callers, DeleteRow(c), UNCHANGED redated
    PROVE  BookInv'
<1> DEFINE e == Head(todo[c])
<1>1. ~Idle(c) /\ e.do = "erase"
  BY DEF DeleteRow
<1>2. CASE Throw(c)
  BY <1>1, <1>2, BookThrows
<1>3. CASE ~Throw(c)
  <2>1. /\ row' = [j \in Ids |->
                     IF j = e.id THEN Gone
                     ELSE IF "parent" \in DOMAIN row[j] /\ row[j].parent = e.id
                          THEN [row[j] EXCEPT !.parent = 0] ELSE row[j]]
        /\ todo' = [todo EXCEPT ![c] = Tail(@)] /\ overlapped' = overlapped
    BY <1>3 DEF DeleteRow, Deletion
  <2>2. BookStatement(row, e) /\ Tail(todo[c]) = <<>>
    BY <1>1, BookLastIs
  <2>3. PICK i \in Ids : e = Erase(i) /\ OfAccount(row, i)
    <3> HIDE DEF e
    <3> QED
      BY <1>1, <2>2, Statements, EnterTells DEF BookStatement, Entering
  <2>4. e.id = i
    BY <2>3, Statements
  <2> HIDE DEF e
  <2>5. DOMAIN row' = Ids
    BY <2>1
  <2>6. \A j \in Ids : \/ j = i /\ row'[j] = Gone
                       \/ row'[j] = row[j]
                       \/ "parent" \in DOMAIN row[j] /\ row'[j] = [row[j] EXCEPT !.parent = 0]
    BY <2>1, <2>4
  <2>7. \A j \in Ids : OfBooks(row[j])
    BY DEF BookInv, BookRows
  <2>8. ASSUME NEW j \in Ids, row'[j] = [row[j] EXCEPT !.parent = 0]
        PROVE  /\ BookChange(row[j], row'[j])
               /\ row[j].kind = "entry" => row'[j].status = row[j].status
               /\ row[j].kind = "year" => row'[j].from = row[j].from /\ row'[j].to = row[j].to
    <3>1. /\ DOMAIN row'[j] = DOMAIN row[j]
          /\ \A x \in DOMAIN row[j] : x # "parent" => row'[j][x] = row[j][x]
      BY <2>8
    <3>2. row'[j].kind = row[j].kind
      BY <2>7, <3>1 DEF OfBooks
    <3>3. OfBooks(row'[j])
      BY <2>7, <3>1, <3>2 DEF OfBooks
    <3> QED
      BY <2>7, <3>1, <3>2, <3>3 DEF OfBooks, BookChange
  <2>9. BookChange(row[i], Gone) /\ row[i].kind \notin {"entry", "year"}
    BY <2>3 DEF BookChange, OfAccount, OfBooks, Gone
  <2>10. \A j \in Ids : BookChange(row[j], row'[j])
    BY <2>6, <2>7, <2>8, <2>9, BookSame
  <2>11. BookRows(row') /\ BooksGrow(row, row')
    BY <2>5, <2>10, BooksChanged DEF BookInv
  <2>12. /\ \A j \in Ids : row[j].kind = "entry" => row[j].status \in {row'[j].status, "DRAFT"}
         /\ \A j \in Ids \ redated : row[j].kind = "year" => row'[j].from = row[j].from /\ row'[j].to = row[j].to
    BY <2>6, <2>8, <2>9
  <2>13. ~overlapped => NeatBooks(row', redated)
    BY <2>10, <2>12, NeatChanged DEF BookInv
  <2> QED
    BY <1>1, <2>1, <2>2, <2>11, <2>13, NothingLeft, BookExecutes
<1> QED
  BY <1>2, <1>3
LEMMA BookCreates ==
    ASSUME BookInv, NEW c \in Callers, Create(c), UNCHANGED redated
    PROVE  BookInv'
<1> DEFINE e == Head(todo[c])
           n == NextId
<1>1. ~Idle(c) /\ e.do = "create" /\ Room
  BY DEF Create
<1>2. CASE Throw(c)
  BY <1>1, <1>2, BookThrows
<1>3. CASE ~Throw(c)
  <2>1. row' = [row EXCEPT ![n] = e.set] /\ todo' = [todo EXCEPT ![c] = Tail(@)] /\ overlapped' = overlapped
    BY <1>3 DEF Create
  <2>2. /\ BookStatement(row, e) /\ Tail(todo[c]) = <<>>
        /\ ~overlapped => BookReady(row, redated, e)
    BY <1>1, BookLastIs
  <2>3. PICK r : e = Insert(r) /\ BookInsert(r)
    <3> HIDE DEF e
    <3> QED
      BY <1>1, <2>2, Statements, EnterTells DEF BookStatement, Entering
  <2>4. e.set = r
    BY <2>3, Statements
  <2>5. n \in Ids /\ row[n].kind = "none"
    BY <1>1, NextIsFree DEF NoRow
  <2> HIDE DEF e, n
  <2>6. DOMAIN row' = Ids /\ row'[n] = r /\ \A j \in Ids \ {n} : row'[j] = row[j]
    BY <2>1, <2>4, <2>5 DEF BookInv, BookRows
  <2>7. OfBooks(r) /\ r.kind \in {"account", "year"}
    BY <2>3 DEF BookInsert, OfBooks
  <2>8. \A j \in Ids : row'[j].kind = "entry" <=> row[j].kind = "entry" /\ j # n
    BY <2>5, <2>6, <2>7
  <2>9. \A i, j \in Ids : Reverses(row', j, i) <=> Reverses(row, j, i)
    BY <2>5, <2>6, <2>7 DEF Reverses
  <2>10. BookRows(row')
    <3>1. ASSUME NEW i \in Ids, row'[i].kind = "entry"
          PROVE  /\ row'[i].status = "REVERSED" => \E j \in Ids : Reverses(row', j, i)
                 /\ row'[i].reverses # 0 =>
                      /\ row'[i].status \in {"POSTED", "REVERSED"}
                      /\ row'[i].reverses \in Ids /\ row'[row'[i].reverses].kind = "entry"
      <4>1. row'[i] = row[i] /\ row[i].kind = "entry"
        BY <2>6, <2>8, <3>1
      <4>2. /\ row[i].status = "REVERSED" => \E j \in Ids : Reverses(row, j, i)
            /\ row[i].reverses # 0 =>
                 /\ row[i].status \in {"POSTED", "REVERSED"}
                 /\ row[i].reverses \in Ids /\ row[row[i].reverses].kind = "entry"
        BY <4>1 DEF BookInv, BookRows
      <4>3. row[i].reverses # 0 => row'[row[i].reverses].kind = "entry"
        BY <4>2, <2>5, <2>6
      <4> QED
        BY <4>1, <4>2, <4>3, <2>9
    <3>2. \A i \in Ids : OfBooks(row'[i])
      BY <2>6, <2>7 DEF BookInv, BookRows
    <3> QED
      BY <2>6, <3>1, <3>2 DEF BookRows
  <2>11. BooksGrow(row, row')
    BY <2>5, <2>6 DEF BooksGrow, OfAccount
  <2>12. ASSUME ~overlapped PROVE NeatBooks(row', redated)
    <3>1. NeatBooks(row, redated)
      BY <2>12 DEF BookInv
    <3>2. ASSUME NEW i \in Ids, NEW j \in Ids, NEW k \in Ids, row'[i].kind = "entry", Reverses(row', j, i)
          PROVE  row'[i].status = "REVERSED" /\ (Reverses(row', k, i) => j = k)
      BY <2>6, <2>8, <2>9, <3>1, <3>2 DEF NeatBooks
    <3>3. r.kind = "year" => \A j \in Ids \ redated :
               row[j].kind = "year" => r.to < row[j].from \/ row[j].to < r.from
      BY <2>2, <2>3, <2>12 DEF BookReady
    <3>4. ASSUME NEW y \in Ids \ redated, NEW z \in Ids \ redated, row'[y].kind = "year",
                 row'[z].kind = "year", y # z
          PROVE  row'[y].to < row'[z].from \/ row'[z].to < row'[y].from
      <4>1. CASE y = n
        BY <2>6, <3>3, <3>4, <4>1
      <4>2. CASE z = n
        BY <2>6, <3>3, <3>4, <4>2
      <4>3. CASE y # n /\ z # n
        BY <2>6, <3>1, <3>4, <4>3 DEF NeatBooks
      <4> QED
        BY <4>1, <4>2, <4>3
    <3> QED
      BY <3>2, <3>4 DEF NeatBooks
  <2> QED
    BY <1>1, <2>1, <2>2, <2>10, <2>11, <2>12, NothingLeft, BookExecutes DEF n
<1> QED
  BY <1>2, <1>3

\* The insert of an entry, with the update of the one that it reverses.
LEMMA BookEnters ==
    ASSUME BookInv, NEW c \in Callers, InsertEntry(c), UNCHANGED redated
    PROVE  BookInv'
<1> DEFINE e == Head(todo[c])
           x == e.entry
           n == NextId
<1>1. ~Idle(c) /\ e.do = "enter" /\ Room
  BY DEF InsertEntry
<1>2. CASE Throw(c)
  BY <1>1, <1>2, BookThrows
<1>3. CASE ~Throw(c)
  <2>1. /\ row' = [Reversed(x.reverses) EXCEPT ![n] = x]
        /\ todo' = [todo EXCEPT ![c] = Tail(@)] /\ overlapped' = overlapped
    BY <1>3 DEF InsertEntry
  <2>2. /\ BookStatement(row, e) /\ Tail(todo[c]) = <<>>
        /\ ~overlapped => BookReady(row, redated, e)
    BY <1>1, BookLastIs
  <2>3. PICK y : e = Enter(y) /\ BookEntry(row, y)
    <3> HIDE DEF e
    <3> QED
      BY <1>1, <2>2, Statements, EnterTells DEF BookStatement, Entering
  <2>4. x = y
    BY <2>3, EnterTells
  <2>5. n \in Ids /\ row[n].kind = "none"
    BY <1>1, NextIsFree DEF NoRow
  <2>6. ~overlapped /\ y.reverses # 0 => row[y.reverses].status = "POSTED"
    BY <2>2, <2>3 DEF BookReady
  <2> HIDE DEF e, n, x
  <2>7. DOMAIN row = Ids /\ \A j \in Ids : OfBooks(row[j])
    BY DEF BookInv, BookRows
  <2>8. /\ OfBooks(y) /\ y.kind = "entry" /\ y.reverses # n
        /\ \/ y.reverses = 0 /\ y.status = "DRAFT"
           \/ y.reverses \in Ids /\ row[y.reverses].kind = "entry" /\ y.status = "POSTED"
    BY <2>3, <2>5, NoIdIsZero DEF BookEntry
  <2>9. /\ DOMAIN row' = Ids /\ row'[n] = y
        /\ \A j \in Ids \ {n, y.reverses} : row'[j] = row[j]
        /\ y.reverses # 0 => row'[y.reverses] = [row[y.reverses] EXCEPT !.status = "REVERSED"]
    <3>1. CASE y.reverses = 0
      BY <2>1, <2>4, <2>5, <2>7, <3>1 DEF Reversed
    <3>2. CASE y.reverses # 0
      <4>1. row' = [[row EXCEPT ![y.reverses].status = "REVERSED"] EXCEPT ![n] = y]
        BY <2>1, <2>4, <3>2 DEF Reversed
      <4> QED
        BY <2>5, <2>7, <2>8, <3>2, <4>1
    <3> QED
      BY <3>1, <3>2
  <2>10. y.reverses # 0 => /\ OfBooks(row'[y.reverses]) /\ row'[y.reverses].kind = "entry"
                           /\ row'[y.reverses].status = "REVERSED"
                           /\ row'[y.reverses].reverses = row[y.reverses].reverses
    <3> SUFFICES ASSUME y.reverses # 0
                 PROVE  /\ OfBooks(row'[y.reverses]) /\ row'[y.reverses].kind = "entry"
                        /\ row'[y.reverses].status = "REVERSED"
                        /\ row'[y.reverses].reverses = row[y.reverses].reverses
      OBVIOUS
    <3>1. row[y.reverses].kind = "entry" /\ OfBooks(row[y.reverses])
      BY <2>7, <2>8
    <3> QED
      BY <2>9, <3>1 DEF OfBooks
  <2>11. \A j \in Ids \ {n} : /\ row'[j].kind = row[j].kind
                              /\ row[j].kind = "entry" => row'[j].reverses = row[j].reverses
    BY <2>8, <2>9, <2>10, NoIdIsZero
  <2>12. \A i, j \in Ids : Reverses(row', j, i) <=> Reverses(row, j, i) \/ (j = n /\ y.reverses = i)
    BY <2>5, <2>8, <2>9, <2>11 DEF Reverses
  <2>13. BookRows(row')
    <3>1. ASSUME NEW i \in Ids, row'[i].kind = "entry"
          PROVE  /\ row'[i].status = "REVERSED" => \E j \in Ids : Reverses(row', j, i)
                 /\ row'[i].reverses # 0 =>
                      /\ row'[i].status \in {"POSTED", "REVERSED"}
                      /\ row'[i].reverses \in Ids /\ row'[row'[i].reverses].kind = "entry"
      <4>1. CASE i = n
        <5>1. y.reverses \in Ids => y.reverses # n /\ row'[y.reverses].kind = "entry"
          BY <2>8, <2>11, NoIdIsZero
        <5> QED
          BY <2>8, <2>9, <4>1, <5>1
      <4>2. CASE i # n
        <5>1. row[i].kind = "entry" /\ row'[i].reverses = row[i].reverses
          BY <2>11, <3>1, <4>2
        <5>2. /\ row[i].status = "REVERSED" => \E j \in Ids : Reverses(row, j, i)
              /\ row[i].reverses # 0 =>
                   /\ row[i].status \in {"POSTED", "REVERSED"}
                   /\ row[i].reverses \in Ids /\ row[row[i].reverses].kind = "entry"
          BY <5>1 DEF BookInv, BookRows
        <5>3. row[i].reverses # 0 => row'[row[i].reverses].kind = "entry"
          BY <2>5, <2>11, <5>2
        <5>4. CASE i = y.reverses
          <6>1. i # 0
            BY NoIdIsZero
          <6>2. row'[i].status = "REVERSED" /\ Reverses(row', n, i)
            BY <2>10, <2>12, <2>5, <5>4, <6>1
          <6> QED
            BY <2>5, <5>1, <5>2, <5>3, <6>2
        <5>5. CASE i # y.reverses
          BY <2>9, <2>12, <4>2, <5>1, <5>2, <5>3, <5>5
        <5> QED
          BY <5>4, <5>5
      <4> QED
        BY <4>1, <4>2
    <3>2. \A i \in Ids : OfBooks(row'[i])
      BY <2>7, <2>8, <2>9, <2>10, NoIdIsZero
    <3> QED
      BY <2>9, <3>1, <3>2 DEF BookRows
  <2>14. BooksGrow(row, row')
    BY <2>5, <2>11 DEF BooksGrow, OfAccount
  <2>15. ASSUME ~overlapped PROVE NeatBooks(row', redated)
    <3>1. NeatBooks(row, redated)
      BY <2>15 DEF BookInv
    <3>2. ASSUME NEW i \in Ids, NEW j \in Ids, NEW k \in Ids, row'[i].kind = "entry", Reverses(row', j, i)
          PROVE  row'[i].status = "REVERSED" /\ (Reverses(row', k, i) => j = k)
      <4>1. i # n
        <5>1. ASSUME Reverses(row, j, n) PROVE FALSE
          BY <2>5, <5>1, NoIdIsZero DEF BookInv, BookRows, Reverses
        <5> QED
          BY <2>8, <2>12, <3>2, <5>1
      <4>2. row[i].kind = "entry"
        BY <2>11, <3>2, <4>1
      <4>3. CASE i = y.reverses
        <5>1. i # 0
          BY NoIdIsZero
        <5>2. row'[i].status = "REVERSED" /\ row[i].status = "POSTED"
          BY <2>6, <2>10, <2>15, <4>3, <5>1
        <5>3. \A h \in Ids : ~Reverses(row, h, i)
          BY <3>1, <4>2, <5>2 DEF NeatBooks
        <5> QED
          BY <2>12, <3>2, <5>2, <5>3
      <4>4. CASE i # y.reverses
        BY <2>9, <2>12, <3>1, <3>2, <4>1, <4>2, <4>4 DEF NeatBooks
      <4> QED
        BY <4>3, <4>4
    <3>3. \A h \in Ids : row'[h].kind = "year" => row'[h] = row[h]
      BY <2>8, <2>9, <2>10, NoIdIsZero
    <3>4. ASSUME NEW h \in Ids \ redated, NEW z \in Ids \ redated, row'[h].kind = "year",
                 row'[z].kind = "year", h # z
          PROVE  row'[h].to < row'[z].from \/ row'[z].to < row'[h].from
      BY <3>1, <3>3, <3>4 DEF NeatBooks
    <3> QED
      BY <3>2, <3>4 DEF NeatBooks
  <2> QED
    BY <1>1, <2>1, <2>2, <2>13, <2>14, <2>15, NothingLeft, BookExecutes
<1> QED
  BY <1>2, <1>3
\* The number of the entry is counted.
LEMMA BookCounts ==
    ASSUME BookInv, NEW c \in Callers, ReadNumber(c), UNCHANGED redated
    PROVE  BookInv'
<1> DEFINE n == Cardinality({i \in Ids : row[i].kind = "entry"})
<1>1. /\ ~Idle(c) /\ Head(todo[c]).do = "countEntries" /\ UNCHANGED <<row, begun, overlapped, died>>
      /\ todo' = [todo EXCEPT ![c] = [Tail(todo[c]) EXCEPT ![1].entry.number = n + 1]]
  BY DEF ReadNumber, Read
<1>2. BookScript(row, todo[c]) /\ todo[c] # <<>>
  BY <1>1 DEF BookInv, Idle
<1>3. ASSUME NEW e, todo[c] = <<e>> PROVE ~BookStatement(row, e)
  <2>1. e.do = "countEntries"
    BY <1>1, <1>3, ShortLists
  <2> QED
    BY <2>1, Statements, EnterTells DEF BookStatement, Entering
<1>4. ~Closing(row, todo[c])
  <2>1. ASSUME NEW y, todo[c] = <<Set(y, [periodsClosed |-> TRUE]), Set(y, [closed |-> TRUE])>> PROVE FALSE
    <3>1. Head(todo[c]) = Set(y, [periodsClosed |-> TRUE])
      BY <2>1, ShortLists
    <3> QED
      BY <1>1, <3>1, Statements
  <2> QED
    BY <2>1 DEF Closing
<1>5. PICK e : todo[c] = <<CountEntries, e>> /\ Entering(row, e)
  BY <1>2, <1>3, <1>4 DEF BookScript, Numbering
<1>6. PICK x : e = Enter(x) /\ BookEntry(row, x)
  BY <1>5 DEF Entering
<1>7. PICK y : y = [x EXCEPT !.number = n + 1]
  OBVIOUS
<1>8. BookEntry(row, y) /\ y.reverses = x.reverses
  BY <1>6, <1>7 DEF BookEntry, OfBooks
<1>9. [Tail(todo[c]) EXCEPT ![1].entry.number = n + 1] = <<Enter(y)>>
  <2>1. Tail(todo[c]) = <<e>>
    BY <1>5, ShortLists
  <2>2. [e EXCEPT !.entry.number = n + 1] = Enter(y)
    BY <1>6, <1>7 DEF Enter
  <2>3. PICK then : then = [e EXCEPT !.entry.number = n + 1]
    OBVIOUS
  <2> HIDE DEF n
  <2>4. [<<e>> EXCEPT ![1].entry.number = n + 1] = <<[e EXCEPT !.entry.number = n + 1]>>
    OBVIOUS
  <2> QED
    BY <2>1, <2>2, <2>4
<1>10. BookScript(row', <<Enter(y)>>)
  BY <1>1, <1>8 DEF BookScript, BookStatement, Entering
<1>11. ASSUME ~overlapped PROVE BookPrepared(row', redated, <<Enter(y)>>)
  <2>1. BookReady(row, redated, Enter(x))
    BY <1>5, <1>6, <1>11 DEF BookInv, BookPrepared
  <2>2. BookReady(row, redated, Enter(y))
    <3>1. x.reverses # 0 => row[x.reverses].status = "POSTED"
      BY <2>1 DEF BookReady
    <3> QED
      BY <1>8, <3>1, EnterReady
  <2>3. \A a, b : (<<a>> = <<b>> => a = b) /\ <<a>> # <<CountEntries, b>>
    BY TwoAreNotOne
  <2> QED
    BY <1>1, <2>2, <2>3 DEF BookPrepared
<1>12. BooksGrow(row, row')
  BY <1>1 DEF BooksGrow, OfAccount
<1> QED
  BY <1>1, <1>9, <1>10, <1>11, <1>12, BookExecutes DEF BookInv

-----------------------------------------------------------------------------
\* The books are neat at first,
LEMMA BookStart == BookInit => BookInv
<1> SUFFICES ASSUME BookInit PROVE BookInv
  OBVIOUS
<1>1. BookRows(row) /\ NeatBooks(row, redated)
  BY BookAssumption DEF BookInit
<1>2. DOMAIN todo = Callers /\ \A c \in Callers : todo[c] = <<>>
  BY DEF BookInit, RowsInit
<1> QED
  BY <1>1, <1>2, NothingLeft DEF BookInv, OneCall, Idle

\* and every step keeps them so.
LEMMA BookStep ==
    ASSUME BookInv, BookNext
    PROVE  BookInv'
<1>1. ASSUME NEW c \in Callers, BookCall(c) PROVE BookInv'
  <2>1. CASE CreateAccount(c) \/ CreateEntry(c) \/ CreateYear(c)
    BY <2>1, CreateAccountKeeps, CreateEntryKeeps, CreateYearKeeps
  <2>2. ASSUME NEW i \in Ids,
               \/ UpdateAccount(c, i) \/ DeleteAccount(c, i) \/ PostEntry(c, i)
               \/ ReverseEntry(c, i) \/ UpdateYear(c, i) \/ CloseYear(c, i)
        PROVE  BookInv'
    BY <2>2, AccountsKeep, PostEntryKeeps, ReverseEntryKeeps, UpdateYearKeeps, CloseYearKeeps
  <2> QED
    BY <1>1, <2>1, <2>2 DEF BookCall
<1>2. ASSUME NEW c \in Callers, UNCHANGED redated,
             Update(c) \/ Create(c) \/ ReadNumber(c) \/ InsertEntry(c) \/ DeleteRow(c) \/ Die(c)
      PROVE  BookInv'
  BY <1>2, BookUpdates, BookCreates, BookCounts, BookEnters, BookDeletes, BookThrows DEF Die
<1> QED
  BY <1>1, <1>2 DEF BookNext

LEMMA BookStutter ==
    ASSUME BookInv, UNCHANGED bookVars
    PROVE  BookInv'
BY DEF BookInv, bookVars, rowVars, OneCall, Idle

\* What the books promise follows.
LEMMA BooksFollow == BookInv => BooksHold
<1> SUFFICES ASSUME BookInv PROVE BooksHold
  OBVIOUS
<1>1. ReversalsMatch
  <2> SUFFICES ASSUME NEW i \in Ids, row[i].kind = "entry"
               PROVE  LET by == {j \in Ids : row[j].kind = "entry" /\ row[j].reverses = i}
                      IN /\ row[i].status = "REVERSED" => by # {}
                         /\ ~overlapped => /\ by # {} => row[i].status = "REVERSED"
                                           /\ Cardinality(by) <= 1
                         /\ \A j \in by : row[j].status \in {"POSTED", "REVERSED"}
    BY DEF ReversalsMatch
  <2> DEFINE by == {j \in Ids : row[j].kind = "entry" /\ row[j].reverses = i}
  <2>1. \A j : j \in by <=> j \in Ids /\ Reverses(row, j, i)
    BY DEF Reverses
  <2>2. row[i].status = "REVERSED" => by # {}
    BY <2>1 DEF BookInv, BookRows
  <2>3. \A j \in by : row[j].status \in {"POSTED", "REVERSED"}
    BY NoIdIsZero DEF BookInv, BookRows
  <2>4. ASSUME ~overlapped PROVE (by # {} => row[i].status = "REVERSED") /\ Cardinality(by) <= 1
    <3> HIDE DEF by
    <3>1. by # {} => row[i].status = "REVERSED"
      BY <2>1, <2>4 DEF BookInv, NeatBooks
    <3>2. \A j, k \in by : j = k
      BY <2>1, <2>4 DEF BookInv, NeatBooks
    <3>3. CASE by = {}
      BY <3>1, <3>3, FS_EmptySet
    <3>4. ASSUME NEW j \in by PROVE Cardinality(by) = 1
      <4>1. by = {j}
        BY <3>2, <3>4
      <4>2. Cardinality({j}) = 1
        BY FS_Singleton
      <4> QED
        BY <4>1, <4>2
    <3> QED
      BY <3>1, <3>3, <3>4
  <2> QED
    BY <2>2, <2>3, <2>4
<1>2. YearsDisjoint
  BY DEF BookInv, NeatBooks, YearsDisjoint
<1> QED
  BY <1>1, <1>2 DEF BooksHold

\* In a behaviour that exercises the books.
BookPart == part = "books" => BookInv
LEMMA BookPartStart == ServicesInit => BookPart
BY BookStart DEF ServicesInit, BookPart
LEMMA BookPartStep == BookPart /\ [ServicesNext]_serviceVars => BookPart'
<1> SUFFICES ASSUME BookPart, [ServicesNext]_serviceVars, part' = "books" PROVE BookInv'
  BY DEF BookPart
<1>1. CASE ServicesNext
  <2>1. part = "books" /\ BookNext
    BY <1>1 DEF ServicesNext
  <2> QED
    BY <2>1, BookStep DEF BookPart
<1>2. CASE UNCHANGED serviceVars
  <2>1. part = "books" /\ UNCHANGED bookVars
    BY <1>2 DEF serviceVars, bookVars
  <2> QED
    BY <2>1, BookStutter DEF BookPart
<1> QED
  BY <1>1, <1>2

\* Whatever accounts are moved, entries posted and reversed, and whichever
\* calls overlap or die, only what a posted entry reverses is REVERSED; without
\* overlaps all of it is, and is reversed once, and the fiscal years whose
\* dates nobody changed share no day (JournalEntriesService's reverse,
\* FiscalYearsService's create).
THEOREM BooksAlwaysHold == ServicesSpec => [](part = "books" => BooksHold)
<1>1. BookPart => (part = "books" => BooksHold)
  BY BooksFollow DEF BookPart
<1> QED
  BY <1>1, BookPartStart, BookPartStep, PTL DEF ServicesSpec
-----------------------------------------------------------------------------
(* The logs of executions (Workflows).                                      *)

\* A list is taken from its front.
LEMMA InFront ==
    ASSUME NEW S, NEW s \in Seq(S), NEW x
    PROVE  <<x>> \o s # <<>> /\ Head(<<x>> \o s) = x /\ Tail(<<x>> \o s) = s
<1> DEFINE T == S \cup {x}
<1>1. PICK one : one = <<x>>
  OBVIOUS
<1>2. one \in Seq(T) /\ Len(one) = 1 /\ one[1] = x
  BY <1>1
<1>3. s \in Seq(T)
  OBVIOUS
<1> HIDE DEF T
<1>4. PICK all : all = one \o s
  OBVIOUS
<1>5. /\ all \in Seq(T) /\ Len(all) = Len(one) + Len(s)
      /\ \A k \in 1 .. Len(one) + Len(s) : all[k] = IF k <= Len(one) THEN one[k] ELSE s[k - Len(one)]
  BY <1>2, <1>3, <1>4, ConcatProperties
<1>6. Len(s) \in Nat
  BY <1>3, LenProperties
<1>7. Len(all) = Len(s) + 1 /\ all[1] = x /\ \A k \in 1 .. Len(s) : all[k + 1] = s[k]
  BY <1>2, <1>5, <1>6
<1>8. all # <<>> /\ Head(all) = x
  BY <1>5, <1>6, <1>7, EmptySeq
<1>9. Tail(all) \in Seq(T) /\ Len(Tail(all)) = Len(all) - 1 /\ \A k \in 1 .. Len(Tail(all)) : Tail(all)[k] = all[k + 1]
  BY <1>5, <1>8, HeadTailProperties
<1>10. Tail(all) = s
  BY <1>3, <1>6, <1>7, <1>9, SeqEqual
<1> QED
  BY <1>1, <1>4, <1>8, <1>10

\* Its first element is changed.
LEMMA FrontChanged ==
    ASSUME NEW S, NEW s \in Seq(S), NEW x, NEW y
    PROVE  [<<x>> \o s EXCEPT ![1] = y] = <<y>> \o s
<1> DEFINE T == S \cup {x, y}
<1>1. PICK one : one = <<x>>
  OBVIOUS
<1>2. PICK two : two = <<y>>
  OBVIOUS
<1>3. /\ one \in Seq(T) /\ Len(one) = 1 /\ one[1] = x
      /\ two \in Seq(T) /\ Len(two) = 1 /\ two[1] = y
      /\ y \in T
  BY <1>1, <1>2
<1>4. s \in Seq(T)
  OBVIOUS
<1> HIDE DEF T
<1>5. PICK q : q = one \o s
  OBVIOUS
<1>6. PICK r : r = two \o s
  OBVIOUS
<1>15. /\ q \in Seq(T) /\ Len(q) = Len(one) + Len(s)
       /\ \A k \in 1 .. Len(one) + Len(s) : q[k] = IF k <= Len(one) THEN one[k] ELSE s[k - Len(one)]
  BY <1>3, <1>4, <1>5, ConcatProperties
<1>16. /\ r \in Seq(T) /\ Len(r) = Len(two) + Len(s)
       /\ \A k \in 1 .. Len(two) + Len(s) : r[k] = IF k <= Len(two) THEN two[k] ELSE s[k - Len(two)]
  BY <1>3, <1>4, <1>6, ConcatProperties
<1>17. Len(s) \in Nat
  BY <1>4, LenProperties
<1>7. Len(q) = 1 + Len(s) /\ Len(r) = 1 + Len(s) /\ r[1] = y
  BY <1>3, <1>15, <1>16, <1>17
<1>8. \A k \in 1 .. Len(s) : q[k + 1] = s[k] /\ r[k + 1] = s[k]
  BY <1>3, <1>15, <1>16, <1>17
<1>9. PICK then : then = [q EXCEPT ![1] = y]
  OBVIOUS
<1>10. then \in Seq(T) /\ Len(then) = Len(q) /\ then[1] = y /\ \A k \in 2 .. Len(q) : then[k] = q[k]
  BY <1>3, <1>7, <1>15, <1>17, <1>9
<1>11. \A k \in 2 .. Len(q) : q[k] = r[k]
  <2> SUFFICES ASSUME NEW k \in 2 .. Len(q) PROVE q[k] = r[k]
    OBVIOUS
  <2>1. k - 1 \in 1 .. Len(s) /\ (k - 1) + 1 = k
    BY <1>7, <1>17
  <2> QED
    BY <1>8, <2>1
<1>12. \A k \in 1 .. Len(then) : then[k] = r[k]
  BY <1>7, <1>10, <1>11
<1>13. then = r
  BY <1>7, <1>10, <1>12, <1>15, <1>16, SeqEqual
<1> QED
  BY <1>1, <1>2, <1>5, <1>6, <1>9, <1>13

\* The elements of a set, in some order.
LEMMA ListOfSet ==
    ASSUME NEW S, IsFiniteSet(S)
    PROVE  SetToSeq(S) \in Seq(S)
<1>1. PICK n \in Nat : ExistsBijection(1 .. n, S)
  BY FS_NatBijection
<1>2. PICK f : f \in Bijection(1 .. n, S)
  BY <1>1 DEF ExistsBijection
<1>3. f \in [1 .. n -> S] /\ \A a, b \in 1 .. n : f[a] = f[b] => a = b
  BY <1>2 DEF Bijection, Injection, IsInjective
<1>4. Cardinality(S) = n
  BY <1>1, FS_CountingElements
<1>5. f \in [1 .. Cardinality(S) -> S] /\ IsInjective(f)
  BY <1>3, <1>4 DEF IsInjective
<1>6. SetToSeq(S) \in [1 .. Cardinality(S) -> S]
  BY <1>5 DEF SetToSeq
<1> QED
  BY <1>4, <1>6

\* What a call has left: the definitions it will execute, with their actions as
\* they were when the event came,
OfDefinition(tab, w) == tab[w].kind \in {"workflow", "gone"}
Executions(tab) ==
    {x \in [do : {"enter"}, workflow : Ids, actions : Seq(STRING), conditional : BOOLEAN] :
        /\ OfDefinition(tab, x.workflow)
        /\ tab[x.workflow].kind = "workflow" => x.actions = tab[x.workflow].actions}
\* one that runs, as its log says,
AllActions(tab, i) == Len(tab[tab[i].of].actions)
Acting(tab, i, h) == \E left \in Seq(STRING) :
    h = [do |-> "act", log |-> i, left |-> left] /\ ~tab[i].skipped /\ tab[i].done + Len(left) = AllActions(tab, i)
Settling(tab, i, h) ==
    \/ h = Skip(i) /\ tab[i].done = 0
    \/ h = Settle(i, "SUCCESS") /\ ~tab[i].skipped /\ tab[i].done = AllActions(tab, i)
    \/ h = Settle(i, "FAILED") /\ tab[i].done <= AllActions(tab, i)
IsPending(tab, i) == tab[i].kind = "log" /\ tab[i].status = "PENDING"
Running(tab, i, h) == IsPending(tab, i) /\ (Acting(tab, i, h) \/ Settling(tab, i, h))
\* and what is written of a definition.
Editing(tab, e) ==
    \/ \E w \in Ids : \E f : /\ OfDefinition(tab, w) /\ e = Set(w, f)
                             /\ DOMAIN f \cap {"kind", "actions", "conditional", "status"} = {}
    \/ \E w \in Ids : OfDefinition(tab, w) /\ e = Erase(w)
    \/ \E r : e = Insert(r) /\ OfWorkflows(r) /\ r.kind = "workflow"
WorkflowScript(tab, q) ==
    \/ q \in Seq(Executions(tab))
    \/ \E e : q = <<e>> /\ Editing(tab, e)
    \/ \E i \in Ids : \E h : \E s \in Seq(Executions(tab)) : q = <<h>> \o s /\ Running(tab, i, h)

\* A list that tells of a log.
TellsOf(q, i) == q # <<>> /\ \/ Head(q).do = "act" /\ Head(q).log = i
                             \/ Head(q).do = "update" /\ i \in Head(q).ids

WorkflowInv ==
    /\ DOMAIN todo = Callers /\ WorkflowRows(row)
    /\ \A c \in Callers : WorkflowScript(row, todo[c])
    /\ \A i \in Ids : row[i].kind = "log" =>
         /\ \A c, d \in Callers : TellsOf(todo[c], i) /\ TellsOf(todo[d], i) => c = d
         /\ row[i].status = "PENDING" => died \/ \E c \in Callers : TellsOf(todo[c], i)
-----------------------------------------------------------------------------
\* How a list of statements begins: the next definition to execute, a statement
\* of its own, or the step that an execution is at.
ExecutingNow(tab, q) ==
    /\ Head(q) \in Executions(tab) /\ Head(q).do = "enter"
    /\ Tail(q) \in Seq(Executions(tab))
EditingNow(tab, q) ==
    Editing(tab, Head(q)) /\ Tail(q) = <<>> /\ Head(q).do \in {"update", "erase", "create"}
RunningNow(tab, q) ==
    \E i \in Ids : Running(tab, i, Head(q)) /\ Tail(q) \in Seq(Executions(tab))

LEMMA RunningTells ==
    ASSUME NEW tab, NEW i, NEW h, Running(tab, i, h)
    PROVE  \/ h.do = "act" /\ h.log = i /\ Acting(tab, i, h)
           \/ h.do = "update" /\ h.ids = {i} /\ Settling(tab, i, h)
<1>1. CASE Acting(tab, i, h)
  BY <1>1 DEF Acting
<1>2. CASE Settling(tab, i, h)
  BY <1>2 DEF Settling, Settle, Skip, Set
<1> QED
  BY <1>1, <1>2 DEF Running

LEMMA EditingTells ==
    ASSUME NEW tab, NEW e, Editing(tab, e)
    PROVE  \/ e.do = "update" /\ \E w \in Ids : \E f :
                /\ OfDefinition(tab, w) /\ e = Set(w, f) /\ e.ids = {w} /\ e.set = f
                /\ DOMAIN f \cap {"kind", "actions", "conditional", "status"} = {}
           \/ e.do = "erase" /\ \E w \in Ids : OfDefinition(tab, w) /\ e = Erase(w) /\ e.id = w
           \/ e.do = "create" /\ OfWorkflows(e.set) /\ e.set.kind = "workflow"
<1>1. CASE \E w \in Ids : \E f : /\ OfDefinition(tab, w) /\ e = Set(w, f)
                                 /\ DOMAIN f \cap {"kind", "actions", "conditional", "status"} = {}
  BY <1>1, Statements
<1>2. CASE \E w \in Ids : OfDefinition(tab, w) /\ e = Erase(w)
  BY <1>2, Statements
<1>3. CASE \E r : e = Insert(r) /\ OfWorkflows(r) /\ r.kind = "workflow"
  BY <1>3, Statements
<1> QED
  BY <1>1, <1>2, <1>3 DEF Editing

LEMMA ScriptBegins ==
    ASSUME NEW tab, NEW q, WorkflowScript(tab, q), q # <<>>
    PROVE  ExecutingNow(tab, q) \/ EditingNow(tab, q) \/ RunningNow(tab, q)
<1>1. CASE q \in Seq(Executions(tab))
  <2>1. Head(q) \in Executions(tab) /\ Tail(q) \in Seq(Executions(tab))
    BY <1>1, HeadTailProperties
  <2>2. Head(q).do = "enter"
    BY <2>1 DEF Executions
  <2> QED
    BY <2>1, <2>2 DEF ExecutingNow
<1>2. ASSUME NEW e, q = <<e>>, Editing(tab, e) PROVE EditingNow(tab, q)
  <2>1. Head(q) = e /\ Tail(q) = <<>>
    BY <1>2, ShortLists
  <2>2. e.do \in {"update", "erase", "create"}
    BY <1>2, EditingTells
  <2> QED
    BY <1>2, <2>1, <2>2 DEF EditingNow
<1>3. ASSUME NEW i \in Ids, NEW h, NEW s \in Seq(Executions(tab)), q = <<h>> \o s, Running(tab, i, h)
      PROVE  RunningNow(tab, q)
  <2>1. Head(q) = h /\ Tail(q) = s
    BY <1>3, InFront
  <2> QED
    BY <1>3, <2>1 DEF RunningNow
<1> QED
  BY <1>1, <1>2, <1>3 DEF WorkflowScript

\* A call tells of logs that are PENDING.
LEMMA ToldIsPending ==
    ASSUME NEW tab, NEW q, WorkflowScript(tab, q), NEW i \in Ids, TellsOf(q, i)
    PROVE  IsPending(tab, i) \/ OfDefinition(tab, i)
<1>1. \/ Head(q).do = "act" /\ Head(q).log = i
      \/ Head(q).do = "update" /\ i \in Head(q).ids
  BY DEF TellsOf
<1>5. q # <<>>
  BY DEF TellsOf
<1>2. CASE ExecutingNow(tab, q)
  BY <1>1, <1>2 DEF ExecutingNow
<1>3. CASE EditingNow(tab, q)
  <2>1. Head(q).do # "act" /\ Head(q).do = "update"
    BY <1>1, <1>3 DEF EditingNow
  <2>2. PICK w \in Ids : OfDefinition(tab, w) /\ Head(q).ids = {w}
    BY <1>3, <2>1, EditingTells DEF EditingNow
  <2> QED
    BY <1>1, <2>1, <2>2
<1>4. CASE RunningNow(tab, q)
  <2>1. PICK j \in Ids : Running(tab, j, Head(q))
    BY <1>4 DEF RunningNow
  <2>2. j = i
    BY <1>1, <2>1, RunningTells
  <2> QED
    BY <2>1, <2>2 DEF Running
<1> QED
  BY <1>2, <1>3, <1>4, <1>5, ScriptBegins

\* What no statement changes: definitions and logs stay what they are, and
\* definitions keep their actions.
Follows(tab, then) ==
    /\ WorkflowRows(then)
    /\ \A w \in Ids : OfDefinition(tab, w) =>
          /\ OfDefinition(then, w)
          /\ then[w].kind = "workflow" => tab[w].kind = "workflow" /\ then[w].actions = tab[w].actions
    /\ \A i \in Ids : tab[i].kind = "log" => then[i].kind = "log" /\ then[i].of = tab[i].of

LEMMA SameActions ==
    ASSUME NEW tab, NEW then, WorkflowRows(tab), Follows(tab, then), NEW i \in Ids, tab[i].kind = "log"
    PROVE  AllActions(then, i) = AllActions(tab, i)
<1>1. tab[i].of \in Ids /\ tab[tab[i].of].kind = "workflow"
  BY DEF WorkflowRows, LogTells
<1>2. then[i].kind = "log" /\ then[i].of = tab[i].of
  BY DEF Follows
<1>3. then[then[i].of].kind = "workflow"
  BY <1>2 DEF Follows, WorkflowRows, LogTells
<1>4. then[tab[i].of].actions = tab[tab[i].of].actions
  BY <1>1, <1>2, <1>3 DEF Follows, OfDefinition
<1> QED
  BY <1>2, <1>4 DEF AllActions

LEMMA ExecutionsKept ==
    ASSUME NEW tab, NEW then, Follows(tab, then)
    PROVE  Executions(tab) \subseteq Executions(then)
BY DEF Follows, Executions

LEMMA ListsKept ==
    ASSUME NEW tab, NEW then, Follows(tab, then), NEW s \in Seq(Executions(tab))
    PROVE  s \in Seq(Executions(then))
<1>1. Executions(tab) \subseteq Executions(then)
  BY ExecutionsKept
<1> QED
  BY <1>1, SeqMonotonic

\* A call whose log is left alone keeps what it is about.
LEMMA FlowKept ==
    ASSUME NEW tab, NEW then, WorkflowRows(tab), Follows(tab, then), NEW q, WorkflowScript(tab, q),
           \A i \in Ids : tab[i].kind = "log" /\ TellsOf(q, i) => then[i] = tab[i]
    PROVE  WorkflowScript(then, q)
<1>1. CASE q \in Seq(Executions(tab))
  BY <1>1, ListsKept DEF WorkflowScript
<1>2. ASSUME NEW e, q = <<e>>, Editing(tab, e) PROVE WorkflowScript(then, q)
  <2>1. \A w \in Ids : OfDefinition(tab, w) => OfDefinition(then, w)
    BY DEF Follows
  <2>2. Editing(then, e)
    BY <1>2, <2>1 DEF Editing
  <2> QED
    BY <1>2, <2>2 DEF WorkflowScript
<1>3. ASSUME NEW i \in Ids, NEW h, NEW s \in Seq(Executions(tab)), q = <<h>> \o s, Running(tab, i, h)
      PROVE  WorkflowScript(then, q)
  <2>1. q # <<>> /\ Head(q) = h /\ s \in Seq(Executions(then))
    BY <1>3, InFront, ListsKept
  <2>2. TellsOf(q, i)
    BY <1>3, <2>1, RunningTells DEF TellsOf
  <2>3. then[i] = tab[i] /\ tab[i].kind = "log"
    BY <1>3, <2>2 DEF Running, IsPending
  <2>4. AllActions(then, i) = AllActions(tab, i)
    BY <2>3, SameActions
  <2>5. Running(then, i, h)
    BY <1>3, <2>3, <2>4 DEF Running, IsPending, Acting, Settling
  <2> QED
    BY <1>3, <2>1, <2>5 DEF WorkflowScript
<1>4. CASE \E e : q = <<e>> /\ Editing(tab, e)
  <2>1. PICK e : q = <<e>> /\ Editing(tab, e)
    BY <1>4
  <2> QED
    BY <2>1, <1>2
<1>5. CASE \E i \in Ids : \E h : \E s \in Seq(Executions(tab)) : q = <<h>> \o s /\ Running(tab, i, h)
  <2>1. PICK i \in Ids : \E h : \E s \in Seq(Executions(tab)) : q = <<h>> \o s /\ Running(tab, i, h)
    BY <1>5
  <2>2. PICK h : \E s \in Seq(Executions(tab)) : q = <<h>> \o s /\ Running(tab, i, h)
    BY <2>1
  <2>3. PICK s \in Seq(Executions(tab)) : q = <<h>> \o s /\ Running(tab, i, h)
    BY SMTT(60), <2>2
  <2> QED
    BY <2>3, <1>3
<1> QED
  BY <1>1, <1>4, <1>5 DEF WorkflowScript
-----------------------------------------------------------------------------
\* What becomes of a log when c goes from a list of statements to the rest: it
\* is new, c tells of it, or it is as it was; and it is told of as long as it is
\* PENDING.
Logged(c, rest) ==
    \A i \in Ids : row'[i].kind = "log" =>
        /\ row[i] = NoRow \/ TellsOf(todo[c], i) \/ row'[i] = row[i]
        /\ TellsOf(rest, i) => row[i] = NoRow \/ TellsOf(todo[c], i)
        /\ row'[i].status = "PENDING" /\ (row[i] = NoRow \/ TellsOf(todo[c], i)) => died' \/ TellsOf(rest, i)

LEMMA WorkflowMoves ==
    ASSUME WorkflowInv, NEW c \in Callers, NEW rest, todo' = [todo EXCEPT ![c] = rest], died => died',
           Follows(row, row'), WorkflowScript(row', rest), Logged(c, rest)
    PROVE  WorkflowInv'
<1>1. /\ DOMAIN todo' = Callers /\ todo'[c] = rest
      /\ \A d \in Callers \ {c} : todo'[d] = todo[d]
  BY DEF WorkflowInv
<1>2. WorkflowRows(row) /\ WorkflowRows(row') /\ \A i \in Ids : row[i] = NoRow => row[i].kind = "none"
  BY DEF WorkflowInv, Follows, NoRow
<1>3. ASSUME NEW d \in Callers, NEW i \in Ids, TellsOf(todo[d], i) PROVE row[i] # NoRow
  <2>1. IsPending(row, i) \/ OfDefinition(row, i)
    BY <1>3, ToldIsPending DEF WorkflowInv
  <2> QED
    BY <1>2, <2>1 DEF IsPending, OfDefinition
<1>4. ASSUME NEW d \in Callers \ {c} PROVE WorkflowScript(row', todo'[d])
  <2>1. ASSUME NEW i \in Ids, row[i].kind = "log", TellsOf(todo[d], i) PROVE row'[i] = row[i]
    <3>1. ~TellsOf(todo[c], i) /\ row[i] # NoRow
      BY <1>3, <2>1 DEF WorkflowInv
    <3>2. row'[i].kind = "log"
      BY <2>1 DEF Follows
    <3> QED
      BY <3>1, <3>2 DEF Logged
  <2>2. WorkflowScript(row, todo[d])
    BY DEF WorkflowInv
  <2> QED
    BY <1>1, <1>2, <2>1, <2>2, FlowKept
<1>5. \A d \in Callers : WorkflowScript(row', todo'[d])
  BY <1>1, <1>4
<1>6. ASSUME NEW i \in Ids, row'[i].kind = "log"
      PROVE  /\ \A d, e \in Callers : TellsOf(todo'[d], i) /\ TellsOf(todo'[e], i) => d = e
             /\ row'[i].status = "PENDING" => died' \/ \E d \in Callers : TellsOf(todo'[d], i)
  <2>1. CASE row[i] = NoRow
    <3>1. \A d \in Callers \ {c} : ~TellsOf(todo'[d], i)
      BY <1>1, <1>3, <2>1
    <3> QED
      BY <1>1, <1>6, <2>1, <3>1 DEF Logged
  <2>2. CASE TellsOf(todo[c], i) /\ row[i] # NoRow
    <3>1. row[i].kind = "log"
      <4>1. IsPending(row, i) \/ OfDefinition(row, i)
        BY <2>2, ToldIsPending DEF WorkflowInv
      <4>2. OfDefinition(row, i) => OfDefinition(row', i)
        BY DEF Follows
      <4> QED
        BY <1>6, <4>1, <4>2 DEF IsPending, OfDefinition
    <3>2. \A d \in Callers \ {c} : ~TellsOf(todo'[d], i)
      BY <1>1, <2>2, <3>1 DEF WorkflowInv
    <3> QED
      BY <1>1, <1>6, <2>2, <3>2 DEF Logged
  <2>3. CASE ~TellsOf(todo[c], i) /\ row[i] # NoRow
    <3>1. row'[i] = row[i] /\ ~TellsOf(rest, i)
      BY <1>6, <2>3 DEF Logged
    <3>2. \A d \in Callers : TellsOf(todo'[d], i) <=> d # c /\ TellsOf(todo[d], i)
      BY <1>1, <3>1
    <3>3. row[i].kind = "log"
      BY <1>6, <3>1
    <3>4. \A d, e \in Callers : TellsOf(todo'[d], i) /\ TellsOf(todo'[e], i) => d = e
      BY <3>2, <3>3 DEF WorkflowInv
    <3>5. row[i].status = "PENDING" => died \/ \E d \in Callers : TellsOf(todo[d], i)
      BY <3>3 DEF WorkflowInv
    <3> QED
      BY <2>3, <3>1, <3>2, <3>4, <3>5
  <2> QED
    BY <2>1, <2>2, <2>3
<1> QED
  BY <1>1, <1>2, <1>5, <1>6 DEF WorkflowInv

\* The tables follow themselves.
LEMMA SameFollows ==
    ASSUME NEW tab, WorkflowRows(tab)
    PROVE  Follows(tab, tab)
BY DEF Follows

\* A call begins with a list that is about no log.
LEMMA WorkflowBegins ==
    ASSUME WorkflowInv, NEW c \in Callers, NEW st, Begin(c, st), WorkflowScript(row, st),
           \A i \in Ids : TellsOf(st, i) => row[i].kind # "log"
    PROVE  WorkflowInv'
<1>1. row' = row /\ todo' = [todo EXCEPT ![c] = st] /\ died' = died /\ todo[c] = <<>>
  BY DEF Begin, Ready, Idle
<1>2. Follows(row, row')
  BY <1>1, SameFollows DEF WorkflowInv
<1>3. \A i \in Ids : row[i] = NoRow => row[i].kind = "none"
  BY DEF NoRow
<1>4. Logged(c, st)
  <2>1. \A i \in Ids : ~TellsOf(todo[c], i)
    BY <1>1 DEF TellsOf
  <2> QED
    BY <1>1, <1>3, <2>1 DEF Logged
<1> QED
  BY <1>1, <1>2, <1>4, WorkflowMoves

\* A call that dies, or whose statement throws, leaves the tables as they are.
LEMMA WorkflowThrows ==
    ASSUME WorkflowInv, NEW c \in Callers, Throw(c)
    PROVE  WorkflowInv'
<1>1. row' = row /\ todo' = [todo EXCEPT ![c] = <<>>] /\ died' = TRUE
  BY DEF Throw
<1>2. Follows(row, row')
  BY <1>1, SameFollows DEF WorkflowInv
<1>3. WorkflowScript(row', <<>>)
  BY DEF WorkflowScript
<1>4. Logged(c, <<>>)
  BY <1>1 DEF Logged, TellsOf
<1> QED
  BY <1>1, <1>2, <1>3, <1>4, WorkflowMoves
-----------------------------------------------------------------------------
\* A statement about a definition, or that inserts one.
LEMMA EditBegins ==
    ASSUME WorkflowInv, NEW c \in Callers, NEW e, Begin(c, <<e>>), Editing(row, e)
    PROVE  WorkflowInv'
<1>1. PICK st : st = <<e>>
  OBVIOUS
<1>2. WorkflowScript(row, st) /\ st # <<>> /\ Head(st) = e
  BY <1>1, ShortLists DEF WorkflowScript
<1>3. ASSUME NEW i \in Ids, TellsOf(st, i) PROVE row[i].kind # "log"
  <2>1. Head(st) = e /\ (e.do = "update" \/ e.do = "act")
    BY <1>2, <1>3 DEF TellsOf
  <2>2. e.do = "update" /\ \E w \in Ids : OfDefinition(row, w) /\ e.ids = {w}
    BY <2>1, EditingTells
  <2>3. OfDefinition(row, i)
    BY <1>3, <2>1, <2>2 DEF TellsOf
  <2> QED
    BY <2>3 DEF OfDefinition
<1> QED
  BY <1>1, <1>2, <1>3, WorkflowBegins

\* Definitions.
LEMMA DefinitionsKeep ==
    ASSUME WorkflowInv, NEW c \in Callers, NEW w \in Ids,
           UpdateWorkflow(c, w) \/ ToggleActive(c, w) \/ DeleteWorkflow(c, w)
    PROVE  WorkflowInv'
<1>1. row[w].kind = "workflow" /\ OfDefinition(row, w)
  BY DEF UpdateWorkflow, ToggleActive, DeleteWorkflow, OfDefinition
<1>2. ASSUME NEW f, DOMAIN f \cap {"kind", "actions", "conditional", "status"} = {}, Begin(c, <<Set(w, f)>>)
      PROVE  WorkflowInv'
  <2>1. Editing(row, Set(w, f))
    BY <1>1, <1>2 DEF Editing
  <2> QED
    BY <1>2, <2>1, EditBegins
<1>3. CASE UpdateWorkflow(c, w)
  <2>1. CASE \E e \in Names : Begin(c, <<Set(w, [event |-> e])>>)
    BY <1>2, <2>1
  <2>2. CASE \E b \in BOOLEAN : Begin(c, <<Set(w, [active |-> b])>>)
    BY <1>2, <2>2
  <2> QED
    BY <1>3, <2>1, <2>2 DEF UpdateWorkflow
<1>4. CASE ToggleActive(c, w)
  BY <1>2, <1>4 DEF ToggleActive
<1>5. CASE DeleteWorkflow(c, w)
  <2>1. Editing(row, Erase(w))
    BY <1>1 DEF Editing
  <2> QED
    BY <1>5, <2>1, EditBegins DEF DeleteWorkflow
<1> QED
  BY <1>3, <1>4, <1>5

LEMMA CreateWorkflowKeeps ==
    ASSUME WorkflowInv, NEW c \in Callers, CreateWorkflow(c)
    PROVE  WorkflowInv'
<1>1. PICK n \in Names, e \in Names, a \in Actions, b \in BOOLEAN :
        BeginInsert(c, <<Insert(Definition(n, e, a, b))>>)
  BY DEF CreateWorkflow
<1> DEFINE r == Definition(n, e, a, b)
<1>2. a \in Seq(STRING)
  BY WorkflowAssumption
<1>3. OfWorkflows(r) /\ r.kind = "workflow"
  BY <1>2 DEF OfWorkflows, Definition
<1>4. Editing(row, Insert(r))
  BY <1>3 DEF Editing
<1> QED
  BY <1>1, <1>4, EditBegins DEF BeginInsert

\* An event executes the definitions there are for it.
LEMMA EmitKeeps ==
    ASSUME WorkflowInv, NEW c \in Callers, Emit(c)
    PROVE  WorkflowInv'
<1>1. PICK e \in Names : Begin(c, SetToSeq({Execute(w) : w \in findByEvent(e)}))
  BY DEF Emit
<1> DEFINE S == {Execute(w) : w \in findByEvent(e)}
<1>2. ASSUME NEW w \in findByEvent(e) PROVE Execute(w) \in Executions(row)
  <2>1. w \in Ids /\ row[w].kind = "workflow" /\ OfWorkflows(row[w])
    BY <1>2 DEF findByEvent, WorkflowInv, WorkflowRows
  <2>2. row[w].actions \in Seq(STRING) /\ row[w].conditional \in BOOLEAN
    BY <2>1 DEF OfWorkflows, NoRow, Gone
  <2> QED
    BY <2>1, <2>2 DEF Execute, Executions, OfDefinition
<1>3. S \subseteq Executions(row)
  BY <1>2
<1>4. IsFiniteSet(S)
  <2>1. findByEvent(e) \subseteq Ids /\ IsFiniteSet(Ids)
    BY RowsAssumption DEF findByEvent
  <2>2. IsFiniteSet(findByEvent(e))
    BY <2>1, FS_Subset
  <2> DEFINE g == [w \in findByEvent(e) |-> Execute(w)]
  <2>4. g \in Surjection(findByEvent(e), S)
    BY DEF Surjection
  <2> HIDE DEF g, S
  <2> QED
    BY <2>2, <2>4, FS_Surjection
<1> HIDE DEF S
<1>5. SetToSeq(S) \in Seq(Executions(row))
  BY <1>3, <1>4, ListOfSet, SeqMonotonic
<1>6. WorkflowScript(row, SetToSeq(S))
  BY <1>5 DEF WorkflowScript
<1>7. ASSUME NEW i \in Ids PROVE ~TellsOf(SetToSeq(S), i)
  <2> SUFFICES ASSUME SetToSeq(S) # <<>> PROVE Head(SetToSeq(S)).do = "enter"
    BY DEF TellsOf
  <2>1. Head(SetToSeq(S)) \in Executions(row)
    BY <1>5, HeadTailProperties
  <2> QED
    BY <2>1 DEF Executions
<1> QED
  BY <1>1, <1>6, <1>7, WorkflowBegins DEF S
-----------------------------------------------------------------------------
\* Tables in which no definition loses its actions and every log stays with its
\* definition.
LEMMA Rewritten ==
    ASSUME NEW tab, NEW then, WorkflowRows(tab), DOMAIN then = Ids,
           \A i \in Ids : OfWorkflows(then[i]) /\ (tab[i] # NoRow => then[i].kind = tab[i].kind),
           \A w \in Ids : tab[w].kind = "workflow" => then[w].actions = tab[w].actions,
           \A i \in Ids : tab[i].kind = "log" => then[i].of = tab[i].of,
           \A i \in Ids : then[i].kind = "log" => LogTells(then, i)
    PROVE  Follows(tab, then)
<1>1. \A i \in Ids : tab[i].kind # "none" => then[i].kind = tab[i].kind
  BY DEF NoRow
<1>2. \A w \in Ids : OfDefinition(tab, w) =>
          /\ OfDefinition(then, w)
          /\ then[w].kind = "workflow" => tab[w].kind = "workflow" /\ then[w].actions = tab[w].actions
  BY <1>1 DEF OfDefinition
<1>3. \A i \in Ids : tab[i].kind = "log" => then[i].kind = "log" /\ then[i].of = tab[i].of
  BY <1>1
<1>4. WorkflowRows(then)
  BY DEF WorkflowRows
<1> QED
  BY <1>2, <1>3, <1>4 DEF Follows

\* An update is of a definition, or of the status of a log.
LEMMA WorkflowUpdates ==
    ASSUME WorkflowInv, NEW c \in Callers, Update(c)
    PROVE  WorkflowInv'
<1> DEFINE e == Head(todo[c])
           rest == Tail(todo[c])
<1>1. todo[c] # <<>> /\ e.do = "update" /\ WorkflowScript(row, todo[c]) /\ WorkflowRows(row)
  BY DEF Update, WorkflowInv, Idle
<1>2. CASE Throw(c)
  BY <1>2, WorkflowThrows
<1>3. CASE ~Throw(c)
  <2>1. /\ row' = [i \in Ids |-> IF i \in e.ids /\ Exists(i) THEN Merge(row[i], e.set) ELSE row[i]]
        /\ todo' = [todo EXCEPT ![c] = rest] /\ died' = died
    BY <1>3 DEF Update
  <2> HIDE DEF e, rest
  <2>2. CASE EditingNow(row, todo[c])
    <3>1. PICK w \in Ids : \E f : /\ OfDefinition(row, w) /\ e.ids = {w} /\ e.set = f
                                  /\ DOMAIN f \cap {"kind", "actions", "conditional", "status"} = {}
      BY <1>1, <2>2, EditingTells DEF EditingNow, e
    <3>2. PICK f : /\ OfDefinition(row, w) /\ e.ids = {w} /\ e.set = f
                   /\ DOMAIN f \cap {"kind", "actions", "conditional", "status"} = {}
      BY <3>1
    <3>3. rest = <<>>
      BY <2>2 DEF EditingNow, rest
    <3>4. /\ DOMAIN row' = Ids /\ \A i \in Ids \ {w} : row'[i] = row[i]
          /\ \/ row'[w] = row[w]
             \/ row[w].kind = "workflow" /\ row'[w] = Merge(row[w], f)
      <4>1. row[w].kind = "workflow" \/ ~Exists(w)
        BY <1>1, <3>2 DEF OfDefinition, WorkflowRows, OfWorkflows, Exists, NoRow
      <4> QED
        BY <2>1, <3>2, <4>1
    <3>5. ASSUME row[w].kind = "workflow", row'[w] = Merge(row[w], f)
          PROVE  OfWorkflows(row'[w]) /\ row'[w].kind = row[w].kind /\ row'[w].actions = row[w].actions
      <4>1. OfWorkflows(row[w]) /\ DOMAIN row[w] = {"kind", "code", "event", "active", "actions", "conditional"}
        BY <1>1, <3>5 DEF WorkflowRows, OfWorkflows, NoRow, Gone
      <4>2. /\ DOMAIN row'[w] = DOMAIN row[w] /\ row'[w].kind = row[w].kind
            /\ row'[w].actions = row[w].actions /\ row'[w].conditional = row[w].conditional
        BY SMTT(60), <3>2, <3>5, <4>1, MergeTells
      <4>3. OfWorkflows(row'[w])
        BY <3>5, <4>1, <4>2 DEF OfWorkflows, NoRow, Gone
      <4> QED
        BY <3>5, <4>2, <4>3
    <3>6. ASSUME NEW i \in Ids
          PROVE  /\ OfWorkflows(row'[i]) /\ row'[i].kind = row[i].kind
                 /\ row[i].kind = "workflow" => row'[i].actions = row[i].actions
                 /\ row[i].kind = "log" => row'[i] = row[i]
      <4>1. CASE i # w \/ row'[w] = row[w]
        BY <1>1, <3>4, <4>1 DEF WorkflowRows
      <4>2. CASE row[w].kind = "workflow" /\ row'[w] = Merge(row[w], f) /\ i = w
        BY <3>5, <4>2
      <4> QED
        BY <3>4, <4>1, <4>2
    <3>7. ASSUME NEW i \in Ids, row'[i].kind = "log" PROVE LogTells(row', i)
      <4>1. row[i].kind = "log" /\ row'[i] = row[i] /\ LogTells(row, i)
        BY <1>1, <3>6, <3>7 DEF WorkflowRows
      <4>2. row'[row'[i].of].actions = row[row[i].of].actions /\ row'[row'[i].of].kind = "workflow"
        BY <3>6, <4>1 DEF LogTells
      <4> QED
        BY <4>1, <4>2 DEF LogTells
    <3>8. Follows(row, row')
      BY <1>1, <3>4, <3>6, <3>7, Rewritten
    <3>9. ~\E i \in Ids : row[i].kind = "log" /\ TellsOf(todo[c], i)
      BY <1>1, <3>2 DEF TellsOf, OfDefinition, e
    <3>10. Logged(c, <<>>)
      <4>1. \A i \in Ids : ~TellsOf(<<>>, i)
        BY DEF TellsOf
      <4>2. \A i \in Ids : row[i] = NoRow => row[i].kind = "none"
        BY DEF NoRow
      <4> QED
        BY <3>6, <3>9, <4>1, <4>2 DEF Logged
    <3>11. WorkflowScript(row', <<>>)
      BY DEF WorkflowScript
    <3> QED
      BY <2>1, <3>3, <3>8, <3>10, <3>11, WorkflowMoves
  <2>3. CASE RunningNow(row, todo[c])
    <3>1. PICK j \in Ids : Running(row, j, e) /\ rest \in Seq(Executions(row))
      BY <2>3 DEF RunningNow, e, rest
    <3>2. /\ e.ids = {j} /\ Settling(row, j, e) /\ row[j].kind = "log" /\ OfWorkflows(row[j])
          /\ LogTells(row, j) /\ AllActions(row, j) = Len(row[row[j].of].actions)
      BY <1>1, <3>1, RunningTells DEF Running, IsPending, WorkflowRows, AllActions
    <3>3. DOMAIN row[j] = {"kind", "of", "status", "done", "skipped"} /\ Exists(j)
      BY <3>2 DEF OfWorkflows, NoRow, Gone, Exists
    <3>4. /\ DOMAIN row' = Ids /\ (\A i \in Ids \ {j} : row'[i] = row[i])
          /\ row'[j] = Merge(row[j], e.set)
      BY <2>1, <3>2, <3>3
    <3>5. /\ DOMAIN row'[j] = DOMAIN row[j] /\ row'[j].kind = "log" /\ row'[j].of = row[j].of
          /\ row'[j].done = row[j].done
          /\ \/ row'[j].status = "SUCCESS" /\ row'[j].skipped = TRUE /\ row[j].done = 0
             \/ /\ row'[j].status = "SUCCESS" /\ row'[j].skipped = row[j].skipped /\ ~row[j].skipped
                /\ row[j].done = AllActions(row, j)
             \/ row'[j].status = "FAILED" /\ row[j].done <= AllActions(row, j)
      <4> DEFINE f == e.set
      <4>1. DOMAIN f \subseteq {"status", "skipped"} /\ "status" \in DOMAIN f
        BY <3>2 DEF Settling, Settle, Skip, Set
      <4>2. \/ f.status = "SUCCESS" /\ "skipped" \in DOMAIN f /\ f.skipped = TRUE /\ row[j].done = 0
            \/ /\ f.status = "SUCCESS" /\ "skipped" \notin DOMAIN f /\ ~row[j].skipped
               /\ row[j].done = AllActions(row, j)
            \/ f.status = "FAILED" /\ row[j].done <= AllActions(row, j)
        BY <3>2 DEF Settling, Settle, Skip, Set
      <4> HIDE DEF f
      <4>3. row'[j] = Merge(row[j], f)
        BY <3>4 DEF f
      <4>6. DOMAIN row'[j] = DOMAIN row[j]
        BY <4>3, MergeTells
      <4>7. \A x \in {"kind", "of", "done"} : row'[j][x] = row[j][x]
        BY <3>3, <4>1, <4>3, MergeTells
      <4>4. row'[j].kind = "log" /\ row'[j].of = row[j].of /\ row'[j].done = row[j].done
        BY <3>2, <4>7
      <4>5. /\ row'[j].status = f.status /\ ("skipped" \in DOMAIN f => row'[j].skipped = f.skipped)
            /\ "skipped" \notin DOMAIN f => row'[j].skipped = row[j].skipped
        BY <3>3, <4>1, <4>3, MergeTells
      <4> QED
        BY <4>2, <4>4, <4>5, <4>6
    <3>6. OfWorkflows(row'[j])
      BY <3>3, <3>5 DEF OfWorkflows
    <3>7. ASSUME NEW i \in Ids
          PROVE  OfWorkflows(row'[i]) /\ row'[i].kind = row[i].kind /\ (i # j => row'[i] = row[i])
      BY <1>1, <3>2, <3>4, <3>5, <3>6 DEF WorkflowRows
    <3>8. ASSUME NEW i \in Ids, row'[i].kind = "log" PROVE LogTells(row', i)
      <4>1. row[i].kind = "log" /\ LogTells(row, i) /\ row'[i].of = row[i].of /\ row'[i].done = row[i].done
        BY <1>1, <3>5, <3>7, <3>8 DEF WorkflowRows
      <4>2. row'[i].of # j
        BY <3>2, <4>1 DEF LogTells
      <4>3. row'[row'[i].of] = row[row[i].of]
        BY <3>7, <4>1, <4>2 DEF LogTells
      <4>4. CASE i = j
        BY <3>2, <3>5, <4>1, <4>3, <4>4 DEF LogTells
      <4>5. CASE i # j
        BY <3>7, <4>1, <4>3, <4>5 DEF LogTells
      <4> QED
        BY <4>4, <4>5
    <3>9. Follows(row, row')
      <4>1. \A w \in Ids : row[w].kind = "workflow" => row'[w].actions = row[w].actions
        BY <3>2, <3>7
      <4>2. \A i \in Ids : row[i].kind = "log" => row'[i].of = row[i].of
        BY <3>5, <3>7
      <4> QED
        BY <1>1, <3>4, <3>7, <3>8, <4>1, <4>2, Rewritten
    <3>10. \A i \in Ids : TellsOf(todo[c], i) <=> i = j
      BY <1>1, <3>2 DEF TellsOf, e
    <3>11. rest # <<>> => Head(rest).do = "enter"
      <4> SUFFICES ASSUME rest # <<>> PROVE Head(rest).do = "enter"
        OBVIOUS
      <4>1. Head(rest) \in Executions(row)
        BY <3>1, HeadTailProperties
      <4> QED
        BY <4>1 DEF Executions
    <3>12. Logged(c, rest)
      <4>1. \A i \in Ids : ~TellsOf(rest, i)
        BY <3>11 DEF TellsOf
      <4>2. \A i \in Ids : row[i] = NoRow => row'[i].kind = "none"
        BY <3>7 DEF NoRow
      <4> QED
        BY <3>5, <3>7, <3>10, <4>1, <4>2 DEF Logged
    <3>13. WorkflowScript(row', rest)
      BY <3>1, <3>9, ListsKept DEF WorkflowScript
    <3> QED
      BY <2>1, <3>9, <3>12, <3>13, WorkflowMoves
  <2>4. ~ExecutingNow(row, todo[c])
    BY <1>1 DEF ExecutingNow, e
  <2> QED
    BY <1>1, <2>2, <2>3, <2>4, ScriptBegins
<1> QED
  BY <1>2, <1>3
-----------------------------------------------------------------------------
\* A definition or a log takes an id that was free.
LEMMA RowAdded ==
    ASSUME NEW tab, WorkflowRows(tab), NEW n \in Ids, tab[n] = NoRow, NEW then, DOMAIN then = Ids,
           \A i \in Ids \ {n} : then[i] = tab[i], OfWorkflows(then[n]),
           then[n].kind = "log" => LogTells(then, n)
    PROVE  Follows(tab, then)
<1>1. tab[n].kind = "none"
  BY DEF NoRow
<1>2. ASSUME NEW i \in Ids PROVE OfWorkflows(then[i]) /\ (tab[i] # NoRow => then[i] = tab[i])
  BY DEF WorkflowRows
<1>3. ASSUME NEW i \in Ids, then[i].kind = "log" PROVE LogTells(then, i)
  <2>1. CASE i = n
    BY <1>3, <2>1
  <2>2. CASE i # n
    <3>1. then[i] = tab[i] /\ LogTells(tab, i)
      BY <1>3, <2>2 DEF WorkflowRows
    <3>2. tab[i].of # n
      BY <1>1, <3>1 DEF LogTells
    <3>3. then[then[i].of] = tab[tab[i].of]
      BY <3>1, <3>2 DEF LogTells
    <3> QED
      BY <3>1, <3>3 DEF LogTells
  <2> QED
    BY <2>1, <2>2
<1>4. \A i \in Ids : tab[i].kind # "none" => then[i] = tab[i]
  BY <1>1
<1> QED
  BY <1>2, <1>3, <1>4, Rewritten

LEMMA WorkflowCreates ==
    ASSUME WorkflowInv, NEW c \in Callers, Create(c)
    PROVE  WorkflowInv'
<1> DEFINE e == Head(todo[c])
<1>1. /\ todo[c] # <<>> /\ e.do = "create" /\ WorkflowScript(row, todo[c]) /\ WorkflowRows(row)
      /\ NextId \in Ids /\ row[NextId] = NoRow
  BY NextIsFree DEF Create, WorkflowInv, Idle
<1>2. CASE Throw(c)
  BY <1>2, WorkflowThrows
<1>3. CASE ~Throw(c)
  <2>1. row' = [row EXCEPT ![NextId] = e.set] /\ todo' = [todo EXCEPT ![c] = Tail(todo[c])] /\ died' = died
    BY <1>3 DEF Create
  <2>2. EditingNow(row, todo[c])
    <3>1. ~RunningNow(row, todo[c])
      BY <1>1, RunningTells DEF RunningNow, e
    <3>2. ~ExecutingNow(row, todo[c])
      BY <1>1 DEF ExecutingNow
    <3> QED
      BY <1>1, <3>1, <3>2, ScriptBegins
  <2>3. OfWorkflows(e.set) /\ e.set.kind = "workflow" /\ Tail(todo[c]) = <<>>
    <3>1. Editing(row, e) /\ Tail(todo[c]) = <<>>
      BY <2>2 DEF EditingNow
    <3> QED
      BY <1>1, <3>1, EditingTells
  <2> HIDE DEF e
  <2>4. /\ DOMAIN row' = Ids /\ \A i \in Ids \ {NextId} : row'[i] = row[i]
        /\ row'[NextId] = e.set
    BY <1>1, <2>1 DEF WorkflowRows
  <2>5. Follows(row, row')
    BY <1>1, <2>3, <2>4, RowAdded
  <2>6. \A i \in Ids : ~TellsOf(<<>>, i)
    BY DEF TellsOf
  <2>7. \A i \in Ids : ~TellsOf(todo[c], i)
    BY <1>1 DEF TellsOf, e
  <2>8. Logged(c, <<>>)
    <3>1. row[NextId] = NoRow /\ row'[NextId].kind # "log"
      BY <1>1, <2>3, <2>4
    <3>2. \A i \in Ids : row[i] = NoRow => row[i].kind = "none"
      BY DEF NoRow
    <3> QED
      BY <2>4, <2>6, <2>7, <3>1, <3>2 DEF Logged
  <2>9. WorkflowScript(row', <<>>)
    BY DEF WorkflowScript
  <2> QED
    BY <2>1, <2>3, <2>5, <2>8, <2>9, WorkflowMoves
<1> QED
  BY <1>2, <1>3

\* A definition that a log refers to is not deleted.
LEMMA WorkflowDeletes ==
    ASSUME WorkflowInv, NEW c \in Callers, DeleteDefinition(c)
    PROVE  WorkflowInv'
<1> DEFINE e == Head(todo[c])
<1>1. todo[c] # <<>> /\ e.do = "erase" /\ WorkflowScript(row, todo[c]) /\ WorkflowRows(row)
  BY DEF DeleteDefinition, WorkflowInv, Idle
<1>2. CASE Throw(c)
  BY <1>2, WorkflowThrows
<1>3. CASE ~Throw(c)
  <2>1. Deletion(c) /\ ~\E i \in Ids : row[i].kind = "log" /\ row[i].of = e.id
    BY <1>3 DEF DeleteDefinition
  <2>2. EditingNow(row, todo[c])
    <3>1. ~RunningNow(row, todo[c])
      BY <1>1, RunningTells DEF RunningNow, e
    <3>2. ~ExecutingNow(row, todo[c])
      BY <1>1 DEF ExecutingNow
    <3> QED
      BY <1>1, <3>1, <3>2, ScriptBegins
  <2>3. PICK w \in Ids : OfDefinition(row, w) /\ e.id = w /\ Tail(todo[c]) = <<>>
    <3>1. Editing(row, e) /\ Tail(todo[c]) = <<>>
      BY <2>2 DEF EditingNow
    <3> QED
      BY <1>1, <3>1, EditingTells
  <2>4. /\ row' = [j \in Ids |->
                     IF j = e.id THEN Gone
                     ELSE IF "parent" \in DOMAIN row[j] /\ row[j].parent = e.id
                          THEN [row[j] EXCEPT !.parent = 0] ELSE row[j]]
        /\ todo' = [todo EXCEPT ![c] = Tail(todo[c])] /\ died' = died
    BY <1>3, <2>1 DEF Deletion
  <2> HIDE DEF e
  <2>5. ASSUME NEW j \in Ids PROVE "parent" \notin DOMAIN row[j]
    BY <1>1 DEF WorkflowRows, OfWorkflows, NoRow, Gone
  <2>6. DOMAIN row' = Ids /\ row'[w] = Gone /\ \A j \in Ids \ {w} : row'[j] = row[j]
    BY <2>3, <2>4, <2>5
  <2>7. \A i \in Ids : row[i].kind = "log" => row[i].of # w
    BY <2>1, <2>3
  <2>8. row[w].kind # "log" /\ row'[w].kind = "gone" /\ OfWorkflows(row'[w])
    BY <2>3, <2>6 DEF OfDefinition, OfWorkflows, Gone
  <2>9. ASSUME NEW i \in Ids, row'[i].kind = "log"
        PROVE  row'[i] = row[i] /\ row[i].kind = "log" /\ LogTells(row', i)
    <3>1. i # w /\ row'[i] = row[i] /\ LogTells(row, i)
      BY <1>1, <2>6, <2>8, <2>9 DEF WorkflowRows
    <3>2. row'[row'[i].of] = row[row[i].of]
      BY <2>6, <2>7, <2>9, <3>1 DEF LogTells
    <3> QED
      BY <2>9, <3>1, <3>2 DEF LogTells
  <2>10. Follows(row, row')
    <3>1. WorkflowRows(row')
      BY <1>1, <2>6, <2>8, <2>9 DEF WorkflowRows
    <3> QED
      BY <2>6, <2>8, <3>1 DEF Follows, OfDefinition
  <2>11. \A i \in Ids : ~TellsOf(<<>>, i) /\ ~TellsOf(todo[c], i)
    BY <1>1 DEF TellsOf, e
  <2>12. Logged(c, <<>>)
    <3>1. \A i \in Ids : row[i] = NoRow => row[i].kind = "none"
      BY DEF NoRow
    <3> QED
      BY <2>9, <2>11, <3>1 DEF Logged
  <2>13. WorkflowScript(row', <<>>)
    BY DEF WorkflowScript
  <2> QED
    BY <2>3, <2>4, <2>10, <2>12, <2>13, WorkflowMoves
<1> QED
  BY <1>2, <1>3
-----------------------------------------------------------------------------
\* A list that begins with the step of an execution tells of its log alone.
LEMMA FrontTells ==
    ASSUME NEW tab, NEW i \in Ids, NEW h, Running(tab, i, h), NEW s \in Seq(Executions(tab))
    PROVE  WorkflowScript(tab, <<h>> \o s) /\ \A j \in Ids : TellsOf(<<h>> \o s, j) <=> j = i
<1>1. PICK q : q = <<h>> \o s
  OBVIOUS
<1>2. q # <<>> /\ Head(q) = h
  BY <1>1, InFront
<1>3. \A j \in Ids : TellsOf(q, j) <=> j = i
  BY <1>2, RunningTells DEF TellsOf
<1>4. WorkflowScript(tab, q)
  BY <1>1 DEF WorkflowScript
<1> QED
  BY <1>1, <1>3, <1>4

\* The log of an execution is inserted.
LEMMA ExecutionBegins ==
    ASSUME WorkflowInv, NEW c \in Callers, BeginExecution(c)
    PROVE  WorkflowInv'
<1> DEFINE x == Head(todo[c])
           rest == Tail(todo[c])
           n == NextId
<1>1. /\ todo[c] # <<>> /\ x.do = "enter" /\ WorkflowScript(row, todo[c]) /\ WorkflowRows(row)
      /\ n \in Ids /\ row[n] = NoRow
  BY NextIsFree DEF BeginExecution, WorkflowInv, Idle
<1>2. CASE Throw(c)
  BY <1>2, WorkflowThrows
<1>3. CASE ~Throw(c)
  <2>1. PICK h \in Started(x, n) :
          /\ Exists(x.workflow)
          /\ row' = [row EXCEPT ![n] = Log(x.workflow)]
          /\ todo' = [todo EXCEPT ![c] = <<h>> \o rest]
          /\ died' = died
    BY <1>3 DEF BeginExecution
  <2>2. x \in Executions(row) /\ rest \in Seq(Executions(row))
    <3>1. ~RunningNow(row, todo[c])
      BY <1>1, RunningTells DEF RunningNow, x
    <3>2. ~EditingNow(row, todo[c])
      BY <1>1 DEF EditingNow
    <3> QED
      BY <1>1, <3>1, <3>2, ScriptBegins DEF ExecutingNow
  <2> HIDE DEF x, rest, n
  <2>3. /\ x.workflow \in Ids /\ x.actions \in Seq(STRING) /\ row[x.workflow].kind = "workflow"
        /\ row[x.workflow].actions = x.actions /\ x.workflow # n
    <3>1. row[x.workflow].kind # "gone"
      BY <1>1, <2>1, <2>2 DEF Exists, Executions, WorkflowRows, OfWorkflows, Gone
    <3> QED
      BY <1>1, <2>2, <3>1 DEF Executions, OfDefinition, NoRow
  <2>4. /\ DOMAIN row' = Ids /\ (\A i \in Ids \ {n} : row'[i] = row[i])
        /\ row'[n] = Log(x.workflow)
    BY <1>1, <2>1 DEF WorkflowRows
  <2>5. /\ row'[n].kind = "log" /\ row'[n].of = x.workflow /\ row'[n].status = "PENDING"
        /\ row'[n].done = 0 /\ row'[n].skipped = FALSE /\ OfWorkflows(row'[n])
    BY <2>4 DEF Log, OfWorkflows
  <2>6. row'[x.workflow] = row[x.workflow]
    BY <2>3, <2>4
  <2>7. LogTells(row', n)
    BY <2>3, <2>5, <2>6 DEF LogTells
  <2>8. Follows(row, row')
    BY <1>1, <2>4, <2>5, <2>7, RowAdded
  <2>9. AllActions(row', n) = Len(x.actions) /\ Len(x.actions) \in Nat
    BY <2>3, <2>5, <2>6, LenProperties DEF AllActions
  <2>10. \/ h = [do |-> "act", log |-> n, left |-> x.actions]
         \/ h = Skip(n)
         \/ h = Settle(n, "FAILED")
    BY <2>1 DEF Started
  <2>11. Running(row', n, h)
    <3>1. CASE h = [do |-> "act", log |-> n, left |-> x.actions]
      <4>2. row'[n].done + Len(x.actions) = AllActions(row', n) /\ ~row'[n].skipped
        BY <2>5, <2>9
      <4>3. Acting(row', n, h)
        BY <2>3, <3>1, <4>2 DEF Acting
      <4> QED
        BY <2>5, <4>3 DEF Running, IsPending
    <3>2. CASE h = Skip(n) \/ h = Settle(n, "FAILED")
      <4>1. row'[n].done = 0 /\ 0 <= AllActions(row', n)
        BY <2>5, <2>9
      <4>2. Settling(row', n, h)
        BY <3>2, <4>1 DEF Settling
      <4> QED
        BY <2>5, <4>2 DEF Running, IsPending
    <3> QED
      BY <2>10, <3>1, <3>2
  <2>12. rest \in Seq(Executions(row'))
    BY <2>2, <2>8, ListsKept
  <2>13. WorkflowScript(row', <<h>> \o rest) /\ \A j \in Ids : TellsOf(<<h>> \o rest, j) <=> j = n
    BY <1>1, <2>11, <2>12, FrontTells
  <2>14. \A i \in Ids : ~TellsOf(todo[c], i)
    BY <1>1 DEF TellsOf, x
  <2>15. PICK then : then = <<h>> \o rest
    OBVIOUS
  <2>16. /\ WorkflowScript(row', then) /\ (\A j \in Ids : TellsOf(then, j) <=> j = n)
         /\ todo' = [todo EXCEPT ![c] = then]
    BY <2>1, <2>13, <2>15
  <2>17. Logged(c, then)
    <3>1. \A i \in Ids : row[i] = NoRow => row[i].kind = "none"
      BY DEF NoRow
    <3> QED
      BY <1>1, <2>4, <2>14, <2>16, <3>1 DEF Logged
  <2> QED
    BY <2>1, <2>8, <2>16, <2>17, WorkflowMoves
<1> QED
  BY <1>2, <1>3

\* What an execution that is at an action has left.
LEMMA AtAction ==
    ASSUME WorkflowInv, NEW c \in Callers, NextAction(c)
    PROVE  LET x == Head(todo[c])
           IN \E i \in Ids : \E left \in Seq(STRING) : \E s \in Seq(Executions(row)) :
                /\ todo[c] = <<x>> \o s /\ Tail(todo[c]) = s
                /\ x = [do |-> "act", log |-> i, left |-> left] /\ x.log = i /\ x.left = left
                /\ IsPending(row, i) /\ ~row[i].skipped /\ row[i].done + Len(left) = AllActions(row, i)
                /\ \A j \in Ids : TellsOf(todo[c], j) <=> j = i
<1> DEFINE x == Head(todo[c])
<1>1. todo[c] # <<>> /\ x.do = "act" /\ WorkflowScript(row, todo[c])
  BY DEF NextAction, WorkflowInv, Idle
<1>2. ~(todo[c] \in Seq(Executions(row)))
  <2>1. todo[c] \in Seq(Executions(row)) => x \in Executions(row)
    BY <1>1, HeadTailProperties
  <2> QED
    BY <1>1, <2>1 DEF Executions
<1>3. ASSUME NEW e, todo[c] = <<e>>, Editing(row, e) PROVE FALSE
  <2>1. x = e
    BY <1>3, ShortLists
  <2> QED
    BY <1>1, <1>3, <2>1, EditingTells
<1>4. \E i \in Ids : \E h : \E s \in Seq(Executions(row)) : todo[c] = <<h>> \o s /\ Running(row, i, h)
  BY <1>1, <1>2, <1>3 DEF WorkflowScript
<1>5. PICK i \in Ids : \E h : \E s \in Seq(Executions(row)) : todo[c] = <<h>> \o s /\ Running(row, i, h)
  BY <1>4
<1>6. PICK h : \E s \in Seq(Executions(row)) : todo[c] = <<h>> \o s /\ Running(row, i, h)
  BY <1>5
<1>7. PICK s \in Seq(Executions(row)) : todo[c] = <<h>> \o s /\ Running(row, i, h)
  BY <1>6
<1>8. x = h /\ Tail(todo[c]) = s
  BY <1>7, InFront
<1> HIDE DEF x
<1>9. Acting(row, i, x) /\ IsPending(row, i)
  BY <1>1, <1>7, <1>8, RunningTells DEF Running
<1>10. PICK left \in Seq(STRING) : /\ x = [do |-> "act", log |-> i, left |-> left] /\ ~row[i].skipped
                                   /\ row[i].done + Len(left) = AllActions(row, i)
  BY <1>9 DEF Acting
<1>11. x.log = i /\ x.left = left
  BY <1>10
<1>12. \A j \in Ids : TellsOf(todo[c], j) <=> j = i
  BY <1>7, FrontTells
<1>13. todo[c] = <<x>> \o s
  BY <1>7, <1>8
<1> QED
  BY <1>8, <1>9, <1>10, <1>11, <1>12, <1>13 DEF x

\* The statement that ends an execution, when an action threw or none is left.
LEMMA ExecutionEnds ==
    ASSUME WorkflowInv, NEW c \in Callers, ActionThrows(c) \/ ActionsDone(c)
    PROVE  WorkflowInv'
<1> DEFINE x == Head(todo[c])
<1>1. NextAction(c) /\ WorkflowRows(row)
  BY DEF ActionThrows, ActionsDone, WorkflowInv
<1>2. PICK i \in Ids : \E left \in Seq(STRING) : \E s \in Seq(Executions(row)) :
                /\ todo[c] = <<x>> \o s /\ Tail(todo[c]) = s
                /\ x = [do |-> "act", log |-> i, left |-> left] /\ x.log = i /\ x.left = left
                /\ IsPending(row, i) /\ ~row[i].skipped /\ row[i].done + Len(left) = AllActions(row, i)
                /\ \A j \in Ids : TellsOf(todo[c], j) <=> j = i
  BY <1>1, AtAction
<1>3. PICK left \in Seq(STRING), s \in Seq(Executions(row)) :
                /\ Tail(todo[c]) = s /\ x.log = i /\ x.left = left
                /\ IsPending(row, i) /\ ~row[i].skipped /\ row[i].done + Len(left) = AllActions(row, i)
                /\ \A j \in Ids : TellsOf(todo[c], j) <=> j = i
  BY <1>2
<1>4. row[i].done \in Nat
  BY <1>1, <1>3 DEF IsPending, WorkflowRows, LogTells
<1>5. PICK st \in {"FAILED", "SUCCESS"} :
        /\ row' = row /\ todo' = [todo EXCEPT ![c] = <<Settle(x.log, st)>> \o Tail(todo[c])] /\ died' = died
        /\ st = "FAILED" => x.left # <<>>
        /\ st = "SUCCESS" => x.left = <<>>
  BY DEF ActionThrows, ActionsDone
<1> HIDE DEF x
<1>6. Running(row, i, Settle(i, st))
  <2>1. st = "FAILED" => row[i].done <= AllActions(row, i)
    <3>1. left # <<>> => Len(left) \in Nat \ {0}
      BY EmptySeq
    <3> QED
      BY <1>3, <1>4, <1>5, <3>1
  <2>2. st = "SUCCESS" => row[i].done = AllActions(row, i)
    <3>1. left = <<>> => Len(left) = 0
      BY EmptySeq
    <3> QED
      BY <1>3, <1>4, <1>5, <3>1
  <2>3. Settling(row, i, Settle(i, st))
    BY <1>3, <1>5, <2>1, <2>2 DEF Settling
  <2> QED
    BY <1>3, <2>3 DEF Running
<1>7. PICK then : then = <<Settle(i, st)>> \o s
  OBVIOUS
<1>8. WorkflowScript(row, then) /\ \A j \in Ids : TellsOf(then, j) <=> j = i
  BY <1>6, <1>7, FrontTells
<1>9. todo' = [todo EXCEPT ![c] = then]
  BY <1>3, <1>5, <1>7
<1>10. Follows(row, row')
  BY <1>1, <1>5, SameFollows
<1>11. Logged(c, then)
  BY <1>3, <1>5, <1>8 DEF Logged, NoRow
<1>12. WorkflowScript(row', then)
  BY <1>5, <1>8
<1> QED
  BY <1>5, <1>9, <1>10, <1>11, <1>12, WorkflowMoves

\* SUCCESS that cannot be written becomes FAILED.
LEMMA SuccessBecomesFailed ==
    ASSUME WorkflowInv, NEW c \in Callers, SuccessIsNotWritten(c)
    PROVE  WorkflowInv'
<1> DEFINE x == Head(todo[c])
<1>1. todo[c] # <<>> /\ WorkflowScript(row, todo[c]) /\ WorkflowRows(row)
  BY DEF SuccessIsNotWritten, WorkflowInv, Idle
<1>2. PICK i \in Ids :
        /\ x \in {Settle(i, "SUCCESS"), Skip(i)}
        /\ row' = row /\ todo' = [todo EXCEPT ![c] = <<Settle(i, "FAILED")>> \o Tail(todo[c])]
        /\ died' = died
  BY DEF SuccessIsNotWritten
<1> HIDE DEF x
<1>3. x.do = "update" /\ x.ids = {i} /\ "status" \in DOMAIN x.set
  BY <1>2 DEF Settle, Skip, Set
<1>4. ~EditingNow(row, todo[c])
  BY SMTT(60), <1>3, EditingTells DEF EditingNow, x
<1>5. ~ExecutingNow(row, todo[c])
  BY <1>3 DEF ExecutingNow, x
<1>6. PICK j \in Ids : Running(row, j, x) /\ Tail(todo[c]) \in Seq(Executions(row))
  BY <1>1, <1>4, <1>5, ScriptBegins DEF RunningNow, x
<1>7. x.ids = {j} /\ Settling(row, j, x) /\ IsPending(row, j)
  BY <1>3, <1>6, RunningTells DEF Running
<1>8. i = j /\ TellsOf(todo[c], i) /\ \A k \in Ids : TellsOf(todo[c], k) <=> k = i
  BY <1>1, <1>3, <1>7 DEF TellsOf, x
<1>9. row[i].done \in Nat /\ row[i].of \in Ids /\ row[row[i].of].kind = "workflow"
  BY <1>1, <1>7, <1>8 DEF IsPending, WorkflowRows, LogTells
<1>10. AllActions(row, i) \in Nat
  <2>1. row[row[i].of].actions \in Seq(STRING)
    BY <1>1, <1>9 DEF WorkflowRows, OfWorkflows, NoRow, Gone
  <2> QED
    BY <2>1, LenProperties DEF AllActions
<1>11. row[i].done <= AllActions(row, i)
  <2>1. x # Settle(i, "FAILED")
    BY <1>2 DEF Settle, Skip, Set
  <2> QED
    BY <1>7, <1>8, <1>9, <1>10, <2>1 DEF Settling
<1>12. Running(row, i, Settle(i, "FAILED"))
  BY <1>7, <1>8, <1>11 DEF Running, Settling
<1>13. PICK then : then = <<Settle(i, "FAILED")>> \o Tail(todo[c])
  OBVIOUS
<1>14. WorkflowScript(row, then) /\ \A k \in Ids : TellsOf(then, k) <=> k = i
  BY <1>6, <1>12, <1>13, FrontTells
<1>15. Follows(row, row')
  BY <1>1, <1>2, SameFollows
<1>16. Logged(c, then)
  BY <1>2, <1>8, <1>14 DEF Logged, NoRow
<1>17. WorkflowScript(row', then) /\ todo' = [todo EXCEPT ![c] = then]
  BY <1>2, <1>13, <1>14
<1> QED
  BY <1>2, <1>15, <1>16, <1>17, WorkflowMoves

\* An action that returns is counted.
LEMMA ActionCounts ==
    ASSUME WorkflowInv, NEW c \in Callers, ActionReturns(c)
    PROVE  WorkflowInv'
<1> DEFINE x == Head(todo[c])
<1>1. NextAction(c) /\ WorkflowRows(row) /\ DOMAIN todo = Callers
  BY DEF ActionReturns, WorkflowInv
<1>2. PICK i \in Ids : \E left \in Seq(STRING) : \E s \in Seq(Executions(row)) :
                /\ todo[c] = <<x>> \o s /\ Tail(todo[c]) = s
                /\ x = [do |-> "act", log |-> i, left |-> left] /\ x.log = i /\ x.left = left
                /\ IsPending(row, i) /\ ~row[i].skipped /\ row[i].done + Len(left) = AllActions(row, i)
                /\ \A j \in Ids : TellsOf(todo[c], j) <=> j = i
  BY <1>1, AtAction
<1>3. PICK left \in Seq(STRING), s \in Seq(Executions(row)) :
                /\ todo[c] = <<x>> \o s
                /\ x = [do |-> "act", log |-> i, left |-> left] /\ x.log = i /\ x.left = left
                /\ IsPending(row, i) /\ ~row[i].skipped /\ row[i].done + Len(left) = AllActions(row, i)
                /\ \A j \in Ids : TellsOf(todo[c], j) <=> j = i
  BY <1>2
<1>4. /\ x.left # <<>> /\ row' = [row EXCEPT ![x.log].done = @ + 1]
      /\ todo' = [todo EXCEPT ![c][1].left = Tail(@)] /\ died' = died
  BY DEF ActionReturns
<1> HIDE DEF x
<1>5. /\ OfWorkflows(row[i]) /\ LogTells(row, i) /\ row[i].kind = "log"
      /\ DOMAIN row[i] = {"kind", "of", "status", "done", "skipped"}
  BY <1>1, <1>3 DEF IsPending, WorkflowRows, OfWorkflows, NoRow, Gone
<1>6. /\ DOMAIN row' = Ids /\ (\A j \in Ids \ {i} : row'[j] = row[j])
      /\ row'[i] = [row[i] EXCEPT !.done = @ + 1]
  BY <1>1, <1>3, <1>4 DEF WorkflowRows
<1>7. /\ row'[i].kind = "log" /\ row'[i].of = row[i].of /\ row'[i].status = row[i].status
      /\ row'[i].skipped = row[i].skipped /\ row'[i].done = row[i].done + 1
      /\ DOMAIN row'[i] = DOMAIN row[i]
  BY <1>5, <1>6
<1>8. OfWorkflows(row'[i]) /\ row'[i].status = "PENDING" /\ ~row'[i].skipped
  BY <1>3, <1>5, <1>7 DEF OfWorkflows, IsPending
<1>9. ASSUME NEW j \in Ids
      PROVE  OfWorkflows(row'[j]) /\ row'[j].kind = row[j].kind /\ (j # i => row'[j] = row[j])
  BY <1>1, <1>5, <1>6, <1>7, <1>8 DEF WorkflowRows
<1>10. ASSUME NEW j \in Ids, row'[j].kind = "log" PROVE LogTells(row', j)
  <2>1. row[j].kind = "log" /\ LogTells(row, j) /\ row'[j].of = row[j].of
    BY <1>1, <1>7, <1>9, <1>10 DEF WorkflowRows
  <2>2. row[j].of # i /\ row[j].of \in Ids
    BY <1>5, <2>1 DEF LogTells
  <2>3. row'[row'[j].of] = row[row[j].of]
    BY <1>9, <2>1, <2>2
  <2>4. CASE j = i
    BY <1>5, <1>7, <1>8, <2>1, <2>3, <2>4 DEF LogTells
  <2>5. CASE j # i
    BY <1>9, <2>1, <2>3, <2>5 DEF LogTells
  <2> QED
    BY <2>4, <2>5
<1>11. Follows(row, row')
  <2>1. \A w \in Ids : row[w].kind = "workflow" => row'[w].actions = row[w].actions
    BY <1>5, <1>9
  <2>2. \A j \in Ids : row[j].kind = "log" => row'[j].of = row[j].of
    BY <1>7, <1>9
  <2> QED
    BY <1>1, <1>6, <1>9, <1>10, <2>1, <2>2, Rewritten
<1>12. AllActions(row', i) = AllActions(row, i)
  BY <1>1, <1>5, <1>11, SameActions
<1>13. PICK h : h = [do |-> "act", log |-> i, left |-> Tail(left)]
  OBVIOUS
<1>14. Running(row', i, h)
  <2>1. left # <<>> /\ Tail(left) \in Seq(STRING) /\ Len(Tail(left)) = Len(left) - 1 /\ Len(left) \in Nat
    BY <1>3, <1>4, HeadTailProperties, LenProperties
  <2>2. row[i].done \in Nat
    BY <1>5 DEF LogTells
  <2>3. row'[i].done + Len(Tail(left)) = AllActions(row', i)
    BY <1>3, <1>7, <1>12, <2>1, <2>2
  <2>4. Acting(row', i, h)
    BY <1>8, <1>13, <2>1, <2>3 DEF Acting
  <2> QED
    BY <1>7, <1>8, <2>4 DEF Running, IsPending
<1>15. PICK then : then = <<h>> \o s
  OBVIOUS
<1>16. s \in Seq(Executions(row'))
  BY <1>11, ListsKept
<1>17. WorkflowScript(row', then) /\ \A j \in Ids : TellsOf(then, j) <=> j = i
  BY <1>14, <1>15, <1>16, FrontTells
<1>18. todo' = [todo EXCEPT ![c] = then]
  <2>1. PICK q : q = todo[c]
    OBVIOUS
  <2>2. q # <<>> /\ Head(q) = x /\ q[1] = x
    <3>1. PICK one : one = <<x>>
      OBVIOUS
    <3>2. q # <<>> /\ Head(q) = x
      BY <1>3, <2>1, InFront
    <3> QED
      BY <3>2
  <2>3. [q EXCEPT ![1].left = Tail(@)] = [q EXCEPT ![1] = h]
    <3>1. [x EXCEPT !.left = Tail(@)] = h
      <4>1. x = [do |-> "act", log |-> i, left |-> left] /\ x.left = left
        BY <1>3
      <4>2. PICK t : t = Tail(left)
        OBVIOUS
      <4>3. [x EXCEPT !.left = t] = [do |-> "act", log |-> i, left |-> t]
        BY <4>1
      <4>4. Tail(x.left) = t /\ h = [do |-> "act", log |-> i, left |-> t]
        BY <1>13, <4>1, <4>2
      <4> QED
        BY <4>3, <4>4
    <3> QED
      BY <2>2, <3>1
  <2>4. [q EXCEPT ![1] = h] = then
    BY SMTT(60), <1>3, <1>15, <2>1, FrontChanged
  <2>5. todo' = [todo EXCEPT ![c] = [q EXCEPT ![1].left = Tail(@)]]
    BY <1>4, <2>1
  <2> QED
    BY <2>3, <2>4, <2>5
<1>19. Logged(c, then)
  BY <1>3, <1>8, <1>9, <1>17 DEF Logged, NoRow
<1> QED
  BY <1>4, <1>11, <1>17, <1>18, <1>19, WorkflowMoves
-----------------------------------------------------------------------------
\* What is said of logs holds at first,
LEMMA WorkflowStart == WorkflowInit => WorkflowInv
<1> SUFFICES ASSUME WorkflowInit PROVE WorkflowInv
  OBVIOUS
<1>1. WorkflowRows(row) /\ \A i \in Ids : row[i].kind = "log" => row[i].status # "PENDING"
  BY WorkflowAssumption DEF WorkflowInit
<1>2. DOMAIN todo = Callers /\ \A c \in Callers : todo[c] = <<>>
  BY DEF WorkflowInit, RowsInit
<1>3. WorkflowScript(row, <<>>)
  BY DEF WorkflowScript
<1>4. \A i \in Ids : ~TellsOf(<<>>, i)
  BY DEF TellsOf
<1> QED
  BY <1>1, <1>2, <1>3, <1>4 DEF WorkflowInv

\* and after every step.
LEMMA WorkflowStep ==
    ASSUME WorkflowInv, WorkflowNext
    PROVE  WorkflowInv'
<1>1. ASSUME NEW c \in Callers, WorkflowCall(c) PROVE WorkflowInv'
  BY <1>1, CreateWorkflowKeeps, EmitKeeps, DefinitionsKeep DEF WorkflowCall
<1>2. ASSUME NEW c \in Callers, Update(c) \/ Create(c) \/ DeleteDefinition(c) PROVE WorkflowInv'
  BY <1>2, WorkflowUpdates, WorkflowCreates, WorkflowDeletes
<1>3. ASSUME NEW c \in Callers, BeginExecution(c) \/ ActionReturns(c) \/ ActionThrows(c) \/ ActionsDone(c)
                                      \/ SuccessIsNotWritten(c)
      PROVE  WorkflowInv'
  BY <1>3, ExecutionBegins, ActionCounts, ExecutionEnds, SuccessBecomesFailed
<1>4. ASSUME NEW c \in Callers, Die(c) PROVE WorkflowInv'
  BY <1>4, WorkflowThrows DEF Die
<1> QED
  BY <1>1, <1>2, <1>3, <1>4 DEF WorkflowNext

LEMMA LogsFollow == WorkflowInv => LogsTell
<1> SUFFICES ASSUME WorkflowInv, NEW i \in Ids, row[i].kind = "log"
             PROVE  LET all == Len(row[row[i].of].actions)
                    IN /\ row[i].status = "SUCCESS" => row[i].done = IF row[i].skipped THEN 0 ELSE all
                       /\ row[i].status = "FAILED" => row[i].done <= all
                       /\ row[i].status = "PENDING" =>
                             \/ died
                             \/ \E c \in Callers : /\ ~Idle(c)
                                                   /\ \/ Head(todo[c]).do = "act" /\ Head(todo[c]).log = i
                                                      \/ Head(todo[c]).do = "update" /\ i \in Head(todo[c]).ids
  BY DEF LogsTell
<1>1. LogTells(row, i)
  BY DEF WorkflowInv, WorkflowRows
<1>2. row[i].status = "PENDING" => died \/ \E c \in Callers : TellsOf(todo[c], i)
  BY DEF WorkflowInv
<1> QED
  BY <1>1, <1>2 DEF LogTells, TellsOf, Idle

\* In a behaviour that exercises workflows.
WorkflowPart == part = "workflows" => WorkflowInv
LEMMA WorkflowPartStart == ServicesInit => WorkflowPart
BY WorkflowStart DEF ServicesInit, WorkflowPart
LEMMA WorkflowPartStep == WorkflowPart /\ [ServicesNext]_serviceVars => WorkflowPart'
<1> SUFFICES ASSUME WorkflowPart, [ServicesNext]_serviceVars, part' = "workflows" PROVE WorkflowInv'
  BY DEF WorkflowPart
<1>1. CASE ServicesNext
  <2>1. part = "workflows" /\ WorkflowNext
    BY <1>1 DEF ServicesNext
  <2> QED
    BY <2>1, WorkflowStep DEF WorkflowPart
<1>2. CASE UNCHANGED serviceVars
  <2>1. part = "workflows" /\ UNCHANGED rowVars
    BY <1>2 DEF serviceVars
  <2>2. WorkflowInv
    BY <2>1 DEF WorkflowPart
  <2> QED
    BY <2>1, <2>2 DEF WorkflowInv, rowVars
<1> QED
  BY <1>1, <1>2

\* However executions, changes and deletions of definitions overlap, and
\* whichever calls die: the log of an execution that succeeded counts all
\* actions of its definition, or none because the conditions were not met; one
\* that failed, at an action, at its conditions or at the write of SUCCESS,
\* counts no more than all; and only an execution that runs or died is PENDING
\* (WorkflowEngineService's executeWorkflow).
THEOREM LogsAlwaysTell == ServicesSpec => [](part = "workflows" => LogsTell)
<1>1. WorkflowPart => (part = "workflows" => LogsTell)
  BY LogsFollow DEF WorkflowPart
<1> QED
  BY <1>1, WorkflowPartStart, WorkflowPartStep, PTL DEF ServicesSpec
-----------------------------------------------------------------------------
(* Leads, contacts, deals and activities (Crm).                             *)

\* Those of whom something says that a lead was given to them.
Whom == [i \in Ids |-> history[i] \cup handed[i]]

\* A statement makes nobody assignee without that, and of no row a lead.
Records(tab, whom, e) ==
    /\ e.do = "update" =>
          /\ "kind" \notin DOMAIN e.set
          /\ "assignee" \in DOMAIN e.set => \A i \in e.ids :
                /\ i \in Ids /\ tab[i].kind # "none"
                /\ tab[i].kind = "lead" => e.set.assignee \in whom[i]
    /\ e.do = "create" =>
          "kind" \in DOMAIN e.set /\ (e.set.kind = "lead" => "assignee" \in DOMAIN e.set)
AllRecord(tab, whom, q) == \E S : q \in Seq(S) /\ \A e \in S : Records(tab, whom, e)
Assigning(tab, q) ==
    \E i \in Ids : \E u : tab[i].kind # "none" /\ q = <<Assignment(i, u), Set(i, [assignee |-> u])>>
Recording(tab, whom, q) == AllRecord(tab, whom, q) \/ Assigning(tab, q)
AssigneesKnown(tab, whom) == \A i \in Ids :
    /\ "kind" \in DOMAIN tab[i]
    /\ tab[i].kind = "lead" => "assignee" \in DOMAIN tab[i] /\ tab[i].assignee \in whom[i]
AssignedInv ==
    /\ DOMAIN row = Ids /\ DOMAIN todo = Callers /\ DOMAIN history = Ids /\ DOMAIN handed = Ids
    /\ AssigneesKnown(row, Whom) /\ \A c \in Callers : Recording(row, Whom, todo[c])

\* Rows do not become leads, and what is known of them is not forgotten.
Onward(tab, whom, then, knows) ==
    \A i \in Ids : tab[i].kind # "none" =>
        /\ then[i].kind # "none" /\ whom[i] \subseteq knows[i]
        /\ then[i].kind = "lead" => tab[i].kind = "lead"

\* What a call has left records the assignees all the same then.
LEMMA RecordsOn ==
    ASSUME NEW tab, NEW whom, NEW then, NEW knows, Onward(tab, whom, then, knows),
           NEW e, Records(tab, whom, e)
    PROVE  Records(then, knows, e)
BY DEF Onward, Records
LEMMA RecordingOn ==
    ASSUME NEW tab, NEW whom, NEW then, NEW knows, Onward(tab, whom, then, knows),
           NEW q, Recording(tab, whom, q)
    PROVE  Recording(then, knows, q)
<1>1. CASE AllRecord(tab, whom, q)
  <2>1. PICK S : q \in Seq(S) /\ \A e \in S : Records(tab, whom, e)
    BY <1>1 DEF AllRecord
  <2>2. \A e \in S : Records(then, knows, e)
    BY <2>1, RecordsOn
  <2> QED
    BY <2>1, <2>2 DEF Recording, AllRecord
<1>2. CASE Assigning(tab, q)
  BY <1>2 DEF Recording, Assigning, Onward
<1> QED
  BY <1>1, <1>2 DEF Recording

\* Lists of one statement or two.
LEMMA OneRecords ==
    ASSUME NEW tab, NEW whom, NEW e, Records(tab, whom, e)
    PROVE  Recording(tab, whom, <<e>>)
<1>1. PICK S : S = {e}
  OBVIOUS
<1>2. <<e>> \in Seq(S)
  BY <1>1
<1>3. \A x \in S : Records(tab, whom, x)
  BY <1>1
<1> QED
  BY <1>2, <1>3 DEF Recording, AllRecord
LEMMA TwoRecord ==
    ASSUME NEW tab, NEW whom, NEW e, NEW f, Records(tab, whom, e), Records(tab, whom, f)
    PROVE  Recording(tab, whom, <<e, f>>)
<1>1. PICK S : S = {e, f}
  OBVIOUS
<1>2. <<e, f>> \in Seq(S)
  BY <1>1
<1>3. \A x \in S : Records(tab, whom, x)
  BY <1>1
<1> QED
  BY <1>2, <1>3 DEF Recording, AllRecord
LEMMA NoneRecord ==
    ASSUME NEW tab, NEW whom
    PROVE  Recording(tab, whom, <<>>)
<1>1. <<>> \in Seq({})
  OBVIOUS
<1> QED
  BY SMTT(60), <1>1 DEF Recording, AllRecord

\* A call goes on, or begins, with statements that record.
LEMMA AssignedGoesOn ==
    ASSUME AssignedInv, NEW c \in Callers, NEW st, todo' = [todo EXCEPT ![c] = st],
           DOMAIN row' = Ids, DOMAIN history' = Ids, DOMAIN handed' = Ids,
           AssigneesKnown(row', Whom'), Recording(row', Whom', st), Onward(row, Whom, row', Whom')
    PROVE  AssignedInv'
<1>1. DOMAIN todo' = Callers /\ todo'[c] = st /\ \A d \in Callers \ {c} : todo'[d] = todo[d]
  BY DEF AssignedInv
<1>2. ASSUME NEW d \in Callers PROVE Recording(row', Whom', todo'[d])
  <2>1. CASE d = c
    BY <2>1, <1>1
  <2>2. CASE d # c
    BY <2>2, <1>1, RecordingOn DEF AssignedInv
  <2> QED
    BY <2>1, <2>2
<1> QED
  BY <1>1, <1>2 DEF AssignedInv
LEMMA AssignedBegins ==
    ASSUME AssignedInv, NEW c \in Callers, NEW st, Begin(c, st), Recording(row, Whom', st),
           DOMAIN history' = Ids, DOMAIN handed' = Ids, \A i \in Ids : Whom[i] \subseteq Whom'[i]
    PROVE  AssignedInv'
<1>1. row' = row /\ todo' = [todo EXCEPT ![c] = st]
  BY DEF Begin
<1>2. AssigneesKnown(row', Whom') /\ Onward(row, Whom, row', Whom')
  BY <1>1 DEF AssignedInv, AssigneesKnown, Onward
<1> QED
  BY <1>1, <1>2, AssignedGoesOn DEF AssignedInv
LEMMA AssignedBegin ==
    ASSUME AssignedInv, NEW c \in Callers, NEW st, Begin(c, st), Recording(row, Whom, st),
           history' = history, handed' = handed
    PROVE  AssignedInv'
<1>1. Whom' = Whom
  BY DEF Whom
<1>2. Recording(row, Whom', st)
  BY <1>1
<1>3. DOMAIN history' = Ids /\ DOMAIN handed' = Ids
  BY DEF AssignedInv
<1> QED
  BY <1>1, <1>2, <1>3, AssignedBegins
-----------------------------------------------------------------------------
\* What a call has left, when it executes its next statement.
LEMMA NextRecords ==
    ASSUME NEW tab, NEW whom, NEW q, q # <<>>, Recording(tab, whom, q)
    PROVE  \/ Records(tab, whom, Head(q)) /\ Recording(tab, whom, Tail(q))
           \/ Assigning(tab, q)
<1>1. CASE AllRecord(tab, whom, q)
  <2>1. PICK S : q \in Seq(S) /\ \A e \in S : Records(tab, whom, e)
    BY <1>1 DEF AllRecord
  <2>2. Head(q) \in S /\ Tail(q) \in Seq(S)
    BY <2>1, HeadTailProperties
  <2> QED
    BY <2>1, <2>2 DEF Recording, AllRecord
<1> QED
  BY <1>1 DEF Recording

LEMMA AssignmentTells ==
    /\ \A i, u : Assignment(i, u).do = "assignment" /\ Assignment(i, u).id = i /\ Assignment(i, u).to = u
    /\ \A i, f, x, y : /\ Note(i, f, x, y).do = "note" /\ Note(i, f, x, y).id = i
                       /\ Note(i, f, x, y).field = f
                       /\ Note(i, f, x, y).change.from = x /\ Note(i, f, x, y).change.to = y
    /\ \A ids : Drop(ids).do = "drop" /\ Drop(ids).ids = ids
BY DEF Assignment, Note, Drop

\* Any but the record of an assignment.
LEMMA OthersRecord ==
    ASSUME AssignedInv, NEW c \in Callers, ~Idle(c), Head(todo[c]).do # "assignment"
    PROVE  Records(row, Whom, Head(todo[c])) /\ Recording(row, Whom, Tail(todo[c]))
<1>1. ASSUME Assigning(row, todo[c]) PROVE FALSE
  BY <1>1, OfTwo, AssignmentTells DEF Assigning
<1>2. Recording(row, Whom, todo[c]) /\ todo[c] # <<>>
  BY DEF AssignedInv, Idle
<1> QED
  BY <1>1, <1>2, NextRecords

\* Those that insert nothing and assign nothing.
LEMMA AssignedExecutes ==
    ASSUME AssignedInv, NEW c \in Callers, ~Idle(c), Head(todo[c]).do # "assignment",
           NEW st, st \in {<<>>, Tail(todo[c])}, todo' = [todo EXCEPT ![c] = st],
           history' = history, handed' = handed, DOMAIN row' = Ids, AssigneesKnown(row', Whom),
           \A i \in Ids : row[i].kind # "none" =>
                row'[i].kind # "none" /\ (row'[i].kind = "lead" => row[i].kind = "lead")
    PROVE  AssignedInv'
<1>1. Whom' = Whom /\ Onward(row, Whom, row', Whom)
  BY DEF Whom, Onward
<1>2. Recording(row, Whom, st)
  BY OthersRecord, NoneRecord
<1>3. Recording(row', Whom, st)
  BY <1>1, <1>2, RecordingOn
<1> QED
  BY <1>1, <1>3, AssignedGoesOn DEF AssignedInv

LEMMA AssignedThrows ==
    ASSUME AssignedInv, NEW c \in Callers, ~Idle(c), Throw(c), history' = history, handed' = handed
    PROVE  AssignedInv'
<1>1. row' = row /\ todo' = [todo EXCEPT ![c] = <<>>] /\ Whom' = Whom
  BY DEF Throw, Whom
<1>2. AssigneesKnown(row', Whom') /\ Onward(row, Whom, row', Whom')
  BY <1>1 DEF AssignedInv, Onward
<1>3. Recording(row', Whom', <<>>)
  BY NoneRecord
<1> QED
  BY <1>1, <1>2, <1>3, AssignedGoesOn DEF AssignedInv

LEMMA AssignedUpdates ==
    ASSUME AssignedInv, NEW c \in Callers, Update(c), History
    PROVE  AssignedInv'
<1>0. ~Idle(c) /\ Head(todo[c]).do = "update"
  BY DEF Update
<1>1. CASE Throw(c)
  BY <1>0, <1>1, AssignedThrows DEF History
<1>2. CASE ~Throw(c)
  <2>1. PICK e : e = Head(todo[c])
    OBVIOUS
  <2>2. /\ row' = [i \in Ids |-> IF i \in e.ids /\ Exists(i) THEN Merge(row[i], e.set) ELSE row[i]]
        /\ todo' = [todo EXCEPT ![c] = Tail(@)]
    BY <1>2, <2>1 DEF Update
  <2>3. Records(row, Whom, e) /\ e.do = "update"
    BY <1>0, <2>1, OthersRecord
  <2>4. ASSUME NEW i \in Ids
        PROVE  /\ row[i].kind # "none" => row'[i].kind # "none" /\ (row'[i].kind = "lead" => row[i].kind = "lead")
               /\ "kind" \in DOMAIN row'[i]
               /\ row'[i].kind = "lead" => "assignee" \in DOMAIN row'[i] /\ row'[i].assignee \in Whom[i]
    <3>1. CASE i \in e.ids /\ Exists(i)
      <4>1. PICK new : new = Merge(row[i], e.set)
        OBVIOUS
      <4>2. DOMAIN new = DOMAIN row[i] /\ \A f \in DOMAIN row[i] : new[f] = IF f \in DOMAIN e.set THEN e.set[f] ELSE row[i][f]
        BY <4>1, MergeTells
      <4>3. row'[i] = new
        BY <3>1, <4>1, <2>2
      <4>4. "kind" \in DOMAIN row[i] /\ new.kind = row[i].kind
        BY <4>2, <2>3 DEF Records, AssignedInv, AssigneesKnown
      <4>5. CASE row[i].kind = "lead"
        BY <4>4, <4>5, <4>2, <4>3, <2>3, <3>1 DEF Records, AssignedInv, AssigneesKnown
      <4> QED
        BY <4>4, <4>5, <4>2, <4>3
    <3>2. CASE ~(i \in e.ids /\ Exists(i))
      BY <3>2, <2>2 DEF AssignedInv, AssigneesKnown
    <3> QED
      BY <3>1, <3>2
  <2>5. DOMAIN row' = Ids
    BY <2>2
  <2>6. AssigneesKnown(row', Whom)
    BY <2>4 DEF AssigneesKnown
  <2> QED
    BY <1>0, <2>2, <2>4, <2>5, <2>6, AssignedExecutes DEF History
<1> QED
  BY <1>1, <1>2
LEMMA AssignedInserts ==
    ASSUME AssignedInv, NEW c \in Callers, Insertion(c)
    PROVE  AssignedInv'
<1>0. ~Idle(c) /\ Head(todo[c]).do = "create" /\ Room
  BY DEF Insertion
<1>1. PICK e : e = Head(todo[c])
  OBVIOUS
<1>2. Records(row, Whom, e) /\ Recording(row, Whom, Tail(todo[c])) /\ e.do = "create"
  BY <1>0, <1>1, OthersRecord
<1>3. PICK n \in Ids : n = NextId /\ row[n] = NoRow
  BY <1>0, NextIsFree
<1>4. /\ row' = [row EXCEPT ![n] = e.set] /\ todo' = [todo EXCEPT ![c] = Tail(@)]
      /\ handed' = IF row'[n].kind = "lead" THEN [handed EXCEPT ![n] = {row'[n].assignee}] ELSE handed
      /\ history' = history
  BY <1>1, <1>3 DEF Insertion
<1>5. /\ DOMAIN row' = Ids /\ row'[n] = e.set /\ \A i \in Ids \ {n} : row'[i] = row[i]
      /\ DOMAIN handed' = Ids /\ DOMAIN history' = Ids /\ \A i \in Ids \ {n} : handed'[i] = handed[i]
      /\ row'[n].kind = "lead" => handed'[n] = {row'[n].assignee}
  BY <1>4 DEF AssignedInv
<1>6. \A i \in Ids : Whom'[i] = history'[i] \cup handed'[i]
  BY DEF Whom
<1>7. \A i \in Ids : Whom[i] = history[i] \cup handed[i]
  BY DEF Whom
<1>8. Onward(row, Whom, row', Whom')
  BY <1>3, <1>4, <1>5, <1>6, <1>7 DEF Onward, NoRow
<1>9. ASSUME NEW i \in Ids
      PROVE  /\ "kind" \in DOMAIN row'[i]
             /\ row'[i].kind = "lead" => "assignee" \in DOMAIN row'[i] /\ row'[i].assignee \in Whom'[i]
  <2>1. CASE i = n
    BY <2>1, <1>2, <1>5, <1>6 DEF Records
  <2>2. CASE i # n
    BY <2>2, <1>4, <1>5, <1>6, <1>7 DEF AssignedInv, AssigneesKnown
  <2> QED
    BY <2>1, <2>2
<1>10. AssigneesKnown(row', Whom')
  BY <1>9 DEF AssigneesKnown
<1>11. Recording(row', Whom', Tail(todo[c]))
  BY <1>2, <1>8, RecordingOn
<1> QED
  BY <1>4, <1>5, <1>8, <1>10, <1>11, AssignedGoesOn

LEMMA AssignmentWritten ==
    ASSUME AssignedInv, NEW c \in Callers, WriteAssignment(c)
    PROVE  AssignedInv'
<1>0. ~Idle(c) /\ Recording(row, Whom, todo[c]) /\ todo[c] # <<>>
  BY DEF WriteAssignment, AssignedInv, Idle
<1>1. PICK e : e = Head(todo[c])
  OBVIOUS
<1>2. /\ history' = [history EXCEPT ![e.id] = @ \cup {e.to}] /\ todo' = [todo EXCEPT ![c] = Tail(@)]
      /\ row' = row /\ handed' = handed
  BY <1>1 DEF WriteAssignment
<1>3. DOMAIN history' = Ids /\ DOMAIN handed' = Ids /\ \A i \in Ids : history[i] \subseteq history'[i]
  BY <1>2 DEF AssignedInv
<1>4. \A i \in Ids : Whom[i] = history[i] \cup handed[i] /\ Whom'[i] = history'[i] \cup handed'[i]
  BY DEF Whom
<1>5. Onward(row, Whom, row', Whom')
  BY <1>2, <1>3, <1>4 DEF Onward
<1>6. AssigneesKnown(row', Whom')
  BY <1>2, <1>3, <1>4 DEF AssignedInv, AssigneesKnown
<1>7. Recording(row', Whom', Tail(todo[c]))
  <2>1. CASE Recording(row, Whom, Tail(todo[c]))
    BY <2>1, <1>5, RecordingOn
  <2>2. CASE Assigning(row, todo[c])
    <3>0. PICK i \in Ids : \E u : row[i].kind # "none" /\ todo[c] = <<Assignment(i, u), Set(i, [assignee |-> u])>>
      BY <2>2 DEF Assigning
    <3>1. PICK u : row[i].kind # "none" /\ todo[c] = <<Assignment(i, u), Set(i, [assignee |-> u])>>
      BY <3>0
    <3>2. e = Assignment(i, u) /\ Tail(todo[c]) = <<Set(i, [assignee |-> u])>>
      BY <3>1, <1>1, OfTwo
    <3>3. u \in Whom'[i]
      BY <3>2, <1>2, <1>4, AssignmentTells DEF AssignedInv
    <3>4. PICK s : s = Set(i, [assignee |-> u])
      OBVIOUS
    <3>5. s.do = "update" /\ s.ids = {i} /\ s.set.assignee = u /\ DOMAIN s.set = {"assignee"}
      BY <3>4, Statements
    <3>6. Records(row', Whom', s)
      BY <3>1, <3>3, <3>5, <1>2 DEF Records
    <3> QED
      BY <3>2, <3>4, <3>6, OneRecords
  <2> QED
    BY <2>1, <2>2, <1>0, NextRecords
<1> QED
  BY <1>2, <1>3, <1>5, <1>6, <1>7, AssignedGoesOn DEF AssignedInv

LEMMA AssignedDrops ==
    ASSUME AssignedInv, NEW c \in Callers, DropRows(c)
    PROVE  AssignedInv'
<1>0. ~Idle(c) /\ Head(todo[c]).do = "drop" /\ history' = history /\ handed' = handed
  BY DEF DropRows
<1>1. CASE Throw(c)
  BY <1>0, <1>1, AssignedThrows
<1>2. CASE ~Throw(c)
  <2>1. PICK gone : row' = [i \in Ids |-> IF i \in gone THEN Gone ELSE row[i]]
    BY <1>2 DEF DropRows
  <2>2. todo' = [todo EXCEPT ![c] = Tail(@)] /\ DOMAIN row' = Ids
    BY <1>2, <2>1 DEF DropRows
  <2>3. \A i \in Ids : row'[i] = Gone \/ row'[i] = row[i]
    BY <2>1
  <2>4. /\ AssigneesKnown(row', Whom)
        /\ \A i \in Ids : row[i].kind # "none" =>
                row'[i].kind # "none" /\ (row'[i].kind = "lead" => row[i].kind = "lead")
    BY <2>3 DEF AssignedInv, AssigneesKnown, Gone
  <2> QED
    BY <1>0, <2>2, <2>4, AssignedExecutes
<1> QED
  BY <1>1, <1>2

LEMMA AssignedClears ==
    ASSUME AssignedInv, NEW c \in Callers, ClearPrimaries(c)
    PROVE  AssignedInv'
<1>0. /\ ~Idle(c) /\ Head(todo[c]).do = "clearPrimary" /\ history' = history /\ handed' = handed
      /\ todo' = [todo EXCEPT ![c] = Tail(@)]
  BY DEF ClearPrimaries
<1>1. PICK i : row' = [j \in Ids |->
                IF j \in OtherPrimaries(i) THEN [row[j] EXCEPT !.primary = FALSE] ELSE row[j]]
  BY DEF ClearPrimaries
<1>2. ASSUME NEW j \in Ids
      PROVE  \/ row'[j] = row[j]
             \/ row[j].kind = "contact" /\ row'[j] = [row[j] EXCEPT !.primary = FALSE]
  BY <1>1 DEF OtherPrimaries
<1>3. \A j \in Ids : row'[j].kind = row[j].kind /\ "kind" \in DOMAIN row'[j] /\ (row[j].kind = "lead" => row'[j] = row[j])
  BY <1>2 DEF AssignedInv, AssigneesKnown
<1>4. DOMAIN row' = Ids /\ AssigneesKnown(row', Whom)
  BY <1>1, <1>3 DEF AssignedInv, AssigneesKnown
<1> QED
  BY <1>0, <1>3, <1>4, AssignedExecutes

\* Any statement.
LEMMA AssignedStatement ==
    ASSUME AssignedInv, NEW c \in Callers, CrmStatement(c)
    PROVE  AssignedInv'
<1>1. CASE Update(c) /\ History
  BY <1>1, AssignedUpdates
<1>2. CASE Die(c) /\ History
  BY SMTT(60), <1>2, AssignedThrows DEF Die, History
<1>3. CASE Insertion(c)
  BY <1>3, AssignedInserts
<1>4. CASE WriteNote(c)
  <2>1. row' = row /\ DOMAIN row' = Ids /\ AssigneesKnown(row', Whom)
    BY <1>4 DEF WriteNote, AssignedInv
  <2> QED
    BY <1>4, <2>1, AssignedExecutes DEF WriteNote
<1>5. CASE WriteAssignment(c)
  BY <1>5, AssignmentWritten
<1>6. CASE DropRows(c)
  BY <1>6, AssignedDrops
<1>7. CASE ClearPrimaries(c)
  BY <1>7, AssignedClears
<1> QED
  BY <1>1, <1>2, <1>3, <1>4, <1>5, <1>6, <1>7 DEF CrmStatement
-----------------------------------------------------------------------------
\* The timeline of a field replays to a value.
Replays(told, v) ==
    /\ \E S : told \in Seq(S)
    /\ \A k \in 2..Len(told) : told[k].from = told[k - 1].to
    /\ told # <<>> => told[Len(told)].to = v
Fields(r) == {f \in Noted : r.kind \in DOMAIN Tracked /\ f \in Tracked[r.kind]}
AllReplay(tab, log) == \A i \in Ids : \A f \in Fields(tab[i]) : Replays(log[i][f], tab[i][f])

\* A write leaves alone what the timeline tells, but for some fields, and the
\* primary contacts.
Foremost(tab, i) == \A j \in Ids \ {i} : IsPrimary(tab[j]) => tab[j].owner # tab[i].owner
Calm(tab, but, i, set, telling) ==
    /\ i \in Ids /\ "kind" \notin DOMAIN set
    /\ \A f \in Fields(tab[i]) \ telling : f \in DOMAIN set => set[f] = tab[i][f]
    /\ tab[i].kind = "contact" =>
          /\ "owner" \notin DOMAIN set
          /\ "primary" \in DOMAIN set => ~set.primary \/ i \in but \/ Foremost(tab, i)

\* What a call has left: one write, the order of stages, an insert, a deletion,
\* a change and what tells of it, an assignment, or the mark of a contact.
Writing(tab, but, q) == \E i, set : q = <<Set(i, set)>> /\ Calm(tab, but, i, set, {})
Ordering(tab, q) ==
    \E S : q \in Seq(S) /\ \A e \in S :
        \E i \in Ids : \E set : e = Set(i, set) /\ tab[i].kind = "stage" /\ "kind" \notin DOMAIN set
AddingRow(q) == \E r : q = <<Insert(r)>> /\ OfCrm(r)
Dropping(q) == \E ids : q = <<Drop(ids)>>
Tracking(tab, but, q) ==
    \E i \in Ids, f \in Noted : \E set :
        /\ f \in DOMAIN set /\ Calm(tab, but, i, set, {f}) /\ tab[i].kind # "none"
        /\ q = <<Set(i, set), Note(i, f, tab[i][f], set[f])>>
Noting(tab, log, i, f, q) ==
    \E from, to :
        /\ q = <<Note(i, f, from, to)>> /\ tab[i].kind # "none"
        /\ f \in Fields(tab[i]) => to = tab[i][f] /\ Replays(log[i][f], from)
Giving(tab, but, q) ==
    \E i, u : q = <<Assignment(i, u), Set(i, [assignee |-> u])>> /\ Calm(tab, but, i, [assignee |-> u], {})
Clearing(i) == [do |-> "clearPrimary", id |-> i]
Marking(tab, q) ==
    \E i \in Ids : tab[i].kind = "contact" /\ q = <<Clearing(i), Set(i, [primary |-> TRUE])>>
Left(tab, log, but, q) ==
    \/ q = <<>> \/ Writing(tab, but, q) \/ Ordering(tab, q) \/ AddingRow(q) \/ Dropping(q)
    \/ Tracking(tab, but, q) \/ (\E i \in Ids, f \in Noted : Noting(tab, log, i, f, q))
    \/ Giving(tab, but, q) \/ Marking(tab, q)

\* The tables, and that the timeline replays but for what is about to be told.
CrmTables(tab, log) ==
    /\ DOMAIN tab = Ids /\ \A i \in Ids : OfCrm(tab[i])
    /\ DOMAIN log = Ids
    /\ \A i \in Ids : DOMAIN log[i] = Noted /\ (tab[i].kind = "none" => log[i] = Untold)
AllTold(tab, log, q) ==
    \A i \in Ids : \A f \in Fields(tab[i]) :
        Replays(log[i][f], tab[i][f]) \/ Noting(tab, log, i, f, q)
Upheld(tab, log, but, q) ==
    CrmTables(tab, log) /\ PrimariesApart(tab, but) /\ Left(tab, log, but, q) /\ AllTold(tab, log, q)

\* While calls come one after another to their end.
TimelineInv ==
    Orderly => /\ DOMAIN todo = Callers /\ OneCall
               /\ \A c \in Callers : (\A d \in Callers \ {c} : Idle(d)) => Upheld(row, timeline, claimed, todo[c])
CrmInv == AssignedInv /\ TimelineInv

\* The one call that runs begins or goes on.
LEMMA TimelineGoesOn ==
    ASSUME NEW c \in Callers, NEW st, DOMAIN todo = Callers, todo' = [todo EXCEPT ![c] = st],
           \A d \in Callers \ {c} : Idle(d), Upheld(row', timeline', claimed', st)
    PROVE  TimelineInv'
<1>1. DOMAIN todo' = Callers /\ todo'[c] = st /\ \A d \in Callers \ {c} : todo'[d] = <<>>
  BY DEF Idle
<1>2. OneCall'
  BY <1>1 DEF OneCall, Idle
<1>3. ASSUME NEW e \in Callers, \A d \in Callers \ {e} : todo'[d] = <<>>
      PROVE  Upheld(row', timeline', claimed', todo'[e])
  BY <1>1, <1>3
<1> QED
  BY <1>1, <1>2, <1>3 DEF TimelineInv, Idle

\* Whoever begins to execute is alone.
LEMMA OthersIdle ==
    ASSUME TimelineInv, Orderly, NEW c \in Callers, ~Idle(c)
    PROVE  /\ DOMAIN todo = Callers /\ \A d \in Callers \ {c} : Idle(d)
           /\ Upheld(row, timeline, claimed, todo[c]) /\ todo[c] # <<>>
BY DEF TimelineInv, OneCall, Idle

\* A statement is executed.
LEMMA TimelineExecutes ==
    ASSUME TimelineInv, NEW c \in Callers, ~Idle(c), todo' = [todo EXCEPT ![c] = Tail(@)],
           overlapped' = overlapped, died' = died,
           Orderly => Upheld(row', timeline', claimed', Tail(todo[c]))
    PROVE  TimelineInv'
<1>1. CASE Orderly
  <2>1. todo' = [todo EXCEPT ![c] = Tail(todo[c])]
    OBVIOUS
  <2> QED
    BY <1>1, <2>1, OthersIdle, TimelineGoesOn
<1>2. CASE ~Orderly
  BY <1>2 DEF TimelineInv, Orderly
<1> QED
  BY <1>1, <1>2
LEMMA TimelineThrows == ASSUME NEW c, Throw(c) PROVE TimelineInv'
BY DEF Throw, TimelineInv, Orderly

\* A call begins.
LEMMA TimelineBegins ==
    ASSUME TimelineInv, NEW c \in Callers, NEW st, Begin(c, st), timeline' = timeline,
           CrmTables(row, timeline) /\ PrimariesApart(row, claimed) =>
               Left(row, timeline, claimed', st) /\ PrimariesApart(row, claimed')
    PROVE  TimelineInv'
<1>1. row' = row /\ todo' = [todo EXCEPT ![c] = st] /\ overlapped' = (overlapped \/ ~Quiet) /\ died' = died
  BY DEF Begin
<1>2. CASE Orderly /\ Quiet
  <2>1. /\ DOMAIN todo = Callers /\ \A d \in Callers \ {c} : Idle(d)
        /\ todo[c] = <<>> /\ Upheld(row, timeline, claimed, <<>>)
    BY <1>2 DEF TimelineInv, Quiet, Idle
  <2>2. CrmTables(row, timeline) /\ PrimariesApart(row, claimed) /\ AllTold(row, timeline, <<>>)
    BY <2>1 DEF Upheld
  <2>3. AllTold(row, timeline, st)
    <3>1. \A i, f : ~Noting(row, timeline, i, f, <<>>)
      BY ShortLists DEF Noting
    <3> QED
      BY <2>2, <3>1 DEF AllTold
  <2>4. Left(row, timeline, claimed', st) /\ PrimariesApart(row, claimed')
    BY <2>2
  <2>5. Upheld(row', timeline', claimed', st)
    BY <1>1, <2>2, <2>3, <2>4 DEF Upheld
  <2> QED
    BY <1>1, <2>1, <2>5, TimelineGoesOn
<1>3. CASE ~(Orderly /\ Quiet)
  BY <1>1, <1>3 DEF TimelineInv, Orderly
<1> QED
  BY <1>2, <1>3
-----------------------------------------------------------------------------
\* What the next statement says of what a call has left.
LEMMA UpdateLeft ==
    ASSUME NEW tab, NEW log, NEW but, NEW q, Left(tab, log, but, q), q # <<>>, Head(q).do = "update"
    PROVE  Writing(tab, but, q) \/ Ordering(tab, q) \/ Tracking(tab, but, q)
<1>1. ASSUME AddingRow(q) PROVE FALSE
  BY <1>1, ShortLists, Statements DEF AddingRow
<1>2. ASSUME Dropping(q) PROVE FALSE
  BY <1>2, ShortLists, AssignmentTells DEF Dropping
<1>3. ASSUME NEW i, NEW f, Noting(tab, log, i, f, q) PROVE FALSE
  BY <1>3, ShortLists, AssignmentTells DEF Noting
<1>4. ASSUME Giving(tab, but, q) PROVE FALSE
  BY <1>4, ShortLists, AssignmentTells DEF Giving
<1>5. ASSUME Marking(tab, q) PROVE FALSE
  BY <1>5, ShortLists DEF Marking, Clearing
<1> QED
  BY <1>1, <1>2, <1>3, <1>4, <1>5 DEF Left
LEMMA OtherLeft ==
    ASSUME NEW tab, NEW log, NEW but, NEW q, Left(tab, log, but, q), q # <<>>, Head(q).do # "update"
    PROVE  \/ AddingRow(q) \/ Dropping(q) \/ \E i \in Ids, f \in Noted : Noting(tab, log, i, f, q)
           \/ Giving(tab, but, q) \/ Marking(tab, q)
<1>1. ASSUME Writing(tab, but, q) PROVE FALSE
  BY <1>1, ShortLists, Statements DEF Writing
<1>2. ASSUME Ordering(tab, q) PROVE FALSE
  <2>1. PICK S : q \in Seq(S) /\ \A e \in S :
            \E i \in Ids : \E set : e = Set(i, set) /\ tab[i].kind = "stage" /\ "kind" \notin DOMAIN set
    BY <1>2 DEF Ordering
  <2>2. Head(q) \in S
    BY <2>1, HeadTailProperties
  <2> QED
    BY <2>1, <2>2, Statements
<1>3. ASSUME Tracking(tab, but, q) PROVE FALSE
  BY <1>3, ShortLists, Statements DEF Tracking
<1> QED
  BY <1>1, <1>2, <1>3 DEF Left
LEMMA NamesLeft ==
    ASSUME NEW tab, NEW log, NEW but, NEW q, Left(tab, log, but, q), q # <<>>
    PROVE  /\ Head(q).do = "create" => AddingRow(q)
           /\ Head(q).do = "drop" => Dropping(q)
           /\ Head(q).do = "note" => \E i \in Ids, f \in Noted : Noting(tab, log, i, f, q)
           /\ Head(q).do = "assignment" => Giving(tab, but, q)
           /\ Head(q).do = "clearPrimary" => Marking(tab, q)
<1>1. AddingRow(q) => Head(q).do = "create"
  BY ShortLists, Statements DEF AddingRow
<1>2. Dropping(q) => Head(q).do = "drop"
  BY ShortLists, AssignmentTells DEF Dropping
<1>3. (\E i \in Ids, f \in Noted : Noting(tab, log, i, f, q)) => Head(q).do = "note"
  BY ShortLists, AssignmentTells DEF Noting
<1>4. Giving(tab, but, q) => Head(q).do = "assignment"
  BY ShortLists, AssignmentTells DEF Giving
<1>5. Marking(tab, q) => Head(q).do = "clearPrimary"
  BY ShortLists DEF Marking, Clearing
<1> QED
  BY <1>1, <1>2, <1>3, <1>4, <1>5, OtherLeft

\* Until it tells something, the timeline replays.
LEMMA ReplaysUntil ==
    ASSUME NEW tab, NEW log, NEW q, AllTold(tab, log, q), q # <<>>, Head(q).do # "note"
    PROVE  AllReplay(tab, log)
<1>1. ASSUME NEW i, NEW f, Noting(tab, log, i, f, q) PROVE FALSE
  BY <1>1, ShortLists, AssignmentTells DEF Noting
<1> QED
  BY <1>1 DEF AllTold, AllReplay

\* A row is written.
LEMMA RowWritten ==
    ASSUME NEW tab, NEW but, NEW i \in Ids, NEW set, NEW telling, Calm(tab, but, i, set, telling),
           \A j \in Ids : OfCrm(tab[j]), PrimariesApart(tab, but),
           NEW then, then[i] = Merge(tab[i], set), \A j \in Ids \ {i} : then[j] = tab[j]
    PROVE  /\ \A j \in Ids : OfCrm(then[j]) /\ then[j].kind = tab[j].kind /\ Fields(then[j]) = Fields(tab[j])
           /\ \A j \in Ids \ {i} : then[j] = tab[j]
           /\ \A f \in Fields(tab[i]) : then[i][f] = IF f \in DOMAIN set THEN set[f] ELSE tab[i][f]
           /\ PrimariesApart(then, but)
<1>1. PICK new : new = then[i]
  OBVIOUS
<1>2. DOMAIN new = DOMAIN tab[i] /\ \A f \in DOMAIN tab[i] : new[f] = IF f \in DOMAIN set THEN set[f] ELSE tab[i][f]
  BY <1>1, MergeTells
<1>3. new.kind = tab[i].kind
  BY <1>2 DEF Calm, OfCrm
<1>4. OfCrm(new) /\ Fields(new) = Fields(tab[i])
  BY <1>2, <1>3 DEF OfCrm, Fields
<1>5. ASSUME NEW f \in Fields(tab[i]) PROVE f \in DOMAIN tab[i]
  <2>1. f \in Tracked[tab[i].kind] /\ tab[i].kind \in DOMAIN Tracked
    BY DEF Fields
  <2>2. tab[i].kind \in DOMAIN CrmColumns /\ Tracked[tab[i].kind] \subseteq CrmColumns[tab[i].kind]
    BY <2>1 DEF Tracked, CrmColumns
  <2> QED
    BY <2>1, <2>2 DEF OfCrm
<1>6. PrimariesApart(then, but)
  <2>1. CASE tab[i].kind # "contact"
    BY <2>1, <1>1, <1>3 DEF PrimariesApart, IsPrimary
  <2>2. CASE tab[i].kind = "contact"
    <3>1. {"owner", "primary"} \subseteq DOMAIN tab[i]
      BY <2>2 DEF OfCrm, CrmColumns
    <3>2. new.owner = tab[i].owner
      BY <2>2, <3>1, <1>2 DEF Calm
    <3>3. IsPrimary(new) => IsPrimary(tab[i]) \/ i \in but \/ Foremost(tab, i)
      BY <2>2, <3>1, <1>2 DEF Calm, IsPrimary
    <3> QED
      BY <1>1, <3>2, <3>3 DEF PrimariesApart, Foremost
  <2> QED
    BY <2>1, <2>2
<1> QED
  BY <1>1, <1>2, <1>3, <1>4, <1>5, <1>6

\* So nothing else is to be told than what the write is about.
LEMMA WrittenTells ==
    ASSUME NEW tab, NEW log, NEW but, NEW i \in Ids, NEW set, NEW telling, Calm(tab, but, i, set, telling),
           CrmTables(tab, log), PrimariesApart(tab, but), AllReplay(tab, log),
           NEW then, DOMAIN then = Ids, then[i] = Merge(tab[i], set), \A j \in Ids \ {i} : then[j] = tab[j]
    PROVE  /\ CrmTables(then, log) /\ PrimariesApart(then, but)
           /\ \A j \in Ids : Fields(then[j]) = Fields(tab[j]) /\ then[j].kind = tab[j].kind
           /\ \A j \in Ids : \A f \in Fields(then[j]) :
                 Replays(log[j][f], then[j][f]) \/ (j = i /\ f \in telling)
           /\ \A f \in Fields(tab[i]) : then[i][f] = IF f \in DOMAIN set THEN set[f] ELSE tab[i][f]
<1>1. \A j \in Ids : OfCrm(tab[j])
  BY DEF CrmTables
<1>2. /\ \A j \in Ids : OfCrm(then[j]) /\ then[j].kind = tab[j].kind /\ Fields(then[j]) = Fields(tab[j])
      /\ \A j \in Ids \ {i} : then[j] = tab[j]
      /\ \A f \in Fields(tab[i]) : then[i][f] = IF f \in DOMAIN set THEN set[f] ELSE tab[i][f]
      /\ PrimariesApart(then, but)
  <2> HIDE DEF Fields, PrimariesApart, OfCrm, Calm
  <2> QED
    BY <1>1, RowWritten
<1>3. CrmTables(then, log)
  BY <1>2 DEF CrmTables
<1>4. ASSUME NEW j \in Ids, NEW f \in Fields(then[j]), ~(j = i /\ f \in telling)
      PROVE  Replays(log[j][f], then[j][f])
  <2>1. f \in Fields(tab[j]) /\ Replays(log[j][f], tab[j][f])
    BY <1>2 DEF AllReplay
  <2>2. then[j][f] = tab[j][f]
    <3>1. CASE j # i
      BY <3>1
    <3>2. CASE j = i
      BY <3>2, <2>1, <1>2, <1>4 DEF Calm
    <3> QED
      BY <3>1, <3>2
  <2> QED
    BY <2>1, <2>2
<1> QED
  BY <1>2, <1>3, <1>4
-----------------------------------------------------------------------------
\* The statements.
LEMMA SetTells ==
    ASSUME NEW q, q # <<>>, Upheld(row, timeline, claimed, q), NEW e, e = Head(q), e.do = "update",
           \E j \in e.ids : Exists(j), timeline' = timeline, claimed' = claimed,
           row' = [j \in Ids |-> IF j \in e.ids /\ Exists(j) THEN Merge(row[j], e.set) ELSE row[j]]
    PROVE  Upheld(row', timeline', claimed', Tail(q))
<1>1. CrmTables(row, timeline) /\ PrimariesApart(row, claimed) /\ AllReplay(row, timeline)
  BY ReplaysUntil DEF Upheld
<1>2. ASSUME NEW i \in Ids, NEW set, e = Set(i, set)
      PROVE  DOMAIN row' = Ids /\ row'[i] = Merge(row[i], set) /\ \A j \in Ids \ {i} : row'[j] = row[j]
  <2>1. e.ids = {i} /\ e.set = set
    BY <1>2, Statements
  <2> QED
    BY <2>1
<1>3. ASSUME NEW i \in Ids, NEW set, e = Set(i, set), NEW telling, Calm(row, claimed, i, set, telling)
      PROVE  /\ CrmTables(row', timeline) /\ PrimariesApart(row', claimed)
             /\ \A j \in Ids : Fields(row'[j]) = Fields(row[j]) /\ row'[j].kind = row[j].kind
             /\ \A j \in Ids : \A f \in Fields(row'[j]) :
                   Replays(timeline[j][f], row'[j][f]) \/ (j = i /\ f \in telling)
             /\ \A f \in Fields(row[i]) : row'[i][f] = IF f \in DOMAIN set THEN set[f] ELSE row[i][f]
  <2>1. PICK then : then = row'
    OBVIOUS
  <2>2. DOMAIN then = Ids /\ then[i] = Merge(row[i], set) /\ \A j \in Ids \ {i} : then[j] = row[j]
    BY <1>2, <1>3, <2>1
  <2>3. /\ CrmTables(then, timeline) /\ PrimariesApart(then, claimed)
        /\ \A j \in Ids : Fields(then[j]) = Fields(row[j]) /\ then[j].kind = row[j].kind
        /\ \A j \in Ids : \A f \in Fields(then[j]) :
              Replays(timeline[j][f], then[j][f]) \/ (j = i /\ f \in telling)
        /\ \A f \in Fields(row[i]) : then[i][f] = IF f \in DOMAIN set THEN set[f] ELSE row[i][f]
    <3> HIDE DEF CrmTables, PrimariesApart, AllReplay, Replays, Fields, Calm
    <3> QED
      BY <1>1, <1>3, <2>2, WrittenTells
  <2> QED
    BY <2>1, <2>3
<1>4. CASE Writing(row, claimed, q)
  <2>1. PICK i, set : q = <<Set(i, set)>> /\ Calm(row, claimed, i, set, {})
    BY <1>4 DEF Writing
  <2>2. e = Set(i, set) /\ Tail(q) = <<>> /\ i \in Ids
    BY <2>1, ShortLists DEF Calm
  <2>3. CrmTables(row', timeline) /\ PrimariesApart(row', claimed) /\ AllTold(row', timeline, <<>>)
    BY <2>1, <2>2, <1>3 DEF AllTold
  <2> QED
    BY <2>2, <2>3 DEF Upheld, Left
<1>5. CASE Ordering(row, q)
  <2>1. PICK S : q \in Seq(S) /\ \A x \in S :
            \E i \in Ids : \E set : x = Set(i, set) /\ row[i].kind = "stage" /\ "kind" \notin DOMAIN set
    BY <1>5 DEF Ordering
  <2>2. e \in S /\ Tail(q) \in Seq(S)
    BY <2>1, HeadTailProperties
  <2>3. PICK i \in Ids : \E set : e = Set(i, set) /\ row[i].kind = "stage" /\ "kind" \notin DOMAIN set
    BY <2>1, <2>2
  <2>4. PICK set : e = Set(i, set) /\ row[i].kind = "stage" /\ "kind" \notin DOMAIN set
    BY <2>3
  <2>5. Fields(row[i]) = {}
    BY <2>4 DEF Fields, Tracked
  <2>6. Calm(row, claimed, i, set, {})
    BY <2>4, <2>5 DEF Calm
  <2>7. /\ CrmTables(row', timeline) /\ PrimariesApart(row', claimed) /\ AllTold(row', timeline, Tail(q))
        /\ \A j \in Ids : row'[j].kind = row[j].kind
    BY <2>4, <2>6, <1>3 DEF AllTold
  <2>8. \A x \in S : \E k \in Ids : \E to : x = Set(k, to) /\ row'[k].kind = "stage" /\ "kind" \notin DOMAIN to
    BY <2>1, <2>7
  <2>9. Ordering(row', Tail(q))
    BY <2>2, <2>8 DEF Ordering
  <2> QED
    BY <2>7, <2>9 DEF Upheld, Left
<1>6. CASE Tracking(row, claimed, q)
  <2>1. PICK i \in Ids, f \in Noted : \E set :
            /\ f \in DOMAIN set /\ Calm(row, claimed, i, set, {f}) /\ row[i].kind # "none"
            /\ q = <<Set(i, set), Note(i, f, row[i][f], set[f])>>
    BY <1>6 DEF Tracking
  <2>2. PICK set : /\ f \in DOMAIN set /\ Calm(row, claimed, i, set, {f}) /\ row[i].kind # "none"
                   /\ q = <<Set(i, set), Note(i, f, row[i][f], set[f])>>
    BY <2>1
  <2>3. e = Set(i, set) /\ Tail(q) = <<Note(i, f, row[i][f], set[f])>>
    BY <2>2, OfTwo
  <2>4. /\ CrmTables(row', timeline) /\ PrimariesApart(row', claimed)
        /\ \A j \in Ids : Fields(row'[j]) = Fields(row[j]) /\ row'[j].kind = row[j].kind
        /\ \A j \in Ids : \A g \in Fields(row'[j]) :
              Replays(timeline[j][g], row'[j][g]) \/ (j = i /\ g \in {f})
        /\ \A g \in Fields(row[i]) : row'[i][g] = IF g \in DOMAIN set THEN set[g] ELSE row[i][g]
    BY <2>2, <2>3, <1>3
  <2>5. f \in Fields(row'[i]) => set[f] = row'[i][f] /\ Replays(timeline[i][f], row[i][f])
    BY <2>2, <2>4, <1>1 DEF AllReplay
  <2>6. Noting(row', timeline, i, f, Tail(q))
    BY <2>2, <2>3, <2>4, <2>5 DEF Noting
  <2>7. AllTold(row', timeline, Tail(q))
    BY <2>4, <2>6 DEF AllTold
  <2> QED
    BY SMTT(60), <2>4, <2>6, <2>7 DEF Upheld, Left
<1> QED
  BY <1>4, <1>5, <1>6, UpdateLeft DEF Upheld

LEMMA TimelineUpdates ==
    ASSUME TimelineInv, NEW c \in Callers, Update(c), History
    PROVE  TimelineInv'
<1>0. ~Idle(c) /\ Head(todo[c]).do = "update" /\ timeline' = timeline /\ claimed' = claimed
  BY DEF Update, History
<1>1. CASE Throw(c)
  BY <1>1, TimelineThrows
<1>2. CASE ~Throw(c)
  <2>1. PICK e : e = Head(todo[c])
    OBVIOUS
  <2>2. /\ row' = [i \in Ids |-> IF i \in e.ids /\ Exists(i) THEN Merge(row[i], e.set) ELSE row[i]]
        /\ todo' = [todo EXCEPT ![c] = Tail(@)] /\ overlapped' = overlapped /\ died' = died
        /\ ~(e.ids # {} /\ \A i \in e.ids : ~Exists(i))
    BY <1>2, <2>1 DEF Update
  <2>3. ASSUME Orderly PROVE Upheld(row', timeline', claimed', Tail(todo[c]))
    <3>1. Upheld(row, timeline, claimed, todo[c]) /\ todo[c] # <<>>
      BY <1>0, <2>3, OthersIdle
    <3>2. \E i \in e.ids : Exists(i)
      <4>1. Left(row, timeline, claimed, todo[c])
        BY <3>1 DEF Upheld
      <4>2. e.ids # {}
        <5>1. ASSUME NEW i, NEW set, e = Set(i, set) PROVE e.ids # {}
          <6>1. Set(i, set).ids = {i}
            BY Statements
          <6> QED
            BY <5>1, <6>1
        <5>2. CASE Writing(row, claimed, todo[c])
          BY <5>1, <5>2, <2>1, ShortLists DEF Writing
        <5>3. CASE Ordering(row, todo[c])
          BY <5>1, <5>3, <2>1, <3>1, HeadTailProperties DEF Ordering
        <5>4. CASE Tracking(row, claimed, todo[c])
          BY <5>1, <5>4, <2>1, ShortLists DEF Tracking
        <5> QED
          BY <5>2, <5>3, <5>4, <4>1, <1>0, <3>1, UpdateLeft
      <4> QED
        BY <4>2, <2>2
    <3> QED
      BY <1>0, <2>1, <2>2, <3>1, <3>2, SetTells
  <2> QED
    BY <1>0, <2>2, <2>3, TimelineExecutes
<1> QED
  BY <1>1, <1>2

\* The empty timeline of a field, and one told more.
LEMMA UntoldReplays == \A f \in Noted : \A v : Replays(Untold[f], v)
<1>1. \A f \in Noted : Untold[f] = <<>>
  BY DEF Untold
<1>2. <<>> \in Seq({}) /\ Len(<<>>) = 0 /\ 2..0 = {}
  OBVIOUS
<1> QED
  BY <1>1, <1>2 DEF Replays
LEMMA OneMoreReplays ==
    ASSUME NEW told, NEW n, Replays(told, n.from)
    PROVE  Replays(Append(told, n), n.to)
<1>1. PICK S : told \in Seq(S)
  BY DEF Replays
<1> DEFINE T == S \cup {n}
<1>2. told \in Seq(T) /\ n \in T
  BY <1>1
<1> HIDE DEF T
<1>3. PICK more : more = Append(told, n)
  OBVIOUS
<1>4. /\ more \in Seq(T) /\ Len(more) = Len(told) + 1 /\ Len(told) \in Nat
      /\ more[Len(told) + 1] = n /\ \A k \in 1..Len(told) : more[k] = told[k]
  BY <1>2, <1>3, AppendProperties
<1>5. ASSUME NEW k \in 2..Len(more) PROVE more[k].from = more[k - 1].to
  <2>1. CASE k = Len(told) + 1
    <3>1. told # <<>> /\ k - 1 = Len(told) /\ more[k - 1] = told[Len(told)]
      BY <1>4, <2>1, <1>2, EmptySeq
    <3> QED
      BY <2>1, <3>1, <1>4 DEF Replays
  <2>2. CASE k # Len(told) + 1
    <3>1. k \in 2..Len(told) /\ k \in 1..Len(told) /\ k - 1 \in 1..Len(told)
      BY <1>4, <2>2
    <3> QED
      BY SMTT(60), <3>1, <1>4 DEF Replays
  <2> QED
    BY <2>1, <2>2
<1> QED
  BY <1>3, <1>4, <1>5 DEF Replays

LEMMA TimelineInserts ==
    ASSUME TimelineInv, NEW c \in Callers, Insertion(c)
    PROVE  TimelineInv'
<1>0. ~Idle(c) /\ Head(todo[c]).do = "create" /\ Room
  BY DEF Insertion
<1>1. PICK n \in Ids : n = NextId /\ row[n] = NoRow
  BY <1>0, NextIsFree
<1>2. PICK e : e = Head(todo[c])
  OBVIOUS
<1>3. /\ row' = [row EXCEPT ![n] = e.set] /\ todo' = [todo EXCEPT ![c] = Tail(@)]
      /\ claimed' = IF row'[n].kind = "contact" /\ row'[n].primary THEN claimed \cup {n} ELSE claimed
      /\ timeline' = timeline /\ overlapped' = overlapped /\ died' = died
  BY <1>1, <1>2 DEF Insertion
<1>4. ASSUME Orderly PROVE Upheld(row', timeline', claimed', Tail(todo[c]))
  <2>1. Upheld(row, timeline, claimed, todo[c]) /\ todo[c] # <<>>
    BY <1>0, <1>4, OthersIdle
  <2>2. AddingRow(todo[c])
    BY <2>1, <1>0, NamesLeft DEF Upheld
  <2>3. PICK r : todo[c] = <<Insert(r)>> /\ OfCrm(r)
    BY <2>2 DEF AddingRow
  <2>4. e.set = r /\ Tail(todo[c]) = <<>>
    BY <2>3, <1>2, ShortLists, Statements
  <2>5. CrmTables(row, timeline) /\ PrimariesApart(row, claimed) /\ AllReplay(row, timeline)
    BY <2>1, <1>0, ReplaysUntil DEF Upheld
  <2>6. DOMAIN row' = Ids /\ row'[n] = r /\ \A j \in Ids \ {n} : row'[j] = row[j]
    BY <1>3, <2>4, <2>5 DEF CrmTables
  <2>7. timeline[n] = Untold
    BY <1>1, <2>5 DEF CrmTables, NoRow
  <2>8. CrmTables(row', timeline')
    BY <1>3, <2>3, <2>5, <2>6, <2>7 DEF CrmTables
  <2>9. PrimariesApart(row', claimed')
    <3>1. n \notin claimed' => ~IsPrimary(row'[n])
      BY <1>3 DEF IsPrimary
    <3>2. claimed \subseteq claimed'
      BY <1>3
    <3> QED
      BY <2>5, <2>6, <3>1, <3>2 DEF PrimariesApart
  <2>10. ASSUME NEW i \in Ids, NEW f \in Fields(row'[i]) PROVE Replays(timeline'[i][f], row'[i][f])
    <3>1. CASE i = n
      BY <3>1, <2>7, <1>3, UntoldReplays DEF Fields
    <3>2. CASE i # n
      BY <3>2, <2>5, <2>6, <1>3 DEF AllReplay
    <3> QED
      BY <3>1, <3>2
  <2>11. AllTold(row', timeline', <<>>)
    BY <2>10 DEF AllTold
  <2> QED
    BY <2>4, <2>8, <2>9, <2>11 DEF Upheld, Left
<1> QED
  BY <1>0, <1>3, <1>4, TimelineExecutes

LEMMA NoteWritten ==
    ASSUME TimelineInv, NEW c \in Callers, WriteNote(c)
    PROVE  TimelineInv'
<1>0. ~Idle(c) /\ Head(todo[c]).do = "note"
  BY SMTT(60) DEF WriteNote
<1>1. PICK e : e = Head(todo[c])
  OBVIOUS
<1>2. /\ timeline' = [timeline EXCEPT ![e.id] = [timeline[e.id] EXCEPT ![e.field] = Append(@, e.change)]]
      /\ todo' = [todo EXCEPT ![c] = Tail(@)]
      /\ row' = row /\ claimed' = claimed /\ overlapped' = overlapped /\ died' = died
  BY <1>1 DEF WriteNote
<1>3. ASSUME Orderly PROVE Upheld(row', timeline', claimed', Tail(todo[c]))
  <2>1. Upheld(row, timeline, claimed, todo[c]) /\ todo[c] # <<>>
    BY <1>0, <1>3, OthersIdle
  <2>2. PICK i \in Ids, f \in Noted : Noting(row, timeline, i, f, todo[c])
    BY <2>1, <1>0, NamesLeft DEF Upheld
  <2>3. PICK from, to :
            /\ todo[c] = <<Note(i, f, from, to)>> /\ row[i].kind # "none"
            /\ f \in Fields(row[i]) => to = row[i][f] /\ Replays(timeline[i][f], from)
    BY <2>2 DEF Noting
  <2>4. PICK n : n = Note(i, f, from, to)
    OBVIOUS
  <2>5. n.id = i /\ n.field = f /\ n.change.from = from /\ n.change.to = to /\ e = n /\ Tail(todo[c]) = <<>>
    BY <2>3, <2>4, <1>1, ShortLists, AssignmentTells
  <2>6. CrmTables(row, timeline) /\ PrimariesApart(row, claimed) /\ AllTold(row, timeline, todo[c])
    BY SMTT(60), <2>1 DEF Upheld
  <2>7. /\ DOMAIN timeline' = Ids /\ \A j \in Ids \ {i} : timeline'[j] = timeline[j]
        /\ DOMAIN timeline'[i] = Noted /\ timeline'[i][f] = Append(timeline[i][f], n.change)
        /\ \A g \in Noted \ {f} : timeline'[i][g] = timeline[i][g]
    BY SMTT(60), <1>2, <2>5, <2>6 DEF CrmTables
  <2>8. CrmTables(row', timeline')
    BY <1>2, <2>3, <2>6, <2>7 DEF CrmTables
  <2>9. ASSUME NEW j \in Ids, NEW g \in Fields(row[j]) PROVE Replays(timeline'[j][g], row[j][g])
    <3>1. CASE j = i /\ g = f
      BY <3>1, <2>3, <2>5, <2>7, OneMoreReplays
    <3>2. CASE ~(j = i /\ g = f)
      <4>1. ~Noting(row, timeline, j, g, todo[c])
        <5>1. ASSUME NEW x, NEW y, <<Note(j, g, x, y)>> = todo[c] PROVE FALSE
          BY <5>1, <3>2, <2>5, <1>1, ShortLists, AssignmentTells
        <5> QED
          BY <5>1 DEF Noting
      <4>2. Replays(timeline[j][g], row[j][g])
        BY <4>1, <2>6 DEF AllTold
      <4>3. timeline'[j][g] = timeline[j][g]
        BY <3>2, <2>7 DEF Fields
      <4> QED
        BY <4>2, <4>3
    <3> QED
      BY <3>1, <3>2
  <2>10. AllTold(row', timeline', <<>>)
    BY <1>2, <2>9 DEF AllTold
  <2> QED
    BY <1>2, <2>5, <2>6, <2>8, <2>10 DEF Upheld, Left
<1> QED
  BY <1>0, <1>2, <1>3, TimelineExecutes

LEMMA TimelineAssigns ==
    ASSUME TimelineInv, NEW c \in Callers, WriteAssignment(c)
    PROVE  TimelineInv'
<1>0. /\ ~Idle(c) /\ Head(todo[c]).do = "assignment"
      /\ todo' = [todo EXCEPT ![c] = Tail(@)] /\ timeline' = timeline
      /\ row' = row /\ claimed' = claimed /\ overlapped' = overlapped /\ died' = died
  BY DEF WriteAssignment
<1>1. ASSUME Orderly PROVE Upheld(row', timeline', claimed', Tail(todo[c]))
  <2>1. Upheld(row, timeline, claimed, todo[c]) /\ todo[c] # <<>>
    BY <1>0, <1>1, OthersIdle
  <2>2. Giving(row, claimed, todo[c])
    BY <2>1, <1>0, NamesLeft DEF Upheld
  <2>3. PICK i, u : /\ todo[c] = <<Assignment(i, u), Set(i, [assignee |-> u])>>
                    /\ Calm(row, claimed, i, [assignee |-> u], {})
    BY <2>2 DEF Giving
  <2>4. Tail(todo[c]) = <<Set(i, [assignee |-> u])>>
    BY <2>3, OfTwo
  <2>5. Writing(row, claimed, Tail(todo[c]))
    BY <2>3, <2>4 DEF Writing
  <2>6. AllTold(row, timeline, Tail(todo[c]))
    BY <2>1, <1>0, ReplaysUntil DEF Upheld, AllReplay, AllTold
  <2> QED
    BY <1>0, <2>1, <2>5, <2>6 DEF Upheld, Left
<1> QED
  BY <1>0, <1>1, TimelineExecutes

LEMMA TimelineDrops ==
    ASSUME TimelineInv, NEW c \in Callers, DropRows(c)
    PROVE  TimelineInv'
<1>0. ~Idle(c) /\ Head(todo[c]).do = "drop" /\ timeline' = timeline /\ claimed' = claimed
  BY DEF DropRows
<1>1. CASE Throw(c)
  BY <1>1, TimelineThrows
<1>2. CASE ~Throw(c)
  <2>1. PICK gone : row' = [i \in Ids |-> IF i \in gone THEN Gone ELSE row[i]]
    BY <1>2 DEF DropRows
  <2>2. todo' = [todo EXCEPT ![c] = Tail(@)] /\ overlapped' = overlapped /\ died' = died
    BY <1>2 DEF DropRows
  <2>3. ASSUME Orderly PROVE Upheld(row', timeline', claimed', Tail(todo[c]))
    <3>1. Upheld(row, timeline, claimed, todo[c]) /\ todo[c] # <<>>
      BY <1>0, <2>3, OthersIdle
    <3>2. Tail(todo[c]) = <<>>
      <4>1. Dropping(todo[c])
        BY <3>1, <1>0, NamesLeft DEF Upheld
      <4> QED
        BY <4>1, ShortLists DEF Dropping
    <3>3. CrmTables(row, timeline) /\ PrimariesApart(row, claimed) /\ AllReplay(row, timeline)
      BY <3>1, <1>0, ReplaysUntil DEF Upheld
    <3>4. /\ DOMAIN row' = Ids
          /\ \A i \in Ids : row'[i] = row[i] \/ (row'[i].kind = "gone" /\ "kind" \in DOMAIN row'[i])
      BY <2>1 DEF Gone
    <3>5. \A i \in Ids : row'[i].kind = "gone" => Fields(row'[i]) = {}
      BY DEF Fields, Tracked
    <3>6. CrmTables(row', timeline')
      BY <1>0, <3>3, <3>4 DEF CrmTables, OfCrm, CrmColumns
    <3>7. PrimariesApart(row', claimed')
      BY <1>0, <3>3, <3>4 DEF PrimariesApart, IsPrimary
    <3>8. AllTold(row', timeline', <<>>)
      BY <1>0, <3>3, <3>4, <3>5 DEF AllReplay, AllTold
    <3> QED
      BY <3>2, <3>6, <3>7, <3>8 DEF Upheld, Left
  <2> QED
    BY <1>0, <2>2, <2>3, TimelineExecutes
<1> QED
  BY <1>1, <1>2

LEMMA TimelineClears ==
    ASSUME TimelineInv, NEW c \in Callers, ClearPrimaries(c)
    PROVE  TimelineInv'
<1>0. /\ ~Idle(c) /\ Head(todo[c]).do = "clearPrimary" /\ timeline' = timeline
      /\ todo' = [todo EXCEPT ![c] = Tail(@)] /\ overlapped' = overlapped /\ died' = died
  BY DEF ClearPrimaries
<1>1. PICK e : e = Head(todo[c])
  OBVIOUS
<1>2. /\ row' = [j \in Ids |->
                IF j \in OtherPrimaries(e.id) THEN [row[j] EXCEPT !.primary = FALSE] ELSE row[j]]
      /\ claimed' = claimed \ (OtherPrimaries(e.id) \cup {e.id})
  BY <1>1 DEF ClearPrimaries
<1>3. ASSUME Orderly PROVE Upheld(row', timeline', claimed', Tail(todo[c]))
  <2>1. Upheld(row, timeline, claimed, todo[c]) /\ todo[c] # <<>>
    BY <1>0, <1>3, OthersIdle
  <2>2. Marking(row, todo[c])
    BY <2>1, <1>0, NamesLeft DEF Upheld
  <2>3. PICK i \in Ids : row[i].kind = "contact" /\ todo[c] = <<Clearing(i), Set(i, [primary |-> TRUE])>>
    BY <2>2 DEF Marking
  <2>4. e.id = i /\ Tail(todo[c]) = <<Set(i, [primary |-> TRUE])>>
    BY <2>3, <1>1, OfTwo DEF Clearing
  <2>5. CrmTables(row, timeline) /\ PrimariesApart(row, claimed) /\ AllReplay(row, timeline)
    BY <2>1, <1>0, ReplaysUntil DEF Upheld
  <2>6. ASSUME NEW j \in Ids
        PROVE  /\ row'[j].kind = row[j].kind /\ DOMAIN row'[j] = DOMAIN row[j]
               /\ \A f \in DOMAIN row[j] \ {"primary"} : row'[j][f] = row[j][f]
               /\ j \notin OtherPrimaries(i) => row'[j] = row[j]
               /\ j \in OtherPrimaries(i) => row[j].kind = "contact" /\ ~row'[j].primary
    <3>1. CASE j \in OtherPrimaries(i)
      <4>1. PICK r : r = row[j]
        OBVIOUS
      <4>2. row'[j] = [r EXCEPT !.primary = FALSE] /\ r.kind = "contact"
        BY <3>1, <4>1, <1>2, <2>4 DEF OtherPrimaries
      <4>3. OfCrm(r)
        BY <4>1, <2>5 DEF CrmTables
      <4>4. "kind" \in DOMAIN r /\ "primary" \in DOMAIN r
        BY <4>2, <4>3 DEF OfCrm, CrmColumns
      <4> QED
        BY <3>1, <4>1, <4>2, <4>4
    <3>2. CASE j \notin OtherPrimaries(i)
      BY <3>2, <1>2, <2>4
    <3> QED
      BY <3>1, <3>2
  <2>7. \A j \in Ids : OfCrm(row[j])
    BY <2>5 DEF CrmTables
  <2>8. \A j \in Ids : OfCrm(row'[j]) /\ Fields(row'[j]) = Fields(row[j])
    BY <2>6, <2>7 DEF OfCrm, Fields
  <2>9. CrmTables(row', timeline')
    BY <1>0, <1>2, <2>5, <2>6, <2>8 DEF CrmTables
  <2>10. \A j \in Ids : row[j].kind = "contact" => row'[j].owner = row[j].owner
    BY <2>6, <2>7 DEF OfCrm, CrmColumns
  <2>11. \A j \in Ids : IsPrimary(row'[j]) => IsPrimary(row[j]) /\ j \notin OtherPrimaries(i)
    BY <2>6 DEF IsPrimary
  <2>12. Foremost(row', i)
    BY <2>3, <2>10, <2>11 DEF Foremost, IsPrimary, OtherPrimaries
  <2>13. PrimariesApart(row', claimed')
    <3>1. ASSUME NEW j \in Ids \ claimed', NEW k \in Ids \ claimed',
                 IsPrimary(row'[j]), IsPrimary(row'[k]), row'[j].owner = row'[k].owner
          PROVE  j = k
      <4>1. CASE j = i
        BY <4>1, <3>1, <2>12 DEF Foremost
      <4>2. CASE k = i
        BY <4>2, <3>1, <2>12 DEF Foremost
      <4>3. CASE j # i /\ k # i
        <5>1. j \notin claimed /\ k \notin claimed
          BY <4>3, <3>1, <2>11, <1>2, <2>4
        <5> QED
          BY <5>1, <3>1, <2>5, <2>10, <2>11 DEF PrimariesApart, IsPrimary
      <4> QED
        BY <4>1, <4>2, <4>3
    <3> QED
      BY <3>1 DEF PrimariesApart
  <2>14. ASSUME NEW j \in Ids, NEW f \in Fields(row'[j]) PROVE Replays(timeline'[j][f], row'[j][f])
    <3>1. f \in Fields(row[j]) /\ Replays(timeline[j][f], row[j][f])
      BY <2>5, <2>8 DEF AllReplay
    <3>2. f # "primary" /\ f \in Tracked[row[j].kind] /\ row[j].kind \in DOMAIN Tracked
      BY <3>1 DEF Fields, Noted
    <3>3. row[j].kind \in DOMAIN CrmColumns /\ Tracked[row[j].kind] \subseteq CrmColumns[row[j].kind]
      BY <3>2 DEF Tracked, CrmColumns
    <3>4. f \in DOMAIN row[j]
      BY <2>7, <3>2, <3>3 DEF OfCrm
    <3> QED
      BY <3>1, <3>2, <3>4, <2>6, <1>0
  <2>15. Writing(row', claimed', Tail(todo[c]))
    <3>1. PICK set : set = [primary |-> TRUE]
      OBVIOUS
    <3>2. DOMAIN set = {"primary"}
      BY <3>1
    <3>3. "primary" \notin Fields(row'[i])
      BY DEF Fields, Noted
    <3>4. Calm(row', claimed', i, set, {})
      BY <3>2, <3>3, <2>12 DEF Calm
    <3> QED
      BY <2>4, <3>1, <3>4 DEF Writing
  <2>16. AllTold(row', timeline', Tail(todo[c]))
    BY <2>14 DEF AllTold
  <2> QED
    BY <2>9, <2>13, <2>15, <2>16 DEF Upheld, Left
<1> QED
  BY <1>0, <1>3, TimelineExecutes

\* Any statement.
LEMMA CrmExecutes ==
    ASSUME CrmInv, NEW c \in Callers, CrmStatement(c)
    PROVE  CrmInv'
<1>0. AssignedInv' /\ TimelineInv
  BY AssignedStatement DEF CrmInv
<1>1. CASE Update(c) /\ History
  BY <1>0, <1>1, TimelineUpdates DEF CrmInv
<1>2. CASE Die(c) /\ History
  BY <1>0, <1>2, TimelineThrows DEF Die, CrmInv
<1>3. CASE Insertion(c)
  BY <1>0, <1>3, TimelineInserts DEF CrmInv
<1>4. CASE WriteNote(c)
  BY <1>0, <1>4, NoteWritten DEF CrmInv
<1>5. CASE WriteAssignment(c)
  BY <1>0, <1>5, TimelineAssigns DEF CrmInv
<1>6. CASE DropRows(c)
  BY <1>0, <1>6, TimelineDrops DEF CrmInv
<1>7. CASE ClearPrimaries(c)
  BY <1>0, <1>7, TimelineClears DEF CrmInv
<1> QED
  BY <1>1, <1>2, <1>3, <1>4, <1>5, <1>6, <1>7 DEF CrmStatement
-----------------------------------------------------------------------------
\* A write of columns that nothing here is about.
PlainColumns(r, set) ==
    /\ "kind" \notin DOMAIN set /\ r.kind # "none"
    /\ r.kind \in DOMAIN CrmColumns => DOMAIN set \cap CrmColumns[r.kind] = {}
LEMMA PlainIsCalm ==
    ASSUME NEW i \in Ids, NEW set, PlainColumns(row[i], set)
    PROVE  Calm(row, claimed, i, set, {}) /\ Records(row, Whom, Set(i, set))
<1>1. ASSUME NEW f \in Fields(row[i]) PROVE f \notin DOMAIN set
  <2>1. row[i].kind \in DOMAIN Tracked /\ f \in Tracked[row[i].kind]
    BY DEF Fields
  <2>2. row[i].kind \in DOMAIN CrmColumns /\ Tracked[row[i].kind] \subseteq CrmColumns[row[i].kind]
    BY <2>1 DEF Tracked, CrmColumns
  <2> QED
    BY <2>1, <2>2 DEF PlainColumns
<1>2. row[i].kind = "contact" => "owner" \notin DOMAIN set /\ "primary" \notin DOMAIN set
  BY DEF PlainColumns, CrmColumns
<1>3. row[i].kind = "lead" => "assignee" \notin DOMAIN set
  BY DEF PlainColumns, CrmColumns
<1>4. PICK e : e = Set(i, set)
  OBVIOUS
<1>5. e.do = "update" /\ e.ids = {i} /\ e.set = set
  BY <1>4, Statements
<1>6. Records(row, Whom, e)
  BY <1>3, <1>5 DEF Records, PlainColumns
<1> QED
  BY <1>1, <1>2, <1>4, <1>6 DEF Calm, PlainColumns

\* A call begins that writes a row, or inserts one, or deletes one for good.
LEMMA WriteBegins ==
    ASSUME CrmInv, NEW c \in Callers, NEW i \in Ids, NEW set, PlainColumns(row[i], set),
           Begin(c, <<Set(i, set)>>), History
    PROVE  CrmInv'
<1>1. Recording(row, Whom, <<Set(i, set)>>)
  BY PlainIsCalm, OneRecords
<1>2. AssignedInv'
  BY <1>1, AssignedBegin DEF CrmInv, History
<1>3. Left(row, timeline, claimed, <<Set(i, set)>>)
  BY PlainIsCalm DEF Writing, Left
<1>4. TimelineInv'
  BY <1>3, TimelineBegins DEF CrmInv, History
<1> QED
  BY <1>2, <1>4 DEF CrmInv
LEMMA NewBegins ==
    ASSUME CrmInv, NEW c \in Callers, NEW r, OfCrm(r), BeginInsert(c, <<Insert(r)>>), History
    PROVE  CrmInv'
<1>1. PICK e : e = Insert(r)
  OBVIOUS
<1>2. e.do = "create" /\ e.set = r
  BY <1>1, Statements
<1>3. r.kind = "lead" => "assignee" \in DOMAIN r
  BY DEF OfCrm, CrmColumns
<1>4. Records(row, Whom, e)
  BY <1>2, <1>3 DEF Records, OfCrm
<1>5. AssignedInv'
  BY <1>1, <1>4, OneRecords, AssignedBegin DEF CrmInv, History, BeginInsert
<1>6. Left(row, timeline, claimed, <<Insert(r)>>)
  BY DEF AddingRow, Left
<1>7. TimelineInv'
  BY <1>6, TimelineBegins DEF CrmInv, History, BeginInsert
<1> QED
  BY <1>5, <1>7 DEF CrmInv
LEMMA DropBegins ==
    ASSUME CrmInv, NEW c \in Callers, NEW ids, Begin(c, <<Drop(ids)>>), History
    PROVE  CrmInv'
<1>1. PICK e : e = Drop(ids)
  OBVIOUS
<1>2. e.do = "drop"
  BY <1>1, AssignmentTells
<1>3. Records(row, Whom, e)
  BY <1>2 DEF Records
<1>4. AssignedInv'
  BY <1>1, <1>3, OneRecords, AssignedBegin DEF CrmInv, History
<1>5. Left(row, timeline, claimed, <<Drop(ids)>>)
  BY DEF Dropping, Left
<1>6. TimelineInv'
  BY <1>5, TimelineBegins DEF CrmInv, History
<1> QED
  BY <1>4, <1>6 DEF CrmInv

\* A call that changes a field, and tells of it.
LEMMA TrackBegins ==
    ASSUME CrmInv, NEW c \in Callers, NEW i \in Ids, NEW f \in Noted, NEW set, f \in DOMAIN set,
           "kind" \notin DOMAIN set, row[i].kind # "none", Fields(row[i]) \cap DOMAIN set \subseteq {f},
           row[i].kind = "contact" => DOMAIN set \cap {"owner", "primary"} = {},
           row[i].kind = "lead" => "assignee" \notin DOMAIN set,
           NEW x, x = set[f], Begin(c, <<Set(i, set), Note(i, f, row[i][f], x)>>), History
    PROVE  CrmInv'
<1>1. PICK e : e = Set(i, set)
  OBVIOUS
<1>2. e.do = "update" /\ e.ids = {i} /\ e.set = set
  BY <1>1, Statements
<1>3. PICK n : n = Note(i, f, row[i][f], x)
  OBVIOUS
<1>4. n.do = "note"
  BY <1>3, AssignmentTells
<1>5. Records(row, Whom, e) /\ Records(row, Whom, n)
  BY <1>2, <1>4 DEF Records
<1>6. AssignedInv'
  BY <1>1, <1>3, <1>5, TwoRecord, AssignedBegin DEF CrmInv, History
<1>7. Calm(row, claimed, i, set, {f})
  BY DEF Calm
<1>8. Left(row, timeline, claimed, <<Set(i, set), Note(i, f, row[i][f], x)>>)
  BY <1>7 DEF Tracking, Left
<1>9. TimelineInv'
  BY <1>8, TimelineBegins DEF CrmInv, History
<1> QED
  BY <1>6, <1>9 DEF CrmInv

\* The same by the operators of the module.
LEMMA ColumnsKeep ==
    ASSUME CrmInv, NEW c \in Callers, NEW i \in Ids, NEW kind, kind # "none", NEW set, Change(c, i, kind, set),
           "kind" \notin DOMAIN set, kind \in DOMAIN CrmColumns => DOMAIN set \cap CrmColumns[kind] = {}
    PROVE  CrmInv'
<1>1. row[i].kind = kind /\ Begin(c, <<Set(i, set)>>) /\ History
  BY DEF Change, Found
<1>2. PlainColumns(row[i], set)
  BY <1>1 DEF PlainColumns
<1> QED
  BY <1>1, <1>2, WriteBegins
LEMMA TrackKeeps ==
    ASSUME CrmInv, NEW c \in Callers, NEW i \in Ids, NEW kind \in {"contact", "deal", "activity"}, NEW f \in Noted,
           NEW to, Track(c, i, kind, f, to), kind = "contact" => f # "owner"
    PROVE  CrmInv'
<1>1. PICK set : set = [g \in {f} |-> to]
  OBVIOUS
<1>2. DOMAIN set = {f} /\ set[f] = to
  BY <1>1
<1>3. row[i].kind = kind /\ Begin(c, <<Set(i, set), Note(i, f, row[i][f], to)>>) /\ History
  BY <1>1 DEF Track, Found, Set
<1>4. f # "kind" /\ f # "primary"
  BY DEF Noted
<1> QED
  BY <1>2, <1>3, <1>4, TrackBegins
LEMMA CommentKeeps ==
    ASSUME CrmInv, NEW c \in Callers, NEW i \in Ids, NEW kind, Comment(c, i, kind)
    PROVE  CrmInv'
<1>1. OfCrm(Remark(i))
  BY DEF OfCrm, Remark, CrmColumns
<1> QED
  BY <1>1, NewBegins DEF Comment
LEMMA ArchivesKeep ==
    ASSUME CrmInv, NEW c \in Callers, NEW i \in Ids, NEW kind \in {"lead", "company", "contact", "deal", "activity", "remark"},
           CrmArchive(c, i, kind) \/ CrmRestore(c, i, kind) \/ SoftDelete(c, i, kind)
    PROVE  CrmInv'
<1>1. ASSUME NEW b, Change(c, i, kind, [archived |-> b]) PROVE CrmInv'
  <2>1. DOMAIN [archived |-> b] = {"archived"}
    OBVIOUS
  <2>2. kind \in DOMAIN CrmColumns => "archived" \notin CrmColumns[kind]
    BY DEF CrmColumns
  <2> QED
    BY <1>1, <2>1, <2>2, ColumnsKeep
<1>2. ASSUME Change(c, i, kind, [deleted |-> TRUE]) PROVE CrmInv'
  <2>1. DOMAIN [deleted |-> TRUE] = {"deleted"}
    OBVIOUS
  <2>2. kind \in DOMAIN CrmColumns => "deleted" \notin CrmColumns[kind]
    BY DEF CrmColumns
  <2> QED
    BY <1>2, <2>1, <2>2, ColumnsKeep
<1> QED
  BY <1>1, <1>2 DEF CrmArchive, CrmRestore, SoftDelete, Change
-----------------------------------------------------------------------------
\* Leads.
LEMMA NoteOrNot ==
    ASSUME NEW e, NEW n, NEW b
    PROVE  <<e>> \o (IF b THEN <<n>> ELSE <<>>) = IF b THEN <<e, n>> ELSE <<e>>
<1>1. CASE b
  BY <1>1, OneAndOne
<1>2. CASE ~b
  <2>1. PICK one : one = <<e>>
    OBVIOUS
  <2>2. one \in Seq({e})
    BY <2>1
  <2>3. one \o <<>> = one
    BY <2>2, ConcatEmptySeq
  <2> QED
    BY <1>2, <2>1, <2>3
<1> QED
  BY <1>1, <1>2

\* A field that is written, and told of if it changes.
LEMMA TellsIfChanged ==
    ASSUME CrmInv, NEW c \in Callers, NEW i \in Ids, NEW f \in Noted, NEW to, NEW set, set = [g \in {f} |-> to],
           NEW b, b <=> to # row[i][f], row[i].kind # "none",
           row[i].kind = "contact" => f # "owner", row[i].kind = "lead" => f # "assignee",
           Begin(c, <<Set(i, set)>> \o (IF b THEN <<Note(i, f, row[i][f], to)>> ELSE <<>>)), History
    PROVE  CrmInv'
<1>1. DOMAIN set = {f} /\ set[f] = to /\ f # "kind" /\ f # "primary"
  BY DEF Noted
<1>2. CASE b
  <2>1. Begin(c, <<Set(i, set), Note(i, f, row[i][f], to)>>)
    BY <1>2, NoteOrNot
  <2> QED
    BY <1>1, <2>1, TrackBegins
<1>3. CASE ~b
  <2>1. Begin(c, <<Set(i, set)>>)
    BY <1>3, NoteOrNot
  <2>2. PICK e : e = Set(i, set)
    OBVIOUS
  <2>3. e.do = "update" /\ e.ids = {i} /\ e.set = set
    BY <2>2, Statements
  <2>4. Records(row, Whom, e)
    BY <1>1, <2>3 DEF Records
  <2>5. AssignedInv'
    BY <2>1, <2>2, <2>4, OneRecords, AssignedBegin DEF CrmInv, History
  <2>6. Calm(row, claimed, i, set, {})
    BY <1>1, <1>3 DEF Calm
  <2>7. Left(row, timeline, claimed, <<Set(i, set)>>)
    BY <2>6 DEF Left, Writing
  <2>8. TimelineInv'
    BY <2>1, <2>7, TimelineBegins DEF CrmInv, History
  <2> QED
    BY <2>5, <2>8 DEF CrmInv
<1> QED
  BY <1>2, <1>3

\* Somebody becomes a lead's assignee.
LEMMA LeadHanded ==
    ASSUME CrmInv, NEW c \in Callers, NEW i \in Ids, NEW u, row[i].kind = "lead",
           Begin(c, <<Set(i, [assignee |-> u])>>), handed' = [handed EXCEPT ![i] = @ \cup {u}],
           UNCHANGED <<timeline, history, claimed>>
    PROVE  CrmInv'
<1>1. PICK set : set = [assignee |-> u]
  OBVIOUS
<1>2. DOMAIN set = {"assignee"} /\ set.assignee = u
  BY <1>1
<1>3. PICK e : e = Set(i, set)
  OBVIOUS
<1>4. e.do = "update" /\ e.ids = {i} /\ e.set = set
  BY <1>3, Statements
<1>5. DOMAIN handed' = Ids /\ DOMAIN history' = Ids /\ u \in handed'[i] /\ \A j \in Ids : handed[j] \subseteq handed'[j]
  BY DEF CrmInv, AssignedInv
<1>6. \A j \in Ids : Whom[j] = history[j] \cup handed[j] /\ Whom'[j] = history[j] \cup handed'[j]
  BY DEF Whom
<1>7. Records(row, Whom', e)
  BY <1>2, <1>4, <1>5, <1>6 DEF Records
<1>8. AssignedInv'
  BY <1>1, <1>3, <1>5, <1>6, <1>7, OneRecords, AssignedBegins DEF CrmInv
<1>9. Fields(row[i]) \subseteq {"status"}
  BY DEF Fields, Tracked
<1>10. Calm(row, claimed, i, set, {})
  BY <1>2, <1>9 DEF Calm
<1>11. Left(row, timeline, claimed, <<Set(i, set)>>)
  BY <1>10 DEF Left, Writing
<1>12. TimelineInv'
  BY <1>1, <1>11, TimelineBegins DEF CrmInv
<1> QED
  BY <1>8, <1>12 DEF CrmInv
LEMMA LeadAssigned ==
    ASSUME CrmInv, NEW c \in Callers, NEW i \in Ids, NEW u, row[i].kind = "lead",
           Begin(c, <<Assignment(i, u), Set(i, [assignee |-> u])>>), History
    PROVE  CrmInv'
<1>1. Recording(row, Whom, <<Assignment(i, u), Set(i, [assignee |-> u])>>)
  BY DEF Recording, Assigning
<1>2. AssignedInv'
  BY <1>1, AssignedBegin DEF CrmInv, History
<1>3. DOMAIN [assignee |-> u] = {"assignee"} /\ Fields(row[i]) \subseteq {"status"}
  BY DEF Fields, Tracked
<1>4. Calm(row, claimed, i, [assignee |-> u], {})
  BY <1>3 DEF Calm
<1>5. Left(row, timeline, claimed, <<Assignment(i, u), Set(i, [assignee |-> u])>>)
  BY <1>4 DEF Left, Giving
<1>6. TimelineInv'
  BY <1>5, TimelineBegins DEF CrmInv, History
<1> QED
  BY <1>2, <1>6 DEF CrmInv

LEMMA LeadsKeep ==
    ASSUME CrmInv, NEW c \in Callers, LeadCall(c)
    PROVE  CrmInv'
<1>1. CASE CreateLead(c)
  <2>1. \A u : OfCrm(Lead(u))
    BY DEF OfCrm, Lead, CrmColumns
  <2> QED
    BY <1>1, <2>1, NewBegins DEF CreateLead, CrmNew
<1>2. CASE CreateCompany(c)
  <2>1. OfCrm(Company)
    BY DEF OfCrm, Company, CrmColumns
  <2> QED
    BY <1>2, <2>1, NewBegins DEF CreateCompany, CrmNew
<1>3. ASSUME NEW i \in Ids, UpdateLead(c, i) PROVE CrmInv'
  <2>1. row[i].kind = "lead"
    BY <1>3 DEF UpdateLead, Found
  <2>2. CASE \E s \in LeadStatuses :
                Begin(c, <<Set(i, [status |-> s])>> \o StatusNote(i, s)) /\ UNCHANGED handed
    <3>1. PICK s : Begin(c, <<Set(i, [status |-> s])>> \o StatusNote(i, s)) /\ UNCHANGED handed
      BY <2>2
    <3>2. History
      BY <1>3, <3>1 DEF UpdateLead, History
    <3>3. PICK set : set = [g \in {"status"} |-> s]
      OBVIOUS
    <3>4. set = [status |-> s]
      BY <3>3
    <3>5. PICK b \in BOOLEAN : b <=> s # row[i].status
      OBVIOUS
    <3>6. StatusNote(i, s) = IF b THEN <<Note(i, "status", row[i].status, s)>> ELSE <<>>
      BY <3>5 DEF StatusNote
    <3>7. Begin(c, <<Set(i, set)>> \o (IF b THEN <<Note(i, "status", row[i].status, s)>> ELSE <<>>))
      BY <3>1, <3>4, <3>6
    <3>8. "status" \in Noted
      BY DEF Noted
    <3> QED
      BY SMTT(60), <2>1, <3>2, <3>3, <3>5, <3>7, <3>8, TellsIfChanged
  <2>3. CASE \E u \in Users : /\ Begin(c, <<Set(i, [assignee |-> u])>>)
                              /\ handed' = [handed EXCEPT ![i] = @ \cup {u}]
    BY <1>3, <2>1, <2>3, LeadHanded DEF UpdateLead
  <2> QED
    BY <1>3, <2>2, <2>3 DEF UpdateLead
<1>4. ASSUME NEW i \in Ids, ArchiveLead(c, i) \/ RestoreLead(c, i) \/ DeleteLead(c, i) PROVE CrmInv'
  BY <1>4, ArchivesKeep DEF ArchiveLead, RestoreLead, DeleteLead
<1>5. ASSUME NEW i \in Ids, AssignLead(c, i) PROVE CrmInv'
  BY <1>5, LeadAssigned DEF AssignLead, Found
<1>6. ASSUME NEW i \in Ids, CreateLeadNote(c, i) \/ CreateLeadActivity(c, i)
                            \/ CreateCompanyNote(c, i) \/ CreateCompanyActivity(c, i) PROVE CrmInv'
  BY <1>6, CommentKeeps DEF CreateLeadNote, CreateLeadActivity, CreateCompanyNote, CreateCompanyActivity
<1>7. ASSUME NEW i \in Ids, UpdateLeadNote(c, i) \/ UpdateCompany(c, i) PROVE CrmInv'
  <2>1. \A x : DOMAIN [of |-> x] = {"of"}
    OBVIOUS
  <2>2. "remark" \notin DOMAIN CrmColumns /\ "company" \notin DOMAIN CrmColumns
    BY DEF CrmColumns
  <2>3. CASE UpdateLeadNote(c, i)
    BY <2>1, <2>2, <2>3, WriteBegins DEF UpdateLeadNote, Found, PlainColumns
  <2>4. CASE UpdateCompany(c, i)
    BY <2>1, <2>2, <2>4, ColumnsKeep DEF UpdateCompany
  <2> QED
    BY <1>7, <2>3, <2>4
<1>8. ASSUME NEW i \in Ids, \/ DeleteLeadNote(c, i) \/ ArchiveCompany(c, i) \/ RestoreCompany(c, i)
                            \/ DeleteCompany(c, i) PROVE CrmInv'
  BY <1>8, ArchivesKeep DEF DeleteLeadNote, ArchiveCompany, RestoreCompany, DeleteCompany
<1> QED
  BY <1>1, <1>2, <1>3, <1>4, <1>5, <1>6, <1>7, <1>8 DEF LeadCall
-----------------------------------------------------------------------------
\* Contacts.
LEMMA ContactMarked ==
    ASSUME CrmInv, NEW c \in Callers, NEW i \in Ids, UpdateContact(c, i)
    PROVE  CrmInv'
<1>1. PICK p \in BOOLEAN : /\ Begin(c, <<Set(i, [primary |-> p])>>)
                           /\ claimed' = IF p THEN claimed \cup {i} ELSE claimed
  BY DEF UpdateContact
<1>2. row[i].kind = "contact" /\ timeline' = timeline /\ history' = history /\ handed' = handed
  BY DEF UpdateContact, Found
<1>3. PICK set : set = [primary |-> p]
  OBVIOUS
<1>4. DOMAIN set = {"primary"} /\ set.primary = p
  BY <1>3
<1>5. PICK e : e = Set(i, set)
  OBVIOUS
<1>6. e.do = "update" /\ e.ids = {i} /\ e.set = set
  BY <1>5, Statements
<1>7. Records(row, Whom, e)
  BY <1>4, <1>6 DEF Records
<1>8. AssignedInv'
  BY <1>1, <1>2, <1>3, <1>5, <1>7, OneRecords, AssignedBegin DEF CrmInv
<1>9. "primary" \notin Fields(row[i])
  BY DEF Fields, Noted
<1>10. Calm(row, claimed', i, set, {})
  BY <1>1, <1>4, <1>9 DEF Calm
<1>11. Left(row, timeline, claimed', <<Set(i, set)>>)
  BY <1>10 DEF Left, Writing
<1>12. PrimariesApart(row, claimed) => PrimariesApart(row, claimed')
  BY <1>1 DEF PrimariesApart
<1>13. TimelineInv'
  BY <1>1, <1>2, <1>3, <1>11, <1>12, TimelineBegins DEF CrmInv
<1> QED
  BY <1>8, <1>13 DEF CrmInv
LEMMA PrimarySet ==
    ASSUME CrmInv, NEW c \in Callers, NEW i \in Ids, SetPrimary(c, i)
    PROVE  CrmInv'
<1>1. row[i].kind = "contact" /\ Begin(c, <<Clearing(i), Set(i, [primary |-> TRUE])>>) /\ History
  BY DEF SetPrimary, Found, Clearing
<1>2. PICK set : set = [primary |-> TRUE]
  OBVIOUS
<1>3. DOMAIN set = {"primary"}
  BY <1>2
<1>4. PICK e, k : e = Set(i, set) /\ k = Clearing(i)
  OBVIOUS
<1>5. e.do = "update" /\ e.ids = {i} /\ e.set = set /\ k.do = "clearPrimary"
  BY <1>4, Statements DEF Clearing
<1>6. Records(row, Whom, e) /\ Records(row, Whom, k)
  BY <1>3, <1>5 DEF Records
<1>7. AssignedInv'
  BY <1>1, <1>2, <1>4, <1>6, TwoRecord, AssignedBegin DEF CrmInv, History
<1>8. Left(row, timeline, claimed, <<Clearing(i), Set(i, [primary |-> TRUE])>>)
  BY <1>1 DEF Left, Marking
<1>9. TimelineInv'
  BY <1>1, <1>8, TimelineBegins DEF CrmInv, History
<1> QED
  BY <1>7, <1>9 DEF CrmInv
LEMMA ContactsKeep ==
    ASSUME CrmInv, NEW c \in Callers, ContactCall(c)
    PROVE  CrmInv'
<1>1. CASE CreateContact(c)
  <2>1. \A u, p : OfCrm(Contact(u, p))
    BY DEF OfCrm, Contact, CrmColumns
  <2> QED
    BY <1>1, <2>1, NewBegins DEF CreateContact, CrmNew
<1>2. ASSUME NEW i \in Ids, ArchiveContact(c, i) \/ RestoreContact(c, i) \/ DeleteContact(c, i) PROVE CrmInv'
  BY <1>2, ArchivesKeep DEF ArchiveContact, RestoreContact, DeleteContact
<1>3. ASSUME NEW i \in Ids, SetDecisionMaker(c, i) PROVE CrmInv'
  <2>1. DOMAIN [decider |-> TRUE] = {"decider"} /\ "decider" \notin CrmColumns["contact"]
    BY DEF CrmColumns
  <2> QED
    BY <1>3, <2>1, ColumnsKeep DEF SetDecisionMaker
<1>4. ASSUME NEW i \in Ids, MoveCompany(c, i) PROVE CrmInv'
  <2>1. "company" \in Noted
    BY DEF Noted
  <2> QED
    BY <1>4, <2>1, TrackKeeps DEF MoveCompany
<1> QED
  BY <1>1, <1>2, <1>3, <1>4, ContactMarked, PrimarySet DEF ContactCall

\* Deals, their pipelines and the stages.
LEMMA StagesOrdered ==
    ASSUME CrmInv, NEW c \in Callers, NEW p \in Ids, ReorderStages(c, p)
    PROVE  CrmInv'
<1> DEFINE S == {Set(s, [order |-> s]) : s \in StagesOf(p)}
<1>1. Begin(c, SetToSeq(S)) /\ History
  BY DEF ReorderStages
<1>2. IsFiniteSet(S)
  <2>1. IsFiniteSet(StagesOf(p))
    BY RowsAssumption, FS_Subset DEF StagesOf
  <2>2. PICK f : f = [s \in StagesOf(p) |-> Set(s, [order |-> s])]
    OBVIOUS
  <2>3. f \in [StagesOf(p) -> S] /\ \A e \in S : \E s \in StagesOf(p) : f[s] = e
    BY <2>2
  <2>4. f \in Surjection(StagesOf(p), S)
    BY <2>3 DEF Surjection
  <2> HIDE DEF S
  <2> QED
    BY <2>1, <2>4, FS_Surjection
<1>3. \A e \in S : \E s \in Ids : e = Set(s, [order |-> s]) /\ row[s].kind = "stage"
  BY SMTT(60) DEF StagesOf
<1>4. \A e \in S : /\ Records(row, Whom, e)
                   /\ \E i \in Ids : \E set : e = Set(i, set) /\ row[i].kind = "stage" /\ "kind" \notin DOMAIN set
  <2> SUFFICES ASSUME NEW e \in S
               PROVE  /\ Records(row, Whom, e)
                      /\ \E i \in Ids : \E set : e = Set(i, set) /\ row[i].kind = "stage" /\ "kind" \notin DOMAIN set
    OBVIOUS
  <2>1. PICK s \in Ids : e = Set(s, [order |-> s]) /\ row[s].kind = "stage"
    BY <1>3
  <2>2. PICK set : set = [order |-> s]
    OBVIOUS
  <2>3. DOMAIN set = {"order"} /\ e = Set(s, set)
    BY <2>1, <2>2
  <2>4. e.do = "update" /\ e.ids = {s} /\ e.set = set
    BY <2>3, Statements
  <2>5. Records(row, Whom, e)
    BY <2>3, <2>4 DEF Records
  <2> QED
    BY <2>1, <2>3, <2>5
<1> HIDE DEF S
<1>5. PICK q : q = SetToSeq(S) /\ q \in Seq(S)
  BY <1>2, ListOfSet
<1>6. AssignedInv'
  BY <1>1, <1>4, <1>5, AssignedBegin DEF CrmInv, History, Recording, AllRecord
<1>7. Left(row, timeline, claimed, q)
  BY <1>4, <1>5 DEF Left, Ordering
<1>8. TimelineInv'
  BY <1>1, <1>5, <1>7, TimelineBegins DEF CrmInv, History
<1> QED
  BY <1>6, <1>8 DEF CrmInv
LEMMA PipelinesKeep ==
    ASSUME CrmInv, NEW c \in Callers, NEW i \in Ids,
           \/ UpdatePipeline(c, i) \/ ArchivePipeline(c, i) \/ RestorePipeline(c, i)
           \/ DeletePipeline(c, i) \/ CreateStage(c, i) \/ UpdateStage(c, i)
           \/ ReorderStages(c, i) \/ DeleteStage(c, i)
    PROVE  CrmInv'
<1>1. "pipeline" \notin DOMAIN CrmColumns /\ "stage" \notin DOMAIN CrmColumns
  BY DEF CrmColumns
<1>2. ASSUME NEW kind \in {"pipeline", "stage"}, NEW set, CrmWrite(c, i, kind, set), "kind" \notin DOMAIN set
      PROVE  CrmInv'
  BY <1>1, <1>2, WriteBegins DEF CrmWrite, PlainColumns
<1>3. /\ \A b : DOMAIN [default |-> b] = {"default"}
      /\ \A b : DOMAIN [archived |-> b] = {"archived"}
      /\ \A b : DOMAIN [chance |-> b] = {"chance"}
  OBVIOUS
<1>4. CASE UpdatePipeline(c, i) \/ ArchivePipeline(c, i) \/ RestorePipeline(c, i) \/ UpdateStage(c, i)
  BY <1>2, <1>3, <1>4 DEF UpdatePipeline, ArchivePipeline, RestorePipeline, UpdateStage
<1>5. CASE DeletePipeline(c, i) \/ DeleteStage(c, i)
  BY <1>5, DropBegins DEF DeletePipeline, DeleteStage
<1>6. CASE CreateStage(c, i)
  <2>1. \A n : OfCrm(Stage(i, n))
    BY DEF OfCrm, Stage, CrmColumns
  <2> QED
    BY <1>6, <2>1, NewBegins DEF CreateStage
<1> QED
  BY <1>4, <1>5, <1>6, StagesOrdered
LEMMA DealWritten ==
    ASSUME CrmInv, NEW c \in Callers, NEW i \in Ids, UpdateDeal(c, i) \/ MoveStage(c, i)
    PROVE  CrmInv'
<1>1. row[i].kind = "deal" /\ History
  BY DEF UpdateDeal, MoveStage, Found
<1>2. CASE UpdateDeal(c, i)
  <2>1. PICK v : Begin(c, <<Set(i, [value |-> v])>> \o ValueNote(i, v))
    BY <1>2 DEF UpdateDeal
  <2>2. PICK set : set = [g \in {"value"} |-> v]
    OBVIOUS
  <2>3. set = [value |-> v]
    BY <2>2
  <2>4. PICK b \in BOOLEAN : b <=> v # row[i].value
    OBVIOUS
  <2>5. ValueNote(i, v) = IF b THEN <<Note(i, "value", row[i].value, v)>> ELSE <<>>
    BY <2>4 DEF ValueNote
  <2>6. Begin(c, <<Set(i, set)>> \o (IF b THEN <<Note(i, "value", row[i].value, v)>> ELSE <<>>))
    BY <2>1, <2>3, <2>5
  <2>7. "value" \in Noted
    BY DEF Noted
  <2> QED
    BY ZenonT(60), <1>1, <2>2, <2>4, <2>6, <2>7, TellsIfChanged
<1>3. CASE MoveStage(c, i)
  <2>1. PICK s : Begin(c, <<Set(i, [stage |-> s, chance |-> row[s].chance]), Note(i, "stage", row[i].stage, s)>>)
    BY <1>3 DEF MoveStage
  <2>2. PICK set : set = [stage |-> s, chance |-> row[s].chance]
    OBVIOUS
  <2>3. DOMAIN set = {"stage", "chance"} /\ set["stage"] = s
    BY <2>2
  <2>4. Begin(c, <<Set(i, set), Note(i, "stage", row[i]["stage"], s)>>)
    BY <2>1, <2>2
  <2>5. "stage" \in Noted /\ "chance" \notin Noted
    BY DEF Noted
  <2>6. Fields(row[i]) \cap DOMAIN set \subseteq {"stage"}
    BY <2>3, <2>5 DEF Fields
  <2> QED
    BY <1>1, <2>3, <2>4, <2>5, <2>6, TrackBegins
<1> QED
  BY <1>2, <1>3
LEMMA DealsKeep ==
    ASSUME CrmInv, NEW c \in Callers, DealCall(c)
    PROVE  CrmInv'
<1>1. CASE CreatePipeline(c)
  <2>1. OfCrm(Pipeline)
    BY DEF OfCrm, Pipeline, CrmColumns
  <2> QED
    BY <1>1, <2>1, NewBegins DEF CreatePipeline
<1>2. CASE CreateDeal(c)
  <2>1. \A u, p, s : OfCrm(Deal(u, p, s))
    BY DEF OfCrm, Deal, CrmColumns
  <2> QED
    BY <1>2, <2>1, NewBegins DEF CreateDeal, CrmNew
<1>3. ASSUME NEW i \in Ids, ChangeOwner(c, i) PROVE CrmInv'
  <2>1. "owner" \in Noted
    BY DEF Noted
  <2> QED
    BY SMTT(60), <1>3, <2>1, TrackKeeps DEF ChangeOwner
<1>4. ASSUME NEW i \in Ids, MarkWon(c, i) \/ MarkLost(c, i) \/ ArchiveDeal(c, i) \/ RestoreDeal(c, i) PROVE CrmInv'
  <2>1. /\ \A x : DOMAIN [status |-> x] = {"status"}
        /\ \A x, y : DOMAIN [archived |-> x, status |-> y] = {"archived", "status"}
    OBVIOUS
  <2>2. {"archived", "status"} \cap CrmColumns["deal"] = {}
    BY DEF CrmColumns
  <2> QED
    BY <1>4, <2>1, <2>2, ColumnsKeep DEF MarkWon, MarkLost, ArchiveDeal, RestoreDeal
<1>5. ASSUME NEW i \in Ids, DeleteDeal(c, i) PROVE CrmInv'
  BY <1>5, ArchivesKeep DEF DeleteDeal
<1> QED
  BY <1>1, <1>2, <1>3, <1>4, <1>5, PipelinesKeep, DealWritten DEF DealCall

\* Activities.
LEMMA ActivitiesKeep ==
    ASSUME CrmInv, NEW c \in Callers, ActivityCall(c)
    PROVE  CrmInv'
<1>1. CASE CreateActivity(c)
  <2>1. \A u : OfCrm(Activity(u))
    BY DEF OfCrm, Activity, CrmColumns
  <2> QED
    BY <1>1, <2>1, NewBegins DEF CreateActivity, CrmNew
<1>2. ASSUME NEW i \in Ids, UpdateActivity(c, i) \/ CompleteActivity(c, i) \/ CancelActivity(c, i) PROVE CrmInv'
  <2>1. /\ \A x : DOMAIN [status |-> x] = {"status"}
        /\ \A x : DOMAIN [priority |-> x] = {"priority"}
    OBVIOUS
  <2>2. {"priority", "status"} \cap CrmColumns["activity"] = {}
    BY DEF CrmColumns
  <2> QED
    BY <1>2, <2>1, <2>2, ColumnsKeep DEF UpdateActivity, CompleteActivity, CancelActivity
<1>3. ASSUME NEW i \in Ids, ArchiveActivity(c, i) \/ RestoreActivity(c, i) \/ DeleteActivity(c, i) PROVE CrmInv'
  BY <1>3, ArchivesKeep DEF ArchiveActivity, RestoreActivity, DeleteActivity
<1>4. ASSUME NEW i \in Ids, AssignActivity(c, i) \/ ChangeDueDate(c, i) \/ ChangePriority(c, i) PROVE CrmInv'
  <2>1. "assignee" \in Noted /\ "due" \in Noted /\ "priority" \in Noted
    BY DEF Noted
  <2> QED
    BY <1>4, <2>1, TrackKeeps DEF AssignActivity, ChangeDueDate, ChangePriority
<1> QED
  BY <1>1, <1>2, <1>3, <1>4 DEF ActivityCall
-----------------------------------------------------------------------------
\* The start, and any step.
LEMMA CrmStart == CrmInit => CrmInv
<1> SUFFICES ASSUME CrmInit PROVE CrmInv
  OBVIOUS
<1>1. DOMAIN row = Ids /\ (\A i \in Ids : OfCrm(row[i])) /\ PrimariesApart(row, claimed)
  BY CrmAssumption DEF CrmInit
<1>2. /\ todo = [c \in Callers |-> <<>>] /\ timeline = [i \in Ids |-> Untold] /\ history = [i \in Ids |-> {}]
      /\ handed = [i \in Ids |-> IF row[i].kind = "lead" THEN {row[i].assignee} ELSE {}]
  BY DEF CrmInit, RowsInit
<1>3. AssignedInv
  <2>1. \A i \in Ids : Whom[i] = history[i] \cup handed[i]
    BY DEF Whom
  <2>2. \A i \in Ids : row[i].kind = "lead" => row[i].assignee \in Whom[i]
    BY <1>2, <2>1
  <2>3. \A i \in Ids : "kind" \in DOMAIN row[i] /\ (row[i].kind = "lead" => "assignee" \in DOMAIN row[i])
    BY <1>1 DEF OfCrm, CrmColumns
  <2> QED
    BY <1>1, <1>2, <2>2, <2>3, NoneRecord DEF AssignedInv, AssigneesKnown
<1>4. CrmTables(row, timeline)
  BY <1>1, <1>2 DEF CrmTables, Untold
<1>5. ASSUME NEW i \in Ids, NEW f \in Fields(row[i]) PROVE Replays(timeline[i][f], row[i][f])
  BY <1>2, UntoldReplays DEF Fields
<1>6. Upheld(row, timeline, claimed, <<>>)
  BY <1>1, <1>4, <1>5 DEF Upheld, Left, AllTold
<1>7. TimelineInv
  BY <1>2, <1>6 DEF TimelineInv, OneCall, Idle
<1> QED
  BY <1>3, <1>7 DEF CrmInv
LEMMA CrmStep == CrmInv /\ CrmNext => CrmInv'
BY CrmExecutes, LeadsKeep, ContactsKeep, DealsKeep, ActivitiesKeep DEF CrmNext
LEMMA CrmStutter == CrmInv /\ UNCHANGED crmVars => CrmInv'
<1> SUFFICES ASSUME CrmInv, UNCHANGED crmVars PROVE CrmInv'
  OBVIOUS
<1>1. /\ row' = row /\ todo' = todo /\ overlapped' = overlapped /\ died' = died
      /\ timeline' = timeline /\ history' = history /\ handed' = handed /\ claimed' = claimed
  BY DEF crmVars, rowVars
<1>2. Whom' = Whom
  BY <1>1 DEF Whom
<1>3. AssignedInv'
  BY <1>1, <1>2 DEF CrmInv, AssignedInv
<1>4. TimelineInv'
  BY <1>1 DEF CrmInv, TimelineInv, Orderly, OneCall, Idle
<1> QED
  BY <1>3, <1>4 DEF CrmInv

\* What follows.
LEMMA HistoryFollows == CrmInv => HistoryTells /\ OnePrimary
<1> SUFFICES ASSUME CrmInv PROVE HistoryTells /\ OnePrimary
  OBVIOUS
<1>1. ASSUME Orderly, Quiet
      PROVE  PrimariesApart(row, claimed) /\ AllTold(row, timeline, <<>>)
  <2>1. PICK c : c \in Callers
    BY RowsAssumption
  <2> QED
    BY <1>1, <2>1 DEF CrmInv, TimelineInv, Quiet, Idle, Upheld
<1>2. \A i, f : ~Noting(row, timeline, i, f, <<>>)
  BY ShortLists DEF Noting
<1>3. TimelineReplays
  <2> SUFFICES ASSUME Orderly, Quiet, NEW i \in Ids, row[i].kind \in DOMAIN Tracked, NEW f \in Tracked[row[i].kind]
               PROVE  LET told == timeline[i][f]
                      IN /\ \A k \in 2..Len(told) : told[k].from = told[k - 1].to
                         /\ told # <<>> => told[Len(told)].to = row[i][f]
    BY DEF TimelineReplays
  <2>1. f \in Fields(row[i])
    BY DEF Fields, Tracked, Noted
  <2> QED
    BY <1>1, <1>2, <2>1 DEF AllTold, Replays
<1>4. AssignmentsRecorded
  <2>1. \A i \in Ids : Whom[i] = history[i] \cup handed[i]
    BY DEF Whom
  <2> QED
    BY <2>1 DEF CrmInv, AssignedInv, AssigneesKnown, AssignmentsRecorded
<1>5. OnePrimary
  BY <1>1 DEF OnePrimary, PrimariesApart, IsPrimary
<1> QED
  BY <1>3, <1>4, <1>5 DEF HistoryTells

\* In a behaviour that exercises leads, contacts, deals and activities.
CrmPart == part = "crm" => CrmInv
LEMMA CrmPartStart == ServicesInit => CrmPart
BY CrmStart DEF ServicesInit, CrmPart
LEMMA CrmPartStep == CrmPart /\ [ServicesNext]_serviceVars => CrmPart'
<1> SUFFICES ASSUME CrmPart, [ServicesNext]_serviceVars, part' = "crm" PROVE CrmInv'
  BY DEF CrmPart
<1>1. CASE ServicesNext
  <2>1. part = "crm" /\ CrmNext
    BY <1>1 DEF ServicesNext
  <2> QED
    BY <2>1, CrmStep DEF CrmPart
<1>2. CASE UNCHANGED serviceVars
  <2>1. part = "crm" /\ UNCHANGED crmVars
    BY <1>2 DEF serviceVars, crmVars
  <2> QED
    BY <2>1, CrmStutter DEF CrmPart
<1> QED
  BY <1>1, <1>2

\* However calls overlap and die, nobody is a lead's assignee by assign()
\* without the assignment history saying so; and while calls come one after
\* another to their end, the timeline of a lead's status, a contact's company, a
\* deal's value, stage and owner and an activity's assignee replays to what the
\* row says (recordTimeline in CrmService, ContactsService, DealsService and
\* ActivitiesService).
THEOREM HistoriesAlwaysTell == ServicesSpec => [](part = "crm" => HistoryTells)
<1>1. CrmPart => (part = "crm" => HistoryTells)
  BY HistoryFollows DEF CrmPart
<1> QED
  BY <1>1, CrmPartStart, CrmPartStep, PTL DEF ServicesSpec

\* While calls come one after another to their end, an owner has one primary
\* contact at most, but for those that create() and update() made primary, which
\* clear no other (ContactsService's setPrimary).
THEOREM PrimariesStayApart == ServicesSpec => [](part = "crm" => OnePrimary)
<1>1. CrmPart => (part = "crm" => OnePrimary)
  BY HistoryFollows DEF CrmPart
<1> QED
  BY <1>1, CrmPartStart, CrmPartStep, PTL DEF ServicesSpec
=============================================================================
