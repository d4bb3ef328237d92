-------------------------------- MODULE Access --------------------------------
(***************************************************************************)
(* Registration, sessions and their refresh tokens (src/auth), roles and   *)
(* the permissions they give (src/rbac, src/authorization).  A login makes *)
(* a session with one family of refresh tokens; each token is used once,   *)
(* for the next.  Every change of what users may do is followed by a       *)
(* statement that raises the organisation's roleVersion.  Passwords, the   *)
(* access tokens and expiry, which only ever refuse, are left out.         *)
(***************************************************************************)
EXTENDS Naturals, FiniteSetsExt, Rows

CONSTANTS
    Permissions,    \* pairs <<resource, action>>
    AccessStarts    \* the rows there are when a behaviour begins

accessVars == rowVars

\* allowed is not a column: what users were allowed when the version was
\* last raised.  Nor is replayed: a token of the session was used twice.
Organization(code) == [kind |-> "organization", code |-> code, version |-> 0, allowed |-> {}]
User(org, email) == [kind |-> "user", code |-> email, org |-> org, fails |-> 0]
Role(org, slug, system, owner, perms) ==
    [kind |-> "role", code |-> <<org, slug>>, org |-> org, deleted |-> FALSE, system |-> system,
     owner |-> owner, perms |-> perms]
UserRole(u, r) == [kind |-> "grant", code |-> <<u, r>>, user |-> u, role |-> r]
Session(u) == [kind |-> "session", user |-> u, revoked |-> FALSE, replayed |-> FALSE]
\* next is replacedByTokenId; the family is the session's.
Token(s) == [kind |-> "token", session |-> s, revoked |-> FALSE, next |-> 0]

\* A row of one of the tables.
Blanks == {Organization(0), User(0, 0), Role(0, 0, FALSE, FALSE, {}), UserRole(0, 0),
           Session(0), Token(0)}
OfTables(r) == r \in {NoRow, Gone} \/ \E b \in Blanks : r.kind = b.kind /\ DOMAIN r = DOMAIN b

\* A behaviour begins with the rows that registrations, assignments and
\* logins leave: ids given in order, references that lead somewhere, each
\* owner's role with a user, and sessions that were just opened.
ASSUME AccessAssumption ==
    \A table \in AccessStarts :
        /\ DOMAIN table = Ids /\ \A i \in Ids : OfTables(table[i])
        /\ \A i, j \in Ids : i < j /\ table[i] = NoRow => table[j] = NoRow
        /\ \A i \in Ids :
             LET r == table[i]
                 refersTo(j, kind) == j \in Ids /\ table[j].kind = kind
             IN /\ r.kind \in {"user", "role"} => refersTo(r.org, "organization")
                /\ r.kind = "organization" => r.version = 0
                /\ r.kind = "role" /\ r.owner =>
                     /\ r.system /\ ~r.deleted
                     /\ \E g \in Ids : table[g].kind = "grant" /\ table[g].role = i
                /\ r.kind = "grant" =>
                     /\ refersTo(r.user, "user") /\ refersTo(r.role, "role")
                     /\ table[r.user].org = table[r.role].org /\ r.code = <<r.user, r.role>>
                /\ r.kind = "session" => ~r.revoked /\ ~r.replayed
                /\ r.kind = "token" =>
                     /\ refersTo(r.session, "session") /\ r.next = 0
                     /\ \A t \in Ids \ {i} : table[t].kind = "token" => table[t].session # r.session

OfKind(k) == {i \in Ids : row[i].kind = k}
RoleOf(org, r) == Found(r, "role") /\ row[r].org = org
UserOf(org, u) == row[u].kind = "user" /\ row[u].org = org
TokensOf(s) == {t \in OfKind("token") : row[t].session = s}

-----------------------------------------------------------------------------
(* AuthorizationService *)
matches(has, required) ==
    \/ has = <<"*", "*">>
    \/ has[1] = required[1] /\ has[2] \in {"*", required[2]}
\* The roles a user has that are not deleted; the owner's is all there is.
getUserPermissions(u) ==
    LET roles == {row[g].role : g \in {h \in OfKind("grant") : row[h].user = u}}
        live == {r \in roles : Found(r, "role")}
    IN IF \E r \in live : row[r].owner THEN {<<"*", "*">>}
       ELSE UNION {row[r].perms : r \in live}
authorize(u, required) == \E p \in getUserPermissions(u) : matches(p, required)
Allowed(org) ==
    {x \in {v \in Ids : UserOf(org, v)} \X Permissions : authorize(x[1], x[2])}

-----------------------------------------------------------------------------
(* AuthService: one transaction makes an organisation with its roles - the *)
(* three besides the owner's are made alike - and its first user.          *)
Register(c) ==
    \E n \in {1, 2} :
        /\ ~\E i \in Ids : row[i].kind \in {"organization", "user"} /\ row[i].code = n
        /\ Unspent >= 5 /\ Inserting = 0
        /\ Begin(c, <<[do |-> "register", code |-> n]>>)
Registration(c) ==
    /\ ~Idle(c) /\ Head(todo[c]).do = "register"
    /\ LET n == Head(todo[c]).code
           o == NextId
           made == <<Organization(n), Role(o, "owner", TRUE, TRUE, {}),
                     Role(o, "manager", TRUE, FALSE, Permissions), User(o, n), UserRole(o + 3, o + 1)>>
       IN IF Unspent < 5 \/ Refused(made[1], 0) \/ Refused(made[4], 0) THEN Throw(c)
          ELSE /\ row' = [i \in Ids |-> IF i \in o..(o + 4) THEN made[i - o + 1] ELSE row[i]]
               /\ todo' = [todo EXCEPT ![c] = Tail(@)]
               /\ UNCHANGED <<begun, overlapped, died>>

\* An increment in the database.
Increment(i, field) == [do |-> "increment", id |-> i, field |-> field]
OpenSession(u) == [do |-> "enter", user |-> u]
Login(c, u) ==
    /\ row[u].kind = "user"
    /\ \/ Begin(c, <<Increment(u, "fails")>>)
       \/ Inserting + 1 < Unspent /\ Begin(c, <<Set(u, [fails |-> 0]), OpenSession(u), Insert(Token(0))>>)
EnterSession(c) ==
    /\ ~Idle(c) /\ Head(todo[c]).do = "enter" /\ Room
    /\ row' = [row EXCEPT ![NextId] = Session(Head(todo[c]).user)]
    /\ todo' = [todo EXCEPT ![c] = <<Insert(Token(NextId))>>]
    /\ UNCHANGED <<begun, overlapped, died>>

\* updateMany({ where: { family or sessionId, revokedAt: null } }): the rows
\* are those there are when the statement is executed.
RevokeAll(s, replay) == [do |-> "revoke", session |-> s, replay |-> replay]
RevokeTokens(c) ==
    /\ ~Idle(c) /\ Head(todo[c]).do = "revoke"
    /\ LET s == Head(todo[c]).session
       IN row' = [i \in Ids |->
                    IF i \in TokensOf(s) THEN [row[i] EXCEPT !.revoked = TRUE]
                    ELSE IF i = s /\ Head(todo[c]).replay THEN [row[i] EXCEPT !.replayed = TRUE]
                    ELSE row[i]]
    /\ todo' = [todo EXCEPT ![c] = Tail(@)]
    /\ UNCHANGED <<begun, overlapped, died>>

\* The caller may hand in a refresh token, of this session or another.
Logout(c, s) ==
    /\ row[s].kind = "session"
    /\ LET own == <<Set(s, [revoked |-> TRUE]), RevokeAll(s, FALSE)>>
       IN \/ Begin(c, own)
          \/ \E t \in OfKind("token") : Begin(c, <<RevokeAll(row[t].session, FALSE)>> \o own)

Refresh(c, t) ==
    /\ row[t].kind = "token"
    /\ \/ row[t].revoked /\ Begin(c, <<RevokeAll(row[t].session, TRUE)>>)
       \/ /\ ~row[t].revoked /\ ~row[row[t].session].revoked
          /\ BeginInsert(c, <<[do |-> "create", set |-> Token(row[t].session), of |-> t]>>)
\* One transaction: the next token, and the old one revoked, as it may be.
\* Mutant: the old token is not revoked.
RotateOnly(c) ==
    /\ ~Idle(c) /\ Head(todo[c]).do = "create" /\ "of" \in DOMAIN Head(todo[c]) /\ Room
    /\ row' = [row EXCEPT ![NextId] = Head(todo[c]).set, ![Head(todo[c]).of].next = NextId]
    /\ todo' = [todo EXCEPT ![c] = Tail(@)]
    /\ UNCHANGED <<begun, overlapped, died>>
Rotate(c) ==
    /\ ~Idle(c) /\ Head(todo[c]).do = "create" /\ "of" \in DOMAIN Head(todo[c]) /\ Room
    /\ row' = [row EXCEPT ![NextId] = Head(todo[c]).set, ![Head(todo[c]).of].next = NextId,
                          ![Head(todo[c]).of].revoked = TRUE]
    /\ todo' = [todo EXCEPT ![c] = Tail(@)]
    /\ UNCHANGED <<begun, overlapped, died>>

-----------------------------------------------------------------------------
(* RbacService.  Every change of a role or a grant raises roleVersion by a *)
(* statement of its own.                                                   *)
Bump(org) == Increment(org, "version")
CountUp(c) ==
    /\ ~Idle(c) /\ Head(todo[c]).do = "increment"
    /\ LET s == Head(todo[c])
       IN row' = [row EXCEPT ![s.id] =
                    IF s.field = "fails" THEN [row[s.id] EXCEPT !.fails = @ + 1]
                    ELSE [row[s.id] EXCEPT !.version = @ + 1, !.allowed = Allowed(s.id)]]
    /\ todo' = [todo EXCEPT ![c] = Tail(@)]
    /\ UNCHANGED <<begun, overlapped, died>>

CreateRole(c, org) ==
    \E slug \in {"owner", "clerk"}, system \in BOOLEAN :
        /\ ~\E r \in OfKind("role") : row[r].code = <<org, slug>>
        /\ BeginInsert(c, <<Insert(Role(org, slug, system, FALSE, {})), Bump(org)>>)
UpdateRole(c, org, r) ==
    RoleOf(org, r) /\ ~row[r].system /\ Begin(c, <<Set(r, <<>>), Bump(org)>>)
DeleteRole(c, org, r) ==
    RoleOf(org, r) /\ ~row[r].system /\ Begin(c, <<Set(r, [deleted |-> TRUE]), Bump(org)>>)
RestoreRole(c, org, r) ==
    /\ row[r].kind = "role" /\ row[r].org = org /\ row[r].deleted
    /\ Begin(c, <<Set(r, [deleted |-> FALSE]), Bump(org)>>)

\* A transaction deletes the permissions it sees and writes the new ones:
\* one that ran meanwhile may have written others, or the same, which throws.
SetRolePermissions(c, org, r) ==
    /\ RoleOf(org, r) /\ ~row[r].owner
    /\ \E perms \in SUBSET Permissions :
         Begin(c, <<[do |-> "see", role |-> r, perms |-> perms], Bump(org)>>)
SeePermissions(c) ==
    /\ ~Idle(c) /\ Head(todo[c]).do = "see"
    /\ LET s == Head(todo[c])
       IN Read(c, "see", <<[do |-> "replace", role |-> s.role, perms |-> s.perms,
                             seen |-> row[s.role].perms]>> \o Tail(todo[c]))
ReplacePermissions(c) ==
    /\ ~Idle(c) /\ Head(todo[c]).do = "replace"
    /\ LET s == Head(todo[c])
           kept == row[s.role].perms \ s.seen
       IN IF kept \cap s.perms # {} THEN Throw(c)
          ELSE /\ row' = [row EXCEPT ![s.role].perms = kept \cup s.perms]
               /\ todo' = [todo EXCEPT ![c] = Tail(@)]
               /\ UNCHANGED <<begun, overlapped, died>>

Granted(u, r) == \E g \in OfKind("grant") : row[g].code = <<u, r>>
\* Mutant: the version is raised before the grant is written.
AssignAfterBump(c, org, u, r) ==
    /\ UserOf(org, u) /\ RoleOf(org, r) /\ ~Granted(u, r)
    /\ BeginInsert(c, <<Bump(org), Insert(UserRole(u, r))>>)
AssignRole(c, org, u, r) ==
    /\ UserOf(org, u) /\ RoleOf(org, r) /\ ~Granted(u, r)
    /\ BeginInsert(c, <<Insert(UserRole(u, r)), Bump(org)>>)
RemoveRole(c, org, u, r) ==
    /\ UserOf(org, u) /\ RoleOf(org, r) /\ ~row[r].owner
    /\ \E g \in OfKind("grant") :
         row[g].code = <<u, r>> /\ Begin(c, <<Erase(g), Bump(org)>>)

-----------------------------------------------------------------------------
\* A create that rotates a token is Rotate's.
CreatePlain(c) == ~Idle(c) /\ "of" \notin DOMAIN Head(todo[c]) /\ Create(c)

AccessInit == row \in AccessStarts /\ RowsInit
AccessCall(c) ==
    \/ Register(c)
    \/ \E i \in Ids : Login(c, i) \/ Logout(c, i) \/ Refresh(c, i)
    \/ \E org \in OfKind("organization") :
         \/ CreateRole(c, org)
         \/ \E r \in Ids : \/ UpdateRole(c, org, r) \/ DeleteRole(c, org, r)
                           \/ RestoreRole(c, org, r) \/ SetRolePermissions(c, org, r)
                           \/ \E u \in Ids : AssignRole(c, org, u, r) \/ RemoveRole(c, org, u, r)
AccessNext ==
    \E c \in Callers :
        \/ Ready(c) /\ AccessCall(c)
        \/ Registration(c) \/ EnterSession(c) \/ RevokeTokens(c) \/ Rotate(c)
        \/ CountUp(c) \/ SeePermissions(c) \/ ReplacePermissions(c)
        \/ Update(c) \/ CreatePlain(c) \/ Deletion(c) \/ Die(c)
AccessSpec == AccessInit /\ [][AccessNext]_accessVars

-----------------------------------------------------------------------------
\* As long as no calls overlap, a session has one refresh token that is good
\* at most, the last of the chain.
OneLiveToken ==
    Orderly => \A s \in OfKind("session") :
        /\ Cardinality({t \in TokensOf(s) : ~row[t].revoked}) <= 1
        /\ \A t \in TokensOf(s) : row[t].next # 0 => row[t].revoked

\* A session that was logged out of, or whose token was used twice, has no
\* token left that is good, once the call has ended.
RevokedIsOut ==
    Orderly /\ Quiet => \A s \in OfKind("session") :
        row[s].revoked \/ row[s].replayed => \A t \in TokensOf(s) : row[t].revoked

\* Whenever no call is in progress, and none has died, the users of an
\* organisation may do what they might when its roleVersion was last raised:
\* whoever remembers the version remembers the permissions.
VersionTells ==
    Quiet /\ ~died => \A o \in OfKind("organization") :
        row[o].version > 0 => row[o].allowed = Allowed(o)

\* Somebody always has the owner's role of every organisation, and nobody a
\* role of another organisation than his own.
OwnerStays ==
    /\ \A r \in OfKind("role") : row[r].owner =>
         /\ ~row[r].deleted
         /\ \E g \in OfKind("grant") : row[g].role = r
    /\ \A g \in OfKind("grant") : row[row[g].user].org = row[row[g].role].org
=============================================================================
