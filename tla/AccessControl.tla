---------------------------- MODULE AccessControl ----------------------------
(***************************************************************************)
(* The users, roles, groups and grants of the platform as administrators   *)
(* and sign-ins change them, across restarts.  backend/src/users, roles,   *)
(* groups, auth, and the access and ownership operations of dashboard and  *)
(* reports.                                                                *)
(*                                                                         *)
(* A request is let in on the permissions its token carries, reads what    *)
(* its handler checks, and then runs its statements; each commits by       *)
(* itself, but for a replacement of a set of links, which is a             *)
(* transaction at READ COMMITTED: it deletes the rows it sees and inserts  *)
(* the new ones.  A request that is refused changes nothing and is left    *)
(* out.                                                                    *)
(***************************************************************************)
EXTENDS SchemaBootstrap, Sequences

CONSTANTS Clients,
          UserIds, RoleIds, BoardIds,    \* ids the sequences hand out
          Names, Emails,
          RoleSets, UserSets, PermissionSets, ViewSets,   \* what administrators submit
          UserEdits, GroupEdits, ViewEdits,   \* the fields an edit gives, of those there are
          DefaultRole,       \* OIDC_DEFAULT_ROLE, a role's name
          AtFirst,           \* the databases there may be at first
          SignedIn,          \* who had signed in before the start
          Callers,           \* bound: who signs in with a password
          MaxRequests,       \* bound on the requests
          MaxRestarts,       \* bound on the restarts, after the last request only
                             \* where no active administrator is left
          MaxFailures        \* bound on the failing steps of a start

ASSUME ViewEditsAssumption ==
  \A e \in ViewEdits : "roles" \in DOMAIN e => /\ Len(e.roles) \in Nat
                                               /\ DOMAIN e.roles = 1..Len(e.roles)
ASSUME AtFirstAssumption == \A d \in AtFirst : Columns(d) /\ UniqueNames(d)

VARIABLES db,
          session,    \* user id -> the token last issued for it, or NoToken
          req,        \* client -> the request under way
          spent,      \* ids handed out
          boot,       \* the start of the application, see Init
          begun, restarts

vars == <<db, session, req, spent, boot, begun, restarts>>

NoToken == [id |-> Nobody, email |-> "", roles |-> {}, permissions |-> {}]
Nothing == [t \in Links |-> {}]
Closed == [open |-> FALSE, seen |-> Nothing, waits |-> {}, others |-> Nothing]
Idle == [by |-> Nobody, todo |-> <<>>, tx |-> Closed]

issueTokens(d, u) ==
  [id |-> u, email |-> d.user[u].email, roles |-> RoleNames(d, u),
   permissions |-> PermissionsOf(d, u)]

(***************************************************************************)
(* Statements of a request.                                                *)
(***************************************************************************)
Insert(table, x, row) == [do |-> "insert", table |-> table, id |-> x, row |-> row]
Update(table, x, set) == [do |-> "update", table |-> table, id |-> x, set |-> set]
Remove(table, x) == [do |-> "delete", table |-> table, id |-> x]
Grant(link, pair) == [do |-> "grant", link |-> link, pair |-> pair]
Revoke(link, pair) == [do |-> "revoke", link |-> link, pair |-> pair]
RevokeRoles(v) == [do |-> "revokeRoles", id |-> v]
Replacing(sets) == [do |-> "replace", sets |-> sets]
SetOf(link, key, to) == [link |-> link, rows |-> {key} \X to, key |-> key]
Provision(x, row) == [do |-> "provision", id |-> x, row |-> row]
Issue(x) == [do |-> "issue", id |-> x]
CountAdmins == [do |-> "count"]

Changed(d, s) ==
  [k \in DOMAIN d[s.table][s.id] |-> IF k \in DOMAIN s.set THEN s.set[k] ELSE d[s.table][s.id][k]]

Opt(condition, statements) == IF condition THEN statements ELSE <<>>

Refused(d, s) == s.do = "count" /\ Cardinality(activeAdmins(d)) <= 1

Fails(d, s) ==
  \/ s.do \in {"insert", "provision"} /\ ~Unique(d, IF s.do = "insert" THEN s.table ELSE "user", s.id, s.row)
  \/ s.do = "insert" /\ ~Referenced(d, s.table, s.row)
  \/ s.do = "update" /\ s.id \in DOMAIN d[s.table] /\ ~Unique(d, s.table, s.id, Changed(d, s))
  \/ s.do = "grant" /\ (s.pair \in d[s.link] \/ s.pair \notin References(d, s.link))
  \/ Refused(d, s)

Effect(d, s) ==
  CASE s.do = "insert" -> [d EXCEPT ![s.table] = Put(@, s.id, s.row)]
    [] s.do = "update" -> IF s.id \in DOMAIN d[s.table]
                          THEN [d EXCEPT ![s.table][s.id] = Changed(d, s)] ELSE d
    [] s.do = "delete" -> Delete(d, s.table, s.id)
    [] s.do = "grant" -> [d EXCEPT ![s.link] = @ \cup {s.pair}]
    [] s.do = "revoke" -> [d EXCEPT ![s.link] = @ \ {s.pair}]
    [] s.do = "revokeRoles" -> [d EXCEPT !.viewGrant = @ \ ((DOMAIN d.role) \X {s.id})]
    [] s.do = "provision" ->
         [d EXCEPT !.user = Put(@, s.id, s.row),
                   !.userRole = @ \cup ({s.id} \X findByName(d, "role", DefaultRole))]
    [] OTHER -> d

Advance(c) ==
  IF Len(req[c].todo) = 1 THEN Idle
  ELSE [req[c] EXCEPT !.todo = Tail(@), !.tx = Closed]

\* A commit is noticed by the transactions that are open: of the rows it adds
\* theirs sees nothing, and one that waited for it goes on.
Commit(c, d, added) ==
  /\ db' = d
  /\ req' = [o \in Clients |->
               IF o = c THEN Advance(c)
               ELSE IF ~req[o].tx.open THEN req[o]
               ELSE [req[o] EXCEPT !.tx.waits = @ \ {c},
                                   !.tx.others = [t \in Links |-> @[t] \cup added[t]]]]

Abort(c) ==
  /\ req' = [o \in Clients |-> IF o = c THEN Idle ELSE [req[o] EXCEPT !.tx.waits = @ \ {c}]]
  /\ UNCHANGED db

Added(d) == [t \in Links |-> d[t] \ db[t]]

Running(c) == req[c].todo # <<>>
Now(c) == Head(req[c].todo)

Open(c) == {o \in Clients \ {c} : req[o].tx.open}

\* The links a statement removes, or adds where one is being removed, are
\* locked while a transaction that deletes them is open.
Touched(s, t) ==
  IF s.do = "grant" THEN {p \in {s.pair} : s.link = t} ELSE db[t] \ Effect(db, s)[t]
Locked(c, t) == UNION {req[o].tx.seen[t] : o \in {o \in Open(c) : req[o].tx.waits = {}}}

Statement(c) ==
  /\ Running(c) /\ Now(c).do \notin {"replace", "issue"}
  /\ \A t \in Links : Touched(Now(c), t) \cap Locked(c, t) = {}
  /\ IF Fails(db, Now(c)) THEN Abort(c)
     ELSE LET d == Effect(db, Now(c)) IN Commit(c, d, Added(d))
  /\ UNCHANGED <<session, spent, boot, begun, restarts>>

IssueToken(c) ==
  /\ Running(c) /\ Now(c).do = "issue"
  /\ session' = IF Now(c).id \in DOMAIN db.user
                THEN [session EXCEPT ![Now(c).id] = issueTokens(db, Now(c).id)] ELSE session
  /\ Commit(c, db, Nothing)
  /\ UNCHANGED <<spent, boot, begun, restarts>>

(***************************************************************************)
(* A replacement.  Its DELETE sees the rows of the moment it begins.  It    *)
(* waits for the transactions that delete some of them, in the order of    *)
(* their DELETEs; if one commits, its rows are gone, if it is rolled back, *)
(* they are there to be deleted.  What others commit meanwhile it does not *)
(* see, also when it is the same row anew.                                 *)
(***************************************************************************)
InSet(d, s) == {p \in d[s.link] : p[1] = s.key}
SetsIn(c, link) == {s \in Now(c).sets : s.link = link}
Old(c, link) == UNION {InSet(db, s) : s \in SetsIn(c, link)}
New(c) == [t \in Links |-> UNION {s.rows : s \in SetsIn(c, t)}]

DeleteOld(c) ==
  /\ Running(c) /\ Now(c).do = "replace" /\ ~req[c].tx.open
  /\ req' = [req EXCEPT ![c].tx =
               [open |-> TRUE, seen |-> [t \in Links |-> Old(c, t)], others |-> Nothing,
                waits |-> {o \in Open(c) : \E t \in Links : req[o].tx.seen[t] \cap Old(c, t) # {}}]]
  /\ UNCHANGED <<db, session, spent, boot, begun, restarts>>

\* Mutant: nothing is deleted.
OnlyAdds(c, link) == {}

Deleted(c, link) == req[c].tx.seen[link] \ req[c].tx.others[link]

Replaced(c) ==
  [t \in DOMAIN db |-> IF t \in Links THEN (db[t] \ Deleted(c, t)) \cup New(c)[t] ELSE db[t]]

InsertNew(c) ==
  /\ Running(c) /\ req[c].tx.open /\ req[c].tx.waits = {}
  /\ IF \A t \in Links : New(c)[t] \subseteq References(db, t)
     THEN Commit(c, Replaced(c), New(c)) ELSE Abort(c)
  /\ UNCHANGED <<session, spent, boot, begun, restarts>>

(***************************************************************************)
(* Requests.                                                               *)
(***************************************************************************)
\* Bound: the starts that are followed by requests had no failing step.
Ready(c) == ~Running(c) /\ boot.at = 0 /\ boot.failed = {} /\ begun < MaxRequests

Begin(c, by, permission, todo) ==
  /\ Ready(c)
  /\ session[by] # NoToken /\ permission \in session[by].permissions
  /\ req' = [req EXCEPT ![c] = [by |-> by, todo |-> todo, tx |-> Closed]]
  /\ begun' = begun + 1
  /\ UNCHANGED <<db, session, boot, restarts>>

\* An id of a sequence; an aborted INSERT uses its id up too.
Take(x) == x \notin spent /\ spent' = spent \cup {x}
Keep == UNCHANGED spent

Account(e, sso) == [email |-> e, active |-> TRUE, sso |-> sso]

createUser(c, by) ==
  \E u \in UserIds, e \in Emails, roles \in RoleSets :
    /\ findByEmail(db, e) = {} /\ Take(u)
    /\ Begin(c, by, ManageUsers,
             <<Insert("user", u, Account(e, FALSE))>>
             \o Opt(roles # {}, <<Replacing({SetOf("userRole", u, roles)})>>))

updateUser(c, by) ==
  \E u \in DOMAIN db.user, edit \in UserEdits :
    /\ "email" \in DOMAIN edit => findByEmail(db, edit.email) \subseteq {u}
    /\ Keep
    /\ Begin(c, by, ManageUsers,
             Opt(DOMAIN edit # {"roles"}, <<Update("user", u, edit)>>)
             \o Opt("roles" \in DOMAIN edit, <<Replacing({SetOf("userRole", u, edit.roles)})>>))

removeUser(c, by) ==
  \E u \in DOMAIN db.user \ {by} :
    /\ Keep
    /\ Begin(c, by, ManageUsers,
             Opt(u \in activeAdmins(db), <<CountAdmins>>) \o <<Remove("user", u)>>)

createRole(c, by) ==
  \E r \in RoleIds, n \in Names \ {SystemAdmin}, permissions \in PermissionSets :
    /\ findByName(db, "role", n) = {} /\ Take(r)
    /\ Begin(c, by, "admin:roles:manage",
             <<Insert("role", r, [name |-> n, system |-> FALSE]),
               Replacing({SetOf("rolePerm", r, permissions)})>>)

Editable == {r \in DOMAIN db.role : ~db.role[r].system}

setPermissions(c, by) ==
  \E r \in Editable, permissions \in PermissionSets :
    /\ Keep
    /\ Begin(c, by, "admin:roles:manage", <<Replacing({SetOf("rolePerm", r, permissions)})>>)

setResources(c, by) ==
  \E r \in Editable, views \in ViewSets, boards \in {{}, DOMAIN db.board} :
    /\ Keep
    /\ Begin(c, by, "admin:roles:manage",
             <<Replacing({SetOf("viewGrant", r, views), SetOf("boardGrant", r, boards)})>>)

updateRole(c, by) ==
  \E r \in Editable, n \in Names \ {SystemAdmin} :
    /\ findByName(db, "role", n) \subseteq {r} /\ Keep
    /\ Begin(c, by, "admin:roles:manage", <<Update("role", r, [name |-> n])>>)

removeRole(c, by) ==
  \E r \in Editable :
    /\ Keep
    /\ Begin(c, by, "admin:roles:manage", <<Remove("role", r)>>)

\* One row of a file: a role that exists is updated in place, also a built-in one.
importRole(c, by) ==
  \E r \in RoleIds, n \in Names, permissions \in PermissionSets :
    /\ LET existing == findByName(db, "role", n)
       IN IF existing # {}
          THEN /\ Keep
               /\ Begin(c, by, "admin:roles:manage",
                        <<Replacing({SetOf("rolePerm", x, permissions) : x \in existing})>>)
          ELSE /\ Take(r)
               /\ Begin(c, by, "admin:roles:manage",
                        <<Insert("role", r, [name |-> n, system |-> FALSE])>>
                        \o Opt(permissions # {}, <<Replacing({SetOf("rolePerm", r, permissions)})>>))

\* One row of a file of users.
importUser(c, by) ==
  \E u \in UserIds, e \in Emails, roles \in RoleSets :
    /\ LET known == roles \cap DOMAIN db.role
           existing == findByEmail(db, e)
       IN IF existing # {}
          THEN /\ Keep
               /\ Begin(c, by, ManageUsers,
                        <<Replacing({SetOf("userRole", x, known) : x \in existing})>>)
          ELSE /\ Take(u)
               /\ Begin(c, by, ManageUsers,
                        <<Insert("user", u, Account(e, FALSE))>>
                        \o Opt(known # {}, <<Replacing({SetOf("userRole", u, known)})>>))

createGroup(c, by) ==
  \E g \in GroupIds, n \in Names, roles \in RoleSets, users \in UserSets :
    /\ findByName(db, "group", n) = {} /\ g \notin DOMAIN db.group /\ Take(g)
    /\ Begin(c, by, "admin:roles:manage",
             <<Insert("group", g, [name |-> n]),
               Replacing({SetOf("groupRole", g, roles), SetOf("groupMember", g, users)})>>)

updateGroup(c, by) ==
  \E g \in DOMAIN db.group, edit \in GroupEdits :
    /\ "name" \in DOMAIN edit => findByName(db, "group", edit.name) \subseteq {g}
    /\ Keep
    /\ Begin(c, by, "admin:roles:manage",
             <<Update("group", g, edit),
               Replacing({SetOf("groupRole", g, edit.roles) : x \in DOMAIN edit \cap {"roles"}}
                         \cup {SetOf("groupMember", g, edit.users) : x \in DOMAIN edit \cap {"users"}})>>)

removeGroup(c, by) ==
  \E g \in DOMAIN db.group :
    /\ Keep
    /\ Begin(c, by, "admin:roles:manage", <<Remove("group", g)>>)

(***************************************************************************)
(* Dashboards and views.                                                   *)
(***************************************************************************)
createBoard(c, by) ==
  \E b \in BoardIds :
    /\ Take(b)
    /\ Begin(c, by, ManageBoards, <<Insert("board", b, [owner |-> Nobody, active |-> TRUE])>>)

updateBoard(c, by) ==
  \E b \in DOMAIN db.board, active \in BOOLEAN :
    /\ Keep
    /\ Begin(c, by, ManageBoards, <<Update("board", b, [active |-> active])>>)

createMine(c, by) ==
  \E b \in BoardIds :
    /\ Take(b)
    /\ Begin(c, by, "dashboard:create",
             <<Insert("board", b, [owner |-> by, active |-> TRUE]), Grant("boardGrant", <<by, b>>)>>)

mustOwn(b, by) == db.board[b].owner = by \/ ManageBoards \in session[by].permissions

deleteMine(c, by) ==
  \E b \in DOMAIN db.board :
    /\ mustOwn(b, by) /\ Keep
    /\ Begin(c, by, "dashboard:create", <<Remove("board", b)>>)

shareMine(c, by) ==
  \E b \in DOMAIN db.board, s \in Subjects(db) :
    /\ mustOwn(b, by) /\ Keep
    /\ Begin(c, by, "dashboard:create", <<Grant("boardGrant", <<s, b>>)>>)

grantAccess(c, by) ==
  \E v \in Views, s \in Subjects(db) :
    /\ Keep
    /\ Begin(c, by, ManageReports, <<Grant("viewGrant", <<s, v>>)>>)

revokeAccess(c, by) ==
  \E p \in db.viewGrant :
    /\ Keep
    /\ Begin(c, by, ManageReports, <<Revoke("viewGrant", p)>>)

\* The row, and with a set of roles one DELETE and one INSERT for each.
updateView(c, by) ==
  \E v \in Views, edit \in ViewEdits :
    /\ Keep
    /\ Begin(c, by, ManageReports,
             <<Update("view", v, edit)>>
             \o Opt("roles" \in DOMAIN edit,
                    <<RevokeRoles(v)>>
                    \o [i \in DOMAIN edit.roles |-> Grant("viewGrant", <<edit.roles[i], v>>)]))

(***************************************************************************)
(* Signing in.                                                             *)
(***************************************************************************)
login(u) ==
  /\ boot.at = 0 /\ boot.failed = {} /\ u \in Callers \cap DOMAIN db.user
  /\ db.user[u].active /\ ~db.user[u].sso /\ session[u] = NoToken
  /\ session' = [session EXCEPT ![u] = issueTokens(db, u)]
  /\ UNCHANGED <<db, req, spent, boot, begun, restarts>>

refresh(u) ==
  /\ boot.at = 0 /\ boot.failed = {} /\ session[u] # NoToken
  /\ \E found \in findByEmail(db, session[u].email) :
       /\ db.user[found].active
       /\ session' = [session EXCEPT ![u] = NoToken, ![found] = issueTokens(db, found)]
  /\ UNCHANGED <<db, req, spent, boot, begun, restarts>>

\* The callback of the identity provider finds the account, or provisions it.
handleCallback(c) ==
  \E u \in UserIds, e \in Emails :
    /\ Ready(c)
    /\ begun' = begun + 1
    /\ IF findByEmail(db, e) = {}
       THEN /\ Take(u)
            /\ req' = [req EXCEPT ![c] = [Idle EXCEPT !.todo = <<Provision(u, Account(e, TRUE)), Issue(u)>>]]
            /\ UNCHANGED session
       ELSE /\ u \in findByEmail(db, e) /\ db.user[u].active
            /\ session' = [session EXCEPT ![u] = issueTokens(db, u)]
            /\ UNCHANGED <<req, spent>>
    /\ UNCHANGED <<db, boot, restarts>>

(***************************************************************************)
(* Starts.  A crash ends the requests where they are; tokens stay with     *)
(* the browsers.                                                           *)
(***************************************************************************)
restart ==
  /\ restarts < MaxRestarts /\ boot.at = 0 /\ begun > 0
  /\ begun < MaxRequests \/ activeAdmins(db) = {}
  /\ req' = [c \in Clients |-> Idle]
  /\ boot' = [at |-> 1, failed |-> {}, kept |-> KeptAdmins(db)]
  /\ restarts' = restarts + 1
  /\ UNCHANGED <<db, session, spent, begun>>

Started == [at |-> 0, failed |-> {}, kept |-> {}]
NextStep(failed) ==
  IF boot.at = 7 THEN [Started EXCEPT !.failed = failed] ELSE [boot EXCEPT !.at = @ + 1, !.failed = failed]

onApplicationBootstrap ==
  /\ boot.at \in Steps
  /\ \/ db' = Step(boot.at, db) /\ boot' = NextStep(boot.failed)
     \/ /\ Cardinality(boot.failed) < MaxFailures
        /\ boot' = NextStep(boot.failed \cup {boot.at})
        /\ UNCHANGED db
  /\ spent' = spent \cup DOMAIN db'.group
  /\ UNCHANGED <<session, req, begun, restarts>>

Init ==
  /\ db \in AtFirst
  /\ session = [u \in UserIds |-> IF u \in SignedIn THEN issueTokens(db, u) ELSE NoToken]
  /\ req = [c \in Clients |-> Idle]
  /\ spent = DOMAIN db.user \cup DOMAIN db.role \cup DOMAIN db.group \cup DOMAIN db.board
  /\ boot = [at |-> 1, failed |-> {}, kept |-> KeptAdmins(db)]
  /\ begun = 0 /\ restarts = 0

UserAdmin(c, by) == createUser(c, by) \/ updateUser(c, by) \/ removeUser(c, by) \/ importUser(c, by)
RoleAdmin(c, by) ==
  \/ createRole(c, by) \/ setPermissions(c, by) \/ setResources(c, by)
  \/ updateRole(c, by) \/ removeRole(c, by) \/ importRole(c, by)
GroupAdmin(c, by) == createGroup(c, by) \/ updateGroup(c, by) \/ removeGroup(c, by)
Sharing(c, by) ==
  \/ createBoard(c, by) \/ createMine(c, by) \/ deleteMine(c, by) \/ shareMine(c, by)
  \/ grantAccess(c, by) \/ revokeAccess(c, by) \/ updateBoard(c, by) \/ updateView(c, by)

Next ==
  \/ onApplicationBootstrap \/ restart
  \/ \E u \in UserIds : login(u) \/ refresh(u)
  \/ \E c \in Clients :
       \/ Statement(c) \/ IssueToken(c) \/ DeleteOld(c) \/ InsertNew(c) \/ handleCallback(c)
       \/ \E by \in UserIds : \/ UserAdmin(c, by) \/ RoleAdmin(c, by)
                              \/ GroupAdmin(c, by) \/ Sharing(c, by)

Spec == Init /\ [][Next]_vars

(***************************************************************************)
(* Properties.                                                             *)
(***************************************************************************)
\* A start none of whose steps failed keeps every administrator: whoever could
\* manage users before still can (schema-bootstrap.service.ts, the order of the
\* steps that move administrators and then remove the seed roles).
BootKeepsAdmins ==
  [][boot.at = 7 /\ boot.failed = {} /\ boot'.at = 0 =>
       \A u \in boot.kept : ManageUsers \in PermissionsOf(db', u)]_vars

\* Whatever requests and imports have made of the role and the group, and
\* whichever other steps of the start fail: once the role, its permissions and
\* the group's role have been asserted (steps 1, 2, 4), every member of the
\* administrators' group holds every permission; once the group and its default
\* member have been (3, 6), the group has a member, unless the account of the
\* default address is gone (schema-bootstrap.service.ts).
StartRestores ==
  [][boot.at = 7 /\ boot'.at = 0 =>
       /\ boot'.failed \cap {1, 2, 4} = {} =>
            \A g \in AdminGroups(db'), u \in DOMAIN db'.user :
              <<g, u>> \in db'.groupMember => Permissions \subseteq PermissionsOf(db', u)
       /\ boot'.failed \cap {3, 6} = {} =>
            \/ \E g \in AdminGroups(db'), u \in DOMAIN db'.user : <<g, u>> \in db'.groupMember
            \/ findByEmail(db', DefaultEmail) = {}]_vars

\* A set that was replaced holds what was asked and what others committed since
\* the old rows were deleted, and nothing older (setRoles, setPermissions,
\* setMembership, setResourceGrants).
SaveReplaces ==
  [][\A c \in Clients :
       req[c].tx.open /\ req'[c].todo = Tail(req[c].todo) /\ db' # db =>
         \A s \in Now(c).sets :
           InSet(db', s) = s.rows \cup (req[c].tx.others[s.link] \cap InSet(db, s))]_vars

\* With the role names a token issued now would carry, a user is shown exactly
\* the active views and dashboards that are granted to him, to a role of his or
\* to his groups' roles, and his own.
SeesWhatIsGranted ==
  \A u \in DOMAIN db.user :
    /\ \A v \in Views :
         v \in accessibleViews(db, u, RoleNames(db, u))
           <=> db.view[v].active /\ MaySee(db, u, db.viewGrant, v, ManageReports)
    /\ \A b \in DOMAIN db.board :
         b \in accessibleBoards(db, u, RoleNames(db, u))
           <=> /\ db.board[b].active
               /\ db.board[b].owner = u \/ MaySee(db, u, db.boardGrant, b, ManageBoards)
=============================================================================
