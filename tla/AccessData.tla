----------------------------- MODULE AccessData -----------------------------
(***************************************************************************)
(* Who may do and see what: the tables of users, roles, groups and grants  *)
(* (db/init.sql, db/access_control.sql), the queries that resolve a user's *)
(* roles, permissions, views and dashboards, and what one statement does   *)
(* to the tables.  backend/src/users, roles, groups, dashboard and reports *)
(* (the repositories' access queries).                                     *)
(***************************************************************************)
EXTENDS Naturals, FiniteSets

CONSTANTS Permissions,     \* the codes in the table permissions
          Views,           \* ids of the views (table reports), which stay
          SystemAdmin,     \* the name 'System Admin'
          Nobody           \* owner of a shared dashboard

ManageUsers == "admin:users:manage"
ManageBoards == "admin:dashboards:manage"
ManageReports == "admin:reports:manage"

ASSUME CodesAssumption == {ManageUsers, ManageBoards, ManageReports} \subseteq Permissions

(***************************************************************************)
(* The database: rows by id, and the many-to-many tables as sets of pairs. *)
(* A role or a user is the subject of a grant.                             *)
(***************************************************************************)
Links == {"userRole", "rolePerm", "groupRole", "groupMember", "viewGrant", "boardGrant"}

Tables == {"user", "role", "group", "board", "view"}

\* What the schema says of the tables, as far as roles and views go.
Columns(d) ==
  /\ DOMAIN d = Tables \cup Links
  /\ \A r \in DOMAIN d.role : DOMAIN d.role[r] = {"name", "system"}
  /\ DOMAIN d.view = Views
UniqueNames(d) ==
  \A r, q \in DOMAIN d.role : d.role[r].name = d.role[q].name => r = q

Subjects(d) == DOMAIN d.user \cup DOMAIN d.role

\* The rows a pair of each table references.
LeftOf(d, link) ==
  CASE link = "userRole" -> DOMAIN d.user
    [] link = "rolePerm" -> DOMAIN d.role
    [] link \in {"groupRole", "groupMember"} -> DOMAIN d.group
    [] link \in {"viewGrant", "boardGrant"} -> Subjects(d)
RightOf(d, link) ==
  CASE link \in {"userRole", "groupRole"} -> DOMAIN d.role
    [] link = "rolePerm" -> Permissions
    [] link = "groupMember" -> DOMAIN d.user
    [] link = "viewGrant" -> Views
    [] link = "boardGrant" -> DOMAIN d.board

References(d, link) == LeftOf(d, link) \X RightOf(d, link)

(***************************************************************************)
(* Effective access.                                                       *)
(***************************************************************************)
EffectiveRoles(d, u) ==
  {r \in DOMAIN d.role : \/ <<u, r>> \in d.userRole
                         \/ \E g \in DOMAIN d.group : /\ <<g, u>> \in d.groupMember
                                                      /\ <<g, r>> \in d.groupRole}

RoleNames(d, u) == {d.role[r].name : r \in EffectiveRoles(d, u)}

PermissionsOf(d, u) ==
  {p \in Permissions : \E r \in EffectiveRoles(d, u) : <<r, p>> \in d.rolePerm}

activeAdmins(d) ==
  {u \in DOMAIN d.user : d.user[u].active /\ ManageUsers \in PermissionsOf(d, u)}

findByEmail(d, e) == {u \in DOMAIN d.user : d.user[u].email = e}
findByName(d, table, n) == {x \in DOMAIN d[table] : d[table][x].name = n}

adminBypass(d, names, p) ==
  \E r \in DOMAIN d.role : d.role[r].name \in names /\ <<r, p>> \in d.rolePerm

\* Mutant: an inner join drops a view without grants before the bypass applies.
InnerJoined(d, u, names) ==
  {v \in Views : /\ d.view[v].active
                 /\ \E p \in d.viewGrant : /\ p[2] = v
                                           /\ \/ p[1] = u
                                              \/ p[1] \in DOMAIN d.role /\ d.role[p[1]].name \in names
                                              \/ adminBypass(d, names, ManageReports)}

\* The queries know a user by the id and the role names of the token.
accessibleViews(d, u, names) ==
  {v \in Views :
     /\ d.view[v].active
     /\ \/ <<u, v>> \in d.viewGrant
        \/ \E r \in DOMAIN d.role : <<r, v>> \in d.viewGrant /\ d.role[r].name \in names
        \/ adminBypass(d, names, ManageReports)}

accessibleBoards(d, u, names) ==
  {b \in DOMAIN d.board :
     /\ d.board[b].active
     /\ \/ d.board[b].owner = u
        \/ <<u, b>> \in d.boardGrant
        \/ \E r \in DOMAIN d.role : <<r, b>> \in d.boardGrant /\ d.role[r].name \in names
        \/ adminBypass(d, names, ManageBoards)}

\* What they are to return: a grant to the user, or to a role of his.
MaySee(d, u, grants, x, p) ==
  \/ \E s \in {u} \cup EffectiveRoles(d, u) : <<s, x>> \in grants
  \/ p \in PermissionsOf(d, u)

(***************************************************************************)
(* Statements.                                                             *)
(***************************************************************************)
Put(f, x, row) == [y \in DOMAIN f \cup {x} |-> IF y = x THEN row ELSE f[y]]

\* ON DELETE CASCADE: no pair and no dashboard outlives what it references.
Prune(d) ==
  LET kept == [d EXCEPT !.board = [b \in {b \in DOMAIN @ : @[b].owner \in DOMAIN d.user \cup {Nobody}}
                                     |-> @[b]]]
  IN [t \in DOMAIN d |-> IF t \in Links THEN d[t] \cap References(kept, t) ELSE kept[t]]

Delete(d, table, x) == Prune([d EXCEPT ![table] = [y \in DOMAIN @ \ {x} |-> @[y]]])

\* UNIQUE and REFERENCES of a row that is inserted or changed.
Unique(d, table, x, row) ==
  \A y \in DOMAIN d[table] \ {x} :
    CASE table = "user" -> d.user[y].email # row.email
      [] table \in {"role", "group"} -> d[table][y].name # row.name
      [] table \in {"board", "view"} -> TRUE
Referenced(d, table, row) == table = "board" => row.owner \in DOMAIN d.user \cup {Nobody}
=============================================================================
