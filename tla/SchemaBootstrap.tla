--------------------------- MODULE SchemaBootstrap ---------------------------
(***************************************************************************)
(* What the application asserts at every start: the System Admin role, its *)
(* permissions and its group, and the move off the seed roles of earlier   *)
(* releases.  backend/src/database/schema-bootstrap.service.ts.  The steps *)
(* run one after the other; one that fails is logged and the next is run.  *)
(***************************************************************************)
EXTENDS AccessData

CONSTANTS AdminRole,         \* the id the role gets
          GroupIds,          \* the ids groups get
          AdminGroupName, DefaultEmail

SystemAdminRole(d) == findByName(d, "role", SystemAdmin)
AdminGroups(d) == findByName(d, "group", AdminGroupName)

AssertRole(d) ==
  IF SystemAdminRole(d) = {}
  THEN [d EXCEPT !.role = Put(@, AdminRole, [name |-> SystemAdmin, system |-> TRUE])]
  ELSE [d EXCEPT !.role = [r \in DOMAIN @ |->
                             IF r \in SystemAdminRole(d) THEN [@[r] EXCEPT !.system = TRUE] ELSE @[r]]]

\* Mutant: a role that has been asserted before keeps what it has.
PermissionsOnce(d) ==
  IF \E r \in SystemAdminRole(d), g \in AdminGroups(d) : <<g, r>> \in d.groupRole THEN d
  ELSE [d EXCEPT !.rolePerm = @ \cup (SystemAdminRole(d) \X Permissions)]

AssertPermissions(d) ==
  [d EXCEPT !.rolePerm = @ \cup (SystemAdminRole(d) \X Permissions)]

AssertGroup(d) ==
  IF AdminGroups(d) # {} THEN d
  ELSE LET g == CHOOSE g \in GroupIds : g \notin DOMAIN d.group
       IN [d EXCEPT !.group = Put(@, g, [name |-> AdminGroupName])]

AssertGroupRole(d) ==
  [d EXCEPT !.groupRole = @ \cup (AdminGroups(d) \X SystemAdminRole(d))]

\* Whoever holds the permission through a role of his own.
DirectAdmins(d) ==
  {u \in DOMAIN d.user : \E r \in DOMAIN d.role : /\ <<u, r>> \in d.userRole
                                                  /\ <<r, ManageUsers>> \in d.rolePerm}

MigrateAdmins(d) ==
  [d EXCEPT !.groupMember = @ \cup (AdminGroups(d) \X DirectAdmins(d))]

SeedAdmin(d) ==
  IF \E g \in AdminGroups(d), u \in DOMAIN d.user : <<g, u>> \in d.groupMember THEN d
  ELSE [d EXCEPT !.groupMember = @ \cup (AdminGroups(d) \X findByEmail(d, DefaultEmail))]

Legacy(d) == {r \in DOMAIN d.role : d.role[r].system /\ d.role[r].name # SystemAdmin}
RemoveLegacy(d) ==
  Prune([d EXCEPT !.role = [r \in DOMAIN @ \ Legacy(d) |-> @[r]]])

Steps == 1..7

\* Mutant: the seed roles go before their administrators are in the group.
RemovedFirst(n, d) ==
  CASE n = 1 -> AssertRole(d)
    [] n = 2 -> AssertPermissions(d)
    [] n = 3 -> AssertGroup(d)
    [] n = 4 -> AssertGroupRole(d)
    [] n = 5 -> RemoveLegacy(d)
    [] n = 6 -> MigrateAdmins(d)
    [] n = 7 -> SeedAdmin(d)

Step(n, d) ==
  CASE n = 1 -> AssertRole(d)
    [] n = 2 -> AssertPermissions(d)
    [] n = 3 -> AssertGroup(d)
    [] n = 4 -> AssertGroupRole(d)
    [] n = 5 -> MigrateAdmins(d)
    [] n = 6 -> SeedAdmin(d)
    [] n = 7 -> RemoveLegacy(d)

\* The administrators a start is to keep: all but those whose permission comes
\* only from a seed role that a group carries.
KeptAdmins(d) ==
  {u \in DOMAIN d.user :
     \E r \in EffectiveRoles(d, u) : /\ <<r, ManageUsers>> \in d.rolePerm
                                     /\ r \in Legacy(d) => <<u, r>> \in d.userRole}
=============================================================================
