-------------------------- MODULE MCAccessControl --------------------------
(***************************************************************************)
(* Instance of AccessControl: the database of an installation before its   *)
(* first start, and one that has a custom role and a group.                *)
(***************************************************************************)
EXTENDS AccessControl, TLC

Both == {"root", "ann"}
People == [u \in Both |-> [email |-> u, active |-> TRUE, sso |-> FALSE]]

\* The seed roles of init.sql are still there; a custom role manages users and
\* reaches ann through a group.
Earlier ==
  [user |-> People,
   role |-> [r \in {"r1", "r2"} |-> [name |-> IF r = "r1" THEN "viewer" ELSE "auditor", system |-> r = "r1"]],
   group |-> [g \in {"g1"} |-> [name |-> "staff"]],
   board |-> [b \in {"b1"} |-> [owner |-> "ann", active |-> TRUE]],
   view |-> [v \in Views |-> [active |-> TRUE]],
   userRole |-> {<<"root", "r1">>, <<"ann", "r1">>},
   rolePerm |-> ({"r1"} \X Permissions) \cup {<<"r2", ManageUsers>>, <<"r2", "dashboard:create">>},
   groupRole |-> {<<"g1", "r2">>}, groupMember |-> {<<"g1", "ann">>},
   viewGrant |-> {<<"r2", "v1">>}, boardGrant |-> {<<"ann", "b1">>}]

MCSymmetry == Permutations(Clients)

MCAtFirst == {Earlier}
MCUserEdits == {[active |-> FALSE], [email |-> "bob"], [roles |-> {"sys"}], [active |-> TRUE, roles |-> {}]}
MCGroupEdits == {[roles |-> {"sys"}], [name |-> "viewer", roles |-> {"r2"}, users |-> {"ann"}], [users |-> {}]}
MCViewEdits == {[active |-> FALSE], [active |-> TRUE, roles |-> <<"r2", "sys">>]}
MCRoleSets == {{"r2"}, {"sys"}}
MCUserSets == {{"ann"}}
MCPermissionSets == {{}, {ManageUsers}}
=============================================================================
