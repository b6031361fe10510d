SPECIFICATION Spec
CONSTANTS
  Permissions = {"admin:users:manage", "admin:roles:manage", "admin:reports:manage", "admin:dashboards:manage", "dashboard:create"}
  Views = {"v1"}
  SystemAdmin = "System Admin"
  Nobody = "nobody"
  AdminRole = "sys"
  GroupIds = {"g1", "g2", "g3"}
  AdminGroupName = "System Administrators"
  DefaultEmail = "root"
  Clients = {c1, c2}
  UserIds = {"root", "ann", "bob"}
  RoleIds = {"r1", "r2", "r3"}
  BoardIds = {"b1", "b2"}
  Names = {"viewer", "System Admin"}
  Emails = {"root", "ann", "bob"}
  RoleSets <- MCRoleSets
  UserSets <- MCUserSets
  PermissionSets <- MCPermissionSets
  ViewSets = {{"v1"}}
  DefaultRole = "viewer"
  AtFirst <- MCAtFirst
  UserEdits <- MCUserEdits
  GroupEdits <- MCGroupEdits
  ViewEdits <- MCViewEdits
  Callers = {"ann"}
  SignedIn = {"root"}
  MaxRequests = 2
  MaxRestarts = 1
  MaxFailures = 1
INVARIANTS SeesWhatIsGranted
PROPERTIES BootKeepsAdmins StartRestores SaveReplaces
SYMMETRY MCSymmetry
CHECK_DEADLOCK FALSE
