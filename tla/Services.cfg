SPECIFICATION ServicesSpec
CONSTANTS
  None = None
  h1 = h1
  h2 = h2
  x1 = x1
  x2 = x2
  y1 = y1
  y2 = y2
  z = z
  Users = {x1, x2}
  Tenants = {y1, y2}
  RoleNames = {"admin", "member"}
  Calls = {h1, h2}
  MemberPage = 2
  SerialChanges = TRUE
  FailingOps = {"create_tenant", "remove"}
  MaxDisabled = 1
  RoleIds = {x1, x2}
  Homes = {y1, y2}
  Names = {"viewer", "auditor"}
  SystemNames = {"viewer"}
  Perms = {"read"}
  SystemPerms <- MCSystemPerms
  RoleCalls = {h1, h2}
  SerialRoles = TRUE
  FailingRoles = {"delete"}
  Tokens = {x1, x2}
  TokenCalls = {h1, h2}
  AccessTtl = 1
  RefreshTtl = 3
  NaiveRows = TRUE
  MaxClock = 5
  ConnIds = {z}
  Configs = {"old", "new"}
  ConnCalls = {h1, h2, z}
  Loads = {h1, h2}
  CacheTtl = 2
  MaxNow = 4
  MaxVersion = 2
  EntryIds = {x1, x2, z}
  Fields = {"name", "age"}
  Writers = {h1, h2}
  Base = "base"
  Absent = "absent"
  Chats = {z}
  Turns = {h1, h2}
  Modules = {"ontology", "data"}
  Capabilities = {"write", "read"}
  Actions = {"write"}
  Asked = {x1, x2}
  MaxIterations = 2
  MaxDecisions = 2
  SerialResumes = TRUE
  Entries = {x1, x2, z}
  Admins = {h1, h2}
  SerialDefaults = TRUE
  Nodes = {x1, x2, z}
  Stranger = None
  EdgeIds = {h1, h2, z}
  Funcs = {x1, x2}
  ApiNames = {"sum"}
  Workflows = {z}
  DeclaredLevels = {0, 3}
  FuncCalls = {h1, h2}
  FuncRecords = {y1, y2}
  Branches = {x1, x2, z}
  Main = z
  Commits = {"c"}
  BranchCalls = {h1, h2}
  Props = {x1, x2, z}
  Columns = {"c", z}
SYMMETRY Symmetry
INVARIANTS
  ServicesTypeOK
  GrantsBacked
  OneDefault
  PoliciesBacked
  NamesUnique
  RevokedRefused
  StalenessBounded
  LaterEditWins
  ToolsConfined
  DecidedOnce
  OneDefaultModel
  DeletedStayDeleted
  RefusedWhenStuck
  PredecessorsDone
  NothingLostUnread
  MaskedHidden
PROPERTIES
  MainKeeps
CHECK_DEADLOCK FALSE
