SPECIFICATION ServicesSpec
CONSTANTS
  Parts = {"environment", "queue", "migration", "registry", "reader"}
  connectionName = connectionName
  organization = organization
  one = one
  two = two
  None = None
  Threads = {worker}
  Keys = {connectionName, organization}
  Values = {one, two, None}
  Defaults <- MCDefaults
  Mappings <- MCMappings
  MaxDepth = 3
  Blocks = {1, 2}
  Callbacks = {c, r}
  Recursive = {r}
  Nobody = Nobody
  MaxRegistrations = 4
  first = first
  second = second
  planner = planner
  stable = stable
  old = old
  new = new
  Runs = {first, second, planner}
  Objects = {stable, old, new}
  Desired <- MCDesired
  Operation <- MCOperation
  Allows = {first}
  near = near
  beside = beside
  far = far
  home = home
  away = away
  Here = here
  Absent = absent
  Processes = {near, beside, far}
  Names = {sales}
  Paths = {shop}
  Cwd <- MCCwd
  MaxFiles = 2
  Null = Null
  Contents <- MCContents
  Scopes = {"mine", "theirs"}
  PrimaryKeys <- MCPrimaryKeys
  Wheres <- MCWheres
  Keywords <- MCKeywords
INVARIANTS ServesTheQueue RunsEndHonestly NamesKeepTheirMeaning GivesWhatWasAsked
PROPERTIES LeavingRestores ImplementsSet DrainTerminates
CHECK_DEADLOCK FALSE
