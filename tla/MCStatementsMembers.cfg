SPECIFICATION StatementsSpec
CONSTANTS
  Parts = {"binding"}
  Actors = {a1, a2}
  v1 = v1
  v2 = v2
  None = None
  NoField = NoField
  Keys = {"row"}
  Columns = {"tenant", "draft", "deleted", "id"}
  Virtual = {"shown"}
  BooleanColumns = {"draft"}
  Required = {"id"}
  Values = {v1, v2}
  CurrentKeys = {"own"}
  AllowedKeys = {"seen"}
  Declarations <- MCDeclarations
  Snapshots <- MCSnapshots
  Assignments <- MCAssignments
  MaxHeld = 1
  Words <- MCWords
  Names <- MCMemberNames
  CallerNames <- MCCallerNames
  Collections <- MCCollections
  Size <- MCMemberSize
  MaxPlaces = 3
  MaxSubqueries = 2
  MaxPolicies = 1
  MaxTextPlaces = 6
  Queries <- MCQueries
  Plans <- MCPlans
  Contents <- MCContents
  Largest = 9
  NotGiven = NotGiven
  Physical <- MCPhysical
  Definitions <- MCVirtual
  Relations <- MCRelations
  References <- MCReferences
  Requests <- MCRequests
  Base = "person"
  Null = Null
  MaxDepth = 12
INVARIANT MembersKeepTheirPlace
CHECK_DEADLOCK FALSE
