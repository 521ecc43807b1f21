SPECIFICATION Spec
CONSTANTS
  Paths <- MCPaths
  Parent <- MCParent
  Rank <- MCRank
  Root = "/"
  Queries <- MCQueries
  Hidden = {}
  Kinds <- MCKinds
  Limit = 1
  Directories = {"/"}
  MaxEdits = 1
  MaxFaults = 1
  MaxBusy = 2
INVARIANTS PagesAreExact
PROPERTIES ClearedIndexIsNeverSearched Converges
CHECK_DEADLOCK FALSE
