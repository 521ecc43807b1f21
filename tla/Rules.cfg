SPECIFICATION Spec
CONSTANTS
  Info <- MCInfo
  Disks <- MCDisks
  Stored <- MCStored
  Drafts <- MCDrafts
  Policies <- MCPolicies
  Decisions <- MCDecisions
  Now = 4
  Day = 2
INVARIANTS GlobIsComplete DraftMeansItsConditions AutoDecisionsAreAccepted DraftComesToRest
CHECK_DEADLOCK FALSE
