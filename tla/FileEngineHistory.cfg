SPECIFICATION Spec
CONSTANTS
  a = a
  b = b
  c = c
  d = d
  dx = dx
  rd = rd
  root = root
  t1 = t1
  t2 = t2
  t3 = t3
  t4 = t4
  Path <- TreePath
  Top = root
  Parent <- TreeParent
  Readme = rd
  Data = {t1, t2}
  InitDisk <- NestDisk
  Proposals <- NestProposals
  Renames = {}
  MaxBatch = 2
  PlanOnly = FALSE
  UndoScopes = {"one"}
  UserMayActAt = {"idle", "planned"}
  MaxOp = 2
  MaxCrash = 0
  MaxUser = 2
  MaxTrouble = 2
  MaxRows = 6
  MaxGarbled = 0
INVARIANT HistoryTellsWhyUndoFails
CHECK_DEADLOCK FALSE
