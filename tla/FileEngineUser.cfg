SPECIFICATION Spec
CONSTANTS
  a = a
  b = b
  c = c
  d = d
  dx = dx
  rd = rd
  root = root
  t1 = t1
  t2 = t2
  t3 = t3
  t4 = t4
  Path <- TreePath
  Top = root
  Parent <- TreeParent
  Readme = rd
  Data = {t1, t2}
  InitDisk <- TreeDisk
  Proposals <- TreeProposals
  Renames = {}
  MaxBatch = 2
  PlanOnly = FALSE
  UndoScopes = {"one"}
  UserMayActAt = {"idle", "planned"}
  MaxOp = 2
  MaxCrash = 1
  MaxUser = 2
  MaxTrouble = 2
  MaxRows = 6
  MaxGarbled = 1
INVARIANT HistoryMirrorsUndo
PROPERTIES NoDataLost RowsAreKept
CHECK_DEADLOCK FALSE
