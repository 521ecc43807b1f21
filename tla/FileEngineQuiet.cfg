SPECIFICATION Spec
CONSTANTS
  a = a
  b = b
  c = c
  d = d
  dx = dx
  rd = rd
  root = root
  t1 = t1
  t2 = t2
  t3 = t3
  t4 = t4
  Path <- FlatPath
  Top = root
  Parent <- FlatParent
  Readme = rd
  Data = {t1, t2, t3}
  InitDisk <- FlatDisk
  Proposals <- FlatProposals
  Renames <- FlatRenames
  MaxBatch = 2
  PlanOnly = TRUE
  UndoScopes = {"all"}
  UserMayActAt = {}
  MaxOp = 3
  MaxCrash = 1
  MaxUser = 0
  MaxTrouble = 1
  MaxRows = 12
  MaxGarbled = 0
INVARIANTS TypeOK DisplacedIsJournaled
PROPERTY UndoAllRestores
CHECK_DEADLOCK FALSE
