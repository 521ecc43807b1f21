SPECIFICATION Spec
CONSTANTS
  c1 = c1
  c2 = c2
  w1 = w1
  w2 = w2
  Command = {c1}
  Worker = {w1, w2}
  Tick = w1
  FromChat = {}
  Malformed = {}
  Unhandled = {}
  Analyses = {"items", "none", "error"}
  Results = {"SUCCEEDED", "STALE"}
  FlushBatch = 2
  MayTimeOut = {"scan", "write", "flush"}
  MaxTimeout = 1
  MaxCrash = 1
INVARIANTS TypeOK RunsOnceApproved ReportIsTrue TablesAgree
PROPERTIES FinalIsFinal
SYMMETRY WorkerSymmetry
CHECK_DEADLOCK FALSE
