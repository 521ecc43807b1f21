SPECIFICATION FairSpec
CONSTANTS
  c1 = c1
  c2 = c2
  w1 = w1
  w2 = w2
  Command = {c1}
  Worker = {w1, w2}
  Tick = w1
  FromChat = {c1}
  Malformed = {}
  Unhandled = {}
  Analyses = {"items", "error"}
  Results = {"SUCCEEDED"}
  FlushBatch = 2
  MayTimeOut = {"flush"}
  MaxTimeout = 1
  MaxCrash = 0
PROPERTIES ApprovedIsSettled CommandSettles
CHECK_DEADLOCK FALSE
