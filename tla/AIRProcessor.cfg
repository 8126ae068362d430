CONSTANTS
  Procs = {p1, p2}
  FDThreads = {f1}
  Workers = {w1, w2}
  NoProc = NoProc
  DefaultConcurrent = 1
  ConfConcurrent = 2
  Kinds = {"plain", "resync", "rejected"}
  MayNotIssue = {"SEC", "UPD"}
  WriteMayFail = TRUE
  InitSqn = 992
  SqnMs = 500
  SqnMod = 1024
SPECIFICATION FairSpec
INVARIANT TypeOK
INVARIANT FreshSqn
INVARIANT AnsweredOnce
INVARIANT KeptOnlyIfRejected
PROPERTY QueueSpec
PROPERTY EveryRequestEnds
CHECK_DEADLOCK FALSE
