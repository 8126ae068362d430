CONSTANTS
  Procs = {p1, p2, p3}
  FDThreads = {f1}
  Workers = {w1, w2}
  DefaultConcurrent = 2
  ConfConcurrent = 1
  MaxQueries = 2
  NoProc = NoProc
SPECIFICATION FairSpec
INVARIANT TypeOK
INVARIANT SlotAccounting
INVARIANT ConcurrencyLimit
INVARIANT NoLostStart
INVARIANT NoUseAfterDelete
PROPERTY EveryRequestEnds
CHECK_DEADLOCK FALSE
