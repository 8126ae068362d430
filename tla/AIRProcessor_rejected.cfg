CONSTANTS
  Procs = {p1}
  FDThreads = {f1}
  Workers = {w1, w2}
  NoProc = NoProc
  DefaultConcurrent = 1
  ConfConcurrent = 1
  Kinds = {"plain", "rejected"}
  MayNotIssue = {}
  WriteMayFail = FALSE
  InitSqn = 64
  SqnMs = 500
  SqnMod = 1024
SPECIFICATION Spec
INVARIANT PhaseRecognised
CHECK_DEADLOCK FALSE
