CONSTANTS
  SkipChoices = {FALSE}
  NumScefs = 1
  MaxEvents = 0
  IOThreads = 1
  MayFail = {}
  MayNotIssue = {}
  U32 = 64
SPECIFICATION Spec
INVARIANT NoThreadStarved
CHECK_DEADLOCK FALSE
