CONSTANTS
  SkipChoices = {FALSE}
  NumScefs = 1
  MaxEvents = 1
  IOThreads = 1
  MayFail = {}
  MayNotIssue = {}
  U32 = 64
SPECIFICATION Spec
INVARIANT EvtIssuedCountsInFlight
CHECK_DEADLOCK FALSE
