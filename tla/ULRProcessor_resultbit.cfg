CONSTANTS
  SkipChoices = {TRUE}
  NumScefs = 1
  MaxEvents = 0
  IOThreads = 1
  MayFail = {}
  MayNotIssue = {}
  U32 = 64
SPECIFICATION Spec
PROPERTY ResultBitPerQuery
CHECK_DEADLOCK FALSE
