CONSTANTS
  SkipChoices = {TRUE, FALSE}
  NumScefs = 1
  MaxEvents = 1
  IOThreads = 1
  MayFail = {"IDS_EXTIDS", "MMEID", "EVENTS"}
  MayNotIssue = {"EVENTS", "UPDATE"}
  U32 = 64
SPECIFICATION FairSpec
INVARIANT TypeOK
INVARIANT DbIssuedCountsInFlight
INVARIANT NoUseAfterDelete
INVARIANT AnsweredThenWritten
 
CHECK_DEADLOCK FALSE
