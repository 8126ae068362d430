CONSTANTS
  Imsis = {i1, i2}
  Others = {}
  Keys = {k1}
  MaxOps = 2
  MaxFirings = 1
  DbMayFail = TRUE
  SendMayFail = TRUE
SPECIFICATION FairSpec
INVARIANT AnsweredOnce
INVARIANT FinalReport
INVARIANT MapOutlivesResponses
 
PROPERTY GroupReported
PROPERTY GuardReports
CHECK_DEADLOCK FALSE
