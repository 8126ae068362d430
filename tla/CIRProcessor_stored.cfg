CONSTANTS
  Imsis = {i1}
  Others = {}
  Keys = {k1}
  MaxOps = 1
  MaxFirings = 0
  DbMayFail = FALSE
  SendMayFail = FALSE
SPECIFICATION Spec
PROPERTY RequestStored
CHECK_DEADLOCK FALSE
