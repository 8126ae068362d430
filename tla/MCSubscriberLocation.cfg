SPECIFICATION Spec
CONSTANTS
  Mmes = {"m1", "m2"}
  FirstMmes = {"m1"}
  HomeMme = "m2"
  HomeId = "m1"
  Provisioned = {"s1", "s2"}
  Strangers = {"u"}
  MsisdnOf <- Numbers
  Dialled <- Texts
  Located = {"s1", "u"}
  Workers = {1, 2}
  MaxRequests = 3
INVARIANTS TypeOK RowDenotesOneMme RoutedRight ServedWhereSeen NoStrangerAttached
PROPERTIES PurgeOutcome ReportIffMoved
CHECK_DEADLOCK FALSE
