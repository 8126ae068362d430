SPECIFICATION Spec
CONSTANTS
  Queues = {"stats", "work"}
  Threads = {"main", "diameter", "oss", "db", "stats", "worker", "timer"}
  Timer = "timer"
  Types = {"rir", "srr"}
  MaxEvents = 1
  MaxWork = 1
  MaxTimer = 1
INVARIANTS TokensMatch BlocksOnlyWhenRaced ShownCounts CountedBeforeEnd
PROPERTIES ExitsWhenAsked
CHECK_DEADLOCK FALSE
