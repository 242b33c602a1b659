CONSTANTS
  a = a
  b = b
  Worker = {a, b}
  Registry <- TwoDetectors
  Severity = {"high"}
  Modulus = 2
  MaxChanges = 3
  Checker = {a, b}
  Account = {"acme"}
  Named <- References
  UsageSLA = 1
  SyncSLA = 1
  MaxToday = 2
  Ahead = 0
  MaxMoves = 2
SPECIFICATION SideSpec
PROPERTIES
  EveryDetectionCounts
  Settles
  IssuesSettle
CHECK_DEADLOCK FALSE
