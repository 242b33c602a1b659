CONSTANTS
  r1 = r1
  r2 = r2
  Request = {r1}
  Crashes = FALSE
  MaxWrites = 2
SPECIFICATION Spec
INVARIANT WrittenOnce
CHECK_DEADLOCK FALSE
