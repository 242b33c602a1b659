CONSTANTS
  a = a
  b = b
  Worker = {a}
  MaxOwner = 1
  MaxItem = 1
  MaxConnects = 1
  Crashes = FALSE
SPECIFICATION SyncingSpec
PROPERTY DeferredAttaches
CHECK_DEADLOCK FALSE
