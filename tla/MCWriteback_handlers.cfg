CONSTANTS
  r1 = r1
  r2 = r2
  Request = {r1, r2}
  Crashes = TRUE
  MaxWrites = 3
SPECIFICATION FairSpec
INVARIANTS
  EffectsAccounted
  
  NoDecisionDuringCall
PROPERTIES
  
  CallsEnd
CHECK_DEADLOCK FALSE
