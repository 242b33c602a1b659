CONSTANTS
  a = a
  b = b
  ticket = ticket
  narrative = narrative
  Worker = {a, b}
  Input = {ticket, narrative}
  Narrative = {narrative}
  Budget = 2
  MaxTokens = 2
  MaxDay = 2
  MaxRuns = 1
  MaxLost = 4
  Crashes = TRUE
  Key = {"address"}
  Class = {"expensive", "standard"}
  Capacity <- Capacities
  Refill <- Refills
  Unit = 5
  Second = 3
  MaxTime = 10
SPECIFICATION LimitsSpec
SYMMETRY Symmetry
INVARIANTS
  
  OverrunBounded
  
  NeverAboveRate
  ThirdTimeServed
CHECK_DEADLOCK FALSE
