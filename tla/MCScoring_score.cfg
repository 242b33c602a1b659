CONSTANTS
  a = a
  b = b
  WindowDays = 2
  NoticeWindow = 1
  NoticeDays = 1
  MediumDays = 1
  HighDays = 2
  SlaDays = 0
  FreshDays = 0
  Horizon = 3
  Fitter = {a, b}
  Values = {20, 50, 80}
  MinLabels = 3
  MaxLabels = 5
  MaxModels = 2
SPECIFICATION ScoringSpec
SYMMETRY Symmetry
INVARIANTS
  UnvettedChangesNothing
  InsightRestsOnTwo
  FitIsIsotonic
  ServedIsMonotone
  VersionsInOrder
  NeverWorseThanPrior
PROPERTIES
  
  ProblemsNeverCalm
CHECK_DEADLOCK FALSE
