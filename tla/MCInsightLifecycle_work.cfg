CONSTANTS
  a = a
  b = b
  saveRenewal = saveRenewal
  Worker = {a, b}
  MaxInsight = 1
  MaxMoves = 3
  Playbook = {saveRenewal}
  Steps = 1
  Severity = {"high"}
  Outcome = {"churned"}
  MaxDay = 1
  MaxPosts = 2
  SlackUp = TRUE
  Crashes = FALSE
SPECIFICATION FairSpec
INVARIANTS
  TasksOnlyOnceAccepted
PROPERTIES
  HandlersEnd
CHECK_DEADLOCK FALSE
