CONSTANTS
  a = a
  b = b
  saveRenewal = saveRenewal
  Worker = {a}
  MaxInsight = 2
  MaxMoves = 6
  Playbook = {saveRenewal}
  Steps = 2
  Severity = {"high"}
  Outcome = {"churned"}
  MaxDay = 2
  MaxPosts = 2
  SlackUp = FALSE
  Crashes = FALSE
SPECIFICATION Spec
INVARIANTS
  HistoryIsChain
PROPERTIES
  MachineLeavesOwnedAlone
  KeepsLifecycle
CHECK_DEADLOCK FALSE
