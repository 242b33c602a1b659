CONSTANTS
  a = a
  b = b
  saveRenewal = saveRenewal
  Worker = {a, b}
  MaxInsight = 2
  MaxMoves = 2
  Playbook = {}
  Steps = 1
  Severity = {"high"}
  Outcome = {"churned"}
  MaxDay = 1
  MaxPosts = 2
  SlackUp = TRUE
  Crashes = TRUE
SPECIFICATION Spec
SYMMETRY Symmetry
INVARIANTS
  AtMostOneOpen
  

  
CHECK_DEADLOCK FALSE
