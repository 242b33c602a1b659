CONSTANTS
  a = a
  b = b
  r = r
  s = s
  Worker = {a, b}
  MaxOwner = 1
  MaxItem = 2
  MaxConnects = 2
  Crashes = TRUE
  Syncer = {a, b}
  Reviewer = {r, s}
  Company <- Companies
  SourceOf <- Sources
  NameOf <- Names
  DomainOf <- Domains
  NoDomain = "none"
  Likeness <- Alikeness
  MaxCreated = 1
  Dies = TRUE
SPECIFICATION BothSpec
SYMMETRY Symmetry
INVARIANTS
  BothTypeOK
  NothingSkipped
  CredentialsFollowStatus
  
  DomainsListedOnce
  DecisionsAgree
CHECK_DEADLOCK FALSE
