SPECIFICATION Spec
CONSTANTS
  Handlers = {h1, h2}
  Repositories = {"r1", "r2"}
  Waivers = {"w1", "w2"}
  WaiverScope <- ScopeOfWaivers
  PolicyScope = {"r2"}
  Scanned = "r1"
  Principals = {"eve", "ada"}
  InitialRole <- RoleOfPrincipals
  RequireApproval = TRUE
  SignedConfig = {TRUE, FALSE}
  MaxOps = 3
  MaxFailures = 1
INVARIANTS FilesGoverned FilesCurrent AnsweredIsLogged
CONSTRAINT Bounds
SYMMETRY AnyHandler
CHECK_DEADLOCK FALSE
