SPECIFICATION Spec
CONSTANTS
  s1 = s1  s2 = s2  s3 = s3  x1 = x1  x2 = x2  src = src  org = org  own = own  web = web
  Plugins <- ThePlugins
  Findings <- TheFindings
  Messages <- TheMessages
  Directories <- TheDirectories
  WaiverFiles <- TheWaiverFiles
  Demands = {"approval", "duration"}
  Blank = Blank
  Config <- TheConfig
  Consumers <- TheConsumers
  CraReporting = TRUE
  Managed = {}
  Context <- TheContext
  Settings <- TheSettings
  Horizon = 2
INVARIANTS
  GateDeclared
  FloorEnforced
PROPERTIES
  LocksHold
  FirstAnswerStands
  Ends
