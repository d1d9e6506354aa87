\* Executions one after the other with changing configurations and any fault.
SPECIFICATION ReportSpec
CONSTANTS
  Configs <- TheConfigs
  Reports <- TheReports
  MaxRuns = 2
INVARIANTS ConsumersApart
CHECK_DEADLOCK FALSE
