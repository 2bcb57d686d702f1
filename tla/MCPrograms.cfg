CONSTANTS
  NumThreads = 2
  Programs <- AllPrograms
  Options <- MCOptions
  Inputs <- MCInputs
  Subs = 2
  OpsPerTs = 2
  MaxOps = 2
  MaxTimestamps = 1
  Unbounded = 100
  Width = 2
  Root = 1
  MaxFailures = 1
  Infinity = 99
  Unused = Unused
SPECIFICATION SuiteSpec
INVARIANTS
  BarriersHold
  FillExact
  AnalysisFound
  SizeRight
  
  NoWorkForgotten
  DistancesRight
PROPERTIES
  MainReports
CHECK_DEADLOCK FALSE
