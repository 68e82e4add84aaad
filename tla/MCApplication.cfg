CONSTANTS
  a1 = a1
  a2 = a2
  Analyzer <- MCAnalyzer
  MaxSignals = 2
  Files <- MCFiles
  Unreadable = Unreadable
SPECIFICATION Spec
INVARIANTS TypeOK ModeIsTrue ClearRunsAlone AnalyzersAreOwned HandlersHaveApplication OneSignalIsSafe
PROPERTIES InterruptLeavesRun ShutdownCompletes SetModeReturns
