CONSTANTS
  a1 = a1
  a2 = a2
  Analyzer <- MCAnalyzer
  MaxSignals = 1
  Files <- MCFiles
  Unreadable = Unreadable
SPECIFICATION Spec
INVARIANT NoSelfDeadlock
