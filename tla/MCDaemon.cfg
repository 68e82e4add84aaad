CONSTANTS
  a1 = a1
  a2 = a2
  Red = Red
  Black = Black
  Analyzer <- MCAnalyzer
  Color <- MCColor
  MaxSignals = 1
  Files <- MCFiles
  Installed <- MCInstalled
  MAX_RETRIES = 1
  Requests <- MCRequests
  Frames <- MCFrames
  Unreadable = Unreadable
SYMMETRY MCSymmetry
SPECIFICATION DaemonSpec
INVARIANTS DaemonTypeOK ManagerIsThreadSafe WritesAreShown
PROPERTIES CallsAreAtomic ControlOwnsTheLeds
