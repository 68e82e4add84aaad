CONSTANTS
  Control = Control
  Analyzer = Analyzer
  Red = Red
  Black = Black
  NoClient = NoClient
  Client <- MCClient
  Color <- MCColor
  NumDevices = 2
  NumChannels <- MCNumChannels
  ResetOnError <- MCResetOnError
  DotStar <- MCDotStar
  MAX_RETRIES = 2
  Calls <- MCCalls
  ClearAlone = TRUE
SPECIFICATION Spec
INVARIANTS TypeOK NoDataRace SuccessIsShown
PROPERTIES AtomicStore EnteredCallReturns
