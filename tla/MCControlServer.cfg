CONSTANTS
  c1 = c1
  c2 = c2
  Client <- MCClient
  Color <- MCColor
  Black = 0
  NumDevices = 1
  NumChannels <- MCNumChannels
  SizeModulus = 1000
  AnalyzerConfigured = TRUE
  PaintedColor = 255
  Texts <- MCTexts
  MaxRequests <- MCMaxRequests
SPECIFICATION Spec
INVARIANTS TypeOK AnswersInOrder ReadsOwnWrites
PROPERTIES EveryRequestIsAnswered EveryClientIsAccepted AllOrNothing
