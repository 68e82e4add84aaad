CONSTANTS
  Control = Control
  Red = Red
  Black = Black
  NoClient = NoClient
  Client <- MCClient
  Color <- MCColor
  NumDevices = 2
  NumChannels <- MCNumChannels
  ResetOnError <- MCResetOnError
  DotStar <- MCDotStar
  MAX_RETRIES = 1
  Calls <- MCCalls
  ClearAlone = TRUE
  Descriptor <- MCDescriptor
SPECIFICATION TransportSpec
INVARIANTS TransportTypeOK OwnsItsDescriptor
PROPERTIES DeviceManager RecoversWhenHealthy
