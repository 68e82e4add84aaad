CONSTANTS
  Unreadable = Unreadable
  Black = 0
  Color <- MCColor
  NumDevices = 2
  NumChannels <- MCNumChannels
  Sections <- MCSections
  Pictures <- MCPictures
  UserCalls <- MCUserCalls
SPECIFICATION Spec
INVARIANTS TypeOK WholeFramesAreSubmitted LeftoversAreOfOnePicture CropsAreOmitted ApartAreasAreTrue
PROPERTY StopsWhenTold
