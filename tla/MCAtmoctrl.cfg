CONSTANTS
  Black <- MCBlack
  Color <- MCColor
  NumChannels <- MCNumChannels
  MaxChannel = 16
SPECIFICATION Spec
INVARIANTS TypeOK LedsShowChannels ChecksumHolds AskedChannelsAreLit
