\* Progress of an open stream.
SPECIFICATION FairSpec
CONSTANTS
  Readings <- MCOneReading
  IerWriteZeroMasks = TRUE
  NbChannels = 2
  SamplesPerPacket = 2
PROPERTIES
  StreamKeepsFlowing
