\* A packet copied over the one being sent.
SPECIFICATION Spec
CONSTANTS
  Readings <- MCReadings
  IerWriteZeroMasks = TRUE
  NbChannels = 2
  SamplesPerPacket = 4
INVARIANTS
  OnePacketPerFrame
