SPECIFICATION Spec
CONSTANTS
  Readings <- MCReadings
  IerWriteZeroMasks = TRUE
  NbChannels = 2
  SamplesPerPacket = 4
INVARIANTS
  AudioTypeOK
  ChannelsAligned
  OnlyRefusedPacketsDamage
PROPERTIES
  FrameIsOneInstant
  FeedsHost
