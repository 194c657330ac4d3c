\* The start-up on a part where IER only sets: the handler runs during it.
SPECIFICATION AdcSpec
CONSTANTS
  Readings <- MCFewReadings
  IerWriteZeroMasks = FALSE
PROPERTIES
  EveryChannelRefreshed
