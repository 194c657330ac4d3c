\* The start-up as ADC.c means it: writing 0 to IER.rdrf masks the interrupt.
SPECIFICATION AdcSpec
CONSTANTS
  Readings <- MCReadings
  IerWriteZeroMasks = TRUE
INVARIANTS
  TypeOK
  StoreHoldsNewest
  SingleWord
  NoOverrun
PROPERTIES
  TwoFrameAlternation
  InitCompletes
  EveryChannelRefreshed
  StoreIsRegister
