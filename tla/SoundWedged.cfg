\* Does the USB handler return, even to a host that reads all along?
SPECIFICATION SoundSpec
CONSTANTS
  NbInputs = 3
  Keys <- MCKeys
  TxRoom = 2
  MainMessage = 1
  IrqMessage = 1
PROPERTIES
  TimerKeepsRunning
