\* A host that comes, goes, configures, selects settings and types as it likes.
SPECIFICATION SoundSpec
CONSTANTS
  NbInputs = 3
  Keys <- MCKeys
  TxRoom = 2
  MainMessage = 1
  IrqMessage = 1
INVARIANTS
  SoundTypeOK
  ProtectedAtRest
  GainsStay
PROPERTIES
  StaleTestOnlyWaits
  ConsoleAnswers
