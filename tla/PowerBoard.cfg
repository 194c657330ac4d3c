\* The whole program, with a line that may err and a host that comes and goes.
SPECIFICATION BoardSpec
CONSTANTS
  Bytes <- MCBytes
  EndBytes <- MCEndBytes
  PrefixLength = 1
  FifoSize = 2
  UsbRoom = 2
  ReportLengths <- MCReportLengths
  LineErrors = TRUE
INVARIANTS
  BoardTypeOK
PROPERTIES
  LossMeansHeldUp
  ParsesInOrder
  LoopStopsOnlyWaiting
  ReportsGetThrough
  HostInputDrains
  ErrorStopsProgram
