\* A line as long as the buffer.
SPECIFICATION ParserSpec
CONSTANTS
  Bytes <- MCBytes
  NUL = "nul"
  EndBytes <- MCEndBytes
  Prefix <- MCPrefix
  BeagleResetCmd <- MCBeagleResetCmd
  PowerCmd <- MCPowerCmd
  LcdCmd <- MCLcdCmd
  WatchdogCmd <- MCWatchdogCmd
  ResetCmd <- MCResetCmd
  PowerOn <- MCPowerOn
  PowerOff <- MCPowerOff
  PowerMic <- MCPowerMic
  LcdClear <- MCLcdClear
  WatchdogEnable <- MCWatchdogEnable
  WatchdogDisable <- MCWatchdogDisable
  WatchdogPulse <- MCWatchdogPulse
  DigitOf <- MCDigitOf
  Strtoul <- MCStrtoul
  MaxLineLength = 5
INVARIANTS
  TerminatorInBuffer
