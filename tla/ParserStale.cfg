\* A short command after a longer one.
SPECIFICATION ParserSpec
CONSTANTS
  Bytes <- MCBytes
  NUL = "nul"
  EndBytes <- MCEndBytes
  Prefix <- MCPrefix
  BeagleResetCmd <- MCBeagleResetCmd
  PowerCmd <- MCPowerCmd
  LcdCmd <- MCLcdCmd
  WatchdogCmd <- MCWatchdogCmd
  ResetCmd <- MCResetCmd
  PowerOn <- MCPowerOn
  PowerOff <- MCPowerOff
  PowerMic <- MCPowerMic
  LcdClear <- MCLcdClear
  WatchdogEnable <- MCWatchdogEnable
  WatchdogDisable <- MCWatchdogDisable
  WatchdogPulse <- MCWatchdogPulse
  DigitOf <- MCDigitOf
  Strtoul <- MCStrtoul
  MaxLineLength = 5
PROPERTIES
  LineActsAlone
