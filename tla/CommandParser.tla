--------------------------- MODULE CommandParser ----------------------------
(***************************************************************************)
(* ProcessByte and the command handlers of the power board.  The bytes the *)
(* Beagle board prints on its serial console are scanned for the magic     *)
(* prefix; what follows it, up to an end of line, is collected in          *)
(* CommandBuffer, and interpreted as a command.                            *)
(*                                                                         *)
(* The prefix and the command words are parameters: nothing depends on     *)
(* which bytes they are made of, only on how they overlap and how long     *)
(* they are.  So is the library's strtoul.                                 *)
(***************************************************************************)
EXTENDS Integers, Sequences

CONSTANTS
  Bytes,              \* what can be received
  NUL,                \* '\0'
  EndBytes,           \* '\n' and '\r'
  Prefix,             \* COMMAND_PREFIX
  BeagleResetCmd, PowerCmd, LcdCmd, WatchdogCmd, ResetCmd,
  PowerOn, PowerOff, PowerMic, LcdClear,
  WatchdogEnable, WatchdogDisable, WatchdogPulse,
  DigitOf,            \* the values of the bytes '1' .. '9'
  Strtoul(_),         \* of a string: the number it begins with, and the rest
  MaxLineLength       \* MAX_LINE_LENGTH

Words ==
  {Prefix, BeagleResetCmd, PowerCmd, LcdCmd, WatchdogCmd, ResetCmd, PowerOn,
   PowerOff, PowerMic, LcdClear, WatchdogEnable, WatchdogDisable, WatchdogPulse}

Bytes_of(word) == {word[i] : i \in 1 .. Len(word)}

ASSUME WordsAssumption ==
  /\ EndBytes \subseteq Bytes
  /\ \A word \in Words :
       /\ word \in Seq(Bytes) /\ word # <<>>
       /\ Bytes_of(word) \cap (EndBytes \cup {NUL}) = {}
  /\ DigitOf \in [DOMAIN DigitOf -> 1 .. 9]
  /\ DOMAIN DigitOf \subseteq Bytes \ (EndBytes \cup {NUL})

(* No handler looks beyond the buffer: 1024 is ample for the real words.   *)
ASSUME LineLengthAssumption ==
  /\ MaxLineLength \in Nat
  /\ \A word \in Words : Len(word) <= MaxLineLength
  /\ \A arg \in {PowerOn, PowerOff}, device \in {PowerMic, LcdCmd} :
       Len(PowerCmd) + 1 + Len(arg) + 1 + Len(device) <= MaxLineLength
  /\ \A arg \in {WatchdogEnable, WatchdogDisable, WatchdogPulse} :
       Len(WatchdogCmd) + 1 + Len(arg) <= MaxLineLength
  /\ Len(LcdCmd) + 1 + Len(LcdClear) <= MaxLineLength
  /\ Len(BeagleResetCmd) + 1 <= MaxLineLength

(* The byte that follows CommandBuffer in memory belongs to something else.*)
Foreign == "foreign"
CellIndices == 0 .. MaxLineLength
Cells == Bytes \cup {NUL, Foreign}

(* A string is the cells it occupies, its terminator included; one without *)
(* a terminator in the buffer runs on into Foreign.                        *)
Texts == UNION {[cells -> Cells] : cells \in SUBSET CellIndices}

ASSUME StrtoulAssumption ==
  \A text \in Texts : Strtoul(text).value \in Nat /\ Strtoul(text).rest \in Texts

BEAGLE_RESET_DURATION_IN_S == 10

-----------------------------------------------------------------------------
VARIABLES
  CommandBuffer,        \* with the byte that follows it, at MaxLineLength
  CommandBufferIndex,
  CommandPrefixIndex,
  InCommand,
  report,               \* the command the last byte completed, as understood
  hung,                 \* in the while(1) of ProcessResetCommand
  recent,               \* history: the last bytes received
  line                  \* history: the line being received, whatever its length

parserVars ==
  <<CommandBuffer, CommandBufferIndex, CommandPrefixIndex, InCommand,
    report, hung, recent, line>>

(* What the handlers print and act on: which command, and the text or the  *)
(* numbers they found behind its words.                                    *)
NoReport == [cmd |-> "none"]
Reports ==
       [cmd : {"none", "reset"}]
  \cup [cmd : {"unknown"}, text : Texts]
  \cup [cmd : {"beagle"}, text : Texts, wait_seconds : Nat, power_down_seconds : Nat]
  \cup [cmd : {"power"}, arg : {"on", "off"}, device : {"pin", "mic", "lcd"}, pin : -1 .. 7]
  \cup [cmd : {"lcd", "watchdog"}, arg : {"clear", "enable", "disable", "pulse"}]
  \cup [cmd : {"power", "lcd", "watchdog"},
        arg : {"on", "off", "text", "unrecognised"}, text : Texts]

(* The histories are bounded: recent holds just enough bytes for a newline *)
(* and the prefix, and knows bytes of neither kind only as Other; a line   *)
(* is remembered up to one byte more than the buffer holds.                *)
Other == "other"
ASSUME HistoryAssumption == Other \notin Bytes
RecentLength == Len(Prefix) + 1
Seen(b) == IF b \in EndBytes \cup Bytes_of(Prefix) THEN b ELSE Other
Recents == EndBytes \cup Bytes_of(Prefix) \cup {Other}

ParserTypeOK ==
  /\ CommandBuffer \in [CellIndices -> Cells]
  /\ CommandBufferIndex \in CellIndices
  /\ CommandPrefixIndex \in 0 .. Len(Prefix) - 1
  /\ InCommand \in BOOLEAN
  /\ report \in Reports
  /\ hung \in BOOLEAN
  /\ recent \in [1 .. RecentLength -> Recents]
  /\ Len(line) <= MaxLineLength + 1
  /\ Bytes_of(line) \subseteq Bytes

FreshBuffer == [i \in CellIndices |-> IF i < MaxLineLength THEN NUL ELSE Foreign]
NothingRecent == [i \in 1 .. RecentLength |-> Other]

ParserInit ==
  /\ CommandBuffer = FreshBuffer
  /\ CommandBufferIndex = 0
  /\ CommandPrefixIndex = 0
  /\ InCommand = FALSE
  /\ report = NoReport
  /\ hung = FALSE
  /\ recent = NothingRecent
  /\ line = <<>>

-----------------------------------------------------------------------------
(* The handlers, as functions of the buffer.  cmd is a position in it: the *)
(* handlers get CommandBuffer + strlen(word) + 1, one byte past the word's *)
(* separator, whatever that byte and the separator are.                    *)

(* strncmp(buffer + at, word, strlen(word)) == 0                           *)
Matches(buffer, at, word) == \A i \in 1 .. Len(word) : buffer[at + i - 1] = word[i]
After(at, word) == at + Len(word) + 1

(* What printf("%s", buffer + at) prints, and strtoul reads.               *)
StringAt(buffer, at) ==
  [i \in {j \in at .. MaxLineLength : \A k \in at .. j - 1 : buffer[k] # NUL} |-> buffer[i]]

ProcessBeaglePowerDownCommand(buffer, cmd) ==
  LET wait == Strtoul(StringAt(buffer, cmd))
      down == Strtoul(wait.rest)
  IN [cmd |-> "beagle", text |-> StringAt(buffer, cmd), wait_seconds |-> wait.value,
      power_down_seconds |->
        IF down.value = 0 THEN BEAGLE_RESET_DURATION_IN_S ELSE down.value]

PowerDevice(buffer, at, arg) ==
  LET Turned(device, pin) == [cmd |-> "power", arg |-> arg, device |-> device, pin |-> pin] IN
  IF buffer[at] \in DOMAIN DigitOf THEN Turned("pin", 7 - (DigitOf[buffer[at]] - 1))
  ELSE IF Matches(buffer, at, PowerMic) THEN Turned("mic", 0)
  ELSE IF Matches(buffer, at, LcdCmd) THEN Turned("lcd", 0)
  ELSE [cmd |-> "power", arg |-> arg, text |-> StringAt(buffer, at)]

Unrecognised(name, buffer, cmd) ==
  [cmd |-> name, arg |-> "unrecognised", text |-> StringAt(buffer, cmd)]

ProcessPowerCommand(buffer, cmd) ==
  IF Matches(buffer, cmd, PowerOn) THEN PowerDevice(buffer, After(cmd, PowerOn), "on")
  ELSE IF Matches(buffer, cmd, PowerOff) THEN PowerDevice(buffer, After(cmd, PowerOff), "off")
  ELSE Unrecognised("power", buffer, cmd)

ProcessLCDCommand(buffer, cmd) ==
  IF Matches(buffer, cmd, LcdClear) THEN [cmd |-> "lcd", arg |-> "clear"]
  ELSE [cmd |-> "lcd", arg |-> "text", text |-> StringAt(buffer, cmd)]

ProcessWatchdogCommand(buffer, cmd) ==
  LET Obeyed(arg) == [cmd |-> "watchdog", arg |-> arg] IN
  IF Matches(buffer, cmd, WatchdogEnable) THEN Obeyed("enable")
  ELSE IF Matches(buffer, cmd, WatchdogDisable) THEN Obeyed("disable")
  ELSE IF Matches(buffer, cmd, WatchdogPulse) THEN Obeyed("pulse")
  ELSE Unrecognised("watchdog", buffer, cmd)

Interpret(buffer) ==
  IF Matches(buffer, 0, BeagleResetCmd)
    THEN ProcessBeaglePowerDownCommand(buffer, After(0, BeagleResetCmd))
  ELSE IF Matches(buffer, 0, PowerCmd) THEN ProcessPowerCommand(buffer, After(0, PowerCmd))
  ELSE IF Matches(buffer, 0, LcdCmd) THEN ProcessLCDCommand(buffer, After(0, LcdCmd))
  ELSE IF Matches(buffer, 0, WatchdogCmd) THEN ProcessWatchdogCommand(buffer, After(0, WatchdogCmd))
  ELSE IF Matches(buffer, 0, ResetCmd) THEN [cmd |-> "reset"]
  ELSE [cmd |-> "unknown", text |-> StringAt(buffer, 0)]

-----------------------------------------------------------------------------
(* ProcessByte.                                                            *)

(* Faulty variants of the actions below, named after the slip.             *)
EndOfLine_NoTerminator(b) ==
  /\ InCommand
  /\ b \in EndBytes
  /\ UNCHANGED <<CommandBuffer, CommandPrefixIndex>>
  /\ report' = Interpret(CommandBuffer)
  /\ hung' = (report'.cmd = "reset")
  /\ CommandBufferIndex' = 0
  /\ InCommand' = FALSE
  /\ line' = <<>>

EndOfLine_IndexKept(b) ==
  /\ InCommand
  /\ b \in EndBytes
  /\ CommandBuffer' = [CommandBuffer EXCEPT ![CommandBufferIndex] = NUL]
  /\ report' = Interpret(CommandBuffer')
  /\ hung' = (report'.cmd = "reset")
  /\ InCommand' = FALSE
  /\ line' = <<>>
  /\ UNCHANGED <<CommandBufferIndex, CommandPrefixIndex>>

Collect_NoLimit(b) ==
  /\ InCommand
  /\ b \notin EndBytes
  /\ CommandBuffer' = [CommandBuffer EXCEPT ![CommandBufferIndex] = b]
  /\ CommandBufferIndex' = CommandBufferIndex + 1
  /\ line' = IF Len(line) <= MaxLineLength THEN Append(line, b) ELSE line
  /\ report' = NoReport
  /\ UNCHANGED <<CommandPrefixIndex, InCommand, hung>>

MatchPrefix_NotRestarted(b) ==
  /\ ~InCommand
  /\ IF b = Prefix[CommandPrefixIndex + 1]
       THEN IF CommandPrefixIndex + 1 >= Len(Prefix)
              THEN CommandPrefixIndex' = 0 /\ InCommand' = TRUE
              ELSE CommandPrefixIndex' = CommandPrefixIndex + 1 /\ UNCHANGED InCommand
       ELSE UNCHANGED <<CommandPrefixIndex, InCommand>>
  /\ report' = NoReport
  /\ UNCHANGED <<CommandBuffer, CommandBufferIndex, hung, line>>

MatchPrefix_BackOne(b) ==
  /\ ~InCommand
  /\ IF b = Prefix[CommandPrefixIndex + 1]
       THEN IF CommandPrefixIndex + 1 >= Len(Prefix)
              THEN CommandPrefixIndex' = Len(Prefix) - 1 /\ InCommand' = TRUE
              ELSE CommandPrefixIndex' = CommandPrefixIndex + 1 /\ UNCHANGED InCommand
       ELSE CommandPrefixIndex' = 0 /\ UNCHANGED InCommand
  /\ report' = NoReport
  /\ UNCHANGED <<CommandBuffer, CommandBufferIndex, hung, line>>

EndOfLine_StillInCommand(b) ==
  /\ InCommand
  /\ b \in EndBytes
  /\ CommandBuffer' = [CommandBuffer EXCEPT ![CommandBufferIndex] = NUL]
  /\ report' = Interpret(CommandBuffer')
  /\ hung' = (report'.cmd = "reset")
  /\ CommandBufferIndex' = 0
  /\ line' = <<>>
  /\ UNCHANGED <<InCommand, CommandPrefixIndex>>

(* The end of a command line: terminate it, interpret it, start afresh.    *)
EndOfLine(b) ==
  /\ InCommand
  /\ b \in EndBytes
  /\ CommandBuffer' = [CommandBuffer EXCEPT ![CommandBufferIndex] = NUL]
  /\ report' = Interpret(CommandBuffer')
  /\ hung' = (report'.cmd = "reset")
  /\ CommandBufferIndex' = 0
  /\ InCommand' = FALSE
  /\ line' = <<>>
  /\ UNCHANGED CommandPrefixIndex

Collect(b) ==
  /\ InCommand
  /\ b \notin EndBytes
  /\ IF CommandBufferIndex < MaxLineLength
       THEN /\ CommandBuffer' = [CommandBuffer EXCEPT ![CommandBufferIndex] = b]
            /\ CommandBufferIndex' = CommandBufferIndex + 1
       ELSE UNCHANGED <<CommandBuffer, CommandBufferIndex>>
  /\ line' = IF Len(line) <= MaxLineLength THEN Append(line, b) ELSE line
  /\ report' = NoReport
  /\ UNCHANGED <<CommandPrefixIndex, InCommand, hung>>

MatchPrefix(b) ==
  /\ ~InCommand
  /\ IF b = Prefix[CommandPrefixIndex + 1]
       THEN IF CommandPrefixIndex + 1 >= Len(Prefix)
              THEN CommandPrefixIndex' = 0 /\ InCommand' = TRUE
              ELSE CommandPrefixIndex' = CommandPrefixIndex + 1 /\ UNCHANGED InCommand
       ELSE CommandPrefixIndex' = 0 /\ UNCHANGED InCommand
  /\ report' = NoReport
  /\ UNCHANGED <<CommandBuffer, CommandBufferIndex, hung, line>>

ProcessByte(b) ==
  /\ ~hung
  /\ EndOfLine(b) \/ Collect(b) \/ MatchPrefix(b)
  /\ recent' = Append(Tail(recent), Seen(b))

(* ProcessResetCommand arms the watchdog timer and spins until it fires;   *)
(* the program then starts again with its memory as initialised.           *)
WatchdogFires ==
  /\ hung
  /\ CommandBuffer' = FreshBuffer
  /\ CommandBufferIndex' = 0
  /\ CommandPrefixIndex' = 0
  /\ InCommand' = FALSE
  /\ report' = NoReport
  /\ hung' = FALSE
  /\ recent' = NothingRecent
  /\ line' = <<>>

ParserNext == WatchdogFires \/ \E b \in Bytes : ProcessByte(b)

ParserSpec == ParserInit /\ [][ParserNext]_parserVars

-----------------------------------------------------------------------------
(* Properties.                                                             *)

EndsWith(s, t) ==
  /\ Len(t) <= Len(s)
  /\ \A i \in 1 .. Len(t) : s[Len(s) - Len(t) + i] = t[i]

(* The matcher only counts bytes that were really received in a row: a     *)
(* command line starts right after the whole prefix, and nowhere else.     *)
PrefixSound ==
  /\ ~InCommand => EndsWith(recent, SubSeq(Prefix, 1, CommandPrefixIndex))
  /\ (InCommand /\ line = <<>>) => EndsWith(recent, Prefix)

(* Whatever came before, an end of line puts the matcher back in step: the *)
(* prefix received right after it starts a command.                        *)
NewlineResyncs ==
  \A b \in EndBytes : recent = <<b>> \o Prefix => InCommand

(* The buffer holds the line received so far, cut off at the buffer's end, *)
(* whatever older commands left in it.                                     *)
LineIntact ==
  InCommand =>
    /\ CommandBufferIndex = (IF Len(line) > MaxLineLength THEN MaxLineLength ELSE Len(line))
    /\ \A i \in 0 .. CommandBufferIndex - 1 : CommandBuffer[i] = line[i + 1]

(* What a line means, taken by itself.                                     *)
LineAlone ==
  [i \in CellIndices |-> IF i < MaxLineLength /\ i < Len(line) THEN line[i + 1] ELSE NUL]

(* The words a handler steps over are followed by a separator: the line    *)
(* does not end right behind the command word, nor behind on or off.       *)
Separated ==
  /\ \A word \in {BeagleResetCmd, PowerCmd, LcdCmd, WatchdogCmd} :
       Matches(LineAlone, 0, word) => Len(line) > Len(word)
  /\ \A arg \in {PowerOn, PowerOff} :
       Matches(LineAlone, 0, PowerCmd) /\ Matches(LineAlone, After(0, PowerCmd), arg)
         => Len(line) > Len(PowerCmd) + 1 + Len(arg)

(* A well separated command does what its own line says: neither what it   *)
(* is understood as nor any text or number that is printed or passed on    *)
(* depends on what an earlier, longer line left in the buffer.             *)
SeparatedLineActsAlone ==
  [][\A b \in EndBytes : (EndOfLine(b) /\ Separated) => report' = Interpret(LineAlone)]_parserVars

(* "the last AVR command received" (comms.c:66): every command does what   *)
(* its own line says.                                                      *)
LineActsAlone ==
  [][\A b \in EndBytes : EndOfLine(b) => report' = Interpret(LineAlone)]_parserVars

(* "strings that start with the #defined magic string" (comms.c:97): once  *)
(* the prefix has been received, a command line is open.                   *)
NoPrefixMissed == EndsWith(recent, Prefix) => InCommand

(* "null-terminate the string in the buffer" (comms.c:112): the terminator *)
(* is never written behind the buffer.                                     *)
TerminatorInBuffer == CommandBuffer[MaxLineLength] = Foreign

(* Seen through InCommand, the match index and what the last byte led to,  *)
(* every step of the parser is one LineParser allows: the main loop may    *)
(* rely on that module instead of this one.                                *)
Outcome ==
  IF hung THEN "reset" ELSE IF report.cmd = "none" THEN "none" ELSE "command"

Lines == INSTANCE LineParser
           WITH PrefixLength <- Len(Prefix), inCommand <- InCommand,
                matched <- CommandPrefixIndex, outcome <- Outcome

ParsesLines == Lines!LineSpec
=============================================================================
