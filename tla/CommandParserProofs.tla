------------------------- MODULE CommandParserProofs -------------------------
(***************************************************************************)
(* Proofs about CommandParser, for any prefix, any words and any buffer    *)
(* size: it implements LineParser, on which the main loop relies; the      *)
(* buffer holds the line; and the matcher counts what was received.        *)
(***************************************************************************)
EXTENDS CommandParser, SequenceTheorems, TLAPS

(* What the next-state relation needs to know of the state.                *)
MatcherInv ==
  /\ CommandPrefixIndex \in 0 .. Len(Prefix) - 1
  /\ InCommand \in BOOLEAN
  /\ hung \in BOOLEAN

(* The prefix is not empty, and holds no end of line.                      *)
LEMMA PrefixFacts ==
  /\ Prefix \in Seq(Bytes)
  /\ Len(Prefix) \in Nat /\ Len(Prefix) >= 1
  /\ \A i \in 1 .. Len(Prefix) : Prefix[i] \in Bytes /\ Prefix[i] \notin EndBytes
<1>1. /\ Prefix \in Seq(Bytes) /\ Prefix # <<>>
      /\ Bytes_of(Prefix) \cap (EndBytes \cup {NUL}) = {}
  BY WordsAssumption, Zenon DEF Words
<1>2. Len(Prefix) \in Nat /\ Len(Prefix) >= 1
  BY <1>1
<1>3. \A i \in 1 .. Len(Prefix) : Prefix[i] \in Bytes_of(Prefix)
  BY Zenon DEF Bytes_of
<1>4. \A i \in 1 .. Len(Prefix) : Prefix[i] \in Bytes
  BY <1>1
<1> QED
  BY <1>1, <1>2, <1>3, <1>4, Zenon

(* Every line is some command, be it an unknown one.                       *)
LEMMA SomeCommand ==
  ASSUME NEW buffer PROVE Interpret(buffer).cmd # "none"
<1>1. \A at, arg : PowerDevice(buffer, at, arg).cmd = "power"
  BY DEF PowerDevice
<1>2. \A at : ProcessPowerCommand(buffer, at).cmd = "power"
  BY <1>1 DEF ProcessPowerCommand, Unrecognised
<1>3. \A at : ProcessLCDCommand(buffer, at).cmd = "lcd"
  BY DEF ProcessLCDCommand
<1>4. \A at : ProcessWatchdogCommand(buffer, at).cmd = "watchdog"
  BY DEF ProcessWatchdogCommand, Unrecognised
<1>5. \A at : ProcessBeaglePowerDownCommand(buffer, at).cmd = "beagle"
  BY DEF ProcessBeaglePowerDownCommand
<1> HIDE DEF Matches
<1> QED
  BY <1>2, <1>3, <1>4, <1>5 DEF Interpret

LEMMA NothingReported == NoReport.cmd = "none"
  BY DEF NoReport

-----------------------------------------------------------------------------
LEMMA ZeroMatched == 0 \in 0 .. Len(Prefix) - 1
  BY PrefixFacts, SMT

LEMMA InitMatcher == ParserInit => MatcherInv
  BY ZeroMatched, Zenon DEF ParserInit, MatcherInv

LEMMA NextMatcher == MatcherInv /\ [ParserNext]_parserVars => MatcherInv'
<1> SUFFICES ASSUME MatcherInv, [ParserNext]_parserVars PROVE MatcherInv'
  OBVIOUS
<1>1. CASE WatchdogFires
  BY <1>1, ZeroMatched, Zenon DEF WatchdogFires, MatcherInv
<1>2. ASSUME NEW b \in Bytes, ProcessByte(b) PROVE MatcherInv'
  <2>1. CASE EndOfLine(b)
    <3>1. hung' \in BOOLEAN /\ InCommand' = FALSE /\ UNCHANGED CommandPrefixIndex
      BY <2>1, Zenon DEF EndOfLine
    <3> QED
      BY <3>1, Zenon DEF MatcherInv
  <2>2. CASE Collect(b)
    BY <2>2, Zenon DEF Collect, MatcherInv
  <2>3. CASE MatchPrefix(b)
    <3>1. CommandPrefixIndex' \in 0 .. Len(Prefix) - 1
      BY <2>3, PrefixFacts, SMT DEF MatchPrefix, MatcherInv
    <3>2. InCommand' \in BOOLEAN /\ hung' = hung
      BY <2>3, Zenon DEF MatchPrefix, MatcherInv
    <3> QED
      BY <3>1, <3>2, Zenon DEF MatcherInv
  <2> QED
    BY <1>2, <2>1, <2>2, <2>3, Zenon DEF ProcessByte
<1>3. CASE UNCHANGED parserVars
  BY <1>3, Zenon DEF parserVars, MatcherInv
<1> QED
  BY <1>1, <1>2, <1>3, Zenon DEF ParserNext

LEMMA InvariantMatcher == ParserSpec => []MatcherInv
<1> QED
  BY InitMatcher, NextMatcher, PTL DEF ParserSpec

-----------------------------------------------------------------------------
(* Every step is one of LineParser's, or none.                             *)

LEMMA InitLine == ParserInit => Lines!LineInit
  BY NothingReported, Zenon DEF ParserInit, Lines!LineInit, Outcome

LEMMA ByteIsLineStep ==
  ASSUME MatcherInv, NEW b \in Bytes, ProcessByte(b)
  PROVE  Lines!ProcessByte(b)
<1>1. ~hung /\ Outcome # "reset"
  BY Zenon DEF ProcessByte, Outcome
<1>2. CASE EndOfLine(b)
  <2>1. InCommand /\ b \in EndBytes /\ InCommand' = FALSE /\ UNCHANGED CommandPrefixIndex
    BY <1>2, Zenon DEF EndOfLine
  <2>2. report'.cmd # "none"
    BY <1>2, SomeCommand, Zenon DEF EndOfLine
  <2>3. Outcome' \in {"command", "reset"}
    BY <2>2, Zenon DEF Outcome
  <2>4. Lines!Complete(b)
    BY <2>1, <2>3, Zenon DEF Lines!Complete
  <2> QED
    BY <1>1, <2>4, Zenon DEF Lines!ProcessByte
<1>3. CASE Collect(b)
  <2>1. Outcome' = "none"
    BY <1>1, <1>3, NothingReported, Zenon DEF Collect, Outcome
  <2>2. Lines!Swallow(b)
    BY <1>3, <2>1, Zenon DEF Collect, Lines!Swallow
  <2> QED
    BY <1>1, <2>2, Zenon DEF Lines!ProcessByte
<1>4. CASE MatchPrefix(b)
  <2>1. Outcome' = "none" /\ ~InCommand
    BY <1>1, <1>4, NothingReported, Zenon DEF MatchPrefix, Outcome
  <2>2. CASE b # Prefix[CommandPrefixIndex + 1]
    <3>1. Lines!Mismatch
      BY <1>4, <2>1, <2>2, Zenon DEF MatchPrefix, Lines!Mismatch
    <3> QED
      BY <1>1, <3>1, Zenon DEF Lines!ProcessByte
  <2>3. CASE b = Prefix[CommandPrefixIndex + 1]
    <3>1. CommandPrefixIndex + 1 \in 1 .. Len(Prefix)
      BY PrefixFacts, SMT DEF MatcherInv
    <3>2. b \notin EndBytes
      BY <2>3, <3>1, PrefixFacts, Zenon
    <3>3. CommandPrefixIndex + 1 >= Len(Prefix) <=> CommandPrefixIndex + 1 = Len(Prefix)
      BY <3>1, PrefixFacts, SMT
    <3>4. IF CommandPrefixIndex + 1 = Len(Prefix)
            THEN CommandPrefixIndex' = 0 /\ InCommand' = TRUE
            ELSE CommandPrefixIndex' = CommandPrefixIndex + 1 /\ UNCHANGED InCommand
      BY <1>4, <2>3, <3>3, Zenon DEF MatchPrefix
    <3>5. Lines!Match(b)
      BY <2>1, <3>2, <3>4, Zenon DEF Lines!Match
    <3> QED
      BY <1>1, <3>5, Zenon DEF Lines!ProcessByte
  <2> QED
    BY <2>2, <2>3
<1> QED
  BY <1>2, <1>3, <1>4, Zenon DEF ProcessByte

LEMMA StepIsLineStep ==
  MatcherInv /\ [ParserNext]_parserVars => [Lines!LineNext]_Lines!lineVars
<1> SUFFICES ASSUME MatcherInv, [ParserNext]_parserVars
             PROVE  [Lines!LineNext]_Lines!lineVars
  OBVIOUS
<1>1. CASE WatchdogFires
  <2>1. Outcome = "reset" /\ Outcome' = "none"
    BY <1>1, NothingReported, Zenon DEF WatchdogFires, Outcome
  <2>2. Lines!Restart
    BY <1>1, <2>1, Zenon DEF WatchdogFires, Lines!Restart
  <2> QED
    BY <2>2, Zenon DEF Lines!LineNext
<1>2. ASSUME NEW b \in Bytes, ProcessByte(b) PROVE Lines!LineNext
  BY <1>2, ByteIsLineStep, Zenon DEF Lines!LineNext
<1>3. CASE UNCHANGED parserVars
  <2>1. UNCHANGED <<InCommand, CommandPrefixIndex, report, hung>>
    BY <1>3, Zenon DEF parserVars
  <2>2. UNCHANGED Outcome
    BY <2>1, Zenon DEF Outcome
  <2> QED
    BY <2>1, <2>2, Zenon DEF Lines!lineVars
<1> QED
  BY <1>1, <1>2, <1>3, Zenon DEF ParserNext

(* ProcessByte, with its buffer and its words, does nothing LineParser does*)
(* not allow (comms.c:101-157): what PowerBoard assumes of it is true.     *)
THEOREM ImplementsLines == ParserSpec => ParsesLines
<1> QED
  BY InitLine, StepIsLineStep, InvariantMatcher, PTL
     DEF ParserSpec, ParsesLines, Lines!LineSpec

-----------------------------------------------------------------------------
(* The buffer and the line.                                                *)

BufferInv ==
  /\ line \in Seq(Bytes) /\ Len(line) <= MaxLineLength + 1
  /\ CommandBuffer \in [CellIndices -> Cells]
  /\ CommandBufferIndex \in CellIndices
  /\ ~InCommand => CommandBufferIndex = 0 /\ line = <<>>
  /\ LineIntact

LEMMA LengthFacts == MaxLineLength \in Nat /\ 0 \in CellIndices
  BY LineLengthAssumption, SMT DEF CellIndices

LEMMA FreshBufferType == FreshBuffer \in [CellIndices -> Cells]
  BY LengthFacts, SMT DEF FreshBuffer, CellIndices, Cells

LEMMA NewLine ==
  ASSUME CommandBuffer' \in [CellIndices -> Cells], CommandBufferIndex' = 0, line' = <<>>
  PROVE  BufferInv'
<1>1. line' \in Seq(Bytes) /\ Len(line') = 0
  BY EmptySeq
<1>2. LineIntact'
  BY <1>1, LengthFacts, SMT DEF LineIntact
<1> QED
  BY <1>1, <1>2, LengthFacts, SMT DEF BufferInv

LEMMA CollectKeepsBuffer ==
  ASSUME BufferInv, NEW b \in Bytes, Collect(b)
  PROVE  BufferInv'
<1> DEFINE n == Len(line)
           index == CommandBufferIndex
<1>1. /\ line \in Seq(Bytes) /\ n \in Nat /\ n <= MaxLineLength + 1
      /\ index = (IF n > MaxLineLength THEN MaxLineLength ELSE n)
      /\ \A i \in 0 .. index - 1 : CommandBuffer[i] = line[i + 1]
      /\ InCommand
  BY LenProperties, Zenon DEF BufferInv, LineIntact, Collect
<1>2. /\ Append(line, b) \in Seq(Bytes) /\ Len(Append(line, b)) = n + 1
      /\ Append(line, b)[n + 1] = b
      /\ \A i \in 1 .. n : Append(line, b)[i] = line[i]
  <2> HIDE DEF index
  <2>1. /\ Append(line, b) \in Seq(Bytes) /\ Len(Append(line, b)) = Len(line) + 1
        /\ Append(line, b)[Len(line) + 1] = b
        /\ \A i \in 1 .. Len(line) : Append(line, b)[i] = line[i]
    BY <1>1, AppendProperties
  <2> QED
    BY <2>1
<1>3. line' = IF n <= MaxLineLength THEN Append(line, b) ELSE line
  BY Zenon DEF Collect
<1>4. line' \in Seq(Bytes)
  BY <1>1, <1>2, <1>3, Zenon
<1>5. Len(line') = IF n <= MaxLineLength THEN n + 1 ELSE n
  BY <1>2, <1>3, Zenon
<1>6. \A i \in 1 .. n : line'[i] = line[i]
  BY <1>2, <1>3, Zenon
<1>7. InCommand' = InCommand
  BY Zenon DEF Collect
<1>8. CASE index < MaxLineLength
  <2>1. /\ CommandBuffer' = [CommandBuffer EXCEPT ![index] = b]
        /\ CommandBufferIndex' = index + 1
    BY <1>8, Zenon DEF Collect
  <2>2. index = n /\ n < MaxLineLength /\ index \in CellIndices
    BY <1>1, <1>8, LengthFacts, SMT DEF CellIndices
  <2>3. b \in Cells
    BY Zenon DEF Cells
  <2>4. CommandBuffer' \in [CellIndices -> Cells]
    BY <2>1, <2>2, <2>3, Zenon DEF BufferInv
  <2>5. CommandBuffer'[index] = b /\ \A i \in CellIndices \ {index} : CommandBuffer'[i] = CommandBuffer[i]
    BY <2>1, <2>2, Zenon DEF BufferInv
  <2>6. line'[n + 1] = b
    BY <1>2, <1>3, <2>2, LengthFacts, SMT
  <2>7. CommandBufferIndex' \in CellIndices /\ Len(line') = n + 1
    BY <1>1, <1>5, <2>1, <2>2, LengthFacts, SMT DEF CellIndices
  <2>8. CommandBufferIndex' = (IF Len(line') > MaxLineLength THEN MaxLineLength ELSE Len(line'))
    BY <1>1, <2>1, <2>2, <2>7, LengthFacts, SMT
  <2>9. ASSUME NEW i \in 0 .. CommandBufferIndex' - 1
        PROVE  CommandBuffer'[i] = line'[i + 1]
    <3>1. CASE i = index
      BY <3>1, <2>2, <2>5, <2>6
    <3>2. CASE i # index
      <4>1. i \in 0 .. index - 1 /\ i \in CellIndices \ {index} /\ i + 1 \in 1 .. n
        BY <1>1, <2>1, <2>2, <3>2, LengthFacts, SMT DEF CellIndices
      <4>2. CommandBuffer[i] = line[i + 1]
        BY <1>1, <4>1, Zenon
      <4> QED
        BY <4>1, <4>2, <1>6, <2>5, Zenon
    <3> QED
      BY <3>1, <3>2
  <2> QED
    BY <1>1, <1>4, <1>7, <2>2, <2>4, <2>7, <2>8, <2>9, LengthFacts, SMT DEF BufferInv, LineIntact
<1>9. CASE ~(index < MaxLineLength)
  <2>1. UNCHANGED <<CommandBuffer, CommandBufferIndex>>
    BY <1>9, Zenon DEF Collect
  <2>2. index = MaxLineLength /\ n >= MaxLineLength
    BY <1>1, <1>9, LengthFacts, SMT
  <2>3. Len(line') = MaxLineLength + 1
    BY <1>1, <1>5, <2>2, LengthFacts, SMT
  <2>4. \A i \in 0 .. index - 1 : line'[i + 1] = line[i + 1]
    <3> SUFFICES ASSUME NEW i \in 0 .. index - 1 PROVE line'[i + 1] = line[i + 1]
      BY Zenon
    <3>1. i + 1 \in 1 .. n
      BY <1>1, <2>2, LengthFacts, SMT
    <3> QED
      BY <3>1, <1>6, Zenon
  <2>5. CommandBufferIndex' = (IF Len(line') > MaxLineLength THEN MaxLineLength ELSE Len(line'))
    BY <2>1, <2>2, <2>3, LengthFacts, SMT
  <2>6. \A i \in 0 .. CommandBufferIndex' - 1 : CommandBuffer'[i] = line'[i + 1]
    BY <1>1, <2>1, <2>4, Zenon
  <2>7. Len(line') <= MaxLineLength + 1
    BY <2>3, LengthFacts, SMT
  <2> QED
    BY <1>1, <1>4, <1>7, <2>1, <2>5, <2>6, <2>7, Zenon DEF BufferInv, LineIntact
<1> QED
  BY <1>8, <1>9

LEMMA InitBuffer == ParserInit => BufferInv
<1> SUFFICES ASSUME ParserInit PROVE BufferInv
  OBVIOUS
<1>1. line \in Seq(Bytes) /\ Len(line) = 0
  BY EmptySeq DEF ParserInit
<1>2. CommandBuffer \in [CellIndices -> Cells] /\ CommandBufferIndex = 0 /\ line = <<>>
  BY FreshBufferType, Zenon DEF ParserInit
<1>3. LineIntact
  BY <1>1, <1>2, LengthFacts, SMT DEF LineIntact
<1> QED
  BY <1>1, <1>2, <1>3, LengthFacts, SMT DEF BufferInv

LEMMA NextBuffer == MatcherInv /\ BufferInv /\ [ParserNext]_parserVars => BufferInv'
<1> SUFFICES ASSUME MatcherInv, BufferInv, [ParserNext]_parserVars PROVE BufferInv'
  OBVIOUS
<1>1. CASE WatchdogFires
  BY <1>1, FreshBufferType, NewLine, Zenon DEF WatchdogFires
<1>2. ASSUME NEW b \in Bytes, ProcessByte(b) PROVE BufferInv'
  <2>1. CASE EndOfLine(b)
    <3>1. NUL \in Cells
      BY Zenon DEF Cells
    <3>2. CommandBuffer' \in [CellIndices -> Cells]
      BY <2>1, <3>1, Zenon DEF EndOfLine, BufferInv
    <3> QED
      BY <2>1, <3>2, NewLine, Zenon DEF EndOfLine
  <2>2. CASE Collect(b)
    BY <2>2, CollectKeepsBuffer, Zenon
  <2>3. CASE MatchPrefix(b)
    BY <2>3, NewLine, Zenon DEF MatchPrefix, BufferInv
  <2> QED
    BY <1>2, <2>1, <2>2, <2>3, Zenon DEF ProcessByte
<1>3. CASE UNCHANGED parserVars
  <2>1. UNCHANGED <<line, CommandBuffer, CommandBufferIndex, InCommand>>
    BY <1>3, Zenon DEF parserVars
  <2> QED
    BY <2>1, Zenon DEF BufferInv, LineIntact
<1> QED
  BY <1>1, <1>2, <1>3, Zenon DEF ParserNext

LEMMA InvariantBuffer == ParserSpec => []BufferInv
<1> QED
  BY InitBuffer, NextBuffer, InvariantMatcher, PTL DEF ParserSpec

(* The buffer holds the line, cut off at its end, whatever was in it       *)
(* (comms.c:137-144).                                                      *)
THEOREM LineStaysIntact == ParserSpec => []LineIntact
<1>1. BufferInv => LineIntact
  BY DEF BufferInv
<1> QED
  BY <1>1, InvariantBuffer, PTL

-----------------------------------------------------------------------------
(* The matcher and the bytes received last.                                *)

Window == 1 .. RecentLength
L == Len(Prefix)

(* The last k bytes received are the first k of the prefix.                *)
Recently(bytes, k) == \A i \in 1 .. k : bytes[RecentLength - k + i] = Prefix[i]

(* Behind an end of line, the matcher is exactly as far as the bytes since *)
(* then make a beginning of the prefix.                                    *)
InStep(k) ==
  recent[RecentLength - k] \in EndBytes /\ Recently(recent, k)
    => IF k = L THEN InCommand ELSE ~InCommand /\ CommandPrefixIndex = k

RecentInv ==
  /\ recent \in [Window -> Recents]
  /\ InCommand => CommandPrefixIndex = 0
  /\ ~InCommand => Recently(recent, CommandPrefixIndex)
  /\ (InCommand /\ line = <<>>) => Recently(recent, L)
  /\ \A k \in 0 .. L : InStep(k)

LEMMA WindowFacts ==
  /\ RecentLength = L + 1 /\ L \in Nat /\ L >= 1 /\ RecentLength \in Nat
  BY PrefixFacts, SMT DEF RecentLength, L

LEMMA Shifted ==
  ASSUME NEW s \in [Window -> Recents], NEW e \in Recents
  PROVE  /\ Append(Tail(s), e) \in [Window -> Recents]
         /\ Append(Tail(s), e)[RecentLength] = e
         /\ \A i \in 1 .. L : Append(Tail(s), e)[i] = s[i + 1]
<1>1. s \in Seq(Recents) /\ Len(s) = RecentLength
  BY WindowFacts, SMT DEF Window
<1>2. s # <<>>
  BY <1>1, WindowFacts, EmptySeq
<1>3. /\ Tail(s) \in Seq(Recents) /\ Len(Tail(s)) = Len(s) - 1
      /\ \A i \in 1 .. Len(Tail(s)) : Tail(s)[i] = s[i + 1]
  BY <1>1, <1>2, HeadTailProperties, Zenon
<1> DEFINE t == Tail(s)
<1> HIDE DEF t
<1>4. /\ t \in Seq(Recents) /\ Len(t) = L
      /\ \A i \in 1 .. L : t[i] = s[i + 1]
  BY <1>1, <1>3, WindowFacts, SMT DEF t
<1>5. /\ Append(t, e) \in Seq(Recents) /\ Len(Append(t, e)) = Len(t) + 1
      /\ Append(t, e)[Len(t) + 1] = e
      /\ \A i \in 1 .. Len(t) : Append(t, e)[i] = t[i]
  BY <1>4, AppendProperties
<1> DEFINE u == Append(t, e)
<1>6. /\ u \in Seq(Recents) /\ Len(u) = RecentLength
      /\ u[RecentLength] = e
      /\ \A i \in 1 .. L : u[i] = s[i + 1]
  <2> HIDE DEF u
  <2>1. /\ u \in Seq(Recents) /\ Len(u) = Len(t) + 1 /\ u[Len(t) + 1] = e
        /\ \A i \in 1 .. Len(t) : u[i] = t[i]
    BY <1>5 DEF u
  <2> QED
    BY <1>4, <2>1, WindowFacts, SMT
<1>7. u \in [Window -> Recents]
  <2> HIDE DEF u
  <2> QED
    BY <1>6, LenProperties, Zenon DEF Window
<1> QED
  BY <1>6, <1>7 DEF t

(* Other stands for neither an end of line nor a byte of the prefix.       *)
LEMMA SeenFacts ==
  ASSUME NEW b \in Bytes
  PROVE  /\ Seen(b) \in Recents
         /\ Seen(b) \in EndBytes => b \in EndBytes
         /\ \A i \in 1 .. L : Seen(b) = Prefix[i] => b = Prefix[i]
         /\ \A i \in 1 .. L : b = Prefix[i] => Seen(b) = b
<1>1. Other \notin EndBytes /\ \A i \in 1 .. L : Prefix[i] # Other
  BY HistoryAssumption, WordsAssumption, PrefixFacts, Zenon DEF L
<1>2. \A i \in 1 .. L : Prefix[i] \in Bytes_of(Prefix)
  BY Zenon DEF Bytes_of, L
<1> QED
  BY <1>1, <1>2, Zenon DEF Seen, Recents

LEMMA FreshRecent ==
  ASSUME recent' = NothingRecent, CommandPrefixIndex' = 0, InCommand' = FALSE
  PROVE  RecentInv'
<1>1. recent' \in [Window -> Recents]
  BY Zenon DEF NothingRecent, Window, Recents
<1>2. Recently(recent', 0)
  BY SMT DEF Recently
<1>3. ASSUME NEW k \in 0 .. L PROVE recent'[RecentLength - k] = Other
  <2>1. RecentLength - k \in 1 .. RecentLength
    BY WindowFacts, SMT
  <2> QED
    BY <2>1, Zenon DEF NothingRecent
<1>4. Other \notin EndBytes
  BY HistoryAssumption, WordsAssumption, Zenon
<1>5. \A k \in 0 .. L : InStep(k)'
  BY <1>3, <1>4, Zenon DEF InStep
<1> QED
  BY <1>1, <1>2, <1>5, Zenon DEF RecentInv

LEMMA RecentlyGrows ==
  ASSUME recent \in [Window -> Recents], NEW b \in Bytes, NEW k \in 1 .. L,
         recent' = Append(Tail(recent), Seen(b))
  PROVE  /\ Recently(recent', k) <=> Recently(recent, k - 1) /\ b = Prefix[k]
         /\ recent'[RecentLength - k] = recent[RecentLength - (k - 1)]
<1>1. /\ recent'[RecentLength] = Seen(b)
      /\ \A i \in 1 .. L : recent'[i] = recent[i + 1]
  BY SeenFacts, Shifted, Zenon
<1>2. Seen(b) = Prefix[k] <=> b = Prefix[k]
  BY SeenFacts, Zenon
<1>3. \A i \in 1 .. k - 1 :
        recent'[RecentLength - k + i] = recent[RecentLength - (k - 1) + i]
  <2> SUFFICES ASSUME NEW i \in 1 .. k - 1
               PROVE  recent'[RecentLength - k + i] = recent[RecentLength - (k - 1) + i]
    BY Zenon
  <2>1. RecentLength - k + i \in 1 .. L
    BY WindowFacts, SMT
  <2>2. RecentLength - (k - 1) + i = (RecentLength - k + i) + 1
    BY WindowFacts, SMT
  <2> QED
    BY <1>1, <2>1, <2>2, Zenon
<1>4. recent'[RecentLength - k + k] = Seen(b)
  <2>1. RecentLength - k + k = RecentLength
    BY WindowFacts, SMT
  <2> QED
    BY <1>1, <2>1
<1>5. \A i : i \in 1 .. k <=> i \in 1 .. k - 1 \/ i = k
  BY WindowFacts, SMT
<1>6. Recently(recent', k) <=> Recently(recent, k - 1) /\ b = Prefix[k]
  BY <1>2, <1>3, <1>4, <1>5, Zenon DEF Recently
<1>7. RecentLength - k \in 1 .. L /\ RecentLength - (k - 1) = (RecentLength - k) + 1
  BY WindowFacts, SMT
<1>8. recent'[RecentLength - k] = recent[RecentLength - (k - 1)]
  BY <1>1, <1>7, Zenon
<1> QED
  BY <1>6, <1>8

(* An end of line puts the matcher back to the start.                      *)
LEMMA NewlineRestarts ==
  ASSUME MatcherInv, RecentInv, NEW b \in EndBytes, ProcessByte(b)
  PROVE  ~InCommand' /\ CommandPrefixIndex' = 0
<1>1. CASE EndOfLine(b)
  BY <1>1, Zenon DEF EndOfLine, RecentInv
<1>2. CASE MatchPrefix(b)
  <2>1. CommandPrefixIndex + 1 \in 1 .. Len(Prefix)
    BY PrefixFacts, SMT DEF MatcherInv
  <2>2. b # Prefix[CommandPrefixIndex + 1]
    BY <2>1, PrefixFacts, Zenon
  <2> QED
    BY <1>2, <2>2, Zenon DEF MatchPrefix
<1> QED
  BY <1>1, <1>2, Zenon DEF ProcessByte, Collect

LEMMA StaysInStep ==
  ASSUME MatcherInv, RecentInv, NEW b \in Bytes, ProcessByte(b), NEW k \in 0 .. L
  PROVE  InStep(k)'
<1> SUFFICES ASSUME recent'[RecentLength - k] \in EndBytes, Recently(recent', k)
             PROVE  IF k = L THEN InCommand' ELSE ~InCommand' /\ CommandPrefixIndex' = k
  BY Zenon DEF InStep
<1>1. recent' = Append(Tail(recent), Seen(b)) /\ recent \in [Window -> Recents]
  BY Zenon DEF ProcessByte, RecentInv
<1>2. CASE k = 0
  <2>1. RecentLength - k = RecentLength /\ k # L
    BY <1>2, WindowFacts, SMT
  <2>2. recent'[RecentLength] = Seen(b)
    BY <1>1, SeenFacts, Shifted, Zenon
  <2>3. Seen(b) \in EndBytes
    BY <2>1, <2>2
  <2>4. b \in EndBytes
    BY <2>3, SeenFacts, Zenon
  <2> QED
    BY <1>2, <2>1, <2>4, NewlineRestarts, Zenon
<1>3. CASE k # 0
  <2>1. k \in 1 .. L /\ k - 1 \in 0 .. L /\ k - 1 # L /\ (k - 1) + 1 = k
    BY <1>3, WindowFacts, SMT
  <2>2. /\ Recently(recent, k - 1) /\ b = Prefix[k]
        /\ recent[RecentLength - (k - 1)] \in EndBytes
    BY <1>1, <2>1, RecentlyGrows, Zenon
  <2>3. ~InCommand /\ CommandPrefixIndex = k - 1
    BY <2>1, <2>2, Zenon DEF RecentInv, InStep
  <2>4. MatchPrefix(b)
    BY <2>3, Zenon DEF ProcessByte, EndOfLine, Collect
  <2>5. CommandPrefixIndex + 1 = k /\ (k >= Len(Prefix) <=> k = L)
    BY <2>1, <2>3, WindowFacts, SMT DEF L
  <2>6. IF k >= Len(Prefix) THEN InCommand' = TRUE
        ELSE CommandPrefixIndex' = k /\ InCommand' = InCommand
    BY <2>2, <2>4, <2>5 DEF MatchPrefix
  <2>7. k = L => InCommand'
    BY <2>5, <2>6, Zenon
  <2>8. k # L => ~InCommand' /\ CommandPrefixIndex' = k
    BY <2>3, <2>5, <2>6, Zenon
  <2> QED
    BY <2>7, <2>8, Zenon
<1> QED
  BY <1>2, <1>3

LEMMA ByteKeepsRecent ==
  ASSUME MatcherInv, BufferInv, RecentInv, NEW b \in Bytes, ProcessByte(b)
  PROVE  RecentInv'
<1>1. recent' = Append(Tail(recent), Seen(b)) /\ recent \in [Window -> Recents]
  BY Zenon DEF ProcessByte, RecentInv
<1>2. recent' \in [Window -> Recents]
  BY <1>1, SeenFacts, Shifted, Zenon
<1>3. \A k \in 0 .. L : InStep(k)'
  BY StaysInStep, Zenon
<1>4. Recently(recent', 0)
  BY SMT DEF Recently
<1>5. CASE EndOfLine(b)
  BY <1>2, <1>3, <1>4, <1>5, Zenon DEF EndOfLine, RecentInv
<1>6. CASE Collect(b)
  <2>1. InCommand /\ InCommand' = InCommand /\ CommandPrefixIndex' = CommandPrefixIndex
    BY <1>6, Zenon DEF Collect
  <2>2. line' # <<>>
    <3>1. line \in Seq(Bytes)
      BY Zenon DEF BufferInv
    <3>2. Append(line, b) # <<>>
      BY <3>1, AppendProperties
    <3>3. ~(Len(line) <= MaxLineLength) => line # <<>>
      <4> SUFFICES ASSUME line = <<>> PROVE Len(line) <= MaxLineLength
        OBVIOUS
      <4>1. Len(line) = 0
        BY EmptySeq
      <4> QED
        BY <4>1, LengthFacts, SMT
    <3> QED
      BY <1>6, <3>2, <3>3, Zenon DEF Collect
  <2> QED
    BY <1>2, <1>3, <2>1, <2>2, Zenon DEF RecentInv
<1>7. CASE MatchPrefix(b)
  <2> DEFINE k == CommandPrefixIndex + 1
  <2>1. k \in 1 .. L /\ k - 1 = CommandPrefixIndex /\ (k >= L <=> k = L)
    BY WindowFacts, SMT DEF MatcherInv, L
  <2>2. ~InCommand /\ Recently(recent, k - 1)
    BY <1>7, <2>1 DEF MatchPrefix, RecentInv
  <2> HIDE DEF k
  <2>3. CASE b # Prefix[k]
    BY <1>2, <1>3, <1>4, <1>7, <2>2, <2>3, Zenon DEF MatchPrefix, RecentInv, k
  <2>4. CASE b = Prefix[k]
    <3>1. Recently(recent', k)
      BY <1>1, <2>1, <2>2, <2>4, RecentlyGrows, Zenon
    <3>2. IF k = L THEN CommandPrefixIndex' = 0 /\ InCommand' = TRUE
          ELSE CommandPrefixIndex' = k /\ InCommand' = InCommand
      BY <1>7, <2>1, <2>4, Zenon DEF MatchPrefix, k, L
    <3> QED
      BY <1>2, <1>3, <2>2, <3>1, <3>2, Zenon DEF RecentInv
  <2> QED
    BY <2>3, <2>4
<1> QED
  BY <1>5, <1>6, <1>7, Zenon DEF ProcessByte

LEMMA InvariantRecent == ParserSpec => []RecentInv
<1>1. ParserInit => RecentInv
  <2> SUFFICES ASSUME ParserInit PROVE RecentInv
    OBVIOUS
  <2>1. recent \in [Window -> Recents]
    BY Zenon DEF ParserInit, NothingRecent, Window, Recents
  <2>2. Recently(recent, 0)
    BY SMT DEF Recently
  <2>3. ASSUME NEW k \in 0 .. L PROVE recent[RecentLength - k] = Other
    <3>1. RecentLength - k \in 1 .. RecentLength
      BY WindowFacts, SMT
    <3> QED
      BY <3>1, Zenon DEF ParserInit, NothingRecent
  <2>4. Other \notin EndBytes
    BY HistoryAssumption, WordsAssumption, Zenon
  <2>5. \A k \in 0 .. L : InStep(k)
    BY <2>3, <2>4, Zenon DEF InStep
  <2> QED
    BY <2>1, <2>2, <2>5, Zenon DEF ParserInit, RecentInv
<1>2. MatcherInv /\ BufferInv /\ RecentInv /\ [ParserNext]_parserVars => RecentInv'
  <2> SUFFICES ASSUME MatcherInv, BufferInv, RecentInv, [ParserNext]_parserVars
               PROVE  RecentInv'
    OBVIOUS
  <2>1. CASE WatchdogFires
    BY <2>1, FreshRecent, Zenon DEF WatchdogFires
  <2>2. ASSUME NEW b \in Bytes, ProcessByte(b) PROVE RecentInv'
    BY <2>2, ByteKeepsRecent, Zenon
  <2>3. CASE UNCHANGED parserVars
    <3>1. UNCHANGED <<recent, line, CommandPrefixIndex, InCommand>>
      BY <2>3, Zenon DEF parserVars
    <3> QED
      BY <3>1, Zenon DEF RecentInv, InStep
  <2> QED
    BY <2>1, <2>2, <2>3, Zenon DEF ParserNext
<1> QED
  BY <1>1, <1>2, InvariantMatcher, InvariantBuffer, PTL DEF ParserSpec

(* A command line opens right behind the whole prefix and nowhere else     *)
(* (comms.c:147-156).                                                      *)
THEOREM PrefixIsSound == ParserSpec => []PrefixSound
<1>1. MatcherInv /\ RecentInv => PrefixSound
  <2> SUFFICES ASSUME MatcherInv, RecentInv PROVE PrefixSound
    OBVIOUS
  <2>1. recent \in Seq(Recents) /\ Len(recent) = RecentLength
    BY WindowFacts, SMT DEF RecentInv, Window
  <2>2. ASSUME ~InCommand
        PROVE  EndsWith(recent, SubSeq(Prefix, 1, CommandPrefixIndex))
    <3> DEFINE m == CommandPrefixIndex
               t == SubSeq(Prefix, 1, m)
    <3>1. m \in Nat /\ m <= L /\ Prefix \in Seq(Bytes) /\ L = Len(Prefix)
      BY PrefixFacts, SMT DEF MatcherInv, L
    <3>2. Len(t) = m /\ \A i \in 1 .. m : t[i] = Prefix[i]
      BY <3>1
    <3>3. \A i \in 1 .. m : recent[RecentLength - m + i] = Prefix[i]
      BY <2>2, Zenon DEF RecentInv, Recently
    <3> HIDE DEF t, m
    <3>4. Len(t) <= Len(recent)
      BY <2>1, <3>1, <3>2, WindowFacts, SMT
    <3>5. \A i \in 1 .. Len(t) : recent[Len(recent) - Len(t) + i] = t[i]
      BY <2>1, <3>2, <3>3
    <3> QED
      BY <3>4, <3>5, Zenon DEF EndsWith, t, m
  <2>3. ASSUME InCommand, line = <<>> PROVE EndsWith(recent, Prefix)
    <3>1. Len(Prefix) <= Len(recent)
      BY <2>1, WindowFacts, SMT DEF L
    <3>2. \A i \in 1 .. L : recent[RecentLength - L + i] = Prefix[i]
      BY <2>3, Zenon DEF RecentInv, Recently
    <3>3. \A i \in 1 .. Len(Prefix) : recent[Len(recent) - Len(Prefix) + i] = Prefix[i]
      BY <2>1, <3>2 DEF L
    <3> QED
      BY <3>1, <3>3, Zenon DEF EndsWith
  <2> QED
    BY <2>2, <2>3, Zenon DEF PrefixSound
<1> QED
  BY <1>1, InvariantMatcher, InvariantRecent, PTL

(* Whatever came before it, an end of line puts the matcher back in step   *)
(* (comms.c:140, 155).                                                     *)
THEOREM NewlineAlwaysResyncs == ParserSpec => []NewlineResyncs
<1>1. RecentInv => NewlineResyncs
  <2> SUFFICES ASSUME RecentInv, NEW b \in EndBytes, recent = <<b>> \o Prefix
               PROVE  InCommand
    BY Zenon DEF NewlineResyncs
  <2>1. b \in Bytes /\ Prefix \in Seq(Bytes) /\ <<b>> \in Seq(Bytes)
    BY WordsAssumption, PrefixFacts
  <2>2. Len(<<b>>) = 1 /\ <<b>>[1] = b
    OBVIOUS
  <2>3. \A i \in 1 .. Len(<<b>>) + Len(Prefix) :
          recent[i] = IF i <= Len(<<b>>) THEN <<b>>[i] ELSE Prefix[i - Len(<<b>>)]
    BY <2>1, ConcatProperties, Zenon
  <2>4. \A i \in 1 .. 1 + L : recent[i] = IF i <= 1 THEN <<b>>[i] ELSE Prefix[i - 1]
    BY <2>2, <2>3, Zenon DEF L
  <2>5. recent[RecentLength - L] = b
    <3>1. RecentLength - L = 1 /\ 1 \in 1 .. 1 + L /\ 1 <= 1
      BY WindowFacts, SMT
    <3>2. recent[1] = <<b>>[1]
      BY <2>4, <3>1, Zenon
    <3> QED
      BY <2>2, <3>1, <3>2
  <2>6. Recently(recent, L)
    <3> SUFFICES ASSUME NEW i \in 1 .. L PROVE recent[RecentLength - L + i] = Prefix[i]
      BY Zenon DEF Recently
    <3>1. /\ RecentLength - L + i = i + 1 /\ i + 1 \in 1 .. 1 + L /\ ~(i + 1 <= 1)
          /\ (i + 1) - 1 = i
      BY WindowFacts, SMT
    <3>2. recent[i + 1] = Prefix[(i + 1) - 1]
      BY <2>4, <3>1, Zenon
    <3> QED
      BY <3>1, <3>2
  <2>7. L \in 0 .. L
    BY WindowFacts, SMT
  <2> QED
    BY <2>5, <2>6, <2>7, Zenon DEF RecentInv, InStep
<1> QED
  BY <1>1, InvariantRecent, PTL

-----------------------------------------------------------------------------
(* The types, what a command is understood as included.                    *)

LEMMA StringIsText ==
  ASSUME NEW buffer \in [CellIndices -> Cells], NEW at \in Nat
  PROVE  StringAt(buffer, at) \in Texts
<1> DEFINE cells == {j \in at .. MaxLineLength : \A k \in at .. j - 1 : buffer[k] # NUL}
<1>1. cells \subseteq CellIndices
  BY LengthFacts, SMT DEF CellIndices
<1>2. StringAt(buffer, at) = [i \in cells |-> buffer[i]]
  BY DEF StringAt
<1> HIDE DEF cells
<1>3. [i \in cells |-> buffer[i]] \in [cells -> Cells]
  BY <1>1
<1> QED
  BY <1>1, <1>2, <1>3, Zenon DEF Texts

LEMMA InterpretType ==
  ASSUME NEW buffer \in [CellIndices -> Cells] PROVE Interpret(buffer) \in Reports
<1>1. \A word \in Words : Len(word) \in Nat
  BY WordsAssumption, LenProperties, Zenon
<1>2. \A at \in Nat, word \in Words : After(at, word) \in Nat
  BY <1>1, SMT DEF After
<1>3. \A at \in Nat : StringAt(buffer, at) \in Texts
  BY StringIsText
<1>4. ASSUME NEW at \in Nat, NEW arg \in {"on", "off"}
      PROVE  PowerDevice(buffer, at, arg) \in Reports
  <2>1. CASE buffer[at] \in DOMAIN DigitOf
    <3>1. DigitOf[buffer[at]] \in 1 .. 9
      BY <2>1, WordsAssumption, Zenon
    <3>2. 7 - (DigitOf[buffer[at]] - 1) \in -1 .. 7
      BY <3>1, SMT
    <3> QED
      BY <2>1, <3>2 DEF PowerDevice, Reports
  <2>2. CASE buffer[at] \notin DOMAIN DigitOf
    <3> HIDE DEF Texts, Matches, StringAt
    <3>1. StringAt(buffer, at) \in Texts
      BY <1>3
    <3> QED
      BY <2>2, <3>1 DEF PowerDevice, Reports
  <2> QED
    BY <2>1, <2>2
<1>5. ASSUME NEW at \in Nat, NEW name \in {"power", "watchdog"}
      PROVE  Unrecognised(name, buffer, at) \in Reports
  BY <1>3 DEF Unrecognised, Reports
<1>6. ASSUME NEW at \in Nat PROVE ProcessPowerCommand(buffer, at) \in Reports
  <2>1. After(at, PowerOn) \in Nat /\ After(at, PowerOff) \in Nat
    BY <1>2, Zenon DEF Words
  <2> QED
    BY <1>4, <1>5, <2>1, Zenon DEF ProcessPowerCommand
<1>7. ASSUME NEW at \in Nat PROVE ProcessLCDCommand(buffer, at) \in Reports
  BY <1>3 DEF ProcessLCDCommand, Reports
<1>8. ASSUME NEW at \in Nat PROVE ProcessWatchdogCommand(buffer, at) \in Reports
  <2>1. \A arg \in {"enable", "disable", "pulse"} : [cmd |-> "watchdog", arg |-> arg] \in Reports
    BY DEF Reports
  <2> QED
    BY <1>5, <2>1, Zenon DEF ProcessWatchdogCommand
<1>9. ASSUME NEW at \in Nat PROVE ProcessBeaglePowerDownCommand(buffer, at) \in Reports
  <2> DEFINE wait == Strtoul(StringAt(buffer, at))
             down == Strtoul(wait.rest)
             seconds == IF down.value = 0 THEN BEAGLE_RESET_DURATION_IN_S ELSE down.value
  <2>1. wait.value \in Nat /\ wait.rest \in Texts
    BY <1>3, StrtoulAssumption, Zenon
  <2>2. seconds \in Nat
    <3>1. down.value \in Nat
      BY <2>1, StrtoulAssumption, Zenon
    <3>2. BEAGLE_RESET_DURATION_IN_S \in Nat
      BY SMT DEF BEAGLE_RESET_DURATION_IN_S
    <3> QED
      BY <3>1, <3>2, Zenon
  <2>3. ProcessBeaglePowerDownCommand(buffer, at)
          = [cmd |-> "beagle", text |-> StringAt(buffer, at), wait_seconds |-> wait.value,
             power_down_seconds |-> seconds]
    BY Zenon DEF ProcessBeaglePowerDownCommand
  <2> HIDE DEF wait, down, seconds
  <2> QED
    BY <1>3, <2>1, <2>2, <2>3 DEF Reports
<1>10. [cmd |-> "reset"] \in Reports /\ [cmd |-> "unknown", text |-> StringAt(buffer, 0)] \in Reports
  BY <1>3 DEF Reports
<1>11. /\ After(0, BeagleResetCmd) \in Nat /\ After(0, PowerCmd) \in Nat
       /\ After(0, LcdCmd) \in Nat /\ After(0, WatchdogCmd) \in Nat
  <2>1. 0 \in Nat
    BY SMT
  <2> QED
    BY <1>2, <2>1, Zenon DEF Words
<1> QED
  BY <1>6, <1>7, <1>8, <1>9, <1>10, <1>11, Zenon DEF Interpret

(* The variables of the parser keep their types: no index leaves its array *)
(* (comms.c:66-70, 142).                                                   *)
THEOREM ParserTypeCorrect == ParserSpec => []ParserTypeOK
<1> DEFINE Typed == report \in Reports
<1>1. NoReport \in Reports
  BY DEF NoReport, Reports
<1>2. ParserInit => Typed
  BY <1>1, Zenon DEF ParserInit
<1>3. BufferInv' /\ Typed /\ [ParserNext]_parserVars => Typed'
  <2>1. CommandBuffer' \in [CellIndices -> Cells] => Interpret(CommandBuffer') \in Reports
    BY InterpretType
  <2> QED
    BY <1>1, <2>1, Zenon
       DEF BufferInv, ParserNext, ProcessByte, EndOfLine, Collect, MatchPrefix, WatchdogFires,
           parserVars
<1>4. MatcherInv /\ BufferInv /\ RecentInv /\ Typed => ParserTypeOK
  <2> SUFFICES ASSUME MatcherInv, BufferInv, RecentInv, Typed PROVE ParserTypeOK
    OBVIOUS
  <2>1. Bytes_of(line) \subseteq Bytes
    BY DEF BufferInv, Bytes_of
  <2> QED
    BY <2>1, Zenon DEF MatcherInv, BufferInv, RecentInv, ParserTypeOK, Window
<1> QED
  BY <1>2, <1>3, <1>4, InvariantMatcher, InvariantBuffer, InvariantRecent, PTL DEF ParserSpec
-----------------------------------------------------------------------------
(* What a command line means.                                              *)

(* Two buffers that hold the same string, of length n.                     *)
SameString(f, g, n) ==
  /\ n \in Nat
  /\ \A i \in 0 .. n : f[i] = g[i]
  /\ f[n] = NUL

LEMMA WordFacts ==
  ASSUME NEW word \in Words
  PROVE  /\ Len(word) \in Nat /\ Len(word) >= 1
         /\ \A i \in 1 .. Len(word) : word[i] # NUL
<1>1. /\ word \in Seq(Bytes) /\ word # <<>>
      /\ Bytes_of(word) \cap (EndBytes \cup {NUL}) = {}
  BY WordsAssumption, Zenon
<1>2. Len(word) \in Nat /\ Len(word) >= 1
  BY <1>1
<1>3. \A i \in 1 .. Len(word) : word[i] # NUL
  BY <1>1, Zenon DEF Bytes_of
<1> QED
  BY <1>2, <1>3

(* A word that strncmp finds in a string lies within the string.           *)
LEMMA MatchWithin ==
  ASSUME NEW f, NEW g, NEW n, SameString(f, g, n), NEW at \in 0 .. n,
         NEW word \in Words, Matches(f, at, word)
  PROVE  at + Len(word) <= n /\ Matches(g, at, word)
<1>1. n \in Nat /\ at \in Nat /\ at <= n /\ Len(word) \in Nat
  BY WordFacts, SMT DEF SameString
<1>2. at + Len(word) <= n
  <2> SUFFICES ASSUME ~(at + Len(word) <= n) PROVE FALSE
    OBVIOUS
  <2> DEFINE i == n - at + 1
  <2>1. i \in 1 .. Len(word) /\ at + i - 1 = n
    BY <1>1, SMT
  <2> HIDE DEF i
  <2>2. f[n] = word[i]
    BY <2>1 DEF Matches
  <2> QED
    BY <2>1, <2>2, WordFacts, Zenon DEF SameString
<1>3. ASSUME NEW i \in 1 .. Len(word) PROVE g[at + i - 1] = word[i]
  <2>1. at + i - 1 \in 0 .. n
    BY <1>1, <1>2, SMT
  <2> QED
    BY <2>1, Zenon DEF SameString, Matches
<1> QED
  BY <1>2, <1>3, Zenon DEF Matches

LEMMA SameMatch ==
  ASSUME NEW f, NEW g, NEW n, SameString(f, g, n), NEW at \in 0 .. n, NEW word \in Words
  PROVE  Matches(f, at, word) <=> Matches(g, at, word)
<1>1. SameString(g, f, n)
  BY SMT DEF SameString
<1> QED
  BY <1>1, MatchWithin, Zenon

(* From any position in the string, the same text is left of it.           *)
LEMMA SameText ==
  ASSUME NEW f, NEW g, NEW n, SameString(f, g, n), NEW at \in 0 .. n
  PROVE  StringAt(f, at) = StringAt(g, at)
<1> DEFINE FCells == {j \in at .. MaxLineLength : \A k \in at .. j - 1 : f[k] # NUL}
           GCells == {j \in at .. MaxLineLength : \A k \in at .. j - 1 : g[k] # NUL}
<1>1. f[n] = NUL /\ g[n] = NUL /\ n \in Nat
  BY SMT DEF SameString
<1>2. \A k \in at .. n : f[k] = g[k]
  BY <1>1, SMT DEF SameString
<1>3. ASSUME NEW j \in at .. MaxLineLength, ~(j <= n)
      PROVE  n \in at .. j - 1
  BY <1>1, <1>3, LengthFacts, SMT
<1>4. \A j \in at .. MaxLineLength : j <= n => \A k \in at .. j - 1 : k \in at .. n
  BY <1>1, LengthFacts, SMT
<1>5. FCells = GCells
  BY <1>1, <1>2, <1>3, <1>4, Zenon
<1>6. \A j \in FCells : f[j] = g[j]
  <2> SUFFICES ASSUME NEW j \in FCells PROVE f[j] = g[j]
    BY Zenon
  <2>1. j <= n
    BY <1>1, <1>3, Zenon
  <2>2. j \in at .. n
    BY <1>1, <2>1, LengthFacts, SMT
  <2> QED
    BY <1>2, <2>2, Zenon
<1>7. StringAt(f, at) = [i \in FCells |-> f[i]] /\ StringAt(g, at) = [i \in GCells |-> g[i]]
  BY Zenon DEF StringAt
<1> HIDE DEF FCells, GCells
<1> QED
  BY <1>5, <1>6, <1>7

(* So the handlers, given a position in the string, do the same.           *)
LEMMA SameBeagle ==
  ASSUME NEW f, NEW g, NEW n, SameString(f, g, n), NEW at \in 0 .. n
  PROVE  ProcessBeaglePowerDownCommand(f, at) = ProcessBeaglePowerDownCommand(g, at)
<1>1. StringAt(f, at) = StringAt(g, at)
  BY SameText
<1> QED
  BY <1>1, Zenon DEF ProcessBeaglePowerDownCommand

LEMMA SameDevice ==
  ASSUME NEW f, NEW g, NEW n, SameString(f, g, n), NEW at \in 0 .. n, NEW arg
  PROVE  PowerDevice(f, at, arg) = PowerDevice(g, at, arg)
<1>1. f[at] = g[at]
  BY Zenon DEF SameString
<1>2. /\ Matches(f, at, PowerMic) <=> Matches(g, at, PowerMic)
      /\ Matches(f, at, LcdCmd) <=> Matches(g, at, LcdCmd)
  BY SameMatch, Zenon DEF Words
<1>3. StringAt(f, at) = StringAt(g, at)
  BY SameText
<1> QED
  BY <1>1, <1>2, <1>3, Zenon DEF PowerDevice

LEMMA SamePower ==
  ASSUME NEW f, NEW g, NEW n, SameString(f, g, n), NEW at \in 0 .. n,
         \A arg \in {PowerOn, PowerOff} : Matches(g, at, arg) => After(at, arg) \in 0 .. n
  PROVE  ProcessPowerCommand(f, at) = ProcessPowerCommand(g, at)
<1>1. /\ Matches(f, at, PowerOn) <=> Matches(g, at, PowerOn)
      /\ Matches(f, at, PowerOff) <=> Matches(g, at, PowerOff)
  BY SameMatch, Zenon DEF Words
<1>2. /\ Matches(g, at, PowerOn) => After(at, PowerOn) \in 0 .. n
      /\ Matches(g, at, PowerOff) => After(at, PowerOff) \in 0 .. n
  OBVIOUS
<1>3. ASSUME NEW m \in 0 .. n, NEW arg PROVE PowerDevice(f, m, arg) = PowerDevice(g, m, arg)
  BY SameDevice
<1>4. StringAt(f, at) = StringAt(g, at)
  BY SameText
<1> QED
  BY <1>1, <1>2, <1>3, <1>4, Zenon DEF ProcessPowerCommand, Unrecognised

LEMMA SameLcd ==
  ASSUME NEW f, NEW g, NEW n, SameString(f, g, n), NEW at \in 0 .. n
  PROVE  ProcessLCDCommand(f, at) = ProcessLCDCommand(g, at)
<1>1. Matches(f, at, LcdClear) <=> Matches(g, at, LcdClear)
  BY SameMatch, Zenon DEF Words
<1>2. StringAt(f, at) = StringAt(g, at)
  BY SameText
<1> QED
  BY <1>1, <1>2, Zenon DEF ProcessLCDCommand

LEMMA SameWatchdog ==
  ASSUME NEW f, NEW g, NEW n, SameString(f, g, n), NEW at \in 0 .. n
  PROVE  ProcessWatchdogCommand(f, at) = ProcessWatchdogCommand(g, at)
<1>1. /\ Matches(f, at, WatchdogEnable) <=> Matches(g, at, WatchdogEnable)
      /\ Matches(f, at, WatchdogDisable) <=> Matches(g, at, WatchdogDisable)
      /\ Matches(f, at, WatchdogPulse) <=> Matches(g, at, WatchdogPulse)
  BY SameMatch, Zenon DEF Words
<1>2. StringAt(f, at) = StringAt(g, at)
  BY SameText
<1> QED
  BY <1>1, <1>2, Zenon DEF ProcessWatchdogCommand, Unrecognised

(* Two buffers that hold the same string mean the same, if every word the  *)
(* handlers step over has more of the string behind it.                    *)
LEMMA SameMeaning ==
  ASSUME NEW f, NEW g, NEW n, SameString(f, g, n),
         \A word \in {BeagleResetCmd, PowerCmd, LcdCmd, WatchdogCmd} :
           Matches(g, 0, word) => After(0, word) \in 0 .. n,
         \A arg \in {PowerOn, PowerOff} :
           Matches(g, 0, PowerCmd) /\ Matches(g, After(0, PowerCmd), arg)
             => After(After(0, PowerCmd), arg) \in 0 .. n
  PROVE  Interpret(f) = Interpret(g)
<1>1. 0 \in 0 .. n
  BY SMT DEF SameString
<1>2. \A word \in Words : Matches(f, 0, word) <=> Matches(g, 0, word)
  BY <1>1, SameMatch, Zenon
<1>3. /\ Matches(f, 0, BeagleResetCmd) <=> Matches(g, 0, BeagleResetCmd)
      /\ Matches(f, 0, PowerCmd) <=> Matches(g, 0, PowerCmd)
      /\ Matches(f, 0, LcdCmd) <=> Matches(g, 0, LcdCmd)
      /\ Matches(f, 0, WatchdogCmd) <=> Matches(g, 0, WatchdogCmd)
      /\ Matches(f, 0, ResetCmd) <=> Matches(g, 0, ResetCmd)
  BY <1>2, Zenon DEF Words
<1>4. Matches(g, 0, PowerCmd)
        => ProcessPowerCommand(f, After(0, PowerCmd)) = ProcessPowerCommand(g, After(0, PowerCmd))
  BY SamePower, Zenon
<1>5. Matches(g, 0, LcdCmd)
        => ProcessLCDCommand(f, After(0, LcdCmd)) = ProcessLCDCommand(g, After(0, LcdCmd))
  BY SameLcd, Zenon
<1>6. Matches(g, 0, WatchdogCmd)
        => ProcessWatchdogCommand(f, After(0, WatchdogCmd))
             = ProcessWatchdogCommand(g, After(0, WatchdogCmd))
  BY SameWatchdog, Zenon
<1>7. Matches(g, 0, BeagleResetCmd)
        => ProcessBeaglePowerDownCommand(f, After(0, BeagleResetCmd))
             = ProcessBeaglePowerDownCommand(g, After(0, BeagleResetCmd))
  BY SameBeagle, Zenon
<1>8. StringAt(f, 0) = StringAt(g, 0)
  BY <1>1, SameText
<1> QED
  BY <1>3, <1>4, <1>5, <1>6, <1>7, <1>8, Zenon DEF Interpret

(* The buffer, once terminated, and the line alone hold the same string.   *)
LEMMA TerminatedLine ==
  ASSUME BufferInv, NEW b \in EndBytes, EndOfLine(b)
  PROVE  SameString(CommandBuffer', LineAlone, CommandBufferIndex)
<1> DEFINE n == CommandBufferIndex
<1>1. /\ n = (IF Len(line) > MaxLineLength THEN MaxLineLength ELSE Len(line))
      /\ \A i \in 0 .. n - 1 : CommandBuffer[i] = line[i + 1]
      /\ Len(line) \in Nat /\ n \in CellIndices
      /\ CommandBuffer \in [CellIndices -> Cells]
      /\ CommandBuffer' = [CommandBuffer EXCEPT ![n] = NUL]
  BY LenProperties, Zenon DEF EndOfLine, BufferInv, LineIntact
<1>2. n \in Nat /\ \A i \in 0 .. n : i \in CellIndices /\ (i = n \/ i \in 0 .. n - 1)
  BY <1>1, LengthFacts, SMT DEF CellIndices
<1>3. /\ \A i \in 0 .. n - 1 : i < MaxLineLength /\ i < Len(line)
      /\ ~(n < MaxLineLength /\ n < Len(line))
  BY <1>1, LengthFacts, SMT
<1>4. \A i \in 0 .. n - 1 : i # n
  BY <1>2, SMT
<1> HIDE DEF n
<1>5. CommandBuffer'[n] = NUL /\ LineAlone[n] = NUL
  BY <1>1, <1>3, Zenon DEF LineAlone
<1>6. ASSUME NEW i \in 0 .. n - 1 PROVE CommandBuffer'[i] = LineAlone[i]
  <2>1. i \in CellIndices
    BY <1>1, LengthFacts, SMT DEF CellIndices
  <2>2. CommandBuffer'[i] = line[i + 1]
    BY <1>1, <1>4, <2>1, Zenon
  <2>3. LineAlone[i] = line[i + 1]
    BY <1>3, <2>1, Zenon DEF LineAlone
  <2> QED
    BY <2>2, <2>3
<1>7. \A i \in 0 .. n : CommandBuffer'[i] = LineAlone[i]
  BY <1>2, <1>5, <1>6, Zenon
<1> QED
  BY <1>2, <1>5, <1>7, Zenon DEF SameString, n

(* A separated word, with its separator, lies within the line and within   *)
(* the buffer.                                                             *)
LEMMA SeparatedWithin ==
  ASSUME BufferInv, InCommand, Separated
  PROVE  /\ \A word \in {BeagleResetCmd, PowerCmd, LcdCmd, WatchdogCmd} :
              Matches(LineAlone, 0, word) => After(0, word) \in 0 .. CommandBufferIndex
         /\ \A arg \in {PowerOn, PowerOff} :
              Matches(LineAlone, 0, PowerCmd) /\ Matches(LineAlone, After(0, PowerCmd), arg)
                => After(After(0, PowerCmd), arg) \in 0 .. CommandBufferIndex
<1> DEFINE n == CommandBufferIndex
<1>1. n = (IF Len(line) > MaxLineLength THEN MaxLineLength ELSE Len(line)) /\ Len(line) \in Nat
  BY LenProperties, Zenon DEF BufferInv, LineIntact
<1>2. \A word \in Words : Len(word) \in Nat /\ Len(word) >= 1
  BY WordFacts, Zenon
<1> HIDE DEF n
<1>3. /\ Len(PowerOn) \in Nat /\ Len(PowerOff) \in Nat /\ Len(PowerMic) \in Nat
      /\ Len(LcdClear) \in Nat /\ Len(WatchdogEnable) \in Nat
      /\ Len(PowerCmd) \in Nat /\ Len(LcdCmd) \in Nat /\ Len(WatchdogCmd) \in Nat
      /\ Len(BeagleResetCmd) \in Nat
  BY <1>2, Zenon DEF Words
<1>4. /\ \A arg \in {PowerOn, PowerOff} : Len(PowerCmd) + 1 + Len(arg) + 1 + Len(PowerMic) <= MaxLineLength
      /\ Len(WatchdogCmd) + 1 + Len(WatchdogEnable) <= MaxLineLength
      /\ Len(LcdCmd) + 1 + Len(LcdClear) <= MaxLineLength
      /\ Len(BeagleResetCmd) + 1 <= MaxLineLength
  BY LineLengthAssumption, Zenon
<1>5. ASSUME NEW word \in {BeagleResetCmd, PowerCmd, LcdCmd, WatchdogCmd}, Matches(LineAlone, 0, word)
      PROVE  After(0, word) \in 0 .. n
  <2>1. Len(line) > Len(word)
    BY <1>5, Zenon DEF Separated
  <2>2. Len(word) \in Nat /\ Len(word) + 1 <= MaxLineLength
    <3>1. /\ Len(PowerCmd) + 1 <= MaxLineLength
          /\ Len(LcdCmd) + 1 <= MaxLineLength
          /\ Len(WatchdogCmd) + 1 <= MaxLineLength
          /\ Len(BeagleResetCmd) + 1 <= MaxLineLength
      BY <1>3, <1>4, LengthFacts, SMT
    <3> QED
      BY <1>3, <3>1
  <2> QED
    BY <1>1, <2>1, <2>2, LengthFacts, SMT DEF After
<1>6. ASSUME NEW arg \in {PowerOn, PowerOff}, Matches(LineAlone, 0, PowerCmd),
             Matches(LineAlone, After(0, PowerCmd), arg)
      PROVE  After(After(0, PowerCmd), arg) \in 0 .. n
  <2>1. Len(line) > Len(PowerCmd) + 1 + Len(arg)
    BY <1>6, Zenon DEF Separated
  <2>2. Len(arg) \in Nat /\ Len(PowerCmd) + 1 + Len(arg) + 1 + Len(PowerMic) <= MaxLineLength
    BY <1>3, <1>4
  <2> QED
    BY <1>1, <1>3, <2>1, <2>2, LengthFacts, SMT DEF After
<1> QED
  BY <1>5, <1>6, Zenon DEF n

(* A well separated command does what its own line says, down to the text  *)
(* and the numbers it prints and passes on, whatever older lines left in   *)
(* the buffer, for any words, any strtoul and any buffer that holds the    *)
(* longest command (comms.c:111-141 and the handlers behind it).           *)
THEOREM SeparatedLineAlone == ParserSpec => SeparatedLineActsAlone
<1>1. BufferInv /\ [ParserNext]_parserVars
        => [\A b \in EndBytes : (EndOfLine(b) /\ Separated)
              => report' = Interpret(LineAlone)]_parserVars
  <2> SUFFICES ASSUME BufferInv, NEW b \in EndBytes, EndOfLine(b), Separated
               PROVE  report' = Interpret(LineAlone)
    BY Zenon
  <2>1. InCommand /\ report' = Interpret(CommandBuffer')
    BY Zenon DEF EndOfLine
  <2>2. SameString(CommandBuffer', LineAlone, CommandBufferIndex)
    BY TerminatedLine, Zenon
  <2>3. Interpret(CommandBuffer') = Interpret(LineAlone)
    BY <2>1, <2>2, SeparatedWithin, SameMeaning, Zenon
  <2> QED
    BY <2>1, <2>3
<1> QED
  BY <1>1, InvariantBuffer, PTL DEF ParserSpec, SeparatedLineActsAlone
-----------------------------------------------------------------------------
(* Where the docs' claims that CommandParser refutes do hold.              *)

(* As long as every line is shorter than the buffer, its terminator stays  *)
(* in the buffer (comms.c:112).                                            *)
THEOREM ShortLinesStayInBuffer ==
  ParserSpec /\ [](Len(line) < MaxLineLength) => []TerminatorInBuffer
<1>1. ParserInit => TerminatorInBuffer
  <2>1. MaxLineLength \in CellIndices /\ ~(MaxLineLength < MaxLineLength)
    BY LengthFacts, SMT DEF CellIndices
  <2> QED
    BY <2>1, Zenon DEF ParserInit, FreshBuffer, TerminatorInBuffer
<1>2. BufferInv /\ Len(line) < MaxLineLength /\ TerminatorInBuffer /\ [ParserNext]_parserVars
        => TerminatorInBuffer'
  <2> SUFFICES ASSUME BufferInv, Len(line) < MaxLineLength, TerminatorInBuffer,
                      [ParserNext]_parserVars
               PROVE  TerminatorInBuffer'
    OBVIOUS
  <2>1. MaxLineLength \in CellIndices /\ ~(MaxLineLength < MaxLineLength)
    BY LengthFacts, SMT DEF CellIndices
  <2>2. InCommand => CommandBufferIndex # MaxLineLength
    <3>1. Len(line) \in Nat
      BY LenProperties, Zenon DEF BufferInv
    <3> QED
      BY <3>1, LengthFacts, SMT DEF BufferInv, LineIntact
  <2>3. CASE WatchdogFires
    BY <2>1, <2>3, Zenon DEF WatchdogFires, FreshBuffer, TerminatorInBuffer
  <2>4. ASSUME NEW b \in Bytes, ProcessByte(b) PROVE TerminatorInBuffer'
    <3>1. CASE EndOfLine(b)
      BY <2>1, <2>2, <3>1, Zenon DEF EndOfLine, BufferInv, TerminatorInBuffer
    <3>2. CASE Collect(b)
      BY <2>1, <2>2, <3>2, Zenon DEF Collect, BufferInv, TerminatorInBuffer
    <3>3. CASE MatchPrefix(b)
      BY <3>3, Zenon DEF MatchPrefix, TerminatorInBuffer
    <3> QED
      BY <2>4, <3>1, <3>2, <3>3, Zenon DEF ProcessByte
  <2>5. CASE UNCHANGED parserVars
    BY <2>5, Zenon DEF parserVars, TerminatorInBuffer
  <2> QED
    BY <2>3, <2>4, <2>5, Zenon DEF ParserNext
<1> QED
  BY <1>1, <1>2, InvariantBuffer, PTL DEF ParserSpec

(* A byte that breaks off a match, but could itself begin another.         *)
FirstLetterBreaksOff(b) ==
  ~InCommand /\ b # Prefix[CommandPrefixIndex + 1] /\ b = Prefix[1]

(* The matcher is as far as the bytes received last make a beginning of    *)
(* the prefix, even in the middle of a line.                               *)
Tracked ==
  \A k \in 1 .. L :
    Recently(recent, k) => InCommand \/ (k # L /\ CommandPrefixIndex = k)

LEMMA FreshTracked == ASSUME recent' = NothingRecent PROVE Tracked'
<1> SUFFICES ASSUME NEW k \in 1 .. L, Recently(recent', k) PROVE FALSE
  BY Zenon DEF Tracked
<1>1. /\ 1 \in 1 .. k /\ 1 \in 1 .. L /\ RecentLength - k + 1 \in 1 .. RecentLength
  BY WindowFacts, SMT
<1>2. recent'[RecentLength - k + 1] = Prefix[1] /\ recent'[RecentLength - k + 1] = Other
  BY <1>1, Zenon DEF Recently, NothingRecent
<1>3. Prefix[1] # Other
  BY <1>1, PrefixFacts, HistoryAssumption, Zenon DEF L
<1> QED
  BY <1>2, <1>3

LEMMA ByteTracked ==
  ASSUME \A i \in 2 .. Len(Prefix) : Prefix[i] # Prefix[1],
         MatcherInv, RecentInv, Tracked, NEW b \in Bytes, ProcessByte(b),
         ~FirstLetterBreaksOff(b)
  PROVE  Tracked'
<1> SUFFICES ASSUME NEW k \in 1 .. L, Recently(recent', k)
             PROVE  InCommand' \/ (k # L /\ CommandPrefixIndex' = k)
  BY Zenon DEF Tracked
<1>1. recent' = Append(Tail(recent), Seen(b)) /\ recent \in [Window -> Recents]
  BY Zenon DEF ProcessByte, RecentInv
<1>2. Recently(recent, k - 1) /\ b = Prefix[k]
  BY <1>1, RecentlyGrows, Zenon
<1>3. k \in 1 .. Len(Prefix) /\ b \notin EndBytes
  BY <1>2, PrefixFacts, Zenon DEF L
<1>4. CASE InCommand
  BY <1>3, <1>4, Zenon DEF ProcessByte, EndOfLine, Collect, MatchPrefix
<1>5. CASE ~InCommand
  <2>1. MatchPrefix(b)
    BY <1>5, Zenon DEF ProcessByte, EndOfLine, Collect
  <2>2. CommandPrefixIndex = k - 1
    <3>1. CASE k = 1
      <4>1. b = Prefix[CommandPrefixIndex + 1]
        BY <1>2, <1>5, <3>1, Zenon DEF FirstLetterBreaksOff
      <4>2. CommandPrefixIndex \in Nat /\ CommandPrefixIndex + 1 \in 1 .. Len(Prefix)
        BY PrefixFacts, SMT DEF MatcherInv
      <4>3. ~(CommandPrefixIndex + 1 \in 2 .. Len(Prefix))
        BY <1>2, <3>1, <4>1
      <4> QED
        BY <3>1, <4>2, <4>3, PrefixFacts, SMT
    <3>2. CASE k # 1
      <4>1. k - 1 \in 1 .. L
        BY <3>2, WindowFacts, SMT
      <4> QED
        BY <1>2, <1>5, <4>1, Zenon DEF Tracked
    <3> QED
      BY <3>1, <3>2
  <2>3. CommandPrefixIndex + 1 = k /\ (k >= Len(Prefix) <=> k = L)
    BY <2>2, WindowFacts, SMT DEF L
  <2>4. IF k >= Len(Prefix) THEN InCommand' = TRUE
        ELSE CommandPrefixIndex' = k
    BY <1>2, <2>1, <2>3 DEF MatchPrefix
  <2> QED
    BY <2>3, <2>4, Zenon
<1> QED
  BY <1>4, <1>5

(* If the first letter of the prefix does not come again in it, as in      *)
(* avr://, then a prefix is only missed where that letter has broken off   *)
(* an earlier match (comms.c:147-156, 97).                                 *)
THEOREM OnlyBrokenOffMissed ==
  ASSUME \A i \in 2 .. Len(Prefix) : Prefix[i] # Prefix[1]
  PROVE  ParserSpec
           /\ [][\A b \in Bytes : ProcessByte(b) => ~FirstLetterBreaksOff(b)]_parserVars
         => []NoPrefixMissed
<1>1. ParserInit => Tracked
  <2> SUFFICES ASSUME ParserInit, NEW k \in 1 .. L, Recently(recent, k) PROVE FALSE
    BY Zenon DEF Tracked
  <2>1. /\ 1 \in 1 .. k /\ 1 \in 1 .. L /\ RecentLength - k + 1 \in 1 .. RecentLength
    BY WindowFacts, SMT
  <2>2. recent[RecentLength - k + 1] = Prefix[1] /\ recent[RecentLength - k + 1] = Other
    BY <2>1, Zenon DEF Recently, ParserInit, NothingRecent
  <2>3. Prefix[1] # Other
    BY <2>1, PrefixFacts, HistoryAssumption, Zenon DEF L
  <2> QED
    BY <2>2, <2>3
<1>2. MatcherInv /\ RecentInv /\ Tracked /\ [ParserNext]_parserVars
        /\ [\A b \in Bytes : ProcessByte(b) => ~FirstLetterBreaksOff(b)]_parserVars
      => Tracked'
  <2> SUFFICES ASSUME MatcherInv, RecentInv, Tracked, [ParserNext]_parserVars,
                      [\A b \in Bytes : ProcessByte(b) => ~FirstLetterBreaksOff(b)]_parserVars
               PROVE  Tracked'
    OBVIOUS
  <2>1. CASE UNCHANGED parserVars
    <3>1. UNCHANGED <<recent, InCommand, CommandPrefixIndex>>
      BY <2>1, Zenon DEF parserVars
    <3> QED
      BY <3>1, Zenon DEF Tracked
  <2>2. CASE WatchdogFires
    BY <2>2, FreshTracked, Zenon DEF WatchdogFires
  <2>3. ASSUME NEW b \in Bytes, ProcessByte(b), ~UNCHANGED parserVars PROVE Tracked'
    <3>1. ~FirstLetterBreaksOff(b)
      BY <2>3, Zenon
    <3> QED
      BY <2>3, <3>1, ByteTracked
  <2> QED
    BY <2>1, <2>2, <2>3, Zenon DEF ParserNext
<1>3. RecentInv /\ Tracked => NoPrefixMissed
  <2> SUFFICES ASSUME RecentInv, Tracked, EndsWith(recent, Prefix) PROVE InCommand
    BY Zenon DEF NoPrefixMissed
  <2>1. recent \in Seq(Recents) /\ Len(recent) = RecentLength
    BY WindowFacts, SMT DEF RecentInv, Window
  <2>2. Recently(recent, L)
    BY <2>1, Zenon DEF EndsWith, Recently, L
  <2>3. L \in 1 .. L
    BY WindowFacts, SMT
  <2> QED
    BY <2>2, <2>3, Zenon DEF Tracked
<1> QED
  BY <1>1, <1>2, <1>3, InvariantMatcher, InvariantRecent, PTL DEF ParserSpec
=============================================================================
