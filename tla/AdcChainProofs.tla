--------------------------- MODULE AdcChainProofs ---------------------------
(***************************************************************************)
(* Proofs about AdcChain: the words on the wire decode to what was encoded,*)
(* the types are right, the store always shows the newest sample, and,     *)
(* provided the start-up really masks the interrupt, exactly one word is   *)
(* under way, the channels alternate, and the store is SampleRegister's.   *)
(***************************************************************************)
EXTENDS AdcChain, TLAPS

(* The integer ranges, by their bounds.                                    *)
LEMMA Ranges ==
  /\ \A n \in Int : n \in Words <=> 0 <= n /\ n <= MaxWord
  /\ \A n \in Int : n \in WordOrNone <=> NoWord <= n /\ n <= MaxWord
  /\ \A n \in Int : n \in Int16 <=> MinInt16 <= n /\ n <= MaxInt16
  /\ Words \subseteq Int /\ WordOrNone \subseteq Int /\ Int16 \subseteq Int
<1>1. MaxWord \in Int /\ NoWord \in Int /\ MinInt16 \in Int /\ MaxInt16 \in Int
  BY SMT DEF MaxWord, NoWord, MinInt16, MaxInt16
<1> QED
  BY <1>1, SMT DEF Words, WordOrNone, Int16

LEMMA ReadingRange ==
  ASSUME NEW ch \in Channels, NEW reading \in Readings[ch]
  PROVE  reading \in Int /\ 0 <= reading /\ reading <= 4095
<1>1. MaxReading = 4095
  BY SMT DEF MaxReading
<1>2. reading \in 0 .. MaxReading
  BY ReadingsAssumption
<1> QED
  BY <1>1, <1>2, SMT

(* The converter takes the address the control word was built with.        *)
LEMMA AddressDecodes == \A a \in Channels : AddressOf(ControlWord(a)) = a
  BY SMT DEF Channels, AddressOf, ControlWord

(* The handler finds the channel and the reading the converter sent,       *)
(* whatever the padding bit.                                               *)
LEMMA ResponseDecodes ==
  ASSUME NEW ch \in Channels, NEW reading \in Readings[ch], NEW pad \in {0, 1}
  PROVE  /\ ResponseWord(ch, reading, pad) \in Words
         /\ ChannelOf(ResponseWord(ch, reading, pad)) = ch
         /\ SampleOf(ResponseWord(ch, reading, pad)) = ToInt16(16 * reading)
<1> DEFINE w == 8192 * ch + 2 * reading + pad
<1>1. reading \in Int /\ 0 <= reading /\ reading <= 4095
  BY ReadingRange
<1>2. w \in Int /\ 0 <= w /\ w <= 65535
  BY <1>1, SMT DEF Channels
<1>3. w \in Words
  <2> HIDE DEF w
  <2>1. MaxWord = 65535
    BY SMT DEF MaxWord
  <2> QED
    BY <1>2, <2>1, Ranges, SMT
<1>4. w \div 8192 = ch
  BY <1>1, SMT DEF Channels
<1>5. w % 8192 = 2 * reading + pad
  BY <1>1, SMT DEF Channels
<1>6. w % 2 = pad
  BY <1>1, SMT DEF Channels
<1>7. 8 * ((w % 8192) - (w % 2)) = 16 * reading
  BY <1>1, <1>5, <1>6, SMT
<1>8. ChannelOf(w) = ch
  BY <1>4, SMT DEF ChannelOf, Channels
<1>9. SampleOf(w) = ToInt16(16 * reading)
  BY <1>7, SMT DEF SampleOf
<1> QED
  BY <1>3, <1>8, <1>9, SMT DEF ResponseWord

(* Any received word decodes to a channel and to a 16-bit sample.          *)
LEMMA AnyWordDecodes ==
  ASSUME NEW w \in Words
  PROVE  ChannelOf(w) \in Channels /\ SampleOf(w) \in Int16
<1>1. w \in Int /\ 0 <= w
  BY Ranges, SMT
<1>2. ChannelOf(w) \in Channels
  BY <1>1, SMT DEF ChannelOf, Channels
<1> DEFINE u == 8 * ((w % 8192) - (w % 2))
<1>3. u \in Int /\ 0 <= u /\ u <= 65535
  BY <1>1, SMT
<1>4. ToInt16(u) \in Int /\ -32768 <= ToInt16(u) /\ ToInt16(u) <= 32767
  <2> HIDE DEF u
  <2> QED
    BY <1>3, SMT DEF ToInt16
<1>5. MinInt16 = -32768 /\ MaxInt16 = 32767
  BY SMT DEF MinInt16, MaxInt16
<1>6. ToInt16(u) \in Int16
  BY <1>4, <1>5, Ranges, SMT
<1> QED
  BY <1>2, <1>6 DEF SampleOf

(* The channel asked for next is a streamed one, and not the one at hand.  *)
LEMMA NextChannelStreamed ==
  \A ch \in Channels : NextChannel(ch) \in {0, 1} /\ NextChannel(ch) # ch
  BY SMT DEF Channels, NextChannel

LEMMA ControlWordIsWord == \A ch \in Channels : ControlWord(ch) \in Words
<1> SUFFICES ASSUME NEW ch \in Channels PROVE ControlWord(ch) \in Words
  OBVIOUS
<1>1. ControlWord(ch) \in Int /\ 0 <= ControlWord(ch) /\ ControlWord(ch) <= 65535
  BY SMT DEF Channels, ControlWord
<1>2. MaxWord = 65535
  BY SMT DEF MaxWord
<1> QED
  BY <1>1, <1>2, Ranges, SMT

(* What the shifter holds addresses a channel.                             *)
LEMMA AddressRange == \A w \in Words : AddressOf(w) \in Channels
<1> SUFFICES ASSUME NEW w \in Words PROVE AddressOf(w) \in Channels
  OBVIOUS
<1>1. w \in Int /\ 0 <= w
  BY Ranges, SMT
<1> QED
  BY <1>1, SMT DEF AddressOf, Channels

(* Registers: a word is a word or none, and one that is not none is a word.*)
LEMMA WordOrNoneRange ==
  /\ Words \subseteq WordOrNone
  /\ NoWord \in WordOrNone
  /\ \A w \in WordOrNone : w # NoWord => w \in Words
  /\ PowerUpWord \in Words
  /\ 0 \in Words
  /\ NoWord \notin Words
<1>1. NoWord = -1 /\ MaxWord \in Int /\ 0 <= MaxWord /\ PowerUpWord = MaxWord
  BY SMT DEF NoWord, MaxWord, PowerUpWord
<1> QED
  BY <1>1, Ranges, SMT

LEMMA SampleRange == NoSample \in Int16
<1>1. NoSample = -1 /\ MinInt16 = -32768 /\ MaxInt16 = 32767
  BY SMT DEF NoSample, MinInt16, MaxInt16
<1> QED
  BY <1>1, Ranges, SMT

-----------------------------------------------------------------------------
(* Type correctness needs to know that a dummy frame is still owed while   *)
(* ADC_Init is exchanging one.                                             *)
Owing == initPc \in {"enable", "mask", "ready", "put", "poll", "get"} => dummiesLeft \in {1, 2}
TypeInv == TypeOK /\ Owing

LEMMA TypeInit == AdcInit => TypeInv
<1>1. NoWord \in Int /\ NoWord <= 7
  BY SMT DEF NoWord
<1>2. ControlWord(0) \in Words
  BY ControlWordIsWord DEF Channels
<1>3. AdcInit => served \in (NoWord .. 7) \X (NoWord .. 7)
  BY <1>1, SMT DEF AdcInit
<1>4. AdcInit => /\ latestSamples1 \in [Channels -> Int16]
                 /\ latestSamples2 \in [Channels -> Int16]
                 /\ latestSelector \in [Channels -> {0, 1}]
                 /\ newest \in [Channels -> Int16]
  BY SampleRange, SMT DEF AdcInit
<1>5. AdcInit => /\ tdr \in WordOrNone /\ shifter \in WordOrNone /\ rdr \in Words
                 /\ adcAddr \in Channels /\ currWriteBuf \in Words
  BY <1>2, WordOrNoneRange, SMT DEF AdcInit
<1>6. AdcInit => /\ dummiesLeft \in 0 .. 2 /\ Owing
                 /\ initPc \in {"enable", "mask", "ready", "put", "poll", "get", "unmask",
                               "await", "start", "done"}
  BY SMT DEF AdcInit, Owing
<1>7. AdcInit => ier \in BOOLEAN /\ rdrf \in BOOLEAN /\ overrun \in BOOLEAN
  BY Zenon DEF AdcInit
<1> QED
  BY <1>3, <1>4, <1>5, <1>6, <1>7, Zenon DEF TypeInv, TypeOK

LEMMA TypeStep == TypeInv /\ [AdcNext]_adcVars => TypeInv'
<1> SUFFICES ASSUME TypeInv, [AdcNext]_adcVars PROVE TypeInv'
  OBVIOUS
<1> USE DEF TypeInv, TypeOK, Owing
<1>1. CASE SpiLoad
  BY <1>1, WordOrNoneRange, SMT DEF SpiLoad, storeVars
<1>2. CASE SpiShift
  <2>1. rdr' \in Words
    BY <1>2, ResponseDecodes DEF SpiShift
  <2>2. adcAddr' \in Channels
    BY <1>2, WordOrNoneRange, AddressRange DEF SpiShift
  <2>3. overrun' \in BOOLEAN /\ rdrf' \in BOOLEAN
    BY <1>2, Zenon DEF SpiShift
  <2>4. shifter' \in WordOrNone
    BY <1>2, WordOrNoneRange DEF SpiShift
  <2>5. UNCHANGED <<initPc, dummiesLeft, ier, tdr, currWriteBuf, storeVars, served>>
    BY <1>2 DEF SpiShift
  <2> QED
    BY <2>1, <2>2, <2>3, <2>4, <2>5, SMT DEF storeVars
<1>3. CASE InitEnable
  BY <1>3, SMT DEF InitEnable, storeVars
<1>4. CASE InitMask
  <2>1. ier' \in BOOLEAN
    BY <1>4, Zenon DEF InitMask
  <2>2. initPc' = "ready" /\ initPc = "mask"
        /\ UNCHANGED <<dummiesLeft, tdr, shifter, rdr, rdrf, overrun, adcAddr,
                       currWriteBuf, storeVars, served>>
    BY <1>4 DEF InitMask
  <2> QED
    BY <2>1, <2>2, SMT DEF storeVars
<1>5. CASE InitPut
  BY <1>5, WordOrNoneRange, SMT DEF InitPut, storeVars
<1>6. CASE InitPoll
  BY <1>6, SMT DEF InitPoll, spiVars, storeVars
<1>7. CASE InitGet
  <2>1. dummiesLeft' \in 0 .. 2 /\ Owing' /\ initPc' \in {"unmask", "ready"}
    BY <1>7, SMT DEF InitGet
  <2>2. rdrf' \in BOOLEAN /\ UNCHANGED <<ier, tdr, shifter, rdr, overrun, adcAddr,
                                        currWriteBuf, storeVars, served>>
    BY <1>7, Zenon DEF InitGet
  <2> QED
    BY <2>1, <2>2, SMT DEF storeVars
<1>8. CASE InitUnmask
  BY <1>8, SMT DEF InitUnmask, storeVars
<1>9. CASE InitStart
  BY <1>9, WordOrNoneRange, SMT DEF InitStart, storeVars
<1>10. CASE SpiIrq
  <2> DEFINE ch == ChannelOf(rdr)
             sample == SampleOf(rdr)
  <2>1. ch \in Channels /\ sample \in Int16
    BY AnyWordDecodes
  <2>2. StoreSample(ch, sample) /\ WriteNext(ch) /\ served' = <<ch, served[1]>>
    BY <1>10 DEF SpiIrq
  <2> HIDE DEF ch, sample
  <2>3. /\ latestSamples1' \in [Channels -> Int16]
        /\ latestSamples2' \in [Channels -> Int16]
        /\ latestSelector' \in [Channels -> {0, 1}]
        /\ newest' \in [Channels -> Int16]
    BY <2>1, <2>2, SMT DEF StoreSample
  <2>4. currWriteBuf' \in Words /\ tdr' \in WordOrNone
    <3>1. NextChannel(ch) \in Channels
      BY <2>1, NextChannelStreamed, SMT DEF Channels
    <3> QED
      BY <2>2, <3>1, ControlWordIsWord, WordOrNoneRange DEF WriteNext
  <2>5. served' \in (NoWord .. 7) \X (NoWord .. 7)
    <3>1. NoWord = -1
      BY SMT DEF NoWord
    <3>2. ch \in NoWord .. 7
      BY <2>1, <3>1, SMT DEF Channels
    <3> QED
      BY <2>2, <3>2, SMT
  <2>6. rdrf' \in BOOLEAN /\ UNCHANGED <<initPc, dummiesLeft, ier, shifter, rdr, overrun, adcAddr>>
    BY <1>10, Zenon DEF SpiIrq
  <2> QED
    BY <2>3, <2>4, <2>5, <2>6, SMT
<1>11. CASE UNCHANGED adcVars
  BY <1>11, SMT DEF adcVars, spiVars, storeVars
<1>12. CASE InitReady
  BY <1>12, SMT DEF InitReady, spiVars, storeVars
<1> QED
  BY <1>1, <1>2, <1>3, <1>4, <1>5, <1>6, <1>7, <1>8, <1>9, <1>10, <1>11, <1>12
     DEF AdcNext, AdcHardware, ADC_Init

(* Every variable of the acquisition keeps its type, whatever the readings *)
(* and whether or not the interrupt can be masked.                         *)
THEOREM TypeCorrect == AdcSpec => []TypeOK
<1>1. TypeInv => TypeOK
  BY DEF TypeInv
<1> QED
  BY TypeInit, TypeStep, <1>1, PTL DEF AdcSpec

-----------------------------------------------------------------------------
(* The store is only written by the handler, one channel at a time.        *)
LEMMA StoreWriters ==
  [AdcNext]_adcVars => SpiIrq \/ UNCHANGED storeVars
<1> SUFFICES ASSUME [AdcNext]_adcVars PROVE SpiIrq \/ UNCHANGED storeVars
  OBVIOUS
<1>1. CASE AdcHardware
  BY <1>1 DEF AdcHardware, SpiLoad, SpiShift
<1>2. CASE ADC_Init
  BY <1>2 DEF ADC_Init, InitEnable, InitMask, InitReady, InitPut, InitPoll, InitGet,
              InitUnmask, InitStart
<1>3. CASE UNCHANGED adcVars
  BY <1>3 DEF adcVars
<1> QED
  BY <1>1, <1>2, <1>3 DEF AdcNext

LEMMA StoreStep ==
  TypeInv /\ StoreHoldsNewest /\ [AdcNext]_adcVars => StoreHoldsNewest'
<1> SUFFICES ASSUME TypeInv, StoreHoldsNewest, [AdcNext]_adcVars,
                    NEW c \in Channels
             PROVE  Latest(c)' = newest'[c]
  BY DEF StoreHoldsNewest
<1>1. CASE UNCHANGED storeVars
  BY <1>1 DEF storeVars, StoreHoldsNewest, Latest
<1>2. CASE SpiIrq
  <2> DEFINE ch == ChannelOf(rdr)
             sample == SampleOf(rdr)
  <2>1. ch \in Channels /\ sample \in Int16
    BY AnyWordDecodes DEF TypeInv, TypeOK
  <2>2. StoreSample(ch, sample)
    BY <1>2 DEF SpiIrq
  <2> HIDE DEF ch, sample
  <2>3. CASE c = ch
    BY <2>1, <2>2, <2>3, SMT DEF StoreSample, Latest, TypeInv, TypeOK
  <2>4. CASE c # ch
    <3>1. newest'[c] = newest[c] /\ latestSelector'[c] = latestSelector[c]
      BY <2>1, <2>2, <2>4, SMT DEF StoreSample, TypeInv, TypeOK
    <3>2. latestSamples1'[c] = latestSamples1[c] /\ latestSamples2'[c] = latestSamples2[c]
      BY <2>1, <2>2, <2>4, SMT DEF StoreSample, TypeInv, TypeOK
    <3> QED
      BY <3>1, <3>2 DEF StoreHoldsNewest, Latest
  <2> QED
    BY <2>3, <2>4
<1> QED
  BY <1>1, <1>2, StoreWriters

(* The buffer the selector points at holds the sample handled last, for    *)
(* every channel, any readings, and whether or not the handler runs during *)
(* the start-up.                                                           *)
THEOREM NewestStored == AdcSpec => []StoreHoldsNewest
<1>1. AdcInit => StoreHoldsNewest
  BY DEF AdcInit, StoreHoldsNewest, Latest
<1> QED
  BY <1>1, TypeInit, TypeStep, StoreStep, PTL DEF AdcSpec

-----------------------------------------------------------------------------
(* One word at a time.  The invariant says what is under way in each phase *)
(* of the start-up; it needs the interrupt to be masked while ADC_Init     *)
(* polls.                                                                  *)
Quiet == tdr = NoWord /\ shifter = NoWord /\ rdrf = FALSE
Transmitting == tdr # NoWord /\ shifter = NoWord /\ rdrf = FALSE
Shifting == tdr = NoWord /\ shifter # NoWord /\ rdrf = FALSE
Received == tdr = NoWord /\ shifter = NoWord /\ rdrf = TRUE
OneWord == Transmitting \/ Shifting \/ Received

ChainInv ==
  /\ overrun = FALSE
  /\ ier = TRUE => initPc \in {"mask", "await", "start", "done"}
  /\ initPc \in {"enable", "mask", "ready", "put", "unmask", "await", "start"} => Quiet
  /\ initPc \in {"poll", "done"} => OneWord
  /\ initPc = "get" => Received

LEMMA ChainStep ==
  ASSUME IerWriteZeroMasks = TRUE
  PROVE  TypeInv /\ ChainInv /\ [AdcNext]_adcVars => ChainInv'
<1> SUFFICES ASSUME TypeInv, ChainInv, [AdcNext]_adcVars PROVE ChainInv'
  OBVIOUS
<1> USE DEF ChainInv, Quiet, Transmitting, Shifting, Received, OneWord
<1>0. \A w \in Words : w # NoWord
  BY WordOrNoneRange
<1>1. CASE SpiLoad
  BY <1>1 DEF SpiLoad, TypeInv, TypeOK
<1>2. CASE SpiShift
  BY <1>2 DEF SpiShift, TypeInv, TypeOK
<1>3. CASE InitEnable
  BY <1>3 DEF InitEnable
<1>4. CASE InitMask
  BY <1>4 DEF InitMask
<1>5. CASE InitPut
  BY <1>0, <1>5, WordOrNoneRange DEF InitPut
<1>6. CASE InitPoll
  BY <1>6 DEF InitPoll, spiVars
<1>7. CASE InitGet
  BY <1>7 DEF InitGet
<1>8. CASE InitUnmask
  BY <1>8 DEF InitUnmask
<1>9. CASE InitStart
  BY <1>0, <1>9 DEF InitStart, TypeInv, TypeOK
<1>10. CASE SpiIrq
  <2> DEFINE next == NextChannel(ChannelOf(rdr))
  <2>1. currWriteBuf' = ControlWord(next) /\ tdr' = currWriteBuf'
    BY <1>10 DEF SpiIrq, WriteNext
  <2>2. next \in Channels
    BY AnyWordDecodes, NextChannelStreamed, SMT DEF TypeInv, TypeOK, Channels
  <2>3. tdr' # NoWord
    BY <1>0, <2>1, <2>2, ControlWordIsWord
  <2> QED
    BY <1>10, <2>3 DEF SpiIrq
<1>11. CASE UNCHANGED adcVars
  BY <1>11 DEF adcVars, spiVars
<1>12. CASE InitReady
  BY <1>12 DEF InitReady, spiVars
<1> QED
  BY <1>1, <1>2, <1>3, <1>4, <1>5, <1>6, <1>7, <1>8, <1>9, <1>10, <1>11, <1>12
     DEF AdcNext, AdcHardware, ADC_Init

LEMMA ChainInit == AdcInit => ChainInv
  BY DEF AdcInit, ChainInv, Quiet

LEMMA ChainAlways ==
  ASSUME IerWriteZeroMasks = TRUE
  PROVE  AdcSpec => [](TypeInv /\ ChainInv)
  BY TypeInit, TypeStep, ChainInit, ChainStep, PTL DEF AdcSpec

(* Once started, exactly one word is under way, for ever: the chain of     *)
(* conversions neither dies out nor doubles, if the start-up masks the     *)
(* interrupt.                                                              *)
THEOREM OneWordUnderWay ==
  ASSUME IerWriteZeroMasks = TRUE
  PROVE  AdcSpec => []SingleWord
<1>1. TypeInv /\ ChainInv => SingleWord
  BY SMT DEF ChainInv, OneWord, Transmitting, Shifting, Received,
             SingleWord, Started, WordsUnderWay
<1> QED
  BY <1>1, ChainAlways, PTL

(* No received frame is ever overwritten before the handler reads it.      *)
THEOREM NothingOverrun ==
  ASSUME IerWriteZeroMasks = TRUE
  PROVE  AdcSpec => []NoOverrun
<1>1. TypeInv /\ ChainInv => NoOverrun
  BY DEF ChainInv, NoOverrun
<1> QED
  BY <1>1, ChainAlways, PTL

-----------------------------------------------------------------------------
(* The pipeline: the word under way asks for the channel after the one     *)
(* handled last, and the converter is set to the channel after the one     *)
(* handled before that.                                                    *)
Asks(w, s) == s \in Channels => AddressOf(w) = NextChannel(s)
IsSet(ch, s) == s \in Channels => ch = NextChannel(s)

PipelineInv ==
  /\ initPc # "done" => served = <<NoWord, NoWord>>
  /\ served[1] \in Channels => currWriteBuf = ControlWord(NextChannel(served[1]))
  /\ initPc = "done" =>
       /\ Transmitting => Asks(tdr, served[1]) /\ IsSet(adcAddr, served[2])
       /\ Shifting => Asks(shifter, served[1]) /\ IsSet(adcAddr, served[2])
       /\ Received => IsSet(adcAddr, served[1]) /\ IsSet(ChannelOf(rdr), served[2])

LEMMA PipelineInit == AdcInit => PipelineInv
<1>1. NoWord \notin Channels
  BY SMT DEF NoWord, Channels
<1> QED
  BY <1>1 DEF AdcInit, PipelineInv

LEMMA PipelineStep ==
  TypeInv /\ ChainInv /\ PipelineInv /\ [AdcNext]_adcVars => PipelineInv'
<1> SUFFICES ASSUME TypeInv, ChainInv, PipelineInv, [AdcNext]_adcVars
             PROVE  PipelineInv'
  OBVIOUS
<1> USE DEF PipelineInv, Transmitting, Shifting, Received
<1>0. NoWord \notin Channels
  BY SMT DEF NoWord, Channels
<1>1. CASE SpiLoad
  BY <1>1 DEF SpiLoad, Asks, IsSet
<1>2. CASE SpiShift
  <2>1. ChannelOf(rdr') = adcAddr
    BY <1>2, ResponseDecodes DEF SpiShift, TypeInv, TypeOK
  <2>2. adcAddr' = AddressOf(shifter) /\ shifter # NoWord /\ rdrf' = TRUE
        /\ UNCHANGED <<initPc, currWriteBuf, served>>
    BY <1>2 DEF SpiShift
  <2>3. initPc = "done" => Shifting
    BY <2>2 DEF ChainInv, OneWord
  <2> QED
    BY <2>1, <2>2, <2>3 DEF Asks, IsSet
<1>3. CASE InitEnable \/ InitMask \/ InitReady \/ InitPut \/ InitPoll \/ InitGet \/ InitUnmask
  BY <1>3 DEF InitEnable, InitMask, InitReady, InitPut, InitPoll, InitGet, InitUnmask, spiVars
<1>4. CASE InitStart
  BY <1>0, <1>4 DEF InitStart, Asks, IsSet
<1>5. CASE SpiIrq
  <2> DEFINE ch == ChannelOf(rdr)
             next == NextChannel(ch)
  <2>1. ch \in Channels /\ next \in Channels
    BY AnyWordDecodes, NextChannelStreamed, SMT DEF TypeInv, TypeOK, Channels
  <2>2. ier = TRUE /\ rdrf = TRUE /\ initPc' = initPc /\ adcAddr' = adcAddr /\ rdrf' = FALSE
        /\ shifter' = shifter
    BY <1>5, Zenon DEF SpiIrq, TypeInv, TypeOK
  <2>3. initPc = "done" /\ Received
    BY <2>2 DEF ChainInv, Quiet, OneWord
  <2>4. served' = <<ch, served[1]>> /\ currWriteBuf' = ControlWord(next) /\ tdr' = ControlWord(next)
    BY <1>5, <2>3 DEF SpiIrq, WriteNext
  <2>5. AddressOf(ControlWord(next)) = next
    BY <2>1, AddressDecodes
  <2>6. IsSet(adcAddr, served[1])
    BY <2>3
  <2> HIDE DEF ch, next
  <2>7. served'[1] = ch /\ served'[2] = served[1]
    BY <2>4
  <2>8. Asks(tdr', served'[1]) /\ IsSet(adcAddr', served'[2])
    BY <2>2, <2>4, <2>5, <2>6, <2>7 DEF Asks, next
  <2>9. currWriteBuf' = ControlWord(NextChannel(served'[1]))
    BY <2>4, <2>7 DEF next
  <2> QED
    BY <2>2, <2>3, <2>8, <2>9
<1>6. CASE UNCHANGED adcVars
  BY <1>6 DEF adcVars, spiVars, Asks, IsSet
<1> QED
  BY <1>1, <1>2, <1>3, <1>4, <1>5, <1>6 DEF AdcNext, AdcHardware, ADC_Init

LEMMA ChannelAlternates ==
  TypeInv /\ ChainInv /\ PipelineInv /\ SpiIrq => ChannelOf(rdr) # served[2]
<1> SUFFICES ASSUME TypeInv, ChainInv, PipelineInv, SpiIrq
             PROVE  ChannelOf(rdr) # served[2]
  OBVIOUS
<1>1. ier = TRUE /\ rdrf = TRUE
  BY Zenon DEF SpiIrq, TypeInv, TypeOK
<1>2. initPc = "done" /\ Received
  BY <1>1 DEF ChainInv, Quiet, OneWord, Transmitting, Shifting
<1>3. IsSet(ChannelOf(rdr), served[2])
  BY <1>2 DEF PipelineInv
<1>4. ChannelOf(rdr) \in Channels
  BY AnyWordDecodes DEF TypeInv, TypeOK
<1> QED
  BY <1>3, <1>4, NextChannelStreamed DEF IsSet

(* The channel of a frame is never the channel of the frame two before it: *)
(* the frames form two interleaved alternations.                           *)
THEOREM Alternation ==
  ASSUME IerWriteZeroMasks = TRUE
  PROVE  AdcSpec => TwoFrameAlternation
<1>1. TypeInv /\ ChainInv /\ PipelineInv /\ [AdcNext]_adcVars
        => [SpiIrq => ChannelOf(rdr) # served[2]]_adcVars
  BY ChannelAlternates
<1> QED
  BY <1>1, TypeInit, TypeStep, ChainInit, ChainStep, PipelineInit, PipelineStep, PTL
     DEF AdcSpec, TwoFrameAlternation

-----------------------------------------------------------------------------
(* The register it implements.  A word that waits for the handler is a     *)
(* frame the converter has sent.                                           *)
Genuine(w) ==
  \E ch \in Channels : \E reading \in Readings[ch], pad \in {0, 1} :
    w = ResponseWord(ch, reading, pad)

ReceivedInv == rdrf = TRUE => Genuine(rdr)

LEMMA ReceivedInit == AdcInit => ReceivedInv
  BY DEF AdcInit, ReceivedInv

LEMMA ReceivedStep == TypeInv /\ ReceivedInv /\ [AdcNext]_adcVars => ReceivedInv'
<1> SUFFICES ASSUME TypeInv, ReceivedInv, [AdcNext]_adcVars PROVE ReceivedInv'
  OBVIOUS
<1>1. CASE SpiShift
  <2>1. Genuine(rdr')
    BY <1>1 DEF SpiShift, Genuine, TypeInv, TypeOK
  <2> QED
    BY <2>1 DEF ReceivedInv
<1>2. CASE SpiIrq
  <2>1. rdrf' = FALSE
    BY <1>2, Zenon DEF SpiIrq
  <2> QED
    BY <2>1 DEF ReceivedInv
<1>3. CASE SpiLoad \/ ADC_Init \/ UNCHANGED adcVars
  <2>1. rdrf' = TRUE => rdrf = TRUE /\ rdr' = rdr
    BY <1>3, Zenon DEF SpiLoad, ADC_Init, InitEnable, InitMask, InitReady, InitPut, InitPoll,
                InitGet, InitUnmask, InitStart, adcVars, spiVars
  <2> QED
    BY <2>1 DEF ReceivedInv, Genuine
<1> QED
  BY <1>1, <1>2, <1>3 DEF AdcNext, AdcHardware

Measured(ch) == {SampleOf(ResponseWord(ch, r, 0)) : r \in Readings[ch]}

LEMMA GenuineMeasured ==
  ASSUME NEW w, Genuine(w)
  PROVE  ChannelOf(w) \in Channels /\ SampleOf(w) \in Measured(ChannelOf(w))
<1>1. PICK ch \in Channels :
        \E reading \in Readings[ch], pad \in {0, 1} : w = ResponseWord(ch, reading, pad)
  BY DEF Genuine
<1>2. PICK reading \in Readings[ch], pad \in {0, 1} : w = ResponseWord(ch, reading, pad)
  BY <1>1
<1>3. ChannelOf(w) = ch /\ SampleOf(w) = ToInt16(16 * reading)
  BY <1>2, ResponseDecodes
<1>4. SampleOf(ResponseWord(ch, reading, 0)) = ToInt16(16 * reading)
  BY ResponseDecodes
<1> QED
  BY <1>3, <1>4 DEF Measured

LEMMA RegisterStep ==
  ASSUME TypeInv, ChainInv, PipelineInv, ReceivedInv, StoreHoldsNewest, StoreHoldsNewest',
         [AdcNext]_adcVars
  PROVE  [Register!RegisterNext]_Register!registerVars
<1> DEFINE shown == [c \in Channels |-> Latest(c)]
<1>1. shown = [c \in Channels |-> newest[c]] /\ shown' = [c \in Channels |-> newest'[c]]
  BY Zenon DEF StoreHoldsNewest
<1>2. CASE SpiIrq
  <2> DEFINE ch == ChannelOf(rdr)
             sample == SampleOf(rdr)
  <2>1. rdrf = TRUE /\ newest' = [newest EXCEPT ![ch] = sample] /\ served' = <<ch, served[1]>>
    BY <1>2, Zenon DEF SpiIrq, StoreSample, TypeInv, TypeOK
  <2>2. ch \in Channels /\ sample \in Measured(ch)
    BY <2>1, GenuineMeasured DEF ReceivedInv
  <2>3. ch # served[2]
    BY <1>2, ChannelAlternates
  <2> HIDE DEF ch, sample
  <2>4. newest \in [Channels -> Int16]
    BY DEF TypeInv, TypeOK
  <2>5. shown' = [shown EXCEPT ![ch] = sample]
    <3>1. \A c \in Channels : newest'[c] = IF c = ch THEN sample ELSE newest[c]
      BY <2>1, <2>2, <2>4
    <3>2. shown' = [c \in Channels |-> IF c = ch THEN sample ELSE newest[c]]
      BY <1>1, <3>1, Zenon
    <3>3. [shown EXCEPT ![ch] = sample]
            = [c \in Channels |-> IF c = ch THEN sample ELSE newest[c]]
      BY <1>1, <2>2
    <3> QED
      BY <3>2, <3>3, Zenon
  <2>6. sample \in [c \in Channels |-> Measured(c)][ch]
    BY <2>2, Zenon
  <2>7. Register!Convert(ch, sample)
    BY <2>1, <2>3, <2>5, Zenon DEF Register!Convert
  <2> QED
    BY <2>2, <2>6, <2>7, Zenon DEF Register!RegisterNext, Measured
<1>3. CASE UNCHANGED <<storeVars, served>>
  <2>1. UNCHANGED newest /\ UNCHANGED served
    BY <1>3, Zenon DEF storeVars
  <2>2. shown' = shown
    BY <1>1, <2>1, Zenon
  <2> QED
    BY <2>1, <2>2, Zenon DEF Register!registerVars
<1>4. SpiIrq \/ UNCHANGED <<storeVars, served>>
  <2>1. CASE AdcHardware
    BY <2>1 DEF AdcHardware, SpiLoad, SpiShift
  <2>2. CASE ADC_Init
    BY <2>2 DEF ADC_Init, InitEnable, InitMask, InitReady, InitPut, InitPoll, InitGet,
                InitUnmask, InitStart
  <2> QED
    BY <2>1, <2>2 DEF AdcNext, adcVars
<1> QED
  BY <1>2, <1>3, <1>4

LEMMA RegisterStarts == AdcInit => Register!RegisterInit
<1> SUFFICES ASSUME AdcInit PROVE Register!RegisterInit
  OBVIOUS
<1>1. [c \in Channels |-> Latest(c)] = [c \in Channels |-> NoSample]
  BY DEF AdcInit, Latest
<1>2. served = <<-1, -1>>
  BY SMT DEF AdcInit, NoWord
<1> QED
  BY <1>1, <1>2, Zenon DEF Register!RegisterInit

(* If the start-up masks the interrupt, the store of ADC.c is one register *)
(* per input, written by each conversion in one step (ADC.c:58-67,         *)
(* sampler.c:78-82), and no input is converted again in the next frame but *)
(* one.                                                                    *)
THEOREM ImplementsRegister ==
  ASSUME IerWriteZeroMasks = TRUE
  PROVE  AdcSpec => StoreIsRegister
<1>1. AdcInit => StoreHoldsNewest
  BY DEF AdcInit, StoreHoldsNewest, Latest
<1>2. TypeInv /\ ChainInv /\ PipelineInv /\ ReceivedInv /\ StoreHoldsNewest /\ StoreHoldsNewest'
        /\ [AdcNext]_adcVars => [Register!RegisterNext]_Register!registerVars
  BY RegisterStep
<1> QED
  BY <1>1, <1>2, TypeInit, TypeStep, StoreStep, ChainInit, ChainStep, PipelineInit, PipelineStep,
     ReceivedInit, ReceivedStep, RegisterStarts, PTL
     DEF AdcSpec, StoreIsRegister, Register!RegisterSpec
=============================================================================
