------------------------------ MODULE AdcChain ------------------------------
(***************************************************************************)
(* The acquisition half of the sound board: the AD7928 converter behind an *)
(* SPI peripheral, the polled start-up sequence ADC_Init, and              *)
(* spi_int_handler, which stores each conversion in a two-buffer store and *)
(* then writes the control word that asks for another one.  Nothing else   *)
(* ever starts a transfer, so the conversions form a chain: a frame that   *)
(* is not answered by a write ends the sampling for good.                  *)
(*                                                                         *)
(* Main code and interrupt handlers share the registers; the shift         *)
(* register, the converter and the CPU run concurrently.                   *)
(***************************************************************************)
EXTENDS Integers

CONSTANTS
  Readings,           \* Readings[ch]: the 12-bit results input ch can convert to
  IerWriteZeroMasks   \* does writing 0 to IER.rdrf mask the interrupt (ADC.c:276)?

Channels == 0 .. 7    \* NUM_ADC_CHANNELS: three address bits

(* The ranges of a 12-bit reading, a 16-bit word and an int16_t.           *)
MaxReading == 4095
MaxWord == 65535
MinInt16 == -32768
MaxInt16 == 32767

ASSUME ReadingsAssumption ==
  /\ Readings \in [Channels -> SUBSET (0 .. MaxReading)]
  /\ \A ch \in Channels : Readings[ch] # {}

ASSUME IerAssumption == IerWriteZeroMasks \in BOOLEAN

-----------------------------------------------------------------------------
(* Words on the wire.                                                      *)

(* ADC_CR_SHIFT(ADC_CR_ADDR(addr)): WRITE, normal power and REFIN range    *)
(* around the three address bits, shifted over the four ignored bits.      *)
ControlWord(addr) == 16 * (2048 + 48 + 64 * (addr % 8) + 2)

PowerUpWord == MaxWord

(* The converter: address bits of a control word, and the frame it answers *)
(* with, as spi_int_handler takes it apart (three address bits, twelve     *)
(* data bits, one bit of padding).                                         *)
AddressOf(word) == (word \div 1024) % 8
ResponseWord(ch, reading, pad) == 8192 * ch + 2 * reading + pad

(* Faulty variants such as the next one, named after what they get wrong,  *)
(* each stand for a plausible slip; a property that still held with the    *)
(* variant in place would say nothing about the code.                      *)
ToInt16_Unsigned(u) == u
ToInt16(u) == IF u >= 32768 THEN u - 65536 ELSE u

(* (word >> 13) & 0x7  and  (int16_t)((word & 0x1FFE) << 3)                *)
ChannelOf(word) == (word \div 8192) % 8
SampleOf(word) == ToInt16(8 * ((word % 8192) - (word % 2)))

NextChannel_Precedence(ch) == (ch % 2) + 1
NextChannel_Same(ch) == ch % 2
NextChannel(ch) == (ch + 1) % 2

(* A register or latch that holds nothing.  Words are naturals.            *)
NoWord == -1
Words == 0 .. MaxWord
WordOrNone == NoWord .. MaxWord

(* What a store entry holds before its channel is converted: the -1 of the *)
(* initialisers.                                                           *)
NoSample == -1
Int16 == MinInt16 .. MaxInt16

-----------------------------------------------------------------------------
VARIABLES
  initPc,          \* where ADC_Init is
  dummiesLeft,     \* power-up frames ADC_Init still has to exchange
  ier,             \* is the receive interrupt enabled?
  tdr,             \* transmit data register
  shifter,         \* word being shifted out
  rdr,             \* receive data register
  rdrf,            \* is the receive data register full?
  overrun,         \* a received word was overwritten before it was read
  adcAddr,         \* the input the converter answers for in the next frame
  currWriteBuf,    \* the control word written last
  latestSamples1,  \* the two sample buffers
  latestSamples2,
  latestSelector,  \* per channel: 0 if latestSamples1 holds the newest sample
  newest,          \* history: the sample handled last, per channel
  served           \* history: channels of the last two frames handled

spiVars == <<ier, tdr, shifter, rdr, rdrf, overrun, adcAddr>>
storeVars == <<latestSamples1, latestSamples2, latestSelector, newest>>
adcVars == <<initPc, dummiesLeft, spiVars, currWriteBuf, storeVars, served>>

TypeOK ==
  /\ initPc \in {"enable", "mask", "ready", "put", "poll", "get", "unmask",
                "await", "start", "done"}
  /\ dummiesLeft \in 0 .. 2
  /\ ier \in BOOLEAN
  /\ tdr \in WordOrNone
  /\ shifter \in WordOrNone
  /\ rdr \in Words
  /\ rdrf \in BOOLEAN
  /\ overrun \in BOOLEAN
  /\ adcAddr \in Channels
  /\ currWriteBuf \in Words
  /\ latestSamples1 \in [Channels -> Int16]
  /\ latestSamples2 \in [Channels -> Int16]
  /\ latestSelector \in [Channels -> {0, 1}]
  /\ newest \in [Channels -> Int16]
  /\ served \in (NoWord .. 7) \X (NoWord .. 7)

AdcInit ==
  /\ initPc = "enable"
  /\ dummiesLeft = 2
  /\ ier = FALSE
  /\ tdr = NoWord
  /\ shifter = NoWord
  /\ rdr = 0
  /\ rdrf = FALSE
  /\ overrun = FALSE
  /\ adcAddr \in Channels
  /\ currWriteBuf = ControlWord(0)
  /\ latestSamples1 = [ch \in Channels |-> NoSample]
  /\ latestSamples2 = [ch \in Channels |-> NoSample]
  /\ latestSelector = [ch \in Channels |-> 0]
  /\ newest = [ch \in Channels |-> NoSample]
  /\ served = <<NoWord, NoWord>>

-----------------------------------------------------------------------------
(* The SPI peripheral and the converter.                                   *)

SpiLoad ==
  /\ tdr # NoWord
  /\ shifter = NoWord
  /\ shifter' = tdr
  /\ tdr' = NoWord
  /\ UNCHANGED <<initPc, dummiesLeft, ier, rdr, rdrf, overrun, adcAddr,
                 currWriteBuf, storeVars, served>>

(* One frame: the converter answers for the input addressed by the frame   *)
(* before, and takes its next address from the word it receives.           *)
SpiShift ==
  /\ shifter # NoWord
  /\ \E reading \in Readings[adcAddr], pad \in {0, 1} :
       rdr' = ResponseWord(adcAddr, reading, pad)
  /\ rdrf' = TRUE
  /\ overrun' = (overrun \/ rdrf)
  /\ adcAddr' = AddressOf(shifter)
  /\ shifter' = NoWord
  /\ UNCHANGED <<initPc, dummiesLeft, ier, tdr, currWriteBuf, storeVars, served>>

-----------------------------------------------------------------------------
(* ADC_Init.  The dummy frames are exchanged by polling; ADC.c:276 means   *)
(* to keep the interrupt handler out of them.                              *)

InitEnable ==
  /\ initPc = "enable"
  /\ ier' = TRUE
  /\ initPc' = "mask"
  /\ UNCHANGED <<dummiesLeft, tdr, shifter, rdr, rdrf, overrun, adcAddr,
                 currWriteBuf, storeVars, served>>

InitMask_Forgotten ==
  /\ initPc = "mask"
  /\ initPc' = "ready"
  /\ UNCHANGED <<dummiesLeft, spiVars, currWriteBuf, storeVars, served>>

InitMask ==
  /\ initPc = "mask"
  /\ ier' = (ier /\ ~IerWriteZeroMasks)
  /\ initPc' = "ready"
  /\ UNCHANGED <<dummiesLeft, tdr, shifter, rdr, rdrf, overrun, adcAddr,
                 currWriteBuf, storeVars, served>>

(* The two waits for spi_is_tx_ready, before a dummy frame and before the  *)
(* first control word.  Nothing keeps the register free until the put.     *)
InitReady ==
  /\ initPc \in {"ready", "await"}
  /\ tdr = NoWord
  /\ initPc' = IF initPc = "ready" THEN "put" ELSE "start"
  /\ UNCHANGED <<dummiesLeft, spiVars, currWriteBuf, storeVars, served>>

InitPut ==
  /\ initPc = "put"
  /\ tdr' = PowerUpWord
  /\ initPc' = "poll"
  /\ UNCHANGED <<dummiesLeft, ier, shifter, rdr, rdrf, overrun, adcAddr,
                 currWriteBuf, storeVars, served>>

InitPoll_NoWait ==
  /\ initPc = "poll"
  /\ initPc' = "get"
  /\ UNCHANGED <<dummiesLeft, spiVars, currWriteBuf, storeVars, served>>

InitPoll ==
  /\ initPc = "poll"
  /\ rdrf
  /\ initPc' = "get"
  /\ UNCHANGED <<dummiesLeft, spiVars, currWriteBuf, storeVars, served>>

InitGet ==
  /\ initPc = "get"
  /\ rdrf' = FALSE
  /\ dummiesLeft' = dummiesLeft - 1
  /\ initPc' = IF dummiesLeft = 1 THEN "unmask" ELSE "ready"
  /\ UNCHANGED <<ier, tdr, shifter, rdr, overrun, adcAddr,
                 currWriteBuf, storeVars, served>>

InitUnmask ==
  /\ initPc = "unmask"
  /\ ier' = TRUE
  /\ initPc' = "await"
  /\ UNCHANGED <<dummiesLeft, tdr, shifter, rdr, rdrf, overrun, adcAddr,
                 currWriteBuf, storeVars, served>>

InitStart ==
  /\ initPc = "start"
  /\ tdr' = currWriteBuf
  /\ initPc' = "done"
  /\ UNCHANGED <<dummiesLeft, ier, shifter, rdr, rdrf, overrun, adcAddr,
                 currWriteBuf, storeVars, served>>

ADC_Init ==
  \/ InitEnable \/ InitMask \/ InitReady \/ InitPut \/ InitPoll \/ InitGet
  \/ InitUnmask \/ InitStart

-----------------------------------------------------------------------------
(* spi_int_handler.  It writes the buffer the selector does not point at,  *)
(* then flips the selector.                                                *)

StoreSample_SelectedBuffer(ch, sample) ==
  /\ IF latestSelector[ch] = 0
       THEN /\ latestSamples1' = [latestSamples1 EXCEPT ![ch] = sample]
            /\ UNCHANGED latestSamples2
       ELSE /\ latestSamples2' = [latestSamples2 EXCEPT ![ch] = sample]
            /\ UNCHANGED latestSamples1
  /\ latestSelector' = [latestSelector EXCEPT ![ch] = 1 - @]
  /\ newest' = [newest EXCEPT ![ch] = sample]

StoreSample_NoFlip(ch, sample) ==
  /\ IF latestSelector[ch] # 0
       THEN /\ latestSamples1' = [latestSamples1 EXCEPT ![ch] = sample]
            /\ UNCHANGED latestSamples2
       ELSE /\ latestSamples2' = [latestSamples2 EXCEPT ![ch] = sample]
            /\ UNCHANGED latestSamples1
  /\ newest' = [newest EXCEPT ![ch] = sample]
  /\ UNCHANGED latestSelector

StoreSample(ch, sample) ==
  /\ IF latestSelector[ch] # 0
       THEN /\ latestSamples1' = [latestSamples1 EXCEPT ![ch] = sample]
            /\ UNCHANGED latestSamples2
       ELSE /\ latestSamples2' = [latestSamples2 EXCEPT ![ch] = sample]
            /\ UNCHANGED latestSamples1
  /\ latestSelector' = [latestSelector EXCEPT ![ch] = 1 - @]
  /\ newest' = [newest EXCEPT ![ch] = sample]

WriteNext(ch) ==
  /\ currWriteBuf' = ControlWord(NextChannel(ch))
  /\ tdr' = IF tdr = NoWord THEN currWriteBuf' ELSE tdr

SpiIrq ==
  /\ ier
  /\ rdrf
  /\ LET ch == ChannelOf(rdr) IN
       /\ StoreSample(ch, SampleOf(rdr))
       /\ WriteNext(ch)
       /\ served' = <<ch, served[1]>>
  /\ rdrf' = FALSE
  /\ UNCHANGED <<initPc, dummiesLeft, ier, shifter, rdr, overrun, adcAddr>>

(* What a reader of the store sees (sampler.c:78-82).                      *)
Latest(ch) ==
  IF latestSelector[ch] # 0 THEN latestSamples2[ch] ELSE latestSamples1[ch]

-----------------------------------------------------------------------------
AdcHardware == SpiLoad \/ SpiShift

AdcNext == AdcHardware \/ ADC_Init \/ SpiIrq

AdcFairness ==
  /\ WF_adcVars(SpiLoad)
  /\ WF_adcVars(SpiShift)
  /\ WF_adcVars(ADC_Init)
  /\ WF_adcVars(SpiIrq)

AdcSpec == AdcInit /\ [][AdcNext]_adcVars /\ AdcFairness

-----------------------------------------------------------------------------
(* Properties.                                                             *)

(* The buffer the selector points at always holds the sample handled last, *)
(* for every channel: tc_irq, which reads by the selector, never gets the  *)
(* older of the two.  (main.c:92 prints one of the two whichever it is.)   *)
StoreHoldsNewest == \A ch \in Channels : Latest(ch) = newest[ch]

(* Once the chain is started there is exactly one word under way: in the   *)
(* transmit register, in the shifter, or received and not yet handled.     *)
(* It neither dies out nor doubles.                                        *)
Started == initPc = "done"
WordsUnderWay ==
  (IF tdr # NoWord THEN 1 ELSE 0) + (IF shifter # NoWord THEN 1 ELSE 0)
    + (IF rdrf THEN 1 ELSE 0)
SingleWord == Started => WordsUnderWay = 1

(* However late the handler runs, no received frame is overwritten before  *)
(* it is read.                                                             *)
NoOverrun == ~overrun

(* The converter answers one frame late, so the handler's channel sequence *)
(* is two interleaved alternations: the channel of a frame always differs  *)
(* from the channel of the frame two before it, and none hogs the chain.   *)
TwoFrameAlternation == [][SpiIrq => ChannelOf(rdr) # served[2]]_adcVars

(* Start-up terminates, and both streamed channels are refreshed for ever. *)
InitCompletes == <>Started
EveryChannelRefreshed == \A ch \in {0, 1} : []<>(served[1] = ch)

(* To a reader that goes by the selectors, the two-buffer store is one     *)
(* register per input that each handler run writes in one step, with a     *)
(* reading of that input as the converter measured it.                     *)
Register ==
  INSTANCE SampleRegister
    WITH Inputs <- Channels,
         Samples <- [ch \in Channels |-> {SampleOf(ResponseWord(ch, r, 0)) : r \in Readings[ch]}],
         Unread <- NoSample,
         value <- [ch \in Channels |-> Latest(ch)],
         lastTwo <- served

StoreIsRegister == Register!RegisterSpec
=============================================================================
