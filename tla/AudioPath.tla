----------------------------- MODULE AudioPath ------------------------------
(***************************************************************************)
(* The whole path of a sample through the sound board: the conversion      *)
(* chain of AdcChain, the timer handler tc_irq that interleaves the newest *)
(* sample of each streamed channel into a packet, udi_audio_send_samples,  *)
(* which copies the packet into the endpoint's buffer and starts a         *)
(* transfer, and the USB controller that reads that buffer by DMA.         *)
(*                                                                         *)
(* The SPI, timer and USB handlers have the same interrupt level, so none  *)
(* of them runs inside another; the DMA runs alongside all of them.  The   *)
(* timer handler is therefore modelled step by step.  (tc_tick is left     *)
(* out: it wraps once a second and nothing uses its value.)                *)
(***************************************************************************)
EXTENDS AdcChain

CONSTANTS
  NbChannels,         \* IN_FORMAT_NB_CHANNELS
  SamplesPerPacket    \* SAMPLES_PER_PACKET

ASSUME PacketAssumption ==
  /\ NbChannels \in 1 .. 8
  /\ SamplesPerPacket \in Nat \ {0}
  /\ SamplesPerPacket % NbChannels = 0

Cells == 0 .. SamplesPerPacket - 1

(* LE16 on this big-endian part: the two bytes change places.              *)
Le16(sample) ==
  LET u == sample % 65536 IN ToInt16((u % 256) * 256 + u \div 256)

(* Interrupt levels: ADC.c:248 and EXAMPLE_TC_IRQ_PRIORITY.  A handler     *)
(* runs inside another only if its level is higher.                        *)
SpiLevelInt1 == 1
SpiLevel == 0
TcLevel == 0

Down == -1

-----------------------------------------------------------------------------
VARIABLES
  tcPc,          \* where tc_irq is: idle, sample, copy (memcpy) or run (udd_ep_run)
  chan,          \* its loop counter j
  copied,        \* cells memcpy has copied
  samples,       \* the packet being assembled
  sampleIndex,
  gBuffer,       \* the endpoint's buffer
  setting,       \* alternate setting seen by the streaming interface
  iface,         \* alternate setting the host selected, or Down
  busy,          \* is a transfer of gBuffer under way?
  sent,          \* cells of gBuffer the DMA has read
  wire,          \* what it read: the packet as the host gets it
  refused,       \* history: was a packet refused since the transfer began?
  atTick         \* history: newest sample per streamed channel when tc_irq began

samplerVars == <<tcPc, chan, copied, samples, sampleIndex>>
usbVars == <<setting, iface, busy, sent, wire>>
historyVars == <<refused, atTick>>
vars == <<adcVars, samplerVars, gBuffer, usbVars, historyVars>>

NoTick == [c \in 0 .. NbChannels - 1 |-> NoSample]
EmptyWire == [k \in Cells |-> 0]

AudioTypeOK ==
  /\ TypeOK
  /\ tcPc \in {"idle", "sample", "copy", "run"}
  /\ chan \in 0 .. NbChannels - 1
  /\ copied \in Cells
  /\ samples \in [Cells -> Int16]
  /\ sampleIndex \in 0 .. SamplesPerPacket
  /\ gBuffer \in [Cells -> Int16]
  /\ setting \in {0, 1}
  /\ iface \in {Down, 0, 1}
  /\ busy \in BOOLEAN
  /\ sent \in 0 .. SamplesPerPacket
  /\ wire \in [Cells -> Int16]
  /\ refused \in BOOLEAN
  /\ atTick \in [0 .. NbChannels - 1 -> Int16]

Init ==
  /\ AdcInit
  /\ tcPc = "idle"
  /\ chan = 0
  /\ copied = 0
  /\ samples = [i \in Cells |-> 0]
  /\ sampleIndex = 0
  /\ gBuffer = [i \in Cells |-> 0]
  /\ setting = 0
  /\ iface = Down
  /\ busy = FALSE
  /\ sent = 0
  /\ wire = EmptyWire
  /\ refused = FALSE
  /\ atTick = NoTick

-----------------------------------------------------------------------------
(* tc_irq.  main calls tc_init, which starts the timer, when ADC_Init has  *)
(* returned; tc_irq does nothing unless udi_audio_is_active().             *)

TimerRunning == Started
udi_audio_is_active == setting = 1

TcEnter ==
  /\ TimerRunning
  /\ tcPc = "idle"
  /\ udi_audio_is_active
  /\ tcPc' = "sample"
  /\ atTick' = [c \in 0 .. NbChannels - 1 |-> Latest(c)]
  /\ UNCHANGED <<adcVars, chan, copied, samples, sampleIndex, gBuffer,
                 usbVars, refused>>

NextIteration ==
  IF chan + 1 < NbChannels
    THEN /\ tcPc' = "sample"
         /\ chan' = chan + 1
         /\ UNCHANGED atTick
    ELSE /\ tcPc' = "idle"
         /\ chan' = 0
         /\ atTick' = NoTick

(* Faulty variants: a packet limit that is off by one, and a packet        *)
(* assembled in the endpoint's buffer itself.                              *)
TcSample_OffByOne ==
  /\ tcPc = "sample"
  /\ samples' = [samples EXCEPT ![sampleIndex] = Le16(Latest(chan))]
  /\ sampleIndex' = sampleIndex + 1
  /\ IF sampleIndex + 1 > SamplesPerPacket
       THEN /\ tcPc' = "copy"
            /\ UNCHANGED <<chan, atTick>>
       ELSE NextIteration
  /\ UNCHANGED <<adcVars, copied, gBuffer, usbVars, refused>>

TcSample_InPlace ==
  /\ tcPc = "sample"
  /\ samples' = [samples EXCEPT ![sampleIndex] = Le16(Latest(chan))]
  /\ gBuffer' = [gBuffer EXCEPT ![sampleIndex] = Le16(Latest(chan))]
  /\ sampleIndex' = sampleIndex + 1
  /\ IF sampleIndex + 1 >= SamplesPerPacket
       THEN /\ tcPc' = "copy"
            /\ UNCHANGED <<chan, atTick>>
       ELSE NextIteration
  /\ UNCHANGED <<adcVars, copied, usbVars, refused>>

TcSample ==
  /\ tcPc = "sample"
  /\ samples' = [samples EXCEPT ![sampleIndex] = Le16(Latest(chan))]
  /\ sampleIndex' = sampleIndex + 1
  /\ IF sampleIndex + 1 >= SamplesPerPacket
       THEN /\ tcPc' = "copy"
            /\ UNCHANGED <<chan, atTick>>
       ELSE NextIteration
  /\ UNCHANGED <<adcVars, copied, gBuffer, usbVars, refused>>

(* udi_audio_send_samples: memcpy, a cell at a time ...                    *)
TcCopy ==
  /\ tcPc = "copy"
  /\ gBuffer' = [gBuffer EXCEPT ![copied] = samples[copied]]
  /\ IF copied + 1 < SamplesPerPacket
       THEN copied' = copied + 1 /\ UNCHANGED tcPc
       ELSE copied' = 0 /\ tcPc' = "run"
  /\ UNCHANGED <<adcVars, chan, samples, sampleIndex, usbVars, historyVars>>

(* ... then udd_ep_run, which refuses a disabled endpoint and one whose    *)
(* previous transfer is not over; the refusal is ignored.                  *)
(* Faulty variants: a refused packet's last sample is tried again, a       *)
(* transfer under way is started over, and it is waited for.               *)
TcRun_RetryLast ==
  /\ tcPc = "run"
  /\ IF iface = 1 /\ ~busy
       THEN busy' = TRUE /\ refused' = FALSE /\ sampleIndex' = 0
       ELSE UNCHANGED busy /\ refused' = TRUE /\ sampleIndex' = SamplesPerPacket - 1
  /\ NextIteration
  /\ UNCHANGED <<adcVars, copied, samples, gBuffer, setting, iface, sent, wire>>

TcRun_Restart ==
  /\ tcPc = "run"
  /\ IF iface = 1
       THEN busy' = TRUE /\ refused' = FALSE /\ sent' = 0 /\ wire' = EmptyWire
       ELSE refused' = TRUE /\ UNCHANGED <<busy, sent, wire>>
  /\ sampleIndex' = 0
  /\ NextIteration
  /\ UNCHANGED <<adcVars, copied, samples, gBuffer, setting, iface>>

TcRun_Blocking ==
  /\ tcPc = "run"
  /\ iface = 1 /\ ~busy
  /\ busy' = TRUE /\ refused' = FALSE
  /\ sampleIndex' = 0
  /\ NextIteration
  /\ UNCHANGED <<adcVars, copied, samples, gBuffer, setting, iface, sent, wire>>

TcRun ==
  /\ tcPc = "run"
  /\ IF iface = 1 /\ ~busy
       THEN busy' = TRUE /\ refused' = FALSE
       ELSE UNCHANGED busy /\ refused' = TRUE
  /\ sampleIndex' = 0
  /\ NextIteration
  /\ UNCHANGED <<adcVars, copied, samples, gBuffer, setting, iface, sent, wire>>

TcStep == TcSample \/ TcCopy \/ TcRun

-----------------------------------------------------------------------------
(* The USB controller and its driver.                                      *)

DmaCell ==
  /\ busy
  /\ sent < SamplesPerPacket
  /\ wire' = [wire EXCEPT ![sent] = gBuffer[sent]]
  /\ sent' = sent + 1
  /\ UNCHANGED <<adcVars, samplerVars, gBuffer, setting, iface, busy, historyVars>>

DropTransfer == busy' = FALSE /\ sent' = 0 /\ wire' = EmptyWire

(* The transfer-complete interrupt; transfer_success does nothing.         *)
TransferDone ==
  /\ tcPc = "idle"
  /\ busy
  /\ sent = SamplesPerPacket
  /\ DropTransfer
  /\ UNCHANGED <<adcVars, samplerVars, gBuffer, setting, iface, historyVars>>

(* The host selects an alternate setting (0 when it configures the         *)
(* device): the endpoint is freed and udi_audio_streaming_enable called.   *)
SelectAlt(alt) ==
  /\ tcPc = "idle"
  /\ iface = Down => alt = 0
  /\ iface' = alt
  /\ setting' = alt
  /\ DropTransfer
  /\ UNCHANGED <<adcVars, samplerVars, gBuffer, historyVars>>

(* Bus reset or detach: the endpoint is freed; udi_audio_streaming_disable *)
(* leaves the setting as it was.                                           *)
BusReset ==
  /\ tcPc = "idle"
  /\ iface # Down
  /\ iface' = Down
  /\ DropTransfer
  /\ UNCHANGED <<adcVars, samplerVars, gBuffer, setting, historyVars>>

-----------------------------------------------------------------------------
(* The conversion chain goes on underneath; its handler waits for tc_irq   *)
(* unless its level is the higher one.                                     *)

ChainHardware ==
  /\ AdcHardware
  /\ UNCHANGED <<samplerVars, gBuffer, usbVars, historyVars>>

StartUp ==
  /\ ADC_Init
  /\ UNCHANGED <<samplerVars, gBuffer, usbVars, historyVars>>

ChainIrq ==
  /\ tcPc = "idle" \/ SpiLevel > TcLevel
  /\ SpiIrq
  /\ UNCHANGED <<samplerVars, gBuffer, usbVars, historyVars>>

Next ==
  \/ ChainHardware \/ StartUp \/ ChainIrq
  \/ TcEnter \/ TcStep
  \/ DmaCell \/ TransferDone
  \/ \E alt \in {0, 1} : SelectAlt(alt)
  \/ BusReset

Spec == Init /\ [][Next]_vars

(* The peripherals clock on by themselves.  A pending SPI interrupt is     *)
(* served between two ticks, which are 31 us apart, and so is a pending    *)
(* transfer-complete interrupt: both are taken whenever tc_irq returns, if *)
(* not at once, hence strong fairness.  The host polls the endpoint of a   *)
(* stream it has opened; nothing makes it open one.                        *)
FairSpec ==
  /\ Spec
  /\ WF_vars(ChainHardware) /\ WF_vars(StartUp) /\ SF_vars(ChainIrq)
  /\ WF_vars(TcEnter) /\ WF_vars(TcStep)
  /\ WF_vars(DmaCell) /\ SF_vars(TransferDone)

-----------------------------------------------------------------------------
(* Properties.                                                             *)

(* What channel c can put in a packet: one of its own readings, or the     *)
(* initial -1.                                                             *)
Stored(c) == {SampleOf(ResponseWord(c, r, 0)) : r \in Readings[c]} \cup {NoSample}
Stream(c) == {Le16(s) : s \in Stored(c)}

(* The host always finds channel c at the positions congruent to c, in     *)
(* every packet: through refused packets, packets overwritten while they   *)
(* are being sent, and streams stopped and resumed with a part-filled      *)
(* packet left over.                                                       *)
PacketAligned == \A i \in 0 .. sampleIndex - 1 : samples[i] \in Stream(i % NbChannels)
WireAligned == \A k \in 0 .. sent - 1 : wire[k] \in Stream(k % NbChannels)
ChannelsAligned == PacketAligned /\ WireAligned

(* A transfer can only be damaged by a later packet that is itself         *)
(* refused: as long as none was, and none is being copied in, what the     *)
(* host has received is what the buffer holds.                             *)
SentIntact == \A k \in 0 .. sent - 1 : wire[k] = gBuffer[k]
OnlyRefusedPacketsDamage ==
  (busy /\ ~refused /\ tcPc \notin {"copy", "run"}) => SentIntact

(* "One packet per frame" (udi_audio.h:150): what goes out in a frame is   *)
(* one packet, not the beginning of one and the end of the next.  A packet *)
(* all of which has been read is not touched by what is copied then.       *)
OnePacketPerFrame == (busy /\ sent < SamplesPerPacket) => SentIntact

(* The host sees no more of all this than HostStream lets happen: whatever *)
(* tc_irq is doing, nothing is sent on a closed stream, no transfer starts *)
(* over or goes back, and cells once received stay as they are.            *)
Host ==
  INSTANCE HostStream
    WITH Size <- SamplesPerPacket,
         Cell <- [k \in Cells |-> Stream(k % NbChannels)],
         open <- iface = 1,
         sending <- busy,
         count <- sent,
         got <- [k \in 0 .. sent - 1 |-> wire[k]]

FeedsHost == Host!StreamSpec

(* All samples of a tick are taken at one instant: no conversion is stored *)
(* between the first channel's sample and the last one's.                  *)
FrameIsOneInstant == [][TcSample => Latest(chan) = atTick[chan]]_vars

(* While the host keeps the stream open, transfers keep being started and  *)
(* both channels keep being converted: refusals never wedge the endpoint   *)
(* and the ticks never wedge the chain.                                    *)
Accepted == tcPc = "run" /\ iface = 1 /\ ~busy
StreamKeepsFlowing ==
  <>[](iface = 1) =>
    /\ []<><<Accepted /\ TcStep>>_vars
    /\ \A c \in {0, 1} : []<>(served[1] = c)
=============================================================================
