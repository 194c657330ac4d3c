-------------------------- MODULE AudioPathProofs ---------------------------
(***************************************************************************)
(* Proofs about what the host gets, for any number of channels and any     *)
(* packet size that is a multiple of it, whatever the readings, the host   *)
(* and the interleaving: every channel at its own positions, its readings  *)
(* undistorted, all of one instant, and in packets that only a refused one *)
(* can damage.                                                             *)
(***************************************************************************)
EXTENDS AudioPath, AdcChainProofs

-----------------------------------------------------------------------------
(* Positions modulo the number of channels.                                *)

LEMMA ModUnique ==
  ASSUME NEW n \in Nat \ {0}, NEW p \in Int, NEW q \in Int,
         NEW r \in 0 .. n - 1, NEW s \in 0 .. n - 1,
         p * n + r = q * n + s
  PROVE  r = s
  BY SMTT(20)

LEMMA ModSuccessor ==
  ASSUME NEW n \in Nat \ {0}, NEW i \in Nat
  PROVE  (i + 1) % n = IF (i % n) + 1 < n THEN (i % n) + 1 ELSE 0
<1> DEFINE p == i \div n
           r == i % n
           q == (i + 1) \div n
           s == (i + 1) % n
<1>1. i = p * n + r /\ r \in 0 .. n - 1 /\ p \in Int
  BY SMT
<1>2. i + 1 = q * n + s /\ s \in 0 .. n - 1 /\ q \in Int
  BY SMT
<1> HIDE DEF p, r, q, s
<1>3. CASE r + 1 < n
  <2>1. p * n + (r + 1) = q * n + s /\ r + 1 \in 0 .. n - 1
    BY <1>1, <1>2, <1>3, SMT
  <2>2. r + 1 = s
    BY <1>1, <1>2, <2>1, ModUnique
  <2> QED
    BY <1>3, <2>2 DEF r, s
<1>4. CASE ~(r + 1 < n)
  <2>1. (p + 1) * n + 0 = q * n + s /\ 0 \in 0 .. n - 1 /\ p + 1 \in Int
    BY <1>1, <1>2, <1>4, SMT
  <2>2. 0 = s
    BY <1>2, <2>1, ModUnique
  <2> QED
    BY <1>4, <2>2 DEF r, s
<1> QED
  BY <1>3, <1>4

LEMMA Packet ==
  /\ NbChannels \in Nat \ {0} /\ NbChannels <= 8
  /\ SamplesPerPacket \in Nat \ {0}
  /\ SamplesPerPacket % NbChannels = 0
  /\ 0 % NbChannels = 0
  /\ \A i \in Nat : i % NbChannels \in 0 .. NbChannels - 1
  /\ \A c \in 0 .. NbChannels - 1 : c \in Channels
<1>1. NbChannels \in Nat \ {0} /\ NbChannels <= 8
  BY PacketAssumption, SMT
<1>2. 0 % NbChannels = 0 /\ \A i \in Nat : i % NbChannels \in 0 .. NbChannels - 1
  BY <1>1, SMT
<1>3. \A c \in 0 .. NbChannels - 1 : c \in Channels
  BY <1>1, SMT DEF Channels
<1> QED
  BY <1>1, <1>2, <1>3, PacketAssumption

-----------------------------------------------------------------------------
(* The chain below does what it does alone.                                *)
LEMMA ChainInside == [Next]_vars => [AdcNext]_adcVars
  BY DEF Next, vars, ChainHardware, StartUp, ChainIrq, TcEnter, TcStep, TcSample,
         TcCopy, TcRun, DmaCell, TransferDone, SelectAlt, BusReset, AdcNext

(* Where a register or a store entry can have come from.                   *)
SourceInv ==
  /\ rdrf = TRUE => Genuine(rdr)
  /\ \A c \in Channels : latestSamples1[c] \in Stored(c) /\ latestSamples2[c] \in Stored(c)

LEMMA SourceInit == AdcInit => SourceInv
  BY DEF AdcInit, SourceInv, Stored

LEMMA GenuineStored ==
  ASSUME NEW w, Genuine(w)
  PROVE  ChannelOf(w) \in Channels /\ SampleOf(w) \in Stored(ChannelOf(w))
  BY GenuineMeasured DEF Measured, Stored

LEMMA SourceStep ==
  TypeInv /\ SourceInv /\ [AdcNext]_adcVars => SourceInv'
<1> SUFFICES ASSUME TypeInv, SourceInv, [AdcNext]_adcVars PROVE SourceInv'
  OBVIOUS
<1>1. CASE SpiShift
  <2>1. Genuine(rdr')
    BY <1>1 DEF SpiShift, Genuine, TypeInv, TypeOK
  <2>2. UNCHANGED storeVars
    BY <1>1 DEF SpiShift
  <2> QED
    BY <2>1, <2>2 DEF SourceInv, storeVars, Stored
<1>2. CASE SpiIrq
  <2> DEFINE ch == ChannelOf(rdr)
             sample == SampleOf(rdr)
  <2>1. rdrf = TRUE /\ rdrf' = FALSE
    BY <1>2, Zenon DEF SpiIrq, TypeInv, TypeOK
  <2>2. ch \in Channels /\ sample \in Stored(ch)
    BY <2>1, GenuineStored DEF SourceInv
  <2>3. StoreSample(ch, sample)
    BY <1>2 DEF SpiIrq
  <2> HIDE DEF ch, sample
  <2>4. ASSUME NEW c \in Channels
        PROVE  latestSamples1'[c] \in Stored(c) /\ latestSamples2'[c] \in Stored(c)
    <3>1. CASE c = ch
      BY <2>2, <2>3, <3>1 DEF StoreSample, SourceInv, TypeInv, TypeOK
    <3>2. CASE c # ch
      BY <2>2, <2>3, <3>2 DEF StoreSample, SourceInv, TypeInv, TypeOK
    <3> QED
      BY <3>1, <3>2
  <2> QED
    BY <2>1, <2>4 DEF SourceInv, Stored
<1>3. CASE SpiLoad \/ ADC_Init \/ UNCHANGED adcVars
  <2>1. rdrf' = TRUE => rdrf = TRUE /\ rdr' = rdr
    BY <1>3, Zenon DEF SpiLoad, ADC_Init, InitEnable, InitMask, InitReady, InitPut, InitPoll, InitGet,
                InitUnmask, InitStart, adcVars, spiVars
  <2>2. UNCHANGED storeVars
    BY <1>3 DEF SpiLoad, ADC_Init, InitEnable, InitMask, InitReady, InitPut, InitPoll, InitGet,
                InitUnmask, InitStart, adcVars
  <2> QED
    BY <2>1, <2>2 DEF SourceInv, storeVars, Stored, Genuine
<1> QED
  BY <1>1, <1>2, <1>3 DEF AdcNext, AdcHardware

(* So the sample tc_irq picks belongs to the channel it picks it for.      *)
LEMMA LatestStored ==
  SourceInv => \A c \in Channels : Le16(Latest(c)) \in Stream(c)
  BY DEF SourceInv, Latest, Stream

-----------------------------------------------------------------------------
(* Types.                                                                  *)
LEMMA SwappedRange == \A sample \in Int16 : Le16(sample) \in Int16
<1> SUFFICES ASSUME NEW sample \in Int16 PROVE Le16(sample) \in Int16
  OBVIOUS
<1> DEFINE u == sample % 65536
           v == (u % 256) * 256 + (u \div 256)
<1>1. sample \in Int
  BY Ranges
<1>2. u \in Int /\ 0 <= u /\ u <= 65535
  BY <1>1, SMT
<1>3. v \in Int /\ 0 <= v /\ v <= 65535
  <2> HIDE DEF u
  <2> QED
    BY <1>2, SMT
<1>4. Le16(sample) = ToInt16(v)
  BY DEF Le16
<1>5. ToInt16(v) \in Int /\ -32768 <= ToInt16(v) /\ ToInt16(v) <= 32767
  <2> HIDE DEF v
  <2> QED
    BY <1>3, SMT DEF ToInt16
<1>6. MinInt16 = -32768 /\ MaxInt16 = 32767
  BY SMT DEF MinInt16, MaxInt16
<1> QED
  BY <1>4, <1>5, <1>6, Ranges, SMT

LEMMA ZeroIsSample == 0 \in Int16
<1>1. MinInt16 = -32768 /\ MaxInt16 = 32767
  BY SMT DEF MinInt16, MaxInt16
<1> QED
  BY <1>1, Ranges, SMT

LEMMA LatestRange == TypeOK => \A c \in Channels : Latest(c) \in Int16
  BY DEF TypeOK, Latest

(* Where the packet, the loop counter and the copy stand, by the place     *)
(* tc_irq is at; every packet that can be sent is aligned throughout.      *)
SamplerInv ==
  /\ tcPc \in {"idle", "sample", "copy", "run"}
  /\ chan \in 0 .. NbChannels - 1
  /\ sampleIndex \in 0 .. SamplesPerPacket
  /\ copied \in Cells
  /\ samples \in [Cells -> Int16]
  /\ gBuffer \in [Cells -> Int16]
  /\ tcPc = "idle" => chan = 0
  /\ tcPc \in {"idle", "sample"} =>
       sampleIndex < SamplesPerPacket /\ sampleIndex % NbChannels = chan
  /\ tcPc \in {"copy", "run"} =>
       sampleIndex = SamplesPerPacket /\ chan = NbChannels - 1
  /\ tcPc # "copy" => copied = 0

InStream(f, n) == \A i \in 0 .. n - 1 : f[i] \in Stream(i % NbChannels)

PacketInv ==
  /\ InStream(samples, sampleIndex)
  /\ tcPc = "copy" => InStream(gBuffer, copied)
  /\ tcPc = "run" => InStream(gBuffer, SamplesPerPacket)

SendInv ==
  /\ busy \in BOOLEAN
  /\ sent \in 0 .. SamplesPerPacket
  /\ wire \in [Cells -> Int16]
  /\ busy = FALSE => sent = 0
  /\ busy = TRUE => InStream(gBuffer, SamplesPerPacket)
  /\ InStream(wire, sent)

LEMMA CellRange ==
  /\ \A n \in 0 .. SamplesPerPacket : n < SamplesPerPacket => n \in Cells
  /\ \A n \in 0 .. SamplesPerPacket : \A i \in 0 .. n - 1 : i \in Cells
  /\ \A i \in Cells : i \in Nat /\ i < SamplesPerPacket /\ i + 1 \in 0 .. SamplesPerPacket
  /\ 0 \in Cells
  BY Packet, SMT DEF Cells

(* Writing cell n of something aligned up to n.                            *)
LEMMA StreamExtends ==
  ASSUME NEW f \in [Cells -> Int16], NEW n \in Cells, NEW s \in Stream(n % NbChannels),
         InStream(f, n)
  PROVE  InStream([f EXCEPT ![n] = s], n + 1)
<1> SUFFICES ASSUME NEW i \in 0 .. n
             PROVE  [f EXCEPT ![n] = s][i] \in Stream(i % NbChannels)
  BY CellRange, SMT DEF InStream
<1>1. i \in Cells /\ (i = n \/ i \in 0 .. n - 1)
  BY CellRange, SMT DEF Cells
<1>2. CASE i = n
  BY <1>1, <1>2
<1>3. CASE i # n
  BY <1>1, <1>3 DEF InStream
<1> QED
  BY <1>2, <1>3

(* Writing an aligned cell into something aligned.                         *)
LEMMA StreamKept ==
  ASSUME NEW f \in [Cells -> Int16], NEW n \in Cells, NEW s \in Stream(n % NbChannels),
         InStream(f, SamplesPerPacket)
  PROVE  InStream([f EXCEPT ![n] = s], SamplesPerPacket)
<1> SUFFICES ASSUME NEW i \in Cells
             PROVE  [f EXCEPT ![n] = s][i] \in Stream(i % NbChannels)
  BY DEF InStream, Cells
<1>1. CASE i = n
  BY <1>1
<1>2. CASE i # n
  BY <1>2 DEF InStream, Cells
<1> QED
  BY <1>1, <1>2

-----------------------------------------------------------------------------
AlignInv == TypeInv /\ SourceInv /\ SamplerInv /\ PacketInv /\ SendInv

LEMMA AlignInit == Init => AlignInv
<1> SUFFICES ASSUME Init PROVE AlignInv
  OBVIOUS
<1>1. TypeInv /\ SourceInv
  BY TypeInit, SourceInit DEF Init
<1>2. SamplerInv
  BY Packet, CellRange, ZeroIsSample, SMT DEF Init, SamplerInv
<1>3. PacketInv
  BY Packet, SMT DEF Init, PacketInv, InStream
<1>4. SendInv
  <2>1. wire \in [Cells -> Int16]
    BY ZeroIsSample DEF Init, EmptyWire
  <2>2. busy = FALSE /\ sent = 0
    BY DEF Init
  <2>3. InStream(wire, 0)
    BY SMT DEF InStream
  <2>4. 0 \in 0 .. SamplesPerPacket
    BY Packet, SMT
  <2> QED
    BY <2>1, <2>2, <2>3, <2>4, Zenon DEF SendInv
<1> QED
  BY <1>1, <1>2, <1>3, <1>4 DEF AlignInv

(* The next iteration of tc_irq's loop, once a packet position is filled.  *)
LEMMA IterationKeepsStep ==
  ASSUME SamplerInv, NextIteration,
         NEW n \in 0 .. SamplesPerPacket - 1,
         n % NbChannels = (IF chan + 1 < NbChannels THEN chan + 1 ELSE 0)
  PROVE  /\ tcPc' \in {"idle", "sample"}
         /\ chan' \in 0 .. NbChannels - 1
         /\ tcPc' = "idle" => chan' = 0
         /\ n % NbChannels = chan'
<1>1. NbChannels \in Nat \ {0} /\ chan \in 0 .. NbChannels - 1
  BY Packet DEF SamplerInv
<1>2. CASE chan + 1 < NbChannels
  BY <1>1, <1>2, SMT DEF NextIteration
<1>3. CASE ~(chan + 1 < NbChannels)
  BY <1>1, <1>3, SMT DEF NextIteration
<1> QED
  BY <1>2, <1>3

LEMMA SampleStep == AlignInv /\ TcSample => SamplerInv' /\ PacketInv' /\ SendInv'
<1> SUFFICES ASSUME AlignInv, TcSample PROVE SamplerInv' /\ PacketInv' /\ SendInv'
  OBVIOUS
<1> DEFINE s == Le16(Latest(chan))
<1>1. /\ tcPc = "sample"
      /\ samples' = [samples EXCEPT ![sampleIndex] = s]
      /\ sampleIndex' = sampleIndex + 1
      /\ UNCHANGED <<copied, gBuffer, busy, sent, wire>>
  BY DEF TcSample, usbVars
<1>2. /\ sampleIndex \in Cells /\ sampleIndex \in Nat
      /\ sampleIndex % NbChannels = chan /\ chan \in Channels
      /\ samples \in [Cells -> Int16]
  BY <1>1, CellRange, Packet, SMT DEF AlignInv, SamplerInv
<1>3. s \in Stream(sampleIndex % NbChannels) /\ s \in Int16
  BY <1>2, LatestStored, LatestRange, SwappedRange DEF AlignInv, TypeInv
<1> HIDE DEF s
<1>4. InStream(samples', sampleIndex')
  BY <1>1, <1>2, <1>3, StreamExtends DEF AlignInv, PacketInv
<1>5. samples' \in [Cells -> Int16]
  BY <1>1, <1>2, <1>3
<1>6. sampleIndex' \in 0 .. SamplesPerPacket /\ sampleIndex' \in Nat
  BY <1>1, <1>2, CellRange, SMT
<1>7. sampleIndex' % NbChannels = (IF chan + 1 < NbChannels THEN chan + 1 ELSE 0)
  BY <1>1, <1>2, Packet, ModSuccessor
<1>8. SendInv'
  BY <1>1 DEF AlignInv, SendInv, InStream, Stream, Stored
<1>9. CASE sampleIndex + 1 >= SamplesPerPacket
  <2>1. tcPc' = "copy" /\ chan' = chan
    BY <1>9 DEF TcSample
  <2>2. sampleIndex' = SamplesPerPacket
    BY <1>1, <1>6, <1>9, Packet, SMT
  <2>3. chan = NbChannels - 1
    BY <1>2, <1>7, <2>2, Packet, SMT DEF AlignInv, SamplerInv
  <2>4. copied' = 0 /\ copied' \in Cells
    BY <1>1, CellRange DEF AlignInv, SamplerInv
  <2>5. SamplerInv'
    BY <1>1, <1>5, <1>6, <2>1, <2>2, <2>3, <2>4, SMT DEF AlignInv, SamplerInv
  <2>6. InStream(gBuffer', copied')
    BY <2>4, SMT DEF InStream
  <2> QED
    BY <1>4, <1>8, <2>1, <2>5, <2>6 DEF PacketInv
<1>10. CASE ~(sampleIndex + 1 >= SamplesPerPacket)
  <2>1. NextIteration /\ sampleIndex' \in 0 .. SamplesPerPacket - 1
    BY <1>1, <1>6, <1>10, Packet, SMT DEF TcSample
  <2>2. /\ tcPc' \in {"idle", "sample"}
        /\ chan' \in 0 .. NbChannels - 1
        /\ tcPc' = "idle" => chan' = 0
        /\ sampleIndex' % NbChannels = chan'
    BY <1>7, <2>1, IterationKeepsStep DEF AlignInv
  <2>3. SamplerInv'
    BY <1>1, <1>5, <1>6, <2>1, <2>2, Packet, SMT DEF AlignInv, SamplerInv
  <2> QED
    BY <1>4, <1>8, <2>2, <2>3 DEF PacketInv
<1> QED
  BY <1>9, <1>10

LEMMA CopyStep == AlignInv /\ TcCopy => SamplerInv' /\ PacketInv' /\ SendInv'
<1> SUFFICES ASSUME AlignInv, TcCopy PROVE SamplerInv' /\ PacketInv' /\ SendInv'
  OBVIOUS
<1>1. /\ tcPc = "copy"
      /\ gBuffer' = [gBuffer EXCEPT ![copied] = samples[copied]]
      /\ UNCHANGED <<chan, samples, sampleIndex, busy, sent, wire>>
  BY DEF TcCopy, usbVars
<1>2. /\ copied \in Cells /\ sampleIndex = SamplesPerPacket
      /\ samples \in [Cells -> Int16] /\ gBuffer \in [Cells -> Int16]
      /\ InStream(samples, SamplesPerPacket) /\ InStream(gBuffer, copied)
  BY <1>1 DEF AlignInv, SamplerInv, PacketInv
<1>3. samples[copied] \in Stream(copied % NbChannels) /\ samples[copied] \in Int16
  BY <1>2 DEF InStream, Cells
<1>4. InStream(gBuffer', copied + 1) /\ gBuffer' \in [Cells -> Int16]
  BY <1>1, <1>2, <1>3, StreamExtends
<1>5. busy = TRUE => InStream(gBuffer', SamplesPerPacket)
  BY <1>1, <1>2, <1>3, StreamKept DEF AlignInv, SendInv
<1>6. SendInv'
  BY <1>1, <1>5 DEF AlignInv, SendInv, InStream, Stream, Stored
<1>7. InStream(samples', sampleIndex')
  BY <1>1 DEF AlignInv, PacketInv
<1>8. CASE copied + 1 < SamplesPerPacket
  <2>1. copied' = copied + 1 /\ tcPc' = "copy" /\ copied' \in Cells
    BY <1>1, <1>2, <1>8, CellRange DEF TcCopy
  <2>2. SamplerInv'
    BY <1>1, <1>4, <2>1 DEF AlignInv, SamplerInv
  <2> QED
    BY <1>4, <1>6, <1>7, <2>1, <2>2 DEF PacketInv
<1>9. CASE ~(copied + 1 < SamplesPerPacket)
  <2>1. copied' = 0 /\ tcPc' = "run" /\ copied' \in Cells
    BY <1>9, CellRange DEF TcCopy
  <2>2. copied + 1 = SamplesPerPacket
    BY <1>2, <1>9, CellRange, Packet, SMT
  <2>3. SamplerInv'
    BY <1>1, <1>4, <2>1 DEF AlignInv, SamplerInv
  <2> QED
    BY <1>4, <1>6, <1>7, <2>1, <2>2, <2>3 DEF PacketInv
<1> QED
  BY <1>8, <1>9

LEMMA RunStep == AlignInv /\ TcRun => SamplerInv' /\ PacketInv' /\ SendInv'
<1> SUFFICES ASSUME AlignInv, TcRun PROVE SamplerInv' /\ PacketInv' /\ SendInv'
  OBVIOUS
<1>1. /\ tcPc = "run" /\ sampleIndex' = 0 /\ NextIteration
      /\ UNCHANGED <<copied, samples, gBuffer, sent, wire>>
  BY DEF TcRun
<1>2. chan = NbChannels - 1 /\ 0 \in 0 .. SamplesPerPacket - 1
      /\ 0 % NbChannels = (IF chan + 1 < NbChannels THEN chan + 1 ELSE 0)
  BY <1>1, Packet, SMT DEF AlignInv, SamplerInv
<1>3. /\ tcPc' \in {"idle", "sample"}
      /\ chan' \in 0 .. NbChannels - 1
      /\ tcPc' = "idle" => chan' = 0
      /\ 0 % NbChannels = chan'
  BY <1>1, <1>2, IterationKeepsStep DEF AlignInv
<1>4. SamplerInv'
  BY <1>1, <1>3, Packet, SMT DEF AlignInv, SamplerInv
<1>5. InStream(gBuffer, SamplesPerPacket)
  BY <1>1 DEF AlignInv, PacketInv
<1>6. busy' \in BOOLEAN /\ (busy' = FALSE => busy = FALSE)
  BY Zenon DEF TcRun, AlignInv, SendInv
<1>7. SendInv'
  BY <1>1, <1>5, <1>6 DEF AlignInv, SendInv, InStream, Stream, Stored
<1>8. InStream(samples', sampleIndex')
  BY <1>1, SMT DEF InStream
<1> QED
  BY <1>3, <1>4, <1>7, <1>8 DEF PacketInv

(* The controller's side: a cell is read, or the transfer is dropped.      *)
LEMMA DmaStep == AlignInv /\ DmaCell => SamplerInv' /\ PacketInv' /\ SendInv'
<1> SUFFICES ASSUME AlignInv, DmaCell PROVE SamplerInv' /\ PacketInv' /\ SendInv'
  OBVIOUS
<1>1. /\ busy = TRUE /\ sent < SamplesPerPacket
      /\ wire' = [wire EXCEPT ![sent] = gBuffer[sent]] /\ sent' = sent + 1
      /\ UNCHANGED <<tcPc, chan, copied, samples, sampleIndex, gBuffer, busy>>
  BY Zenon DEF DmaCell, samplerVars, AlignInv, SendInv
<1>2. /\ sent \in Cells /\ wire \in [Cells -> Int16] /\ gBuffer \in [Cells -> Int16]
      /\ InStream(gBuffer, SamplesPerPacket) /\ InStream(wire, sent)
  BY <1>1, CellRange DEF AlignInv, SendInv, SamplerInv
<1>3. gBuffer[sent] \in Stream(sent % NbChannels) /\ gBuffer[sent] \in Int16
  BY <1>2 DEF InStream, Cells
<1>4. InStream(wire', sent') /\ wire' \in [Cells -> Int16] /\ sent' \in 0 .. SamplesPerPacket
  BY <1>1, <1>2, <1>3, StreamExtends, CellRange
<1>5. SendInv'
  BY <1>1, <1>2, <1>4 DEF SendInv, InStream, Stream, Stored, AlignInv
<1>6. SamplerInv' /\ PacketInv'
  BY <1>1 DEF AlignInv, SamplerInv, PacketInv, InStream, Stream, Stored
<1> QED
  BY <1>5, <1>6

LEMMA DropStep ==
  AlignInv /\ DropTransfer /\ UNCHANGED <<samplerVars, gBuffer>>
    => SamplerInv' /\ PacketInv' /\ SendInv'
<1> SUFFICES ASSUME AlignInv, DropTransfer, UNCHANGED <<samplerVars, gBuffer>>
             PROVE  SamplerInv' /\ PacketInv' /\ SendInv'
  OBVIOUS
<1>1. SamplerInv' /\ PacketInv'
  BY DEF samplerVars, AlignInv, SamplerInv, PacketInv, InStream, Stream, Stored
<1>2. wire' \in [Cells -> Int16] /\ InStream(wire', 0)
  BY ZeroIsSample, SMT DEF DropTransfer, EmptyWire, InStream
<1>3. busy' = FALSE /\ sent' = 0
  BY DEF DropTransfer
<1>4. 0 \in 0 .. SamplesPerPacket
  BY Packet, SMT
<1>5. SendInv'
  BY <1>2, <1>3, <1>4, Zenon DEF SendInv
<1> QED
  BY <1>1, <1>5

LEMMA AlignStep == AlignInv /\ [Next]_vars => AlignInv'
<1> SUFFICES ASSUME AlignInv, [Next]_vars PROVE AlignInv'
  OBVIOUS
<1>1. TypeInv' /\ SourceInv'
  BY ChainInside, TypeStep, SourceStep DEF AlignInv
<1>2. CASE UNCHANGED <<samplerVars, gBuffer, busy, sent, wire>>
  <2>1. SamplerInv'
    BY <1>2 DEF samplerVars, AlignInv, SamplerInv
  <2>2. PacketInv'
    BY <1>2 DEF samplerVars, AlignInv, PacketInv, InStream, Stream, Stored
  <2>3. SendInv'
    BY <1>2 DEF samplerVars, AlignInv, SendInv, InStream, Stream, Stored
  <2> QED
    BY <1>1, <2>1, <2>2, <2>3 DEF AlignInv
<1>3. CASE ChainHardware \/ StartUp \/ ChainIrq
  BY <1>2, <1>3 DEF ChainHardware, StartUp, ChainIrq, usbVars
<1>4. CASE TcEnter
  <2>1. /\ tcPc = "idle" /\ tcPc' = "sample"
        /\ UNCHANGED <<chan, copied, samples, sampleIndex, gBuffer, busy, sent, wire>>
    BY <1>4 DEF TcEnter, usbVars
  <2>2. SamplerInv'
    BY <2>1 DEF AlignInv, SamplerInv
  <2>3. PacketInv' /\ SendInv'
    BY <2>1 DEF AlignInv, PacketInv, SendInv, InStream, Stream, Stored
  <2> QED
    BY <1>1, <2>2, <2>3 DEF AlignInv
<1>5. CASE TcStep
  BY <1>1, <1>5, SampleStep, CopyStep, RunStep DEF TcStep, AlignInv
<1>6. CASE DmaCell
  BY <1>1, <1>6, DmaStep DEF AlignInv
<1>7. CASE TransferDone \/ BusReset \/ \E alt \in {0, 1} : SelectAlt(alt)
  <2>1. DropTransfer /\ UNCHANGED <<samplerVars, gBuffer>>
    BY <1>7 DEF TransferDone, BusReset, SelectAlt
  <2> QED
    BY <1>1, <2>1, DropStep DEF AlignInv
<1>8. CASE UNCHANGED vars
  BY <1>2, <1>8 DEF vars, usbVars
<1> QED
  BY <1>3, <1>4, <1>5, <1>6, <1>7, <1>8 DEF Next

(* The host finds every channel at its own positions of every packet, and  *)
(* the packet being assembled keeps them, for any number of channels, any  *)
(* packet size that is a multiple of it, any readings and any host.        *)
THEOREM Aligned == Spec => []ChannelsAligned
<1>1. AlignInv => ChannelsAligned
  BY DEF AlignInv, PacketInv, SendInv, InStream, ChannelsAligned, PacketAligned, WireAligned
<1> QED
  BY <1>1, AlignInit, AlignStep, PTL DEF Spec

-----------------------------------------------------------------------------
(* While tc_irq runs the store stands still, because the SPI handler's     *)
(* level is not the higher one.                                            *)
TickInv ==
  tcPc # "idle" => atTick = [c \in 0 .. NbChannels - 1 |-> Latest(c)]

LEMMA LatestStill ==
  [Next]_vars /\ ~ChainIrq => \A c : Latest(c)' = Latest(c)
<1> SUFFICES ASSUME [Next]_vars, ~ChainIrq PROVE UNCHANGED storeVars
  BY DEF storeVars, Latest
<1>1. CASE ChainHardware
  BY <1>1 DEF ChainHardware, AdcHardware, SpiLoad, SpiShift
<1>2. CASE StartUp
  BY <1>2 DEF StartUp, ADC_Init, InitEnable, InitMask, InitReady, InitPut,
              InitPoll, InitGet, InitUnmask, InitStart
<1>3. CASE TcEnter \/ TcStep \/ UNCHANGED vars
  BY <1>3 DEF TcEnter, TcStep, TcSample, TcCopy, TcRun, vars, adcVars
<1>4. CASE DmaCell \/ TransferDone \/ BusReset \/ \E alt \in {0, 1} : SelectAlt(alt)
  BY <1>4 DEF DmaCell, TransferDone, BusReset, SelectAlt, adcVars
<1> QED
  BY <1>1, <1>2, <1>3, <1>4 DEF Next

LEMMA TickStep == TickInv /\ [Next]_vars => TickInv'
<1> SUFFICES ASSUME TickInv, [Next]_vars PROVE TickInv'
  OBVIOUS
<1>1. CASE ChainIrq
  <2>1. ~(SpiLevel > TcLevel)
    BY SMT DEF SpiLevel, TcLevel
  <2>2. tcPc = "idle" /\ UNCHANGED tcPc
    BY <1>1, <2>1 DEF ChainIrq, samplerVars
  <2> QED
    BY <2>2 DEF TickInv
<1>2. CASE ~ChainIrq
  <2>1. \A c : Latest(c)' = Latest(c)
    BY <1>2, LatestStill
  <2>2. CASE TcEnter
    BY <2>1, <2>2 DEF TcEnter, TickInv
  <2>3. CASE TcSample \/ TcRun
    <3>1. \/ tcPc' = "idle"
          \/ tcPc # "idle" /\ UNCHANGED atTick
      BY <2>3 DEF TcSample, TcRun, NextIteration
    <3> QED
      BY <2>1, <3>1 DEF TickInv
  <2>4. CASE TcCopy \/ ~(TcEnter \/ TcStep)
    <3>1. (tcPc' # "idle" => tcPc # "idle") /\ UNCHANGED atTick
      <4>1. CASE TcCopy
        BY <4>1 DEF TcCopy, historyVars
      <4>2. CASE ~(TcEnter \/ TcStep)
        BY <4>2 DEF Next, ChainHardware, StartUp, ChainIrq, DmaCell, TransferDone,
                    SelectAlt, BusReset, vars, samplerVars, historyVars
      <4> QED
        BY <2>4, <4>1, <4>2
    <3> QED
      BY <2>1, <3>1 DEF TickInv
  <2> QED
    BY <2>2, <2>3, <2>4 DEF TcStep
<1> QED
  BY <1>1, <1>2

(* All samples of a frame are those the store held when tc_irq began:      *)
(* equal interrupt levels are enough, whatever the number of channels.     *)
THEOREM OneInstant == Spec => FrameIsOneInstant
<1>1. Init => TickInv
  BY DEF Init, TickInv
<1>2. AlignInv /\ TickInv /\ [Next]_vars
        => [TcSample => Latest(chan) = atTick[chan]]_vars
  <2> SUFFICES ASSUME AlignInv, TickInv, TcSample PROVE Latest(chan) = atTick[chan]
    OBVIOUS
  <2>1. tcPc = "sample" /\ chan \in 0 .. NbChannels - 1
    BY DEF TcSample, AlignInv, SamplerInv
  <2> QED
    BY <2>1 DEF TickInv
<1> QED
  BY <1>1, <1>2, AlignInit, AlignStep, TickStep, PTL DEF Spec, FrameIsOneInstant

-----------------------------------------------------------------------------
(* What AlignInv leaves of the types.                                      *)
RestInv ==
  /\ setting \in {0, 1}
  /\ iface \in {Down, 0, 1}
  /\ refused \in BOOLEAN
  /\ atTick \in [0 .. NbChannels - 1 -> Int16]

LEMMA RestStep == AlignInv /\ RestInv /\ [Next]_vars => RestInv'
<1> SUFFICES ASSUME AlignInv, RestInv, [Next]_vars PROVE RestInv'
  OBVIOUS
<1>1. setting' \in {0, 1} /\ iface' \in {Down, 0, 1}
  <2>1. CASE UNCHANGED <<setting, iface>>
    BY <2>1 DEF RestInv
  <2>2. CASE BusReset \/ \E alt \in {0, 1} : SelectAlt(alt)
    BY <2>2 DEF BusReset, SelectAlt, RestInv
  <2> QED
    BY <2>1, <2>2 DEF Next, ChainHardware, StartUp, ChainIrq, TcEnter, TcStep, TcSample,
                      TcCopy, TcRun, DmaCell, TransferDone, usbVars, vars
<1>2. refused' \in BOOLEAN
  <2>1. CASE TcRun
    BY <2>1, Zenon DEF TcRun
  <2>2. CASE UNCHANGED refused
    BY <2>2, Zenon DEF RestInv
  <2>3. TcRun \/ UNCHANGED refused
    BY DEF Next, ChainHardware, StartUp, ChainIrq, TcEnter, TcStep, TcSample, TcCopy,
           DmaCell, TransferDone, BusReset, SelectAlt, historyVars, vars
  <2> QED
    BY <2>1, <2>2, <2>3
<1>3. atTick' \in [0 .. NbChannels - 1 -> Int16]
  <2>1. CASE TcEnter
    <3>1. atTick' = [c \in 0 .. NbChannels - 1 |-> Latest(c)]
      BY <2>1 DEF TcEnter
    <3>2. \A c \in 0 .. NbChannels - 1 : c \in Channels
      BY Packet
    <3>3. \A c \in Channels : Latest(c) \in Int16
      BY LatestRange DEF AlignInv, TypeInv
    <3> QED
      BY <3>1, <3>2, <3>3 DEF Latest
  <2>2. CASE UNCHANGED atTick
    BY <2>2 DEF RestInv
  <2>3. CASE atTick' = NoTick
    BY <2>3, SampleRange DEF NoTick
  <2> QED
    BY <2>1, <2>2, <2>3
       DEF Next, ChainHardware, StartUp, ChainIrq, TcStep, TcSample, TcCopy, TcRun,
           NextIteration, DmaCell, TransferDone, BusReset, SelectAlt, historyVars, vars
<1> QED
  BY <1>1, <1>2, <1>3 DEF RestInv

(* Every variable of the audio path keeps its type: no index leaves its    *)
(* packet, for any packet size and any host.                               *)
THEOREM AudioTypeCorrect == Spec => []AudioTypeOK
<1>1. Init => RestInv
  <2>1. Init => refused \in BOOLEAN
    BY Zenon DEF Init
  <2> QED
    BY <2>1, SampleRange DEF Init, RestInv, NoTick
<1>2. AlignInv /\ RestInv => AudioTypeOK
  BY DEF AlignInv, TypeInv, SamplerInv, PacketInv, SendInv, RestInv, AudioTypeOK
<1> QED
  BY <1>1, <1>2, AlignInit, AlignStep, RestStep, PTL DEF Spec
-----------------------------------------------------------------------------
(* What the host has received, and the buffer it came from.                *)

(* The controller reads the buffer as it is.                               *)
LEMMA DmaKeepsIntact ==
  ASSUME AlignInv, SentIntact, DmaCell
  PROVE  SentIntact'
<1>1. /\ sent \in Cells /\ wire \in [Cells -> Int16]
      /\ wire' = [wire EXCEPT ![sent] = gBuffer[sent]]
      /\ sent' = sent + 1 /\ gBuffer' = gBuffer
  BY CellRange DEF DmaCell, AlignInv, SendInv
<1> SUFFICES ASSUME NEW k \in 0 .. sent PROVE wire'[k] = gBuffer[k]
  BY <1>1, CellRange, SMT DEF SentIntact
<1>2. k \in Cells /\ (k = sent \/ k \in 0 .. sent - 1)
  BY <1>1, CellRange, SMT DEF Cells
<1>3. CASE k = sent
  BY <1>1, <1>3
<1>4. CASE k # sent
  BY <1>1, <1>2, <1>4 DEF SentIntact
<1> QED
  BY <1>3, <1>4

(* Only memcpy and the controller disturb what was read; the rest leaves   *)
(* both sides alone, or drops the transfer.                                *)
LEMMA IntactStep ==
  ASSUME AlignInv, [Next]_vars, SentIntact, ~(TcCopy /\ busy)
  PROVE  SentIntact'
<1>1. CASE UNCHANGED <<gBuffer, sent, wire>>
  BY <1>1 DEF SentIntact
<1>2. CASE ChainHardware \/ StartUp \/ ChainIrq \/ TcEnter \/ TcSample \/ TcRun
  BY <1>1, <1>2 DEF ChainHardware, StartUp, ChainIrq, TcEnter, TcSample, TcRun, usbVars
<1>3. CASE TcCopy
  <2>1. busy = FALSE /\ sent' = sent /\ sent = 0
    BY <1>3, Zenon DEF TcCopy, usbVars, AlignInv, SendInv
  <2> QED
    BY <2>1, SMT DEF SentIntact
<1>4. CASE DmaCell
  BY <1>4, DmaKeepsIntact
<1>5. CASE TransferDone \/ BusReset \/ \E alt \in {0, 1} : SelectAlt(alt)
  <2>1. sent' = 0
    BY <1>5 DEF TransferDone, BusReset, SelectAlt, DropTransfer
  <2> QED
    BY <2>1, SMT DEF SentIntact
<1>6. CASE UNCHANGED vars
  BY <1>1, <1>6 DEF vars, usbVars
<1> QED
  BY <1>2, <1>3, <1>4, <1>5, <1>6 DEF Next, TcStep

(* A transfer that begins has sent nothing; one that is under way when     *)
(* udd_ep_run is called makes it refuse.                                   *)
LEMMA DamageStep ==
  AlignInv /\ OnlyRefusedPacketsDamage /\ [Next]_vars => OnlyRefusedPacketsDamage'
<1> SUFFICES ASSUME AlignInv, OnlyRefusedPacketsDamage, [Next]_vars,
                    busy', ~refused', tcPc' \notin {"copy", "run"}
             PROVE  SentIntact'
  BY Zenon DEF OnlyRefusedPacketsDamage
<1>1. CASE TcRun
  <2>1. busy = FALSE /\ UNCHANGED sent
    BY <1>1, Zenon DEF TcRun, AlignInv, SendInv
  <2>2. sent' = 0
    BY <2>1, Zenon DEF AlignInv, SendInv
  <2> QED
    BY <2>2, SMT DEF SentIntact
<1>2. CASE ~TcRun
  <2>1. ~TcCopy
    BY Zenon DEF TcCopy
  <2>2. tcPc \notin {"copy", "run"}
    <3>1. CASE TcEnter \/ TcSample
      BY <3>1, Zenon DEF TcEnter, TcSample
    <3>2. CASE UNCHANGED tcPc
      BY <3>2, Zenon
    <3> QED
      BY <1>2, <2>1, <3>1, <3>2, Zenon
         DEF Next, ChainHardware, StartUp, ChainIrq, TcStep, DmaCell, TransferDone,
             SelectAlt, BusReset, vars, samplerVars
  <2>3. refused' = refused
    BY <1>2, <2>1, Zenon
       DEF Next, ChainHardware, StartUp, ChainIrq, TcEnter, TcStep, TcSample, DmaCell,
           TransferDone, SelectAlt, BusReset, vars, historyVars
  <2>4. busy
    BY <1>2, <2>1, Zenon
       DEF Next, ChainHardware, StartUp, ChainIrq, TcEnter, TcStep, TcSample, DmaCell,
           TransferDone, SelectAlt, BusReset, DropTransfer, vars, usbVars
  <2>5. SentIntact
    BY <2>2, <2>3, <2>4, Zenon DEF OnlyRefusedPacketsDamage
  <2> QED
    BY <2>1, <2>5, IntactStep
<1> QED
  BY <1>1, <1>2

(* What the host has received of a packet is what the buffer holds, unless *)
(* a later packet has been refused or is just being copied in: only a      *)
(* packet that udd_ep_run then refuses can damage one under way            *)
(* (udi_audio.c:99-105).                                                   *)
THEOREM OnlyRefusedDamage == Spec => []OnlyRefusedPacketsDamage
<1>1. Init => OnlyRefusedPacketsDamage
  BY Zenon DEF Init, OnlyRefusedPacketsDamage
<1> QED
  BY <1>1, AlignInit, AlignStep, DamageStep, PTL DEF Spec

(* Frames carry whole packets as long as the host has always fetched one   *)
(* by the time the next is copied in: that copy is the only thing that can *)
(* tear one (udi_audio.c:101, "One packet per frame" in udi_audio.h:150).  *)
THEOREM PromptHostGetsPackets ==
  Spec /\ [][TcCopy => ~busy]_vars => []OnePacketPerFrame
<1>1. Init => SentIntact
  BY SMT DEF Init, SentIntact
<1>2. AlignInv /\ SentIntact /\ [Next]_vars /\ [TcCopy => ~busy]_vars => SentIntact'
  <2> SUFFICES ASSUME AlignInv, SentIntact, [Next]_vars, [TcCopy => ~busy]_vars
               PROVE  SentIntact'
    OBVIOUS
  <2>1. CASE UNCHANGED vars
    BY <2>1 DEF vars, usbVars, SentIntact
  <2>2. CASE ~UNCHANGED vars
    <3>1. ~(TcCopy /\ busy)
      BY <2>2, Zenon
    <3> QED
      BY <3>1, IntactStep
  <2> QED
    BY <2>1, <2>2
<1>3. SentIntact => OnePacketPerFrame
  BY Zenon DEF OnePacketPerFrame
<1> QED
  BY <1>1, <1>2, <1>3, AlignInit, AlignStep, PTL DEF Spec
-----------------------------------------------------------------------------
(* The chain inside the path: tc_irq may hold the SPI handler off for as   *)
(* long as it likes, and no word is lost, doubled or overwritten, and the  *)
(* timer handler still finds one register per input (sampler.c:76-90).     *)
THEOREM PathImplementsRegister ==
  ASSUME IerWriteZeroMasks = TRUE
  PROVE  Spec => [](SingleWord /\ NoOverrun /\ StoreHoldsNewest) /\ StoreIsRegister
<1>1. Init => AdcInit /\ StoreHoldsNewest
  BY DEF Init, AdcInit, StoreHoldsNewest, Latest
<1>2. TypeInv /\ ChainInv => SingleWord /\ NoOverrun
  BY SMT DEF ChainInv, OneWord, Transmitting, Shifting, Received,
             SingleWord, NoOverrun, Started, WordsUnderWay
<1>3. TypeInv /\ ChainInv /\ PipelineInv /\ ReceivedInv /\ StoreHoldsNewest /\ StoreHoldsNewest'
        /\ [AdcNext]_adcVars => [Register!RegisterNext]_Register!registerVars
  BY RegisterStep
<1> QED
  BY <1>1, <1>2, <1>3, ChainInside, TypeInit, TypeStep, StoreStep, ChainInit, ChainStep,
     PipelineInit, PipelineStep, ReceivedInit, ReceivedStep, RegisterStarts, PTL
     DEF Spec, StoreIsRegister, Register!RegisterSpec
-----------------------------------------------------------------------------
(* What the host sees.                                                     *)

LEMMA NothingGot == [k \in 0 .. 0 - 1 |-> wire[k]] = Host!Nothing
<1>1. 0 .. 0 - 1 = {}
  BY SMT
<1> QED
  BY <1>1 DEF Host!Nothing

LEMMA HostStarts == Init => Host!StreamInit
<1> SUFFICES ASSUME Init PROVE Host!StreamInit
  OBVIOUS
<1>1. (iface = 1) = FALSE
  BY SMT DEF Init, Down
<1>2. busy = FALSE /\ sent = 0
  BY DEF Init
<1>3. [k \in 0 .. sent - 1 |-> wire[k]] = Host!Nothing
  BY <1>2, NothingGot
<1> QED
  BY <1>1, <1>2, <1>3, Zenon DEF Host!StreamInit

(* Dropping a transfer is all that the host's own requests and the end of  *)
(* a transfer show of themselves.                                          *)
LEMMA HostDrops == DropTransfer => Host!Idle
<1> SUFFICES ASSUME DropTransfer PROVE Host!Idle
  OBVIOUS
<1>1. busy' = FALSE /\ sent' = 0
  BY DEF DropTransfer
<1>2. [k \in 0 .. 0 - 1 |-> wire'[k]] = Host!Nothing
  <2>1. 0 .. 0 - 1 = {}
    BY SMT
  <2> QED
    BY <2>1 DEF Host!Nothing
<1>3. [k \in 0 .. sent' - 1 |-> wire'[k]] = Host!Nothing
  BY <1>1, <1>2
<1> QED
  BY <1>1, <1>3, Zenon DEF Host!Idle

(* A cell the controller reads comes from the buffer, whole and aligned    *)
(* from the moment the transfer began, whatever is copied over it.         *)
LEMMA HostIsBrought == AlignInv /\ DmaCell => Host!Bring
<1> SUFFICES ASSUME AlignInv, DmaCell PROVE Host!Bring
  OBVIOUS
<1> DEFINE cell == gBuffer[sent]
           before == [k \in 0 .. sent - 1 |-> wire[k]]
<1>1. /\ busy = TRUE /\ sent < SamplesPerPacket
      /\ wire' = [wire EXCEPT ![sent] = cell]
      /\ sent' = sent + 1 /\ iface' = iface /\ busy' = busy
  BY Zenon DEF DmaCell, AlignInv, SendInv
<1>2. /\ sent \in Cells /\ sent \in Nat /\ wire \in [Cells -> Int16]
      /\ InStream(gBuffer, SamplesPerPacket)
  BY <1>1, CellRange DEF AlignInv, SendInv
<1>3. cell \in [k \in Cells |-> Stream(k % NbChannels)][sent]
  BY <1>2 DEF InStream, Cells
<1> HIDE DEF cell
<1>4. [k \in 0 .. sent' - 1 |-> wire'[k]]
        = [k \in 0 .. sent |-> IF k = sent THEN cell ELSE before[k]]
  <2>1. sent' - 1 = sent /\ 0 .. sent' - 1 = 0 .. sent
    BY <1>1, <1>2, SMT
  <2>2. ASSUME NEW k \in 0 .. sent
        PROVE  wire'[k] = IF k = sent THEN cell ELSE before[k]
    <3>1. k \in Cells /\ (k # sent => k \in 0 .. sent - 1)
      BY <1>2, CellRange, SMT DEF Cells
    <3> QED
      BY <1>1, <1>2, <3>1
  <2> HIDE DEF before
  <2> QED
    BY <2>1, <2>2
<1>5. ((iface = 1)' = (iface = 1)) /\ busy' = busy
  BY <1>1
<1> HIDE DEF before
<1> QED
  BY <1>1, <1>3, <1>4, <1>5, Zenon DEF Host!Bring, before

LEMMA HostStep ==
  AlignInv /\ [Next]_vars => [Host!StreamNext]_Host!streamVars
<1> SUFFICES ASSUME AlignInv, [Next]_vars PROVE [Host!StreamNext]_Host!streamVars
  OBVIOUS
<1>1. CASE UNCHANGED <<iface, busy, sent, wire>>
  BY <1>1 DEF Host!streamVars
<1>2. CASE ChainHardware \/ StartUp \/ ChainIrq \/ TcEnter \/ TcSample \/ TcCopy
  BY <1>1, <1>2 DEF ChainHardware, StartUp, ChainIrq, TcEnter, TcSample, TcCopy, usbVars
<1>3. CASE TcRun
  <2>1. UNCHANGED <<iface, sent, wire>>
    BY <1>3 DEF TcRun
  <2>2. CASE iface = 1 /\ ~busy
    <3>1. busy' = TRUE
      BY <1>3, <2>2, Zenon DEF TcRun
    <3> QED
      BY <2>1, <2>2, <3>1, Zenon DEF Host!StreamNext, Host!Begin
  <2>3. CASE ~(iface = 1 /\ ~busy)
    <3>1. busy' = busy
      BY <1>3, <2>3, Zenon DEF TcRun
    <3> QED
      BY <1>1, <2>1, <3>1
  <2> QED
    BY <2>2, <2>3
<1>4. CASE DmaCell
  BY <1>4, HostIsBrought, Zenon DEF Host!StreamNext
<1>5. CASE TransferDone
  <2>1. busy /\ sent = SamplesPerPacket /\ Host!Idle /\ iface' = iface
    BY <1>5, HostDrops, Zenon DEF TransferDone
  <2> QED
    BY <2>1, Zenon DEF Host!StreamNext, Host!Finish
<1>6. CASE BusReset \/ \E alt \in {0, 1} : SelectAlt(alt)
  <2>1. Host!Idle
    BY <1>6, HostDrops DEF BusReset, SelectAlt
  <2>2. (iface' = 1) \in BOOLEAN
    OBVIOUS
  <2> QED
    BY <2>1, <2>2, Zenon DEF Host!StreamNext, Host!Switch
<1>7. CASE UNCHANGED vars
  BY <1>1, <1>7 DEF vars, usbVars
<1> QED
  BY <1>2, <1>3, <1>4, <1>5, <1>6, <1>7 DEF Next, TcStep

(* What the host sees of the board is what HostStream lets it see, for any *)
(* number of channels and any packet size: a transfer starts only on an    *)
(* open stream, is never started over by the packets udd_ep_run refuses    *)
(* (udi_audio.c:102), and brings each position one cell of its channel.    *)
THEOREM ImplementsStream == Spec => FeedsHost
  BY AlignInit, AlignStep, HostStarts, HostStep, PTL
     DEF Spec, FeedsHost, Host!StreamSpec
-----------------------------------------------------------------------------
(* What the host hears.                                                    *)

(* A host that reads its samples lowest byte first undoes LE16.            *)
LEMMA SwapUndone == \A sample \in Int16 : Le16(Le16(sample)) = sample
<1> SUFFICES ASSUME NEW sample \in Int16 PROVE Le16(Le16(sample)) = sample
  OBVIOUS
<1>1. sample \in Int /\ -32768 <= sample /\ sample <= 32767
  <2>1. MinInt16 = -32768 /\ MaxInt16 = 32767
    BY SMT DEF MinInt16, MaxInt16
  <2> QED
    BY <2>1, Ranges, SMT
<1> DEFINE u == sample % 65536
           hi == u \div 256
           lo == u % 256
           v == lo * 256 + hi
<1>2. u \in Int /\ 0 <= u /\ u <= 65535 /\ ToInt16(u) = sample
  BY <1>1, SMT DEF ToInt16
<1> HIDE DEF u
<1>3. /\ hi \in Int /\ 0 <= hi /\ hi <= 255
      /\ lo \in Int /\ 0 <= lo /\ lo <= 255
      /\ u = hi * 256 + lo
  BY <1>2, SMT
<1>4. Le16(sample) = ToInt16(v)
  BY DEF Le16, u
<1> HIDE DEF hi, lo
<1>5. v \in Int /\ 0 <= v /\ v <= 65535 /\ v % 256 = hi /\ v \div 256 = lo
  BY <1>3, SMT
<1> HIDE DEF v
<1>6. ToInt16(v) % 65536 = v
  BY <1>5, SMT DEF ToInt16
<1>7. Le16(ToInt16(v)) = ToInt16((v % 256) * 256 + v \div 256)
  BY <1>6 DEF Le16
<1> QED
  BY <1>2, <1>3, <1>4, <1>5, <1>7

(* A 12-bit reading, as the upper bits of a 16-bit sample.                 *)
Heard(c) == {ToInt16(16 * r) : r \in Readings[c]} \cup {NoSample}

LEMMA StoredHeard ==
  ASSUME NEW c \in Channels
  PROVE  Stored(c) \subseteq Heard(c) /\ Stored(c) \subseteq Int16
<1> SUFFICES ASSUME NEW s \in Stored(c) PROVE s \in Heard(c) /\ s \in Int16
  OBVIOUS
<1>1. CASE s = NoSample
  BY <1>1, SampleRange DEF Heard
<1>2. CASE s # NoSample
  <2>1. PICK r \in Readings[c] : s = SampleOf(ResponseWord(c, r, 0))
    BY <1>2 DEF Stored
  <2>2. s = ToInt16(16 * r)
    BY <2>1, ResponseDecodes
  <2>3. r \in Int /\ 0 <= r /\ r <= 4095
    BY <2>1, ReadingRange
  <2>4. s \in Int /\ -32768 <= s /\ s <= 32767
    BY <2>2, <2>3, SMT DEF ToInt16
  <2>5. MinInt16 = -32768 /\ MaxInt16 = 32767
    BY SMT DEF MinInt16, MaxInt16
  <2>6. s \in Int16
    BY <2>4, <2>5, Ranges, SMT
  <2> QED
    BY <2>1, <2>2, <2>6 DEF Heard
<1> QED
  BY <1>1, <1>2

HostHearsReadings == \A k \in 0 .. sent - 1 : Le16(wire[k]) \in Heard(k % NbChannels)

(* From microphone to host: what the host makes of position k of a packet, *)
(* lowest byte first, is a reading the converter took of input k modulo    *)
(* the number of channels, all twelve bits of it and its sign, or the      *)
(* initial -1.  None of the path's encodings loses or mixes up a bit       *)
(* (ADC.c:60-61, sampler.c:79-81), and no interleaving of them does.       *)
THEOREM MicrophoneToHost == Spec => []HostHearsReadings
<1>1. AlignInv => HostHearsReadings
  <2> SUFFICES ASSUME AlignInv, NEW k \in 0 .. sent - 1
               PROVE  Le16(wire[k]) \in Heard(k % NbChannels)
    BY DEF HostHearsReadings
  <2>1. sent \in 0 .. SamplesPerPacket /\ wire[k] \in Stream(k % NbChannels)
    BY DEF AlignInv, SendInv, InStream
  <2>2. k \in Nat
    BY SMT
  <2>3. k % NbChannels \in Channels
    BY <2>2, Packet
  <2>4. PICK s \in Stored(k % NbChannels) : wire[k] = Le16(s)
    BY <2>1 DEF Stream
  <2>5. s \in Heard(k % NbChannels) /\ s \in Int16
    BY <2>3, <2>4, StoredHeard
  <2> QED
    BY <2>4, <2>5, SwapUndone
<1> QED
  BY <1>1, AlignInit, AlignStep, PTL DEF Spec
=============================================================================
