# A TLA+ model of the BowerBird firmware

BowerBird is a pair of AVR32 boards around a BeagleBoard. The **sound board**
digitises microphone signals and is a USB audio device to the Beagle; the
**power board** listens to the Beagle's serial console, passes it on to a USB
host, and acts on commands it finds there. The two programs share no code and
never talk to each other. This directory models both from their C sources, checks
the models with TLC, and proves the central invariants with TLAPS.

## Inventory

### Sound board (`src/SoundBoard`)

| component | state | operations | what makes it correct |
|---|---|---|---|
| **Conversion chain** `ADC.c` | SPI registers, the AD7928's address, `currWriteBuf`, `latestSamples1/2`, `latestSelector` | `ADC_Init` (polled), `spi_int_handler` | the chain of conversions neither dies out nor doubles; no received frame is lost; both inputs take turns; `tc_irq` gets the newer of the two buffers |
| **Sampler** `sampler.c` | `samples`, `sampleIndex` | `tc_irq` at 32 kHz | all samples of a tick are of one instant; channel *c* is always at the positions congruent to *c* |
| **USB audio** `udi_audio.c` | `setting`, `gBuffer`, the endpoint | enable, disable, `udi_audio_send_samples`, transfer complete | packets go out one per frame and whole; a refused packet never wedges the stream |
| **Main loop** `main.c` | none of its own; the CDC buffers | start-up, echo, `?`, `q`, `a` commands | a command that was begun is finished; start-up order |
| **Preamplifier** `PreAmp.c` | the eight pots behind I2C, the write-protect pin | init, read, write | one pot per input; write protection restored on every path; an acknowledged gain stays |
| ring buffer `ring_buffer.h` | two 8-bit offsets | put, get, full, empty | unused: its only call is commented out |
| descriptors, configuration, build | none | | constants |

The sound board's `main` enables interrupts, runs `ADC_Init`, then starts the
timer, then the console. From then on everything happens in three interrupt
handlers, all of level INT0, so that none interrupts another: the SPI handler
stores a conversion and asks for the next one; the timer handler reads the store
(a selector and a buffer per channel) and every so many samples copies a packet to
`gBuffer` and asks the USB driver to send it; the USB handler changes the
alternate setting, ends transfers, and prints what it did to the console. The SPI
peripheral, the converter and the USB controller's DMA run alongside, and `main`
runs when no handler does: it sets the preamplifiers' gains, then echoes what comes
over the USB console and obeys three one-letter commands.

### Power board (`src/PowerBoard`)

| component | state | operations | what makes it correct |
|---|---|---|---|
| **Command parser** `comms.c` | `CommandBuffer`, its index, the prefix index, `InCommand` | `ProcessByte` and the handlers | a command, and the text and numbers it takes, is what follows the magic prefix up to the end of its own line, and nothing else |
| **Main loop and USART** `main.c` | two 64-byte FIFOs | receive interrupt, main loop, `WriteStringToUSB` | bytes pass in order; the loop stops only where it waits for the host; bytes are lost only behind such a wait |
| LCD driver, configuration, build | none | | empty or constant |

The receive interrupt pushes bytes into a FIFO, the main loop pulls them, gives
them to `ProcessByte`, and echoes them to USB if there is room. Command reports
go to USB too, but wait for room.

### What is hard here

Listed line by line as hazards in `PROJECT.json`. In short: handlers, polled
start-up code, the shift register and a DMA sharing registers and buffers; a
conversion chain that only its own handler keeps alive; a converter that answers
one frame late; packets that are refused or overwritten; streams that stop in
mid-packet; a parser whose input may be cut, spliced and noisy, and whose buffer
remembers; unbounded waits for a USB host that may not be there.

## Modules

| module | models | extends, instantiates |
|---|---|---|
| `AdcChain` | `ADC.c`, the SPI peripheral, the converter | `SampleRegister` |
| `SampleRegister` | what the chain promises a reader | |
| `AudioPath` | `sampler.c`, `udi_audio.c`, the endpoint and its DMA, on top of the chain | `AdcChain`, `HostStream` |
| `HostStream` | what the sound board promises a USB host | |
| `PreAmp` | `PreAmp.c` and the potentiometers | |
| `SoundConsole` | the sound board's `main.c`, its console, what the USB callbacks print, on top of the preamplifiers | `PreAmp` |
| `CommandParser` | `comms.c` | `LineParser` |
| `LineParser` | what `ProcessByte` promises the main loop | |
| `PowerBoard` | the power board's `main.c`: interrupt, FIFOs, main loop, USB console, on top of the abstract parser | `LineParser`, `SerialPipe` |
| `SerialPipe` | what the power board promises the Beagle | `LineParser` |
| `MCAdcChain`, `MCAudioPath`, `MCCommandParser`, `MCPowerBoard`, `MCSoundConsole` | small constants for TLC | the above |
| `AdcChainProofs`, `AudioPathProofs`, `CommandParserProofs`, `PowerBoardProofs`, `SoundConsoleProofs` | theorems and proofs | the above |

Four abstract specifications are refined. `StoreIsRegister` shows that the chain with
its words, two buffers and selectors is `SampleRegister`: one register per input,
written whole. `FeedsHost` shows that the path from converter to endpoint is
`HostStream`: transfers begin only on an open stream, are never started over or
taken back a cell, bring each position something of its own channel, and end only
with the packet or at the host's word. `ParsesLines` shows that the parser with its
buffer and words is `LineParser`, and `PowerBoard` uses only the latter, so what it
shows holds for `comms.c`. `ParsesInOrder` shows that the USART's register, the
interrupt, the FIFO and the main loop are `SerialPipe`: one queue in front of the
parser, which loses nothing but the newest byte when it is too long.

Definitions whose names carry an underscore and a slip (`StoreSample_SelectedBuffer`,
`TcRun_Blocking`) are faulty variants: no specification uses them. Put in the place
of the definition that follows, each makes some property fail, which shows that
the property depends on the code being as it is.

### AdcChain

| code | model |
|---|---|
| `SPI.TDR`, shift register, `RDR`, `SR.RDRF`, `IMR.RDRF` | `tdr`, `shifter`, `rdr`, `rdrf`, `ier` |
| the AD7928 (external): answers a frame with the input addressed by the frame before | `adcAddr`, `SpiShift` |
| `ADC_Init` line by line | `initPc`, `InitEnable` ... `InitStart` |
| `spi_int_handler` | `SpiIrq` = `StoreSample`, `WriteNext` |
| `latestSamples1/2`, `latestSelector` | the same |

Words are 16-bit numbers, and the handler's masks and shifts are arithmetic on
them, because `SampleOf` and `ChannelOf` must be shown to undo what the converter
puts in a frame, for every reading and every value of the padding bit.
`newest` and `served` are history variables.

`IerWriteZeroMasks` is a parameter because the code and the part may disagree:
`ADC.c:276` writes 0 to the interrupt *enable* register to keep the handler out of
the two dummy frames, between writes of 1 that let it in. If IER only ever sets
bits, as is usual for a register that has a disabling counterpart, the write does
nothing. `TypeOK` and `StoreHoldsNewest` are proved whichever it is. `SingleWord`,
`NoOverrun`, `TwoFrameAlternation`, `InitCompletes` and `StoreIsRegister` are
checked, and but for `InitCompletes` proved, for TRUE only: with FALSE the handler may
take the frame `ADC_Init` is polling for and start a transfer of its own, so they say
nothing of a part that does not mask. The run `adc_set_only` is about that one: both
channels are still refreshed for ever.

`StoreHoldsNewest` is about `tc_irq`, which reads by the selector. The `a` command
prints `latestSamples1` whatever the selector says (`main.c:92`), so what it shows may
be one sample old.

### AudioPath

`tc_irq` is modelled step by step (`tcPc`): entering, one `TcSample` per channel, a
`TcCopy` per cell of `memcpy`, `TcRun` for `udd_ep_run`, because the DMA reads
`gBuffer` meanwhile. The levels are in the model as `SpiLevel` and `TcLevel`:
`ChainIrq` may run inside `tc_irq` only if its level is higher. The rates of timer,
converter and host are left open: any number of conversions, ticks and DMA reads
may fall between any two others. The USB side is what `udi_audio.c` relies on of the
driver: an endpoint that is freed on reset and on every change of setting, refuses
a second transfer while one is under way, and is called at the same level as the
other handlers. `refused` and `atTick` are history variables. Left out: `tc_tick`
(nothing uses its value) and the `printf` calls of the USB callbacks, which are in
`SoundConsole`. What `SoundConsole` shows of them limits what is shown here: the
stream flows as long as no callback is stuck in one.

### PreAmp and SoundConsole

`PreAmp` gives `PreAmp_Init` and the three stages of `PreAmp_write`
(pin up, transfer, pin down) as steps; `PotOf` is the address arithmetic of
`RDAC_TWI_ADDR` and `RDAC_1_OR_3`. A transfer may fail, and a failed write may or may
not have reached its pot; a pot whose pin is down acknowledges a write and ignores
it. What a pot holds before the first write is not known (`NoGain`). `accepted`, a
history variable, remembers each channel's last acknowledged gain. `PreAmp_read`
changes no state, and what it returns is only printed: `ReadGain` is its place in the
program and its message, without the number.

`main` is a program of steps (`todo`): the start-up (`Boot`), or what a console
character asks for (`Command`). A step that prints leaves characters to write
(`left`), which go into the CDC buffer one at a time and wait for room while the
device is configured (`Room`, `PutInTx`: external, from `stdio_usb`). A USB callback
does the same inside the interrupt (`irqLeft`), during which neither `main` nor
another handler runs; so `TxDone`, which makes room, has to wait for it. The host
may configure, change the setting, reset, type, read or not, at any moment.

### CommandParser

The parser works on bytes; the model's alphabet, prefix, command words and buffer
length are constants, since the code depends only on how the words overlap and how
long they are. The buffer is an array with one more cell, standing for the byte
that follows it in memory. What a completed line is understood as is a record
(`report`): the command, and whatever else of the buffer the handler prints or passes
on, be it a pin, a device, the two numbers of the Beagle reset command, or the text up
to the next terminator (`StringAt`). `report` and the parser's own variables are all
the state the handlers change, as the power-switching calls are commented out in the
code. The library's `strtoul` is a constant operator, from a string to the number it
begins with and the rest of it. A reset
command hangs until the watchdog restarts the program (`hung`, `WatchdogFires`).
Seen as `LineParser`, a byte does nothing, completes a command, or is the end of a
reset command (`Outcome`). Left out: the wording around what is printed; what goes to
the LCD, which is the same text as what goes to USB, or the command's fixed words; and
`SetDelayedBeaglePowerDown` and the functions of the Beagle watchdog, which are empty.

### PowerBoard

| code | model |
|---|---|
| `main`, `main_loop`, statement by statement | `pc`: `StartLoop`, `PollUsb`, `GetChar`, `SendOne`, `Input`, `Report`, `Echo` |
| `usart_int_handler`, at level 3 | `UsartIrq`; `MainRuns` keeps `main` from running while it is pending |
| the USART (external) | `rhr`, `rxError`, `usartBusy`; `ByteArrives`, `LineError`, `UsartTx` |
| `beagleInFIFO`, `beagleOutFIFO` | `inFifo`, and only the fill `outUsed` of the other |
| `ProcessByte` | `LineParser`'s, then `left` characters of report |
| `WriteStringToUSB`, the CDC buffers (external) | `Report`; `tx`, `hostChars`, `hostReads` |
| `ProcessResetCommand` and the watchdog | `pc = "spin"`, `WatchdogFires`, which starts everything anew |

Both pushes ignore a full FIFO, as in the code. A byte on a 115200 baud line takes
87 us, much longer than an iteration of the loop, so `ByteArrives` allows one byte an
iteration (`arrived`) unless the loop is kept waiting (`KeptWaiting`), when any number
may come. `heldUp` is a history variable. `LineErrors` says whether the line errs.

## Runs

| run | module, cfg | shows |
|---|---|---|
| `adc` | `MCAdcChain`, `AdcChain.cfg` | the chain with masking: `StoreHoldsNewest`, `SingleWord`, `NoOverrun`, `TwoFrameAlternation`, `InitCompletes`, `EveryChannelRefreshed`, and the refinement `StoreIsRegister` |
| `adc_set_only` | `MCAdcChain`, `AdcSetOnly.cfg` | `EveryChannelRefreshed` even if IER only sets |
| `audio` | `MCAudioPath`, `AudioPath.cfg` | `ChannelsAligned`, `OnlyRefusedPacketsDamage`, `FrameIsOneInstant`, and the refinement `FeedsHost` |
| `audio_live` | `MCAudioPath`, `AudioLive.cfg` | `StreamKeepsFlowing`, under fairness |
| `audio_torn` | `MCAudioPath`, `AudioTorn.cfg` | `OnePacketPerFrame` is violated |
| `parser` | `MCCommandParser`, `Parser.cfg` | `PrefixSound`, `NewlineResyncs`, `LineIntact`, `SeparatedLineActsAlone` over any byte sequence, and the refinement `ParsesLines` |
| `parser_missed` | `MCCommandParser`, `ParserMissed.cfg` | `NoPrefixMissed` is violated |
| `parser_stale` | `MCCommandParser`, `ParserStale.cfg` | `LineActsAlone` is violated |
| `parser_terminator` | `MCCommandParser`, `ParserTerminator.cfg` | `TerminatorInBuffer` is violated |
| `powerboard` | `MCPowerBoard`, `PowerBoard.cfg` | input is lost only behind a wait (`LossMeansHeldUp`), and parsed in order (the refinement `ParsesInOrder`); the loop stops in two places only (`LoopStopsOnlyWaiting`), reports get through to a host that reads (`ReportsGetThrough`), the host's typing keeps going out (`HostInputDrains`); a line error stops everything (`ErrorStopsProgram`) |
| `soundboard` | `MCSoundConsole`, `SoundConsole.cfg` | protection and gains through failing transfers (`ProtectedAtRest`, `GainsStay`); unless a callback is stuck, a command begun is finished (`ConsoleAnswers`), and a character that was there at the test and is gone at the call makes `main` wait no longer than the host is silent and connected (`StaleTestOnlyWaits`) |
| `soundboard_wedged` | `MCSoundConsole`, `SoundWedged.cfg` | `TimerKeepsRunning` is violated |

All state spaces are finite without constraints, and deadlock is checked
throughout.

### Bounds

- **Readings.** One or two 12-bit results per input. `adc` takes both ends of the
  two's complement range; the others take just enough for two packets, or two
  buffers, to differ and for a misplaced channel to show. `ResponseDecodes` is
  proved for all readings.
- **Packets.** Two channels as in the code, packets of one or two frames instead of
  32. Two frames are enough for a packet to be part-filled at a frame boundary,
  overwritten in part and sent in part. `Aligned` is proved for all sizes.
- **Parser.** Four letters and an end of line, a two-letter prefix, words of one or
  two letters, and a buffer of five cells: just enough for the longest command
  (`power on <device>`), so that every command can also be truncated, followed by
  a shorter one, or run to the end of the buffer. The words overlap as the real ones
  do: both resets begin alike, and the first letter of the prefix does not come
  again in it. A word may begin with a letter of the prefix. A number is one digit, with
  the blank in front of it if there is one (`MCStrtoul`), which is enough for a number
  of an older line to be taken for this one's; the theorems hold for any `strtoul`. The
  input is any sequence whatever. The histories are bounded as said in the module: `recent` to
  one byte more than the prefix, `line` to one more than the buffer.
- **Power board.** FIFOs and console buffers of two, one-byte prefix, bytes that end
  a line or do not, reports of no or three characters: a FIFO can fill and overflow,
  a report exceeds the console's buffer, a command needs more than one byte. With a
  FIFO of one `LossMeansHeldUp` would not hold; from two on it is proved.
- **Sound board.** Three inputs, so that two share a chip and two share a register
  number; a console of two characters and messages of one, so that one change of
  setting fills it, and messages that fit and that do not both occur.

### Fairness

Weak fairness for the shift register, the converter, the DMA and the CPU's own
progress through `ADC_Init` and `tc_irq`: nothing stops their clocks. Strong
fairness for `ChainIrq` and `TransferDone` in `FairSpec`: `tc_irq` disables them
while it runs, again and again, but a pending interrupt of the same level is taken
when it returns, long before the next tick 31 us later. `DmaCell` is fair because a
host polls the endpoint of a stream it has opened; that it opens one is not
assumed, which is why `StreamKeepsFlowing` begins with it.

In `BoardSpec` and `SoundSpec`, `Main` has strong fairness: interrupts disable it again
and again, and it runs whenever none is pending. The handlers, the transmitter, and
the watchdog once armed have weak fairness, as has a host that reads
(`HostDrains`); in `SoundSpec`, `TxDone` has strong fairness, as other handlers may
hold it off. That the host is there and reads is not assumed: the properties that
need it say so (`<>[]hostReads`), and the others hold without.

## Findings

1. **A packet copied over the one being sent** (`audio_torn`). `udi_audio_send_samples`
   copies into `gBuffer` first and asks `udd_ep_run` afterwards. If the transfer of
   the packet before is still under way, the host gets the beginning of one packet
   and the end of the other. Packets come slightly faster than frames, as the timer
   period is rounded down (`sampler.c:175`), so this is bound to happen from time to
   time. (The "One packet per frame" the run quotes is the comment on the endpoint's
   polling interval, the only text that says how packets and frames are meant to
   meet.) `ChannelsAligned` says that even then no channel is mistaken for another,
   and `OnlyRefusedPacketsDamage` that only a packet that is itself refused does
   the damage. Both are proved, and so is that nothing else tears a packet: if none
   is copied in while a transfer is under way, all go out whole
   (`PromptHostGetsPackets`).
2. **A prefix whose first letter comes twice is missed** (`parser_missed`):
   `aavr://...` opens no command. `NewlineResyncs` shows that a line that begins with
   the prefix is never missed, and `OnlyBrokenOffMissed` proves that for a prefix like
   `avr://`, whose first letter does not come again in it, this is the only way to
   miss one: the first letter breaks off a match, and is not looked at again.
3. **Arguments of an earlier command** (`parser_stale`): a command word that ends its
   line is followed, one byte past the terminator, by whatever an earlier line left
   there: `avr://power` after `avr://power on 1` turns pin 1 on again, and the Beagle
   reset command alone on its line (`comms.c:117`) prints that text and takes its
   delay and duration from it. `SeparatedLineActsAlone`, which is proved, says that this
   is the only way earlier text can show through, down to the texts printed and the
   numbers passed on.
4. **The terminator of a line as long as the buffer** is written one byte past it
   (`parser_terminator`). `ShortLinesStayInBuffer` proves that any shorter line's is
   not.
5. **A USB callback that prints into a full console stops the board**
   (`soundboard_wedged`). `udi_audio_streaming_enable` and `_disable` print from the
   USB interrupt (`udi_audio.c:63, 70`), and the print waits for room that only the
   USB interrupt can make. It takes a console the host has not read for a moment, or
   a change of setting with the buffer almost full. Timer and converter have the
   same interrupt level, so the sampling stops as well (`sampler.c:172`, "to get an
   interrupt every 10 ms"). `OnlyFullConsoleWedges` proves that, with messages that fit
   the console at all, only a change of setting that finds no room for both of its
   messages gets the board there.

Two more things the passing runs say of the code are no contradiction of any text in
it: after a framing error or overrun the power board stands still until it is reset
(`ErrorStopsProgram`), since the code that looks at the error is under `#if 0` and
nothing clears the flag; and with no host reading, the power board's first report
that does not fit the console stops the pipe in both directions
(`LoopStopsOnlyWaiting`). And one thing is plain from the code and not modelled: when
`PreAmp_read` fails, `main` prints `result = 66`, the initial value of its buffer, as it
would a gain (`PreAmp.c:51`, `main.c:52-54`); only the `ERR` line before it tells. The
buffer is a plain `char`, so where that is signed the 182 of the `q` command is printed
as -74.

## Proofs

`AdcChainProofs`:

- `TypeCorrect` (`TypeOK`), from `TypeInv`: types plus `Owing`, that a dummy frame is
  still owed while one is being exchanged, without which `dummiesLeft` could drop
  below zero.
- `NewestStored` (`StoreHoldsNewest`), inductive given the types. Both hold whatever
  `IerWriteZeroMasks`.
- `OneWordUnderWay`, `NothingOverrun` (`SingleWord`, `NoOverrun`), assuming
  `IerWriteZeroMasks`. `SingleWord` alone is not inductive: it says nothing of the
  start-up, and a handler that ran then would leave two words. `ChainInv` adds that
  the interrupt is masked in the polled phases and says what is under way in each.
- `Alternation` (`TwoFrameAlternation`), same assumption. `PipelineInv` says for
  each place the word may be in which channel it asks for, and which channel the
  converter is set to, in terms of the last two channels served.
- `ResponseDecodes`: the handler's masks and shifts recover channel and reading from
  every frame.
- `ImplementsRegister` (`StoreIsRegister`), same assumption: a handler step is one
  `Convert`. `ReceivedInv` says that a received word is a frame the converter has sent,
  so that what is stored is a reading of that input; `PipelineInv` gives the guard.

`AudioPathProofs`:

- `Aligned` (`ChannelsAligned`) for any number of channels up to eight, any multiple
  of it as packet size, any readings, and whether or not the interrupt is masked.
  `AlignInv` is inductive: what the store holds for *c* comes from input *c*
  (`SourceInv`); between ticks `sampleIndex` is a multiple of the number of channels,
  and inside one it is that plus `chan` (`SamplerInv`); `samples`, `gBuffer` and the
  cells already sent are aligned (`PacketInv`, `SendInv`).
- `OneInstant` (`FrameIsOneInstant`): while `tc_irq` runs, the store is what it was
  on entry (`TickInv`), as nothing but the SPI handler writes it and its level is
  not the higher one.
- `AudioTypeCorrect` (`AudioTypeOK`): `AlignInv` bounds every index into a packet,
  `RestInv` types the remaining variables.
- `OnlyRefusedDamage` (`OnlyRefusedPacketsDamage`). Given `AlignInv` it is inductive:
  `IntactStep` says that only `memcpy` can part the buffer from what was read of it,
  and `DamageStep` that after one, `TcRun` either finds no transfer to have damaged or
  marks the packet refused.
- `PromptHostGetsPackets`: `Spec` and no `TcCopy` while `busy` give
  `[]OnePacketPerFrame`, from `IntactStep` as well. `audio_torn` shows that the
  condition is needed; the code does nothing to ensure it.
- `ImplementsStream` (`FeedsHost`). `TcRun`, if accepted, is a `Begin`; a DMA cell is a
  `Bring`, whose cell `AlignInv` places in the right channel (`HostIsBrought`);
  everything that drops a transfer shows as `Finish` or `Switch`; all else stutters.
- `MicrophoneToHost`: what the host decodes at position *k* is, bit for bit, a reading
  of input *k* modulo the number of channels, or -1 from before the first one. It
  joins `Aligned` with two lemmas for all numbers: the handler's masks and shifts
  recover every reading (`ResponseDecodes`, `StoredHeard`), and reading the two bytes
  lowest first undoes `LE16` for every sample (`SwapUndone`).
- `PathImplementsRegister`: what is proved of the chain alone holds inside the path,
  where `tc_irq` delays its handler (`ChainInside`: a step of the path is a step of
  the chain or none).

`CommandParserProofs`:

- `ImplementsLines` (`ParsesLines`), from `ParserSpec` for any alphabet, words, prefix
  and buffer length, from `MatcherInv`, which bounds the match index. An end of line
  always completes a command, as every line is some command, be it an unknown one
  (`SomeCommand`), and no byte of the prefix ends a line (`PrefixFacts`).
- `LineStaysIntact` (`LineIntact`), from `BufferInv`: outside a command index and line
  are empty.
- `PrefixIsSound`, `NewlineAlwaysResyncs` (`PrefixSound`, `NewlineResyncs`), from
  `RecentInv`. Neither is inductive. The first needs that the index is 0 inside a
  command. The second holds at the end of the prefix only because the matcher was in
  step all the way there: `InStep(k)` says that if the last *k* bytes behind an end of
  line are the first *k* of the prefix, the index is *k*.
- `ParserTypeCorrect` (`ParserTypeOK`), from the three, and from `InterpretType`: what
  the handlers report has its type whatever is in the buffer.
- `SeparatedLineAlone` (`SeparatedLineActsAlone`), from `BufferInv`. Buffer and bare line
  are two strings that agree up to the line's terminator (`SameString`). A word matched
  against both gives the same answer, as it ends before the terminator or differs at it
  (`MatchWithin`, `SameMatch`), and from any place on the line the same text can be read,
  so that `strtoul` gives the same numbers (`SameText`); each handler is then compared on
  both (`SameBeagle`, `SameDevice`, `SamePower`, `SameLcd`, `SameWatchdog`). `Separated`
  is used where a handler looks behind a word.
- `ShortLinesStayInBuffer` (`TerminatorInBuffer` for lines shorter than the buffer), from
  `BufferInv`.
- `OnlyBrokenOffMissed` (`NoPrefixMissed`, assuming that the prefix's first letter does
  not come again in it and has not broken off a match). `Tracked` says that whenever the
  last *k* bytes outside a command are the first *k* of the prefix, the index is *k*.

`PowerBoardProofs`, for any sizes:

- `BoardTypeCorrect` (`BoardTypeOK`).
- `BoardErrorStopsProgram` (`ErrorStopsProgram`), from `ErrorHolds`: the byte that came
  with an error is still in the register, so the interrupt is pending.
- `BoardLossMeansHeldUp` (`LossMeansHeldUp`) for FIFOs of two or more, from `Backlog`:
  while the loop is not held up, the bytes waiting in register and FIFO are at most
  one, before `Input` has taken it, and one more if a byte has arrived in this
  iteration.
- `ImplementsPipe` (`ParsesInOrder`): the queue is the FIFO and behind it the register. A
  handler that moves a byte from one to the other changes nothing of it; one that finds
  the FIFO full takes off what was appended last (`AppendUndone`); the main loop runs
  only while the register is empty, so that what it pulls is the queue's head.

`SoundConsoleProofs`, for any console and message lengths and any number of inputs:

- `OnePotEach`: the address arithmetic is injective.
- `SoundProtectedAtRest` (`ProtectedAtRest`). It is not inductive: the invariant says
  that `todo` is a sequence of the program's steps, that the pots are open only in the
  later phases of a write, and that unless they are protected the start-up is still
  before `PreAmp_Init`.
- `SoundGainsStay` (`GainsStay`), from that one: a write transfers only while its pot is
  open, and by `OnePotEach` disturbs no other.
- `SoundTypeCorrect` (`SoundTypeOK`): `ConsoleTypes` types what the other two invariants
  leave.
- `OnlyFullConsoleWedges`: if a message fits the console, and every change of setting
  finds room for two, the board never wedges. The invariant `Fits` says that what the
  running callback has still to print fits what room is left.

The assumptions on the constants are `ReadingsAssumption`, `IerAssumption`,
`PacketAssumption`, `WordsAssumption`, `LineLengthAssumption`, `StrtoulAssumption`
(`strtoul` gives a natural number and a string), `HistoryAssumption`,
`LineAssumption`, `BoardAssumption`, `InputsAssumption`, `ConsoleAssumption`.

Four theorems state what a doc claims and a run refutes, under the condition that is
missing in the code: `PromptHostGetsPackets`, `ShortLinesStayInBuffer`,
`OnlyBrokenOffMissed`, `OnlyFullConsoleWedges`. The conditions are properties of the
environment (when the host fetches, what is typed, how full the console is) that
some behaviours have and others do not.

Only model-checked: liveness (`InitCompletes`, `EveryChannelRefreshed`,
`StreamKeepsFlowing`, `LoopStopsOnlyWaiting`, `ReportsGetThrough`, `HostInputDrains`,
`StaleTestOnlyWaits`, `ConsoleAnswers`). These rest on fairness, hence on `ENABLED`, which the prover cannot
reason about. Every invariant and every action property of the passing runs is
proved.

## Not modelled

- `ring_buffer.h`: nothing calls it (`ADC.c:251-253` is a comment).
- `udi_audio.h`, `conf_usb.h`: the descriptors are constants a host reads. The order of
  the interfaces in `UDI_COMPOSITE_API` and the packet size are used in the models.
- The LCD driver and its calls (empty); clock, pin and driver settings, except the
  interrupt levels; init code of the boards.
- The 8-bit SPI configuration and `spi_rxtx_safe`, `adc_sendWord`, which nothing
  compiled reaches; the debugging counters of `ADC.c`.
- What is printed by the two main programs: their messages have a length and no text
  or numbers, so neither has what `PreAmp_read` returns.
- The inside of the FIFO library and of the main loop's test and pull (`main.c:83-84`),
  one step of `PowerBoard`: an interrupt between the two is not explored.
- The Beagle's and the host's own programs: they may do anything.
- The rates of timer, converter and host against each other, so that how often a packet
  is torn, or how full the console is, is not known from the models.

## Plan

Every safety property is proved. What could still be added:

- an abstract specification of the preamplifiers as `main` sees them (a gain per
  channel that a write may or may not change), with `SoundConsole` shown to
  implement it;
- one of the power board's other direction, what the host types on its way to the
  Beagle, for which `PowerBoard` would have to keep those bytes and not just count them;
- the safety half of the liveness properties: for each place a program can be in, the
  step its guards allow next, stated over the guards and not with `ENABLED`.
