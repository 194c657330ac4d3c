----------------------------- MODULE PowerBoard -----------------------------
(***************************************************************************)
(* The power board's program: the receive interrupt of the Beagle's serial *)
(* line, the main loop that pipes bytes both ways and feeds ProcessByte,   *)
(* the two FIFOs, and the USB console with its blocking reports.  Of       *)
(* ProcessByte only what LineParser promises is used, which is what        *)
(* comms.c is shown to implement.                                          *)
(*                                                                         *)
(* The receive interrupt has level 3 and the main code none, so the main   *)
(* code does not advance while the interrupt is pending.  A byte takes     *)
(* longer on the 115200 baud line than an iteration of the main loop does, *)
(* so at most one arrives per iteration unless the loop is kept waiting.   *)
(***************************************************************************)
EXTENDS LineParser, Sequences

CONSTANTS
  FifoSize,       \* FIFO_BUFFER_SIZE
  UsbRoom,        \* characters the CDC driver's buffers hold, each way
  ReportLengths,  \* what the reports of a command may come to
  LineErrors      \* can the USART see framing errors and overruns?

ASSUME BoardAssumption ==
  /\ FifoSize \in Nat \ {0}
  /\ UsbRoom \in Nat \ {0}
  /\ ReportLengths \subseteq Nat
  /\ LineErrors \in BOOLEAN

None == "none"

VARIABLES
  pc,             \* where main is
  left,           \* characters WriteStringToUSB has still to write
  rhr,            \* the USART's receive holding register, or None
  rxError,        \* an error flag is up in the USART's status
  inFifo,         \* beagleInFIFO
  outUsed,        \* characters in beagleOutFIFO
  usartBusy,      \* is the USART sending?
  hostChars,      \* characters from the host, not yet read
  tx,             \* characters for the host, not yet sent
  hostReads,      \* does the host take what it is sent?
  arrived,        \* has a byte arrived in this iteration?
  heldUp          \* history: the loop was kept waiting since inFifo was empty

hostVars == <<hostChars, tx, hostReads>>
usartVars == <<rhr, rxError, usartBusy>>
fifoVars == <<inFifo, outUsed>>
boardVars == <<lineVars, pc, left, usartVars, fifoVars, hostVars, arrived, heldUp>>

BoardTypeOK ==
  /\ LineTypeOK
  /\ pc \in {"boot", "usb", "getc", "send", "input", "report", "echo", "spin"}
  /\ left \in Nat
  /\ rhr \in Bytes \cup {None}
  /\ rxError \in BOOLEAN /\ usartBusy \in BOOLEAN
  /\ inFifo \in Seq(Bytes) /\ Len(inFifo) <= FifoSize
  /\ outUsed \in 0 .. FifoSize
  /\ hostChars \in 0 .. UsbRoom
  /\ tx \in 0 .. UsbRoom
  /\ hostReads \in BOOLEAN /\ arrived \in BOOLEAN /\ heldUp \in BOOLEAN

(* main, up to the point where the FIFOs and the USART are set up.         *)
BoardInit ==
  /\ LineInit
  /\ pc = "boot" /\ left = 0
  /\ rhr = None /\ rxError = FALSE /\ usartBusy = FALSE
  /\ inFifo = <<>> /\ outUsed = 0
  /\ hostChars = 0 /\ tx = 0 /\ hostReads = FALSE
  /\ arrived = FALSE /\ heldUp = FALSE

-----------------------------------------------------------------------------
(* The serial line and its interrupt.                                      *)

AwaitingChar == pc = "getc" /\ hostChars = 0
KeptWaiting == pc \in {"report", "spin"} \/ AwaitingChar

ByteArrives(b) ==
  /\ rhr = None
  /\ arrived => KeptWaiting
  /\ rhr' = b
  /\ arrived' = TRUE
  /\ heldUp' = (heldUp \/ KeptWaiting)
  /\ UNCHANGED <<lineVars, pc, left, rxError, usartBusy, fifoVars, hostVars>>

LineError ==
  /\ LineErrors
  /\ rhr # None
  /\ rxError' = TRUE
  /\ UNCHANGED <<lineVars, pc, left, rhr, usartBusy, fifoVars, hostVars, arrived, heldUp>>

(* Faulty variants: a full FIFO forgets its oldest byte, and the error     *)
(* flags are ignored and left up.                                          *)
UsartIrq_DropsOldest ==
  /\ pc # "boot"
  /\ rhr # None
  /\ ~rxError
  /\ inFifo' = Append(IF Len(inFifo) < FifoSize THEN inFifo ELSE Tail(inFifo), rhr)
  /\ rhr' = None
  /\ UNCHANGED <<lineVars, pc, left, rxError, usartBusy, outUsed, hostVars, arrived, heldUp>>

UsartIrq_IgnoresError ==
  /\ pc # "boot"
  /\ rhr # None
  /\ inFifo' = IF Len(inFifo) < FifoSize THEN Append(inFifo, rhr) ELSE inFifo
  /\ rhr' = None
  /\ UNCHANGED <<lineVars, pc, left, rxError, usartBusy, outUsed, hostVars, arrived, heldUp>>

(* usart_int_handler: a full FIFO refuses the byte.  With an error flag up *)
(* usart_read_char fails before it reads the register, and as nothing      *)
(* clears the flag the interrupt stays pending.                            *)
UsartIrq ==
  /\ pc # "boot"
  /\ rhr # None
  /\ ~rxError
  /\ inFifo' = IF Len(inFifo) < FifoSize THEN Append(inFifo, rhr) ELSE inFifo
  /\ rhr' = None
  /\ UNCHANGED <<lineVars, pc, left, rxError, usartBusy, outUsed, hostVars, arrived, heldUp>>

UsartTx ==
  /\ usartBusy
  /\ usartBusy' = FALSE
  /\ UNCHANGED <<lineVars, pc, left, rhr, rxError, fifoVars, hostVars, arrived, heldUp>>

-----------------------------------------------------------------------------
(* The USB host.                                                           *)

HostSends ==
  /\ hostReads
  /\ hostChars < UsbRoom
  /\ hostChars' = hostChars + 1
  /\ UNCHANGED <<lineVars, pc, left, usartVars, fifoVars, tx, hostReads, arrived, heldUp>>

HostDrains ==
  /\ hostReads
  /\ tx > 0
  /\ tx' = 0
  /\ UNCHANGED <<lineVars, pc, left, usartVars, fifoVars, hostChars, hostReads, arrived, heldUp>>

(* The host configures the device, which empties the driver's buffers, and *)
(* opens its port, or goes away.                                           *)
HostComesOrGoes ==
  /\ pc # "boot"
  /\ hostReads' = ~hostReads
  /\ IF hostReads THEN UNCHANGED <<hostChars, tx>> ELSE hostChars' = 0 /\ tx' = 0
  /\ UNCHANGED <<lineVars, pc, left, usartVars, fifoVars, arrived, heldUp>>

-----------------------------------------------------------------------------
(* main and main_loop.                                                     *)

MainRuns == pc = "boot" \/ rhr = None

(* cpu_irq_enable, sio_init.                                               *)
StartLoop ==
  /\ pc = "boot"
  /\ pc' = "usb"
  /\ UNCHANGED <<lineVars, left, usartVars, fifoVars, hostVars, arrived, heldUp>>

PollUsb ==
  /\ pc = "usb"
  /\ pc' = IF hostChars > 0 THEN "getc" ELSE "send"
  /\ UNCHANGED <<lineVars, left, usartVars, fifoVars, hostVars, arrived, heldUp>>

(* Faulty variants: the input is only looked at when the host is silent, a *)
(* byte is sent whether there is one or not, or only when no input waits,  *)
(* an echo waits for room, and a report is not counted down.               *)
GetChar_Instead ==
  /\ pc = "getc"
  /\ hostChars > 0
  /\ hostChars' = hostChars - 1
  /\ outUsed' = IF outUsed < FifoSize THEN outUsed + 1 ELSE outUsed
  /\ pc' = "usb"
  /\ arrived' = FALSE
  /\ UNCHANGED <<lineVars, left, usartVars, inFifo, tx, hostReads, heldUp>>

(* udi_cdc_getc waits for a character should the host have reconfigured    *)
(* the device since udi_cdc_is_rx_ready; a full FIFO refuses it.           *)
GetChar ==
  /\ pc = "getc"
  /\ hostChars > 0
  /\ hostChars' = hostChars - 1
  /\ outUsed' = IF outUsed < FifoSize THEN outUsed + 1 ELSE outUsed
  /\ pc' = "send"
  /\ UNCHANGED <<lineVars, left, usartVars, inFifo, tx, hostReads, arrived, heldUp>>

SendOne_Unchecked ==
  /\ pc = "send"
  /\ IF ~usartBusy
       THEN outUsed' = outUsed - 1 /\ usartBusy' = TRUE
       ELSE UNCHANGED <<outUsed, usartBusy>>
  /\ pc' = "input"
  /\ UNCHANGED <<lineVars, left, rhr, rxError, inFifo, hostVars, arrived, heldUp>>

SendOne_WhenQuiet ==
  /\ pc = "send"
  /\ IF outUsed > 0 /\ ~usartBusy /\ inFifo = <<>>
       THEN outUsed' = outUsed - 1 /\ usartBusy' = TRUE
       ELSE UNCHANGED <<outUsed, usartBusy>>
  /\ pc' = "input"
  /\ UNCHANGED <<lineVars, left, rhr, rxError, inFifo, hostVars, arrived, heldUp>>

SendOne ==
  /\ pc = "send"
  /\ IF outUsed > 0 /\ ~usartBusy
       THEN outUsed' = outUsed - 1 /\ usartBusy' = TRUE
       ELSE UNCHANGED <<outUsed, usartBusy>>
  /\ pc' = "input"
  /\ UNCHANGED <<lineVars, left, rhr, rxError, inFifo, hostVars, arrived, heldUp>>

NextIteration == pc' = "usb" /\ arrived' = FALSE

(* A byte of input goes through ProcessByte, which writes the reports of a *)
(* command before it returns.                                              *)
Input ==
  /\ pc = "input"
  /\ IF inFifo = <<>>
       THEN /\ NextIteration
            /\ heldUp' = FALSE
            /\ UNCHANGED <<lineVars, inFifo, left>>
       ELSE /\ ProcessByte(Head(inFifo))
            /\ inFifo' = Tail(inFifo)
            /\ pc' = CASE outcome' = "none"    -> "echo"
                       [] outcome' = "command" -> "report"
                       [] outcome' = "reset"   -> "spin"
            /\ left' \in IF outcome' = "command" THEN ReportLengths ELSE {0}
            /\ heldUp' = (heldUp /\ inFifo' # <<>>)
            /\ UNCHANGED arrived
  /\ UNCHANGED <<usartVars, outUsed, hostVars>>

Report_Uncounted ==
  /\ pc = "report"
  /\ left > 0 /\ tx < UsbRoom
  /\ tx' = tx + 1
  /\ UNCHANGED <<lineVars, pc, left, usartVars, fifoVars, hostChars, hostReads, arrived, heldUp>>

(* WriteStringToUSB: each character waits for room.                        *)
Report ==
  /\ pc = "report"
  /\ IF left = 0
       THEN pc' = "echo" /\ UNCHANGED <<left, tx>>
       ELSE tx < UsbRoom /\ tx' = tx + 1 /\ left' = left - 1 /\ UNCHANGED pc
  /\ UNCHANGED <<lineVars, usartVars, fifoVars, hostChars, hostReads, arrived, heldUp>>

Echo_Waits ==
  /\ pc = "echo"
  /\ tx < UsbRoom
  /\ tx' = tx + 1
  /\ NextIteration
  /\ UNCHANGED <<lineVars, left, usartVars, fifoVars, hostChars, hostReads, heldUp>>

(* The byte is echoed to USB if there is room just now.                    *)
Echo ==
  /\ pc = "echo"
  /\ tx' = IF tx < UsbRoom THEN tx + 1 ELSE tx
  /\ NextIteration
  /\ UNCHANGED <<lineVars, left, usartVars, fifoVars, hostChars, hostReads, heldUp>>

Main == MainRuns /\
  \/ StartLoop \/ PollUsb \/ GetChar \/ SendOne \/ Input \/ Report \/ Echo

(* The watchdog ends the spin of ProcessResetCommand.                      *)
WatchdogFires ==
  /\ pc = "spin"
  /\ Restart
  /\ pc' = "boot" /\ left' = 0
  /\ rhr' = None /\ rxError' = FALSE /\ usartBusy' = FALSE
  /\ inFifo' = <<>> /\ outUsed' = 0
  /\ hostChars' = 0 /\ tx' = 0 /\ hostReads' = FALSE
  /\ arrived' = FALSE /\ heldUp' = FALSE

-----------------------------------------------------------------------------
BoardNext ==
  \/ Main \/ WatchdogFires
  \/ \E b \in Bytes : ByteArrives(b)
  \/ LineError \/ UsartIrq \/ UsartTx
  \/ HostSends \/ HostDrains \/ HostComesOrGoes

(* The CPU runs main whenever no interrupt is pending, which is again and  *)
(* again if not all the time, hence strong fairness; the others are clocks *)
(* of the hardware and a host that reads.                                  *)
BoardSpec ==
  /\ BoardInit /\ [][BoardNext]_boardVars
  /\ SF_boardVars(Main) /\ WF_boardVars(UsartIrq) /\ WF_boardVars(UsartTx)
  /\ WF_boardVars(WatchdogFires) /\ WF_boardVars(HostDrains)

-----------------------------------------------------------------------------
(* Properties.                                                             *)

(* A byte from the Beagle is only ever lost when the main loop was kept    *)
(* waiting while input was queued: the steady stream of the line alone,    *)
(* with the host typing and the output queued, never fills the FIFO.       *)
LossMeansHeldUp == [][(UsartIrq /\ Len(inFifo) = FifoSize) => heldUp]_boardVars

(* The register, the FIFO, the handler and the main loop between them are  *)
(* one queue in front of ProcessByte: whatever interleaves, no byte passes *)
(* another or is parsed twice, and only the newest is lost.                *)
Pipe ==
  INSTANCE SerialPipe
    WITH Capacity <- FifoSize,
         queue <- IF rhr = None THEN inFifo ELSE Append(inFifo, rhr)

ParsesInOrder == Pipe!PipeSpec

(* Unless the line has an error, the loop stops in two places only: in     *)
(* udi_cdc_getc, emptied by the host after the test, and in a report with  *)
(* the console full.  An absent host alone does not stop the pipe.         *)
LoopStopsOnlyWaiting ==
  []~rxError =>
    \/ []<>(pc = "usb")
    \/ <>[](pc = "getc") /\ []<>AwaitingChar
    \/ <>[](pc = "report" /\ tx = UsbRoom)

(* After a framing error or an overrun nothing of the program advances any *)
(* more: the pending interrupt keeps main from running, and only a reset   *)
(* already under way gets it out of there.                                 *)
ErrorStopsProgram ==
  [][(rxError /\ pc \notin {"boot", "spin"})
       => UNCHANGED <<pc, lineVars, inFifo, outUsed>>]_boardVars

(* Every report gets through to a host that reads.                         *)
ReportsGetThrough ==
  ([]~rxError /\ <>[]hostReads) => ((pc = "report") ~> (pc # "report"))

(* What the host typed keeps going out to the Beagle while the loop goes   *)
(* on, however busy the Beagle's own output keeps it.                      *)
HostInputDrains ==
  ([]~rxError /\ []<>(pc = "usb")) => []<>(outUsed < FifoSize)
=============================================================================
