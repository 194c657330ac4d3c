---------------------------- MODULE SoundConsole ----------------------------
(***************************************************************************)
(* The sound board's main program, its console, and the USB interrupt that *)
(* both serve it and print to it.  main prints a good deal while it sets   *)
(* the preamplifiers up, then echoes characters and obeys a few of them.   *)
(* Everything printed goes character by character into the CDC driver's    *)
(* buffer; while the device is configured, a character waits for room, and *)
(* only the USB interrupt makes room.  The USB audio callbacks print too,  *)
(* from within that interrupt.                                             *)
(*                                                                         *)
(* The timer's and the converter's handlers have the same level as USB's:  *)
(* while a USB handler runs, no other does, and neither does main.         *)
(***************************************************************************)
EXTENDS PreAmp, Sequences

CONSTANTS
  Keys,           \* characters the host may type
  TxRoom,         \* characters the CDC driver's buffers hold
  MainMessage,    \* length of what main prints at a time
  IrqMessage      \* length of what a USB callback prints

ASSUME ConsoleAssumption ==
  /\ TxRoom \in Nat \ {0}
  /\ MainMessage \in Nat \ {0}
  /\ IrqMessage \in Nat \ {0}

None == "none"

VARIABLES
  todo,           \* steps main has before it polls the console again
  phase,          \* where PreAmp_write is
  left,           \* characters main has still to print before its next step
  usb,            \* off until sio_init; up; configured
  tx,             \* characters in the CDC buffer
  rx,             \* a character from the host, or None
  irqLeft,        \* characters the running USB handler has still to print
  hostReads       \* is the host there, and does it read the console?

mainVars == <<todo, phase, left>>
usbVars == <<usb, tx, rx, irqLeft, hostReads>>
soundVars == <<ampVars, mainVars, usbVars>>

(* The program, as sequences of steps.                                     *)
Step(op, ch, gain) == [op |-> op, ch |-> ch, gain |-> gain]
Do(op) == Step(op, 0, NoGain)
SetUpAmps == <<Do("print"), Do("init"), Do("print")>>
ReadBack == <<Do("read"), Do("print")>>
StartGains == [i \in 1 .. NbInputs |-> Step("write", i - 1, StartGain)]
Boot == <<Do("sio")>> \o SetUpAmps \o StartGains \o ReadBack

Command(key) ==
  CASE key = "?" -> <<Do("print")>>
    [] key = "q" -> SetUpAmps \o <<Step("write", 0, TestGain)>> \o ReadBack
    [] key = "a" -> <<Do("print"), Do("print")>>
    [] OTHER     -> <<>>

Steps ==
  [op : {"sio", "print", "init", "write", "read", "getc"},
   ch : Inputs, gain : Gains]

SoundTypeOK ==
  /\ AmpTypeOK
  /\ todo \in Seq(Steps)
  /\ phase \in {"start", "transfer", "protect"}
  /\ left \in 0 .. MainMessage
  /\ usb \in {"off", "up", "configured"}
  /\ tx \in 0 .. TxRoom
  /\ rx \in Keys \cup {None}
  /\ irqLeft \in 0 .. 2 * IrqMessage
  /\ hostReads \in BOOLEAN

SoundInit ==
  /\ AmpInit
  /\ todo = Boot /\ phase = "start" /\ left = 0
  /\ usb = "off" /\ tx = 0 /\ rx = None /\ irqLeft = 0
  /\ hostReads \in BOOLEAN

-----------------------------------------------------------------------------
(* main.  The callers of a step have made sure it is due.                  *)

Due(op) == left = 0 /\ todo # <<>> /\ Head(todo).op = op
Done == todo' = Tail(todo) /\ UNCHANGED phase

SioInit ==
  /\ Due("sio")
  /\ Done
  /\ usb' = "up"
  /\ UNCHANGED <<ampVars, left, tx, rx, irqLeft, hostReads>>

Printf ==
  /\ Due("print")
  /\ Done
  /\ left' = MainMessage
  /\ UNCHANGED <<ampVars, usbVars>>

InitAmps ==
  /\ Due("init")
  /\ Done
  /\ PreAmp_Init
  /\ UNCHANGED <<left, usbVars>>

(* PreAmp_write prints its result before it restores the protection.       *)
WriteUnprotect ==
  /\ Due("write") /\ phase = "start"
  /\ Unprotect
  /\ phase' = "transfer"
  /\ UNCHANGED <<todo, left, usbVars>>

WriteTransfer ==
  /\ Due("write") /\ phase = "transfer"
  /\ Transfer(Head(todo).ch, Head(todo).gain)
  /\ phase' = "protect"
  /\ left' = MainMessage
  /\ UNCHANGED <<todo, usbVars>>

(* Faulty variant: a step that leaves the pin alone.                       *)
WriteProtect_Forgotten ==
  /\ Due("write") /\ phase = "protect"
  /\ phase' = "start"
  /\ todo' = Tail(todo)
  /\ UNCHANGED <<ampVars, left, usbVars>>

WriteProtect ==
  /\ Due("write") /\ phase = "protect"
  /\ Protect
  /\ phase' = "start"
  /\ todo' = Tail(todo)
  /\ UNCHANGED <<left, usbVars>>

(* PreAmp_read, of channel 0.  What it returns is only printed, and numbers*)
(* that are printed are left out: the 66 its buffer starts with if the     *)
(* transfer fails, and else the pot's byte by way of a plain char.         *)
ReadGain ==
  /\ Due("read")
  /\ Done
  /\ left' = MainMessage
  /\ UNCHANGED <<ampVars, usbVars>>

(* The loop: is there a character?                                         *)
PollConsole ==
  /\ todo = <<>> /\ left = 0
  /\ rx # None
  /\ todo' = <<Do("getc")>>
  /\ UNCHANGED <<ampVars, phase, left, usbVars>>

(* udi_cdc_getc: a reconfiguration since the test may have dropped the     *)
(* character, and it waits for another; off the bus it returns a NUL.  The *)
(* faulty variant waits there too.                                         *)
GetChar_WaitsOffBus ==
  /\ Due("getc")
  /\ rx # None /\ todo' = Command(rx) /\ rx' = None
  /\ left' = 1
  /\ UNCHANGED <<ampVars, phase, usb, tx, irqLeft, hostReads>>

GetChar ==
  /\ Due("getc")
  /\ \/ rx # None /\ todo' = Command(rx) /\ rx' = None
     \/ rx = None /\ usb # "configured" /\ todo' = <<>> /\ UNCHANGED rx
  /\ left' = 1
  /\ UNCHANGED <<ampVars, phase, usb, tx, irqLeft, hostReads>>

(* One character: dropped while the device is not configured.  The faulty  *)
(* variants do not wait, and do not count what they print.                 *)
Room_Always == TRUE
Room == usb # "configured" \/ tx < TxRoom
PutInTx == tx' = IF usb = "configured" THEN tx + 1 ELSE tx

PutChar_Uncounted ==
  /\ left > 0
  /\ Room /\ PutInTx
  /\ UNCHANGED <<ampVars, mainVars, usb, rx, irqLeft, hostReads>>

PutChar ==
  /\ left > 0
  /\ Room /\ PutInTx
  /\ left' = left - 1
  /\ UNCHANGED <<ampVars, todo, phase, usb, rx, irqLeft, hostReads>>

Main == irqLeft = 0 /\
  \/ SioInit \/ Printf \/ InitAmps \/ ReadGain
  \/ WriteUnprotect \/ WriteTransfer \/ WriteProtect
  \/ PollConsole \/ GetChar \/ PutChar

-----------------------------------------------------------------------------
(* The USB interrupt.  Its handlers run one at a time, and print last.     *)

UsbEvent == usb # "off" /\ irqLeft = 0

(* The host configures the device: the driver's buffers are emptied, stdio *)
(* is enabled, and udi_audio_streaming_enable called with setting 0.       *)
Configure ==
  /\ UsbEvent
  /\ usb' = "configured"
  /\ tx' = 0 /\ rx' = None
  /\ irqLeft' = IrqMessage
  /\ UNCHANGED <<ampVars, mainVars, hostReads>>

(* The host selects an alternate setting: udi_audio_streaming_disable, then*)
(* udi_audio_streaming_enable.                                             *)
SelectAlt ==
  /\ UsbEvent /\ usb = "configured"
  /\ irqLeft' = 2 * IrqMessage
  /\ UNCHANGED <<ampVars, mainVars, usb, tx, rx, hostReads>>

(* A bus reset disables the interfaces in the order of UDI_COMPOSITE_API:  *)
(* stdio is off by the time udi_audio_streaming_disable prints.            *)
BusReset ==
  /\ UsbEvent /\ usb = "configured"
  /\ usb' = "up"
  /\ irqLeft' = IrqMessage
  /\ UNCHANGED <<ampVars, mainVars, tx, rx, hostReads>>

RxChar(key) ==
  /\ UsbEvent /\ usb = "configured" /\ hostReads
  /\ rx = None
  /\ rx' = key
  /\ UNCHANGED <<ampVars, mainVars, usb, tx, irqLeft, hostReads>>

TxDone ==
  /\ UsbEvent /\ usb = "configured" /\ hostReads
  /\ tx > 0
  /\ tx' = 0
  /\ UNCHANGED <<ampVars, mainVars, usb, rx, irqLeft, hostReads>>

IrqPutChar ==
  /\ irqLeft > 0
  /\ Room /\ PutInTx
  /\ irqLeft' = irqLeft - 1
  /\ UNCHANGED <<ampVars, mainVars, usb, rx, hostReads>>

(* The board is plugged in or out (main_vbus_action attaches and detaches  *)
(* it, and no more), or the console is opened or closed.                   *)
HostComesOrGoes ==
  /\ hostReads' = ~hostReads
  /\ UNCHANGED <<ampVars, mainVars, usb, tx, rx, irqLeft>>

-----------------------------------------------------------------------------
SoundNext ==
  \/ Main \/ IrqPutChar \/ TxDone
  \/ \E key \in Keys : RxChar(key)
  \/ Configure \/ SelectAlt \/ BusReset \/ HostComesOrGoes

(* main and a transfer that is over get their turn whenever no handler     *)
(* runs, again and again if not all the time: strong fairness.  The host   *)
(* need not configure anything or type anything.                           *)
SoundSpec ==
  /\ SoundInit /\ [][SoundNext]_soundVars
  /\ SF_soundVars(Main) /\ WF_soundVars(IrqPutChar) /\ SF_soundVars(TxDone)

-----------------------------------------------------------------------------
(* Properties.                                                             *)

(* Once the start-up has called PreAmp_Init, which leaves NbInputs writes, *)
(* the read and two messages to do, the pots are write-protected whenever  *)
(* PreAmp_write is not at work, on whatever path it came back.             *)
AmpsUp == Len(todo) <= NbInputs + 3
ProtectedAtRest == (phase = "start" /\ AmpsUp) => protected

(* A gain that was acknowledged is the one the channel's pot holds, until  *)
(* that channel's next write: no other channel's write disturbs it.        *)
GainsStay == \A ch \in Inputs : accepted[ch] # NoGain => pots[PotOf(ch)] = accepted[ch]

(* A USB handler that finds the console full never returns, since only     *)
(* another could make room: nothing else runs on the board from then on.   *)
Wedged == irqLeft > 0 /\ usb = "configured" /\ tx = TxRoom

(* A character seen by the test of main.c:60 may be dropped before         *)
(* udi_cdc_getc comes to take it (main.c:62), and main then waits.  It does*)
(* so only while the device stays configured and the host types nothing:   *)
(* another character, or the end of the connection, and main is back at it.*)
StaleTestOnlyWaits ==
  ([]~Wedged /\ []<>(rx # None \/ usb # "configured")) =>
    (Due("getc") ~> ~Due("getc"))

(* As long as that does not happen, a host that reads sees every command   *)
(* and the start-up through to the end: main stops nowhere but where it    *)
(* waits for a character.                                                  *)
ConsoleAnswers ==
  ([]~Wedged /\ <>[]hostReads) =>
    ((todo # <<>>) ~> (todo = <<>> \/ Due("getc")))

(* "to get an interrupt every 10 ms" (sampler.c:172): with a host that     *)
(* reads all along, the timer's handler, of the level of the USB handlers, *)
(* gets to run again and again.                                            *)
TimerKeepsRunning == []hostReads => []<>(irqLeft = 0)
=============================================================================
