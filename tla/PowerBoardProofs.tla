-------------------------- MODULE PowerBoardProofs --------------------------
(***************************************************************************)
(* Proofs about PowerBoard, for FIFOs, console buffers and reports of any  *)
(* size: the types, what a line error does, that no byte is lost while the *)
(* main loop is not kept waiting, and that none passes another.            *)
(***************************************************************************)
EXTENDS PowerBoard, SequenceTheorems, TLAPS

LEMMA Sizes ==
  /\ FifoSize \in Nat /\ FifoSize >= 1 /\ 0 \in 0 .. FifoSize
  /\ UsbRoom \in Nat /\ 0 \in 0 .. UsbRoom
  /\ PrefixLength \in Nat /\ 0 \in 0 .. PrefixLength - 1
  BY BoardAssumption, LineAssumption, SMT

-----------------------------------------------------------------------------
(* Types.                                                                  *)

Pcs == {"boot", "usb", "getc", "send", "input", "report", "echo", "spin"}

MainTypes == pc \in Pcs /\ left \in Nat
LineTypes == rhr \in Bytes \cup {None} /\ rxError \in BOOLEAN /\ usartBusy \in BOOLEAN
FifoTypes ==
  inFifo \in Seq(Bytes) /\ Len(inFifo) <= FifoSize /\ outUsed \in 0 .. FifoSize
HostTypes == hostChars \in 0 .. UsbRoom /\ tx \in 0 .. UsbRoom /\ hostReads \in BOOLEAN
HistoryTypes == arrived \in BOOLEAN /\ heldUp \in BOOLEAN

Types == LineTypeOK /\ MainTypes /\ LineTypes /\ FifoTypes /\ HostTypes /\ HistoryTypes

LEMMA TypesAreBoardTypes == Types <=> BoardTypeOK
  BY Zenon DEF Types, BoardTypeOK, MainTypes, LineTypes, FifoTypes, HostTypes, HistoryTypes, Pcs

LEMMA ByteTypes ==
  ASSUME LineTypeOK, NEW b \in Bytes, ProcessByte(b) PROVE LineTypeOK'
<1>1. CASE Complete(b)
  BY <1>1, Zenon DEF Complete, LineTypeOK
<1>2. CASE Swallow(b)
  BY <1>2, Zenon DEF Swallow, LineTypeOK
<1>3. CASE Mismatch
  BY <1>3, Sizes, Zenon DEF Mismatch, LineTypeOK
<1>4. CASE Match(b)
  <2>1. matched' \in 0 .. PrefixLength - 1
    BY <1>4, Sizes, SMT DEF Match, LineTypeOK
  <2>2. inCommand' \in BOOLEAN /\ outcome' = "none"
    BY <1>4, Zenon DEF Match, LineTypeOK
  <2> QED
    BY <2>1, <2>2, Zenon DEF LineTypeOK
<1> QED
  BY <1>1, <1>2, <1>3, <1>4, Zenon DEF ProcessByte

(* Taking a byte from the FIFO, and putting one in.                        *)
LEMMA Taken ==
  ASSUME FifoTypes, inFifo # <<>>
  PROVE  /\ Head(inFifo) \in Bytes
         /\ Tail(inFifo) \in Seq(Bytes)
         /\ Len(Tail(inFifo)) = Len(inFifo) - 1
         /\ Len(Tail(inFifo)) <= FifoSize
<1>1. /\ Head(inFifo) \in Bytes /\ Tail(inFifo) \in Seq(Bytes)
      /\ Len(Tail(inFifo)) = Len(inFifo) - 1
  BY HeadTailProperties, Zenon DEF FifoTypes
<1>2. Len(inFifo) \in Nat
  BY LenProperties, Zenon DEF FifoTypes
<1>3. Len(Tail(inFifo)) <= FifoSize
  BY <1>1, <1>2, Sizes, SMT DEF FifoTypes
<1> QED
  BY <1>1, <1>3

LEMMA Put ==
  ASSUME FifoTypes, NEW b \in Bytes
  PROVE  /\ Append(inFifo, b) \in Seq(Bytes)
         /\ Len(Append(inFifo, b)) = Len(inFifo) + 1
         /\ Len(inFifo) \in Nat
<1>1. inFifo \in Seq(Bytes)
  BY Zenon DEF FifoTypes
<1>2. Append(inFifo, b) \in Seq(Bytes) /\ Len(Append(inFifo, b)) = Len(inFifo) + 1
  BY <1>1, AppendProperties
<1> QED
  BY <1>1, <1>2, LenProperties, Zenon

LEMMA InitTypes == BoardInit => Types
<1> SUFFICES ASSUME BoardInit PROVE Types
  OBVIOUS
<1>1. inFifo \in Seq(Bytes) /\ Len(inFifo) = 0
  BY EmptySeq DEF BoardInit
<1>2. FifoTypes
  BY <1>1, Sizes, SMT DEF BoardInit, FifoTypes
<1>3. left \in Nat
  BY SMT DEF BoardInit
<1> QED
  BY <1>2, <1>3, Sizes, Zenon
     DEF BoardInit, LineInit, Types, LineTypeOK, MainTypes, LineTypes, HostTypes,
         HistoryTypes, Pcs

LEMMA InputTypes == ASSUME Types, Input PROVE Types'
<1>1. CASE inFifo = <<>>
  BY <1>1, Zenon
     DEF Input, NextIteration, Types, MainTypes, LineTypes, FifoTypes, HostTypes,
         HistoryTypes, LineTypeOK, lineVars, usartVars, hostVars, Pcs
<1>2. CASE inFifo # <<>>
  <2>1. /\ ProcessByte(Head(inFifo)) /\ inFifo' = Tail(inFifo)
        /\ pc' = CASE outcome' = "none"    -> "echo"
                   [] outcome' = "command" -> "report"
                   [] outcome' = "reset"   -> "spin"
        /\ left' \in IF outcome' = "command" THEN ReportLengths ELSE {0}
        /\ heldUp' = (heldUp /\ inFifo' # <<>>) /\ arrived' = arrived
        /\ UNCHANGED <<usartVars, outUsed, hostVars>>
    BY <1>2, Zenon DEF Input
  <2>2. LineTypeOK'
    BY <1>2, <2>1, Taken, ByteTypes, Zenon DEF Types
  <2>3. pc' \in Pcs
    BY <2>1, <2>2 DEF LineTypeOK, Pcs
  <2>4. left' \in Nat
    BY <2>1, BoardAssumption
  <2>5. FifoTypes'
    BY <1>2, <2>1, Taken, Zenon DEF Types, FifoTypes
  <2>6. HistoryTypes'
    <3>1. heldUp' \in BOOLEAN
      BY <2>1, Zenon
    <3> QED
      BY <2>1, <3>1, Zenon DEF Types, HistoryTypes
  <2>7. LineTypes' /\ HostTypes'
    BY <2>1, Zenon DEF Types, LineTypes, HostTypes, usartVars, hostVars
  <2> QED
    BY <2>2, <2>3, <2>4, <2>5, <2>6, <2>7, Zenon DEF Types, MainTypes
<1> QED
  BY <1>1, <1>2

LEMMA NextTypes == Types /\ [BoardNext]_boardVars => Types'
<1> SUFFICES ASSUME Types, [BoardNext]_boardVars PROVE Types'
  OBVIOUS
<1> USE DEF Types, MainTypes, LineTypes, FifoTypes, HostTypes, HistoryTypes, LineTypeOK,
            lineVars, usartVars, fifoVars, hostVars, Pcs
<1>1. CASE StartLoop \/ PollUsb
  BY <1>1, Zenon DEF StartLoop, PollUsb
<1>2. CASE GetChar
  <2>1. outUsed' \in 0 .. FifoSize /\ hostChars' \in 0 .. UsbRoom
    BY <1>2, Sizes, SMT DEF GetChar
  <2> QED
    BY <1>2, <2>1, Zenon DEF GetChar
<1>3. CASE SendOne
  <2>1. outUsed' \in 0 .. FifoSize
    BY <1>3, Sizes, SMT DEF SendOne
  <2> QED
    BY <1>3, <2>1, Zenon DEF SendOne
<1>4. CASE Input
  BY <1>4, InputTypes, Zenon
<1>5. CASE Report
  <2>1. tx' \in 0 .. UsbRoom /\ left' \in Nat
    BY <1>5, Sizes, SMT DEF Report
  <2> QED
    BY <1>5, <2>1, Zenon DEF Report
<1>6. CASE Echo
  <2>1. tx' \in 0 .. UsbRoom
    BY <1>6, Sizes, SMT DEF Echo
  <2> QED
    BY <1>6, <2>1, Zenon DEF Echo, NextIteration
<1>7. CASE WatchdogFires
  <2>1. inFifo' \in Seq(Bytes) /\ Len(inFifo') = 0 /\ left' \in Nat
    BY <1>7, EmptySeq DEF WatchdogFires
  <2>2. FifoTypes'
    BY <1>7, <2>1, Sizes, SMT DEF WatchdogFires
  <2> QED
    BY <1>7, <2>1, <2>2, Sizes, Zenon DEF WatchdogFires, Restart
<1>8. ASSUME NEW b \in Bytes, ByteArrives(b) PROVE Types'
  <2>1. heldUp' \in BOOLEAN
    BY <1>8, Zenon DEF ByteArrives
  <2> QED
    BY <1>8, <2>1, Zenon DEF ByteArrives
<1>9. CASE LineError
  BY <1>9, Zenon DEF LineError
<1>10. CASE UsartIrq
  <2>1. rhr \in Bytes
    BY <1>10, Zenon DEF UsartIrq
  <2>2. CASE Len(inFifo) < FifoSize
    <3>1. inFifo' = Append(inFifo, rhr)
      BY <1>10, <2>2, Zenon DEF UsartIrq
    <3>2. inFifo' \in Seq(Bytes) /\ Len(inFifo') = Len(inFifo) + 1 /\ Len(inFifo) \in Nat
      BY <2>1, <3>1, Put
    <3>3. Len(inFifo') <= FifoSize
      BY <2>2, <3>2, Sizes, SMT
    <3> QED
      BY <1>10, <3>2, <3>3, Zenon DEF UsartIrq
  <2>3. CASE ~(Len(inFifo) < FifoSize)
    BY <1>10, <2>3, Zenon DEF UsartIrq
  <2> QED
    BY <2>2, <2>3
<1>11. CASE HostSends
  <2>1. hostChars' \in 0 .. UsbRoom
    BY <1>11, Sizes, SMT DEF HostSends
  <2> QED
    BY <1>11, <2>1, Zenon DEF HostSends
<1>12. CASE HostDrains
  BY <1>12, Sizes, Zenon DEF HostDrains
<1>13. CASE HostComesOrGoes
  <2>1. hostReads' \in BOOLEAN
    BY <1>13, Zenon DEF HostComesOrGoes
  <2>2. CASE hostReads
    BY <1>13, <2>1, <2>2, Zenon DEF HostComesOrGoes
  <2>3. CASE ~hostReads
    <3>1. hostChars' = 0 /\ tx' = 0
      BY <1>13, <2>3, Zenon DEF HostComesOrGoes
    <3> QED
      BY <1>13, <2>1, <3>1, Sizes, Zenon DEF HostComesOrGoes
  <2> QED
    BY <2>2, <2>3
<1>14. CASE UsartTx
  BY <1>14, Zenon DEF UsartTx
<1>15. CASE UNCHANGED boardVars
  BY <1>15, Zenon DEF boardVars
<1> QED
  BY <1>1, <1>2, <1>3, <1>4, <1>5, <1>6, <1>7, <1>8, <1>9, <1>10, <1>11, <1>12, <1>13,
     <1>14, <1>15, Zenon
     DEF BoardNext, Main

LEMMA InvariantTypes == BoardSpec => []Types
<1> QED
  BY InitTypes, NextTypes, PTL DEF BoardSpec

(* The variables keep their types: no FIFO or console buffer holds more    *)
(* than it has room for (main.c:30-35, 43, 74).                            *)
THEOREM BoardTypeCorrect == BoardSpec => []BoardTypeOK
<1> QED
  BY TypesAreBoardTypes, InvariantTypes, PTL

-----------------------------------------------------------------------------
(* A line error.                                                           *)

(* The byte that came with an error is never read.                         *)
ErrorHolds == rxError => rhr # None

LEMMA ErrorHoldsInit == BoardInit => ErrorHolds
  BY Zenon DEF BoardInit, ErrorHolds

LEMMA ErrorHoldsNext == ErrorHolds /\ [BoardNext]_boardVars => ErrorHolds'
<1> SUFFICES ASSUME ErrorHolds, [BoardNext]_boardVars PROVE ErrorHolds'
  OBVIOUS
<1> USE DEF ErrorHolds, usartVars
<1>1. CASE Main
  <2>1. rhr' = rhr /\ rxError' = rxError
    BY <1>1, Zenon DEF Main, StartLoop, PollUsb, GetChar, SendOne, Input, Report, Echo
  <2> QED
    BY <2>1, Zenon
<1>2. CASE WatchdogFires
  BY <1>2, Zenon DEF WatchdogFires
<1>3. ASSUME NEW b \in Bytes, ByteArrives(b) PROVE ErrorHolds'
  BY <1>3, Zenon DEF ByteArrives
<1>4. CASE LineError \/ UsartIrq
  BY <1>4, Zenon DEF LineError, UsartIrq
<1>5. CASE UsartTx \/ HostSends \/ HostDrains \/ HostComesOrGoes
  BY <1>5, Zenon DEF UsartTx, HostSends, HostDrains, HostComesOrGoes
<1>6. CASE UNCHANGED boardVars
  BY <1>6, Zenon DEF boardVars
<1> QED
  BY <1>1, <1>2, <1>3, <1>4, <1>5, <1>6, Zenon DEF BoardNext

LEMMA ErrorStops ==
  ASSUME ErrorHolds, [BoardNext]_boardVars, rxError, pc \notin {"boot", "spin"}
  PROVE  UNCHANGED <<pc, lineVars, inFifo, outUsed>>
<1> USE DEF fifoVars
<1>1. ~Main
  BY Zenon DEF Main, MainRuns, ErrorHolds
<1>2. ~WatchdogFires /\ ~UsartIrq
  BY Zenon DEF WatchdogFires, UsartIrq
<1>3. ASSUME NEW b \in Bytes, ByteArrives(b) PROVE UNCHANGED <<pc, lineVars, inFifo, outUsed>>
  BY <1>3, Zenon DEF ByteArrives
<1>4. CASE LineError \/ UsartTx \/ HostSends \/ HostDrains \/ HostComesOrGoes
  BY <1>4, Zenon DEF LineError, UsartTx, HostSends, HostDrains, HostComesOrGoes
<1>5. CASE UNCHANGED boardVars
  BY <1>5, Zenon DEF boardVars
<1> QED
  BY <1>1, <1>2, <1>3, <1>4, <1>5, Zenon DEF BoardNext

(* After a line error the program stands still: the handler returns before *)
(* it reads the byte, the interrupt stays pending, and the main loop never *)
(* gets the CPU back (main.c:42-44).                                       *)
THEOREM BoardErrorStopsProgram == BoardSpec => ErrorStopsProgram
<1>1. ErrorHolds /\ [BoardNext]_boardVars
        => [(rxError /\ pc \notin {"boot", "spin"})
              => UNCHANGED <<pc, lineVars, inFifo, outUsed>>]_boardVars
  BY ErrorStops, Zenon
<1> QED
  BY <1>1, ErrorHoldsInit, ErrorHoldsNext, PTL DEF BoardSpec, ErrorStopsProgram

-----------------------------------------------------------------------------
(* Loss.                                                                   *)

Waiting == Len(inFifo) + (IF rhr = None THEN 0 ELSE 1)
Allowance ==
  (IF pc \in {"echo", "report", "spin"} THEN 0 ELSE 1) + (IF arrived THEN 1 ELSE 0)

(* While the loop is not kept waiting no more bytes wait than the one left *)
(* over from the iteration before and the one that arrived in this.        *)
Backlog == ~heldUp => Waiting <= Allowance

LEMMA WaitingType == Types => Len(inFifo) \in Nat /\ Waiting \in Nat /\ Allowance \in Nat
<1> SUFFICES ASSUME Types PROVE Len(inFifo) \in Nat /\ Waiting \in Nat /\ Allowance \in Nat
  OBVIOUS
<1>1. Len(inFifo) \in Nat
  BY LenProperties, Zenon DEF Types, FifoTypes
<1> QED
  BY <1>1, SMT DEF Waiting, Allowance

LEMMA BacklogInit == BoardInit => Backlog
<1> SUFFICES ASSUME BoardInit PROVE Backlog
  OBVIOUS
<1>1. Len(inFifo) = 0
  BY EmptySeq DEF BoardInit
<1> QED
  BY <1>1, SMT DEF BoardInit, Backlog, Waiting, Allowance

LEMMA BacklogInput == ASSUME Types, Backlog, rhr = None, Input PROVE Backlog'
<1>1. rhr' = None
  BY Zenon DEF Input, usartVars
<1>2. CASE inFifo = <<>>
  <2>1. Len(inFifo') = 0 /\ pc' = "usb"
    BY <1>2, EmptySeq DEF Input, NextIteration
  <2> QED
    BY <1>1, <2>1, SMT DEF Backlog, Waiting, Allowance
<1>3. CASE inFifo # <<>>
  <2>1. /\ ProcessByte(Head(inFifo)) /\ inFifo' = Tail(inFifo)
        /\ pc' = CASE outcome' = "none"    -> "echo"
                   [] outcome' = "command" -> "report"
                   [] outcome' = "reset"   -> "spin"
        /\ heldUp' = (heldUp /\ inFifo' # <<>>) /\ arrived' = arrived
    BY <1>3, Zenon DEF Input
  <2>2. Len(inFifo') = Len(inFifo) - 1 /\ inFifo' \in Seq(Bytes)
    BY <1>3, <2>1, Taken, Zenon DEF Types
  <2>3. outcome' \in {"none", "command", "reset"}
    BY <1>3, <2>1, Taken, ByteTypes, Zenon DEF Types, LineTypeOK
  <2>4. pc' \in {"echo", "report", "spin"}
    BY <2>1, <2>3
  <2>5. CASE ~heldUp
    <3>1. Len(inFifo) <= 1 + (IF arrived THEN 1 ELSE 0)
      BY <2>5, WaitingType, SMT DEF Backlog, Waiting, Allowance
    <3> QED
      BY <1>1, <2>1, <2>2, <2>4, <3>1, WaitingType, SMT DEF Backlog, Waiting, Allowance
  <2>6. CASE heldUp /\ inFifo' = <<>>
    <3>1. Len(inFifo') = 0
      BY <2>6, EmptySeq
    <3> QED
      BY <1>1, <3>1, SMT DEF Backlog, Waiting, Allowance
  <2>7. CASE heldUp /\ inFifo' # <<>>
    BY <2>1, <2>7, Zenon DEF Backlog
  <2> QED
    BY <2>5, <2>6, <2>7
<1> QED
  BY <1>2, <1>3

LEMMA BacklogNext == Types /\ Backlog /\ [BoardNext]_boardVars => Backlog'
<1> SUFFICES ASSUME Types, Backlog, [BoardNext]_boardVars PROVE Backlog'
  OBVIOUS
<1> USE DEF fifoVars, usartVars, hostVars
<1>1. ASSUME UNCHANGED <<inFifo, rhr, pc, arrived, heldUp>> PROVE Backlog'
  <2>1. Waiting' = Waiting /\ Allowance' = Allowance
    BY <1>1, Zenon DEF Waiting, Allowance
  <2> QED
    BY <1>1, <2>1, Zenon DEF Backlog
<1>2. ASSUME NEW b \in Bytes, ByteArrives(b) PROVE Backlog'
  <2>1. rhr = None /\ arrived' = TRUE /\ inFifo' = inFifo /\ pc' = pc
    BY <1>2, Zenon DEF ByteArrives
  <2>2. CASE heldUp \/ KeptWaiting
    <3>1. heldUp'
      BY <1>2, <2>2, Zenon DEF ByteArrives
    <3> QED
      BY <3>1, Zenon DEF Backlog
  <2>3. CASE ~heldUp /\ ~KeptWaiting
    <3>1. ~arrived
      BY <1>2, <2>3, Zenon DEF ByteArrives
    <3>2. Waiting <= Allowance
      BY <2>3, Zenon DEF Backlog
    <3>3. Allowance' = Allowance + 1 /\ Waiting' <= Waiting + 1
      BY <2>1, <3>1, WaitingType, SMT DEF Waiting, Allowance
    <3>4. Waiting' \in Nat
      BY <2>1, WaitingType, SMT DEF Waiting
    <3>5. Waiting' <= Allowance'
      BY <3>2, <3>3, <3>4, WaitingType, SMT
    <3> QED
      BY <3>5, Zenon DEF Backlog
  <2> QED
    BY <2>2, <2>3
<1>3. CASE UsartIrq
  <2>1. rhr \in Bytes /\ rhr # None /\ rhr' = None
        /\ pc' = pc /\ arrived' = arrived /\ heldUp' = heldUp
    BY <1>3, Zenon DEF UsartIrq, Types, LineTypes
  <2>2. Len(inFifo') \in Nat /\ Len(inFifo') <= Len(inFifo) + 1
    <3>1. CASE Len(inFifo) < FifoSize
      <4>1. inFifo' = Append(inFifo, rhr)
        BY <1>3, <3>1, Zenon DEF UsartIrq
      <4>2. Len(inFifo') = Len(inFifo) + 1
        BY <2>1, <4>1, Put, Zenon DEF Types
      <4> QED
        BY <4>2, WaitingType, SMT
    <3>2. CASE ~(Len(inFifo) < FifoSize)
      <4>1. inFifo' = inFifo
        BY <1>3, <3>2, Zenon DEF UsartIrq
      <4> QED
        BY <4>1, WaitingType, SMT
    <3> QED
      BY <3>1, <3>2
  <2>3. Waiting' <= Waiting /\ Waiting' \in Nat
    BY <2>1, <2>2, WaitingType, SMT DEF Waiting
  <2>4. Allowance' = Allowance
    BY <2>1, Zenon DEF Allowance
  <2>5. ~heldUp => Waiting' <= Allowance'
    BY <2>3, <2>4, WaitingType, SMT DEF Backlog
  <2> QED
    BY <2>1, <2>5, Zenon DEF Backlog
<1>4. CASE Main /\ ~Input /\ ~Echo
  <2>1. inFifo' = inFifo /\ rhr' = rhr /\ arrived' = arrived /\ heldUp' = heldUp
    BY <1>4, Zenon DEF Main, StartLoop, PollUsb, GetChar, SendOne, Report
  <2>2. pc \in {"echo", "report", "spin"} <=> pc' \in {"echo", "report", "spin"}
    BY <1>4 DEF Main, StartLoop, PollUsb, GetChar, SendOne, Report
  <2>3. Waiting' = Waiting
    BY <2>1, Zenon DEF Waiting
  <2>4. Allowance' = Allowance
    BY <2>1, <2>2, Zenon DEF Allowance
  <2> QED
    BY <2>1, <2>3, <2>4, Zenon DEF Backlog
<1>5. CASE Main /\ Input
  <2>1. rhr = None
    BY <1>5, Zenon DEF Main, MainRuns, Input
  <2> QED
    BY <1>5, <2>1, BacklogInput, Zenon
<1>6. CASE Main /\ Echo
  <2>1. /\ rhr = None /\ rhr' = rhr /\ inFifo' = inFifo /\ heldUp' = heldUp
        /\ pc = "echo" /\ pc' = "usb" /\ arrived' = FALSE
    BY <1>6, Zenon DEF Main, MainRuns, Echo, NextIteration
  <2> QED
    BY <2>1, WaitingType, SMT DEF Backlog, Waiting, Allowance
<1>7. CASE WatchdogFires
  <2>1. Len(inFifo') = 0 /\ rhr' = None
    BY <1>7, EmptySeq DEF WatchdogFires
  <2> QED
    BY <2>1, SMT DEF Backlog, Waiting, Allowance
<1>8. CASE LineError \/ UsartTx \/ HostSends \/ HostDrains \/ HostComesOrGoes
  BY <1>1, <1>8, Zenon DEF LineError, UsartTx, HostSends, HostDrains, HostComesOrGoes
<1>9. CASE UNCHANGED boardVars
  BY <1>1, <1>9, Zenon DEF boardVars
<1> QED
  BY <1>2, <1>3, <1>4, <1>5, <1>6, <1>7, <1>8, <1>9, Zenon DEF BoardNext, Main

(* With room for two bytes a full FIFO takes a loop that was kept waiting. *)
LEMMA LossNeedsWait ==
  ASSUME FifoSize >= 2, Types, Backlog, UsartIrq, Len(inFifo) = FifoSize
  PROVE  heldUp
<1>1. rhr # None
  BY Zenon DEF UsartIrq
<1>2. Waiting >= 3 /\ Allowance <= 2
  BY <1>1, Sizes, SMT DEF Waiting, Allowance
<1> QED
  BY <1>2, WaitingType, SMT DEF Backlog

(* A received byte is dropped (main.c:43) only if, since the FIFO was last *)
(* empty, the main loop was kept waiting in WriteStringToUSB or            *)
(* udi_cdc_getc; for every FIFO of two bytes or more.                      *)
THEOREM BoardLossMeansHeldUp ==
  ASSUME FifoSize >= 2 PROVE BoardSpec => LossMeansHeldUp
<1>1. Types /\ Backlog /\ [BoardNext]_boardVars
        => [(UsartIrq /\ Len(inFifo) = FifoSize) => heldUp]_boardVars
  BY LossNeedsWait, Zenon
<1>2. BoardInit => Types /\ Backlog
  BY InitTypes, BacklogInit, Zenon
<1>3. Types /\ Backlog /\ [BoardNext]_boardVars => Types' /\ Backlog'
  BY NextTypes, BacklogNext, Zenon
<1> QED
  BY <1>1, <1>2, <1>3, PTL DEF BoardSpec, LossMeansHeldUp
-----------------------------------------------------------------------------
(* Order.                                                                  *)

LEMMA AppendUndone ==
  ASSUME NEW S, NEW s \in Seq(S), NEW e \in S
  PROVE  /\ Append(s, e) \in Seq(S)
         /\ Len(Append(s, e)) = Len(s) + 1
         /\ SubSeq(Append(s, e), 1, Len(Append(s, e)) - 1) = s
<1> DEFINE t == Append(s, e)
           u == SubSeq(t, 1, Len(t) - 1)
<1>1. /\ t \in Seq(S) /\ Len(t) = Len(s) + 1 /\ Len(s) \in Nat
      /\ \A i \in 1 .. Len(s) : t[i] = s[i]
  BY AppendProperties, LenProperties
<1> HIDE DEF t
<1>2. \A i \in 1 .. Len(t) - 1 : t[i] \in S
  BY <1>1, ElementOfSeq, SMT
<1>3. /\ u \in Seq(S) /\ Len(u) = Len(s)
      /\ \A i \in 1 .. Len(s) : u[i] = s[i]
  <2>1. Len(t) - 1 = Len(s) /\ 1 \in Int /\ Len(t) - 1 \in Int
    BY <1>1, SMT
  <2>2. /\ SubSeq(t, 1, Len(t) - 1) \in Seq(S)
        /\ Len(SubSeq(t, 1, Len(t) - 1)) = (IF 1 <= Len(t) - 1 THEN Len(t) - 1 - 1 + 1 ELSE 0)
        /\ \A i \in 1 .. Len(t) - 1 - 1 + 1 : SubSeq(t, 1, Len(t) - 1)[i] = t[1 + i - 1]
    BY <1>2, <2>1, SubSeqProperties
  <2> HIDE DEF u
  <2>3. u \in Seq(S) /\ Len(u) = Len(s) /\ \A i \in 1 .. Len(s) : u[i] = t[i]
    BY <1>1, <2>1, <2>2, SMT DEF u
  <2> QED
    BY <1>1, <2>3
<1> HIDE DEF u
<1>4. u = s
  BY <1>3, SeqEqual
<1> QED
  BY <1>1, <1>4 DEF t, u

(* What waits: the FIFO, and behind it the byte in the register.           *)
Queue == IF rhr = None THEN inFifo ELSE Append(inFifo, rhr)

LEMMA ByteIsPipes ==
  ASSUME NEW b, ProcessByte(b) PROVE Pipe!ProcessByte(b)
<1>1. CASE Complete(b)
  BY <1>1, Zenon DEF ProcessByte, Complete, Pipe!ProcessByte, Pipe!Complete
<1>2. CASE Swallow(b)
  BY <1>2, Zenon DEF ProcessByte, Swallow, Pipe!ProcessByte, Pipe!Swallow
<1>3. CASE Mismatch
  BY <1>3, Zenon DEF ProcessByte, Mismatch, Pipe!ProcessByte, Pipe!Mismatch
<1>4. CASE Match(b)
  BY <1>4, Zenon DEF ProcessByte, Match, Pipe!ProcessByte, Pipe!Match
<1> QED
  BY <1>1, <1>2, <1>3, <1>4, Zenon DEF ProcessByte

LEMMA PipeStarts == BoardInit => Pipe!PipeInit
  BY Zenon DEF BoardInit, LineInit, Pipe!PipeInit, Pipe!LineInit

(* A byte that arrives is at the end of the queue already; the handler     *)
(* only moves it from the register to the FIFO, or drops it.               *)
LEMMA IrqIsPipes ==
  ASSUME Types, UsartIrq PROVE [Pipe!PipeNext]_Pipe!pipeVars
<1>1. /\ rhr \in Bytes /\ rhr # None /\ rhr' = None
      /\ inFifo \in Seq(Bytes) /\ UNCHANGED lineVars
  BY Zenon DEF UsartIrq, Types, LineTypes, FifoTypes
<1>2. Queue = Append(inFifo, rhr) /\ Queue' = inFifo'
  BY <1>1, Zenon DEF Queue
<1>3. CASE Len(inFifo) < FifoSize
  <2>1. inFifo' = Append(inFifo, rhr)
    BY <1>3, Zenon DEF UsartIrq
  <2>2. Queue' = Queue
    BY <1>2, <2>1, Zenon
  <2> QED
    BY <1>1, <2>2, Zenon DEF Queue, lineVars, Pipe!pipeVars, Pipe!lineVars
<1>4. CASE ~(Len(inFifo) < FifoSize)
  <2>1. inFifo' = inFifo
    BY <1>4, Zenon DEF UsartIrq
  <2>2. Len(Queue) > FifoSize /\ SubSeq(Queue, 1, Len(Queue) - 1) = inFifo
    <3>1. Len(inFifo) \in Nat /\ Len(Queue) = Len(inFifo) + 1
      BY <1>1, <1>2, AppendUndone, LenProperties
    <3>2. Len(Queue) > FifoSize
      BY <1>4, <3>1, Sizes, SMT
    <3> QED
      BY <1>1, <1>2, <3>2, AppendUndone
  <2>3. Pipe!LoseNewest
    BY <1>1, <1>2, <2>1, <2>2, Zenon
       DEF Queue, lineVars, Pipe!LoseNewest, Pipe!lineVars
  <2> QED
    BY <2>3, Zenon DEF Pipe!PipeNext
<1> QED
  BY <1>3, <1>4

LEMMA PipeStep == Types /\ [BoardNext]_boardVars => [Pipe!PipeNext]_Pipe!pipeVars
<1> SUFFICES ASSUME Types, [BoardNext]_boardVars PROVE [Pipe!PipeNext]_Pipe!pipeVars
  OBVIOUS
<1> USE DEF fifoVars, usartVars, hostVars
<1>1. ASSUME UNCHANGED <<lineVars, inFifo, rhr>> PROVE [Pipe!PipeNext]_Pipe!pipeVars
  BY <1>1, Zenon DEF lineVars, Pipe!pipeVars, Pipe!lineVars
<1>2. ASSUME NEW b \in Bytes, ByteArrives(b) PROVE [Pipe!PipeNext]_Pipe!pipeVars
  <2>1. rhr = None /\ rhr' = b /\ inFifo' = inFifo /\ UNCHANGED lineVars
    BY <1>2, Zenon DEF ByteArrives
  <2>2. CASE b = None
    BY <1>1, <2>1, <2>2, Zenon
  <2>3. CASE b # None
    <3>1. Pipe!Receive(b)
      BY <2>1, <2>3, Zenon DEF lineVars, Pipe!Receive, Pipe!lineVars
    <3> QED
      BY <3>1, Zenon DEF Pipe!PipeNext
  <2> QED
    BY <2>2, <2>3
<1>3. CASE UsartIrq
  BY <1>3, IrqIsPipes
<1>4. CASE Main /\ ~Input
  <2>1. UNCHANGED <<lineVars, inFifo, rhr>>
    BY <1>4, Zenon DEF Main, StartLoop, PollUsb, GetChar, SendOne, Report, Echo
  <2> QED
    BY <1>1, <2>1
<1>5. CASE Main /\ Input
  <2>1. rhr = None /\ rhr' = None
    BY <1>5, Zenon DEF Main, MainRuns, Input
  <2>2. CASE inFifo = <<>>
    <3>1. UNCHANGED <<lineVars, inFifo, rhr>>
      BY <1>5, <2>1, <2>2, Zenon DEF Input
    <3> QED
      BY <1>1, <3>1
  <2>3. CASE inFifo # <<>>
    <3>1. ProcessByte(Head(inFifo)) /\ inFifo' = Tail(inFifo)
      BY <1>5, <2>3, Zenon DEF Input
    <3>2. Pipe!Parse
      BY <2>1, <2>3, <3>1, ByteIsPipes, Zenon DEF Pipe!Parse
    <3> QED
      BY <3>2, Zenon DEF Pipe!PipeNext
  <2> QED
    BY <2>2, <2>3
<1>6. CASE WatchdogFires
  <2>1. Restart /\ inFifo' = <<>> /\ rhr' = None
    BY <1>6, Zenon DEF WatchdogFires
  <2>2. Pipe!Reset
    BY <2>1, Zenon DEF Restart, Pipe!Reset, Pipe!Restart
  <2> QED
    BY <2>2, Zenon DEF Pipe!PipeNext
<1>7. CASE LineError \/ UsartTx \/ HostSends \/ HostDrains \/ HostComesOrGoes
  BY <1>1, <1>7, Zenon DEF LineError, UsartTx, HostSends, HostDrains, HostComesOrGoes
<1>8. CASE UNCHANGED boardVars
  BY <1>1, <1>8, Zenon DEF boardVars
<1> QED
  BY <1>2, <1>3, <1>4, <1>5, <1>6, <1>7, <1>8, Zenon DEF BoardNext

(* Interrupt, FIFO and main loop are one queue in front of ProcessByte,    *)
(* for FIFOs of any size: bytes are parsed in the order they came, each at *)
(* most once, and a full FIFO costs only the newest (main.c:43, 83-87).    *)
THEOREM ImplementsPipe == BoardSpec => ParsesInOrder
<1> QED
  BY InitTypes, NextTypes, PipeStarts, PipeStep, PTL
     DEF BoardSpec, ParsesInOrder, Pipe!PipeSpec
=============================================================================
