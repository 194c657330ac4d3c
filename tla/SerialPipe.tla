----------------------------- MODULE SerialPipe -----------------------------
(***************************************************************************)
(* What the power board promises the Beagle: its bytes go through          *)
(* ProcessByte in the order they came, each at most once; of more than     *)
(* Capacity that wait, only the newest may be lost; and nothing but a      *)
(* reset of the board takes the others away.  There is nothing here of     *)
(* interrupts, registers, a main loop and a USB host.                      *)
(*                                                                         *)
(* PowerBoard implements this.                                             *)
(***************************************************************************)
EXTENDS LineParser, Sequences

CONSTANT Capacity

VARIABLE queue      \* bytes received and not yet parsed

pipeVars == <<lineVars, queue>>

PipeInit == LineInit /\ queue = <<>>

Receive(b) ==
  /\ queue' = Append(queue, b)
  /\ UNCHANGED lineVars

LoseNewest ==
  /\ Len(queue) > Capacity
  /\ queue' = SubSeq(queue, 1, Len(queue) - 1)
  /\ UNCHANGED lineVars

Parse ==
  /\ queue # <<>>
  /\ ProcessByte(Head(queue))
  /\ queue' = Tail(queue)

Reset == Restart /\ queue' = <<>>

PipeNext == (\E b \in Bytes : Receive(b)) \/ LoseNewest \/ Parse \/ Reset

PipeSpec == PipeInit /\ [][PipeNext]_pipeVars
=============================================================================
