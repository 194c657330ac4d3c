------------------------------- MODULE PreAmp -------------------------------
(***************************************************************************)
(* The preamplifiers' gains: digital potentiometers behind I2C, two to a   *)
(* chip, whose write-protect pin the firmware drives.  PreAmp_Init and     *)
(* PreAmp_write are given as steps for a main program that prints in       *)
(* between; a transfer may fail, and a failed write may or may not have    *)
(* reached its potentiometer.  PreAmp_read changes nothing here.           *)
(***************************************************************************)
EXTENDS Integers

CONSTANT NbInputs     \* inputs that are given a gain

ASSUME InputsAssumption == NbInputs \in 1 .. 8

Inputs == 0 .. NbInputs - 1

(* Where a channel's potentiometer is: the chip's address and the register *)
(* inside it.  A chip answers to 44 to 47.  The faulty variants look at    *)
(* the wrong address bits.                                                 *)
RdacTwiAddr(addr) == (88 + 2 * ((addr \div 2) % 4)) \div 2
Rdac1Or3_WrongBit(addr) == IF (addr \div 4) % 2 = 1 THEN 3 ELSE 1
Rdac1Or3(addr) == IF addr % 2 = 1 THEN 3 ELSE 1
PotOf(addr) == <<RdacTwiAddr(addr), Rdac1Or3(addr)>>

Pots == (44 .. 47) \X {1, 3}

(* The gains the program sets, and none that is known: what a potentiometer*)
(* holds before the first write.                                           *)
StartGain == 32
TestGain == 182
NoGain == -1
Gains == {NoGain, StartGain, TestGain}

VARIABLES
  pots,           \* what the potentiometers hold
  protected,      \* is the write-protect pin low?
  accepted        \* history: each channel's last gain, if acknowledged

ampVars == <<pots, protected, accepted>>

AmpTypeOK ==
  /\ pots \in [Pots -> Gains]
  /\ protected \in BOOLEAN
  /\ accepted \in [Inputs -> Gains]

(* Nothing drives the pin before PreAmp_Init.                              *)
AmpInit ==
  /\ pots = [pot \in Pots |-> NoGain]
  /\ protected \in BOOLEAN
  /\ accepted = [ch \in Inputs |-> NoGain]

(* PreAmp_Init; its result, like that of a write, is only printed.         *)
PreAmp_Init == protected' = TRUE /\ UNCHANGED <<pots, accepted>>

Unprotect == protected' = FALSE /\ UNCHANGED <<pots, accepted>>

Protect == protected' = TRUE /\ UNCHANGED <<pots, accepted>>

(* A protected potentiometer acknowledges a write and ignores it.          *)
Transfer(ch, gain) ==
  LET written == IF protected THEN pots ELSE [pots EXCEPT ![PotOf(ch)] = gain] IN
  /\ \/ pots' = written /\ accepted' = [accepted EXCEPT ![ch] = gain]
     \/ pots' \in {pots, written} /\ accepted' = [accepted EXCEPT ![ch] = NoGain]
  /\ UNCHANGED protected
=============================================================================
