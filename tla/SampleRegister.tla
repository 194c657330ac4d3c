--------------------------- MODULE SampleRegister ---------------------------
(***************************************************************************)
(* What the acquisition half of the sound board promises its readers: one  *)
(* register per input, written whole by one conversion at a time with a    *)
(* reading of that very input, and no input converted again in the next    *)
(* frame but one.  There is nothing here of words, buffers or selectors.   *)
(*                                                                         *)
(* AdcChain implements this if its start-up masks the interrupt.           *)
(***************************************************************************)
EXTENDS Integers

CONSTANTS
  Inputs,       \* the converter's inputs
  Samples,      \* Samples[ch]: what a conversion of input ch can yield
  Unread        \* what a register holds before its first conversion

VARIABLES
  value,        \* the registers
  lastTwo       \* the inputs converted last, and before that

registerVars == <<value, lastTwo>>

RegisterInit ==
  /\ value = [ch \in Inputs |-> Unread]
  /\ lastTwo = <<-1, -1>>

Convert(ch, sample) ==
  /\ ch # lastTwo[2]
  /\ value' = [value EXCEPT ![ch] = sample]
  /\ lastTwo' = <<ch, lastTwo[1]>>

RegisterNext == \E ch \in Inputs : \E sample \in Samples[ch] : Convert(ch, sample)

RegisterSpec == RegisterInit /\ [][RegisterNext]_registerVars
=============================================================================
