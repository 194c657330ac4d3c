----------------------------- MODULE MCAdcChain -----------------------------
(* AdcChain with a few readings per input.                                 *)
EXTENDS AdcChain

(* The streamed inputs 0 and 1 get both ends of the two's complement range.*)
MCReadings ==
  [ch \in Channels |->
     CASE ch = 0 -> {0, 2047}
       [] ch = 1 -> {2048, 4095}
       [] OTHER  -> {100 + ch}]

(* Where the handler may interleave with ADC_Init: two readings on input 0 *)
(* only, so that its two buffers can differ: zero and the most negative.   *)
MCFewReadings == [ch \in Channels |-> IF ch = 0 THEN {0, 2048} ELSE {100 + ch}]
=============================================================================
