----------------------------- MODULE HostStream -----------------------------
(***************************************************************************)
(* What the sound board promises the host: only an open stream is sent     *)
(* anything; a transfer brings the cells of a packet in order, each once   *)
(* and for good, and each from the channel its position stands for; it     *)
(* ends with the packet, or when the stream is opened, closed or reset.    *)
(* There is nothing here of converters, ticks and buffers, nor does it say *)
(* that the cells of a packet were sampled together: a packet copied over  *)
(* the one being sent keeps this promise, and no more.                     *)
(*                                                                         *)
(* AudioPath implements this.                                              *)
(***************************************************************************)
EXTENDS Integers

CONSTANTS
  Size,         \* cells of a packet
  Cell          \* Cell[k]: what can come at position k

VARIABLES
  open,         \* does the host have the stream open?
  sending,      \* is a transfer under way?
  count,        \* cells it has brought
  got           \* and what they were

streamVars == <<open, sending, count, got>>

Nothing == [k \in {} |-> 0]

StreamInit == open = FALSE /\ sending = FALSE /\ count = 0 /\ got = Nothing

Idle == sending' = FALSE /\ count' = 0 /\ got' = Nothing

Begin ==
  /\ open /\ ~sending
  /\ sending' = TRUE
  /\ UNCHANGED <<open, count, got>>

Bring ==
  /\ sending /\ count < Size
  /\ \E cell \in Cell[count] :
       got' = [k \in 0 .. count |-> IF k = count THEN cell ELSE got[k]]
  /\ count' = count + 1
  /\ UNCHANGED <<open, sending>>

Finish == sending /\ count = Size /\ Idle /\ UNCHANGED open

(* The host opens or closes the stream, or resets the bus.                 *)
Switch == open' \in BOOLEAN /\ Idle

StreamNext == Begin \/ Bring \/ Finish \/ Switch

StreamSpec == StreamInit /\ [][StreamNext]_streamVars
=============================================================================
