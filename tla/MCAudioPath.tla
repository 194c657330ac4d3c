---------------------------- MODULE MCAudioPath -----------------------------
(* AudioPath with packets of a frame or two of two channels.               *)
EXTENDS AudioPath

(* Channel 0 has two readings, so that two packets can differ, and channel *)
(* 1 one that differs from both, so that a misplaced sample shows.         *)
MCReadings == [ch \in Channels |-> IF ch = 0 THEN {1, 4095} ELSE {10 + ch}]

(* For liveness: one reading per input.                                    *)
MCOneReading == [ch \in Channels |-> {10 + ch}]
=============================================================================
