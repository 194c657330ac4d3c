---------------------------- MODULE MCPowerBoard ----------------------------
(* PowerBoard with FIFOs and console buffers of two, a prefix of one byte, *)
(* and commands that report nothing or more than the console holds.        *)
EXTENDS PowerBoard

MCBytes == {"text", "eol"}
MCEndBytes == {"eol"}
MCReportLengths == {0, 3}
=============================================================================
