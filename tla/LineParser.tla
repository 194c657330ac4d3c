----------------------------- MODULE LineParser -----------------------------
(***************************************************************************)
(* What ProcessByte promises the main loop of the power board, without the *)
(* buffer and the words: a byte is taken, and once a command line is open  *)
(* its end, and nothing else, completes a command.  A command is either    *)
(* carried out, which may write to USB, or is the reset command, from      *)
(* which ProcessByte does not return.  A command line opens only behind as *)
(* many bytes in a row as the prefix has, none of which ends a line.       *)
(*                                                                         *)
(* CommandParser implements this; PowerBoard relies on nothing else.       *)
(***************************************************************************)
EXTENDS Integers

CONSTANTS
  Bytes,          \* what can be received
  EndBytes,       \* the bytes that end a line
  PrefixLength    \* length of the magic prefix

ASSUME LineAssumption ==
  /\ EndBytes \subseteq Bytes
  /\ PrefixLength \in Nat \ {0}

VARIABLES
  inCommand,      \* is a command line open?
  matched,        \* bytes of the prefix received, when none is
  outcome         \* what came of the last byte

lineVars == <<inCommand, matched, outcome>>

LineTypeOK ==
  /\ inCommand \in BOOLEAN
  /\ matched \in 0 .. PrefixLength - 1
  /\ outcome \in {"none", "command", "reset"}

LineInit == inCommand = FALSE /\ matched = 0 /\ outcome = "none"

Complete(b) ==
  /\ inCommand
  /\ b \in EndBytes
  /\ inCommand' = FALSE
  /\ outcome' \in {"command", "reset"}
  /\ UNCHANGED matched

Swallow(b) ==
  /\ inCommand
  /\ b \notin EndBytes
  /\ outcome' = "none"
  /\ UNCHANGED <<inCommand, matched>>

Mismatch ==
  /\ ~inCommand
  /\ matched' = 0
  /\ outcome' = "none"
  /\ UNCHANGED inCommand

Match(b) ==
  /\ ~inCommand
  /\ b \notin EndBytes
  /\ IF matched + 1 = PrefixLength
       THEN matched' = 0 /\ inCommand' = TRUE
       ELSE matched' = matched + 1 /\ UNCHANGED inCommand
  /\ outcome' = "none"

ProcessByte(b) ==
  /\ outcome # "reset"
  /\ Complete(b) \/ Swallow(b) \/ Mismatch \/ Match(b)

Restart == outcome = "reset" /\ inCommand' = FALSE /\ matched' = 0 /\ outcome' = "none"

LineNext == Restart \/ \E b \in Bytes : ProcessByte(b)

LineSpec == LineInit /\ [][LineNext]_lineVars
=============================================================================
