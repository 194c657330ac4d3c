--------------------------- MODULE MCSoundConsole ---------------------------
(* SoundConsole with a console of two characters, and messages of one, so  *)
(* that a change of setting prints as much as the console holds.           *)
EXTENDS SoundConsole

MCKeys == {"q", "a", "?"}
=============================================================================
