-------------------------- MODULE MCCommandParser ---------------------------
(* CommandParser over an alphabet of four letters: words are one or two    *)
(* letters long and overlap as the real ones do (the two reset commands    *)
(* begin alike, the prefix begins with a letter it does not repeat), and   *)
(* the buffer just holds "power on <device>".                              *)
EXTENDS CommandParser, TLC

MCBytes == {"a", "v", "p", "o", "eol"}
MCEndBytes == {"eol"}
MCPrefix == <<"a", "v">>
MCBeagleResetCmd == <<"o", "p">>
MCResetCmd == <<"o", "o">>
MCPowerCmd == <<"p">>
MCLcdCmd == <<"v">>
MCWatchdogCmd == <<"a">>
MCPowerOn == <<"o">>
MCPowerOff == <<"v">>
MCPowerMic == <<"a">>
MCLcdClear == <<"p">>
MCWatchdogEnable == <<"p">>
MCWatchdogDisable == <<"o">>
MCWatchdogPulse == <<"v">>
MCDigitOf == "p" :> 9

(* A digit stands for a whole number and the blank before it, so that both *)
(* numbers of a Beagle command fit the buffer.                             *)
MCStrtoul(text) ==
  LET number == {i \in DOMAIN text :
                   text[i] \in DOMAIN DigitOf /\ \A j \in DOMAIN text : i <= j}
  IN [value |-> IF number = {} THEN 0 ELSE 9,
      rest |-> [i \in DOMAIN text \ number |-> text[i]]]
=============================================================================
