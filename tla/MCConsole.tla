----------------------------- MODULE MCConsole -----------------------------
(* A screen of a few cells, one key, and bytes of two values.              *)
EXTENDS UpTime, TLC

MCKey == {"w"}
MCPlain == [s \in MCKey |-> s]
MCShifted == "w" :> "W"
MCGlyph == {" ", ">", "w", "W", "h", "d", "n", "e", "s", "7"}
MCWriteWord == <<"w">>
MCClearLine == <<"W">>

(* A line not known prints a line and a prompt; "up time" prints a number  *)
(* and nothing else, "shut down" starts a line of its own.                 *)
MCOutput(line) ==
  CASE line = <<"W", "W">> -> {<<"7">>}
    [] line = <<"W", "w">> -> {<<"NL", "s", "NL">>}
    [] OTHER -> {<<"e", "NL", ">">>}
(* printDecimal is right for all that up_time can be. *)
ASSUME DecimalAssumption == \A n \in 0 .. 255 : Denotes(printDecimal(n), n)

MCWelcome == <<"h", "NL">>
MCEnterData == <<"d", "NL">>
MCNoSpace == <<"n", "NL">>
=============================================================================
