---------------------------- MODULE MCLineEditor ----------------------------
(***************************************************************************)
(* A small instance of LineEditor for TLC: single keys, and pasted lines.  *)
(* The root /r holds a file a and beside it a file and a directory whose   *)
(* names start alike; one command completes paths, one instances.          *)
(***************************************************************************)
EXTENDS LineEditor, TLC

MCRoot     == <<"/", "r">>
MCHere     == <<>>
MCListing  ==
  << >>                          :> << <<"r">> >> @@
  << <<"r">> >>                  :> << <<"b", "b">>, <<"a">>, <<"b", "a", "b">>, <<"b", "a", "a">> >> @@
  << <<"r">>, <<"b", "b">> >>    :> << <<"a">> >>
MCRegular  ==
  {<< <<"r">>, <<"a">> >>, << <<"r">>, <<"b", "a", "a">> >>, << <<"r">>, <<"b", "a", "b">> >>,
   << <<"r">>, <<"b", "b">>, <<"a">> >>}
MCAlphabet == <<" ", "\"", "/", "1", "A", "B", "[", "a", "b">>

MCLetters  == {"a", "b", "r", "1"}
MCCommands ==
  << [name |-> <<"b">>,           tab |-> "dirs"],
     [name |-> <<"a", "a", "b">>, tab |-> "instances"],
     [name |-> <<"a", "b">>,      tab |-> "none"],
     [name |-> <<"a", "a", "a">>, tab |-> "commands"] >>
MCCwd      == Slash
MCSessions == <<"1">>
MCPackets ==
  {<<"a">>, <<"b">>, <<"b", " ">>, <<"?">>, <<"\r">>, <<"\t">>, <<"^C">>, <<"DEL">>, <<"^R">>,
   <<"ESC", "[", "A">>, <<"ESC", "[", "B">>, <<"b", " ", "\r">>, <<"IAC", "WILL", "b">>}
=============================================================================
