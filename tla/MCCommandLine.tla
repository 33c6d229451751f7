---------------------------- MODULE MCCommandLine ----------------------------
(***************************************************************************)
(* A small instance of CommandLine for TLC: a root /r with a directory d,  *)
(* files 1 and f in it, and beside it a directory whose name continues the *)
(* root's.                                                                 *)
(***************************************************************************)
EXTENDS CommandLine

MCRoot     == <<"/", "r">>
MCHere     == <<>>
MCRegular  == {<< <<"r">>, <<"f">> >>, << <<"r">>, <<"d">>, <<"1">> >>}
MCListing  ==
  << >>                :> << <<"r", "2">>, <<"r">> >> @@
  << <<"r">> >>        :> << <<"d">>, <<"f">> >> @@
  << <<"r", "2">> >>   :> << >> @@
  << <<"r">>, <<"d">> >> :> << <<"1">> >>
MCAlphabet == <<"1", "2", "d", "f", "r">>

Call(words)  == [words |-> words, quoted |-> FALSE, blank |-> FALSE]
Blank(words) == [words |-> words, quoted |-> FALSE, blank |-> TRUE]
Quote(words) == [words |-> words, quoted |-> TRUE,  blank |-> FALSE]

MCCalls ==
  {Call(<< <<"pause">> >>), Blank(<< <<"pause">> >>),
   Call(<< <<"cd">>, <<"d">> >>), Call(<< <<"cd">>, <<".", ".">> >>),
   Call(<< <<"cd">>, <<".", ".", "/", "r", "2">> >>),
   Quote(<< <<"ls">>, <<"/", "d">> >>), Call(<< <<"ls">> >>),
   Call(<< <<"load">>, <<"1">>, <<"f">> >>),
   Call(<< <<"literal">>, <<"2">>, <<"f">> >>), Quote(<< <<"help">>, <<"f", " ", "f">> >>),
   Call(<< <<"kill">>, <<"2">> >>),
   Call(<< <<"id3">>, <<"f">> >>), Call(<< <<"id3">>, <<"2">> >>),
   Call(<< <<"filedump">>, <<"/", "d">> >>), Blank(<< <<"dirdump">> >>),
   Call(<< <<"qload">>, <<"1">>, <<"1">> >>),
   Call(<< <<"load">>, <<"1">>, <<"1">> >>), Call(<< <<"load">>, <<"f", "://">> >>),
   Call(<< <<"shutdown">>, <<"now">> >>), Call(<< <<"dvd">>, <<"1">> >>),
   Call(<< <<"f">>, <<"d">> >>), Quote(<< <<"cd">>, <<"d", DoubleQuote>> >>)}
=============================================================================
