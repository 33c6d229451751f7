------------------------------ MODULE MCPlayback ------------------------------
(***************************************************************************)
(* Small instances of Playback for TLC.                                    *)
(***************************************************************************)
EXTENDS Playback, TLC

Symmetry == Permutations(Clients) \cup Permutations(Streams)
=============================================================================
