------------------------------ MODULE MCMuxer ------------------------------
(* Values of the constants of Muxer for TLC.                               *)
EXTENDS Muxer

TwoAndOne == <<2, 1>>
=============================================================================
