------------------------------ MODULE MCLoader ------------------------------
(* Loader for TLC.                                                         *)
EXTENDS Loader
=============================================================================
