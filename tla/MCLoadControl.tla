--------------------------- MODULE MCLoadControl ---------------------------
(* LoadControl for TLC: every size is a few bytes.                         *)
EXTENDS LoadControl
=============================================================================
