---------------------------- MODULE MCTranscoder ----------------------------
(* Transcoder for TLC.                                                     *)
EXTENDS Transcoder

(* A program map may list its streams in any order of their pids.          *)
OneId == <<257>>
DescendingIds == <<258, 257>>
=============================================================================
