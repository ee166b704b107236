----------------------- MODULE MCSampleMetadataQueue -----------------------
(* SampleMetadataQueue for TLC.                                            *)
EXTENDS SampleMetadataQueue

(* Every time and flag; only a keyframe may follow a byte that belongs to  *)
(* no sample, and only the largest time may be the last sample's.          *)
MCOffered ==
  {o \in [time: Times, key: BOOLEAN, last: BOOLEAN, size: Sizes, gap: {0, 1}] :
     /\ o.gap = 1 => o.key
     /\ o.last <=> \A t \in Times : t <= o.time}

(* What the next calls depend on: a slot outside the queue is not read     *)
(* before it is written, and what a call returned is not read at all.      *)
MCView ==
  <<capacity, [i \in 1 .. length |-> SampleAt(i - 1)], relativeFirstIndex, window,
    readPosition, largest, isLastSampleQueued, upstream, callers>>
=============================================================================
