--------------------------- MODULE MCSampleQueue ---------------------------
(* SampleQueue for TLC. Blocks are interchangeable, and what was delivered *)
(* does not affect what happens next.                                      *)
EXTENDS SampleQueue, TLC

BlockSymmetry == Permutations(Blocks)

WithoutDelivered ==
  <<allocator, content, nodes, metadata, appendingTo, reading, position, end, out>>
=============================================================================
