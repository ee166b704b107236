----------------------------- MODULE SampleFifo -----------------------------
(***************************************************************************)
(* What the sample queues promise to a renderer: the samples of a track    *)
(* arrive whole, in the order the extractor committed them, none missing   *)
(* and none twice, each with the bytes that were written for it.           *)
(***************************************************************************)
EXTENDS Naturals, Sequences

CONSTANTS Tracks, Bytes

VARIABLES
  sent,   (* Per track, the samples committed: each a sequence of bytes.   *)
  got     (* Per track, the samples delivered.                             *)

vars == <<sent, got>>

Init ==
  /\ sent = [q \in Tracks |-> << >>]
  /\ got = [q \in Tracks |-> << >>]

Commit(q) ==
  /\ Len(sent'[q]) = Len(sent[q]) + 1
  /\ sent' = [sent EXCEPT ![q] = Append(@, sent'[q][Len(@) + 1])]
  /\ sent'[q][Len(sent'[q])] \in Seq(Bytes)
  /\ UNCHANGED got

Deliver(q) ==
  /\ Len(got[q]) < Len(sent[q])
  /\ got' = [got EXCEPT ![q] = Append(@, sent[q][Len(@) + 1])]
  /\ UNCHANGED sent

Next == \E q \in Tracks : Commit(q) \/ Deliver(q)

Spec == Init /\ [][Next]_vars
=============================================================================
