----------------------------- MODULE SampleList -----------------------------
(***************************************************************************)
(* What the metadata queue of a track promises, without its storage: the   *)
(* samples that are still queued form one list, a read position divides    *)
(* the list into samples already read and samples to read, samples join at *)
(* the back, leave at the front or, when the loader takes them back, at    *)
(* the back, and a read delivers the sample at the read position.          *)
(*                                                                         *)
(* SampleMetadataQueue, which keeps the samples in a circular array that   *)
(* grows, is shown to implement this module.                               *)
(***************************************************************************)
EXTENDS Integers, Sequences

CONSTANTS
  Times,      (* Timestamps of samples, in microseconds.                   *)
  Sizes,      (* Sizes of samples, in bytes.                               *)
  Formats,    (* The formats a track may have over its life.               *)
  NoFormat    (* The null Format.                                          *)

MinTime == -1         (* Long.MIN_VALUE: smaller than every timestamp.     *)
PositionUnset == -1   (* C.POSITION_UNSET                                  *)
AdvanceFailed == -1   (* SampleQueue.ADVANCE_FAILED                        *)

Sample == [time: Times, key: BOOLEAN, last: BOOLEAN,
           offset: Nat, size: Sizes, format: Formats]

End(s) == s.offset + s.size

(* Largest member of a set of times, MinTime when there is none.           *)
Latest(T) == CHOOSE m \in T \cup {MinTime} : \A t \in T : t <= m

VARIABLES
  samples,        (* The queued samples, oldest first.                     *)
  firstIndex,     (* Number of samples that have left at the front.        *)
  readPosition,   (* Number of queued samples that have been read.         *)
  discardedTime,  (* Largest timestamp of those that left at the front.    *)
  returned        (* What the last call handed to its caller.              *)

vars == <<samples, firstIndex, readPosition, discardedTime, returned>>

NoResult == <<"none">>

TimesOf(s) == {s[i].time : i \in DOMAIN s}
First(s, n) == SubSeq(s, 1, n)
Rest(s, n) == SubSeq(s, n + 1, Len(s))

(* Of the first n samples after `from`, how far the last one is at or      *)
(* before time t (and a keyframe, when asked for) with none later than t   *)
(* in front of it; -1 when there is none.                                  *)
LastAtOrBefore(from, n, t, key) ==
  LET found == {i \in 0 .. n - 1 :
                  /\ \A j \in 0 .. i : samples[from + j + 1].time <= t
                  /\ key => samples[from + i + 1].key}
  IN  CHOOSE m \in found \cup {-1} : \A i \in found : i <= m

Init ==
  /\ samples = << >>
  /\ firstIndex = 0
  /\ readPosition = 0
  /\ discardedTime = MinTime
  /\ returned = NoResult

(* The loader adds a sample.                                               *)
Commit ==
  /\ Len(samples') = Len(samples) + 1
  /\ samples' = Append(samples, samples'[Len(samples')])
  /\ samples'[Len(samples')] \in Sample
  /\ returned' = NoResult
  /\ UNCHANGED <<firstIndex, readPosition, discardedTime>>

(* The loader takes back every sample after the first n; those already     *)
(* read stay.                                                              *)
Retain(n) ==
  /\ n \in readPosition .. Len(samples)
  /\ samples' = First(samples, n)
  /\ UNCHANGED <<firstIndex, readPosition, discardedTime>>

TakeBack(n) ==
  /\ Retain(n)
  /\ returned' = <<"position", IF n = 0 THEN 0 ELSE End(samples[n])>>

(* A splice at time t removes the unread samples at or after t, unless a   *)
(* sample already read, or discarded, is that late.                        *)
Splice(t) ==
  IF t > discardedTime /\ \A i \in 1 .. readPosition : samples[i].time < t
  THEN \E n \in readPosition .. Len(samples) :
         /\ \A i \in n + 1 .. Len(samples) : samples[i].time >= t
         /\ n > readPosition => samples[n].time < t
         /\ Retain(n)
         /\ returned' = <<"splice", TRUE>>
  ELSE /\ returned' = <<"splice", FALSE>>
       /\ UNCHANGED <<samples, firstIndex, readPosition, discardedTime>>

(* The consumer is handed the sample at the read position.                 *)
Deliver ==
  /\ readPosition < Len(samples)
  /\ returned' = <<"sample", samples[readPosition + 1]>>
  /\ readPosition' = readPosition + 1
  /\ UNCHANGED <<samples, firstIndex, discardedTime>>

Answers ==
  {NoResult, <<"nothing">>, <<"eos">>, <<"illegal">>, <<"position", PositionUnset>>}
    \cup ({"format"} \X Formats) \cup ({"flags"} \X Sample)

(* An answer that changes nothing: a format, the end of the stream,        *)
(* nothing, or the flags of the next sample.                               *)
Answer ==
  /\ returned' \in Answers
  /\ UNCHANGED <<samples, firstIndex, readPosition, discardedTime>>

MoveTo(p) ==
  /\ readPosition' = p
  /\ UNCHANGED <<samples, firstIndex, discardedTime>>

Advance(t, key, beyond) ==
  LET n == LastAtOrBefore(readPosition, Len(samples) - readPosition, t, key)
      allowed == beyond \/ t <= Latest(TimesOf(samples) \cup {discardedTime})
      skip == IF readPosition < Len(samples) /\ allowed THEN n ELSE -1
  IN  /\ returned' = <<"skipped", skip>>
      /\ MoveTo(IF skip = -1 THEN readPosition ELSE readPosition + skip)

AdvanceToEnd ==
  /\ returned' = <<"skipped", Len(samples) - readPosition>>
  /\ MoveTo(Len(samples))

SetRead(i) ==
  LET valid == i \in firstIndex .. firstIndex + Len(samples)
  IN  /\ returned' = <<"set", valid>>
      /\ MoveTo(IF valid THEN i - firstIndex ELSE readPosition)

Rewind == returned' = NoResult /\ MoveTo(0)

(* The first n samples leave; the answer is where their bytes end.         *)
Discard(n) ==
  /\ samples # << >>
  /\ n \in 0 .. Len(samples)
  /\ samples' = Rest(samples, n)
  /\ firstIndex' = firstIndex + n
  /\ readPosition' = IF readPosition > n THEN readPosition - n ELSE 0
  /\ discardedTime' = Latest(TimesOf(First(samples, n)) \cup {discardedTime})
  /\ returned' = <<"position", IF n < Len(samples) THEN samples[n + 1].offset
                                                  ELSE End(samples[n])>>

Clear ==
  /\ samples' = << >>
  /\ firstIndex' = 0
  /\ readPosition' = 0
  /\ discardedTime' = MinTime
  /\ returned' = NoResult

Next ==
  \/ Commit
  \/ \E n \in 0 .. Len(samples) : TakeBack(n) \/ Discard(n)
  \/ \E i \in 0 .. firstIndex + Len(samples) + 1 : SetRead(i)
  \/ \E t \in Times : Splice(t)
  \/ \E t \in Times, key, beyond \in BOOLEAN : Advance(t, key, beyond)
  \/ Deliver
  \/ AdvanceToEnd
  \/ Rewind
  \/ Clear
  \/ Answer

Spec == Init /\ [][Next]_vars
=============================================================================
