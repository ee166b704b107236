------------------------ MODULE SampleMetadataQueue ------------------------
(***************************************************************************)
(* library/source/SampleMetadataQueue.java: the samples of one track, kept *)
(* in circular arrays that grow. The seven parallel arrays are one array   *)
(* `slots` of sample records. The loading thread commits samples, the      *)
(* consuming thread reads them; every method holds the queue's monitor     *)
(* while it changes state, so a call is one step.                          *)
(*                                                                         *)
(* Two variables belong to the caller, SampleQueue: the number of bytes    *)
(* the loader has written, from which it computes a sample's offset, and   *)
(* the format the consumer was last given.                                 *)
(***************************************************************************)
EXTENDS Integers, Sequences

CONSTANTS
  Times,               (* Timestamps of samples, in microseconds.          *)
  Sizes,               (* Sizes of samples, in bytes.                      *)
  Formats,             (* The formats a track may have over its life.      *)
  NoFormat,            (* The null Format.                                 *)
  Offered,             (* What the loader may commit: records of time,     *)
                       (* key, last, size and gap, the bytes written in    *)
                       (* front of the sample that belong to none.         *)
  CapacityIncrement,   (* SAMPLE_CAPACITY_INCREMENT                        *)
  MaxIndex,            (* Bound on the absolute write index.               *)
  MaxBytes             (* Bound on the bytes the loader writes.            *)

ASSUME TimesAssumption == Times \subseteq Nat
ASSUME SizesAssumption == Sizes \subseteq Nat
ASSUME FormatsAssumption == NoFormat \notin Formats
ASSUME OfferedAssumption ==
  Offered \subseteq [time: Times, key: BOOLEAN, last: BOOLEAN, size: Sizes, gap: Nat]
ASSUME CapacityAssumption == CapacityIncrement \in Nat \ {0, 1}
ASSUME BoundsAssumption == MaxIndex \in Nat /\ MaxBytes \in Nat

VARIABLES
  capacity, slots, length, absoluteFirstIndex, relativeFirstIndex, readPosition,
  largestDiscardedTimestampUs, largestQueuedTimestampUs, isLastSampleQueued,
  upstreamKeyframeRequired, upstreamFormatRequired, upstreamFormat,
  totalBytesWritten,   (* SampleQueue's                                    *)
  downstreamFormat,    (* SampleQueue's                                    *)
  returned             (* What the last call handed to its caller.         *)

storage == <<capacity, slots, relativeFirstIndex>>
upstream == <<upstreamKeyframeRequired, upstreamFormatRequired, upstreamFormat>>
callers == <<totalBytesWritten, downstreamFormat>>
largest == <<largestDiscardedTimestampUs, largestQueuedTimestampUs>>
window == <<length, absoluteFirstIndex>>
vars == <<storage, window, readPosition, largest, isLastSampleQueued, upstream,
          callers, returned>>

MinTime == -1         (* Long.MIN_VALUE: smaller than every timestamp.     *)
PositionUnset == -1   (* C.POSITION_UNSET                                  *)
AdvanceFailed == -1   (* SampleQueue.ADVANCE_FAILED                        *)
NoResult == <<"none">>

Sample == [time: Times, key: BOOLEAN, last: BOOLEAN,
           offset: Nat, size: Sizes, format: Formats]

EmptySlot == [time |-> MinTime]   (* An array element never assigned.      *)

EndOf(s) == s.offset + s.size
Largest(T) == CHOOSE m \in T \cup {MinTime} : \A t \in T : t <= m

-----------------------------------------------------------------------------
(* Internal methods.                                                       *)

GetRelativeIndex(offset) ==
  LET i == relativeFirstIndex + offset IN IF i < capacity THEN i ELSE i - capacity

SampleAt(offset) == slots[GetRelativeIndex(offset)]

(* The scan goes back from the sample before position n and stops at the   *)
(* first keyframe it meets.                                                *)
GetLargestTimestamp(n) ==
  LET scanned == {i \in 0 .. n - 1 : \A j \in i + 1 .. n - 1 : ~SampleAt(j).key}
  IN  Largest({SampleAt(i).time : i \in scanned})

(* The index wraps at the capacity; -1 when no sample qualifies.           *)
FindSampleBefore(from, n, t, key) ==
  LET found == {i \in 0 .. n - 1 :
                  /\ \A j \in 0 .. i : SampleAt(from + j).time <= t
                  /\ key => SampleAt(from + i).key}
  IN  CHOOSE m \in found \cup {-1} : \A i \in found : i <= m

(* Seeded fault: forgets the samples that left at the front.               *)
LargestOfKeptOnly(kept) == GetLargestTimestamp(kept)

(* Seeded fault: writing continues at the last sample's start.             *)
StartOfLastKept(kept) == IF kept = 0 THEN 0 ELSE SampleAt(kept - 1).offset

(* Seeded fault: grows one sample too late.                                *)
OverFull(n) == n > capacity

(* Seeded fault: copies the arrays without unwrapping them.                *)
GrownInPlace(filled) ==
  [i \in 0 .. capacity + CapacityIncrement - 1 |->
     IF i < capacity THEN filled[i] ELSE EmptySlot]

(* The fields of discardUpstreamSamples once `kept` samples are left.       *)
LargestAfterTakeBack(kept) ==
  Largest({largestDiscardedTimestampUs, GetLargestTimestamp(kept)})

StillLast(discardCount) == discardCount = 0 /\ isLastSampleQueued

PositionAfter(kept) == IF kept = 0 THEN 0 ELSE EndOf(SampleAt(kept - 1))

(* Whether the arrays are full, and their contents moved to larger ones.   *)
Full(n) == n = capacity

Grown(filled) ==
  [i \in 0 .. capacity + CapacityIncrement - 1 |->
     IF i < capacity THEN filled[(relativeFirstIndex + i) % capacity] ELSE EmptySlot]

(* Whether a read at the read position must announce the sample's format.  *)
FormatIsNews(format, formatRequired) == formatRequired \/ format # downstreamFormat

(* Leaves the arrays as they are: the discarded samples stay in their      *)
(* slots until overwritten, and the last one's end is read from there.     *)
DiscardSamples(n) ==
  LET relative == relativeFirstIndex + n
      first == IF relative >= capacity THEN relative - capacity ELSE relative
      lastDiscarded == slots[(IF first = 0 THEN capacity ELSE first) - 1]
  IN  /\ largestDiscardedTimestampUs' =
           Largest({largestDiscardedTimestampUs, GetLargestTimestamp(n)})
      /\ length' = length - n
      /\ absoluteFirstIndex' = absoluteFirstIndex + n
      /\ relativeFirstIndex' = first
      /\ readPosition' = IF readPosition < n THEN 0 ELSE readPosition - n
      /\ returned' = <<"position", IF length = n THEN EndOf(lastDiscarded)
                                                 ELSE slots[first].offset>>
      /\ UNCHANGED <<capacity, slots, largestQueuedTimestampUs, isLastSampleQueued,
                     upstream, callers>>

Return(r) == returned' = r

(* The call returns r and leaves every field alone.                        *)
ReturnOnly(r) ==
  /\ Return(r)
  /\ UNCHANGED <<storage, window, readPosition, largest, isLastSampleQueued,
                 upstream, callers>>

MoveReadPosition(p) ==
  /\ readPosition' = p
  /\ UNCHANGED <<storage, window, largest, isLastSampleQueued, upstream, callers>>

-----------------------------------------------------------------------------
Init ==
  /\ capacity = CapacityIncrement
  /\ slots = [i \in 0 .. CapacityIncrement - 1 |-> EmptySlot]
  /\ length = 0
  /\ absoluteFirstIndex = 0
  /\ relativeFirstIndex = 0
  /\ readPosition = 0
  /\ largestDiscardedTimestampUs = MinTime
  /\ largestQueuedTimestampUs = MinTime
  /\ isLastSampleQueued = FALSE
  /\ upstreamKeyframeRequired = TRUE
  /\ upstreamFormatRequired = TRUE
  /\ upstreamFormat = NoFormat
  /\ totalBytesWritten = 0
  /\ downstreamFormat = NoFormat
  /\ returned = NoResult

(* reset(resetUpstreamFormat), with the caller's counter.                  *)
Reset(resetUpstreamFormat) ==
  /\ length' = 0
  /\ absoluteFirstIndex' = 0
  /\ relativeFirstIndex' = 0
  /\ readPosition' = 0
  /\ upstreamKeyframeRequired' = TRUE
  /\ largestDiscardedTimestampUs' = MinTime
  /\ largestQueuedTimestampUs' = MinTime
  /\ isLastSampleQueued' = FALSE
  /\ IF resetUpstreamFormat
     THEN upstreamFormat' = NoFormat /\ upstreamFormatRequired' = TRUE
     ELSE UNCHANGED <<upstreamFormat, upstreamFormatRequired>>
  /\ totalBytesWritten' = 0
  /\ Return(NoResult)
  /\ UNCHANGED <<capacity, slots, downstreamFormat>>

GetWriteIndex == absoluteFirstIndex + length

(* What discardUpstreamSamples does to the fields.                         *)
KeepUpTo(discardFromIndex) ==
  LET discardCount == GetWriteIndex - discardFromIndex
      kept == length - discardCount
  IN  /\ discardCount \in 0 .. length - readPosition
      /\ length' = kept
      /\ largestQueuedTimestampUs' = LargestAfterTakeBack(kept)
      /\ isLastSampleQueued' = StillLast(discardCount)
      /\ UNCHANGED <<storage, absoluteFirstIndex, readPosition,
                     largestDiscardedTimestampUs, upstream, downstreamFormat>>

(* SampleQueue continues writing where the last sample kept ends.          *)
DiscardUpstreamSamples(discardFromIndex) ==
  LET position == PositionAfter(discardFromIndex - absoluteFirstIndex)
  IN  /\ KeepUpTo(discardFromIndex)
      /\ totalBytesWritten' = position
      /\ Return(<<"position", position>>)

(* read: the sample at the read position, or why there is none. A          *)
(* flags-only buffer does not move the read position.                      *)
Read(formatRequired, loadingFinished, flagsOnly) ==
  LET s == SampleAt(readPosition)
      ReadFormat(f) ==
        /\ Return(<<"format", f>>)
        /\ downstreamFormat' = f
        /\ UNCHANGED <<storage, window, readPosition, largest, isLastSampleQueued,
                       upstream, totalBytesWritten>>
  IN  \/ /\ readPosition = length
         /\ loadingFinished \/ isLastSampleQueued
         /\ ReturnOnly(<<"eos">>)
      \/ /\ readPosition = length
         /\ ~(loadingFinished \/ isLastSampleQueued)
         /\ IF upstreamFormat # NoFormat
                 /\ FormatIsNews(upstreamFormat, formatRequired)
            THEN ReadFormat(upstreamFormat)
            ELSE ReturnOnly(<<"nothing">>)
      \/ /\ readPosition # length
         /\ FormatIsNews(s.format, formatRequired)
         /\ ReadFormat(s.format)
      \/ /\ readPosition # length
         /\ ~FormatIsNews(s.format, formatRequired)
         /\ flagsOnly
         /\ ReturnOnly(<<"flags", s>>)
      \/ /\ readPosition # length
         /\ ~FormatIsNews(s.format, formatRequired)
         /\ ~flagsOnly
         /\ Return(<<"sample", s>>)
         /\ MoveReadPosition(readPosition + 1)

AdvanceTo(t, toKeyframe, allowTimeBeyondBuffer) ==
  LET impossible == \/ readPosition = length
                    \/ t < SampleAt(readPosition).time
                    \/ t > largestQueuedTimestampUs /\ ~allowTimeBeyondBuffer
      offset == FindSampleBefore(readPosition, length - readPosition, t, toKeyframe)
  IN  IF impossible \/ offset = -1
      THEN ReturnOnly(<<"skipped", AdvanceFailed>>)
      ELSE Return(<<"skipped", offset>>) /\ MoveReadPosition(readPosition + offset)

AdvanceToEnd ==
  Return(<<"skipped", length - readPosition>>) /\ MoveReadPosition(length)

SetReadPosition(sampleIndex) ==
  IF sampleIndex \in absoluteFirstIndex .. GetWriteIndex
  THEN Return(<<"set", TRUE>>) /\ MoveReadPosition(sampleIndex - absoluteFirstIndex)
  ELSE ReturnOnly(<<"set", FALSE>>)

Rewind == Return(NoResult) /\ MoveReadPosition(0)

DiscardTo(t, toKeyframe, stopAtReadPosition) ==
  LET searchLength == IF stopAtReadPosition /\ readPosition # length
                      THEN readPosition + 1 ELSE length
      discardCount == FindSampleBefore(0, searchLength, t, toKeyframe)
  IN  IF length = 0 \/ t < SampleAt(0).time \/ discardCount = -1
      THEN ReturnOnly(<<"position", PositionUnset>>)
      ELSE DiscardSamples(discardCount)

DiscardToRead ==
  IF readPosition = 0 THEN ReturnOnly(<<"position", PositionUnset>>)
                      ELSE DiscardSamples(readPosition)

DiscardToEnd ==
  IF length = 0 THEN ReturnOnly(<<"position", PositionUnset>>)
                ELSE DiscardSamples(length)

SetFormat(format) ==
  /\ upstreamFormatRequired' = (format = NoFormat)
  /\ upstreamFormat' = IF format = NoFormat THEN upstreamFormat ELSE format
  /\ Return(NoResult)
  /\ UNCHANGED <<storage, window, readPosition, largest, isLastSampleQueued,
                 upstreamKeyframeRequired, callers>>

(* The loader has written the gap and the sample and commits it. A keyframe*)
(* is required first, and a format; without the format the check fails,    *)
(* after the keyframe has been noted. The arrays grow when the new sample  *)
(* fills them.                                                             *)
CommitSample(o) ==
  LET offset == totalBytesWritten + o.gap
      s == [time |-> o.time, key |-> o.key, last |-> o.last, offset |-> offset,
            size |-> o.size, format |-> upstreamFormat]
      filled == [slots EXCEPT ![GetRelativeIndex(length)] = s]
  IN  /\ totalBytesWritten' = offset + o.size
      /\ IF upstreamKeyframeRequired /\ ~o.key
         THEN /\ Return(NoResult)
              /\ UNCHANGED <<storage, window, readPosition, largest,
                             isLastSampleQueued, upstream, downstreamFormat>>
         ELSE IF upstreamFormatRequired
         THEN /\ upstreamKeyframeRequired' = FALSE
              /\ Return(<<"illegal">>)
              /\ UNCHANGED <<storage, window, readPosition, largest, isLastSampleQueued,
                             upstreamFormatRequired, upstreamFormat, downstreamFormat>>
         ELSE /\ upstreamKeyframeRequired' = FALSE
              /\ isLastSampleQueued' = o.last
              /\ largestQueuedTimestampUs' = Largest({largestQueuedTimestampUs, o.time})
              /\ length' = length + 1
              /\ IF Full(length + 1)
                 THEN /\ slots' = Grown(filled)
                      /\ relativeFirstIndex' = 0
                      /\ capacity' = capacity + CapacityIncrement
                 ELSE /\ slots' = filled
                      /\ UNCHANGED <<relativeFirstIndex, capacity>>
              /\ Return(NoResult)
              /\ UNCHANGED <<absoluteFirstIndex, readPosition, largestDiscardedTimestampUs,
                             upstreamFormatRequired, upstreamFormat, downstreamFormat>>

(* attemptSplice: the unread samples at or after t are taken back, unless  *)
(* a sample already read or discarded is as late.                          *)
AttemptSplice(t) ==
  LET latestRead == Largest({largestDiscardedTimestampUs, GetLargestTimestamp(readPosition)})
      retainCount == CHOOSE n \in readPosition .. length :
                       /\ \A i \in n .. length - 1 : SampleAt(i).time >= t
                       /\ n > readPosition => SampleAt(n - 1).time < t
  IN  IF length = 0
      THEN ReturnOnly(<<"splice", t > largestDiscardedTimestampUs>>)
      ELSE IF latestRead >= t
      THEN ReturnOnly(<<"splice", FALSE>>)
      ELSE /\ KeepUpTo(absoluteFirstIndex + retainCount)
           /\ UNCHANGED totalBytesWritten
           /\ Return(<<"splice", TRUE>>)

-----------------------------------------------------------------------------
(* The assumption getLargestTimestamp documents: the timestamps before a   *)
(* keyframe are smaller than the keyframe's own.                           *)
KeyframesSeparateTimes(o) ==
  o.key => \A i \in 0 .. length - 1 : SampleAt(i).time < o.time

LoaderNext ==
  \/ \E f \in Formats \cup {NoFormat} : SetFormat(f)
  \/ \E o \in Offered :
       /\ GetWriteIndex < MaxIndex
       /\ totalBytesWritten < MaxBytes
       /\ KeyframesSeparateTimes(o)
       /\ CommitSample(o)
  \/ \E t \in Times : AttemptSplice(t)

ConsumerNext ==
  \/ \E formatRequired, loadingFinished, flagsOnly \in BOOLEAN :
       Read(formatRequired, loadingFinished, flagsOnly)
  \/ \E t \in Times, key, beyond \in BOOLEAN : AdvanceTo(t, key, beyond)
  \/ AdvanceToEnd
  \/ \E i \in 0 .. MaxIndex : SetReadPosition(i)
  \/ Rewind
  \/ \E t \in Times, key, stop \in BOOLEAN : DiscardTo(t, key, stop)
  \/ DiscardToRead
  \/ DiscardToEnd

(* Calls made while no loader is running.                                  *)
NoLoaderNext ==
  \/ \E b \in BOOLEAN : Reset(b)
  \/ \E i \in 0 .. MaxIndex : DiscardUpstreamSamples(i)

Next == LoaderNext \/ ConsumerNext \/ NoLoaderNext

Spec == Init /\ [][Next]_vars

-----------------------------------------------------------------------------
(* Every field has its type, the read position lies in the queue, and the  *)
(* queue never fills its arrays (the class grows them when it would).      *)
TypeOK ==
  /\ capacity \in Nat \ {0}
  /\ slots \in [0 .. capacity - 1 -> Sample \cup {EmptySlot}]
  /\ length \in 0 .. capacity - 1
  /\ absoluteFirstIndex \in Nat
  /\ relativeFirstIndex \in 0 .. capacity - 1
  /\ readPosition \in 0 .. length
  /\ largestDiscardedTimestampUs \in Times \cup {MinTime}
  /\ largestQueuedTimestampUs \in Times \cup {MinTime}
  /\ isLastSampleQueued \in BOOLEAN
  /\ upstreamKeyframeRequired \in BOOLEAN
  /\ upstreamFormatRequired \in BOOLEAN
  /\ upstreamFormat \in Formats \cup {NoFormat}
  /\ totalBytesWritten \in Nat
  /\ downstreamFormat \in Formats \cup {NoFormat}

(* The queued samples, oldest first.                                       *)
Queue == [i \in 1 .. length |-> SampleAt(i - 1)]

(* getLargestQueuedTimestampUs answers the largest timestamp of every      *)
(* sample queued and not taken back, those that left at the front          *)
(* included, although the scan it comes from stops at a keyframe; and the  *)
(* queue claims to hold the last sample of the stream only while that      *)
(* sample is its newest.                                                   *)
UpstreamFieldsAgree ==
  /\ largestQueuedTimestampUs =
       Largest({Queue[i].time : i \in 1 .. length} \cup {largestDiscardedTimestampUs})
  /\ isLastSampleQueued /\ length > 0 => Queue[length].last

(* The samples' bytes are disjoint and in order, and all are written: a    *)
(* loader that was taken back never writes over a sample that was kept.    *)
SamplesDisjoint ==
  /\ \A i \in 1 .. length - 1 : EndOf(Queue[i]) <= Queue[i + 1].offset
  /\ length > 0 => EndOf(Queue[length]) <= totalBytesWritten

(* The circular, growing arrays behave as one list.                        *)
List == INSTANCE SampleList WITH samples <- Queue, firstIndex <- absoluteFirstIndex,
                                 discardedTime <- largestDiscardedTimestampUs
ImplementsSampleList == List!Spec
=============================================================================
