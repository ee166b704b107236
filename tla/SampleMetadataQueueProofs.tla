--------------------- MODULE SampleMetadataQueueProofs ---------------------
(***************************************************************************)
(* Proofs about SampleMetadataQueue, for any times, sizes, formats and     *)
(* capacity: the circular arrays that grow implement SampleList, and the   *)
(* bytes of the samples never overlap.                                     *)
(***************************************************************************)
EXTENDS SampleMetadataQueue, FiniteSetTheorems, SequenceTheorems, TLAPS

(* Times and the like are natural numbers.                                 *)
LEMMA Assumptions ==
  /\ \A t \in Times : t \in Nat
  /\ \A z \in Sizes : z \in Nat
  /\ NoFormat \notin Formats
  /\ CapacityIncrement \in Nat /\ CapacityIncrement > 1
  /\ \A o \in Offered : /\ o.time \in Times /\ o.key \in BOOLEAN /\ o.last \in BOOLEAN
                        /\ o.size \in Sizes /\ o.gap \in Nat
  BY TimesAssumption, SizesAssumption, FormatsAssumption, CapacityAssumption, OfferedAssumption

-----------------------------------------------------------------------------
(* The least number principle, and what follows from it: an induction that *)
(* is about a set, and the largest member of a set that has a bound.       *)

LEMMA Least == ASSUME NEW T, T \subseteq Nat, T # {} PROVE \E m \in T : \A t \in T : m <= t
  <1> DEFINE upTo == {0 .. t : t \in T}
  <1>1. upTo \subseteq FiniteSubsetsOf(Nat) /\ upTo # {}
    <2>1. ASSUME NEW t \in T PROVE 0 .. t \in FiniteSubsetsOf(Nat)
      BY FS_Interval DEF FiniteSubsetsOf
    <2> QED
      BY <2>1
  <1>2. PICK x \in upTo : \A y \in upTo : ~(<<y, x>> \in StrictSubsetOrdering(Nat))
    <2>1. IsWellFoundedOn(StrictSubsetOrdering(Nat), FiniteSubsetsOf(Nat))
      BY FS_StrictSubsetOrderingWellFounded
    <2> HIDE DEF upTo
    <2> QED
      BY <1>1, <2>1, WFMin
  <1>3. PICK m \in T : x = 0 .. m
    BY <1>2
  <1>4. ASSUME NEW t \in T, t < m PROVE FALSE
    <2>1. <<0 .. t, 0 .. m>> \notin StrictSubsetOrdering(Nat)
      BY <1>2, <1>3
    <2>2. 0 .. t \in SUBSET Nat /\ 0 .. m \in SUBSET Nat
      OBVIOUS
    <2>3. ~(0 .. t \subseteq 0 .. m /\ 0 .. t # 0 .. m)
      BY <2>1, <2>2 DEF StrictSubsetOrdering
    <2>4. 0 .. t \subseteq 0 .. m /\ m \notin 0 .. t /\ m \in 0 .. m
      BY <1>4
    <2> QED
      BY <2>3, <2>4
  <1> QED
    BY <1>4

LEMMA Induction ==
  ASSUME NEW S, 0 \in S, \A n \in Nat : n \in S => n + 1 \in S
  PROVE  \A n \in Nat : n \in S
  <1> SUFFICES ASSUME Nat \ S # {} PROVE FALSE
    OBVIOUS
  <1>1. PICK m \in Nat \ S : \A t \in Nat \ S : m <= t
    BY Least
  <1>2. m - 1 \in Nat /\ m - 1 \in S
    BY <1>1
  <1> QED
    BY <1>1, <1>2

LEMMA Greatest ==
  ASSUME NEW T, T \subseteq Int, T # {}, NEW b \in Int, \A t \in T : t <= b
  PROVE  \E m \in T : \A t \in T : t <= m
  <1> DEFINE below == {b - t : t \in T}
  <1>1. below \subseteq Nat /\ below # {}
    <2>1. ASSUME NEW t \in T PROVE b - t \in Nat
      <3>1. t \in Int /\ t <= b
        OBVIOUS
      <3> QED
        BY <3>1
    <2> QED
      BY <2>1
  <1>2. PICK d \in below : \A x \in below : d <= x
    <2> HIDE DEF below
    <2> QED
      BY <1>1, Least
  <1>3. PICK m \in T : d = b - m
    BY <1>2
  <1>4. ASSUME NEW t \in T PROVE t <= m
    <2>1. b - m <= b - t
      BY <1>2, <1>3
    <2> QED
      BY <2>1
  <1> QED
    BY <1>4

(* Finitely many numbers have a bound.                                     *)
LEMMA Bounded ==
  ASSUME NEW n \in Nat, NEW f, \A i \in 1 .. n : f[i] \in Int
  PROVE  \E b \in Int : \A i \in 1 .. n : f[i] <= b
  <1> DEFINE S == {k \in Nat : k <= n => \E b \in Int : \A i \in 1 .. k : f[i] <= b}
  <1>1. 0 \in S
    OBVIOUS
  <1>2. ASSUME NEW k \in Nat, k \in S PROVE k + 1 \in S
    <2> SUFFICES ASSUME k + 1 <= n PROVE \E b \in Int : \A i \in 1 .. k + 1 : f[i] <= b
      OBVIOUS
    <2>1. PICK b \in Int : \A i \in 1 .. k : f[i] <= b
      BY <1>2
    <2>2. f[k + 1] \in Int
      OBVIOUS
    <2>3. PICK c \in Int : b <= c /\ f[k + 1] <= c
      BY <2>2
    <2>4. ASSUME NEW i \in 1 .. k + 1 PROVE f[i] <= c
      <3>1. CASE i \in 1 .. k
        <4>1. f[i] \in Int /\ f[i] <= b
          BY <2>1, <3>1
        <4> QED
          BY <2>3, <4>1
      <3>2. CASE i = k + 1
        BY <2>3, <3>2
      <3> QED
        BY <3>1, <3>2
    <2> QED
      BY <2>4
  <1>3. \A k \in Nat : k \in S
    <2> HIDE DEF S
    <2> QED
      BY <1>1, <1>2, Induction
  <1>4. n \in S
    BY <1>3
  <1> QED
    BY <1>4

(* What Largest and Latest choose, when a set of times has a bound.        *)
LEMMA LargestOf ==
  ASSUME NEW T, \A t \in T : t \in Int /\ t >= MinTime, NEW b \in Int, \A t \in T : t <= b
  PROVE  /\ Largest(T) \in T \cup {MinTime} /\ \A t \in T : t <= Largest(T)
         /\ \A m \in T \cup {MinTime} : (\A t \in T : t <= m) => m = Largest(T)
  <1> DEFINE Top(m) == m \in T \cup {MinTime} /\ \A t \in T : t <= m
  <1>1. \E m \in T \cup {MinTime} : \A t \in T : t <= m
    <2>1. CASE T = {}
      BY <2>1
    <2>2. CASE T # {}
      <3>1. T \subseteq Int
        OBVIOUS
      <3> QED
        BY <2>2, <3>1, Greatest
    <2> QED
      BY <2>1, <2>2
  <1>2. Top(Largest(T))
    BY <1>1 DEF Largest
  <1>3. ASSUME NEW m, NEW k, Top(m), Top(k) PROVE m = k
    BY <1>3 DEF MinTime
  <1> QED
    BY <1>2, <1>3

-----------------------------------------------------------------------------
(* The invariant                                                           *)

(* What getLargestTimestamp is told of keyframes: no sample queued before  *)
(* one is as late.                                                         *)
KeyInv ==
  \A i, j \in 1 .. length : i < j /\ Queue[j].key => Queue[i].time < Queue[j].time

Inv ==
  /\ TypeOK
  /\ Queue \in Seq(Sample)
  /\ KeyInv
  /\ ~upstreamFormatRequired => upstreamFormat \in Formats
  /\ UpstreamFieldsAgree
  /\ SamplesDisjoint

-----------------------------------------------------------------------------
(* The circular arrays as one list                                         *)

LEMMA QueueIs ==
  ASSUME TypeOK
  PROVE  /\ length \in Nat /\ DOMAIN Queue = 1 .. length
         /\ \A i \in 1 .. length : Queue[i] = SampleAt(i - 1)
         /\ \A i \in 0 .. length - 1 : SampleAt(i) = Queue[i + 1]
  BY DEF TypeOK, Queue

LEMMA QueueLength == ASSUME Inv PROVE Len(Queue) = length
  BY QueueIs DEF Inv

LEMMA SampleType ==
  ASSUME NEW s \in Sample
  PROVE  /\ s.time \in Times /\ s.time \in Nat /\ s.key \in BOOLEAN /\ s.last \in BOOLEAN
         /\ s.offset \in Nat /\ s.size \in Nat /\ s.format \in Formats
         /\ EndOf(s) = s.offset + s.size /\ EndOf(s) \in Nat
  BY Assumptions DEF Sample, EndOf

LEMMA QueueKept == UNCHANGED <<storage, length>> => Queue' = Queue
  BY DEF storage, Queue, SampleAt, GetRelativeIndex

(* The queue after a step is the sequence its slots then hold.             *)
LEMMA QueueHolds ==
  ASSUME NEW s \in Seq(Sample), length' = Len(s), \A i \in 1 .. length' : SampleAt(i - 1)' = s[i]
  PROVE  Queue' = s
  <1>1. length' \in Nat
    OBVIOUS
  <1>2. Queue' = [i \in 1 .. length' |-> SampleAt(i - 1)']
    BY DEF Queue
  <1>3. \A i \in 1 .. length' : s[i] \in Sample
    OBVIOUS
  <1>4. Queue' \in [1 .. length' -> Sample]
    BY <1>2, <1>3
  <1>5. Queue' \in Seq(Sample) /\ Len(Queue') = length'
    BY <1>1, <1>4, SeqDef
  <1>6. \A i \in 1 .. Len(Queue') : Queue'[i] = s[i]
    BY <1>2, <1>5
  <1> QED
    BY <1>5, <1>6, SeqEqual

LEMMA Prefix ==
  ASSUME NEW S, NEW q \in Seq(S), NEW n \in 0 .. Len(q)
  PROVE  /\ SubSeq(q, 1, n) \in Seq(S) /\ Len(SubSeq(q, 1, n)) = n
         /\ \A i \in 1 .. n : SubSeq(q, 1, n)[i] = q[i]
  OBVIOUS

(* Samples taken back: a prefix is left.                                   *)
LEMMA QueueTakenBack ==
  ASSUME Inv, UNCHANGED storage, length' \in 0 .. length
  PROVE  /\ Queue' = SubSeq(Queue, 1, length')
         /\ Queue' \in Seq(Sample) /\ Len(Queue') = length'
         /\ \A i \in 1 .. length' : Queue'[i] = Queue[i]
  <1> DEFINE s == SubSeq(Queue, 1, length')
  <1>1. Queue \in Seq(Sample) /\ Len(Queue) = length /\ length \in Nat /\ length' \in Nat
    BY QueueIs, QueueLength DEF Inv
  <1>2. s \in Seq(Sample) /\ Len(s) = length' /\ \A i \in 1 .. length' : s[i] = Queue[i]
    <2>1. length' \in 0 .. Len(Queue)
      BY <1>1
    <2> QED
      BY <1>1, <2>1, Prefix
  <1>3. \A i \in 1 .. length' : SampleAt(i - 1)' = Queue[i]
    <2>1. ASSUME NEW i \in 1 .. length' PROVE SampleAt(i - 1)' = SampleAt(i - 1)
      BY DEF storage, SampleAt, GetRelativeIndex
    <2> QED
      BY <1>1, <2>1, QueueIs DEF Inv
  <1> HIDE DEF s
  <1>4. Queue' = s
    BY <1>2, <1>3, QueueHolds
  <1> QED
    BY <1>2, <1>4 DEF s

(* Samples discarded: the read end of the ring moves on, and their slots   *)
(* are left as they are.                                                   *)
LEMMA QueueDiscarded ==
  ASSUME Inv, NEW n \in 0 .. length, UNCHANGED <<capacity, slots>>, length' = length - n,
         relativeFirstIndex' = IF relativeFirstIndex + n >= capacity
                               THEN (relativeFirstIndex + n) - capacity ELSE relativeFirstIndex + n
  PROVE  /\ Queue' = SubSeq(Queue, n + 1, Len(Queue))
         /\ Queue' \in Seq(Sample) /\ Len(Queue') = length'
         /\ \A i \in 1 .. length' : Queue'[i] = Queue[n + i]
  <1> DEFINE s == SubSeq(Queue, n + 1, Len(Queue))
  <1>1. Queue \in Seq(Sample) /\ Len(Queue) = length /\ length \in Nat /\ length' \in Nat
    BY QueueIs, QueueLength DEF Inv
  <1>2. s \in Seq(Sample) /\ Len(s) = length' /\ \A i \in 1 .. length' : s[i] = Queue[n + i]
    <2>1. \A i \in n + 1 .. Len(Queue) : Queue[i] \in Sample
      BY <1>1
    <2> QED
      BY <1>1, <2>1, SubSeqProperties
  <1>3. \A i \in 1 .. length' : SampleAt(i - 1)' = Queue[n + i]
    <2>1. ASSUME NEW i \in 1 .. length' PROVE SampleAt(i - 1)' = SampleAt(n + i - 1)
      BY <1>1 DEF SampleAt, GetRelativeIndex, Inv, TypeOK
    <2>2. ASSUME NEW i \in 1 .. length' PROVE n + i - 1 \in 0 .. length - 1
      BY <1>1
    <2> QED
      BY <1>1, <2>1, <2>2, QueueIs DEF Inv
  <1> HIDE DEF s
  <1>4. Queue' = s
    BY <1>2, <1>3, QueueHolds
  <1> QED
    BY <1>2, <1>4 DEF s

LEMMA Remainder ==
  ASSUME NEW c \in Nat \ {0}, NEW a \in 0 .. c - 1
  PROVE  a % c = a /\ (a + c) % c = a
  OBVIOUS

(* A sample committed: it is the last one, also when the arrays grow and   *)
(* their contents are moved to the start.                                  *)
LEMMA QueueCommitted ==
  ASSUME Inv, NEW s \in Sample, NEW filled,
         filled = [slots EXCEPT ![GetRelativeIndex(length)] = s],
         length' = length + 1,
         IF Full(length + 1)
         THEN /\ slots' = Grown(filled) /\ relativeFirstIndex' = 0
              /\ capacity' = capacity + CapacityIncrement
         ELSE slots' = filled /\ UNCHANGED <<relativeFirstIndex, capacity>>
  PROVE  /\ Queue' = Append(Queue, s)
         /\ Queue' \in Seq(Sample) /\ Len(Queue') = length'
         /\ \A i \in 1 .. length : Queue'[i] = Queue[i]
         /\ Queue'[length'] = s
         /\ slots' \in [0 .. capacity' - 1 -> Sample \cup {EmptySlot}]
         /\ capacity' \in Nat \ {0} /\ relativeFirstIndex' \in 0 .. capacity' - 1
         /\ length' \in 0 .. capacity' - 1
  <1> DEFINE q == Append(Queue, s)
             at(i) == GetRelativeIndex(i)
  <1>1. /\ Queue \in Seq(Sample) /\ Len(Queue) = length /\ length \in Nat
        /\ capacity \in Nat \ {0} /\ relativeFirstIndex \in 0 .. capacity - 1
        /\ length \in 0 .. capacity - 1
        /\ slots \in [0 .. capacity - 1 -> Sample \cup {EmptySlot}]
    BY QueueIs, QueueLength DEF Inv, TypeOK
  <1>2. /\ q \in Seq(Sample) /\ Len(q) = length'
        /\ \A i \in 1 .. length : q[i] = Queue[i]
        /\ q[length + 1] = s
    BY <1>1
  <1>3. \A i \in 0 .. length : at(i) \in 0 .. capacity - 1
    BY <1>1 DEF GetRelativeIndex
  <1>4. \A i \in 0 .. length - 1 : at(i) # at(length)
    BY <1>1 DEF GetRelativeIndex
  <1>5. /\ filled \in [0 .. capacity - 1 -> Sample \cup {EmptySlot}]
        /\ filled[at(length)] = s
        /\ \A i \in 0 .. length - 1 : filled[at(i)] = slots[at(i)]
    BY <1>1, <1>3, <1>4
  <1>6. \A i \in 1 .. length + 1 : filled[at(i - 1)] = q[i]
    <2>1. ASSUME NEW i \in 1 .. length PROVE filled[at(i - 1)] = q[i]
      <3>1. i - 1 \in 0 .. length - 1
        BY <1>1
      <3>2. Queue[i] = slots[at(i - 1)]
        BY QueueIs DEF Inv, SampleAt
      <3> QED
        BY <1>2, <1>5, <3>1, <3>2
    <2> QED
      BY <1>1, <1>2, <1>5, <2>1
  <1>7. CASE Full(length + 1)
    <2>1. /\ length + 1 = capacity /\ slots' = Grown(filled) /\ relativeFirstIndex' = 0
          /\ capacity' = capacity + CapacityIncrement
          /\ CapacityIncrement \in Nat /\ CapacityIncrement > 1
      BY <1>7, Assumptions DEF Full
    <2>2. /\ capacity' \in Nat \ {0} /\ relativeFirstIndex' \in 0 .. capacity' - 1
          /\ length' \in 0 .. capacity' - 1
      BY <1>1, <2>1
    <2>3. ASSUME NEW i \in 0 .. capacity - 1
          PROVE  (relativeFirstIndex + i) % capacity = at(i)
      <3>1. CASE relativeFirstIndex + i < capacity
        <4>1. relativeFirstIndex + i \in 0 .. capacity - 1
          BY <1>1, <3>1
        <4>2. at(i) = relativeFirstIndex + i
          BY <3>1 DEF GetRelativeIndex
        <4> QED
          BY <1>1, <4>1, <4>2, Remainder
      <3>2. CASE relativeFirstIndex + i >= capacity
        <4>1. /\ relativeFirstIndex + i - capacity \in 0 .. capacity - 1
              /\ relativeFirstIndex + i = (relativeFirstIndex + i - capacity) + capacity
          BY <1>1, <3>2
        <4>2. at(i) = relativeFirstIndex + i - capacity
          <5>1. ~(relativeFirstIndex + i < capacity)
            BY <1>1, <3>2
          <5> QED
            BY <1>1, <5>1 DEF GetRelativeIndex
        <4>3. (relativeFirstIndex + i) % capacity = relativeFirstIndex + i - capacity
          BY <1>1, <4>1, Remainder
        <4> QED
          BY <4>2, <4>3
      <3> QED
        BY <1>1, <3>1, <3>2
    <2>4. /\ slots' \in [0 .. capacity' - 1 -> Sample \cup {EmptySlot}]
          /\ \A i \in 0 .. capacity - 1 : slots'[i] = filled[at(i)]
      <3>1. \A i \in 0 .. capacity - 1 :
              /\ (relativeFirstIndex + i) % capacity = at(i)
              /\ at(i) \in 0 .. capacity - 1 /\ i \in 0 .. capacity' - 1
        <4>1. \A i \in 0 .. capacity - 1 : at(i) \in 0 .. capacity - 1
          BY <1>1, <1>3, <2>1
        <4>2. \A i \in 0 .. capacity - 1 : i \in 0 .. capacity' - 1
          BY <1>1, <2>1
        <4> HIDE DEF at
        <4> QED
          BY <2>3, <4>1, <4>2
      <3>2. slots' = [i \in 0 .. capacity' - 1 |->
                        IF i < capacity THEN filled[(relativeFirstIndex + i) % capacity]
                                        ELSE EmptySlot]
        <4>1. slots' = [i \in 0 .. capacity + CapacityIncrement - 1 |->
                          IF i < capacity THEN filled[(relativeFirstIndex + i) % capacity]
                                          ELSE EmptySlot]
          BY <2>1, Zenon DEF Grown
        <4>2. 0 .. capacity' - 1 = 0 .. capacity + CapacityIncrement - 1
          BY <2>1
        <4> QED
          BY <4>1, <4>2, Zenon
      <3>3. ASSUME NEW i \in 0 .. capacity' - 1
            PROVE  slots'[i] = IF i < capacity THEN filled[at(i)] ELSE EmptySlot
        <4>1. CASE i < capacity
          <5>1. i \in 0 .. capacity - 1
            BY <1>1, <4>1
          <5> QED
            BY <3>1, <3>2, <5>1
        <4>2. CASE ~(i < capacity)
          BY <3>2, <4>2
        <4> QED
          BY <4>1, <4>2
      <3>4. \A i \in 0 .. capacity - 1 : slots'[i] = filled[at(i)]
        BY <1>1, <3>1, <3>3
      <3>5. ASSUME NEW i \in 0 .. capacity' - 1 PROVE slots'[i] \in Sample \cup {EmptySlot}
        <4>1. CASE i < capacity
          <5>1. i \in 0 .. capacity - 1
            BY <1>1, <4>1
          <5> QED
            BY <1>5, <3>1, <3>4, <5>1
        <4>2. CASE ~(i < capacity)
          BY <3>3, <4>2
        <4> QED
          BY <4>1, <4>2
      <3> QED
        BY <3>2, <3>4, <3>5
    <2>5. \A i \in 1 .. length' : SampleAt(i - 1)' = q[i]
      <3>1. ASSUME NEW i \in 1 .. length' PROVE SampleAt(i - 1)' = q[i]
        <4>1. i - 1 \in 0 .. capacity - 1 /\ i - 1 < capacity'
          BY <1>1, <2>1
        <4>2. SampleAt(i - 1)' = slots'[i - 1]
          BY <2>1, <4>1 DEF SampleAt, GetRelativeIndex
        <4> QED
          BY <1>6, <2>1, <2>4, <4>1, <4>2
      <3> QED
        BY <3>1
    <2>6. Queue' = q
      <3> HIDE DEF q
      <3> QED
        BY <1>2, <2>5, QueueHolds
    <2> QED
      BY <1>1, <1>2, <2>2, <2>4, <2>6
  <1>8. CASE ~Full(length + 1)
    <2>1. slots' = filled /\ UNCHANGED <<relativeFirstIndex, capacity>> /\ length + 1 # capacity
      BY <1>8 DEF Full
    <2>2. \A i \in 1 .. length' : SampleAt(i - 1)' = q[i]
      <3>1. ASSUME NEW i \in 1 .. length' PROVE SampleAt(i - 1)' = filled[at(i - 1)]
        BY <2>1 DEF SampleAt, GetRelativeIndex
      <3> QED
        BY <1>6, <3>1
    <2>3. Queue' = q
      <3> HIDE DEF q
      <3> QED
        BY <1>2, <2>2, QueueHolds
    <2> QED
      BY <1>1, <1>2, <1>5, <2>1, <2>3
  <1> QED
    BY <1>7, <1>8

-----------------------------------------------------------------------------
(* Largest timestamps                                                      *)

Time == {t \in Int : t >= MinTime}

(* m is the largest member of T.                                           *)
Top(m, T) == m \in T \cup {MinTime} /\ \A t \in T : t <= m

LEMMA TopIsLargest ==
  ASSUME NEW T \in SUBSET Time, NEW m, Top(m, T)
  PROVE  Largest(T) = m /\ m \in Time
  <1>1. m \in Time /\ \A t \in T : t \in Int /\ t >= MinTime
    BY DEF Top, Time, MinTime
  <1> QED
    BY <1>1, LargestOf DEF Top, Time

LEMMA TopOfTwo ==
  ASSUME NEW A \in SUBSET Time, NEW B \in SUBSET Time, NEW a, NEW b, Top(a, A), Top(b, B)
  PROVE  Top(Largest({a, b}), A \cup B) /\ Largest({a, b}) \in {a, b}
  <1>1. a \in Time /\ b \in Time
    BY TopIsLargest
  <1>2. CASE a <= b
    <2>1. Top(b, {a, b}) /\ {a, b} \in SUBSET Time
      BY <1>1, <1>2 DEF Top, Time
    <2>2. Largest({a, b}) = b
      BY <2>1, TopIsLargest
    <2> QED
      BY <1>1, <1>2, <2>2 DEF Top, Time
  <1>3. CASE b < a
    <2>1. Top(a, {a, b}) /\ {a, b} \in SUBSET Time
      BY <1>1, <1>3 DEF Top, Time
    <2>2. Largest({a, b}) = a
      BY <2>1, TopIsLargest
    <2> QED
      BY <1>1, <1>3, <2>2 DEF Top, Time
  <1> QED
    BY <1>1, <1>2, <1>3 DEF Time

LEMMA TopOfOne == ASSUME NEW a \in Time PROVE Top(a, {a})
  BY DEF Top, Time

(* The times of the first n samples.                                       *)
FirstTimes(n) == {Queue[i].time : i \in 1 .. n}

LEMMA FirstTimesBounded ==
  ASSUME Inv, NEW n \in 0 .. length
  PROVE  /\ FirstTimes(n) \in SUBSET Time
         /\ \A i \in 1 .. length : Queue[i] \in Sample /\ Queue[i].time \in Nat
         /\ \E b \in Int : \A t \in FirstTimes(n) : t <= b
  <1>1. /\ length \in Nat /\ n \in Nat
        /\ \A i \in 1 .. length : Queue[i] \in Sample /\ Queue[i].time \in Nat
    BY QueueIs, QueueLength, SampleType DEF Inv
  <1>2. FirstTimes(n) \in SUBSET Time
    BY <1>1 DEF FirstTimes, Time, MinTime
  <1> DEFINE f == [i \in 1 .. n |-> Queue[i].time]
  <1>3. \A i \in 1 .. n : f[i] \in Int
    BY <1>1
  <1>4. PICK b \in Int : \A i \in 1 .. n : f[i] <= b
    <2> HIDE DEF f
    <2> QED
      BY <1>1, <1>3, Bounded
  <1>5. \A t \in FirstTimes(n) : t <= b
    BY <1>4 DEF FirstTimes
  <1> QED
    BY <1>1, <1>2, <1>5

(* The scan that stops at a keyframe misses no later time.                 *)
LEMMA ScanIsLargest ==
  ASSUME Inv, NEW n \in 0 .. length
  PROVE  Top(GetLargestTimestamp(n), FirstTimes(n)) /\ GetLargestTimestamp(n) \in Time
  <1> DEFINE scanned == {i \in 0 .. n - 1 : \A j \in i + 1 .. n - 1 : ~SampleAt(j).key}
             T == {SampleAt(i).time : i \in scanned}
  <1>1. /\ length \in Nat /\ n \in Nat
        /\ \A i \in 0 .. length - 1 : SampleAt(i) = Queue[i + 1]
        /\ \A i \in 1 .. length : Queue[i] \in Sample /\ Queue[i].time \in Nat
        /\ FirstTimes(n) \in SUBSET Time
    BY QueueIs, FirstTimesBounded DEF Inv
  <1>2. T \subseteq FirstTimes(n)
    <2>1. ASSUME NEW i \in scanned PROVE SampleAt(i).time \in FirstTimes(n)
      <3>1. i + 1 \in 1 .. n /\ SampleAt(i) = Queue[i + 1]
        BY <1>1
      <3> QED
        BY <3>1 DEF FirstTimes
    <2> QED
      BY <2>1
  <1>3. ASSUME NEW i \in 1 .. n PROVE \E t \in T : Queue[i].time <= t
    <2> DEFINE later == {j \in i .. n - 1 : SampleAt(j).key}
    <2>1. CASE later = {}
      <3>1. i - 1 \in scanned
        BY <1>1, <2>1
      <3>2. SampleAt(i - 1) = Queue[i] /\ Queue[i].time <= Queue[i].time
        BY <1>1
      <3> QED
        BY <3>1, <3>2
    <2>2. CASE later # {}
      <3>1. later \subseteq Int /\ n \in Int /\ \A j \in later : j <= n
        BY <1>1
      <3>2. PICK k \in later : \A j \in later : j <= k
        <4> HIDE DEF later
        <4> QED
          BY ONLY <2>2, <3>1, Greatest
      <3>3. k \in scanned
        BY <1>1, <3>2
      <3>4. /\ i \in 1 .. length /\ k + 1 \in 1 .. length /\ i < k + 1
            /\ SampleAt(k) = Queue[k + 1] /\ Queue[k + 1].key
        BY <1>1, <3>2
      <3>5. Queue[i].time < Queue[k + 1].time
        BY <3>4 DEF Inv, KeyInv
      <3>6. SampleAt(k).time \in T
        BY <3>3
      <3>7. Queue[i].time <= SampleAt(k).time
        BY <1>1, <3>4, <3>5
      <3> QED
        BY <3>6, <3>7, Zenon
    <2> QED
      BY <2>1, <2>2
  <1>4. GetLargestTimestamp(n) = Largest(T)
    BY DEF GetLargestTimestamp
  <1> HIDE DEF T
  <1>5. PICK b \in Int : \A t \in FirstTimes(n) : t <= b
    BY FirstTimesBounded
  <1>6. Largest(T) \in T \cup {MinTime} /\ \A t \in T : t <= Largest(T)
    BY <1>1, <1>2, <1>5, LargestOf DEF Time
  <1>7. Largest(T) \in FirstTimes(n) \cup {MinTime} /\ Largest(T) \in Time
    BY <1>1, <1>2, <1>6 DEF Time, MinTime
  <1>8. ASSUME NEW t \in FirstTimes(n) PROVE t <= Largest(T)
    <2>1. PICK i \in 1 .. n : t = Queue[i].time
      BY DEF FirstTimes
    <2>2. PICK u \in T : Queue[i].time <= u
      BY <1>3
    <2>3. u <= Largest(T) /\ u \in Time /\ t \in Time
      BY <1>1, <1>2, <1>6
    <2> QED
      BY <1>7, <2>1, <2>2, <2>3 DEF Time
  <1> QED
    BY <1>4, <1>7, <1>8 DEF Top

(* The largest timestamp of n samples that go, or stay, and of those that  *)
(* went before.                                                            *)
LEMMA LargestWith ==
  ASSUME Inv, NEW n \in 0 .. length
  PROVE  /\ Top(Largest({largestDiscardedTimestampUs, GetLargestTimestamp(n)}),
                FirstTimes(n) \cup {largestDiscardedTimestampUs})
         /\ Largest({largestDiscardedTimestampUs, GetLargestTimestamp(n)}) \in Times \cup {MinTime}
         /\ largestDiscardedTimestampUs \in Time
  <1> DEFINE d == largestDiscardedTimestampUs
  <1>1. d \in Time /\ d \in Times \cup {MinTime}
    BY Assumptions DEF Inv, TypeOK, Time, MinTime
  <1>2. Top(d, {d}) /\ Top(GetLargestTimestamp(n), FirstTimes(n)) /\ FirstTimes(n) \in SUBSET Time
    BY <1>1, TopOfOne, ScanIsLargest, FirstTimesBounded
  <1>3. /\ Top(Largest({d, GetLargestTimestamp(n)}), {d} \cup FirstTimes(n))
        /\ Largest({d, GetLargestTimestamp(n)}) \in {d, GetLargestTimestamp(n)}
    BY <1>1, <1>2, TopOfTwo
  <1>4. FirstTimes(n) \subseteq Times
    <2>1. \A i \in 1 .. n : Queue[i].time \in Times
      BY QueueIs, FirstTimesBounded, SampleType DEF Inv
    <2> QED
      BY <2>1 DEF FirstTimes
  <1> QED
    BY <1>1, <1>2, <1>3, <1>4 DEF Top

(* The invariant says which timestamp is the largest queued.               *)
LEMMA LargestQueuedIsTop ==
  ASSUME Inv
  PROVE  /\ Top(largestQueuedTimestampUs, FirstTimes(length) \cup {largestDiscardedTimestampUs})
         /\ FirstTimes(length) \cup {largestDiscardedTimestampUs} \in SUBSET Time
         /\ largestQueuedTimestampUs \in Time
  <1> DEFINE d == largestDiscardedTimestampUs
             T == FirstTimes(length) \cup {d}
  <1>1. length \in 0 .. length /\ d \in Time
    <2>1. length \in 0 .. length
      BY QueueIs DEF Inv
    <2> QED
      BY <2>1, LargestWith
  <1>2. T \in SUBSET Time
    BY <1>1, FirstTimesBounded
  <1>3. PICK b \in Int : \A t \in T : t <= b
    <2>1. PICK c \in Int : \A t \in FirstTimes(length) : t <= c
      BY <1>1, FirstTimesBounded
    <2>2. PICK b \in Int : c <= b /\ d <= b
      BY <1>1 DEF Time
    <2>3. ASSUME NEW t \in T PROVE t <= b
      <3>1. CASE t \in FirstTimes(length)
        <4>1. t \in Int /\ t <= c
          BY <1>2, <2>1, <3>1 DEF Time
        <4> QED
          BY <2>2, <4>1
      <3>2. CASE t = d
        BY <2>2, <3>2
      <3> QED
        BY <3>1, <3>2
    <2> QED
      BY <2>3
  <1>4. largestQueuedTimestampUs = Largest(T)
    BY DEF Inv, UpstreamFieldsAgree, FirstTimes
  <1> HIDE DEF T
  <1>5. Largest(T) \in T \cup {MinTime} /\ \A t \in T : t <= Largest(T)
    BY <1>2, <1>3, LargestOf DEF Time
  <1>6. Top(largestQueuedTimestampUs, T)
    BY <1>4, <1>5 DEF Top
  <1>7. largestQueuedTimestampUs \in Time
    BY <1>2, <1>6, TopIsLargest
  <1> QED
    BY <1>2, <1>6, <1>7 DEF T

-----------------------------------------------------------------------------
(* Every step keeps the invariant                                          *)

(* A step that moves only the read position, or hands over a format.       *)
LEMMA ReadMoves ==
  ASSUME Inv, UNCHANGED <<storage, window, largest, isLastSampleQueued, upstream>>,
         UNCHANGED totalBytesWritten, readPosition' \in 0 .. length,
         downstreamFormat' \in Formats \cup {NoFormat}
  PROVE  Inv'
  <1>1. Queue' = Queue
    BY QueueKept DEF window
  <1>2. TypeOK'
    BY DEF Inv, TypeOK, storage, window, largest, upstream
  <1>3. KeyInv' /\ UpstreamFieldsAgree' /\ SamplesDisjoint'
    BY <1>1 DEF Inv, KeyInv, UpstreamFieldsAgree, SamplesDisjoint, window, largest
  <1>4. Queue' \in Seq(Sample) /\ (~upstreamFormatRequired' => upstreamFormat' \in Formats)
    BY <1>1 DEF Inv, upstream
  <1> QED
    BY <1>2, <1>3, <1>4 DEF Inv

LEMMA ResetKeeps == ASSUME Inv, NEW b \in BOOLEAN, Reset(b) PROVE Inv'
  <1>1. /\ length' = 0 /\ readPosition' = 0 /\ UNCHANGED <<capacity, slots, downstreamFormat>>
        /\ absoluteFirstIndex' = 0 /\ relativeFirstIndex' = 0 /\ totalBytesWritten' = 0
        /\ largestDiscardedTimestampUs' = MinTime /\ largestQueuedTimestampUs' = MinTime
        /\ isLastSampleQueued' = FALSE /\ upstreamKeyframeRequired' = TRUE
        /\ upstreamFormat' \in Formats \cup {NoFormat} /\ upstreamFormatRequired' \in BOOLEAN
        /\ (~upstreamFormatRequired' => upstreamFormat' \in Formats)
    BY DEF Reset, Inv, TypeOK
  <1>2. TypeOK'
    BY <1>1 DEF Inv, TypeOK
  <1>3. Queue' = << >>
    <2> DEFINE e == << >>
    <2>1. e \in Seq(Sample) /\ Len(e) = 0 /\ \A i \in 1 .. 0 : SampleAt(i - 1)' = e[i]
      OBVIOUS
    <2> HIDE DEF e
    <2>2. Queue' = e
      BY <1>1, <2>1, QueueHolds
    <2> QED
      BY <2>2 DEF e
  <1>4. KeyInv' /\ SamplesDisjoint'
    BY <1>1 DEF KeyInv, SamplesDisjoint
  <1>5. UpstreamFieldsAgree'
    <2>1. {Queue'[i].time : i \in 1 .. length'} \cup {largestDiscardedTimestampUs'} = {MinTime}
      BY <1>1
    <2>2. Largest({MinTime}) = MinTime
      <3>1. Top(MinTime, {MinTime}) /\ {MinTime} \in SUBSET Time
        BY DEF Top, Time, MinTime
      <3> QED
        BY <3>1, TopIsLargest
    <2> QED
      BY <1>1, <2>1, <2>2 DEF UpstreamFieldsAgree
  <1> QED
    BY <1>1, <1>2, <1>3, <1>4, <1>5 DEF Inv

(* Taking samples back keeps what is said of those that stay; the largest  *)
(* timestamp falls back to theirs and that of the discarded ones.          *)
LEMMA KeepUpToKeeps ==
  ASSUME Inv, NEW i \in Int, KeepUpTo(i), totalBytesWritten' \in Nat,
         length' > 0 => EndOf(Queue[length']) <= totalBytesWritten'
  PROVE  Inv' /\ Queue' = SubSeq(Queue, 1, length') /\ length' \in readPosition .. length
         /\ length' = i - absoluteFirstIndex
  <1>1. /\ length \in Nat /\ readPosition \in 0 .. length /\ absoluteFirstIndex \in Nat
        /\ length' = length - (GetWriteIndex - i) /\ GetWriteIndex = absoluteFirstIndex + length
        /\ GetWriteIndex - i \in 0 .. length - readPosition
        /\ UNCHANGED <<storage, absoluteFirstIndex, readPosition,
                       largestDiscardedTimestampUs, upstream, downstreamFormat>>
        /\ isLastSampleQueued' = StillLast(GetWriteIndex - i)
        /\ largestQueuedTimestampUs' = LargestAfterTakeBack(length')
    BY QueueIs DEF Inv, TypeOK, KeepUpTo, GetWriteIndex
  <1>2. /\ length' \in readPosition .. length /\ length' \in 0 .. length
        /\ length' = i - absoluteFirstIndex
        /\ (isLastSampleQueued' => length' = length /\ isLastSampleQueued)
        /\ isLastSampleQueued' \in BOOLEAN
    <2>1. isLastSampleQueued' => (GetWriteIndex - i = 0 /\ isLastSampleQueued)
      BY <1>1, Zenon DEF StillLast
    <2>2. isLastSampleQueued' \in BOOLEAN
      BY <1>1, Zenon DEF StillLast
    <2>3. /\ length' \in readPosition .. length /\ length' \in 0 .. length
          /\ length' = i - absoluteFirstIndex
      BY <1>1
    <2>4. GetWriteIndex - i = 0 => length' = length
      BY <1>1
    <2> QED
      BY <2>1, <2>2, <2>3, <2>4, Zenon
  <1>3. /\ Queue' = SubSeq(Queue, 1, length')
        /\ Queue' \in Seq(Sample) /\ Len(Queue') = length'
        /\ \A j \in 1 .. length' : Queue'[j] = Queue[j]
    BY <1>1, <1>2, QueueTakenBack
  <1>4. /\ Top(largestQueuedTimestampUs', FirstTimes(length') \cup {largestDiscardedTimestampUs})
        /\ largestQueuedTimestampUs' \in Times \cup {MinTime}
        /\ largestDiscardedTimestampUs \in Time
        /\ FirstTimes(length') \in SUBSET Time
    BY <1>1, <1>2, LargestWith, FirstTimesBounded DEF LargestAfterTakeBack
  <1>5. TypeOK'
    BY <1>1, <1>2, <1>4 DEF Inv, TypeOK, storage, upstream
  <1>6. KeyInv'
    <2>1. ASSUME NEW j \in 1 .. length', NEW k \in 1 .. length', j < k, Queue'[k].key
          PROVE  Queue'[j].time < Queue'[k].time
      <3>1. j \in 1 .. length /\ k \in 1 .. length
        BY <1>1, <1>2
      <3>2. Queue'[j] = Queue[j] /\ Queue'[k] = Queue[k]
        BY <1>3
      <3> QED
        BY <2>1, <3>1, <3>2 DEF Inv, KeyInv
    <2> QED
      BY <2>1 DEF KeyInv
  <1>7. SamplesDisjoint'
    BY <1>1, <1>2, <1>3 DEF Inv, SamplesDisjoint, EndOf
  <1>8. UpstreamFieldsAgree'
    <2>1. /\ {Queue'[j].time : j \in 1 .. length'} = FirstTimes(length')
          /\ largestDiscardedTimestampUs' = largestDiscardedTimestampUs
      BY <1>1, <1>3 DEF FirstTimes
    <2>2. FirstTimes(length') \cup {largestDiscardedTimestampUs} \in SUBSET Time
      BY <1>4
    <2>3. largestQueuedTimestampUs' =
            Largest(FirstTimes(length') \cup {largestDiscardedTimestampUs})
      BY <1>4, <2>2, TopIsLargest
    <2>4. ASSUME isLastSampleQueued', length' > 0 PROVE Queue'[length'].last
      <3>1. length' = length /\ isLastSampleQueued
        BY <1>2, <2>4
      <3>2. length' \in 1 .. length' /\ length > 0
        BY <1>1, <2>4, <3>1
      <3>3. Queue'[length'] = Queue[length]
        BY <1>3, <3>1, <3>2
      <3> QED
        BY <3>1, <3>2, <3>3 DEF Inv, UpstreamFieldsAgree
    <2> QED
      BY <2>1, <2>3, <2>4 DEF UpstreamFieldsAgree
  <1>9. ~upstreamFormatRequired' => upstreamFormat' \in Formats
    BY <1>1 DEF Inv, upstream
  <1> QED
    BY <1>2, <1>3, <1>5, <1>6, <1>7, <1>8, <1>9 DEF Inv

(* Discarding at the front keeps what is said of those that stay; the      *)
(* largest timestamp now rests on that of the discarded ones.              *)
LEMMA DiscardKeeps ==
  ASSUME Inv, NEW n \in 0 .. length, DiscardSamples(n)
  PROVE  Inv' /\ Queue' = SubSeq(Queue, n + 1, Len(Queue))
  <1> DEFINE d == largestDiscardedTimestampUs
             q == largestQueuedTimestampUs
  <1>1. /\ length \in Nat /\ readPosition \in 0 .. length /\ absoluteFirstIndex \in Nat
        /\ n \in Nat /\ capacity \in Nat \ {0} /\ relativeFirstIndex \in 0 .. capacity - 1
        /\ length \in 0 .. capacity - 1
    BY QueueIs DEF Inv, TypeOK
  <1>2. /\ length' = length - n /\ UNCHANGED <<capacity, slots>>
        /\ relativeFirstIndex' = IF relativeFirstIndex + n >= capacity
                                 THEN (relativeFirstIndex + n) - capacity
                                 ELSE relativeFirstIndex + n
        /\ absoluteFirstIndex' = absoluteFirstIndex + n
        /\ readPosition' = IF readPosition < n THEN 0 ELSE readPosition - n
        /\ d' = Largest({d, GetLargestTimestamp(n)})
        /\ UNCHANGED <<q, isLastSampleQueued, upstream, callers>>
    <2>1. /\ length' = length - n /\ absoluteFirstIndex' = absoluteFirstIndex + n
          /\ UNCHANGED <<capacity, slots, q, isLastSampleQueued, upstream, callers>>
      BY Zenon DEF DiscardSamples
    <2>2. relativeFirstIndex' = IF relativeFirstIndex + n >= capacity
                                THEN (relativeFirstIndex + n) - capacity
                                ELSE relativeFirstIndex + n
      BY Zenon DEF DiscardSamples
    <2>3. readPosition' = IF readPosition < n THEN 0 ELSE readPosition - n
      BY Zenon DEF DiscardSamples
    <2>4. d' = Largest({d, GetLargestTimestamp(n)})
      BY Zenon DEF DiscardSamples
    <2> HIDE DEF d, q
    <2> QED
      BY <2>1, <2>2, <2>3, <2>4, Zenon
  <1>3. /\ Queue' = SubSeq(Queue, n + 1, Len(Queue))
        /\ Queue' \in Seq(Sample) /\ Len(Queue') = length'
        /\ \A i \in 1 .. length' : Queue'[i] = Queue[n + i]
    <2> HIDE DEF d, q
    <2> QED
      BY <1>2, QueueDiscarded
  <1>4. /\ Top(d', FirstTimes(n) \cup {d}) /\ d' \in Times \cup {MinTime}
        /\ d \in Time /\ FirstTimes(n) \in SUBSET Time
    BY <1>2, LargestWith, FirstTimesBounded
  <1>5. TypeOK'
    <2>1. /\ length' \in 0 .. capacity - 1 /\ absoluteFirstIndex' \in Nat
          /\ relativeFirstIndex' \in 0 .. capacity - 1 /\ readPosition' \in 0 .. length'
      BY <1>1, <1>2
    <2> QED
      BY <1>2, <1>4, <2>1 DEF Inv, TypeOK, upstream, callers
  <1>6. KeyInv'
    <2>1. ASSUME NEW j \in 1 .. length', NEW k \in 1 .. length', j < k, Queue'[k].key
          PROVE  Queue'[j].time < Queue'[k].time
      <3>1. n + j \in 1 .. length /\ n + k \in 1 .. length /\ n + j < n + k
        BY <1>1, <1>2, <2>1
      <3>2. Queue'[j] = Queue[n + j] /\ Queue'[k] = Queue[n + k]
        BY <1>3
      <3> QED
        BY <2>1, <3>1, <3>2 DEF Inv, KeyInv
    <2> QED
      BY <2>1 DEF KeyInv
  <1>7. SamplesDisjoint'
    <2>1. ASSUME NEW j \in 1 .. length' - 1 PROVE EndOf(Queue'[j]) <= Queue'[j + 1].offset
      <3>1. n + j \in 1 .. length - 1 /\ j \in 1 .. length' /\ j + 1 \in 1 .. length'
        BY <1>1, <1>2
      <3> HIDE DEF d, q
      <3>2. Queue'[j] = Queue[n + j]
        BY <1>3, <3>1
      <3>3. n + (j + 1) = (n + j) + 1
        BY <1>1
      <3>4. Queue'[j + 1] = Queue[n + (j + 1)]
        BY <1>3, <3>1
      <3>5. Queue'[j + 1] = Queue[(n + j) + 1]
        BY <3>3, <3>4
      <3> QED
        BY <3>1, <3>2, <3>5 DEF Inv, SamplesDisjoint
    <2>2. ASSUME length' > 0 PROVE EndOf(Queue'[length']) <= totalBytesWritten'
      <3>1. length' \in 1 .. length' /\ n + length' = length /\ length > 0
        BY <1>1, <1>2, <2>2
      <3>2. Queue'[length'] = Queue[length]
        BY <1>3, <3>1
      <3> QED
        BY <1>2, <3>1, <3>2 DEF Inv, SamplesDisjoint, callers
    <2> QED
      BY <2>1, <2>2 DEF SamplesDisjoint
  <1>8. UpstreamFieldsAgree'
    <2> DEFINE rest == {Queue'[i].time : i \in 1 .. length'}
    <2>1. ASSUME NEW i \in 1 .. length' PROVE Queue'[i].time \in FirstTimes(length)
      <3>1. n + i \in 1 .. length /\ Queue'[i] = Queue[n + i]
        BY <1>1, <1>2, <1>3
      <3> QED
        BY <3>1 DEF FirstTimes
    <2>2. ASSUME NEW t \in FirstTimes(length) PROVE t \in FirstTimes(n) \/ t \in rest
      <3>1. PICK i \in 1 .. length : t = Queue[i].time
        BY DEF FirstTimes
      <3>2. CASE i \in 1 .. n
        BY <3>1, <3>2 DEF FirstTimes
      <3>3. CASE i \notin 1 .. n
        <4>1. i - n \in 1 .. length' /\ n + (i - n) = i
          BY <1>1, <1>2, <3>3
        <4>2. Queue'[i - n] = Queue[i]
          BY <1>3, <4>1
        <4> QED
          BY <3>1, <4>1, <4>2
      <3> QED
        BY <3>2, <3>3
    <2>3. /\ Top(q, FirstTimes(length) \cup {d}) /\ q \in Time
          /\ FirstTimes(length) \cup {d} \in SUBSET Time
      BY LargestQueuedIsTop
    <2>4. \A t \in FirstTimes(n) : t \in FirstTimes(length)
      BY <1>1 DEF FirstTimes
    <2>5. rest \subseteq FirstTimes(length)
      BY <2>1
    <2> HIDE DEF rest, d, q
    <2>6. d' \in Time /\ rest \cup {d'} \in SUBSET Time
      <3>1. d' \in Time
        BY <1>4, TopIsLargest
      <3> QED
        BY <2>3, <2>5, <3>1
    <2>7. d' <= q
      BY <1>4, <2>3, <2>4, <2>6 DEF Top, Time, MinTime
    <2>8. \A t \in rest \cup {d'} : t <= q
      BY <2>3, <2>5, <2>7 DEF Top
    <2>9. q \in rest \cup {d', MinTime}
      <3>1. CASE q \in FirstTimes(n) \cup {d}
        <4>1. q <= d'
          BY <1>4, <3>1 DEF Top
        <4> QED
          BY <2>3, <2>6, <2>7, <4>1 DEF Time
      <3>2. CASE q \notin FirstTimes(n) \cup {d}
        BY <2>2, <2>3, <3>2 DEF Top
      <3> QED
        BY <3>1, <3>2
    <2>10. q = Largest(rest \cup {d'})
      <3>1. Top(q, rest \cup {d'})
        BY <2>8, <2>9 DEF Top
      <3> QED
        BY <2>6, <3>1, TopIsLargest
    <2>11. ASSUME isLastSampleQueued', length' > 0 PROVE Queue'[length'].last
      <3>1. length' \in 1 .. length' /\ n + length' = length /\ length > 0
        BY <1>1, <1>2, <2>11
      <3>2. Queue'[length'] = Queue[length]
        BY <1>3, <3>1
      <3> QED
        BY <1>2, <2>11, <3>1, <3>2 DEF Inv, UpstreamFieldsAgree
    <2>12. largestQueuedTimestampUs' = Largest(rest \cup {largestDiscardedTimestampUs'})
      BY <1>2, <2>10 DEF q, d
    <2> QED
      BY <2>11, <2>12 DEF UpstreamFieldsAgree, rest
  <1>9. ~upstreamFormatRequired' => upstreamFormat' \in Formats
    BY <1>2 DEF Inv, upstream
  <1> QED
    BY <1>3, <1>5, <1>6, <1>7, <1>8, <1>9 DEF Inv

(* What a sample is committed as.                                          *)
Committed(o) ==
  [time |-> o.time, key |-> o.key, last |-> o.last, offset |-> totalBytesWritten + o.gap,
   size |-> o.size, format |-> upstreamFormat]

(* A call of commitSample that finds no keyframe or no format.             *)
Refused ==
  /\ UNCHANGED <<storage, window, readPosition, largest, isLastSampleQueued>>
  /\ UNCHANGED <<upstreamFormatRequired, upstreamFormat, downstreamFormat>>
  /\ upstreamKeyframeRequired' \in {upstreamKeyframeRequired, FALSE}
  /\ returned' \in {NoResult, <<"illegal">>}

(* One that adds the sample.                                               *)
Accepted(o) ==
  /\ ~upstreamFormatRequired
  /\ upstreamKeyframeRequired' = FALSE
  /\ isLastSampleQueued' = o.last
  /\ largestQueuedTimestampUs' = Largest({largestQueuedTimestampUs, o.time})
  /\ length' = length + 1
  /\ IF Full(length + 1)
     THEN /\ slots' = Grown([slots EXCEPT ![GetRelativeIndex(length)] = Committed(o)])
          /\ relativeFirstIndex' = 0
          /\ capacity' = capacity + CapacityIncrement
     ELSE /\ slots' = [slots EXCEPT ![GetRelativeIndex(length)] = Committed(o)]
          /\ UNCHANGED <<relativeFirstIndex, capacity>>
  /\ returned' = NoResult
  /\ UNCHANGED <<absoluteFirstIndex, readPosition, largestDiscardedTimestampUs>>
  /\ UNCHANGED <<upstreamFormatRequired, upstreamFormat, downstreamFormat>>

LEMMA CommitCases ==
  ASSUME NEW o, CommitSample(o)
  PROVE  /\ totalBytesWritten' = (totalBytesWritten + o.gap) + o.size
         /\ Refused \/ Accepted(o)
  <1>1. totalBytesWritten' = (totalBytesWritten + o.gap) + o.size
    BY Zenon DEF CommitSample
  <1>2. CASE upstreamKeyframeRequired /\ ~o.key
    BY <1>2, Zenon DEF CommitSample, Refused, Return, upstream
  <1>3. CASE ~(upstreamKeyframeRequired /\ ~o.key) /\ upstreamFormatRequired
    BY <1>3, Zenon DEF CommitSample, Refused, Return
  <1>4. CASE ~(upstreamKeyframeRequired /\ ~o.key) /\ ~upstreamFormatRequired
    <2>1. /\ upstreamKeyframeRequired' = FALSE
          /\ isLastSampleQueued' = o.last
          /\ largestQueuedTimestampUs' = Largest({largestQueuedTimestampUs, o.time})
          /\ length' = length + 1
          /\ returned' = NoResult
          /\ UNCHANGED <<absoluteFirstIndex, readPosition, largestDiscardedTimestampUs>>
          /\ UNCHANGED <<upstreamFormatRequired, upstreamFormat, downstreamFormat>>
      BY <1>4, Zenon DEF CommitSample, Return
    <2>2. CASE Full(length + 1)
      BY <1>4, <2>1, <2>2, Zenon DEF CommitSample, Accepted, Committed
    <2>3. CASE ~Full(length + 1)
      BY <1>4, <2>1, <2>3, Zenon DEF CommitSample, Accepted, Committed
    <2> QED
      BY <2>2, <2>3
  <1> QED
    BY <1>1, <1>2, <1>3, <1>4

LEMMA CommittedType ==
  ASSUME Inv, NEW o \in Offered, ~upstreamFormatRequired
  PROVE  /\ Committed(o) \in Sample /\ Committed(o).time = o.time /\ o.time \in Times
         /\ Committed(o).key = o.key /\ Committed(o).last = o.last /\ o.last \in BOOLEAN
         /\ Committed(o).offset = totalBytesWritten + o.gap
         /\ EndOf(Committed(o)) = (totalBytesWritten + o.gap) + o.size
         /\ o.gap \in Nat /\ o.size \in Nat /\ totalBytesWritten \in Nat /\ o.time \in Nat
  <1>1. /\ o.time \in Times /\ o.key \in BOOLEAN /\ o.last \in BOOLEAN /\ o.size \in Sizes
        /\ o.gap \in Nat /\ o.size \in Nat /\ totalBytesWritten \in Nat /\ o.time \in Nat
        /\ upstreamFormat \in Formats
    BY Assumptions DEF Inv, TypeOK
  <1>2. totalBytesWritten + o.gap \in Nat
    BY <1>1
  <1> QED
    BY <1>1, <1>2 DEF Committed, Sample, EndOf

LEMMA CommitKeeps ==
  ASSUME Inv, NEW o \in Offered, KeyframesSeparateTimes(o), CommitSample(o)
  PROVE  Inv' /\ (Accepted(o) => Queue' = Append(Queue, Committed(o)))
  <1> DEFINE d == largestDiscardedTimestampUs
             q == largestQueuedTimestampUs
             s == Committed(o)
  <1>0. /\ length \in Nat /\ readPosition \in 0 .. length /\ totalBytesWritten \in Nat
        /\ o.gap \in Nat /\ o.size \in Nat
        /\ \A i \in 1 .. length : Queue[i] \in Sample /\ EndOf(Queue[i]) \in Nat
    BY QueueIs, QueueLength, SampleType, Assumptions DEF Inv, TypeOK
  <1>1. totalBytesWritten' = (totalBytesWritten + o.gap) + o.size /\ totalBytesWritten' \in Nat
    BY <1>0, CommitCases
  <1>2. CASE Refused
    <2>1. Queue' = Queue /\ UNCHANGED window
      BY <1>2, QueueKept DEF Refused, window
    <2>2. TypeOK'
      BY <1>1, <1>2 DEF Inv, TypeOK, Refused, storage, window, largest
    <2>3. KeyInv' /\ UpstreamFieldsAgree'
      BY <1>2, <2>1 DEF Inv, KeyInv, UpstreamFieldsAgree, Refused, window, largest
    <2>4. SamplesDisjoint'
      <3>1. \A i \in 1 .. length - 1 : EndOf(Queue[i]) <= Queue[i + 1].offset
        BY DEF Inv, SamplesDisjoint
      <3>2. length > 0 => EndOf(Queue[length]) <= totalBytesWritten'
        BY <1>0, <1>1 DEF Inv, SamplesDisjoint
      <3> QED
        BY <2>1, <3>1, <3>2 DEF SamplesDisjoint, window
    <2>5. Queue' \in Seq(Sample) /\ (~upstreamFormatRequired' => upstreamFormat' \in Formats)
      BY <1>2, <2>1 DEF Inv, Refused
    <2>6. ~Accepted(o)
      BY <1>0, <2>1 DEF Accepted, window
    <2> QED
      BY <2>2, <2>3, <2>4, <2>5, <2>6 DEF Inv
  <1>3. CASE Accepted(o)
    <2>1. /\ s \in Sample /\ s.time = o.time /\ s.key = o.key /\ s.last = o.last
          /\ o.time \in Times /\ o.last \in BOOLEAN /\ s.offset = totalBytesWritten + o.gap
          /\ EndOf(s) = (totalBytesWritten + o.gap) + o.size /\ o.time \in Nat
      BY <1>3, CommittedType DEF Accepted
    <2>2. /\ Queue' = Append(Queue, s)
          /\ Queue' \in Seq(Sample) /\ Len(Queue') = length'
          /\ \A i \in 1 .. length : Queue'[i] = Queue[i]
          /\ Queue'[length'] = s
          /\ slots' \in [0 .. capacity' - 1 -> Sample \cup {EmptySlot}]
          /\ capacity' \in Nat \ {0} /\ relativeFirstIndex' \in 0 .. capacity' - 1
          /\ length' \in 0 .. capacity' - 1 /\ length' = length + 1
      <3> DEFINE filled == [slots EXCEPT ![GetRelativeIndex(length)] = s]
      <3>1. /\ length' = length + 1
            /\ IF Full(length + 1)
               THEN /\ slots' = Grown(filled) /\ relativeFirstIndex' = 0
                    /\ capacity' = capacity + CapacityIncrement
               ELSE slots' = filled /\ UNCHANGED <<relativeFirstIndex, capacity>>
        BY <1>3, Zenon DEF Accepted
      <3>2. filled = [slots EXCEPT ![GetRelativeIndex(length)] = s]
        OBVIOUS
      <3> HIDE DEF filled, s
      <3> QED
        BY <2>1, <3>1, <3>2, QueueCommitted
    <2>3. /\ Top(q', FirstTimes(length) \cup {d} \cup {o.time}) /\ q' \in Times \cup {MinTime}
          /\ FirstTimes(length) \cup {d} \cup {o.time} \in SUBSET Time
      <3>1. /\ Top(q, FirstTimes(length) \cup {d}) /\ q \in Times \cup {MinTime}
            /\ FirstTimes(length) \cup {d} \in SUBSET Time
        BY LargestQueuedIsTop DEF Inv, TypeOK
      <3>2. o.time \in Time /\ {o.time} \in SUBSET Time
        BY <2>1 DEF Time, MinTime
      <3>3. Top(o.time, {o.time})
        BY <3>2, TopOfOne
      <3>4. q' = Largest({q, o.time})
        BY <1>3 DEF Accepted
      <3> HIDE DEF q, d
      <3>5. /\ Top(Largest({q, o.time}), (FirstTimes(length) \cup {d}) \cup {o.time})
            /\ Largest({q, o.time}) \in {q, o.time}
        BY <3>1, <3>2, <3>3, TopOfTwo
      <3> QED
        BY <2>1, <3>1, <3>2, <3>4, <3>5
    <2>4. {Queue'[i].time : i \in 1 .. length'} = FirstTimes(length) \cup {o.time}
      <3>1. \A i \in 1 .. length' : i \in 1 .. length \/ i = length'
        BY <1>0, <2>2
      <3>2. length' \in 1 .. length' /\ \A i \in 1 .. length : i \in 1 .. length'
        BY <1>0, <2>2
      <3>3. Queue'[length'].time = o.time
        BY <2>1, <2>2
      <3> HIDE DEF s
      <3>4. ASSUME NEW i \in 1 .. length' PROVE Queue'[i].time \in FirstTimes(length) \cup {o.time}
        BY <2>2, <3>1, <3>3 DEF FirstTimes
      <3>5. ASSUME NEW t \in FirstTimes(length) PROVE \E i \in 1 .. length' : t = Queue'[i].time
        BY <2>2, <3>2 DEF FirstTimes
      <3> QED
        BY <3>2, <3>3, <3>4, <3>5
    <2>5. TypeOK'
      <3>1. readPosition' \in 0 .. length'
        BY <1>0, <1>3, <2>2 DEF Accepted
      <3> QED
        BY <1>1, <1>3, <2>1, <2>2, <2>3, <3>1 DEF Inv, TypeOK, Accepted
    <2>6. KeyInv'
      <3>1. ASSUME NEW j \in 1 .. length', NEW k \in 1 .. length', j < k, Queue'[k].key
            PROVE  Queue'[j].time < Queue'[k].time
        <4>1. j \in 1 .. length /\ Queue'[j] = Queue[j]
          BY <1>0, <2>2, <3>1
        <4>2. CASE k \in 1 .. length
          <5>1. Queue'[k] = Queue[k]
            BY <2>2, <4>2
          <5> QED
            BY <3>1, <4>1, <4>2, <5>1 DEF Inv, KeyInv
        <4>3. CASE k = length'
          <5>1. o.key /\ Queue'[k].time = o.time
            BY <2>1, <2>2, <3>1, <4>3
          <5>2. j - 1 \in 0 .. length - 1 /\ SampleAt(j - 1) = Queue[j]
            <6>1. j - 1 \in 0 .. length - 1
              BY <1>0, <4>1
            <6>2. SampleAt(j - 1) = Queue[j]
              BY <4>1, QueueIs DEF Inv
            <6> QED
              BY <6>1, <6>2
          <5>3. SampleAt(j - 1).time < o.time
            <6>1. KeyframesSeparateTimes(o)
              BY <2>1
            <6> QED
              BY <5>1, <5>2, <6>1 DEF KeyframesSeparateTimes
          <5> QED
            BY <4>1, <5>1, <5>2, <5>3
        <4> QED
          BY <1>0, <2>2, <4>2, <4>3
      <3> QED
        BY <3>1 DEF KeyInv
    <2>7. SamplesDisjoint'
      <3>1. ASSUME NEW j \in 1 .. length' - 1 PROVE EndOf(Queue'[j]) <= Queue'[j + 1].offset
        <4>1. j \in 1 .. length /\ Queue'[j] = Queue[j]
          BY <1>0, <2>2
        <4>2. CASE j = length
          <5>1. Queue'[j + 1] = s /\ length > 0
            BY <1>0, <2>2, <4>1, <4>2
          <5>2. EndOf(Queue[length]) <= totalBytesWritten
            BY <5>1 DEF Inv, SamplesDisjoint
          <5>3. EndOf(Queue[length]) <= totalBytesWritten + o.gap
            BY <1>0, <4>1, <4>2, <5>2
          <5> QED
            BY <2>1, <4>1, <4>2, <5>1, <5>3
        <4>3. CASE j # length
          <5>1. j \in 1 .. length - 1 /\ j + 1 \in 1 .. length
            BY <1>0, <4>1, <4>3
          <5>2. Queue'[j + 1] = Queue[j + 1]
            BY <2>2, <5>1
          <5> QED
            BY <4>1, <5>1, <5>2 DEF Inv, SamplesDisjoint
        <4> QED
          BY <4>2, <4>3
      <3>2. EndOf(Queue'[length']) <= totalBytesWritten'
        BY <1>1, <2>1, <2>2
      <3> QED
        BY <3>1, <3>2 DEF SamplesDisjoint
    <2>8. UpstreamFieldsAgree'
      <3>1. q' = Largest(FirstTimes(length) \cup {d} \cup {o.time})
        BY <2>3, TopIsLargest
      <3>2. d' = d
        BY <1>3 DEF Accepted
      <3>3. FirstTimes(length) \cup {d} \cup {o.time} = FirstTimes(length) \cup {o.time} \cup {d'}
        BY <3>2
      <3>4. isLastSampleQueued' => Queue'[length'].last
        BY <1>3, <2>1, <2>2 DEF Accepted
      <3> HIDE DEF s
      <3> QED
        BY <2>4, <3>1, <3>3, <3>4 DEF UpstreamFieldsAgree
    <2>9. ~upstreamFormatRequired' => upstreamFormat' \in Formats
      BY <1>3 DEF Inv, Accepted
    <2> QED
      BY <2>2, <2>5, <2>6, <2>7, <2>8, <2>9 DEF Inv
  <1> QED
    BY <1>2, <1>3, CommitCases

(* What findSampleBefore answers.                                          *)
LEMMA FoundBefore ==
  ASSUME NEW from, NEW n \in Nat, NEW t, NEW key
  PROVE  FindSampleBefore(from, n, t, key) \in -1 .. n - 1
  <1> DEFINE found == {i \in 0 .. n - 1 :
                         /\ \A j \in 0 .. i : SampleAt(from + j).time <= t
                         /\ key => SampleAt(from + i).key}
  <1>1. \E m \in found \cup {-1} : \A i \in found : i <= m
    <2>1. CASE found = {}
      BY <2>1
    <2>2. CASE found # {}
      <3>1. found \subseteq Int /\ n \in Int /\ \A i \in found : i <= n
        OBVIOUS
      <3>2. \E m \in found : \A i \in found : i <= m
        <4> HIDE DEF found
        <4> QED
          BY ONLY <2>2, <3>1, Greatest
      <3> QED
        BY <3>2
    <2> QED
      BY <2>1, <2>2
  <1>2. FindSampleBefore(from, n, t, key) \in found \cup {-1}
    <2>1. FindSampleBefore(from, n, t, key) =
            CHOOSE m \in found \cup {-1} : \A i \in found : i <= m
      BY DEF FindSampleBefore
    <2> HIDE DEF found
    <2> QED
      BY <1>1, <2>1
  <1>3. -1 \in -1 .. n - 1 /\ \A i \in 0 .. n - 1 : i \in -1 .. n - 1
    OBVIOUS
  <1>4. \A i \in found : i \in -1 .. n - 1
    BY <1>3
  <1> HIDE DEF found
  <1> QED
    BY <1>2, <1>3, <1>4

(* How many samples attemptSplice keeps: there is such a number.           *)
LEMMA RetainCount ==
  ASSUME Inv, NEW t \in Int
  PROVE  \E n \in readPosition .. length :
           /\ \A i \in n .. length - 1 : SampleAt(i).time >= t
           /\ n > readPosition => SampleAt(n - 1).time < t
  <1> DEFINE T == {n \in readPosition .. length : \A i \in n .. length - 1 : SampleAt(i).time >= t}
  <1>1. /\ length \in Nat /\ readPosition \in 0 .. length
        /\ \A i \in 0 .. length - 1 : SampleAt(i).time \in Nat
    <2>1. \A i \in 0 .. length - 1 : i + 1 \in 1 .. length /\ SampleAt(i) = Queue[i + 1]
      BY QueueIs DEF Inv
    <2>2. length \in 0 .. length /\ \A i \in 1 .. length : Queue[i].time \in Nat
      <3>1. length \in 0 .. length
        BY QueueIs DEF Inv
      <3> QED
        BY <3>1, FirstTimesBounded
    <2> QED
      BY <2>1, <2>2 DEF Inv, TypeOK
  <1>2. T \subseteq Nat /\ T # {}
    <2>1. length \in T
      BY <1>1
    <2> QED
      BY <1>1, <2>1
  <1>3. PICK n \in T : \A m \in T : n <= m
    <2> HIDE DEF T
    <2> QED
      BY <1>2, Least
  <1>4. ASSUME n > readPosition PROVE SampleAt(n - 1).time < t
    <2> SUFFICES ASSUME SampleAt(n - 1).time >= t PROVE FALSE
      BY <1>1, <1>4
    <2>1. n - 1 \in readPosition .. length
      BY <1>1, <1>4
    <2>2. ASSUME NEW i \in n - 1 .. length - 1 PROVE SampleAt(i).time >= t
      <3>1. i = n - 1 \/ i \in n .. length - 1
        BY <1>1
      <3> QED
        BY <3>1
    <2>3. n - 1 \in T
      BY <2>1, <2>2
    <2>4. n <= n - 1
      BY <1>3, <2>3
    <2> QED
      BY <1>1, <2>4
  <1> QED
    BY <1>4

(* attemptSplice leaves everything alone, or takes the samples back that   *)
(* are unread and not earlier than t.                                      *)
Spliced(t) ==
  \E n \in readPosition .. length :
    /\ \A i \in n .. length - 1 : SampleAt(i).time >= t
    /\ n > readPosition => SampleAt(n - 1).time < t
    /\ KeepUpTo(absoluteFirstIndex + n)
    /\ UNCHANGED totalBytesWritten
    /\ returned' = <<"splice", TRUE>>

LEMMA SpliceCases ==
  ASSUME Inv, NEW t \in Times, AttemptSplice(t)
  PROVE  \/ length = 0 /\ ReturnOnly(<<"splice", t > largestDiscardedTimestampUs>>)
         \/ /\ length # 0
            /\ Largest({largestDiscardedTimestampUs, GetLargestTimestamp(readPosition)}) >= t
            /\ ReturnOnly(<<"splice", FALSE>>)
         \/ /\ length # 0
            /\ ~(Largest({largestDiscardedTimestampUs, GetLargestTimestamp(readPosition)}) >= t)
            /\ Spliced(t)
  <1> DEFINE Fits(n) == /\ \A i \in n .. length - 1 : SampleAt(i).time >= t
                        /\ n > readPosition => SampleAt(n - 1).time < t
             count == CHOOSE n \in readPosition .. length : Fits(n)
             latest == Largest({largestDiscardedTimestampUs, GetLargestTimestamp(readPosition)})
  <1>1. t \in Int
    BY Assumptions
  <1>2. \E n \in readPosition .. length : Fits(n)
    BY <1>1, RetainCount
  <1>3. count \in readPosition .. length /\ Fits(count)
    <2> HIDE DEF Fits
    <2> QED
      BY <1>2
  <1>4. CASE length = 0
    BY <1>4, Zenon DEF AttemptSplice
  <1>5. CASE length # 0 /\ latest >= t
    BY <1>5, Zenon DEF AttemptSplice
  <1>6. CASE length # 0 /\ ~(latest >= t)
    <2>1. /\ KeepUpTo(absoluteFirstIndex + count) /\ UNCHANGED totalBytesWritten
          /\ returned' = <<"splice", TRUE>>
      BY <1>6, Zenon DEF AttemptSplice, Return
    <2>2. Spliced(t)
      <3> HIDE DEF count
      <3> QED
        BY <1>3, <2>1, Zenon DEF Spliced
    <2> QED
      BY <1>6, <2>2, Zenon
  <1> QED
    BY <1>4, <1>5, <1>6

LEMMA SpliceKeeps == ASSUME Inv, NEW t \in Times, AttemptSplice(t) PROVE Inv'
  <1>1. /\ length \in Nat /\ readPosition \in 0 .. length /\ totalBytesWritten \in Nat
        /\ absoluteFirstIndex \in Nat /\ downstreamFormat \in Formats \cup {NoFormat}
    BY QueueIs DEF Inv, TypeOK
  <1>2. CASE \E r : ReturnOnly(r)
    BY <1>1, <1>2, ReadMoves DEF ReturnOnly, callers
  <1>3. CASE Spliced(t)
    <2>1. PICK n \in readPosition .. length :
            KeepUpTo(absoluteFirstIndex + n) /\ UNCHANGED totalBytesWritten
      BY <1>3 DEF Spliced
    <2>2. length' = n
      BY <1>1, <2>1 DEF KeepUpTo, GetWriteIndex
    <2>3. length' > 0 => EndOf(Queue[length']) <= totalBytesWritten'
      <3> SUFFICES ASSUME n > 0 PROVE EndOf(Queue[n]) <= totalBytesWritten
        BY <2>1, <2>2
      <3>1. \A i \in 1 .. length : /\ EndOf(Queue[i]) \in Nat /\ Queue[i].offset \in Nat
                                   /\ Queue[i].offset <= EndOf(Queue[i])
        <4>1. ASSUME NEW i \in 1 .. length
              PROVE  /\ EndOf(Queue[i]) \in Nat /\ Queue[i].offset \in Nat
                     /\ Queue[i].offset <= EndOf(Queue[i])
          <5>1. Queue[i] \in Sample
            BY <1>1, QueueLength DEF Inv
          <5> QED
            BY <5>1, SampleType
        <4> QED
          BY <4>1
      <3>2. EndOf(Queue[length]) <= totalBytesWritten /\ length > 0
        BY <1>1 DEF Inv, SamplesDisjoint
      <3> DEFINE S == {k \in Nat : k < length => EndOf(Queue[length - k]) <= totalBytesWritten}
      <3>3. 0 \in S
        BY <1>1, <3>2
      <3>4. ASSUME NEW k \in Nat, k \in S PROVE k + 1 \in S
        <4> SUFFICES ASSUME k + 1 < length
                     PROVE  EndOf(Queue[length - (k + 1)]) <= totalBytesWritten
          BY <1>1
        <4> DEFINE i == length - (k + 1)
        <4>1. /\ i \in 1 .. length - 1 /\ i \in 1 .. length /\ i + 1 \in 1 .. length
              /\ i + 1 = length - k
          BY <1>1
        <4>2. EndOf(Queue[i + 1]) <= totalBytesWritten
          BY <1>1, <3>4, <4>1
        <4>3. EndOf(Queue[i]) <= Queue[i + 1].offset
          BY <4>1 DEF Inv, SamplesDisjoint
        <4> HIDE DEF i
        <4>4. EndOf(Queue[i]) <= totalBytesWritten
          BY <1>1, <3>1, <4>1, <4>2, <4>3
        <4> QED
          BY <4>4 DEF i
      <3>5. \A k \in Nat : k \in S
        <4> HIDE DEF S
        <4> QED
          BY <3>3, <3>4, Induction
      <3>6. length - n \in Nat /\ length - n < length /\ length - (length - n) = n
        BY <1>1
      <3> QED
        BY <3>5, <3>6
    <2>4. absoluteFirstIndex + n \in Int /\ totalBytesWritten' \in Nat
      BY <1>1, <2>1
    <2> QED
      BY <2>1, <2>3, <2>4, KeepUpToKeeps
  <1> QED
    BY <1>2, <1>3, SpliceCases

(* What read does: it answers without a change, hands over a format, or    *)
(* the sample at the read position, when that sample's format is known.    *)
ReadsFormat(f) ==
  /\ f \in Formats
  /\ returned' = <<"format", f>>
  /\ downstreamFormat' = f
  /\ UNCHANGED <<storage, window, readPosition, largest, isLastSampleQueued, upstream>>
  /\ UNCHANGED totalBytesWritten

ReadsSample ==
  /\ readPosition < length
  /\ SampleAt(readPosition).format = downstreamFormat
  /\ returned' = <<"sample", SampleAt(readPosition)>>
  /\ readPosition' = readPosition + 1
  /\ UNCHANGED <<storage, window, largest, isLastSampleQueued, upstream, callers>>

ReadsFlags ==
  /\ readPosition < length
  /\ ReturnOnly(<<"flags", SampleAt(readPosition)>>)

LEMMA ReadCases ==
  ASSUME Inv, NEW formatRequired \in BOOLEAN, NEW loadingFinished \in BOOLEAN,
         NEW flagsOnly \in BOOLEAN, Read(formatRequired, loadingFinished, flagsOnly)
  PROVE  \/ ReturnOnly(<<"eos">>) \/ ReturnOnly(<<"nothing">>) \/ ReadsFlags
         \/ (\E f : ReadsFormat(f)) \/ ReadsSample
  <1> DEFINE s == SampleAt(readPosition)
  <1>1. /\ length \in Nat /\ readPosition \in 0 .. length
        /\ upstreamFormat \in Formats \cup {NoFormat}
    BY QueueIs DEF Inv, TypeOK
  <1>2. CASE readPosition = length
    <2>1. \/ ReturnOnly(<<"eos">>) \/ ReturnOnly(<<"nothing">>)
          \/ /\ upstreamFormat # NoFormat
             /\ returned' = <<"format", upstreamFormat>>
             /\ downstreamFormat' = upstreamFormat
             /\ UNCHANGED <<storage, window, readPosition, largest, isLastSampleQueued,
                            upstream, totalBytesWritten>>
      BY <1>2, Zenon DEF Read, Return
    <2> QED
      BY <1>1, <2>1 DEF ReadsFormat
  <1>3. CASE readPosition # length
    <2>1. readPosition < length /\ s = Queue[readPosition + 1] /\ s \in Sample
      <3>1. readPosition < length /\ readPosition \in 0 .. length - 1
            /\ readPosition + 1 \in 1 .. length
        BY <1>1, <1>3
      <3>2. s = Queue[readPosition + 1]
        BY <3>1, QueueIs DEF Inv
      <3>3. Queue[readPosition + 1] \in Sample
        BY <3>1, QueueLength DEF Inv
      <3> QED
        BY <3>1, <3>2, <3>3
    <2>2. s.format \in Formats
      BY <2>1, SampleType
    <2> HIDE DEF s
    <2>3. \/ /\ returned' = <<"format", s.format>>
             /\ downstreamFormat' = s.format
             /\ UNCHANGED <<storage, window, readPosition, largest, isLastSampleQueued,
                            upstream, totalBytesWritten>>
          \/ ~FormatIsNews(s.format, formatRequired) /\ ReturnOnly(<<"flags", s>>)
          \/ /\ ~FormatIsNews(s.format, formatRequired)
             /\ returned' = <<"sample", s>>
             /\ MoveReadPosition(readPosition + 1)
      BY <1>3, Zenon DEF Read, Return, s
    <2>4. ~FormatIsNews(s.format, formatRequired) => s.format = downstreamFormat
      BY DEF FormatIsNews
    <2> QED
      BY <2>1, <2>2, <2>3, <2>4 DEF ReadsFormat, ReadsFlags, ReadsSample, MoveReadPosition, s
  <1> QED
    BY <1>2, <1>3

LEMMA ReadKeeps ==
  ASSUME Inv, NEW formatRequired \in BOOLEAN, NEW loadingFinished \in BOOLEAN,
         NEW flagsOnly \in BOOLEAN, Read(formatRequired, loadingFinished, flagsOnly)
  PROVE  Inv'
  <1>1. /\ length \in Nat /\ readPosition \in 0 .. length
        /\ downstreamFormat \in Formats \cup {NoFormat}
    BY QueueIs DEF Inv, TypeOK
  <1>2. CASE \E r : ReturnOnly(r)
    BY <1>1, <1>2, ReadMoves DEF ReturnOnly, callers
  <1>3. CASE \E f : ReadsFormat(f)
    BY <1>1, <1>3, ReadMoves DEF ReadsFormat
  <1>4. CASE ReadsSample
    <2>1. readPosition + 1 \in 0 .. length
      BY <1>1, <1>4 DEF ReadsSample
    <2> QED
      BY <1>1, <1>4, <2>1, ReadMoves DEF ReadsSample, callers
  <1> QED
    BY <1>2, <1>3, <1>4, ReadCases DEF ReadsFlags

(* advanceTo, in its two cases.                                            *)
LEMMA AdvanceCases ==
  ASSUME Inv, NEW t \in Times, NEW key \in BOOLEAN, NEW beyond \in BOOLEAN,
         AdvanceTo(t, key, beyond), NEW n,
         n = FindSampleBefore(readPosition, length - readPosition, t, key)
  PROVE  /\ n \in -1 .. length - readPosition - 1
         /\ \/ /\ \/ readPosition = length \/ t < SampleAt(readPosition).time
                  \/ t > largestQueuedTimestampUs /\ ~beyond
                  \/ n = -1
               /\ ReturnOnly(<<"skipped", AdvanceFailed>>)
            \/ /\ ~(\/ readPosition = length \/ t < SampleAt(readPosition).time
                    \/ t > largestQueuedTimestampUs /\ ~beyond
                    \/ n = -1)
               /\ returned' = <<"skipped", n>>
               /\ MoveReadPosition(readPosition + n)
  <1>1. n \in -1 .. length - readPosition - 1
    <2>1. length - readPosition \in Nat
      BY QueueIs DEF Inv, TypeOK
    <2>2. n \in -1 .. (length - readPosition) - 1
      BY <2>1, FoundBefore
    <2> QED
      BY <2>2
  <1> DEFINE impossible == \/ readPosition = length \/ t < SampleAt(readPosition).time
                           \/ t > largestQueuedTimestampUs /\ ~beyond
  <1>2. CASE impossible \/ n = -1
    BY <1>1, <1>2, Zenon DEF AdvanceTo
  <1>3. CASE ~(impossible \/ n = -1)
    BY <1>1, <1>3, Zenon DEF AdvanceTo, Return
  <1> QED
    BY <1>2, <1>3

LEMMA AdvanceKeeps ==
  ASSUME Inv, NEW t \in Times, NEW key \in BOOLEAN, NEW beyond \in BOOLEAN,
         AdvanceTo(t, key, beyond)
  PROVE  Inv'
  <1> DEFINE n == FindSampleBefore(readPosition, length - readPosition, t, key)
  <1>1. /\ length \in Nat /\ readPosition \in 0 .. length
        /\ downstreamFormat \in Formats \cup {NoFormat}
    BY QueueIs DEF Inv, TypeOK
  <1>2. n = FindSampleBefore(readPosition, length - readPosition, t, key)
    OBVIOUS
  <1> HIDE DEF n
  <1>3. /\ n \in -1 .. length - readPosition - 1
        /\ \/ ReturnOnly(<<"skipped", AdvanceFailed>>)
           \/ n # -1 /\ MoveReadPosition(readPosition + n)
    BY <1>2, AdvanceCases
  <1>4. CASE ReturnOnly(<<"skipped", AdvanceFailed>>)
    BY <1>1, <1>4, ReadMoves DEF ReturnOnly, callers
  <1>5. CASE n # -1 /\ MoveReadPosition(readPosition + n)
    <2>1. readPosition + n \in 0 .. length
      BY <1>1, <1>3, <1>5
    <2> QED
      BY <1>1, <1>5, <2>1, ReadMoves DEF MoveReadPosition, callers
  <1> QED
    BY <1>3, <1>4, <1>5

(* The three ways to discard at the front: nothing, or the first n samples.*)
DiscardsNothing == ReturnOnly(<<"position", PositionUnset>>)

Discards == length # 0 /\ \E n \in 0 .. length : DiscardSamples(n)

LEMMA DiscardCases ==
  ASSUME Inv,
         \/ \E t \in Times, key \in BOOLEAN, stop \in BOOLEAN : DiscardTo(t, key, stop)
         \/ DiscardToRead
         \/ DiscardToEnd
  PROVE  DiscardsNothing \/ Discards
  <1>1. length \in Nat /\ readPosition \in 0 .. length
    BY QueueIs DEF Inv, TypeOK
  <1>2. ASSUME NEW t \in Times, NEW key \in BOOLEAN, NEW stop \in BOOLEAN,
               DiscardTo(t, key, stop)
        PROVE  DiscardsNothing \/ Discards
    <2> DEFINE searchLength == IF stop /\ readPosition # length THEN readPosition + 1
                                                                ELSE length
               count == FindSampleBefore(0, searchLength, t, key)
    <2>1. searchLength \in 0 .. length
      BY <1>1
    <2>2. count \in -1 .. searchLength - 1
      <3> HIDE DEF searchLength
      <3>1. searchLength \in Nat
        BY <2>1
      <3> QED
        BY <3>1, FoundBefore
    <2>3. CASE length = 0 \/ t < SampleAt(0).time \/ count = -1
      BY <1>2, <2>3, Zenon DEF DiscardTo, DiscardsNothing
    <2>4. CASE ~(length = 0 \/ t < SampleAt(0).time \/ count = -1)
      <3>1. DiscardSamples(count) /\ length # 0 /\ count # -1
        BY <1>2, <2>4, Zenon DEF DiscardTo
      <3> HIDE DEF count, searchLength
      <3>2. count \in 0 .. length
        BY <1>1, <2>1, <2>2, <3>1
      <3> QED
        BY <3>1, <3>2, Zenon DEF Discards
    <2> QED
      BY <2>3, <2>4
  <1>3. ASSUME DiscardToRead PROVE DiscardsNothing \/ Discards
    <2>1. CASE readPosition = 0
      BY <1>3, <2>1, Zenon DEF DiscardToRead, DiscardsNothing
    <2>2. CASE readPosition # 0
      <3>1. DiscardSamples(readPosition)
        BY <1>3, <2>2, Zenon DEF DiscardToRead
      <3>2. length # 0
        BY <1>1, <2>2
      <3> QED
        BY <1>1, <3>1, <3>2, Zenon DEF Discards
    <2> QED
      BY <2>1, <2>2
  <1>4. ASSUME DiscardToEnd PROVE DiscardsNothing \/ Discards
    <2>1. CASE length = 0
      BY <1>4, <2>1, Zenon DEF DiscardToEnd, DiscardsNothing
    <2>2. CASE length # 0
      <3>1. DiscardSamples(length)
        BY <1>4, <2>2, Zenon DEF DiscardToEnd
      <3>2. length \in 0 .. length
        BY <1>1
      <3> QED
        BY <2>2, <3>1, <3>2, Zenon DEF Discards
    <2> QED
      BY <2>1, <2>2
  <1> QED
    BY <1>2, <1>3, <1>4

(* The steps that only move the read position.                             *)
LEMMA SeekKeeps ==
  ASSUME Inv, AdvanceToEnd \/ Rewind \/ \E i \in 0 .. MaxIndex : SetReadPosition(i)
  PROVE  Inv'
  <1>1. /\ length \in Nat /\ readPosition \in 0 .. length /\ absoluteFirstIndex \in Nat
        /\ downstreamFormat \in Formats \cup {NoFormat}
    BY QueueIs DEF Inv, TypeOK
  <1>2. ASSUME NEW p \in 0 .. length, MoveReadPosition(p) PROVE Inv'
    BY <1>1, <1>2, ReadMoves DEF MoveReadPosition, callers
  <1>3. CASE AdvanceToEnd
    BY <1>1, <1>2, <1>3 DEF AdvanceToEnd
  <1>4. CASE Rewind
    BY <1>1, <1>2, <1>4 DEF Rewind
  <1>5. ASSUME NEW i \in 0 .. MaxIndex, SetReadPosition(i) PROVE Inv'
    <2>1. CASE i \in absoluteFirstIndex .. GetWriteIndex
      <3>1. MoveReadPosition(i - absoluteFirstIndex)
        BY <1>5, <2>1, Zenon DEF SetReadPosition
      <3>2. i - absoluteFirstIndex \in 0 .. length
        BY <1>1, <2>1 DEF GetWriteIndex
      <3> QED
        BY <1>2, <3>1, <3>2
    <2>2. CASE i \notin absoluteFirstIndex .. GetWriteIndex
      <3>1. ReturnOnly(<<"set", FALSE>>)
        BY <1>5, <2>2, Zenon DEF SetReadPosition
      <3> QED
        BY <1>1, <3>1, ReadMoves DEF ReturnOnly, callers
    <2> QED
      BY <2>1, <2>2
  <1> QED
    BY <1>3, <1>4, <1>5

LEMMA SetFormatKeeps ==
  ASSUME Inv, NEW f \in Formats \cup {NoFormat}, SetFormat(f)
  PROVE  Inv' /\ Queue' = Queue
  <1>1. /\ UNCHANGED <<storage, window, readPosition, largest, isLastSampleQueued,
                       upstreamKeyframeRequired, callers>>
        /\ upstreamFormatRequired' = (f = NoFormat)
        /\ upstreamFormat' = IF f = NoFormat THEN upstreamFormat ELSE f
    BY Zenon DEF SetFormat
  <1>2. Queue' = Queue
    BY <1>1, QueueKept DEF window
  <1>3. /\ upstreamFormat' \in Formats \cup {NoFormat} /\ upstreamFormatRequired' \in BOOLEAN
        /\ ~upstreamFormatRequired' => upstreamFormat' \in Formats
    BY <1>1 DEF Inv, TypeOK
  <1>4. TypeOK'
    BY <1>1, <1>3 DEF Inv, TypeOK, storage, window, largest, callers
  <1>5. KeyInv' /\ UpstreamFieldsAgree' /\ SamplesDisjoint'
    BY <1>1, <1>2 DEF Inv, KeyInv, UpstreamFieldsAgree, SamplesDisjoint, window, largest, callers
  <1> QED
    BY <1>2, <1>3, <1>4, <1>5 DEF Inv

LEMMA TakeBackKeeps ==
  ASSUME Inv, NEW i \in 0 .. MaxIndex, DiscardUpstreamSamples(i)
  PROVE  /\ Inv' /\ length' = i - absoluteFirstIndex /\ length' \in readPosition .. length
         /\ Queue' = SubSeq(Queue, 1, length')
         /\ totalBytesWritten' = IF length' = 0 THEN 0 ELSE EndOf(Queue[length'])
         /\ returned' = <<"position", totalBytesWritten'>>
  <1> DEFINE kept == i - absoluteFirstIndex
  <1>1. /\ length \in Nat /\ readPosition \in 0 .. length /\ absoluteFirstIndex \in Nat
        /\ \A j \in 1 .. length : EndOf(Queue[j]) \in Nat
    <2>1. ASSUME NEW j \in 1 .. length PROVE EndOf(Queue[j]) \in Nat
      <3>1. Queue[j] \in Sample
        BY QueueIs, QueueLength DEF Inv
      <3> QED
        BY <3>1, SampleType
    <2> QED
      BY <2>1, QueueIs DEF Inv, TypeOK
  <1>2. /\ KeepUpTo(i) /\ totalBytesWritten' = PositionAfter(kept)
        /\ returned' = <<"position", PositionAfter(kept)>>
    BY Zenon DEF DiscardUpstreamSamples, Return
  <1>3. kept \in readPosition .. length /\ length' = kept /\ i \in Int
    BY <1>1, <1>2 DEF KeepUpTo, GetWriteIndex
  <1>4. totalBytesWritten' = IF length' = 0 THEN 0 ELSE EndOf(Queue[length'])
    <2>1. CASE kept = 0
      BY <1>2, <1>3, <2>1 DEF PositionAfter
    <2>2. CASE kept # 0
      <3>1. kept - 1 \in 0 .. length - 1 /\ (kept - 1) + 1 = kept
        BY <1>1, <1>3, <2>2
      <3>2. SampleAt(kept - 1) = Queue[kept]
        BY <3>1, QueueIs DEF Inv
      <3> QED
        BY <1>2, <1>3, <2>2, <3>2 DEF PositionAfter
    <2> QED
      BY <2>1, <2>2
  <1>5. totalBytesWritten' \in Nat /\ (length' > 0 => EndOf(Queue[length']) <= totalBytesWritten')
    <2>1. length' # 0 => length' \in 1 .. length
      BY <1>1, <1>3
    <2> QED
      BY <1>1, <1>3, <1>4, <2>1
  <1> QED
    BY <1>2, <1>3, <1>4, <1>5, KeepUpToKeeps

LEMMA InitInv == Init => Inv
  <1> SUFFICES ASSUME Init PROVE Inv
    OBVIOUS
  <1>1. CapacityIncrement \in Nat /\ CapacityIncrement > 1
    BY Assumptions
  <1>2. TypeOK
    <2>1. slots \in [0 .. capacity - 1 -> Sample \cup {EmptySlot}]
      <3> HIDE DEF EmptySlot
      <3> QED
        BY DEF Init
    <2>2. length \in 0 .. capacity - 1 /\ relativeFirstIndex \in 0 .. capacity - 1
      BY <1>1 DEF Init
    <2>3. capacity \in Nat \ {0} /\ absoluteFirstIndex \in Nat /\ readPosition \in 0 .. length
          /\ totalBytesWritten \in Nat
      BY <1>1 DEF Init
    <2>4. /\ largestDiscardedTimestampUs \in Times \cup {MinTime}
          /\ largestQueuedTimestampUs \in Times \cup {MinTime}
          /\ isLastSampleQueued \in BOOLEAN /\ upstreamKeyframeRequired \in BOOLEAN
          /\ upstreamFormatRequired \in BOOLEAN /\ upstreamFormat \in Formats \cup {NoFormat}
          /\ downstreamFormat \in Formats \cup {NoFormat}
      BY Zenon DEF Init
    <2> QED
      BY <2>1, <2>2, <2>3, <2>4, Zenon DEF TypeOK
  <1>3. Queue = << >>
    <2>1. DOMAIN Queue = {} /\ Queue = [i \in 1 .. 0 |-> SampleAt(i - 1)]
      BY DEF Init, Queue
    <2>2. 1 .. 0 = {}
      OBVIOUS
    <2>3. Queue \in [1 .. 0 -> Sample]
      BY <2>1, <2>2
    <2>4. Queue \in Seq(Sample) /\ Len(Queue) = 0
      BY <2>3, SeqDef
    <2> QED
      BY <2>4, EmptySeq
  <1>4. Queue \in Seq(Sample) /\ length = 0
    BY <1>3 DEF Init
  <1>5. KeyInv /\ SamplesDisjoint
    BY <1>4 DEF KeyInv, SamplesDisjoint
  <1>6. UpstreamFieldsAgree
    <2>1. {Queue[i].time : i \in 1 .. length} \cup {largestDiscardedTimestampUs} = {MinTime}
      BY <1>4 DEF Init
    <2>2. Largest({MinTime}) = MinTime
      <3>1. Top(MinTime, {MinTime}) /\ {MinTime} \in SUBSET Time
        BY DEF Top, Time, MinTime
      <3> QED
        BY <3>1, TopIsLargest
    <2> QED
      BY <1>4, <2>1, <2>2 DEF UpstreamFieldsAgree, Init
  <1>7. ~upstreamFormatRequired => upstreamFormat \in Formats
    BY DEF Init
  <1> QED
    BY <1>2, <1>4, <1>5, <1>6, <1>7 DEF Inv

LEMMA NextInv == Inv /\ [Next]_vars => Inv'
  <1> SUFFICES ASSUME Inv, [Next]_vars PROVE Inv'
    OBVIOUS
  <1>1. CASE LoaderNext
    <2>1. ASSUME NEW f \in Formats \cup {NoFormat}, SetFormat(f) PROVE Inv'
      BY <2>1, SetFormatKeeps
    <2>2. ASSUME NEW o \in Offered, KeyframesSeparateTimes(o), CommitSample(o) PROVE Inv'
      BY <2>2, CommitKeeps
    <2>3. ASSUME NEW t \in Times, AttemptSplice(t) PROVE Inv'
      BY <2>3, SpliceKeeps
    <2> QED
      BY <1>1, <2>1, <2>2, <2>3, Zenon DEF LoaderNext
  <1>2. CASE ConsumerNext
    <2>1. ASSUME NEW r \in BOOLEAN, NEW l \in BOOLEAN, NEW f \in BOOLEAN, Read(r, l, f) PROVE Inv'
      BY <2>1, ReadKeeps
    <2>2. ASSUME NEW t \in Times, NEW k \in BOOLEAN, NEW b \in BOOLEAN, AdvanceTo(t, k, b)
          PROVE  Inv'
      BY <2>2, AdvanceKeeps
    <2>3. CASE AdvanceToEnd \/ Rewind \/ \E i \in 0 .. MaxIndex : SetReadPosition(i)
      BY <2>3, SeekKeeps
    <2>4. CASE \/ \E t \in Times, key \in BOOLEAN, stop \in BOOLEAN : DiscardTo(t, key, stop)
               \/ DiscardToRead
               \/ DiscardToEnd
      <3>1. CASE DiscardsNothing
        <4>1. /\ readPosition \in 0 .. length
              /\ downstreamFormat \in Formats \cup {NoFormat}
          BY DEF Inv, TypeOK
        <4> QED
          BY <3>1, <4>1, ReadMoves DEF DiscardsNothing, ReturnOnly, callers
      <3>2. CASE Discards
        BY <3>2, DiscardKeeps DEF Discards
      <3> QED
        BY <2>4, <3>1, <3>2, DiscardCases
    <2> QED
      BY <1>2, <2>1, <2>2, <2>3, <2>4, Zenon DEF ConsumerNext
  <1>3. CASE NoLoaderNext
    <2>1. ASSUME NEW b \in BOOLEAN, Reset(b) PROVE Inv'
      BY <2>1, ResetKeeps
    <2>2. ASSUME NEW i \in 0 .. MaxIndex, DiscardUpstreamSamples(i) PROVE Inv'
      BY <2>2, TakeBackKeeps
    <2> QED
      BY <1>3, <2>1, <2>2, Zenon DEF NoLoaderNext
  <1>4. CASE UNCHANGED vars
    <2>1. readPosition \in 0 .. length /\ downstreamFormat \in Formats \cup {NoFormat}
      BY DEF Inv, TypeOK
    <2> QED
      BY <1>4, <2>1, ReadMoves DEF vars, callers
  <1> QED
    BY <1>1, <1>2, <1>3, <1>4 DEF Next

(* The invariant of the specification.                                     *)
THEOREM Invariant == Spec => []Inv
  <1>1. Init => Inv
    BY InitInv
  <1>2. Inv /\ [Next]_vars => Inv'
    BY NextInv
  <1> QED
    BY <1>1, <1>2, PTL DEF Spec

(* Every field keeps its type, the read position lies in the queue, and    *)
(* the arrays always have a free slot, for any capacity they begin with.   *)
THEOREM TypeCorrect == Spec => []TypeOK
  <1>1. Inv => TypeOK
    BY DEF Inv
  <1> QED
    BY <1>1, Invariant, PTL

(* getLargestQueuedTimestampUs answers the largest timestamp of all that   *)
(* was queued and not taken back, and the queue says it holds the last     *)
(* sample only while that is its newest.                                   *)
THEOREM FieldsAgree == Spec => []UpstreamFieldsAgree
  <1>1. Inv => UpstreamFieldsAgree
    BY DEF Inv
  <1> QED
    BY <1>1, Invariant, PTL

(* No two queued samples share a byte, and all their bytes were written.   *)
THEOREM BytesDisjoint == Spec => []SamplesDisjoint
  <1>1. Inv => SamplesDisjoint
    BY DEF Inv
  <1> QED
    BY <1>1, Invariant, PTL

-----------------------------------------------------------------------------
(* The circular arrays implement the list                                  *)

LEMMA ListBasics ==
  ASSUME Inv
  PROVE  /\ Len(Queue) = length /\ length \in Nat /\ Queue \in Seq(Sample)
         /\ readPosition \in 0 .. length /\ absoluteFirstIndex \in Nat
         /\ List!Sample = Sample /\ List!MinTime = MinTime
         /\ \A i \in 1 .. length : Queue[i] \in Sample
         /\ \A i \in 0 .. length - 1 : SampleAt(i) = Queue[i + 1]
  <1>1. List!Sample = Sample /\ List!MinTime = MinTime
    BY DEF List!Sample, Sample, List!MinTime, MinTime
  <1>2. /\ Len(Queue) = length /\ length \in Nat /\ Queue \in Seq(Sample)
        /\ readPosition \in 0 .. length /\ absoluteFirstIndex \in Nat
        /\ \A i \in 0 .. length - 1 : SampleAt(i) = Queue[i + 1]
    BY QueueIs, QueueLength DEF Inv, TypeOK
  <1>3. \A i \in 1 .. length : Queue[i] \in Sample
    BY <1>2
  <1> QED
    BY <1>1, <1>2, <1>3

LEMMA SameLatest == \A T : List!Latest(T) = Largest(T)
  BY Zenon DEF List!Latest, Largest, List!MinTime, MinTime

(* A call that changes nothing the list knows of is an answer of it.       *)
LEMMA AnswersOnly ==
  ASSUME Inv, Queue' = Queue,
         UNCHANGED <<absoluteFirstIndex, readPosition, largestDiscardedTimestampUs>>,
         \/ returned' \in {NoResult, <<"nothing">>, <<"eos">>, <<"illegal">>,
                           <<"position", PositionUnset>>}
         \/ \E f \in Formats : returned' = <<"format", f>>
         \/ \E s \in Sample : returned' = <<"flags", s>>
  PROVE  List!Next
  <1>1. returned' \in List!Answers
    <2>1. List!NoResult = NoResult /\ List!PositionUnset = PositionUnset /\ List!Sample = Sample
      BY ListBasics DEF List!NoResult, NoResult, List!PositionUnset, PositionUnset
    <2>2. ASSUME NEW f \in Formats PROVE <<"format", f>> \in {"format"} \X Formats
      OBVIOUS
    <2>3. ASSUME NEW s \in Sample PROVE <<"flags", s>> \in {"flags"} \X Sample
      OBVIOUS
    <2> QED
      BY <2>1, <2>2, <2>3 DEF List!Answers
  <1>2. List!Answer
    BY <1>1 DEF List!Answer
  <1> QED
    BY <1>2 DEF List!Next

LEMMA ReturnAnswers ==
  ASSUME Inv, NEW r, ReturnOnly(r),
         \/ r \in {NoResult, <<"nothing">>, <<"eos">>, <<"illegal">>,
                   <<"position", PositionUnset>>}
         \/ \E s \in Sample : r = <<"flags", s>>
  PROVE  List!Next
  <1>1. /\ returned' = r /\ Queue' = Queue
        /\ UNCHANGED <<absoluteFirstIndex, readPosition, largestDiscardedTimestampUs>>
    BY QueueKept DEF ReturnOnly, Return, window, largest
  <1> QED
    BY <1>1, AnswersOnly

LEMMA CommitRefines ==
  ASSUME Inv, NEW o \in Offered, KeyframesSeparateTimes(o), CommitSample(o) PROVE List!Next
  <1>1. CASE Refused
    <2>1. Queue' = Queue
      BY <1>1, QueueKept DEF Refused, window
    <2>2. UNCHANGED <<absoluteFirstIndex, readPosition, largestDiscardedTimestampUs>>
      BY <1>1 DEF Refused, window, largest
    <2> QED
      BY <1>1, <2>1, <2>2, AnswersOnly DEF Refused
  <1>2. CASE Accepted(o)
    <2> DEFINE s == Committed(o)
    <2>1. Queue' = Append(Queue, s)
      BY <1>2, CommitKeeps
    <2>2. s \in Sample /\ Queue \in Seq(Sample) /\ List!Sample = Sample
      BY <1>2, CommittedType, ListBasics DEF Accepted
    <2> HIDE DEF s
    <2>3. Len(Queue') = Len(Queue) + 1 /\ Queue'[Len(Queue')] = s
      BY <2>1, <2>2
    <2>4. List!Commit
      BY <1>2, <2>1, <2>2, <2>3 DEF List!Commit, Accepted, List!NoResult, NoResult
    <2> QED
      BY <2>4 DEF List!Next
  <1> QED
    BY <1>1, <1>2, CommitCases

LEMMA ReadRefines ==
  ASSUME Inv, NEW r \in BOOLEAN, NEW l \in BOOLEAN, NEW f \in BOOLEAN, Read(r, l, f)
  PROVE  List!Next
  <1>1. ASSUME readPosition < length
        PROVE  /\ SampleAt(readPosition) = Queue[readPosition + 1]
               /\ SampleAt(readPosition) \in Sample
    <2>1. readPosition \in 0 .. length - 1 /\ readPosition + 1 \in 1 .. length
      BY <1>1, ListBasics
    <2> QED
      BY <2>1, ListBasics
  <1>2. CASE ReturnOnly(<<"eos">>) \/ ReturnOnly(<<"nothing">>) \/ ReadsFlags
    BY <1>1, <1>2, ReturnAnswers DEF ReadsFlags
  <1>3. CASE \E g : ReadsFormat(g)
    <2>1. Queue' = Queue
      BY <1>3, QueueKept DEF ReadsFormat, window
    <2>2. UNCHANGED <<absoluteFirstIndex, readPosition, largestDiscardedTimestampUs>>
      BY <1>3 DEF ReadsFormat, window, largest
    <2> QED
      BY <1>3, <2>1, <2>2, AnswersOnly DEF ReadsFormat
  <1>4. CASE ReadsSample
    <2>1. Queue' = Queue
      BY <1>4, QueueKept DEF ReadsSample, window
    <2>2. UNCHANGED <<absoluteFirstIndex, largestDiscardedTimestampUs>>
      BY <1>4 DEF ReadsSample, window, largest
    <2>3. List!Deliver
      BY <1>1, <1>4, <2>1, <2>2, ListBasics DEF ReadsSample, List!Deliver
    <2> QED
      BY <2>3 DEF List!Next
  <1> QED
    BY <1>2, <1>3, <1>4, ReadCases

LEMMA SpliceRefines == ASSUME Inv, NEW t \in Times, AttemptSplice(t) PROVE List!Next
  <1> DEFINE d == largestDiscardedTimestampUs
             latest == Largest({d, GetLargestTimestamp(readPosition)})
             free == t > d /\ \A i \in 1 .. readPosition : Queue[i].time < t
  <1>1. /\ t \in Nat /\ d \in Time /\ length \in Nat /\ readPosition \in 0 .. length
        /\ Top(latest, FirstTimes(readPosition) \cup {d}) /\ latest \in Time
        /\ \A i \in 1 .. length : Queue[i].time \in Nat
    <2>1. t \in Nat /\ length \in Nat /\ readPosition \in 0 .. length /\ length \in 0 .. length
      BY Assumptions, ListBasics
    <2>2. /\ Top(latest, FirstTimes(readPosition) \cup {d}) /\ d \in Time
          /\ latest \in Times \cup {MinTime}
      BY <2>1, LargestWith
    <2>3. latest \in Time
      <3> HIDE DEF latest
      <3> QED
        BY <2>2, Assumptions DEF Time, MinTime
    <2>4. \A i \in 1 .. length : Queue[i].time \in Nat
      BY <2>1, FirstTimesBounded
    <2> QED
      BY <2>1, <2>2, <2>3, <2>4
  <1>2. ASSUME ~(latest >= t) PROVE free
    <2> HIDE DEF latest, d
    <2>1. \A u \in FirstTimes(readPosition) \cup {d} : u <= latest
      BY <1>1 DEF Top
    <2>2. t > d
      BY <1>1, <1>2, <2>1 DEF Time
    <2>3. ASSUME NEW i \in 1 .. readPosition PROVE Queue[i].time < t
      <3>1. Queue[i].time \in FirstTimes(readPosition) /\ Queue[i].time \in Nat
        BY <1>1 DEF FirstTimes
      <3> QED
        BY <1>1, <1>2, <2>1, <3>1 DEF Time
    <2> QED
      BY <2>2, <2>3
  <1>3. ASSUME latest >= t PROVE ~free
    <2> HIDE DEF latest
    <2>1. latest \in FirstTimes(readPosition) \/ latest = d
      BY <1>1, <1>3 DEF Top, MinTime
    <2> QED
      BY <1>1, <1>3, <2>1 DEF FirstTimes, Time
  <1>4. CASE length = 0 /\ ReturnOnly(<<"splice", t > d>>)
    <2>1. /\ returned' = <<"splice", t > d>> /\ Queue' = Queue
          /\ UNCHANGED <<absoluteFirstIndex, readPosition, d>>
      BY <1>4, QueueKept DEF ReturnOnly, Return, window, largest
    <2>2. readPosition = 0 /\ Len(Queue) = 0 /\ Queue \in Seq(Sample)
      BY <1>1, <1>4, ListBasics
    <2>3. CASE t > d
      <3>1. SubSeq(Queue, 1, 0) = Queue
        BY <2>2
      <3>2. 0 \in readPosition .. Len(Queue) /\ List!Retain(0)
        BY <2>1, <2>2, <3>1 DEF List!Retain, List!First
      <3>3. \A i \in 0 + 1 .. Len(Queue) : Queue[i].time >= t
        BY <2>2
      <3>4. returned' = <<"splice", TRUE>>
        BY <2>1, <2>3
      <3>5. t > d /\ \A i \in 1 .. readPosition : Queue[i].time < t
        BY <2>2, <2>3
      <3>6. 0 > readPosition => Queue[0].time < t
        BY <2>2
      <3>7. List!Splice(t)
        BY <3>2, <3>3, <3>4, <3>5, <3>6, Zenon DEF List!Splice
      <3> QED
        BY <3>7 DEF List!Next
    <2>4. CASE ~(t > d)
      <3>1. returned' = <<"splice", FALSE>>
        <4>1. (t > d) = FALSE
          BY <1>1, <2>4 DEF Time
        <4> QED
          BY <2>1, <4>1, Zenon
      <3>2. List!Splice(t)
        BY <2>1, <2>4, <3>1, Zenon DEF List!Splice
      <3> QED
        BY <3>2 DEF List!Next
    <2> QED
      BY <2>3, <2>4
  <1>5. CASE latest >= t /\ ReturnOnly(<<"splice", FALSE>>)
    <2>1. /\ returned' = <<"splice", FALSE>> /\ Queue' = Queue
          /\ UNCHANGED <<absoluteFirstIndex, readPosition, d>>
      BY <1>5, QueueKept DEF ReturnOnly, Return, window, largest
    <2>2. List!Splice(t)
      BY <1>3, <1>5, <2>1, Zenon DEF List!Splice
    <2> QED
      BY <2>2 DEF List!Next
  <1>6. CASE ~(latest >= t) /\ Spliced(t)
    <2>1. PICK n \in readPosition .. length :
            /\ \A i \in n .. length - 1 : SampleAt(i).time >= t
            /\ n > readPosition => SampleAt(n - 1).time < t
            /\ KeepUpTo(absoluteFirstIndex + n)
            /\ UNCHANGED totalBytesWritten
            /\ returned' = <<"splice", TRUE>>
      BY <1>6 DEF Spliced
    <2>2. length' = n /\ n \in 0 .. length
      BY <1>1, <2>1, ListBasics DEF KeepUpTo, GetWriteIndex
    <2>3. Queue' = SubSeq(Queue, 1, n)
      BY <2>1, <2>2, QueueTakenBack DEF KeepUpTo
    <2>4. n \in readPosition .. Len(Queue) /\ List!Retain(n)
      BY <2>1, <2>3, ListBasics DEF KeepUpTo, List!Retain, List!First
    <2>5. ASSUME NEW i \in n + 1 .. Len(Queue) PROVE Queue[i].time >= t
      <3>1. i - 1 \in n .. length - 1 /\ i - 1 \in 0 .. length - 1 /\ (i - 1) + 1 = i
        BY <1>1, ListBasics
      <3> QED
        BY <2>1, <3>1, ListBasics
    <2>6. ASSUME n > readPosition PROVE Queue[n].time < t
      <3>1. n - 1 \in 0 .. length - 1 /\ (n - 1) + 1 = n
        BY <1>1, <2>6
      <3> QED
        BY <2>1, <2>6, <3>1, ListBasics
    <2>7. List!Splice(t)
      BY <1>2, <1>6, <2>1, <2>4, <2>5, <2>6, Zenon DEF List!Splice
    <2> QED
      BY <2>7 DEF List!Next
  <1> QED
    BY <1>4, <1>5, <1>6, SpliceCases

LEMMA AdvanceRefines ==
  ASSUME Inv, NEW t \in Times, NEW key \in BOOLEAN, NEW beyond \in BOOLEAN,
         AdvanceTo(t, key, beyond)
  PROVE  List!Next
  <1> DEFINE n == FindSampleBefore(readPosition, length - readPosition, t, key)
             rest == length - readPosition
  <1>1. /\ Len(Queue) = length /\ length \in Nat /\ readPosition \in 0 .. length /\ t \in Nat
        /\ rest \in Nat
    BY ListBasics, Assumptions
  <1>2. \A i \in 0 .. rest - 1 : SampleAt(readPosition + i) = Queue[(readPosition + i) + 1]
    <2>1. ASSUME NEW i \in 0 .. rest - 1 PROVE readPosition + i \in 0 .. length - 1
      BY <1>1
    <2> QED
      BY <2>1, ListBasics
  <1> DEFINE found == {i \in 0 .. rest - 1 :
                         /\ \A j \in 0 .. i : SampleAt(readPosition + j).time <= t
                         /\ key => SampleAt(readPosition + i).key}
             listed == {i \in 0 .. rest - 1 :
                         /\ \A j \in 0 .. i : Queue[readPosition + j + 1].time <= t
                         /\ key => Queue[readPosition + i + 1].key}
  <1>3. found = listed
    <2>1. \A i \in 0 .. rest - 1 : \A j \in 0 .. i : j \in 0 .. rest - 1
      BY <1>1
    <2>2. ASSUME NEW i \in 0 .. rest - 1 PROVE i \in found <=> i \in listed
      BY <1>2, <2>1, <2>2
    <2> QED
      BY <2>2
  <1>4. n = List!LastAtOrBefore(readPosition, Len(Queue) - readPosition, t, key)
    <2>1. n = CHOOSE m \in found \cup {-1} : \A i \in found : i <= m
      BY Zenon DEF FindSampleBefore
    <2>2. List!LastAtOrBefore(readPosition, rest, t, key) =
            CHOOSE m \in listed \cup {-1} : \A i \in listed : i <= m
      BY Zenon DEF List!LastAtOrBefore
    <2> HIDE DEF found, listed
    <2> QED
      BY <1>1, <1>3, <2>1, <2>2
  <1>5. ASSUME t < SampleAt(readPosition).time, readPosition # length PROVE n = -1
    <2>1. found = {}
      <3> SUFFICES ASSUME NEW i \in 0 .. rest - 1, i \in found PROVE FALSE
        OBVIOUS
      <3>1. 0 \in 0 .. i /\ readPosition + 0 = readPosition
        BY <1>1
      <3>2. SampleAt(readPosition + 0).time <= t
        BY <3>1
      <3>3. SampleAt(readPosition).time \in Nat
        <4>1. 0 \in 0 .. rest - 1 /\ readPosition + 1 \in 1 .. length
          BY <1>1, <1>5
        <4>2. Queue[readPosition + 1] \in Sample
          BY <4>1, ListBasics
        <4>3. SampleAt(readPosition) = Queue[readPosition + 1]
          BY <1>2, <3>1, <4>1
        <4> QED
          BY <4>2, <4>3, SampleType
      <3> QED
        BY <1>1, <1>5, <3>1, <3>2, <3>3
    <2>2. n = CHOOSE m \in found \cup {-1} : \A i \in found : i <= m
      BY Zenon DEF FindSampleBefore
    <2> HIDE DEF found
    <2> QED
      BY <2>1, <2>2
  <1>6. List!Latest(List!TimesOf(Queue) \cup {largestDiscardedTimestampUs}) =
          largestQueuedTimestampUs
    <2>1. List!TimesOf(Queue) = {Queue[i].time : i \in 1 .. length}
      BY QueueIs, Zenon DEF List!TimesOf, Inv
    <2> QED
      BY <2>1, SameLatest DEF Inv, UpstreamFieldsAgree
  <1>7. largestQueuedTimestampUs \in Int
    BY LargestQueuedIsTop DEF Time
  <1> DEFINE allowed == beyond \/ t <= largestQueuedTimestampUs
             skip == IF readPosition < length /\ allowed THEN n ELSE -1
  <1>8. /\ returned' = <<"skipped", skip>>
        /\ readPosition' = IF skip = -1 THEN readPosition ELSE readPosition + skip
        /\ Queue' = Queue /\ UNCHANGED <<absoluteFirstIndex, largestDiscardedTimestampUs>>
    <2>1. \/ /\ \/ readPosition = length \/ t < SampleAt(readPosition).time
                \/ t > largestQueuedTimestampUs /\ ~beyond
                \/ n = -1
             /\ ReturnOnly(<<"skipped", AdvanceFailed>>)
          \/ /\ ~(\/ readPosition = length \/ t < SampleAt(readPosition).time
                  \/ t > largestQueuedTimestampUs /\ ~beyond
                  \/ n = -1)
             /\ returned' = <<"skipped", n>>
             /\ MoveReadPosition(readPosition + n)
      BY AdvanceCases
    <2> HIDE DEF n
    <2>2. CASE /\ \/ readPosition = length \/ t < SampleAt(readPosition).time
                  \/ t > largestQueuedTimestampUs /\ ~beyond
                  \/ n = -1
               /\ ReturnOnly(<<"skipped", AdvanceFailed>>)
      <3>1. skip = -1
        BY <1>1, <1>5, <1>7, <2>2
      <3>2. returned' = <<"skipped", -1>> /\ readPosition' = readPosition
        BY <2>2 DEF ReturnOnly, Return, AdvanceFailed
      <3>3. Queue' = Queue /\ UNCHANGED <<absoluteFirstIndex, largestDiscardedTimestampUs>>
        BY <2>2, QueueKept DEF ReturnOnly, window, largest
      <3> QED
        BY <3>1, <3>2, <3>3
    <2>3. CASE /\ ~(\/ readPosition = length \/ t < SampleAt(readPosition).time
                    \/ t > largestQueuedTimestampUs /\ ~beyond
                    \/ n = -1)
               /\ returned' = <<"skipped", n>>
               /\ MoveReadPosition(readPosition + n)
      <3>1. skip = n /\ n # -1
        BY <1>1, <1>7, <2>3
      <3>2. readPosition' = readPosition + n
        BY <2>3 DEF MoveReadPosition
      <3>3. Queue' = Queue /\ UNCHANGED <<absoluteFirstIndex, largestDiscardedTimestampUs>>
        BY <2>3, QueueKept DEF MoveReadPosition, window, largest
      <3> QED
        BY <2>3, <3>1, <3>2, <3>3
    <2> QED
      BY <2>1, <2>2, <2>3
  <1>9. List!Advance(t, key, beyond)
    <2> HIDE DEF n
    <2> QED
      BY <1>1, <1>4, <1>6, <1>8, Zenon DEF List!Advance, List!MoveTo
  <1> QED
    BY <1>9 DEF List!Next

LEMMA SeekRefines ==
  ASSUME Inv, AdvanceToEnd \/ Rewind \/ \E i \in 0 .. MaxIndex : SetReadPosition(i)
  PROVE  List!Next
  <1>1. /\ Len(Queue) = length /\ length \in Nat /\ readPosition \in 0 .. length
        /\ absoluteFirstIndex \in Nat
    BY ListBasics
  <1>2. ASSUME NEW p, MoveReadPosition(p) PROVE List!MoveTo(p)
    BY <1>2, QueueKept DEF MoveReadPosition, List!MoveTo, window, largest
  <1>3. CASE AdvanceToEnd
    <2>1. List!AdvanceToEnd
      BY <1>1, <1>2, <1>3 DEF AdvanceToEnd, Return, List!AdvanceToEnd
    <2> QED
      BY <2>1 DEF List!Next
  <1>4. CASE Rewind
    <2>1. List!Rewind
      BY <1>2, <1>4 DEF Rewind, Return, List!Rewind, List!NoResult, NoResult
    <2> QED
      BY <2>1 DEF List!Next
  <1>5. ASSUME NEW i \in 0 .. MaxIndex, SetReadPosition(i) PROVE List!Next
    <2>1. CASE i \in absoluteFirstIndex .. GetWriteIndex
      <3>1. returned' = <<"set", TRUE>> /\ MoveReadPosition(i - absoluteFirstIndex)
        BY <1>5, <2>1, Zenon DEF SetReadPosition, Return
      <3>2. /\ i \in absoluteFirstIndex .. absoluteFirstIndex + Len(Queue)
            /\ i \in 0 .. absoluteFirstIndex + Len(Queue) + 1
        BY <1>1, <2>1 DEF GetWriteIndex
      <3>3. (i \in absoluteFirstIndex .. absoluteFirstIndex + Len(Queue)) = TRUE
        BY <3>2
      <3>4. List!SetRead(i)
        BY <1>2, <3>1, <3>2, <3>3, Zenon DEF List!SetRead
      <3> QED
        BY <3>2, <3>4, Zenon DEF List!Next
    <2>2. CASE i \notin absoluteFirstIndex .. GetWriteIndex
      <3> DEFINE j == absoluteFirstIndex + Len(Queue) + 1
      <3>1. ReturnOnly(<<"set", FALSE>>)
        BY <1>5, <2>2, Zenon DEF SetReadPosition
      <3>2. /\ returned' = <<"set", FALSE>> /\ Queue' = Queue
            /\ UNCHANGED <<absoluteFirstIndex, readPosition, largestDiscardedTimestampUs>>
        BY <3>1, QueueKept DEF ReturnOnly, Return, window, largest
      <3>3. /\ (j \in absoluteFirstIndex .. absoluteFirstIndex + Len(Queue)) = FALSE
            /\ j \in 0 .. absoluteFirstIndex + Len(Queue) + 1
        BY <1>1
      <3> HIDE DEF j
      <3>4. List!SetRead(j)
        BY <3>2, <3>3, Zenon DEF List!SetRead, List!MoveTo
      <3> QED
        BY <3>3, <3>4, Zenon DEF List!Next, j
    <2> QED
      BY <2>1, <2>2
  <1> QED
    BY <1>3, <1>4, <1>5

(* The position up to which bytes may be freed is read from a slot that    *)
(* the queue has left, when no sample stays: it still is the right one.    *)
LEMMA DiscardRefines ==
  ASSUME Inv, length # 0, NEW n \in 0 .. length, DiscardSamples(n)
  PROVE  List!Next
  <1> DEFINE d == largestDiscardedTimestampUs
             relative == relativeFirstIndex + n
             first == IF relative >= capacity THEN relative - capacity ELSE relative
             end == (IF first = 0 THEN capacity ELSE first) - 1
  <1>1. /\ Len(Queue) = length /\ length \in Nat /\ n \in Nat /\ Queue \in Seq(Sample)
        /\ readPosition \in 0 .. length /\ absoluteFirstIndex \in Nat
        /\ \A i \in 0 .. length - 1 : SampleAt(i) = Queue[i + 1]
        /\ \A i \in 1 .. length : Queue[i] \in Sample
        /\ capacity \in Nat \ {0} /\ relativeFirstIndex \in 0 .. capacity - 1
        /\ length \in 0 .. capacity - 1
    BY ListBasics DEF Inv, TypeOK
  <1>2. Queue' = SubSeq(Queue, n + 1, Len(Queue))
    BY DiscardKeeps
  <1>3. /\ absoluteFirstIndex' = absoluteFirstIndex + n
        /\ readPosition' = IF readPosition < n THEN 0 ELSE readPosition - n
        /\ d' = Largest({d, GetLargestTimestamp(n)})
    <2>1. absoluteFirstIndex' = absoluteFirstIndex + n
      BY Zenon DEF DiscardSamples
    <2>2. readPosition' = IF readPosition < n THEN 0 ELSE readPosition - n
      BY Zenon DEF DiscardSamples
    <2>3. d' = Largest({d, GetLargestTimestamp(n)})
      BY Zenon DEF DiscardSamples
    <2> HIDE DEF d
    <2> QED
      BY <2>1, <2>2, <2>3
  <1>4. returned' = <<"position", IF length = n THEN EndOf(slots[end]) ELSE slots[first].offset>>
    BY Zenon DEF DiscardSamples
  <1>5. returned' = <<"position", IF n < Len(Queue) THEN Queue[n + 1].offset
                                                    ELSE List!End(Queue[n])>>
    <2>1. CASE n < length
      <3>1. n \in 0 .. length - 1 /\ length # n
        BY <1>1, <2>1
      <3>2. first = GetRelativeIndex(n)
        BY <1>1 DEF GetRelativeIndex
      <3> HIDE DEF first, end
      <3>3. slots[first] = Queue[n + 1]
        BY <1>1, <3>1, <3>2 DEF SampleAt
      <3>4. returned' = <<"position", Queue[n + 1].offset>>
        BY <1>4, <3>1, <3>3, Zenon
      <3> QED
        BY <1>1, <2>1, <3>4
    <2>2. CASE ~(n < length)
      <3>1. n = length /\ n - 1 \in 0 .. length - 1 /\ (n - 1) + 1 = n
        BY <1>1, <2>2
      <3>2. end = GetRelativeIndex(n - 1)
        BY <1>1, <3>1 DEF GetRelativeIndex
      <3> HIDE DEF first, end
      <3>3. slots[end] = Queue[n]
        BY <1>1, <3>1, <3>2 DEF SampleAt
      <3>4. EndOf(Queue[n]) = List!End(Queue[n])
        BY DEF EndOf, List!End
      <3>5. returned' = <<"position", List!End(Queue[n])>>
        BY <1>4, <3>1, <3>3, <3>4, Zenon
      <3> QED
        BY <1>1, <2>2, <3>5
    <2> QED
      BY <2>1, <2>2
  <1>6. d' = List!Latest(List!TimesOf(List!First(Queue, n)) \cup {d})
    <2>1. /\ Top(d', FirstTimes(n) \cup {d}) /\ FirstTimes(n) \in SUBSET Time /\ d \in Time
      BY <1>3, LargestWith, FirstTimesBounded
    <2> HIDE DEF d
    <2>2. FirstTimes(n) \cup {d} \in SUBSET Time
      BY <2>1
    <2>3. d' = Largest(FirstTimes(n) \cup {d})
      BY <2>1, <2>2, TopIsLargest
    <2>4. List!TimesOf(List!First(Queue, n)) = FirstTimes(n)
      <3> DEFINE s == SubSeq(Queue, 1, n)
      <3>1. DOMAIN s = 1 .. n /\ \A i \in 1 .. n : s[i] = Queue[i]
        BY <1>1, Prefix
      <3> HIDE DEF s
      <3>2. {s[i].time : i \in DOMAIN s} = {Queue[i].time : i \in 1 .. n}
        BY <3>1
      <3> QED
        BY <3>2 DEF s, List!TimesOf, List!First, FirstTimes
    <2> QED
      BY <2>3, <2>4, SameLatest
  <1>7. readPosition' = IF readPosition > n THEN readPosition - n ELSE 0
    BY <1>1, <1>3
  <1>8. Queue # << >> /\ n \in 0 .. Len(Queue)
    BY <1>1
  <1>9. List!Discard(n)
    BY <1>2, <1>3, <1>5, <1>6, <1>7, <1>8, Zenon DEF List!Discard, List!Rest
  <1> QED
    BY <1>8, <1>9, Zenon DEF List!Next

LEMMA ResetRefines == ASSUME Inv, NEW b \in BOOLEAN, Reset(b) PROVE List!Next
  <1>1. /\ length' = 0 /\ absoluteFirstIndex' = 0 /\ readPosition' = 0
        /\ largestDiscardedTimestampUs' = MinTime /\ returned' = NoResult
    BY Zenon DEF Reset, Return
  <1>2. Queue' = << >>
    <2> DEFINE e == << >>
    <2>1. e \in Seq(Sample) /\ Len(e) = 0 /\ \A i \in 1 .. 0 : SampleAt(i - 1)' = e[i]
      OBVIOUS
    <2> HIDE DEF e
    <2>2. Queue' = e
      BY <1>1, <2>1, QueueHolds
    <2> QED
      BY <2>2 DEF e
  <1>3. List!Clear
    BY <1>1, <1>2 DEF List!Clear, List!MinTime, MinTime, List!NoResult, NoResult
  <1> QED
    BY <1>3 DEF List!Next

LEMMA TakeBackRefines ==
  ASSUME Inv, NEW i \in 0 .. MaxIndex, DiscardUpstreamSamples(i) PROVE List!Next
  <1> DEFINE n == length'
  <1>1. /\ n \in readPosition .. length /\ Queue' = SubSeq(Queue, 1, n)
        /\ totalBytesWritten' = IF n = 0 THEN 0 ELSE EndOf(Queue[n])
        /\ returned' = <<"position", totalBytesWritten'>>
    BY TakeBackKeeps
  <1>2. UNCHANGED <<absoluteFirstIndex, readPosition, largestDiscardedTimestampUs>>
    BY Zenon DEF DiscardUpstreamSamples, KeepUpTo
  <1>3. n \in readPosition .. Len(Queue) /\ n \in 0 .. Len(Queue)
    BY <1>1, ListBasics
  <1> HIDE DEF n
  <1>4. List!Retain(n)
    BY <1>1, <1>2, <1>3, Zenon DEF List!Retain, List!First
  <1>5. EndOf(Queue[n]) = List!End(Queue[n])
    BY Zenon DEF EndOf, List!End
  <1>6. returned' = <<"position", IF n = 0 THEN 0 ELSE List!End(Queue[n])>>
    BY <1>1, <1>5, Zenon
  <1>7. List!TakeBack(n)
    BY <1>4, <1>6, Zenon DEF List!TakeBack
  <1> QED
    BY <1>3, <1>7, Zenon DEF List!Next

LEMMA InitRefines == ASSUME Init PROVE List!Init
  <1>1. Inv /\ length = 0
    BY InitInv DEF Init
  <1>2. Queue = << >>
    BY <1>1, ListBasics, EmptySeq
  <1> QED
    BY <1>2 DEF Init, List!Init, List!MinTime, MinTime, List!NoResult, NoResult

(* Every step is a step of the list, or leaves it as it is.                *)
LEMMA StepRefines == ASSUME Inv, [Next]_vars PROVE [List!Next]_List!vars
  <1>1. CASE LoaderNext
    <2>1. ASSUME NEW f \in Formats \cup {NoFormat}, SetFormat(f) PROVE List!Next
      <3>1. Queue' = Queue
        BY <2>1, SetFormatKeeps
      <3>2. /\ returned' = NoResult
            /\ UNCHANGED <<absoluteFirstIndex, readPosition, largestDiscardedTimestampUs>>
        BY <2>1 DEF SetFormat, Return, window, largest
      <3> QED
        BY <3>1, <3>2, AnswersOnly
    <2>2. ASSUME NEW o \in Offered, KeyframesSeparateTimes(o), CommitSample(o) PROVE List!Next
      BY <2>2, CommitRefines
    <2>3. ASSUME NEW t \in Times, AttemptSplice(t) PROVE List!Next
      BY <2>3, SpliceRefines
    <2> QED
      BY <1>1, <2>1, <2>2, <2>3, Zenon DEF LoaderNext
  <1>2. CASE ConsumerNext
    <2>1. ASSUME NEW r \in BOOLEAN, NEW l \in BOOLEAN, NEW f \in BOOLEAN, Read(r, l, f)
          PROVE  List!Next
      BY <2>1, ReadRefines
    <2>2. ASSUME NEW t \in Times, NEW k \in BOOLEAN, NEW b \in BOOLEAN, AdvanceTo(t, k, b)
          PROVE  List!Next
      BY <2>2, AdvanceRefines
    <2>3. CASE AdvanceToEnd \/ Rewind \/ \E i \in 0 .. MaxIndex : SetReadPosition(i)
      BY <2>3, SeekRefines
    <2>4. CASE \/ \E t \in Times, key \in BOOLEAN, stop \in BOOLEAN : DiscardTo(t, key, stop)
               \/ DiscardToRead
               \/ DiscardToEnd
      <3>1. CASE DiscardsNothing
        BY <3>1, ReturnAnswers DEF DiscardsNothing
      <3>2. CASE Discards
        BY <3>2, DiscardRefines DEF Discards
      <3> QED
        BY <2>4, <3>1, <3>2, DiscardCases
    <2> QED
      BY <1>2, <2>1, <2>2, <2>3, <2>4, Zenon DEF ConsumerNext
  <1>3. CASE NoLoaderNext
    <2>1. ASSUME NEW b \in BOOLEAN, Reset(b) PROVE List!Next
      BY <2>1, ResetRefines
    <2>2. ASSUME NEW i \in 0 .. MaxIndex, DiscardUpstreamSamples(i) PROVE List!Next
      BY <2>2, TakeBackRefines
    <2> QED
      BY <1>3, <2>1, <2>2, Zenon DEF NoLoaderNext
  <1>4. CASE UNCHANGED vars
    <2>1. Queue' = Queue
      BY <1>4, QueueKept DEF vars, window
    <2> QED
      BY <1>4, <2>1 DEF vars, window, largest, List!vars
  <1> QED
    BY <1>1, <1>2, <1>3, <1>4 DEF Next

(* Whatever the capacity, the arrays that wrap and grow behave as one      *)
(* list: every method answers, and changes, what it would of a list.       *)
THEOREM ArraysAreAList == Spec => ImplementsSampleList
  <1>1. Init => List!Init
    BY InitRefines
  <1>2. Inv /\ [Next]_vars => [List!Next]_List!vars
    BY StepRefines
  <1> QED
    BY <1>1, <1>2, Invariant, PTL DEF Spec, ImplementsSampleList, List!Spec
=============================================================================
