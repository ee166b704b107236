--------------------------- MODULE DeliveryProofs ---------------------------
(***************************************************************************)
(* Proofs about DecodeEncode, for any tracks, times and sizes: that no     *)
(* sample is lost, doubled or overtaken on its way from the queue to the   *)
(* muxer input, and that nothing is overtaken by the end of its stream.    *)
(***************************************************************************)
EXTENDS DecodeEncodeProofs, SequenceTheorems

(* An end is nowhere in a sequence but at its end, and only if that is due.*)
EndsWell(end, buffers, due) ==
  \A i \in 1 .. Len(buffers) : buffers[i] = end => i = Len(buffers) /\ due

Before(K, L) == \A k \in K, l \in L : k < l

-----------------------------------------------------------------------------
(* Sequences of buffers.                                                   *)

LEMMA HeadMoves ==
  ASSUME NEW S, NEW s \in Seq(S), NEW t \in Seq(S), t # << >>
  PROVE  /\ Append(s, Head(t)) \in Seq(S) /\ Tail(t) \in Seq(S)
         /\ Append(s, Head(t)) \o Tail(t) = s \o t
  <1>1. Head(t) \in S /\ Tail(t) \in Seq(S)
    BY HeadTailProperties
  <1>2. Append(s, Head(t)) = s \o <<Head(t)>> /\ <<Head(t)>> \in Seq(S)
    BY <1>1, AppendIsConcat
  <1>3. <<Head(t)>> \o Tail(t) = t
    OBVIOUS
  <1> QED
    BY <1>1, <1>2, <1>3, ConcatAssociative, AppendProperties

(* Where an element of a concatenation comes from.                         *)
LEMMA ConcatIndices ==
  ASSUME NEW S, NEW s \in Seq(S), NEW t \in Seq(S)
  PROVE  /\ Len(s) \in Nat /\ Len(t) \in Nat
         /\ DOMAIN s = 1 .. Len(s) /\ DOMAIN t = 1 .. Len(t)
         /\ s \o t \in Seq(S)
         /\ Len(s \o t) = Len(s) + Len(t)
         /\ DOMAIN (s \o t) = 1 .. Len(s) + Len(t)
         /\ \A i \in 1 .. Len(s) : i \in DOMAIN (s \o t) /\ (s \o t)[i] = s[i]
         /\ \A i \in 1 .. Len(t) :
              Len(s) + i \in DOMAIN (s \o t) /\ (s \o t)[Len(s) + i] = t[i]
         /\ \A i \in DOMAIN (s \o t) :
              i \in 1 .. Len(s) \/ (i - Len(s) \in 1 .. Len(t) /\ i = Len(s) + (i - Len(s)))
  <1>1. /\ Len(s) \in Nat /\ Len(t) \in Nat
        /\ DOMAIN s = 1 .. Len(s) /\ DOMAIN t = 1 .. Len(t)
        /\ s \o t \in Seq(S) /\ Len(s \o t) = Len(s) + Len(t)
        /\ DOMAIN (s \o t) = 1 .. Len(s) + Len(t)
    BY LenProperties, ConcatProperties
  <1>2. \A i \in 1 .. Len(s) : i \in DOMAIN (s \o t) /\ (s \o t)[i] = s[i]
    BY <1>1, ConcatProperties
  <1>3. \A i \in 1 .. Len(t) :
          Len(s) + i \in DOMAIN (s \o t) /\ (s \o t)[Len(s) + i] = t[i]
    BY <1>1, ConcatProperties
  <1>4. \A i \in DOMAIN (s \o t) :
          i \in 1 .. Len(s) \/ (i - Len(s) \in 1 .. Len(t) /\ i = Len(s) + (i - Len(s)))
    BY <1>1
  <1> QED
    BY <1>1, <1>2, <1>3, <1>4

LEMMA AllDataConcat ==
  ASSUME NEW S, NEW s \in Seq(S), NEW t \in Seq(S)
  PROVE  AllData(s \o t) = AllData(s) \cup AllData(t)
  <1>1. AllData(s) \subseteq AllData(s \o t)
    BY ConcatIndices DEF AllData
  <1>2. AllData(t) \subseteq AllData(s \o t)
    <2>1. ASSUME NEW i \in DOMAIN t PROVE Data(t[i]) \subseteq AllData(s \o t)
      <3>1. Len(s) + i \in DOMAIN (s \o t) /\ (s \o t)[Len(s) + i] = t[i]
        BY ConcatIndices
      <3> QED
        BY <3>1 DEF AllData
    <2> QED
      BY <2>1 DEF AllData
  <1>3. ASSUME NEW i \in DOMAIN (s \o t)
        PROVE  Data((s \o t)[i]) \subseteq AllData(s) \cup AllData(t)
    <2>1. CASE i \in 1 .. Len(s)
      BY <2>1, ConcatIndices DEF AllData
    <2>2. CASE i - Len(s) \in 1 .. Len(t) /\ i = Len(s) + (i - Len(s))
      <3>1. (s \o t)[i] = t[i - Len(s)] /\ i - Len(s) \in DOMAIN t
        BY <2>2, ConcatIndices
      <3> QED
        BY <3>1 DEF AllData
    <2> QED
      BY <2>1, <2>2, ConcatIndices
  <1>4. AllData(s \o t) \subseteq AllData(s) \cup AllData(t)
    BY <1>3 DEF AllData
  <1> QED
    BY <1>1, <1>2, <1>4

LEMMA InOrderConcat ==
  ASSUME NEW S, NEW s \in Seq(S), NEW t \in Seq(S)
  PROVE  InOrder(s \o t) <=> InOrder(s) /\ InOrder(t) /\ Before(AllData(s), AllData(t))
  <1> DEFINE n == Len(s)
             all == s \o t
  <1>1. /\ n \in Nat /\ DOMAIN s = 1 .. n /\ DOMAIN t = 1 .. Len(t) /\ Len(t) \in Nat
        /\ \A i \in DOMAIN s : i \in DOMAIN all /\ all[i] = s[i]
        /\ \A i \in DOMAIN t : n + i \in DOMAIN all /\ all[n + i] = t[i]
        /\ \A i \in DOMAIN all : i \in DOMAIN s \/ (i - n \in DOMAIN t /\ i = n + (i - n))
    BY ConcatIndices
  <1> HIDE DEF n, all
  <1>2. ASSUME InOrder(all)
        PROVE  InOrder(s) /\ InOrder(t) /\ Before(AllData(s), AllData(t))
    <2>1. InOrder(s)
      BY <1>1, <1>2 DEF InOrder
    <2>2. InOrder(t)
      <3>1. ASSUME NEW i \in DOMAIN t PROVE Increasing(t[i])
        BY <1>1, <1>2 DEF InOrder
      <3>2. ASSUME NEW i \in DOMAIN t, NEW j \in DOMAIN t, i < j,
                   NEW k \in Data(t[i]), NEW l \in Data(t[j])
            PROVE  k < l
        <4>1. n + i < n + j
          BY <1>1, <3>2
        <4>2. n + i \in DOMAIN all /\ n + j \in DOMAIN all
              /\ all[n + i] = t[i] /\ all[n + j] = t[j]
          BY <1>1
        <4> QED
          BY <1>2, <4>1, <4>2 DEF InOrder
      <3> QED
        BY <3>1, <3>2 DEF InOrder
    <2>3. ASSUME NEW k \in AllData(s), NEW l \in AllData(t) PROVE k < l
      <3>1. PICK i \in DOMAIN s : k \in Data(s[i])
        BY DEF AllData
      <3>2. PICK j \in DOMAIN t : l \in Data(t[j])
        BY DEF AllData
      <3>3. i \in DOMAIN all /\ all[i] = s[i] /\ n + j \in DOMAIN all /\ all[n + j] = t[j]
        BY <1>1
      <3>4. i < n + j
        BY <1>1
      <3> QED
        BY <1>2, <3>1, <3>2, <3>3, <3>4 DEF InOrder
    <2> QED
      BY <2>1, <2>2, <2>3 DEF Before
  <1>3. ASSUME InOrder(s), InOrder(t), Before(AllData(s), AllData(t))
        PROVE  InOrder(all)
    <2>1. ASSUME NEW i \in DOMAIN all PROVE Increasing(all[i])
      <3>1. CASE i \in DOMAIN s
        BY <1>1, <1>3, <3>1 DEF InOrder
      <3>2. CASE i - n \in DOMAIN t /\ i = n + (i - n)
        <4>1. all[i] = t[i - n]
          BY <1>1, <3>2
        <4> QED
          BY <1>3, <3>2, <4>1 DEF InOrder
      <3> QED
        BY <1>1, <3>1, <3>2
    <2>2. ASSUME NEW i \in DOMAIN all, NEW j \in DOMAIN all, i < j,
                 NEW k \in Data(all[i]), NEW l \in Data(all[j])
          PROVE  k < l
      <3>1. CASE i \in DOMAIN s /\ j \in DOMAIN s
        BY <1>1, <1>3, <2>2, <3>1 DEF InOrder
      <3>2. CASE i \in DOMAIN s /\ j - n \in DOMAIN t /\ j = n + (j - n)
        <4>1. all[i] = s[i] /\ all[j] = t[j - n]
          BY <1>1, <3>2
        <4>2. k \in AllData(s) /\ l \in AllData(t)
          BY <2>2, <3>2, <4>1 DEF AllData
        <4> QED
          BY <1>3, <4>2 DEF Before
      <3>3. CASE /\ i - n \in DOMAIN t /\ i = n + (i - n)
                 /\ j - n \in DOMAIN t /\ j = n + (j - n)
        <4>1. all[i] = t[i - n] /\ all[j] = t[j - n]
          BY <1>1, <3>3
        <4>2. i - n < j - n
          BY <1>1, <2>2, <3>3
        <4> QED
          BY <1>3, <2>2, <3>3, <4>1, <4>2 DEF InOrder
      <3>4. ~(j \in DOMAIN s /\ i - n \in DOMAIN t /\ i = n + (i - n))
        BY <1>1, <2>2
      <3> QED
        BY <1>1, <3>1, <3>2, <3>3, <3>4
    <2> QED
      BY <2>1, <2>2 DEF InOrder
  <1> QED
    BY <1>2, <1>3 DEF all

(* Concatenation under a name of its own: the provers then take it as it   *)
(* is, and do not expand it element by element.                            *)
Cat(s, t) == s \o t

LEMMA CatData ==
  ASSUME NEW S, NEW s \in Seq(S), NEW t \in Seq(S)
  PROVE  AllData(Cat(s, t)) = AllData(s) \cup AllData(t)
  BY AllDataConcat DEF Cat

LEMMA CatInOrder ==
  ASSUME NEW S, NEW s \in Seq(S), NEW t \in Seq(S)
  PROVE  InOrder(Cat(s, t)) <=> InOrder(s) /\ InOrder(t) /\ Before(AllData(s), AllData(t))
  BY InOrderConcat DEF Cat

LEMMA DataOfEmpty ==
  /\ Data(<< >>) = {} /\ Data(<<NoData>>) = {}
  /\ \A k \in Nat \ {0} : Data(<<k>>) = {k}
  /\ Increasing(<< >>) /\ \A k : Increasing(<<k>>)
  /\ AllData(<< >>) = {} /\ InOrder(<< >>)
  <1>1. Data(<< >>) = {}
    BY DEF Data, Range
  <1>2. \A k : Data(<<k>>) = {k} \ {0}
    BY DEF Data, Range, NoData
  <1>3. Increasing(<< >>) /\ \A k : Increasing(<<k>>)
    BY DEF Increasing
  <1>4. AllData(<< >>) = {} /\ InOrder(<< >>)
    BY DEF AllData, InOrder
  <1> QED
    BY <1>1, <1>2, <1>3, <1>4 DEF NoData

LEMMA OneBuffer ==
  ASSUME NEW b
  PROVE  AllData(<<b>>) = Data(b) /\ (InOrder(<<b>>) <=> Increasing(b))
  <1>1. DOMAIN <<b>> = {1} /\ <<b>>[1] = b
    OBVIOUS
  <1>2. AllData(<<b>>) = Data(b)
    BY <1>1 DEF AllData
  <1>3. InOrder(<<b>>) <=> Increasing(b)
    BY <1>1 DEF InOrder
  <1> QED
    BY <1>2, <1>3

LEMMA BuffersAppend ==
  ASSUME NEW S, NEW s \in Seq(S), NEW b \in S
  PROVE  /\ AllData(Append(s, b)) = AllData(s) \cup Data(b)
         /\ InOrder(Append(s, b)) <=>
              InOrder(s) /\ Increasing(b) /\ Before(AllData(s), Data(b))
  <1> DEFINE last == <<b>>
  <1>1. Append(s, b) = Cat(s, last) /\ last \in Seq(S)
    BY AppendIsConcat DEF Cat
  <1>2. AllData(last) = Data(b) /\ (InOrder(last) <=> Increasing(b))
    BY OneBuffer
  <1> HIDE DEF last
  <1>3. AllData(Cat(s, last)) = AllData(s) \cup AllData(last)
    BY <1>1, CatData
  <1>4. InOrder(Cat(s, last)) <=> InOrder(s) /\ InOrder(last) /\ Before(AllData(s), AllData(last))
    BY <1>1, CatInOrder
  <1> QED
    BY <1>1, <1>2, <1>3, <1>4

LEMMA BuffersTail ==
  ASSUME NEW S, NEW s \in Seq(S), s # << >>
  PROVE  /\ AllData(s) = Data(Head(s)) \cup AllData(Tail(s))
         /\ InOrder(s) <=> /\ Increasing(Head(s)) /\ InOrder(Tail(s))
                           /\ Before(Data(Head(s)), AllData(Tail(s)))
  <1> DEFINE first == <<Head(s)>>
             rest == Tail(s)
  <1>1. s = Cat(first, rest) /\ first \in Seq(S) /\ rest \in Seq(S)
    BY DEF Cat
  <1>2. AllData(first) = Data(Head(s)) /\ (InOrder(first) <=> Increasing(Head(s)))
    BY OneBuffer
  <1> HIDE DEF first, rest
  <1>3. AllData(Cat(first, rest)) = AllData(first) \cup AllData(rest)
    BY <1>1, CatData
  <1>4. InOrder(Cat(first, rest)) <=>
          InOrder(first) /\ InOrder(rest) /\ Before(AllData(first), AllData(rest))
    BY <1>1, CatInOrder
  <1> QED
    BY <1>1, <1>2, <1>3, <1>4 DEF rest

(* Leaving a buffer out keeps the rest in order.                           *)
LEMMA InOrderDrop ==
  ASSUME NEW S, NEW s \in Seq(S), NEW t \in Seq(S), t # << >>, InOrder(Cat(s, t))
  PROVE  InOrder(Cat(s, Tail(t))) /\ AllData(Cat(s, Tail(t))) \subseteq AllData(Cat(s, t))
  <1> DEFINE rest == Tail(t)
  <1>1. rest \in Seq(S)
    BY HeadTailProperties
  <1>2. InOrder(s) /\ InOrder(t) /\ Before(AllData(s), AllData(t))
    BY CatInOrder
  <1>3. AllData(rest) \subseteq AllData(t) /\ InOrder(rest)
    BY <1>2, BuffersTail
  <1> HIDE DEF rest
  <1>4. InOrder(Cat(s, rest))
    <2>1. Before(AllData(s), AllData(rest))
      BY <1>2, <1>3 DEF Before
    <2> QED
      BY <1>1, <1>2, <1>3, <2>1, CatInOrder
  <1>5. AllData(Cat(s, rest)) = AllData(s) \cup AllData(rest)
    BY <1>1, CatData
  <1>6. AllData(Cat(s, t)) = AllData(s) \cup AllData(t)
    BY CatData
  <1> QED
    BY <1>3, <1>4, <1>5, <1>6 DEF rest

(* An end at the head of a sequence, taken off, left out, and put behind.  *)
LEMMA EndsTail ==
  ASSUME NEW S, NEW end, NEW q \in Seq(S), q # << >>, NEW s, EndsWell(end, q, s)
  PROVE  EndsWell(end, Tail(q), s)
  <1> DEFINE r == Tail(q)
             n == Len(q)
  <1>1. n \in Nat /\ Len(r) = n - 1 /\ \A i \in 1 .. Len(r) : r[i] = q[i + 1]
    BY HeadTailProperties, EmptySeq
  <1>2. \A i \in 1 .. n : q[i] = end => i = n /\ s
    BY DEF EndsWell
  <1> HIDE DEF r, n
  <1>3. ASSUME NEW i \in 1 .. Len(r), r[i] = end
        PROVE  i = Len(r) /\ s
    <2>1. i + 1 \in 1 .. n /\ q[i + 1] = end
      BY <1>1, <1>3
    <2>2. i + 1 = n /\ s
      BY <1>2, <2>1
    <2> QED
      BY <1>1, <2>2
  <1> QED
    BY <1>3 DEF EndsWell, r

LEMMA EndsHere ==
  ASSUME NEW S, NEW end, NEW q \in Seq(S), q # << >>, NEW s, EndsWell(end, q, s),
         Head(q) = end
  PROVE  Tail(q) = << >>
  <1> DEFINE r == Tail(q)
             n == Len(q)
  <1>1. n \in Nat /\ n # 0 /\ Head(q) = q[1] /\ Len(r) = n - 1 /\ r \in Seq(S)
    BY HeadTailProperties, EmptySeq
  <1>2. \A i \in 1 .. n : q[i] = end => i = n /\ s
    BY DEF EndsWell
  <1>3. Len(r) = 0 => r = << >>
    BY <1>1, EmptySeq
  <1> HIDE DEF r, n
  <1>4. 1 \in 1 .. n
    BY <1>1
  <1>5. n = 1 /\ s
    BY <1>1, <1>2, <1>4
  <1>6. r = << >>
    BY <1>1, <1>3, <1>5
  <1> QED
    BY <1>6 DEF r

LEMMA EndsDue ==
  ASSUME NEW S, NEW end, NEW q \in Seq(S), q # << >>, NEW s, EndsWell(end, q, s),
         Head(q) = end
  PROVE  s
  <1>1. 1 \in 1 .. Len(q) /\ q[1] = end
    BY EmptySeq, LenProperties
  <1> QED
    BY <1>1 DEF EndsWell

LEMMA EndsDrop ==
  ASSUME NEW S, NEW end, NEW p \in Seq(S), NEW q \in Seq(S), q # << >>,
         NEW s, EndsWell(end, p \o q, s)
  PROVE  /\ EndsWell(end, p \o Tail(q), s)
         /\ EndsWell(end, q, s)
  <1>1. EndsWell(end, q, s)
    <2>1. ASSUME NEW i \in 1 .. Len(q), q[i] = end PROVE i = Len(q) /\ s
      <3>1. /\ Len(p) + i \in 1 .. Len(p \o q) /\ (p \o q)[Len(p) + i] = end
            /\ Len(p \o q) = Len(p) + Len(q)
        BY <2>1, ConcatIndices
      <3>2. Len(p) + i = Len(p \o q) /\ s
        BY <3>1 DEF EndsWell
      <3> QED
        BY <3>1, <3>2, ConcatIndices
    <2> QED
      BY <2>1 DEF EndsWell
  <1>2. EndsWell(end, Tail(q), s)
    BY <1>1, EndsTail
  <1>3. Tail(q) \in Seq(S) /\ Len(q) \in Nat \ {0}
    BY HeadTailProperties, EmptySeq
  <1>4. \A i \in 1 .. Len(p) : p[i] # end
    <2>1. ASSUME NEW i \in 1 .. Len(p), p[i] = end PROVE FALSE
      <3>1. i \in 1 .. Len(p \o q) /\ (p \o q)[i] = end
        BY <2>1, ConcatIndices
      <3>2. i = Len(p) + Len(q)
        BY <3>1, ConcatIndices DEF EndsWell
      <3> QED
        BY <1>3, <3>2, ConcatIndices
    <2> QED
      BY <2>1
  <1>5. ASSUME NEW i \in 1 .. Len(p \o Tail(q)), (p \o Tail(q))[i] = end
        PROVE  i = Len(p \o Tail(q)) /\ s
    <2> DEFINE r == Tail(q)
    <2>1. /\ Len(p) \in Nat /\ Len(r) \in Nat /\ Len(p \o r) = Len(p) + Len(r)
          /\ \A j \in 1 .. Len(p) : (p \o r)[j] = p[j]
          /\ \A j \in 1 .. Len(r) : (p \o r)[Len(p) + j] = r[j]
          /\ i \in 1 .. Len(p) \/ (i - Len(p) \in 1 .. Len(r) /\ i = Len(p) + (i - Len(p)))
      BY <1>3, ConcatIndices
    <2> HIDE DEF r
    <2>2. i - Len(p) \in 1 .. Len(r) /\ r[i - Len(p)] = end
      BY <1>4, <1>5, <2>1 DEF r
    <2>3. i - Len(p) = Len(r) /\ s
      BY <1>2, <2>2 DEF EndsWell, r
    <2> QED
      BY <2>1, <2>3 DEF r
  <1> QED
    BY <1>1, <1>5 DEF EndsWell

LEMMA EndsAppend ==
  ASSUME NEW S, NEW end, NEW q \in Seq(S), EndsWell(end, q, FALSE), NEW b \in S
  PROVE  EndsWell(end, Append(q, b), TRUE) /\ (b # end => EndsWell(end, Append(q, b), FALSE))
  BY AppendProperties, LenProperties DEF EndsWell

LEMMA CatFacts ==
  ASSUME NEW S, NEW s \in Seq(S), NEW t \in Seq(S)
  PROVE  /\ Cat(s, t) \in Seq(S)
         /\ Cat(s, t) = << >> <=> s = << >> /\ t = << >>
         /\ s = << >> => Cat(s, t) = t
         /\ t = << >> => Cat(s, t) = s
         /\ t # << >> => Cat(Append(s, Head(t)), Tail(t)) = Cat(s, t)
         /\ s # << >> => /\ Tail(Cat(s, t)) = Cat(Tail(s), t)
                         /\ Head(Cat(s, t)) = Head(s)
  <1>1. Cat(s, t) \in Seq(S)
    BY DEF Cat
  <1>2. Cat(s, t) = << >> <=> s = << >> /\ t = << >>
    BY ConcatEqualIffEmpty DEF Cat
  <1>3. (s = << >> => Cat(s, t) = t) /\ (t = << >> => Cat(s, t) = s)
    BY ConcatEmptySeq DEF Cat
  <1>4. ASSUME t # << >> PROVE Cat(Append(s, Head(t)), Tail(t)) = Cat(s, t)
    BY <1>4, HeadMoves DEF Cat
  <1>5. ASSUME s # << >>
        PROVE  Tail(Cat(s, t)) = Cat(Tail(s), t) /\ Head(Cat(s, t)) = Head(s)
    BY <1>5 DEF Cat
  <1> QED
    BY <1>1, <1>2, <1>3, <1>4, <1>5

LEMMA CatAssociative ==
  ASSUME NEW S, NEW s \in Seq(S), NEW t \in Seq(S), NEW u \in Seq(S)
  PROVE  Cat(Cat(s, t), u) = Cat(s, Cat(t, u))
  BY ConcatAssociative DEF Cat

LEMMA CatAppend ==
  ASSUME NEW S, NEW s \in Seq(S), NEW t \in Seq(S), NEW b \in S
  PROVE  Cat(s, Append(t, b)) = Append(Cat(s, t), b)
  BY DEF Cat

LEMMA CatMove ==
  ASSUME NEW S, NEW s \in Seq(S), NEW t \in Seq(S), t # << >>
  PROVE  Cat(Append(s, Head(t)), Tail(t)) = Cat(s, t)
  BY CatFacts

LEMMA CatTail ==
  ASSUME NEW S, NEW s \in Seq(S), NEW t \in Seq(S), s # << >>
  PROVE  Tail(Cat(s, t)) = Cat(Tail(s), t) /\ Head(Cat(s, t)) = Head(s)
  BY DEF Cat

LEMMA CatSome ==
  ASSUME NEW S, NEW s \in Seq(S), NEW t \in Seq(S)
  PROVE  /\ Cat(s, t) \in Seq(S)
         /\ s # << >> => Cat(s, t) # << >>
         /\ Cat(s, t) = << >> => s = << >> /\ t = << >>
  BY CatFacts

(* Four queues, one behind the other.                                      *)
Queues(S, e, p, o, i) == e \in Seq(S) /\ p \in Seq(S) /\ o \in Seq(S) /\ i \in Seq(S)
Chain(e, p, o, i) == Cat(Cat(Cat(e, p), o), i)

LEMMA ChainFacts ==
  ASSUME NEW S, NEW e, NEW p, NEW o, NEW i, Queues(S, e, p, o, i)
  PROVE  /\ Chain(e, p, o, i) \in Seq(S)
         /\ Chain(e, p, o, i) = << >> <=> e = << >> /\ p = << >> /\ o = << >> /\ i = << >>
         /\ Cat(e, p) \in Seq(S) /\ Cat(o, i) \in Seq(S)
         /\ Chain(e, p, o, i) = Cat(Cat(e, p), Cat(o, i))
  <1> USE DEF Queues
  <1>1. Cat(e, p) \in Seq(S) /\ (Cat(e, p) = << >> <=> e = << >> /\ p = << >>)
    BY CatFacts
  <1>2. /\ Cat(Cat(e, p), o) \in Seq(S)
        /\ Cat(Cat(e, p), o) = << >> <=> Cat(e, p) = << >> /\ o = << >>
    BY <1>1, CatFacts
  <1>3. /\ Cat(Cat(Cat(e, p), o), i) \in Seq(S)
        /\ Cat(Cat(Cat(e, p), o), i) = << >> <=> Cat(Cat(e, p), o) = << >> /\ i = << >>
    BY <1>2, CatFacts
  <1>4. Cat(o, i) \in Seq(S) /\ Cat(Cat(Cat(e, p), o), i) = Cat(Cat(e, p), Cat(o, i))
    BY <1>1, CatFacts, CatAssociative
  <1> QED
    BY <1>1, <1>2, <1>3, <1>4 DEF Chain

(* A buffer that goes from one of them to the next stays where it is.      *)
LEMMA MoveThirdFourth ==
  ASSUME NEW S, NEW e, NEW p, NEW o, NEW i, NEW x, NEW y,
         Queues(S, e, p, o, i), Queues(S, e, p, x, y), Cat(x, y) = Cat(o, i)
  PROVE  Chain(e, p, x, y) = Chain(e, p, o, i)
  <1>1. Chain(e, p, x, y) = Cat(Cat(e, p), Cat(x, y))
    BY ChainFacts
  <1>2. Chain(e, p, o, i) = Cat(Cat(e, p), Cat(o, i))
    BY ChainFacts
  <1> QED
    BY <1>1, <1>2

LEMMA MoveSecondThird ==
  ASSUME NEW S, NEW e, NEW p, NEW o, NEW i, NEW x, NEW y,
         Queues(S, e, p, o, i), Queues(S, e, x, y, i), Cat(x, y) = Cat(p, o)
  PROVE  Chain(e, x, y, i) = Chain(e, p, o, i)
  <1>1. Cat(Cat(e, x), y) = Cat(e, Cat(x, y))
    BY CatAssociative DEF Queues
  <1>2. Cat(Cat(e, p), o) = Cat(e, Cat(p, o))
    BY CatAssociative DEF Queues
  <1> QED
    BY <1>1, <1>2 DEF Chain

LEMMA MoveFirstSecond ==
  ASSUME NEW e, NEW p, NEW o, NEW i, NEW x, NEW y, Cat(x, y) = Cat(e, p)
  PROVE  Chain(x, y, o, i) = Chain(e, p, o, i)
  BY DEF Chain

LEMMA MoveFirstThird ==
  ASSUME NEW S, NEW e, NEW p, NEW o, NEW i, NEW x, NEW y,
         Queues(S, e, p, o, i), Queues(S, x, p, y, i), p = << >>, Cat(x, y) = Cat(e, o)
  PROVE  Chain(x, p, y, i) = Chain(e, p, o, i)
  <1>1. e \in Seq(S) /\ x \in Seq(S)
    BY DEF Queues
  <1>2. Cat(e, << >>) = e /\ Cat(x, << >>) = x
    BY <1>1, ConcatEmptySeq DEF Cat
  <1> QED
    BY <1>2, Zenon DEF Chain

(* A buffer taken from the first, left out of the third, or put behind.    *)
LEMMA ChainTail ==
  ASSUME NEW S, NEW e, NEW p, NEW o, NEW i, Queues(S, e, p, o, i), e # << >>
  PROVE  Chain(Tail(e), p, o, i) = Tail(Chain(e, p, o, i)) /\ Head(e) = Head(Chain(e, p, o, i))
  <1>1. ASSUME NEW s \in Seq(S), NEW t \in Seq(S), s # << >>
        PROVE  /\ Tail(Cat(s, t)) = Cat(Tail(s), t) /\ Head(s) = Head(Cat(s, t))
               /\ Cat(s, t) # << >> /\ Cat(s, t) \in Seq(S)
    BY <1>1, CatTail, CatSome
  <1> USE DEF Queues
  <1>2. /\ Tail(Cat(e, p)) = Cat(Tail(e), p) /\ Head(e) = Head(Cat(e, p)) /\ Cat(e, p) # << >>
        /\ Cat(e, p) \in Seq(S)
    BY <1>1
  <1>3. /\ Tail(Cat(Cat(e, p), o)) = Cat(Tail(Cat(e, p)), o)
        /\ Head(Cat(e, p)) = Head(Cat(Cat(e, p), o)) /\ Cat(Cat(e, p), o) # << >>
        /\ Cat(Cat(e, p), o) \in Seq(S)
    BY <1>1, <1>2
  <1>4. /\ Tail(Cat(Cat(Cat(e, p), o), i)) = Cat(Tail(Cat(Cat(e, p), o)), i)
        /\ Head(Cat(Cat(e, p), o)) = Head(Cat(Cat(Cat(e, p), o), i))
    BY <1>1, <1>3
  <1> QED
    BY <1>2, <1>3, <1>4 DEF Chain

LEMMA ChainDrop ==
  ASSUME NEW S, NEW e, NEW p, NEW o, NEW i, Queues(S, e, p, o, i), o # << >>
  PROVE  /\ Chain(e, p, Tail(o), i) = Cat(Cat(e, p), Tail(Cat(o, i)))
         /\ Head(o) = Head(Cat(o, i)) /\ Cat(o, i) # << >>
         /\ Tail(Cat(o, i)) = << >> => Tail(o) = << >> /\ i = << >>
  <1> USE DEF Queues
  <1>1. /\ Tail(Cat(o, i)) = Cat(Tail(o), i) /\ Head(Cat(o, i)) = Head(o)
        /\ Tail(o) \in Seq(S) /\ Cat(e, p) \in Seq(S) /\ Cat(o, i) # << >>
    BY CatTail, CatSome, HeadTailProperties
  <1>2. ASSUME NEW x \in Seq(S)
        PROVE  /\ Cat(Cat(Cat(e, p), x), i) = Cat(Cat(e, p), Cat(x, i))
               /\ Cat(x, i) = << >> => x = << >> /\ i = << >>
    BY <1>1, CatAssociative, CatSome
  <1>3. /\ Cat(Cat(Cat(e, p), Tail(o)), i) = Cat(Cat(e, p), Cat(Tail(o), i))
        /\ Cat(Tail(o), i) = << >> => Tail(o) = << >> /\ i = << >>
    BY <1>1, <1>2
  <1> QED
    BY <1>1, <1>3 DEF Chain

LEMMA ChainAppend ==
  ASSUME NEW S, NEW e, NEW p, NEW o, NEW i, Queues(S, e, p, o, i), NEW b \in S
  PROVE  Chain(e, p, o, Append(i, b)) = Append(Chain(e, p, o, i), b)
  <1>1. Cat(Cat(e, p), o) \in Seq(S)
    BY CatFacts DEF Queues
  <1> QED
    BY <1>1, CatAppend DEF Chain, Queues

(* The samples of a chain, and when they are in order.                     *)
LEMMA ChainInOrder ==
  ASSUME NEW S, NEW e, NEW p, NEW o, NEW i, Queues(S, e, p, o, i)
  PROVE  /\ AllData(Chain(e, p, o, i)) = AllData(e) \cup AllData(p) \cup AllData(o) \cup AllData(i)
         /\ InOrder(Chain(e, p, o, i)) <=>
              /\ InOrder(e) /\ InOrder(p) /\ InOrder(o) /\ InOrder(i)
              /\ Before(AllData(e), AllData(p))
              /\ Before(AllData(e) \cup AllData(p), AllData(o))
              /\ Before(AllData(e) \cup AllData(p) \cup AllData(o), AllData(i))
  <1> USE DEF Queues
  <1>1. ASSUME NEW x \in Seq(S), NEW y \in Seq(S)
        PROVE  /\ Cat(x, y) \in Seq(S)
               /\ AllData(Cat(x, y)) = AllData(x) \cup AllData(y)
               /\ InOrder(Cat(x, y)) <=>
                    InOrder(x) /\ InOrder(y) /\ Before(AllData(x), AllData(y))
    BY CatFacts, CatData, CatInOrder
  <1>2. /\ Cat(e, p) \in Seq(S)
        /\ AllData(Cat(e, p)) = AllData(e) \cup AllData(p)
        /\ InOrder(Cat(e, p)) <=>
             InOrder(e) /\ InOrder(p) /\ Before(AllData(e), AllData(p))
    BY <1>1
  <1>3. /\ Cat(Cat(e, p), o) \in Seq(S)
        /\ AllData(Cat(Cat(e, p), o)) = AllData(Cat(e, p)) \cup AllData(o)
        /\ InOrder(Cat(Cat(e, p), o)) <=>
             InOrder(Cat(e, p)) /\ InOrder(o) /\ Before(AllData(Cat(e, p)), AllData(o))
    BY <1>1, <1>2
  <1>4. /\ AllData(Chain(e, p, o, i)) = AllData(Cat(Cat(e, p), o)) \cup AllData(i)
        /\ InOrder(Chain(e, p, o, i)) <=>
             /\ InOrder(Cat(Cat(e, p), o)) /\ InOrder(i)
             /\ Before(AllData(Cat(Cat(e, p), o)), AllData(i))
    BY <1>1, <1>3 DEF Chain
  <1> QED
    BY <1>2, <1>3, <1>4

LEMMA ChainData ==
  ASSUME NEW S, NEW e, NEW p, NEW o, NEW i, Queues(S, e, p, o, i)
  PROVE  AllData(Chain(e, p, o, i)) = AllData(e) \cup AllData(p) \cup AllData(o) \cup AllData(i)
  <1>1. /\ e \in Seq(S) /\ p \in Seq(S) /\ o \in Seq(S) /\ i \in Seq(S)
    BY DEF Queues
  <1>2. ASSUME NEW x \in Seq(S), NEW y \in Seq(S)
        PROVE  Cat(x, y) \in Seq(S) /\ AllData(Cat(x, y)) = AllData(x) \cup AllData(y)
    BY CatFacts, CatData
  <1>3. Cat(e, p) \in Seq(S) /\ AllData(Cat(e, p)) = AllData(e) \cup AllData(p)
    BY <1>1, <1>2
  <1>4. /\ Cat(Cat(e, p), o) \in Seq(S)
        /\ AllData(Cat(Cat(e, p), o)) = AllData(Cat(e, p)) \cup AllData(o)
    BY <1>1, <1>2, <1>3
  <1>5. AllData(Cat(Cat(Cat(e, p), o), i)) = AllData(Cat(Cat(e, p), o)) \cup AllData(i)
    BY <1>1, <1>2, <1>4
  <1> QED
    BY <1>3, <1>4, <1>5, Zenon DEF Chain

LEMMA ChainParts ==
  ASSUME NEW S, NEW e, NEW p, NEW o, NEW i, Queues(S, e, p, o, i), InOrder(Chain(e, p, o, i))
  PROVE  /\ InOrder(e) /\ InOrder(p) /\ InOrder(o) /\ InOrder(i)
         /\ Before(AllData(e), AllData(p))
         /\ Before(AllData(e) \cup AllData(p), AllData(o))
         /\ Before(AllData(e) \cup AllData(p) \cup AllData(o), AllData(i))
  BY ChainInOrder

(* With less in each part, the rest is still in order.                     *)
LEMMA ChainLess ==
  ASSUME NEW S, NEW e, NEW p, NEW o, NEW i, Queues(S, e, p, o, i),
         NEW e2, NEW p2, NEW o2, NEW i2, Queues(S, e2, p2, o2, i2),
         InOrder(Chain(e, p, o, i)),
         InOrder(e2), InOrder(p2), InOrder(o2), InOrder(i2),
         AllData(e2) \subseteq AllData(e), AllData(p2) \subseteq AllData(p),
         AllData(o2) \subseteq AllData(o), AllData(i2) \subseteq AllData(i)
  PROVE  InOrder(Chain(e2, p2, o2, i2))
  <1>1. /\ Before(AllData(e), AllData(p))
        /\ Before(AllData(e) \cup AllData(p), AllData(o))
        /\ Before(AllData(e) \cup AllData(p) \cup AllData(o), AllData(i))
    BY ChainInOrder
  <1>2. /\ Before(AllData(e2), AllData(p2))
        /\ Before(AllData(e2) \cup AllData(p2), AllData(o2))
        /\ Before(AllData(e2) \cup AllData(p2) \cup AllData(o2), AllData(i2))
    BY <1>1 DEF Before
  <1> QED
    BY <1>2, ChainInOrder

(* Two buffers.                                                            *)
LEMMA TwoBuffers ==
  ASSUME NEW S, NEW b \in S, NEW c \in S
  PROVE  /\ <<b, c>> \in Seq(S)
         /\ AllData(<<b, c>>) = Data(b) \cup Data(c)
         /\ InOrder(<<b, c>>) <=> Increasing(b) /\ Increasing(c) /\ Before(Data(b), Data(c))
  <1>1. <<b>> \in Seq(S)
    BY Singletons
  <1>4. <<b, c>> \in Seq(S)
    OBVIOUS
  <1>5. Append(<<b>>, c) = <<b, c>>
    <2> DEFINE x == Append(<<b>>, c)
               y == <<b, c>>
    <2>1. x \in Seq(S) /\ y \in Seq(S)
      BY <1>1, <1>4, AppendProperties
    <2>2. Len(x) = 2 /\ x[1] = b /\ x[2] = c /\ Len(y) = 2 /\ y[1] = b /\ y[2] = c
      BY <1>1
    <2> HIDE DEF x, y
    <2>3. \A k \in 1 .. Len(x) : x[k] = y[k]
      BY <2>2
    <2>4. x = y
      BY <2>1, <2>2, <2>3, SeqEqual
    <2> QED
      BY <2>4 DEF x, y
  <1>2. /\ AllData(Append(<<b>>, c)) = AllData(<<b>>) \cup Data(c)
        /\ InOrder(Append(<<b>>, c)) <=>
             InOrder(<<b>>) /\ Increasing(c) /\ Before(AllData(<<b>>), Data(c))
    BY <1>1, BuffersAppend
  <1>3. AllData(<<b>>) = Data(b) /\ (InOrder(<<b>>) <=> Increasing(b))
    BY OneBuffer
  <1> QED
    BY <1>2, <1>3, <1>4, <1>5

(* What was handed over and what an encoder puts out, buffer by buffer.    *)
LEMMA HandedAppend ==
  ASSUME NEW S, NEW s \in Seq(S), NEW h \in S
  PROVE  HandedBuffers(Append(s, h)) = Append(HandedBuffers(s), h.data)
  BY DEF HandedBuffers

LEMMA EncodedAppend ==
  ASSUME NEW S, NEW s \in Seq(S), NEW h \in S
  PROVE  EncodedBuffers(Append(s, h)) = Append(EncodedBuffers(s), h.samples)
  BY DEF EncodedBuffers

LEMMA EncodedTail ==
  ASSUME NEW S, NEW s \in Seq(S), s # << >>
  PROVE  /\ EncodedBuffers(s) # << >>
         /\ EncodedBuffers(Tail(s)) = Tail(EncodedBuffers(s))
         /\ Head(EncodedBuffers(s)) = Head(s).samples
  BY DEF EncodedBuffers

-----------------------------------------------------------------------------
(* The inductive invariant.                                                *)

Coded(t) == Chain(encoderIn[t], pending[t], decoderOut[t], decoderIn[t])

(* Which queues a track uses; what stays in the buffer of a decoder's      *)
(* renderer is decode-only.                                                *)
RoutePart(t) ==
  /\ ~IsCodec(t) => /\ encoderIn[t] = << >> /\ pending[t] = << >>
                    /\ decoderOut[t] = << >> /\ decoderIn[t] = << >> /\ encoderOut[t] = << >>
  /\ Kind[t] = "video" => pending[t] = << >>
  /\ IsCodec(t) => \A k \in Data(inputBuffer[t]) : IsDecodeOnly(t, k)

(* The end of a stream is in one place, once it was signalled: behind all  *)
(* the rest before the encoder, then behind all the rest after it, or past *)
(* both.                                                                   *)
EndPart(t) ==
  /\ EndsWell(EndOfStream, Coded(t), endOfStreamSignaled[t])
  /\ EndsWell(Frame(EndOfStream), encoderOut[t], Coded(t) = << >> /\ endOfStreamSignaled[t])
  /\ endOfStreamReached[t] =>
       endOfStreamSignaled[t] /\ decoderIn[t] = << >> /\ decoderOut[t] = << >>
  /\ endOfCodification[t] =>
       endOfStreamSignaled[t] /\ Coded(t) = << >> /\ encoderOut[t] = << >>
  /\ endOfStreamSignaled[t] => loadCompleted \/ streamIsFinal[t]

Delivers(t, buffers, n) ==
  /\ InOrder(buffers)
  /\ \A k \in AllData(buffers) : k <= n
  /\ Kind[t] # "video" => \A k \in 1 .. n : IsDecodeOnly(t, k) \/ k \in AllData(buffers)

Line(t) == Chain(HandedBuffers(handed[t]), EncodedBuffers(encoderOut[t]), Coded(t),
                 <<frameData[t], inputBuffer[t]>>)
KeptPart(t) == Delivers(t, Line(t), readUpTo[t])

(* Where the thread is about to signal the end, it has not yet.            *)
SignalPart == call = "nothingRead" /\ IsCodec(turn) => ~endOfStreamSignaled[turn]

Parts(t) == RoutePart(t) /\ EndPart(t) /\ KeptPart(t)
DeliveryInv == SignalPart /\ \A t \in Tracks : Parts(t)

LEMMA LineIsBuffers ==
  ASSUME NEW t \in Tracks
  PROVE  Line(t) = Buffers(t) /\ Coded(t) = Queued(t)
  BY DEF Line, Buffers, Coded, Queued, Chain, Cat

(* A buffer of a track, and one with numbers that may stand for no data.   *)
Packet(t) == Seq(0 .. Len(Times[t]))
Types(t) ==
  /\ Queues(Packet(t), encoderIn[t], pending[t], decoderOut[t], decoderIn[t])
  /\ Queues(Packet(t), HandedBuffers(handed[t]), EncodedBuffers(encoderOut[t]), Coded(t),
            <<frameData[t], inputBuffer[t]>>)
  /\ encoderOut[t] \in Seq(Output(t)) /\ handed[t] \in Seq(Handover(t))
  /\ frameData[t] \in Packet(t) /\ inputBuffer[t] \in Packet(t)
  /\ loaded[t] \in 0 .. Len(Times[t]) /\ readUpTo[t] \in 0 .. loaded[t]
  /\ Len(Times[t]) \in Nat
AllTypes == \A t \in Tracks : Types(t)

LEMMA AllTypesOfInd == IndInv => AllTypes
  <1> SUFFICES ASSUME IndInv, NEW t \in Tracks PROVE Types(t)
    BY DEF AllTypes
  <1>1. TypeOK
    BY TypesOfInd
  <1>2. Len(Times[t]) \in Nat /\ Samples(t) \subseteq 0 .. Len(Times[t])
    BY TrackFacts DEF Samples
  <1>3. Buffer(t) \subseteq Packet(t)
    BY <1>2, SeqMonotonic DEF Buffer, Packet
  <1>4. ASSUME NEW q \in Seq(Buffer(t)) PROVE q \in Seq(Packet(t))
    BY <1>3, SeqMonotonic
  <1>5. /\ encoderIn[t] \in Seq(Packet(t)) /\ pending[t] \in Seq(Packet(t))
        /\ decoderOut[t] \in Seq(Packet(t)) /\ decoderIn[t] \in Seq(Packet(t))
    BY <1>1, <1>4 DEF TypeOK
  <1>6. Coded(t) \in Seq(Packet(t))
    BY <1>5, ChainFacts DEF Coded, Queues
  <1>7. encoderOut[t] \in Seq(Output(t)) /\ handed[t] \in Seq(Handover(t))
    BY DEF IndInv, TrackPart, CodecPart, HandedPart
  <1>8. EncodedBuffers(encoderOut[t]) \in Seq(Packet(t))
    <2> DEFINE s == encoderOut[t]
    <2>1. Len(s) \in Nat /\ \A i \in 1 .. Len(s) : s[i] \in Output(t)
      BY <1>7, LenProperties, ElementOfSeq
    <2>2. \A i \in 1 .. Len(s) : s[i].samples \in Packet(t)
      BY <1>3, <2>1 DEF Output
    <2> HIDE DEF s
    <2> QED
      BY <2>1, <2>2 DEF EncodedBuffers, s
  <1>9. HandedBuffers(handed[t]) \in Seq(Packet(t))
    <2> DEFINE s == handed[t]
    <2>1. Len(s) \in Nat /\ \A i \in 1 .. Len(s) : s[i] \in Handover(t)
      BY <1>7, LenProperties, ElementOfSeq
    <2>2. \A i \in 1 .. Len(s) : s[i].data \in Packet(t)
      BY <1>3, <2>1 DEF Handover
    <2> HIDE DEF s
    <2> QED
      BY <2>1, <2>2 DEF HandedBuffers, s
  <1>10. frameData[t] \in Packet(t) /\ inputBuffer[t] \in Packet(t)
    BY <1>1 DEF TypeOK, Packet
  <1>11. <<frameData[t], inputBuffer[t]>> \in Seq(Packet(t))
    BY <1>10, TwoBuffers
  <1>12. loaded[t] \in 0 .. Len(Times[t]) /\ readUpTo[t] \in 0 .. loaded[t]
    BY <1>1 DEF TypeOK
  <1> QED
    BY <1>2, <1>5, <1>6, <1>7, <1>8, <1>9, <1>10, <1>11, <1>12 DEF Types, Queues

LEMMA TypesKept == IndInv /\ [Next]_vars => IndInv' /\ AllTypes /\ AllTypes'
  BY StepInd, AllTypesOfInd, PTL

(* A step that leaves a track alone.                                       *)
Untouched(t) ==
  /\ decoderIn'[t] = decoderIn[t] /\ decoderOut'[t] = decoderOut[t]
  /\ pending'[t] = pending[t] /\ encoderIn'[t] = encoderIn[t]
  /\ encoderOut'[t] = encoderOut[t] /\ handed'[t] = handed[t]
  /\ frameData'[t] = frameData[t] /\ inputBuffer'[t] = inputBuffer[t]
  /\ readUpTo'[t] = readUpTo[t]
  /\ endOfStreamSignaled'[t] = endOfStreamSignaled[t]
  /\ endOfStreamReached'[t] = endOfStreamReached[t]
  /\ endOfCodification'[t] = endOfCodification[t]
  /\ (streamIsFinal[t] => streamIsFinal'[t]) /\ (loadCompleted => loadCompleted')

LEMMA UntouchedKept ==
  ASSUME NEW t \in Tracks, Parts(t), Untouched(t)
  PROVE  Parts(t)'
  <1> USE DEF Untouched
  <1>1. RoutePart(t)'
    BY DEF Parts, RoutePart
  <1>2. Coded(t)' = Coded(t)
    BY DEF Coded
  <1>3. EndPart(t)'
    BY <1>2 DEF Parts, EndPart
  <1>4. Line(t)' = Line(t)
    BY <1>2 DEF Line
  <1>5. KeptPart(t)'
    BY <1>4 DEF Parts, KeptPart
  <1> QED
    BY <1>1, <1>3, <1>5 DEF Parts

(* A step that only moves buffers between the renderer and the             *)
(* codification.                                                           *)
LEMMA CodedKept ==
  ASSUME NEW t \in Tracks, Parts(t), Coded(t)' = Coded(t),
         encoderOut'[t] = encoderOut[t], handed'[t] = handed[t],
         frameData'[t] = frameData[t], inputBuffer'[t] = inputBuffer[t],
         readUpTo'[t] = readUpTo[t],
         endOfStreamSignaled'[t] = endOfStreamSignaled[t],
         endOfCodification'[t] = endOfCodification[t],
         streamIsFinal'[t] = streamIsFinal[t], loadCompleted' = loadCompleted,
         endOfStreamReached'[t] =>
           endOfStreamSignaled[t] /\ decoderIn'[t] = << >> /\ decoderOut'[t] = << >>
  PROVE  EndPart(t)' /\ KeptPart(t)'
  <1>1. EndPart(t)'
    BY DEF Parts, EndPart
  <1>2. Line(t)' = Line(t)
    BY DEF Line
  <1> QED
    BY <1>1, <1>2 DEF Parts, KeptPart

(* A buffer that goes on to the next queue stays where it is in the line.  *)
LEMMA CodedMoved ==
  ASSUME NEW t \in Tracks, Types(t), Types(t)',
         \/ /\ encoderIn'[t] = encoderIn[t] /\ pending'[t] = pending[t]
            /\ Cat(decoderOut'[t], decoderIn'[t]) = Cat(decoderOut[t], decoderIn[t])
         \/ /\ encoderIn'[t] = encoderIn[t] /\ decoderIn'[t] = decoderIn[t]
            /\ Cat(pending'[t], decoderOut'[t]) = Cat(pending[t], decoderOut[t])
         \/ /\ decoderOut'[t] = decoderOut[t] /\ decoderIn'[t] = decoderIn[t]
            /\ Cat(encoderIn'[t], pending'[t]) = Cat(encoderIn[t], pending[t])
         \/ /\ pending'[t] = pending[t] /\ decoderIn'[t] = decoderIn[t] /\ pending[t] = << >>
            /\ Cat(encoderIn'[t], decoderOut'[t]) = Cat(encoderIn[t], decoderOut[t])
  PROVE  Coded(t)' = Coded(t)
  <1> DEFINE e == encoderIn[t]
             p == pending[t]
             o == decoderOut[t]
             i == decoderIn[t]
             e2 == encoderIn'[t]
             p2 == pending'[t]
             o2 == decoderOut'[t]
             i2 == decoderIn'[t]
             S == Packet(t)
  <1>1. Queues(S, e, p, o, i) /\ Queues(S, e2, p2, o2, i2)
    BY DEF Types, Packet, Queues
  <1>2. \/ e2 = e /\ p2 = p /\ Cat(o2, i2) = Cat(o, i)
        \/ e2 = e /\ i2 = i /\ Cat(p2, o2) = Cat(p, o)
        \/ o2 = o /\ i2 = i /\ Cat(e2, p2) = Cat(e, p)
        \/ p2 = p /\ i2 = i /\ p = << >> /\ Cat(e2, o2) = Cat(e, o)
    OBVIOUS
  <1>3. Coded(t) = Chain(e, p, o, i) /\ Coded(t)' = Chain(e2, p2, o2, i2)
    BY DEF Coded
  <1> HIDE DEF e, p, o, i, e2, p2, o2, i2, S
  <1>4. CASE e2 = e /\ p2 = p /\ Cat(o2, i2) = Cat(o, i)
    <2>1. Queues(S, e, p, o2, i2) /\ Cat(o2, i2) = Cat(o, i)
      BY <1>1, <1>4
    <2>2. Chain(e, p, o2, i2) = Chain(e, p, o, i)
      BY <1>1, <2>1, MoveThirdFourth
    <2> QED
      BY <1>3, <1>4, <2>2
  <1>5. CASE e2 = e /\ i2 = i /\ Cat(p2, o2) = Cat(p, o)
    <2>1. Queues(S, e, p2, o2, i) /\ Cat(p2, o2) = Cat(p, o)
      BY <1>1, <1>5
    <2>2. Chain(e, p2, o2, i) = Chain(e, p, o, i)
      BY <1>1, <2>1, MoveSecondThird
    <2> QED
      BY <1>3, <1>5, <2>2
  <1>6. CASE o2 = o /\ i2 = i /\ Cat(e2, p2) = Cat(e, p)
    <2>1. Chain(e2, p2, o, i) = Chain(e, p, o, i)
      BY <1>6, MoveFirstSecond
    <2> QED
      BY <1>3, <1>6, <2>1
  <1>7. CASE p2 = p /\ i2 = i /\ p = << >> /\ Cat(e2, o2) = Cat(e, o)
    <2>1. Queues(S, e2, p, o2, i) /\ Cat(e2, o2) = Cat(e, o) /\ p = << >>
      BY <1>1, <1>7
    <2>2. Chain(e2, p, o2, i) = Chain(e, p, o, i)
      BY <1>1, <2>1, MoveFirstThird
    <2> QED
      BY <1>3, <1>7, <2>2
  <1> QED
    BY <1>2, <1>4, <1>5, <1>6, <1>7

(* The parts of the line of a track.                                       *)
LEMMA LineParts ==
  ASSUME NEW t \in Tracks, Types(t), InOrder(Line(t))
  PROVE  /\ AllData(Line(t)) = AllData(HandedBuffers(handed[t]))
              \cup AllData(EncodedBuffers(encoderOut[t])) \cup AllData(Coded(t))
              \cup AllData(<<frameData[t], inputBuffer[t]>>)
         /\ InOrder(HandedBuffers(handed[t])) /\ InOrder(EncodedBuffers(encoderOut[t]))
         /\ InOrder(Coded(t)) /\ InOrder(<<frameData[t], inputBuffer[t]>>)
  <1> DEFINE d == HandedBuffers(handed[t])
             e == EncodedBuffers(encoderOut[t])
             q == Coded(t)
             f == <<frameData[t], inputBuffer[t]>>
             S == Packet(t)
  <1>1. Queues(S, d, e, q, f) /\ InOrder(Chain(d, e, q, f)) /\ Line(t) = Chain(d, e, q, f)
    BY DEF Types, Line
  <1> HIDE DEF d, e, q, f, S
  <1>2. AllData(Chain(d, e, q, f)) = AllData(d) \cup AllData(e) \cup AllData(q) \cup AllData(f)
    BY <1>1, ChainData
  <1>3. InOrder(d) /\ InOrder(e) /\ InOrder(q) /\ InOrder(f)
    BY <1>1, ChainParts
  <1> QED
    BY <1>1, <1>2, <1>3 DEF d, e, q, f

LEMMA DecodeDelivers ==
  ASSUME IndInv, NEW t \in Tracks, Types(t), Types(t)', Parts(t), Decode(t)
  PROVE  Parts(t)'
  <1>1. /\ decoderIn[t] # << >> /\ decoderIn'[t] = Tail(decoderIn[t])
        /\ decoderOut'[t] = Append(decoderOut[t], Head(decoderIn[t]))
        /\ encoderIn' = encoderIn /\ pending' = pending /\ encoderOut' = encoderOut
        /\ handed' = handed /\ frameData' = frameData /\ inputBuffer' = inputBuffer
        /\ readUpTo' = readUpTo /\ endOfCodification' = endOfCodification
        /\ UNCHANGED <<ends, loadCompleted>>
    BY DEF Decode, IndInv, Shape, encoder, feeding, output, frames, reading, source
  <1>2. Cat(decoderOut'[t], decoderIn'[t]) = Cat(decoderOut[t], decoderIn[t])
    <2>1. Cat(Append(decoderOut[t], Head(decoderIn[t])), Tail(decoderIn[t]))
            = Cat(decoderOut[t], decoderIn[t])
      BY <1>1, CatMove DEF Types, Queues
    <2> QED
      BY <1>1, <2>1, Zenon
  <1>3. Coded(t)' = Coded(t)
    BY <1>1, <1>2, CodedMoved
  <1>4. ~endOfStreamReached[t]
    BY <1>1 DEF Parts, EndPart
  <1>5. EndPart(t)' /\ KeptPart(t)'
    BY <1>1, <1>3, <1>4, CodedKept DEF ends
  <1>6. RoutePart(t)'
    <2>1. IsCodec(t)
      BY <1>1 DEF Parts, RoutePart
    <2> QED
      BY <1>1, <2>1 DEF Parts, RoutePart
  <1> QED
    BY <1>5, <1>6 DEF Parts

LEMMA FeedCodificationDelivers ==
  ASSUME IndInv, NEW t \in Tracks, Types(t), Types(t)', Parts(t), FeedCodification(t)
  PROVE  Parts(t)'
  <1>1. /\ encoderOut' = encoderOut /\ decoderIn' = decoderIn /\ decoderOut' = decoderOut
        /\ handed' = handed /\ frameData' = frameData /\ inputBuffer' = inputBuffer
        /\ readUpTo' = readUpTo /\ endOfCodification' = endOfCodification
        /\ UNCHANGED <<ends, loadCompleted>>
    BY DEF FeedCodification, decoder, output, frames, reading, source
  <1>2. \/ encoderIn' = encoderIn /\ pending' = pending
        \/ /\ Kind[t] = "audio" /\ pending[t] # << >>
           /\ encoderIn'[t] = Append(encoderIn[t], Head(pending[t]))
           /\ pending'[t] = Tail(pending[t])
    BY DEF FeedCodification, feeding, IndInv, Shape
  <1>3. CASE encoderIn' = encoderIn /\ pending' = pending
    BY <1>1, <1>3, UntouchedKept DEF Untouched, ends
  <1>4. CASE /\ Kind[t] = "audio" /\ pending[t] # << >>
             /\ encoderIn'[t] = Append(encoderIn[t], Head(pending[t]))
             /\ pending'[t] = Tail(pending[t])
    <2>1. Cat(encoderIn'[t], pending'[t]) = Cat(encoderIn[t], pending[t])
      <3>1. Cat(Append(encoderIn[t], Head(pending[t])), Tail(pending[t]))
              = Cat(encoderIn[t], pending[t])
        BY <1>4, CatMove DEF Types, Queues
      <3> QED
        BY <1>4, <3>1, Zenon
    <2>2. Coded(t)' = Coded(t)
      BY <1>1, <2>1, CodedMoved
    <2>3. EndPart(t)' /\ KeptPart(t)'
      BY <1>1, <2>2, CodedKept DEF ends, Parts, EndPart
    <2>4. RoutePart(t)'
      BY <1>1, <1>4 DEF Parts, RoutePart, IsCodec
    <2> QED
      BY <2>3, <2>4 DEF Parts
  <1> QED
    BY <1>2, <1>3, <1>4

LEMMA DrainDecoderDelivers ==
  ASSUME IndInv, NEW t \in Tracks, Types(t), Types(t)', Parts(t), DrainDecoder(t)
  PROVE  Parts(t)'
  <1>1. /\ encoderOut' = encoderOut /\ decoderIn' = decoderIn
        /\ handed' = handed /\ frameData' = frameData /\ inputBuffer' = inputBuffer
        /\ readUpTo' = readUpTo /\ endOfCodification' = endOfCodification
        /\ UNCHANGED <<loadCompleted, streamIsFinal, endOfStreamSignaled>> /\ IsCodec(t)
    BY DEF DrainDecoder, output, frames, reading, source
  <1>2. \/ UNCHANGED <<decoderOut, endOfStreamReached, encoderIn, pending>>
        \/ /\ ~endOfStreamReached[t] /\ decoderOut[t] # << >>
           /\ decoderOut'[t] = Tail(decoderOut[t])
           /\ endOfStreamReached'[t] = (Head(decoderOut[t]) = EndOfStream)
           /\ \/ /\ Kind[t] = "audio" /\ encoderIn' = encoderIn
                 /\ pending'[t] = Append(pending[t], Head(decoderOut[t]))
              \/ /\ Kind[t] = "video" /\ Head(decoderOut[t]) # EndOfStream /\ pending' = pending
                 /\ encoderIn'[t] = Append(encoderIn[t], Head(decoderOut[t]))
              \/ /\ Kind[t] = "video" /\ encoderIn' = encoderIn /\ pending' = pending
    BY DEF DrainDecoder, IndInv, Shape
  <1>3. CASE UNCHANGED <<decoderOut, endOfStreamReached, encoderIn, pending>>
    BY <1>1, <1>3, UntouchedKept DEF Untouched
  <1>4. CASE /\ ~endOfStreamReached[t] /\ decoderOut[t] # << >>
             /\ decoderOut'[t] = Tail(decoderOut[t])
             /\ endOfStreamReached'[t] = (Head(decoderOut[t]) = EndOfStream)
             /\ \/ /\ Kind[t] = "audio" /\ encoderIn' = encoderIn
                   /\ pending'[t] = Append(pending[t], Head(decoderOut[t]))
                \/ /\ Kind[t] = "video" /\ Head(decoderOut[t]) # EndOfStream /\ pending' = pending
                   /\ encoderIn'[t] = Append(encoderIn[t], Head(decoderOut[t]))
                \/ /\ Kind[t] = "video" /\ encoderIn' = encoderIn /\ pending' = pending
    <2> DEFINE front == Cat(encoderIn[t], pending[t])
               rear == Cat(decoderOut[t], decoderIn[t])
    <2>1. /\ Coded(t) = Cat(front, rear)
          /\ front \in Seq(Packet(t)) /\ rear \in Seq(Packet(t)) /\ rear # << >>
          /\ Head(rear) = Head(decoderOut[t])
          /\ Tail(rear) = << >> => Tail(decoderOut[t]) = << >> /\ decoderIn[t] = << >>
          /\ Chain(encoderIn[t], pending[t], Tail(decoderOut[t]), decoderIn[t])
               = Cat(front, Tail(rear))
      <3>1. Queues(Packet(t), encoderIn[t], pending[t], decoderOut[t], decoderIn[t])
        BY DEF Types
      <3> QED
        BY <1>4, <3>1, ChainFacts, ChainDrop DEF Coded
    <2>2. EndsWell(EndOfStream, Coded(t), endOfStreamSignaled[t])
      BY DEF Parts, EndPart
    <2> HIDE DEF front, rear
    <2>3. /\ EndsWell(EndOfStream, Cat(front, Tail(rear)), endOfStreamSignaled[t])
          /\ EndsWell(EndOfStream, rear, endOfStreamSignaled[t])
      BY <2>1, <2>2, EndsDrop DEF Cat
    <2>4. ASSUME Head(decoderOut[t]) = EndOfStream
          PROVE  Tail(rear) = << >> /\ endOfStreamSignaled[t]
      <3>1. Head(rear) = EndOfStream
        BY <2>1, <2>4
      <3>2. Tail(rear) = << >>
        BY <2>1, <2>3, <3>1, EndsHere
      <3>3. endOfStreamSignaled[t]
        BY <2>1, <2>3, <3>1, EndsDue
      <3> QED
        BY <3>2, <3>3
    <2>5. endOfStreamReached'[t] =>
            endOfStreamSignaled[t] /\ decoderIn'[t] = << >> /\ decoderOut'[t] = << >>
      BY <1>1, <1>4, <2>1, <2>4
    <2>6. CASE Kind[t] = "audio" /\ encoderIn' = encoderIn
               /\ pending'[t] = Append(pending[t], Head(decoderOut[t]))
      <3>1. Cat(pending'[t], decoderOut'[t]) = Cat(pending[t], decoderOut[t])
        <4>1. Cat(Append(pending[t], Head(decoderOut[t])), Tail(decoderOut[t]))
                = Cat(pending[t], decoderOut[t])
          BY <1>4, CatMove DEF Types, Queues
        <4> QED
          BY <1>4, <2>6, <4>1, Zenon
      <3>2. Coded(t)' = Coded(t)
        BY <1>1, <2>6, <3>1, CodedMoved
      <3>3. EndPart(t)' /\ KeptPart(t)'
        BY <1>1, <2>5, <3>2, CodedKept
      <3>4. RoutePart(t)'
        BY <1>1, <2>6 DEF Parts, RoutePart
      <3> QED
        BY <3>3, <3>4 DEF Parts
    <2>7. CASE /\ Kind[t] = "video" /\ Head(decoderOut[t]) # EndOfStream /\ pending' = pending
               /\ encoderIn'[t] = Append(encoderIn[t], Head(decoderOut[t]))
      <3>1. Cat(encoderIn'[t], decoderOut'[t]) = Cat(encoderIn[t], decoderOut[t])
        <4>1. Cat(Append(encoderIn[t], Head(decoderOut[t])), Tail(decoderOut[t]))
                = Cat(encoderIn[t], decoderOut[t])
          BY <1>4, CatMove DEF Types, Queues
        <4> QED
          BY <1>4, <2>7, <4>1, Zenon
      <3>2. pending[t] = << >>
        BY <2>7 DEF Parts, RoutePart
      <3>3. Coded(t)' = Coded(t)
        BY <1>1, <2>7, <3>1, <3>2, CodedMoved
      <3>4. EndPart(t)' /\ KeptPart(t)'
        BY <1>1, <2>5, <3>3, CodedKept
      <3>5. RoutePart(t)'
        BY <1>1, <2>7 DEF Parts, RoutePart
      <3> QED
        BY <3>4, <3>5 DEF Parts
    <2>8. CASE Kind[t] = "video" /\ encoderIn' = encoderIn /\ pending' = pending
      <3>1. Coded(t)' = Cat(front, Tail(rear))
        <4>1. Coded(t)' = Chain(encoderIn[t], pending[t], Tail(decoderOut[t]), decoderIn[t])
          BY <1>1, <1>4, <2>8 DEF Coded
        <4> QED
          BY <2>1, <4>1
      <3>2. EndPart(t)'
        <4>1. EndsWell(EndOfStream, Coded(t)', endOfStreamSignaled[t])
          BY <2>3, <3>1
        <4>2. Coded(t) # << >>
          BY <2>1, CatSome
        <4>3. EndsWell(Frame(EndOfStream), encoderOut[t],
                       Coded(t)' = << >> /\ endOfStreamSignaled[t])
          BY <4>2 DEF Parts, EndPart, EndsWell
        <4> QED
          BY <1>1, <2>5, <4>1, <4>2, <4>3 DEF Parts, EndPart
      <3>3. KeptPart(t)'
        <4>1. /\ InOrder(Line(t)) /\ AllData(Line(t)) = AllData(HandedBuffers(handed[t]))
                    \cup AllData(EncodedBuffers(encoderOut[t])) \cup AllData(Coded(t))
                    \cup AllData(<<frameData[t], inputBuffer[t]>>)
              /\ InOrder(HandedBuffers(handed[t])) /\ InOrder(EncodedBuffers(encoderOut[t]))
              /\ InOrder(Coded(t)) /\ InOrder(<<frameData[t], inputBuffer[t]>>)
          BY LineParts DEF Parts, KeptPart, Delivers
        <4>2. InOrder(Coded(t)') /\ AllData(Coded(t)') \subseteq AllData(Coded(t))
          BY <2>1, <3>1, <4>1, InOrderDrop
        <4>3. /\ InOrder(Line(t)')
              /\ AllData(Line(t)') = AllData(HandedBuffers(handed[t]))
                    \cup AllData(EncodedBuffers(encoderOut[t])) \cup AllData(Coded(t)')
                    \cup AllData(<<frameData[t], inputBuffer[t]>>)
          <5>1. Queues(Packet(t), HandedBuffers(handed[t]), EncodedBuffers(encoderOut[t]),
                       Coded(t)', <<frameData[t], inputBuffer[t]>>)
            BY <1>1 DEF Types, Packet
          <5>2. Line(t)' = Chain(HandedBuffers(handed[t]), EncodedBuffers(encoderOut[t]), Coded(t)',
                                 <<frameData[t], inputBuffer[t]>>)
            BY <1>1 DEF Line
          <5>3. InOrder(Line(t)')
            BY <4>1, <4>2, <5>1, <5>2, ChainLess DEF Line, Types
          <5>4. AllData(Chain(HandedBuffers(handed[t]), EncodedBuffers(encoderOut[t]), Coded(t)',
                              <<frameData[t], inputBuffer[t]>>))
                  = AllData(HandedBuffers(handed[t]))
                    \cup AllData(EncodedBuffers(encoderOut[t])) \cup AllData(Coded(t)')
                    \cup AllData(<<frameData[t], inputBuffer[t]>>)
            BY <5>1, ChainData
          <5> QED
            BY <5>2, <5>3, <5>4
        <4> QED
          BY <1>1, <2>8, <4>1, <4>2, <4>3 DEF Parts, KeptPart, Delivers
      <3>4. RoutePart(t)'
        BY <1>1, <2>8 DEF Parts, RoutePart
      <3> QED
        BY <3>2, <3>3, <3>4 DEF Parts
    <2> QED
      BY <1>4, <2>6, <2>7, <2>8
  <1> QED
    BY <1>2, <1>3, <1>4

(* The same line when a buffer goes from the codecs to the encoder's       *)
(* output, or from there to the muxer input.                               *)
LEMMA LineKept ==
  ASSUME NEW t \in Tracks, KeptPart(t), Line(t)' = Line(t), readUpTo'[t] = readUpTo[t]
  PROVE  KeptPart(t)'
  BY DEF KeptPart

(* Sequences with the same samples, in the same order.                     *)
Alike(s, t) == (InOrder(s) => InOrder(t)) /\ AllData(t) = AllData(s)

(* No sample goes and none comes.                                          *)
LEMMA KeptLess ==
  ASSUME NEW t \in Tracks, Types(t), Types(t)', KeptPart(t), readUpTo'[t] = readUpTo[t],
         Alike(HandedBuffers(handed[t]), HandedBuffers(handed[t])'),
         Alike(EncodedBuffers(encoderOut[t]), EncodedBuffers(encoderOut[t])'),
         Alike(Coded(t), Coded(t)'),
         Alike(<<frameData[t], inputBuffer[t]>>, <<frameData[t], inputBuffer[t]>>')
  PROVE  KeptPart(t)'
  <1> DEFINE d == HandedBuffers(handed[t])
             e == EncodedBuffers(encoderOut[t])
             q == Coded(t)
             f == <<frameData[t], inputBuffer[t]>>
             d2 == HandedBuffers(handed[t])'
             e2 == EncodedBuffers(encoderOut[t])'
             q2 == Coded(t)'
             f2 == <<frameData[t], inputBuffer[t]>>'
  <1>1. /\ Queues(Packet(t), d, e, q, f) /\ Queues(Packet(t), d2, e2, q2, f2)
        /\ InOrder(Chain(d, e, q, f))
        /\ Line(t) = Chain(d, e, q, f) /\ Line(t)' = Chain(d2, e2, q2, f2)
    BY DEF Types, Line, Packet, Queues, KeptPart, Delivers
  <1>2. Alike(d, d2) /\ Alike(e, e2) /\ Alike(q, q2) /\ Alike(f, f2)
    OBVIOUS
  <1> HIDE DEF d, e, q, f, d2, e2, q2, f2
  <1>3. InOrder(d) /\ InOrder(e) /\ InOrder(q) /\ InOrder(f)
    BY <1>1, ChainParts
  <1>4. InOrder(Chain(d2, e2, q2, f2))
    BY <1>1, <1>3, <1>2, ChainLess DEF Alike
  <1>5. AllData(Chain(d, e, q, f)) = AllData(d) \cup AllData(e) \cup AllData(q) \cup AllData(f)
    BY <1>1, ChainData
  <1>6. AllData(Chain(d2, e2, q2, f2))
          = AllData(d2) \cup AllData(e2) \cup AllData(q2) \cup AllData(f2)
    BY <1>1, ChainData
  <1>7. AllData(Line(t)') = AllData(Line(t))
    BY <1>1, <1>5, <1>6, <1>2 DEF Alike
  <1> QED
    BY <1>1, <1>4, <1>7 DEF KeptPart, Delivers

LEMMA AnnounceDelivers ==
  ASSUME IndInv, NEW t \in Tracks, Types(t), Types(t)', Parts(t), AnnounceFormat(t)
  PROVE  Parts(t)'
  <1>1. /\ encoderIn[t] # << >> /\ ~encoderStarted[t]
        /\ encoderOut'[t] \in {<<FormatChanged>>, <<FormatChanged, CodecConfig>>}
        /\ encoderIn' = encoderIn /\ pending' = pending
        /\ decoderIn' = decoderIn /\ decoderOut' = decoderOut
        /\ handed' = handed /\ frameData' = frameData /\ inputBuffer' = inputBuffer
        /\ readUpTo' = readUpTo /\ endOfCodification' = endOfCodification
        /\ UNCHANGED <<ends, loadCompleted>>
    BY DEF AnnounceFormat, IndInv, Shape, decoder, feeding, output, frames, reading, source
  <1>2. encoderOut[t] = << >>
    BY <1>1 DEF IndInv, TrackPart, FormatPart
  <1>3. Coded(t)' = Coded(t)
    BY <1>1 DEF Coded
  <1>4. Coded(t) # << >>
    BY <1>1, ChainFacts DEF Coded, Types
  <1>5. RoutePart(t)'
    <2>1. IsCodec(t)
      BY <1>1 DEF Parts, RoutePart
    <2> QED
      BY <1>1, <2>1 DEF Parts, RoutePart
  <1>6. EndPart(t)'
    <2>1. \A i \in 1 .. Len(encoderOut'[t]) : encoderOut'[t][i] # Frame(EndOfStream)
      BY <1>1 DEF FormatChanged, CodecConfig, Frame
    <2>2. EndsWell(Frame(EndOfStream), encoderOut'[t], Coded(t)' = << >> /\ endOfStreamSignaled'[t])
      BY <2>1 DEF EndsWell
    <2> QED
      BY <1>1, <1>3, <1>4, <2>2 DEF Parts, EndPart, ends
  <1>7. KeptPart(t)'
    <2> DEFINE e2 == EncodedBuffers(encoderOut[t])'
    <2>1. e2 \in {<< << >> >>, << << >>, << >> >>}
      <3>1. /\ EncodedBuffers(<<FormatChanged>>) = << << >> >>
            /\ EncodedBuffers(<<FormatChanged, CodecConfig>>) = << << >>, << >> >>
        BY DEF EncodedBuffers, FormatChanged, CodecConfig
      <3> QED
        BY <1>1, <3>1
    <2>2. InOrder(e2) /\ AllData(e2) = {}
      BY <2>1, DataOfEmpty DEF InOrder, AllData
    <2>3. EncodedBuffers(encoderOut[t]) = << >>
      BY <1>2 DEF EncodedBuffers
    <2>4. AllData(EncodedBuffers(encoderOut[t])) = {}
      BY <2>3, DataOfEmpty
    <2>5. /\ HandedBuffers(handed[t])' = HandedBuffers(handed[t])
          /\ <<frameData[t], inputBuffer[t]>>' = <<frameData[t], inputBuffer[t]>>
      BY <1>1
    <2>6. /\ Alike(HandedBuffers(handed[t]), HandedBuffers(handed[t])')
          /\ Alike(EncodedBuffers(encoderOut[t]), e2) /\ Alike(Coded(t), Coded(t)')
          /\ Alike(<<frameData[t], inputBuffer[t]>>, <<frameData[t], inputBuffer[t]>>')
      <3> HIDE DEF e2
      <3> QED
        BY <1>3, <2>2, <2>4, <2>5 DEF Alike
    <2>7. KeptPart(t) /\ readUpTo'[t] = readUpTo[t]
      BY <1>1 DEF Parts
    <2> QED
      BY <2>6, <2>7, KeptLess
  <1> QED
    BY <1>5, <1>6, <1>7 DEF Parts

LEMMA EncodeDelivers ==
  ASSUME IndInv, NEW t \in Tracks, Types(t), Types(t)', Parts(t), Encode(t)
  PROVE  Parts(t)'
  <1> DEFINE first == Head(encoderIn[t])
  <1>1. /\ encoderIn[t] # << >> /\ encoderIn'[t] = Tail(encoderIn[t])
        /\ encoderOut'[t] = Append(encoderOut[t], Frame(first))
        /\ pending' = pending /\ decoderIn' = decoderIn /\ decoderOut' = decoderOut
        /\ handed' = handed /\ frameData' = frameData /\ inputBuffer' = inputBuffer
        /\ readUpTo' = readUpTo /\ endOfCodification' = endOfCodification
        /\ UNCHANGED <<ends, loadCompleted>>
    BY DEF Encode, IndInv, Shape, decoder, feeding, output, frames, reading, source
  <1>2. /\ encoderOut[t] \in Seq(Output(t)) /\ encoderIn[t] \in Seq(Buffer(t))
        /\ first \in Buffer(t) /\ Frame(first) \in Output(t)
    BY <1>1, TailElements DEF IndInv, TrackPart, CodecPart, Output, Frame
  <1> HIDE DEF first
  <1>3. Coded(t) # << >> /\ Coded(t) \in Seq(Packet(t))
    BY <1>1, ChainFacts DEF Coded, Types
  <1>4. Coded(t)' = Tail(Coded(t)) /\ first = Head(Coded(t))
    BY <1>1, ChainTail DEF Coded, Types, first
  <1>5. RoutePart(t)'
    <2>1. IsCodec(t)
      BY <1>1 DEF Parts, RoutePart
    <2> QED
      BY <1>1, <2>1 DEF Parts, RoutePart
  <1>6. EndPart(t)'
    <2>1. EndsWell(EndOfStream, Coded(t)', endOfStreamSignaled[t])
      BY <1>3, <1>4, EndsTail DEF Parts, EndPart
    <2>2. ASSUME first = EndOfStream PROVE Coded(t)' = << >> /\ endOfStreamSignaled[t]
      <3>1. EndsWell(EndOfStream, Coded(t), endOfStreamSignaled[t])
        BY DEF Parts, EndPart
      <3>2. Tail(Coded(t)) = << >>
        BY <1>3, <1>4, <2>2, <3>1, EndsHere
      <3>3. endOfStreamSignaled[t]
        BY <1>3, <1>4, <2>2, <3>1, EndsDue
      <3> QED
        BY <1>4, <3>2, <3>3
    <2>3. EndsWell(Frame(EndOfStream), encoderOut[t], FALSE)
      BY <1>3 DEF Parts, EndPart, EndsWell
    <2>4. /\ EndsWell(Frame(EndOfStream), encoderOut'[t], TRUE)
          /\ Frame(first) # Frame(EndOfStream) =>
               EndsWell(Frame(EndOfStream), encoderOut'[t], FALSE)
      BY <1>1, <1>2, <2>3, EndsAppend
    <2>5. Frame(first) = Frame(EndOfStream) => first = EndOfStream
      BY DEF Frame
    <2>6. EndsWell(Frame(EndOfStream), encoderOut'[t], Coded(t)' = << >> /\ endOfStreamSignaled[t])
      BY <2>2, <2>4, <2>5 DEF EndsWell
    <2>7. ~endOfCodification[t]
      BY <1>3 DEF Parts, EndPart
    <2> QED
      BY <1>1, <2>1, <2>6, <2>7 DEF Parts, EndPart, ends
  <1>7. KeptPart(t)'
    <2> DEFINE d == HandedBuffers(handed[t])
               e == EncodedBuffers(encoderOut[t])
               e2 == EncodedBuffers(encoderOut[t])'
               q == Coded(t)
               q2 == Coded(t)'
               f == <<frameData[t], inputBuffer[t]>>
    <2>1. e2 = Append(e, Frame(first).samples)
      BY <1>1, <1>2, EncodedAppend
    <2>2. /\ Queues(Packet(t), d, e, q, f) /\ Queues(Packet(t), d, e2, q2, f)
          /\ Line(t) = Chain(d, e, q, f) /\ Line(t)' = Chain(d, e2, q2, f)
      BY <1>1 DEF Types, Line, Packet, Queues
    <2>3. Frame(first).samples = Head(q) /\ q # << >> /\ q2 = Tail(q)
      BY <1>3, <1>4 DEF Frame
    <2> HIDE DEF d, e, e2, q, q2, f
    <2>4. e2 = Append(e, Head(q))
      BY <2>1, <2>3, Zenon
    <2>5. Cat(Append(e, Head(q)), Tail(q)) = Cat(e, q)
      BY <2>2, <2>3, CatMove DEF Queues
    <2>6. Cat(e2, q2) = Cat(e, q)
      BY <2>3, <2>4, <2>5, Zenon
    <2>7. Chain(d, e2, q2, f) = Chain(d, e, q, f)
      BY <2>2, <2>6, MoveSecondThird
    <2> QED
      BY <1>1, <2>2, <2>7, LineKept DEF Parts
  <1> QED
    BY <1>5, <1>6, <1>7 DEF Parts

LEMMA DrainEncoderDelivers ==
  ASSUME IndInv, NEW t \in Tracks, Types(t), Types(t)', Parts(t), DrainEncoder(t)
  PROVE  Parts(t)'
  <1> DEFINE found == Head(encoderOut[t])
  <1>1. /\ IsCodec(t) /\ encoderIn' = encoderIn /\ pending' = pending
        /\ decoderIn' = decoderIn /\ decoderOut' = decoderOut
        /\ frameData' = frameData /\ inputBuffer' = inputBuffer /\ readUpTo' = readUpTo
        /\ UNCHANGED <<ends, loadCompleted>>
    BY DEF DrainEncoder, decoder, feeding, frames, reading, source
  <1>2. \/ UNCHANGED <<encoderOut, endOfCodification, handed>>
        \/ /\ encoderOut[t] # << >> /\ encoderOut'[t] = Tail(encoderOut[t])
           /\ \/ /\ UNCHANGED <<endOfCodification, handed>>
                 /\ found \in {FormatChanged, CodecConfig}
              \/ /\ endOfCodification'[t] /\ UNCHANGED handed
                 /\ found = Frame(EndOfStream)
              \/ /\ UNCHANGED endOfCodification /\ \E w \in BOOLEAN : handed'[t] =
                      Append(handed[t],
                             [data |-> found.samples, info |-> found.samples, written |-> w])
    <2> DEFINE Take == encoderOut' = [encoderOut EXCEPT ![t] = Tail(@)]
               Handing(w) == [data |-> found.samples, info |-> found.samples, written |-> w]
    <2>1. \/ UNCHANGED <<encoderOut, endOfCodification, handed>>
          \/ /\ encoderOut[t] # << >> /\ Take
             /\ UNCHANGED <<endOfCodification, handed>> /\ found \in {FormatChanged, CodecConfig}
          \/ /\ encoderOut[t] # << >> /\ Take /\ UNCHANGED handed /\ found = Frame(EndOfStream)
             /\ endOfCodification' = [endOfCodification EXCEPT ![t] = TRUE]
          \/ /\ encoderOut[t] # << >> /\ Take /\ UNCHANGED endOfCodification
             /\ OnDataReady(t, found.samples, found.samples, currentNumOfStreams)
      BY DEF DrainEncoder
    <2>2. /\ DOMAIN encoderOut = Tracks /\ DOMAIN endOfCodification = Tracks
          /\ DOMAIN handed = Tracks
      BY DEF IndInv, Shape
    <2>3. Take => encoderOut'[t] = Tail(encoderOut[t])
      BY <2>2
    <2>4. OnDataReady(t, found.samples, found.samples, currentNumOfStreams) =>
            \E w \in BOOLEAN : handed'[t] = Append(handed[t], Handing(w))
      <3> DEFINE n == currentNumOfStreams
      <3> SUFFICES ASSUME OnDataReady(t, found.samples, found.samples, n)
                   PROVE  \E w \in BOOLEAN : handed'[t] = Append(handed[t], Handing(w))
        OBVIOUS
      <3>1. handed'[t] = Append(handed[t], Handing(IsWritten(n)))
        BY <2>2 DEF OnDataReady
      <3>2. IsWritten(n) \in BOOLEAN
        BY DEF IsWritten
      <3> HIDE DEF Handing
      <3> QED
        BY <3>1, <3>2
    <2>5. endOfCodification' = [endOfCodification EXCEPT ![t] = TRUE] => endOfCodification'[t]
      BY <2>2
    <2> HIDE DEF Take, found
    <2> QED
      BY <2>1, <2>3, <2>4, <2>5
  <1>3. Coded(t)' = Coded(t)
    BY <1>1 DEF Coded
  <1>4. RoutePart(t)'
    BY <1>1 DEF Parts, RoutePart
  <1>5. CASE UNCHANGED <<encoderOut, endOfCodification, handed>>
    BY <1>1, <1>5, UntouchedKept DEF Untouched, ends
  <1>6. CASE /\ encoderOut[t] # << >> /\ encoderOut'[t] = Tail(encoderOut[t])
             /\ ~UNCHANGED <<encoderOut, endOfCodification, handed>>
    <2>1. encoderOut[t] \in Seq(Output(t)) /\ found \in Output(t)
      BY <1>6, TailElements DEF IndInv, TrackPart, CodecPart
    <2>2. ~endOfCodification[t]
      BY <1>6 DEF Parts, EndPart
    <2>3. EndsWell(Frame(EndOfStream), encoderOut[t], Coded(t) = << >> /\ endOfStreamSignaled[t])
      BY DEF Parts, EndPart
    <2>4. EndsWell(Frame(EndOfStream), Tail(encoderOut[t]),
                   Coded(t) = << >> /\ endOfStreamSignaled[t])
      BY <1>6, <2>1, <2>3, EndsTail
    <2>5. ASSUME found = Frame(EndOfStream)
          PROVE  Tail(encoderOut[t]) = << >> /\ Coded(t) = << >> /\ endOfStreamSignaled[t]
      <3>1. Tail(encoderOut[t]) = << >>
        BY <1>6, <2>1, <2>3, <2>5, EndsHere
      <3>2. Coded(t) = << >> /\ endOfStreamSignaled[t]
        BY <1>6, <2>1, <2>3, <2>5, EndsDue
      <3> QED
        BY <3>1, <3>2
    <2>6. EndPart(t)'
      <3>1. endOfCodification'[t] => found = Frame(EndOfStream)
        BY <1>2, <1>6, <2>2
      <3> HIDE DEF found
      <3> QED
        BY <1>1, <1>3, <1>6, <2>4, <2>5, <3>1 DEF Parts, EndPart, ends
    <2> DEFINE d == HandedBuffers(handed[t])
               d2 == HandedBuffers(handed[t])'
               e == EncodedBuffers(encoderOut[t])
               e2 == EncodedBuffers(encoderOut[t])'
               q == Coded(t)
               f == <<frameData[t], inputBuffer[t]>>
    <2>7. e # << >> /\ e2 = Tail(e) /\ Head(e) = found.samples
      BY <1>6, <2>1, EncodedTail
    <2>8. /\ Queues(Packet(t), d, e, q, f) /\ Queues(Packet(t), d2, e2, q, f)
          /\ Line(t) = Chain(d, e, q, f) /\ Line(t)' = Chain(d2, e2, q, f)
      BY <1>1, <1>3 DEF Types, Line, Packet, Queues
    <2>9. KeptPart(t)'
      <3>1. CASE UNCHANGED handed /\ found.samples = << >>
        <4>1. d2 = d /\ Data(Head(e)) = {}
          BY <2>7, <3>1, DataOfEmpty
        <4>2. AllData(e2) = AllData(e) /\ (InOrder(e) => InOrder(e2))
          <5>1. e \in Seq(Packet(t))
            BY <2>8 DEF Queues
          <5> HIDE DEF e, e2
          <5> QED
            BY <2>7, <4>1, <5>1, BuffersTail
        <4>3. /\ Coded(t)' = Coded(t)
              /\ <<frameData[t], inputBuffer[t]>>' = <<frameData[t], inputBuffer[t]>>
          BY <1>1, <1>3
        <4>4. /\ Alike(d, d2) /\ Alike(e, e2) /\ Alike(Coded(t), Coded(t)')
              /\ Alike(<<frameData[t], inputBuffer[t]>>, <<frameData[t], inputBuffer[t]>>')
          <5> HIDE DEF d, d2, e, e2
          <5> QED
            BY <4>1, <4>2, <4>3 DEF Alike
        <4>5. KeptPart(t) /\ readUpTo'[t] = readUpTo[t]
          BY <1>1 DEF Parts
        <4> QED
          BY <4>4, <4>5, KeptLess
      <3>2. CASE \E w \in BOOLEAN : handed'[t] =
                   Append(handed[t],
                          [data |-> found.samples, info |-> found.samples, written |-> w])
        <4>1. PICK w \in BOOLEAN : handed'[t] =
                Append(handed[t], [data |-> found.samples, info |-> found.samples, written |-> w])
          BY <3>2
        <4> DEFINE h == [data |-> found.samples, info |-> found.samples, written |-> w]
        <4>2. h \in Handover(t) /\ handed[t] \in Seq(Handover(t)) /\ h.data = found.samples
          BY <2>1 DEF Handover, Output, IndInv, TrackPart, HandedPart
        <4> HIDE DEF h, found
        <4>3. d2 = Append(d, Head(e))
          <5>1. HandedBuffers(Append(handed[t], h)) = Append(HandedBuffers(handed[t]), h.data)
            BY <4>2, HandedAppend
          <5>2. HandedBuffers(handed[t])' = HandedBuffers(Append(handed[t], h))
            BY <4>1 DEF h
          <5> QED
            BY <2>7, <4>2, <5>1, <5>2, Zenon
        <4> HIDE DEF d, d2, e, e2, q, f
        <4>4. Cat(Append(d, Head(e)), Tail(e)) = Cat(d, e)
          BY <2>7, <2>8, CatMove DEF Queues
        <4>5. Cat(d2, e2) = Cat(d, e)
          BY <2>7, <4>3, <4>4, Zenon
        <4>6. Line(t)' = Line(t)
          BY <2>8, <4>5, MoveFirstSecond
        <4> QED
          BY <1>1, <4>6, LineKept DEF Parts
      <3>3. ASSUME found \in {FormatChanged, CodecConfig, Frame(EndOfStream)}
            PROVE  found.samples = << >>
        BY <3>3 DEF FormatChanged, CodecConfig, Frame, EndOfStream
      <3> HIDE DEF found, d, d2, e, e2, q, f
      <3> QED
        BY <1>2, <1>6, <3>1, <3>2, <3>3
    <2> QED
      BY <1>4, <2>6, <2>9 DEF Parts
  <1> QED
    BY <1>2, <1>5, <1>6

LEMMA ChainJoin ==
  ASSUME NEW S, NEW e, NEW p, NEW o, NEW i, Queues(S, e, p, o, i),
         InOrder(e), InOrder(p), InOrder(o), InOrder(i),
         Before(AllData(e), AllData(p)), Before(AllData(e) \cup AllData(p), AllData(o)),
         Before(AllData(e) \cup AllData(p) \cup AllData(o), AllData(i))
  PROVE  InOrder(Chain(e, p, o, i))
  BY ChainInOrder

LEMMA CountIsNat == IndInv => currentNumOfStreams \in Nat
  BY TypesOfInd, TrackFacts DEF TypeOK

LEMMA DrainPassThroughDelivers ==
  ASSUME IndInv, NEW t \in Tracks, Types(t), Types(t)', Parts(t), DrainPassThrough(t)
  PROVE  Parts(t)'
  <1>1. /\ ~IsCodec(t) /\ encoderIn' = encoderIn /\ pending' = pending
        /\ decoderIn' = decoderIn /\ decoderOut' = decoderOut /\ encoderOut' = encoderOut
        /\ inputBuffer' = inputBuffer /\ readUpTo' = readUpTo
        /\ endOfCodification' = endOfCodification
        /\ UNCHANGED <<ends, loadCompleted>>
    BY DEF DrainPassThrough, IsCodec, decoder, encoder, feeding, reading, source
  <1>2. DOMAIN frameData = Tracks /\ DOMAIN handed = Tracks
    BY DEF IndInv, Shape
  <1> DEFINE Sent(k) == /\ frameData[t] = <<k>> /\ frameData'[t] = << >>
                        /\ \E h \in Handover(t) : /\ h.data = <<k>>
                                                  /\ handed'[t] = Append(handed[t], h)
  <1>3. \/ UNCHANGED <<frameData, handed>>
        \/ /\ UNCHANGED handed /\ frameData'[t] = << >>
           /\ frameData[t] = << >> \/ frameData[t] = <<NoData>>
        \/ \E k \in Samples(t) : Sent(k)
    <2>1. \/ frameData[t] = << >> /\ frameInfo[t] = << >>
          \/ frameData[t] = <<NoData>>
          \/ \E k \in Samples(t) : frameData[t] = <<k>> /\ frameInfo[t] = <<k>>
      BY DEF IndInv, TrackPart, FramePart
    <2>2. ASSUME NEW k \in Samples(t), frameData[t] = <<k>>, frameInfo[t] = <<k>>
          PROVE  UNCHANGED <<frameData, handed>> \/ Sent(k)
      <3>1. Head(frameData[t]) = k /\ Head(frameInfo[t]) = k /\ k # NoData
            /\ frameData[t] # << >> /\ frameInfo[t] # << >> /\ Tail(frameData[t]) = << >>
        BY <2>2 DEF Samples, NoData
      <3>2. \/ UNCHANGED <<frames, output>>
            \/ /\ frameData' = DataAfterPoll(t)
               /\ \E n \in {currentNumOfStreams, currentNumOfStreams + 1} :
                    OnDataReady(t, <<k>>, <<k>>, n)
        <4> DEFINE n == currentNumOfStreams + (IF formatRegistered[t] THEN 0 ELSE 1)
                   a == Head(frameData[t])
                   b == Head(frameInfo[t])
        <4>1. \/ UNCHANGED <<frames, output>>
              \/ ~(frameData[t] # << >> /\ frameInfo[t] # << >> /\ a # NoData)
              \/ frameData' = DataAfterPoll(t) /\ OnDataReady(t, <<a>>, <<b>>, n)
          BY DEF DrainPassThrough
        <4>2. a = k /\ b = k
          BY <3>1
        <4>3. n \in {currentNumOfStreams, currentNumOfStreams + 1}
          BY CountIsNat
        <4> HIDE DEF n, a, b
        <4> QED
          BY <3>1, <4>1, <4>2, <4>3
      <3>3. ASSUME frameData' = DataAfterPoll(t),
                   NEW n, OnDataReady(t, <<k>>, <<k>>, n)
            PROVE  Sent(k)
        <4> DEFINE h == [data |-> <<k>>, info |-> <<k>>, written |-> IsWritten(n)]
        <4>1. h \in Handover(t) /\ h.data = <<k>>
          BY Singletons DEF Handover, Buffer, IsWritten
        <4>2. handed'[t] = Append(handed[t], h)
          BY <1>2, <3>3 DEF OnDataReady
        <4>3. frameData'[t] = << >>
          BY <1>2, <3>1, <3>3 DEF DataAfterPoll
        <4> HIDE DEF h
        <4> QED
          BY <2>2, <4>1, <4>2, <4>3
      <3> QED
        BY <3>2, <3>3 DEF frames, output
    <2>3. ASSUME frameData[t] = << >> \/ frameData[t] = <<NoData>>
          PROVE  \/ UNCHANGED <<frameData, handed>>
                 \/ UNCHANGED handed /\ frameData'[t] = << >>
      <3>1. frameData[t] = << >> \/ Head(frameData[t]) = NoData
        BY <2>3
      <3>2. \/ UNCHANGED <<frames, output>>
            \/ UNCHANGED handed /\ frameData' = DataAfterPoll(t)
        BY <3>1 DEF DrainPassThrough
      <3>3. frameData' = DataAfterPoll(t) => frameData'[t] = << >>
        BY <1>2, <2>3 DEF DataAfterPoll
      <3> QED
        BY <3>2, <3>3 DEF frames, output
    <2> HIDE DEF Sent
    <2> QED
      BY <2>1, <2>2, <2>3
  <1>4. CASE UNCHANGED <<frameData, handed>>
    BY <1>1, <1>4, UntouchedKept DEF Untouched, ends
  <1>5. Coded(t)' = Coded(t)
    BY <1>1 DEF Coded
  <1>6. RoutePart(t)' /\ EndPart(t)'
    BY <1>1, <1>5 DEF Parts, RoutePart, EndPart, ends
  <1> DEFINE d == HandedBuffers(handed[t])
             d2 == HandedBuffers(handed[t])'
             e == EncodedBuffers(encoderOut[t])
             q == Coded(t)
             f == <<frameData[t], inputBuffer[t]>>
             f2 == << << >>, inputBuffer[t]>>
  <1>7. << >> \in Packet(t) /\ inputBuffer[t] \in Packet(t) /\ frameData[t] \in Packet(t)
    BY Singletons DEF Packet, Types
  <1>8. /\ AllData(f) = Data(frameData[t]) \cup Data(inputBuffer[t])
        /\ InOrder(f) <=> /\ Increasing(frameData[t]) /\ Increasing(inputBuffer[t])
                          /\ Before(Data(frameData[t]), Data(inputBuffer[t]))
    BY <1>7, TwoBuffers
  <1>9. /\ AllData(f2) = Data(inputBuffer[t])
        /\ InOrder(f2) <=> Increasing(inputBuffer[t])
    <2>1. /\ AllData(f2) = Data(<< >>) \cup Data(inputBuffer[t])
          /\ InOrder(f2) <=> /\ Increasing(<< >>) /\ Increasing(inputBuffer[t])
                             /\ Before(Data(<< >>), Data(inputBuffer[t]))
      BY <1>7, TwoBuffers
    <2> HIDE DEF f2
    <2> QED
      BY <2>1, DataOfEmpty DEF Before
  <1>10. CASE /\ UNCHANGED handed /\ frameData'[t] = << >>
              /\ frameData[t] = << >> \/ frameData[t] = <<NoData>>
    <2>1. Data(frameData[t]) = {}
      BY <1>10, DataOfEmpty
    <2>2. AllData(f2) = AllData(f) /\ (InOrder(f) => InOrder(f2))
      <3> HIDE DEF f, f2
      <3> QED
        BY <1>8, <1>9, <2>1
    <2>3. /\ HandedBuffers(handed[t])' = HandedBuffers(handed[t])
          /\ EncodedBuffers(encoderOut[t])' = EncodedBuffers(encoderOut[t])
          /\ <<frameData[t], inputBuffer[t]>>' = f2
      BY <1>1, <1>10
    <2>4. /\ Alike(HandedBuffers(handed[t]), HandedBuffers(handed[t])')
          /\ Alike(EncodedBuffers(encoderOut[t]), EncodedBuffers(encoderOut[t])')
          /\ Alike(Coded(t), Coded(t)')
          /\ Alike(<<frameData[t], inputBuffer[t]>>, <<frameData[t], inputBuffer[t]>>')
      <3> HIDE DEF f2
      <3> QED
        BY <1>5, <2>2, <2>3 DEF Alike, f
    <2>5. KeptPart(t) /\ readUpTo'[t] = readUpTo[t]
      BY <1>1 DEF Parts
    <2>6. KeptPart(t)'
      BY <2>4, <2>5, KeptLess
    <2> QED
      BY <1>6, <2>6 DEF Parts
  <1>11. CASE \E k \in Samples(t) : Sent(k)
    <2>1. PICK k \in Samples(t), h \in Handover(t) :
            /\ frameData[t] = <<k>> /\ frameData'[t] = << >>
            /\ h.data = <<k>> /\ handed'[t] = Append(handed[t], h)
      BY <1>11
    <2>2. k \in Nat \ {0} /\ Data(<<k>>) = {k} /\ Increasing(<<k>>)
      BY DataOfEmpty DEF Samples
    <2>3. d2 = Append(d, <<k>>)
      <3>1. handed[t] \in Seq(Handover(t))
        BY DEF IndInv, TrackPart, HandedPart
      <3>2. HandedBuffers(Append(handed[t], h)) = Append(HandedBuffers(handed[t]), h.data)
        BY <3>1, HandedAppend
      <3> QED
        BY <2>1, <3>2, Zenon
    <2>4. /\ Queues(Packet(t), d, e, q, f) /\ Queues(Packet(t), d2, e, q, f2)
          /\ Line(t) = Chain(d, e, q, f) /\ Line(t)' = Chain(d2, e, q, f2)
      BY <1>1, <1>5, <2>1 DEF Types, Line, Packet, Queues
    <2>5. AllData(e) = {} /\ AllData(q) = {}
      <3>1. e = << >>
        BY <1>1 DEF Parts, RoutePart, EncodedBuffers
      <3>2. q = << >>
        <4>1. /\ encoderIn[t] = << >> /\ pending[t] = << >>
              /\ decoderOut[t] = << >> /\ decoderIn[t] = << >>
          BY <1>1 DEF Parts, RoutePart
        <4>2. Chain(encoderIn[t], pending[t], decoderOut[t], decoderIn[t]) = << >>
          BY <4>1, ChainFacts DEF Types
        <4> QED
          BY <4>2 DEF Coded
      <3> QED
        BY <3>1, <3>2, DataOfEmpty
    <2>6. <<k>> \in Packet(t)
      BY <1>7, <2>1
    <2>7. /\ Data(frameData[t]) = {k} /\ f = << <<k>>, inputBuffer[t]>>
      BY <2>1, <2>2
    <2> HIDE DEF d, d2, e, q, f, f2
    <2>8. /\ InOrder(Line(t)) /\ InOrder(d) /\ InOrder(e) /\ InOrder(q) /\ InOrder(f)
          /\ Before(AllData(d), AllData(e))
          /\ Before(AllData(d) \cup AllData(e), AllData(q))
          /\ Before(AllData(d) \cup AllData(e) \cup AllData(q), AllData(f))
      <3>1. InOrder(Chain(d, e, q, f)) /\ InOrder(Line(t))
        BY <2>4 DEF Parts, KeptPart, Delivers
      <3> QED
        BY <2>4, <3>1, ChainParts
    <2>9. /\ AllData(d2) = AllData(d) \cup {k}
          /\ InOrder(d2) <=> InOrder(d) /\ Increasing(<<k>>) /\ Before(AllData(d), {k})
      <3>1. d \in Seq(Packet(t))
        BY <2>4 DEF Queues
      <3>2. /\ AllData(Append(d, <<k>>)) = AllData(d) \cup Data(<<k>>)
            /\ InOrder(Append(d, <<k>>)) <=>
                 InOrder(d) /\ Increasing(<<k>>) /\ Before(AllData(d), Data(<<k>>))
        BY <2>6, <3>1, BuffersAppend
      <3> QED
        BY <2>2, <2>3, <3>2
    <2>10. InOrder(d2) /\ InOrder(f2)
      BY <1>8, <1>9, <2>2, <2>7, <2>8, <2>9 DEF Before
    <2>11. Before(AllData(d2), AllData(f2))
      BY <1>8, <1>9, <2>7, <2>8, <2>9 DEF Before
    <2>12. InOrder(Chain(d2, e, q, f2))
      <3>1. /\ Before(AllData(d2), AllData(e)) /\ Before(AllData(d2) \cup AllData(e), AllData(q))
            /\ Before(AllData(d2) \cup AllData(e) \cup AllData(q), AllData(f2))
        BY <2>5, <2>11 DEF Before
      <3> QED
        BY <2>4, <2>8, <2>10, <3>1, ChainJoin
    <2>13. AllData(Line(t)') = AllData(Line(t))
      <3>1. AllData(Chain(d, e, q, f)) = AllData(d) \cup AllData(e) \cup AllData(q) \cup AllData(f)
        BY <2>4, ChainData
      <3>2. AllData(Chain(d2, e, q, f2))
              = AllData(d2) \cup AllData(e) \cup AllData(q) \cup AllData(f2)
        BY <2>4, ChainData
      <3> QED
        BY <1>8, <1>9, <2>4, <2>7, <2>9, <3>1, <3>2
    <2>14. KeptPart(t)'
      BY <1>1, <2>4, <2>12, <2>13 DEF Parts, KeptPart, Delivers
    <2> QED
      BY <1>6, <2>14 DEF Parts
  <1> HIDE DEF Sent
  <1> QED
    BY <1>3, <1>4, <1>10, <1>11

(* What is read next comes behind all the rest.                            *)
LEMMA DataNumbers ==
  ASSUME NEW t \in Tracks, NEW buffers \in Seq(Packet(t))
  PROVE  AllData(buffers) \subseteq Nat
  <1>1. ASSUME NEW i \in DOMAIN buffers PROVE Data(buffers[i]) \subseteq Nat
    <2>1. buffers[i] \in Seq(0 .. Len(Times[t])) /\ Len(Times[t]) \in Nat
      BY ElementOfSeq, LenProperties, TrackFacts DEF Packet
    <2>2. \A j \in DOMAIN buffers[i] : buffers[i][j] \in Nat
      BY <2>1, ElementOfSeq, LenProperties
    <2> QED
      BY <2>2 DEF Data, Range
  <1> QED
    BY <1>1 DEF AllData

(* With q and f for what is in the codecs and in the renderer, q2 and f2   *)
(* after a step: what was read is added behind the rest, if it is not      *)
(* decode-only, and nothing but decode-only samples goes.                  *)
Growth(t, q, f, q2, f2, next) ==
  /\ KeptPart(t) /\ handed'[t] = handed[t] /\ encoderOut'[t] = encoderOut[t]
  /\ q = Coded(t) /\ q2 = Coded(t)'
  /\ f = <<frameData[t], inputBuffer[t]>> /\ f2 = <<frameData[t], inputBuffer[t]>>'
  /\ next = readUpTo[t] + 1 /\ readUpTo'[t] \in {readUpTo[t], next}
  /\ InOrder(q2) /\ InOrder(f2) /\ Before(AllData(q2), AllData(f2))
  /\ \A k \in AllData(q2) \cup AllData(f2) :
       k \in AllData(q) \cup AllData(f) \/ (k = next /\ readUpTo'[t] = next)
  /\ Kind[t] # "video" =>
       /\ \A k \in AllData(q) \cup AllData(f) :
            IsDecodeOnly(t, k) \/ k \in AllData(q2) \cup AllData(f2)
       /\ readUpTo'[t] = next => IsDecodeOnly(t, next) \/ next \in AllData(q2) \cup AllData(f2)

LEMMA Grows ==
  ASSUME NEW t \in Tracks, Types(t), Types(t)', NEW q, NEW f, NEW q2, NEW f2, NEW next,
         Growth(t, q, f, q2, f2, next)
  PROVE  KeptPart(t)'
  <1> USE DEF Growth
  <1> DEFINE d == HandedBuffers(handed[t])
             e == EncodedBuffers(encoderOut[t])
             n == readUpTo[t]
             n2 == readUpTo'[t]
             old == AllData(q) \cup AllData(f)
             new == AllData(q2) \cup AllData(f2)
  <1>1. /\ Queues(Packet(t), d, e, q, f) /\ Queues(Packet(t), d, e, q2, f2)
        /\ Line(t) = Chain(d, e, q, f) /\ Line(t)' = Chain(d, e, q2, f2)
    BY DEF Types, Line, Packet, Queues
  <1>2. /\ InOrder(Line(t)) /\ \A k \in AllData(Line(t)) : k <= n
        /\ Kind[t] # "video" => \A k \in 1 .. n : IsDecodeOnly(t, k) \/ k \in AllData(Line(t))
    BY DEF KeptPart, Delivers
  <1>3. n \in Nat
    BY DEF Types
  <1> HIDE DEF d, e, n, n2
  <1>4. /\ InOrder(d) /\ InOrder(e) /\ Before(AllData(d), AllData(e))
        /\ Before(AllData(d) \cup AllData(e), AllData(q))
        /\ Before(AllData(d) \cup AllData(e) \cup AllData(q), AllData(f))
    <2>1. Queues(Packet(t), d, e, q, f) /\ InOrder(Chain(d, e, q, f))
      BY <1>1, <1>2
    <2> QED
      BY <2>1, ChainParts
  <1>5. AllData(Line(t)) = AllData(d) \cup AllData(e) \cup AllData(q) \cup AllData(f)
    BY <1>1, ChainData
  <1>6. AllData(Line(t)') = AllData(d) \cup AllData(e) \cup AllData(q2) \cup AllData(f2)
    BY <1>1, ChainData
  <1>7. AllData(Line(t)) \subseteq Nat
    BY <1>1, ChainFacts, DataNumbers
  <1>8. next = n + 1 /\ n2 \in {n, next}
    BY DEF n, n2
  <1>9. /\ \A k \in new : k \in old \/ (k = next /\ n2 = next)
        /\ Kind[t] # "video" =>
             /\ \A k \in old : IsDecodeOnly(t, k) \/ k \in new
             /\ n2 = next => IsDecodeOnly(t, next) \/ next \in new
    BY DEF n2
  <1>10. AllData(Line(t)) = AllData(d) \cup AllData(e) \cup old
    BY <1>5
  <1>11. Before(AllData(d) \cup AllData(e), old)
    BY <1>4 DEF Before
  <1> HIDE DEF old, new
  <1>12. Before(AllData(d) \cup AllData(e), new)
    <2>1. ASSUME NEW k \in AllData(d) \cup AllData(e), NEW l \in new PROVE k < l
      <3>1. CASE l \in old
        BY <1>11, <3>1 DEF Before
      <3>2. CASE l = next
        BY <1>2, <1>3, <1>7, <1>8, <1>10, <3>2
      <3> QED
        BY <1>9, <3>1, <3>2
    <2> QED
      BY <2>1 DEF Before
  <1>13. /\ Before(AllData(d) \cup AllData(e), AllData(q2))
         /\ Before(AllData(d) \cup AllData(e) \cup AllData(q2), AllData(f2))
    BY <1>12 DEF Before, new
  <1>14. InOrder(Line(t)')
    BY <1>1, <1>4, <1>13, ChainJoin
  <1>15. AllData(Line(t)') = AllData(d) \cup AllData(e) \cup new
    BY <1>6 DEF new
  <1>16. ASSUME NEW k \in AllData(Line(t)') PROVE k <= n2
    <2>1. CASE k \in AllData(Line(t))
      BY <1>2, <1>3, <1>7, <1>8, <2>1
    <2>2. CASE k = next /\ n2 = next
      BY <1>3, <1>8, <2>2
    <2> QED
      BY <1>9, <1>10, <1>15, <2>1, <2>2
  <1>17. ASSUME Kind[t] # "video", NEW k \in 1 .. n2
         PROVE  IsDecodeOnly(t, k) \/ k \in AllData(Line(t)')
    <2>1. CASE k \in 1 .. n
      BY <1>2, <1>9, <1>10, <1>15, <1>17, <2>1
    <2>2. CASE k = next /\ n2 = next
      BY <1>9, <1>15, <1>17, <2>2
    <2> QED
      BY <1>3, <1>8, <1>17, <2>1, <2>2
  <1> QED
    BY <1>14, <1>16, <1>17 DEF KeptPart, Delivers, n2

-----------------------------------------------------------------------------
(* Reading.                                                                *)

(* A pass-through renderer, whose queues are empty, gets hold of sample k, *)
(* or of a buffer without data, and passes it on or keeps it.              *)
LEMMA PassThroughDelivers ==
  ASSUME NEW t \in Tracks, Types(t), Types(t)', Parts(t), ~IsCodec(t),
         UNCHANGED <<encoderIn, pending, decoderIn, decoderOut, encoderOut, handed,
                     endOfCodification, ends, loadCompleted>>,
         frameData[t] = << >>,
         NEW k, \/ frameData'[t] = << >> /\ inputBuffer'[t] = <<k>>
                \/ frameData'[t] = <<k>> /\ inputBuffer'[t] = << >>,
         \/ readUpTo'[t] = readUpTo[t] /\ inputBuffer[t] = <<k>>
         \/ readUpTo'[t] = readUpTo[t] /\ inputBuffer[t] = << >> /\ k = NoData
         \/ readUpTo'[t] = readUpTo[t] + 1 /\ inputBuffer[t] = << >> /\ k = readUpTo[t] + 1
  PROVE  Parts(t)'
  <1>1. Coded(t)' = Coded(t)
    BY DEF Coded
  <1>2. RoutePart(t)' /\ EndPart(t)'
    BY <1>1 DEF Parts, RoutePart, EndPart, ends
  <1> DEFINE q == Coded(t)
             f == <<frameData[t], inputBuffer[t]>>
             f2 == <<frameData[t], inputBuffer[t]>>'
             next == readUpTo[t] + 1
  <1>3. readUpTo[t] \in Nat /\ inputBuffer[t] \in Packet(t) /\ << >> \in Packet(t)
        /\ frameData'[t] \in Packet(t) /\ inputBuffer'[t] \in Packet(t)
    BY Singletons DEF Types, Packet
  <1>4. /\ AllData(f) = Data(frameData[t]) \cup Data(inputBuffer[t])
        /\ AllData(f2) = Data(frameData'[t]) \cup Data(inputBuffer'[t])
        /\ InOrder(f2) <=> /\ Increasing(frameData'[t]) /\ Increasing(inputBuffer'[t])
                           /\ Before(Data(frameData'[t]), Data(inputBuffer'[t]))
    BY <1>3, TwoBuffers
  <1>5. Data(<< >>) = {} /\ Increasing(<< >>) /\ Increasing(<<k>>)
    BY DataOfEmpty
  <1> HIDE DEF q, f, f2
  <1>6. AllData(f) = Data(inputBuffer[t]) /\ AllData(f2) = Data(<<k>>) /\ InOrder(f2)
    BY <1>4, <1>5 DEF Before
  <1>7. \/ readUpTo'[t] = readUpTo[t] /\ AllData(f) = AllData(f2)
        \/ readUpTo'[t] = next /\ AllData(f) = {} /\ AllData(f2) = {next}
    <2>1. k = NoData => Data(<<k>>) = {}
      BY DataOfEmpty
    <2>2. k = next => Data(<<k>>) = {next}
      BY <1>3, DataOfEmpty
    <2> QED
      BY <1>5, <1>6, <2>1, <2>2
  <1>8. InOrder(q) /\ Before(AllData(q), AllData(f2))
    <2>1. InOrder(q) /\ AllData(q) = {}
      <3>1. /\ encoderIn[t] = << >> /\ pending[t] = << >>
            /\ decoderOut[t] = << >> /\ decoderIn[t] = << >>
        BY DEF Parts, RoutePart
      <3>2. Chain(encoderIn[t], pending[t], decoderOut[t], decoderIn[t]) = << >>
        BY <3>1, ChainFacts DEF Types
      <3> QED
        BY <3>2, DataOfEmpty DEF Coded, q
    <2> QED
      BY <2>1 DEF Before
  <1> HIDE DEF next
  <1>9. KeptPart(t)'
    <2>1. q = Coded(t) /\ q = Coded(t)' /\ KeptPart(t)
      BY <1>1 DEF q, Parts
    <2>2. /\ readUpTo'[t] \in {readUpTo[t], next}
          /\ \A l \in AllData(q) \cup AllData(f2) :
               l \in AllData(q) \cup AllData(f) \/ (l = next /\ readUpTo'[t] = next)
          /\ \A l \in AllData(q) \cup AllData(f) :
               IsDecodeOnly(t, l) \/ l \in AllData(q) \cup AllData(f2)
      BY <1>7
    <2>3. readUpTo'[t] = next => next \in AllData(q) \cup AllData(f2)
      BY <1>3, <1>7 DEF next
    <2>4. /\ f = <<frameData[t], inputBuffer[t]>> /\ f2 = <<frameData[t], inputBuffer[t]>>'
          /\ next = readUpTo[t] + 1
      BY DEF f, f2, next
    <2>5. Growth(t, q, f, q, f2, next)
      BY <1>6, <1>8, <2>1, <2>2, <2>3, <2>4 DEF Growth
    <2> QED
      BY <2>5, Grows
  <1> QED
    BY <1>2, <1>9 DEF Parts

LEMMA PassOnOutcome ==
  ASSUME IndInv, NEW t \in Tracks, frameData[t] = << >>, NEW k, PassOn(t, k)
  PROVE  \/ frameData'[t] = << >> /\ inputBuffer'[t] = <<k>>
         \/ frameData'[t] = <<k>> /\ inputBuffer'[t] = << >>
  <1>1. \/ inputBuffer' = [inputBuffer EXCEPT ![t] = <<k>>] /\ UNCHANGED frames
        \/ /\ inputBuffer' = [inputBuffer EXCEPT ![t] = << >>]
           /\ frameData' = [frameData EXCEPT ![t] = Append(@, k)]
    BY DEF PassOn, HeldForLater
  <1>2. DOMAIN inputBuffer = Tracks /\ DOMAIN frameData = Tracks
    BY DEF IndInv, Shape
  <1>3. Append(<< >>, k) = <<k>>
    BY Singletons
  <1> QED
    BY <1>1, <1>2, <1>3 DEF frames

LEMMA FeedPassThroughDelivers ==
  ASSUME IndInv, NEW t \in Tracks, Types(t), Types(t)', Parts(t), FeedPassThrough(t)
  PROVE  Parts(t)'
  <1> DEFINE next == readUpTo[t] + 1
  <1>1. /\ turn = t /\ call = "feedRenderer" /\ ~IsCodec(t)
        /\ UNCHANGED <<encoderIn, pending, decoderIn, decoderOut, encoderOut, handed,
                       endOfCodification, ends, loadCompleted>>
    BY DEF FeedPassThrough, IsCodec, decoder, encoder, feeding, output, source
  <1>2. frameData[t] = << >>
    BY <1>1 DEF IndInv, LoopPart, AfterDrain
  <1>3. DOMAIN inputBuffer = Tracks /\ DOMAIN readUpTo = Tracks
    BY DEF IndInv, Shape
  <1>4. CASE UNCHANGED <<readUpTo, inputBuffer, frames>>
    BY <1>1, <1>4, UntouchedKept DEF Untouched, ends, frames
  <1>5. CASE inputBuffer[t] # << >> /\ PassOn(t, Head(inputBuffer[t])) /\ UNCHANGED readUpTo
    <2>1. PICK k : inputBuffer[t] = <<k>>
      BY <1>1, <1>5 DEF IndInv, TrackPart, ReadPart
    <2>2. PassOn(t, k)
      BY <1>5, <2>1, Singletons
    <2>3. \/ frameData'[t] = << >> /\ inputBuffer'[t] = <<k>>
          \/ frameData'[t] = <<k>> /\ inputBuffer'[t] = << >>
      BY <1>2, <2>2, PassOnOutcome
    <2> QED
      BY <1>1, <1>2, <1>5, <2>1, <2>3, PassThroughDelivers
  <1>6. CASE /\ inputBuffer[t] = << >> /\ readUpTo' = [readUpTo EXCEPT ![t] = next]
             /\ PassOn(t, next)
    <2>1. readUpTo'[t] = next
      BY <1>3, <1>6
    <2>2. \/ frameData'[t] = << >> /\ inputBuffer'[t] = <<next>>
          \/ frameData'[t] = <<next>> /\ inputBuffer'[t] = << >>
      <3> HIDE DEF next
      <3> QED
        BY <1>2, <1>6, PassOnOutcome
    <2> QED
      BY <1>1, <1>2, <1>6, <2>1, <2>2, PassThroughDelivers
  <1>7. CASE /\ readUpTo' = [readUpTo EXCEPT ![t] = next] /\ IsDecodeOnly(t, next)
             /\ UNCHANGED <<inputBuffer, frames>>
    <2>1. readUpTo'[t] = next /\ readUpTo[t] \in Nat
      BY <1>3, <1>7 DEF Types
    <2>2. Coded(t)' = Coded(t) /\ Line(t)' = Line(t)
      BY <1>1, <1>7 DEF Coded, Line, frames
    <2>3. RoutePart(t)' /\ EndPart(t)'
      BY <1>1, <1>7, <2>2 DEF Parts, RoutePart, EndPart, ends
    <2>4. AllData(Line(t)) \subseteq Nat
      BY ChainFacts, DataNumbers DEF Types, Line
    <2>5. KeptPart(t)'
      BY <1>7, <2>1, <2>2, <2>4 DEF Parts, KeptPart, Delivers
    <2> QED
      BY <2>3, <2>5 DEF Parts
  <1>8. CASE /\ inputBuffer[t] = << >> /\ inputBuffer' = [inputBuffer EXCEPT ![t] = <<NoData>>]
             /\ UNCHANGED <<readUpTo, frames>>
    <2>1. inputBuffer'[t] = <<NoData>> /\ frameData'[t] = << >>
      BY <1>2, <1>3, <1>8 DEF frames
    <2> QED
      BY <1>1, <1>2, <1>8, <2>1, PassThroughDelivers
  <1> QED
    BY <1>4, <1>5, <1>6, <1>7, <1>8 DEF FeedPassThrough

LEMMA NothingPassThroughDelivers ==
  ASSUME IndInv, NEW t \in Tracks, Types(t), Types(t)', Parts(t), NothingPassThrough(t)
  PROVE  Parts(t)'
  <1>1. /\ turn = t /\ call = "nothingRead" /\ ~IsCodec(t) /\ readUpTo' = readUpTo
        /\ UNCHANGED <<encoderIn, pending, decoderIn, decoderOut, encoderOut, handed,
                       endOfCodification, ends, loadCompleted>>
    BY DEF NothingPassThrough, IsCodec, decoder, encoder, feeding, output, source
  <1>2. frameData[t] = << >> /\ inputBuffer[t] = << >>
    BY <1>1 DEF IndInv, LoopPart, AfterDrain
  <1>3. DOMAIN inputBuffer = Tracks
    BY DEF IndInv, Shape
  <1>4. \/ PassOn(t, NoData)
        \/ inputBuffer' = [inputBuffer EXCEPT ![t] = <<NoData>>] /\ UNCHANGED frames
    BY DEF NothingPassThrough
  <1>5. \/ frameData'[t] = << >> /\ inputBuffer'[t] = <<NoData>>
        \/ frameData'[t] = <<NoData>> /\ inputBuffer'[t] = << >>
    BY <1>2, <1>3, <1>4, PassOnOutcome DEF frames
  <1> QED
    BY <1>1, <1>2, <1>5, PassThroughDelivers

(* A sample put behind the decode-only ones in a buffer.                   *)
LEMMA Filled ==
  ASSUME NEW b \in Seq(Nat \ {0}), Increasing(b), NEW next \in Nat \ {0},
         \A k \in Data(b) : k < next
  PROVE  /\ Increasing(Append(b, next)) /\ Data(Append(b, next)) = Data(b) \cup {next}
         /\ Append(b, next) # << >>
  <1> DEFINE c == Append(b, next)
             n == Len(b)
  <1>1. /\ n \in Nat /\ DOMAIN b = 1 .. n /\ DOMAIN c = 1 .. n + 1
        /\ \A j \in 1 .. n : c[j] = b[j] /\ b[j] \in Nat \ {0}
        /\ c[n + 1] = next /\ Len(c) = n + 1
    BY AppendProperties, LenProperties, ElementOfSeq
  <1>2. \A j \in 1 .. n : b[j] \in Data(b)
    BY <1>1 DEF Data, Range, NoData
  <1> HIDE DEF c, n
  <1>3. Increasing(c)
    <2>1. ASSUME NEW i \in DOMAIN c, NEW j \in DOMAIN c, i < j PROVE c[i] < c[j]
      <3>1. i \in 1 .. n /\ (j \in 1 .. n \/ j = n + 1)
        BY <1>1, <2>1
      <3> QED
        BY <1>1, <1>2, <2>1, <3>1 DEF Increasing
    <2> QED
      BY <2>1 DEF Increasing
  <1>4. Data(c) = Data(b) \cup {next}
    <2>1. Data(c) \subseteq Data(b) \cup {next}
      <3>1. ASSUME NEW j \in DOMAIN c PROVE c[j] \in Data(b) \cup {next}
        <4>1. j \in 1 .. n \/ j = n + 1
          BY <1>1
        <4> QED
          BY <1>1, <1>2, <4>1
      <3> QED
        BY <3>1 DEF Data, Range
    <2>2. Data(b) \subseteq Data(c)
      BY <1>1 DEF Data, Range
    <2>3. next \in Data(c)
      <3>1. n + 1 \in DOMAIN c /\ c[n + 1] = next /\ next # 0
        BY <1>1
      <3> QED
        BY <3>1 DEF Data, Range, NoData
    <2> QED
      BY <2>1, <2>2, <2>3
  <1>5. c # << >>
    BY <1>1, EmptySeq
  <1> QED
    BY <1>3, <1>4, <1>5 DEF c

(* What a decoder's renderer reads comes behind what is in its buffer.     *)
LEMMA FilledBuffer ==
  ASSUME IndInv, NEW t \in Tracks, IsCodec(t), Types(t), Parts(t)
  PROVE  LET next == readUpTo[t] + 1
             filled == Append(inputBuffer[t], next)
         IN  /\ Increasing(filled) /\ Data(filled) = Data(inputBuffer[t]) \cup {next}
             /\ filled # << >> /\ next \in Nat \ {0}
             /\ frameData[t] = << >>
             /\ AllData(<<frameData[t], inputBuffer[t]>>) = Data(inputBuffer[t])
             /\ Before(AllData(Coded(t)), Data(inputBuffer[t]) \cup {next})
             /\ InOrder(Coded(t))
  <1> DEFINE d == HandedBuffers(handed[t])
             e == EncodedBuffers(encoderOut[t])
             q == Coded(t)
             f == <<frameData[t], inputBuffer[t]>>
             n == readUpTo[t]
             next == readUpTo[t] + 1
             b == inputBuffer[t]
  <1>1. frameData[t] = << >>
    BY DEF IndInv, TrackPart, FramePart
  <1>2. b \in Seq(Nat \ {0}) /\ n \in Nat
    <2>1. b \in Seq(Samples(t)) /\ Samples(t) \subseteq Nat \ {0}
      BY DEF IndInv, TrackPart, ReadPart, Buffer, Samples
    <2> QED
      BY <2>1, SeqMonotonic DEF Types
  <1>3. b \in Packet(t) /\ << >> \in Packet(t)
    BY Singletons DEF Types, Packet
  <1>4. /\ AllData(<< << >>, b>>) = Data(<< >>) \cup Data(b)
        /\ InOrder(<< << >>, b>>) => Increasing(b)
    BY <1>3, TwoBuffers
  <1>5. f = << << >>, b>> /\ Data(<< >>) = {}
    BY <1>1, DataOfEmpty
  <1> HIDE DEF b
  <1>6. AllData(f) = Data(b) /\ (InOrder(f) => Increasing(b))
    BY <1>4, <1>5
  <1>7. /\ Queues(Packet(t), d, e, q, f) /\ Line(t) = Chain(d, e, q, f)
    BY DEF Types, Line, b
  <1>8. InOrder(Line(t)) /\ \A k \in AllData(Line(t)) : k <= n
    BY DEF Parts, KeptPart, Delivers
  <1>9. AllData(Line(t)) \subseteq Nat
    BY <1>7, ChainFacts, DataNumbers
  <1> HIDE DEF d, e, q, f, n
  <1>10. /\ InOrder(q) /\ InOrder(f)
         /\ Before(AllData(d) \cup AllData(e) \cup AllData(q), AllData(f))
    <2>1. Queues(Packet(t), d, e, q, f) /\ InOrder(Chain(d, e, q, f))
      BY <1>7, <1>8
    <2> QED
      BY <2>1, ChainParts
  <1>11. AllData(Line(t)) = AllData(d) \cup AllData(e) \cup AllData(q) \cup AllData(f)
    BY <1>7, ChainData
  <1>12. next = n + 1 /\ next \in Nat \ {0}
    BY <1>2 DEF n
  <1> HIDE DEF next
  <1>13. \A k \in AllData(q) \cup AllData(f) : k < next
    BY <1>2, <1>8, <1>9, <1>11, <1>12
  <1>14. /\ Increasing(Append(b, next)) /\ Data(Append(b, next)) = Data(b) \cup {next}
         /\ Append(b, next) # << >>
    BY <1>2, <1>6, <1>10, <1>12, <1>13, Filled
  <1>15. Before(AllData(q), Data(b) \cup {next})
    BY <1>6, <1>10, <1>13 DEF Before
  <1> QED
    BY <1>1, <1>6, <1>10, <1>12, <1>14, <1>15 DEF b, next, f, q

(* A buffer queued to a decoder comes behind all the rest; it is the end   *)
(* of the stream, or holds what was read.                                  *)
LEMMA QueueDelivers ==
  ASSUME IndInv, NEW t \in Tracks, Types(t), Types(t)', Parts(t), IsCodec(t),
         UNCHANGED <<encoderIn, pending, decoderOut, encoderOut, handed, frameData,
                     endOfCodification, endOfStreamReached, streamIsFinal, loadCompleted>>,
         ~endOfStreamSignaled[t],
         NEW buffer, decoderIn'[t] = Append(decoderIn[t], buffer), inputBuffer'[t] = << >>,
         \/ /\ buffer = EndOfStream /\ endOfStreamSignaled'[t] /\ readUpTo'[t] = readUpTo[t]
            /\ loadCompleted \/ streamIsFinal[t]
         \/ /\ buffer = Append(inputBuffer[t], readUpTo[t] + 1) /\ ~endOfStreamSignaled'[t]
            /\ readUpTo'[t] = readUpTo[t] + 1 /\ readUpTo[t] + 1 \in 0 .. Len(Times[t])
  PROVE  Parts(t)'
  <1> DEFINE next == readUpTo[t] + 1
             filled == Append(inputBuffer[t], next)
             q == Coded(t)
             f == <<frameData[t], inputBuffer[t]>>
             f2 == <<frameData[t], inputBuffer[t]>>'
             b == inputBuffer[t]
  <1>1. /\ Increasing(filled) /\ Data(filled) = Data(b) \cup {next}
        /\ filled # << >> /\ next \in Nat \ {0} /\ frameData[t] = << >>
        /\ AllData(f) = Data(b) /\ Before(AllData(q), Data(b) \cup {next}) /\ InOrder(q)
    BY FilledBuffer
  <1>2. buffer \in Packet(t)
    <2>1. << >> \in Packet(t)
      BY Singletons DEF Packet
    <2>2. next \in 0 .. Len(Times[t]) => filled \in Packet(t)
      BY AppendElements DEF Types, Packet
    <2> QED
      BY <2>1, <2>2 DEF EndOfStream
  <1>3. q \in Seq(Packet(t)) /\ Coded(t)' = Append(q, buffer)
    <2>1. Queues(Packet(t), encoderIn[t], pending[t], decoderOut[t], decoderIn[t])
      BY DEF Types
    <2>2. Chain(encoderIn[t], pending[t], decoderOut[t], Append(decoderIn[t], buffer))
            = Append(q, buffer)
      BY <1>2, <2>1, ChainAppend DEF Coded
    <2>3. q \in Seq(Packet(t))
      BY <2>1, ChainFacts DEF Coded
    <2> QED
      BY <2>2, <2>3 DEF Coded
  <1>4. f2 = << << >>, << >> >>
    BY <1>1
  <1>5. AllData(f2) = {} /\ InOrder(f2)
    <2>1. << >> \in Packet(t)
      BY Singletons DEF Packet
    <2>2. /\ AllData(<< << >>, << >> >>) = Data(<< >>) \cup Data(<< >>)
          /\ InOrder(<< << >>, << >> >>) <=> Increasing(<< >>) /\ Before(Data(<< >>), Data(<< >>))
      BY <2>1, TwoBuffers
    <2>3. Data(<< >>) = {} /\ Increasing(<< >>)
      BY DataOfEmpty
    <2> HIDE DEF f2
    <2> QED
      BY <1>4, <2>2, <2>3 DEF Before
  <1>6. RoutePart(t)'
    BY DataOfEmpty DEF Parts, RoutePart
  <1> HIDE DEF q, f, f2, filled, next
  <1>7. /\ AllData(Append(q, buffer)) = AllData(q) \cup Data(buffer)
        /\ InOrder(Append(q, buffer)) <=>
             InOrder(q) /\ Increasing(buffer) /\ Before(AllData(q), Data(buffer))
    BY <1>2, <1>3, BuffersAppend
  <1>8. \/ /\ buffer = EndOfStream /\ endOfStreamSignaled'[t] /\ readUpTo'[t] = readUpTo[t]
           /\ loadCompleted \/ streamIsFinal[t]
        \/ buffer = filled /\ ~endOfStreamSignaled'[t] /\ readUpTo'[t] = next
    BY DEF filled, next
  <1>9. EndPart(t)'
    <2>1. EndsWell(EndOfStream, q, FALSE) /\ EndsWell(Frame(EndOfStream), encoderOut[t], FALSE)
          /\ ~endOfStreamReached[t] /\ ~endOfCodification[t]
      BY DEF Parts, EndPart, EndsWell, q
    <2>2. /\ EndsWell(EndOfStream, Append(q, buffer), TRUE)
          /\ buffer # EndOfStream => EndsWell(EndOfStream, Append(q, buffer), FALSE)
      BY <1>2, <1>3, <2>1, EndsAppend
    <2>3. filled # EndOfStream
      BY <1>1 DEF EndOfStream
    <2>4. EndsWell(EndOfStream, Coded(t)', endOfStreamSignaled'[t])
      <3>1. CASE buffer = EndOfStream /\ endOfStreamSignaled'[t]
        BY <1>3, <2>2, <3>1 DEF EndsWell
      <3>2. CASE buffer = filled /\ ~endOfStreamSignaled'[t]
        BY <1>3, <2>2, <2>3, <3>2 DEF EndsWell
      <3> QED
        BY <1>8, <3>1, <3>2
    <2>5. EndsWell(Frame(EndOfStream), encoderOut'[t], Coded(t)' = << >> /\ endOfStreamSignaled'[t])
      BY <2>1 DEF EndsWell
    <2>6. endOfStreamSignaled'[t] => loadCompleted' \/ streamIsFinal'[t]
      BY <1>8
    <2> QED
      BY <2>1, <2>4, <2>5, <2>6 DEF EndPart
  <1>10. KeptPart(t)'
    <2> DEFINE q2 == Coded(t)'
    <2>1. CASE buffer = EndOfStream /\ readUpTo'[t] = readUpTo[t]
      <3>1. Data(buffer) = {} /\ Increasing(buffer)
        BY <2>1, DataOfEmpty DEF EndOfStream
      <3>2. AllData(q2) = AllData(q) /\ InOrder(q2)
        BY <1>1, <1>3, <1>7, <3>1 DEF Before
      <3>3. \A k \in AllData(f) : IsDecodeOnly(t, k)
        BY <1>1 DEF Parts, RoutePart
      <3>4. /\ q = Coded(t) /\ f = <<frameData[t], inputBuffer[t]>>
            /\ f2 = <<frameData[t], inputBuffer[t]>>' /\ next = readUpTo[t] + 1
            /\ KeptPart(t) /\ readUpTo'[t] \in {readUpTo[t], next} /\ readUpTo'[t] # next
        BY <2>1 DEF q, f, f2, next, Parts, Types
      <3>5. Before(AllData(q2), AllData(f2))
        BY <1>5 DEF Before
      <3>6. /\ handed'[t] = handed[t] /\ encoderOut'[t] = encoderOut[t]
            /\ \A k \in AllData(q2) \cup AllData(f2) : k \in AllData(q) \cup AllData(f)
            /\ \A k \in AllData(q) \cup AllData(f) :
                 IsDecodeOnly(t, k) \/ k \in AllData(q2) \cup AllData(f2)
        BY <1>5, <3>2, <3>3
      <3> HIDE DEF q2
      <3>7. q2 = Coded(t)'
        BY DEF q2
      <3>8. Growth(t, q, f, q2, f2, next)
        BY <1>5, <3>2, <3>4, <3>5, <3>6, <3>7 DEF Growth
      <3> QED
        BY <3>8, Grows
    <2>2. CASE buffer = filled /\ readUpTo'[t] = next
      <3>1. AllData(q2) = AllData(q) \cup Data(b) \cup {next} /\ InOrder(q2)
        BY <1>1, <1>3, <1>7, <2>2
      <3>2. /\ q = Coded(t) /\ f = <<frameData[t], inputBuffer[t]>>
            /\ f2 = <<frameData[t], inputBuffer[t]>>' /\ next = readUpTo[t] + 1
            /\ KeptPart(t) /\ readUpTo'[t] \in {readUpTo[t], next} /\ readUpTo'[t] = next
        BY <2>2 DEF q, f, f2, next, Parts
      <3>3. Before(AllData(q2), AllData(f2))
        BY <1>5 DEF Before
      <3>4. /\ handed'[t] = handed[t] /\ encoderOut'[t] = encoderOut[t]
            /\ \A k \in AllData(q2) \cup AllData(f2) : k \in AllData(q) \cup AllData(f) \/ k = next
            /\ \A k \in AllData(q) \cup AllData(f) : k \in AllData(q2) \cup AllData(f2)
            /\ next \in AllData(q2) \cup AllData(f2)
        BY <1>1, <1>5, <3>1
      <3> HIDE DEF q2
      <3>5. q2 = Coded(t)'
        BY DEF q2
      <3>6. Growth(t, q, f, q2, f2, next)
        BY <1>5, <3>1, <3>2, <3>3, <3>4, <3>5 DEF Growth
      <3> QED
        BY <3>6, Grows
    <2> QED
      BY <1>8, <2>1, <2>2
  <1> QED
    BY <1>6, <1>9, <1>10 DEF Parts

(* A decode-only sample stays in the buffer.                               *)
LEMMA HeldDelivers ==
  ASSUME IndInv, NEW t \in Tracks, Types(t), Types(t)', Parts(t), IsCodec(t),
         UNCHANGED <<encoderIn, pending, decoderIn, decoderOut, encoderOut, handed, frameData,
                     endOfCodification, ends, loadCompleted>>,
         readUpTo'[t] = readUpTo[t] + 1, IsDecodeOnly(t, readUpTo[t] + 1),
         inputBuffer'[t] = Append(inputBuffer[t], readUpTo[t] + 1)
  PROVE  Parts(t)'
  <1> DEFINE next == readUpTo[t] + 1
             filled == Append(inputBuffer[t], next)
             q == Coded(t)
             f == <<frameData[t], inputBuffer[t]>>
             f2 == <<frameData[t], inputBuffer[t]>>'
             b == inputBuffer[t]
  <1>1. /\ Increasing(filled) /\ Data(filled) = Data(b) \cup {next} /\ frameData[t] = << >>
        /\ AllData(f) = Data(b) /\ Before(AllData(q), Data(b) \cup {next}) /\ InOrder(q)
    BY FilledBuffer
  <1>2. f2 = << << >>, filled>> /\ filled \in Packet(t) /\ << >> \in Packet(t)
    BY <1>1, Singletons DEF Types, Packet
  <1>3. Coded(t)' = q
    BY DEF Coded
  <1>4. EndPart(t)'
    BY <1>3 DEF Parts, EndPart, ends
  <1>5. RoutePart(t)'
    <2>1. \A k \in Data(inputBuffer'[t]) : IsDecodeOnly(t, k)
      BY <1>1 DEF Parts, RoutePart
    <2> QED
      BY <2>1 DEF Parts, RoutePart
  <1>6. q = Coded(t) /\ f = <<frameData[t], inputBuffer[t]>>
        /\ f2 = <<frameData[t], inputBuffer[t]>>' /\ next = readUpTo[t] + 1
        /\ readUpTo'[t] \in {readUpTo[t], next} /\ readUpTo'[t] = next /\ IsDecodeOnly(t, next)
        /\ handed'[t] = handed[t] /\ encoderOut'[t] = encoderOut[t] /\ KeptPart(t)
    BY DEF Parts
  <1> HIDE DEF q, f, f2, filled, next
  <1>7. AllData(f2) = Data(b) \cup {next} /\ InOrder(f2)
    <2>1. /\ AllData(<< << >>, filled>>) = Data(<< >>) \cup Data(filled)
          /\ InOrder(<< << >>, filled>>) <=> /\ Increasing(<< >>) /\ Increasing(filled)
                                             /\ Before(Data(<< >>), Data(filled))
      BY <1>2, TwoBuffers
    <2>2. Data(<< >>) = {} /\ Increasing(<< >>)
      BY DataOfEmpty
    <2> QED
      BY <1>1, <1>2, <2>1, <2>2 DEF Before
  <1>8. Before(AllData(q), AllData(f2))
    BY <1>1, <1>7
  <1>9. /\ \A k \in AllData(q) \cup AllData(f2) : k \in AllData(q) \cup AllData(f) \/ k = next
        /\ \A k \in AllData(q) \cup AllData(f) : k \in AllData(q) \cup AllData(f2)
    BY <1>1, <1>7
  <1>10. KeptPart(t)'
    <2>1. Growth(t, q, f, q, f2, next)
      BY <1>1, <1>3, <1>6, <1>7, <1>8, <1>9 DEF Growth
    <2> QED
      BY <2>1, Grows
  <1> QED
    BY <1>4, <1>5, <1>10 DEF Parts

LEMMA FeedDecoderDelivers ==
  ASSUME IndInv, NEW t \in Tracks, Types(t), Types(t)', Parts(t), FeedDecoder(t)
  PROVE  Parts(t)'
  <1> DEFINE next == readUpTo[t] + 1
             filled == Append(inputBuffer[t], next)
             Emptied == inputBuffer' = [inputBuffer EXCEPT ![t] = << >>]
             Reads == next <= loaded[t] /\ readUpTo' = [readUpTo EXCEPT ![t] = next]
             Puts(b) == decoderIn' = [decoderIn EXCEPT ![t] = Append(@, b)]
  <1>1. /\ turn = t /\ call = "feedRenderer" /\ IsCodec(t)
        /\ UNCHANGED <<encoderIn, pending, decoderOut, encoderOut, handed, frameData,
                       endOfCodification, endOfStreamReached, streamIsFinal, loadCompleted>>
    BY DEF FeedDecoder, encoder, feeding, output, frames, source
  <1>2. \/ UNCHANGED <<readUpTo, inputBuffer, decoderIn, endOfStreamSignaled>>
        \/ /\ ~endOfStreamSignaled[t] /\ streamIsFinal[t] /\ Puts(EndOfStream) /\ Emptied
           /\ endOfStreamSignaled' = [endOfStreamSignaled EXCEPT ![t] = TRUE] /\ UNCHANGED readUpTo
        \/ /\ ~endOfStreamSignaled[t] /\ Reads /\ Puts(filled) /\ Emptied
           /\ UNCHANGED endOfStreamSignaled
        \/ /\ IsDecodeOnly(t, next) /\ Reads /\ UNCHANGED <<decoderIn, endOfStreamSignaled>>
           /\ inputBuffer' = [inputBuffer EXCEPT ![t] = filled]
    BY DEF FeedDecoder, reading
  <1>3. /\ DOMAIN inputBuffer = Tracks /\ DOMAIN readUpTo = Tracks /\ DOMAIN decoderIn = Tracks
        /\ DOMAIN endOfStreamSignaled = Tracks
    BY DEF IndInv, Shape
  <1>4. /\ Emptied => inputBuffer'[t] = << >>
        /\ Reads => readUpTo'[t] = next
        /\ inputBuffer' = [inputBuffer EXCEPT ![t] = filled] => inputBuffer'[t] = filled
        /\ endOfStreamSignaled' = [endOfStreamSignaled EXCEPT ![t] = TRUE] =>
             endOfStreamSignaled'[t]
    BY <1>3
  <1>5. \A b : Puts(b) => decoderIn'[t] = Append(decoderIn[t], b)
    BY <1>3
  <1>6. CASE UNCHANGED <<readUpTo, inputBuffer, decoderIn, endOfStreamSignaled>>
    BY <1>1, <1>6, UntouchedKept DEF Untouched
  <1>7. CASE /\ ~endOfStreamSignaled[t] /\ streamIsFinal[t] /\ Puts(EndOfStream) /\ Emptied
             /\ endOfStreamSignaled' = [endOfStreamSignaled EXCEPT ![t] = TRUE]
             /\ UNCHANGED readUpTo
    <2>1. /\ decoderIn'[t] = Append(decoderIn[t], EndOfStream) /\ inputBuffer'[t] = << >>
          /\ endOfStreamSignaled'[t] /\ readUpTo'[t] = readUpTo[t]
      BY <1>4, <1>5, <1>7
    <2> HIDE DEF Puts, Emptied
    <2> QED
      BY <1>1, <1>7, <2>1, QueueDelivers
  <1>8. CASE /\ ~endOfStreamSignaled[t] /\ Reads /\ Puts(filled) /\ Emptied
             /\ UNCHANGED endOfStreamSignaled
    <2>1. /\ decoderIn'[t] = Append(decoderIn[t], filled) /\ inputBuffer'[t] = << >>
          /\ ~endOfStreamSignaled'[t] /\ readUpTo'[t] = next
      BY <1>4, <1>5, <1>8
    <2>2. next \in 0 .. Len(Times[t])
      BY <1>8 DEF Types
    <2> HIDE DEF Puts, Emptied, Reads
    <2> QED
      BY <1>1, <1>8, <2>1, <2>2, QueueDelivers
  <1>9. CASE /\ IsDecodeOnly(t, next) /\ Reads /\ UNCHANGED <<decoderIn, endOfStreamSignaled>>
             /\ inputBuffer' = [inputBuffer EXCEPT ![t] = filled]
    <2>1. inputBuffer'[t] = filled /\ readUpTo'[t] = next
      BY <1>4, <1>9
    <2> QED
      BY <1>1, <1>9, <2>1, HeldDelivers DEF ends
  <1> HIDE DEF Puts, Emptied, Reads, filled
  <1> QED
    BY <1>2, <1>6, <1>7, <1>8, <1>9

LEMMA NothingDecoderDelivers ==
  ASSUME IndInv, NEW t \in Tracks, Types(t), Types(t)', Parts(t), SignalPart, NothingDecoder(t)
  PROVE  Parts(t)'
  <1>1. /\ turn = t /\ call = "nothingRead" /\ IsCodec(t) /\ readUpTo' = readUpTo
        /\ UNCHANGED <<encoderIn, pending, decoderOut, encoderOut, handed, frameData,
                       endOfCodification, endOfStreamReached, streamIsFinal, loadCompleted>>
    BY DEF NothingDecoder, encoder, feeding, output, frames, source
  <1>2. \/ UNCHANGED <<inputBuffer, decoderIn, endOfStreamSignaled>>
        \/ /\ loadCompleted
           /\ decoderIn' = [decoderIn EXCEPT ![t] = Append(@, EndOfStream)]
           /\ endOfStreamSignaled' = [endOfStreamSignaled EXCEPT ![t] = TRUE]
           /\ inputBuffer' = [inputBuffer EXCEPT ![t] = << >>]
    BY DEF NothingDecoder, AtEnd
  <1>3. /\ DOMAIN inputBuffer = Tracks /\ DOMAIN decoderIn = Tracks
        /\ DOMAIN endOfStreamSignaled = Tracks
    BY DEF IndInv, Shape
  <1>4. ~endOfStreamSignaled[t]
    BY <1>1 DEF SignalPart
  <1>5. CASE UNCHANGED <<inputBuffer, decoderIn, endOfStreamSignaled>>
    BY <1>1, <1>5, UntouchedKept DEF Untouched
  <1>6. CASE /\ loadCompleted
             /\ decoderIn' = [decoderIn EXCEPT ![t] = Append(@, EndOfStream)]
             /\ endOfStreamSignaled' = [endOfStreamSignaled EXCEPT ![t] = TRUE]
             /\ inputBuffer' = [inputBuffer EXCEPT ![t] = << >>]
    <2>1. /\ decoderIn'[t] = Append(decoderIn[t], EndOfStream) /\ inputBuffer'[t] = << >>
          /\ endOfStreamSignaled'[t]
      BY <1>3, <1>6
    <2> QED
      BY <1>1, <1>4, <1>6, <2>1, QueueDelivers
  <1> QED
    BY <1>2, <1>5, <1>6

-----------------------------------------------------------------------------
(* A step of a track leaves the others alone.                              *)

LEMMA CodecsAlone ==
  ASSUME IndInv, NEW t \in Tracks, NEW u \in Tracks, u # t,
         Load(t) \/ Decode(t) \/ AnnounceFormat(t) \/ Encode(t)
  PROVE  Untouched(u)
  <1> USE DEF source, reading, frames, decoder, ends, encoder, feeding, output, Untouched
  <1>1. /\ DOMAIN decoderIn = Tracks /\ DOMAIN decoderOut = Tracks
        /\ DOMAIN encoderIn = Tracks /\ DOMAIN encoderOut = Tracks
    BY DEF IndInv, Shape
  <1>2. CASE Load(t)
    BY <1>2 DEF Load
  <1>3. CASE Decode(t)
    BY <1>1, <1>3 DEF Decode
  <1>4. CASE AnnounceFormat(t)
    BY <1>1, <1>4 DEF AnnounceFormat
  <1>5. CASE Encode(t)
    BY <1>1, <1>5 DEF Encode
  <1> QED
    BY <1>2, <1>3, <1>4, <1>5

LEMMA DrainsAlone ==
  ASSUME IndInv, NEW t \in Tracks, NEW u \in Tracks, u # t,
         DrainPassThrough(t) \/ DrainEncoder(t) \/ FeedCodification(t) \/ DrainDecoder(t)
  PROVE  Untouched(u)
  <1> USE DEF source, reading, frames, decoder, ends, encoder, feeding, output
  <1>1. /\ DOMAIN decoderIn = Tracks /\ DOMAIN decoderOut = Tracks
        /\ DOMAIN encoderIn = Tracks /\ DOMAIN encoderOut = Tracks
        /\ DOMAIN frameData = Tracks /\ DOMAIN pending = Tracks
        /\ DOMAIN handed = Tracks /\ DOMAIN endOfCodification = Tracks
        /\ DOMAIN endOfStreamReached = Tracks
    BY DEF IndInv, Shape
  <1>2. CASE DrainPassThrough(t)
    <2>1. UNCHANGED handed \/ \E h : handed' = [handed EXCEPT ![t] = h]
      BY <1>2 DEF DrainPassThrough, OnDataReady
    <2>2. UNCHANGED frameData \/ frameData' = DataAfterPoll(t)
      BY <1>2 DEF DrainPassThrough
    <2>3. UNCHANGED <<encoderIn, pending, decoderIn, decoderOut, encoderOut, inputBuffer,
                      readUpTo, endOfCodification, ends, loadCompleted>>
      BY <1>2 DEF DrainPassThrough
    <2>4. handed'[u] = handed[u] /\ frameData'[u] = frameData[u]
      BY <1>1, <2>1, <2>2 DEF DataAfterPoll
    <2> QED
      BY <2>3, <2>4 DEF Untouched
  <1>3. CASE DrainEncoder(t)
    <2>1. UNCHANGED handed \/ \E h : handed' = [handed EXCEPT ![t] = h]
      BY <1>3 DEF DrainEncoder, OnDataReady
    <2>2. /\ UNCHANGED encoderOut \/ encoderOut' = [encoderOut EXCEPT ![t] = Tail(@)]
          /\ \/ UNCHANGED endOfCodification
             \/ endOfCodification' = [endOfCodification EXCEPT ![t] = TRUE]
      BY <1>3 DEF DrainEncoder
    <2>3. UNCHANGED <<encoderIn, pending, decoderIn, decoderOut, frameData, inputBuffer,
                      readUpTo, ends, loadCompleted>>
      BY <1>3 DEF DrainEncoder
    <2>4. /\ handed'[u] = handed[u] /\ encoderOut'[u] = encoderOut[u]
          /\ endOfCodification'[u] = endOfCodification[u]
      BY <1>1, <2>1, <2>2
    <2> QED
      BY <2>3, <2>4 DEF Untouched
  <1>4. CASE FeedCodification(t)
    <2>1. encoderIn'[u] = encoderIn[u] /\ pending'[u] = pending[u]
      BY <1>1, <1>4 DEF FeedCodification
    <2> QED
      BY <1>4, <2>1 DEF FeedCodification, Untouched
  <1>5. CASE DrainDecoder(t)
    <2>1. /\ decoderOut'[u] = decoderOut[u] /\ encoderIn'[u] = encoderIn[u]
          /\ pending'[u] = pending[u] /\ endOfStreamReached'[u] = endOfStreamReached[u]
      BY <1>1, <1>5 DEF DrainDecoder
    <2> QED
      BY <1>5, <2>1 DEF DrainDecoder, Untouched
  <1> QED
    BY <1>2, <1>3, <1>4, <1>5

LEMMA FeedsAlone ==
  ASSUME IndInv, NEW t \in Tracks, NEW u \in Tracks, u # t,
         FeedPassThrough(t) \/ NothingPassThrough(t) \/ FeedDecoder(t) \/ NothingDecoder(t)
  PROVE  Untouched(u)
  <1> USE DEF source, reading, frames, decoder, ends, encoder, feeding, output
  <1>1. /\ DOMAIN decoderIn = Tracks /\ DOMAIN frameData = Tracks /\ DOMAIN readUpTo = Tracks
        /\ DOMAIN inputBuffer = Tracks /\ DOMAIN endOfStreamSignaled = Tracks
    BY DEF IndInv, Shape
  <1>2. ASSUME NEW k, PassOn(t, k)
        PROVE  frameData'[u] = frameData[u] /\ inputBuffer'[u] = inputBuffer[u]
    BY <1>1, <1>2 DEF PassOn, HeldForLater
  <1>3. CASE FeedPassThrough(t)
    <2>1. frameData'[u] = frameData[u] /\ inputBuffer'[u] = inputBuffer[u]
      BY <1>1, <1>2, <1>3 DEF FeedPassThrough
    <2>2. readUpTo'[u] = readUpTo[u]
      BY <1>1, <1>3 DEF FeedPassThrough
    <2> QED
      BY <1>3, <2>1, <2>2 DEF FeedPassThrough, Untouched
  <1>4. CASE NothingPassThrough(t)
    <2>1. frameData'[u] = frameData[u] /\ inputBuffer'[u] = inputBuffer[u]
      BY <1>1, <1>2, <1>4 DEF NothingPassThrough
    <2> QED
      BY <1>4, <2>1 DEF NothingPassThrough, Untouched
  <1>5. CASE FeedDecoder(t)
    <2>1. /\ readUpTo'[u] = readUpTo[u] /\ inputBuffer'[u] = inputBuffer[u]
          /\ decoderIn'[u] = decoderIn[u] /\ endOfStreamSignaled'[u] = endOfStreamSignaled[u]
      BY <1>1, <1>5 DEF FeedDecoder
    <2> QED
      BY <1>5, <2>1 DEF FeedDecoder, Untouched
  <1>6. CASE NothingDecoder(t)
    <2>1. /\ inputBuffer'[u] = inputBuffer[u]
          /\ decoderIn'[u] = decoderIn[u] /\ endOfStreamSignaled'[u] = endOfStreamSignaled[u]
      BY <1>1, <1>6 DEF NothingDecoder
    <2> QED
      BY <1>6, <2>1 DEF NothingDecoder, Untouched
  <1> QED
    BY <1>3, <1>4, <1>5, <1>6

(* Steps that leave every track alone.                                     *)
LEMMA AllAlone ==
  ASSUME IndInv, NEW u \in Tracks,
         \/ Test \/ EndRound \/ LoadCompleted \/ StopTranscoding \/ UNCHANGED vars
         \/ \E t \in Tracks : Load(t) \/ DrainPassThroughRenderer(t)
  PROVE  Untouched(u)
  BY DEF source, reading, frames, decoder, ends, encoder, feeding, output, vars, Untouched,
         Test, EndRound, LoadCompleted, StopTranscoding, Load, DrainPassThroughRenderer

(* The call that signals the end comes before it is signalled.             *)
LEMMA SignalKept ==
  ASSUME IndInv, SignalPart, [Next]_vars
  PROVE  SignalPart'
  <1> USE DEF SignalPart
  <1>1. CASE UNCHANGED <<call, turn, endOfStreamSignaled>>
    BY <1>1
  <1>2. CASE call' # "nothingRead"
    BY <1>2
  <1>3. ASSUME NEW result, Fed(result) PROVE call' # "nothingRead"
    BY <1>3 DEF Fed, NextTurn
  <1>4. ASSUME NEW answer, AfterDraining(answer) PROVE call' # "nothingRead"
    BY <1>4 DEF AfterDraining, NextTurn, GoTo
  <1>5. CASE \/ UNCHANGED vars \/ LoadCompleted \/ StopTranscoding
             \/ \E t \in Tracks : Load(t) \/ Decode(t) \/ AnnounceFormat(t) \/ Encode(t)
    BY <1>1, <1>5 DEF vars, loop, ends, LoadCompleted, StopTranscoding, Load, Decode,
                      AnnounceFormat, Encode
  <1>6. CASE Test \/ EndRound
    BY <1>2, <1>6 DEF Test, EndRound
  <1>7. ASSUME NEW t \in Tracks, DrainPassThrough(t) \/ DrainEncoder(t)
        PROVE  SignalPart'
    BY <1>2, <1>4, <1>7 DEF DrainPassThrough, DrainEncoder
  <1>8. ASSUME NEW t \in Tracks,
               FeedCodification(t) \/ DrainPassThroughRenderer(t) \/ DrainDecoder(t)
        PROVE  SignalPart'
    BY <1>2, <1>8 DEF FeedCodification, DrainPassThroughRenderer, DrainDecoder, GoTo
  <1>9. ASSUME NEW t \in Tracks, FeedPassThrough(t) PROVE SignalPart'
    <2>1. \/ \E result : Fed(result)
          \/ GoTo("nothingRead") /\ t = turn /\ Kind[t] = "pass"
      BY <1>9 DEF FeedPassThrough, PassOn
    <2> QED
      BY <1>2, <1>3, <2>1 DEF GoTo, IsCodec
  <1>10. ASSUME NEW t \in Tracks, FeedDecoder(t) PROVE SignalPart'
    <2>1. \/ \E result : Fed(result)
          \/ /\ GoTo("nothingRead") /\ t = turn /\ ~endOfStreamSignaled[t]
             /\ UNCHANGED endOfStreamSignaled
      BY <1>10 DEF FeedDecoder
    <2> QED
      BY <1>2, <1>3, <2>1 DEF GoTo
  <1>11. ASSUME NEW t \in Tracks, NothingPassThrough(t) \/ NothingDecoder(t) PROVE SignalPart'
    <2>1. \E result : Fed(result)
      BY <1>11 DEF NothingPassThrough, NothingDecoder, PassOn
    <2> QED
      BY <1>2, <1>3, <2>1
  <1> QED
    BY <1>5, <1>6, <1>7, <1>8, <1>9, <1>10, <1>11 DEF Next, Step

-----------------------------------------------------------------------------
(* The theorems.                                                           *)

LEMMA InitDelivers == Init => DeliveryInv
  <1> SUFFICES ASSUME Init PROVE DeliveryInv
    OBVIOUS
  <1>1. SignalPart
    BY DEF Init, SignalPart
  <1>2. ASSUME NEW t \in Tracks PROVE Parts(t)
    <2>1. /\ encoderIn[t] = << >> /\ pending[t] = << >> /\ decoderOut[t] = << >>
          /\ decoderIn[t] = << >> /\ encoderOut[t] = << >> /\ inputBuffer[t] = << >>
          /\ handed[t] = << >> /\ frameData[t] = << >> /\ readUpTo[t] = 0
          /\ ~endOfStreamSignaled[t] /\ ~endOfStreamReached[t] /\ ~endOfCodification[t]
      BY <1>2 DEF Init
    <2>2. Types(t)
      BY InitInd, AllTypesOfInd DEF AllTypes
    <2>3. RoutePart(t)
      BY <2>1, DataOfEmpty DEF RoutePart
    <2>4. Chain(<< >>, << >>, << >>, << >>) = << >>
      BY <2>1, <2>2, ChainFacts DEF Types
    <2>5. Coded(t) = << >>
      BY <2>1, <2>4 DEF Coded
    <2>6. EndPart(t)
      BY <2>1, <2>5 DEF EndPart, EndsWell
    <2>7. HandedBuffers(handed[t]) = << >> /\ EncodedBuffers(encoderOut[t]) = << >>
      BY <2>1 DEF HandedBuffers, EncodedBuffers
    <2>8. /\ AllData(<<frameData[t], inputBuffer[t]>>) = {}
          /\ InOrder(<<frameData[t], inputBuffer[t]>>)
      <3>1. << >> \in Packet(t)
        BY Singletons DEF Packet
      <3>2. /\ AllData(<< << >>, << >> >>) = Data(<< >>) \cup Data(<< >>)
            /\ InOrder(<< << >>, << >> >>) <=> Increasing(<< >>) /\ Before(Data(<< >>), Data(<< >>))
        BY <3>1, TwoBuffers
      <3>3. Data(<< >>) = {} /\ Increasing(<< >>)
        BY DataOfEmpty
      <3> QED
        BY <2>1, <3>2, <3>3 DEF Before
    <2> DEFINE f == <<frameData[t], inputBuffer[t]>>
    <2>9. Queues(Packet(t), << >>, << >>, << >>, f) /\ Line(t) = Chain(<< >>, << >>, << >>, f)
      BY <2>2, <2>5, <2>7 DEF Types, Line
    <2> HIDE DEF f
    <2>10. AllData(Line(t)) = {} /\ InOrder(Line(t))
      <3>1. AllData(<< >>) = {} /\ InOrder(<< >>)
        BY DataOfEmpty
      <3>2. AllData(Line(t)) = {}
        BY <2>8, <2>9, <3>1, ChainData DEF f
      <3>3. InOrder(Line(t))
        BY <2>8, <2>9, <3>1, ChainJoin DEF f, Before
      <3> QED
        BY <3>2, <3>3
    <2>11. KeptPart(t)
      BY <2>1, <2>10 DEF KeptPart, Delivers
    <2> QED
      BY <2>3, <2>6, <2>11 DEF Parts
  <1> QED
    BY <1>1, <1>2 DEF DeliveryInv

LEMMA StepDelivers == IndInv /\ DeliveryInv /\ [Next]_vars => DeliveryInv'
  <1> SUFFICES ASSUME IndInv, DeliveryInv, [Next]_vars PROVE DeliveryInv'
    OBVIOUS
  <1>1. AllTypes /\ AllTypes'
    BY TypesKept
  <1>2. SignalPart'
    BY SignalKept DEF DeliveryInv
  <1>3. ASSUME NEW u \in Tracks PROVE Parts(u)'
    <2>1. Types(u) /\ Types(u)' /\ Parts(u) /\ SignalPart
      BY <1>1 DEF AllTypes, DeliveryInv
    <2>2. CASE Untouched(u)
      BY <2>1, <2>2, UntouchedKept
    <2>3. CASE \/ Test \/ EndRound \/ LoadCompleted \/ StopTranscoding \/ UNCHANGED vars
               \/ \E t \in Tracks : Load(t) \/ DrainPassThroughRenderer(t)
      BY <2>2, <2>3, AllAlone
    <2>4. ASSUME NEW t \in Tracks, Decode(t) \/ AnnounceFormat(t) \/ Encode(t)
          PROVE  Parts(u)'
      <3>1. CASE u = t
        BY <2>1, <2>4, <3>1, DecodeDelivers, AnnounceDelivers, EncodeDelivers
      <3>2. CASE u # t
        BY <2>2, <2>4, <3>2, CodecsAlone
      <3> QED
        BY <3>1, <3>2
    <2>5. ASSUME NEW t \in Tracks, \/ DrainPassThrough(t) \/ DrainEncoder(t)
                                   \/ FeedCodification(t) \/ DrainDecoder(t)
          PROVE  Parts(u)'
      <3>1. CASE u = t
        BY <2>1, <2>5, <3>1, DrainPassThroughDelivers, DrainEncoderDelivers,
           FeedCodificationDelivers, DrainDecoderDelivers
      <3>2. CASE u # t
        BY <2>2, <2>5, <3>2, DrainsAlone
      <3> QED
        BY <3>1, <3>2
    <2>6. ASSUME NEW t \in Tracks, \/ FeedPassThrough(t) \/ NothingPassThrough(t)
                                   \/ FeedDecoder(t) \/ NothingDecoder(t)
          PROVE  Parts(u)'
      <3>1. CASE u = t
        BY <2>1, <2>6, <3>1, FeedPassThroughDelivers, NothingPassThroughDelivers,
           FeedDecoderDelivers, NothingDecoderDelivers
      <3>2. CASE u # t
        BY <2>2, <2>6, <3>2, FeedsAlone
      <3> QED
        BY <3>1, <3>2
    <2> QED
      BY <2>3, <2>4, <2>5, <2>6 DEF Next, Step
  <1> QED
    BY <1>2, <1>3 DEF DeliveryInv

(* The invariant of delivery holds, with the one it rests on.              *)
THEOREM Delivery == Spec => [](IndInv /\ DeliveryInv)
  <1>1. Init => IndInv /\ DeliveryInv
    BY InitInd, InitDelivers
  <1>2. IndInv /\ DeliveryInv /\ [Next]_vars => (IndInv /\ DeliveryInv)'
    BY StepInd, StepDelivers
  <1> QED
    BY <1>1, <1>2, PTL DEF Spec

(* For any tracks and any pace of the codecs: the samples of a track stay  *)
(* in order, none is there twice, and none but a decode-only one or a      *)
(* video frame is lost between its queue and the muxer input               *)
(* (EmptyRenderer, MediaCodecRenderer and the codifications' queues).      *)
THEOREM NoSampleLost == Spec => []NothingLost
  <1>1. IndInv /\ DeliveryInv => NothingLost
    BY LineIsBuffers DEF DeliveryInv, Parts, KeptPart, Delivers, NothingLost
  <1> QED
    BY <1>1, Delivery, PTL

(* For any tracks and any pace of the codecs: the end of a stream is the   *)
(* last thing in every queue, a codec takes it only when it has given all  *)
(* the rest, and it is told only after the input has ended or the client   *)
(* stopped (MediaCodecRenderer and MediaCodecCodification).                *)
THEOREM EndOvertakesNothing == Spec => []EndIsLast
  <1>1. ASSUME IndInv, DeliveryInv, NEW t \in Tracks
        PROVE  /\ IsLast(EndOfStream, Queued(t))
               /\ IsLast(Frame(EndOfStream), encoderOut[t])
               /\ endOfStreamReached[t] => decoderIn[t] = << >> /\ decoderOut[t] = << >>
               /\ endOfCodification[t] => encoderIn[t] = << >> /\ encoderOut[t] = << >>
               /\ endOfStreamSignaled[t] => loadCompleted \/ streamIsFinal[t]
    <2>1. EndPart(t) /\ Coded(t) = Queued(t)
      BY <1>1, LineIsBuffers DEF DeliveryInv, Parts
    <2>2. IsLast(EndOfStream, Queued(t)) /\ IsLast(Frame(EndOfStream), encoderOut[t])
      BY <2>1 DEF EndPart, EndsWell, IsLast
    <2>3. Coded(t) = << >> => encoderIn[t] = << >>
      <3>1. Queues(Packet(t), encoderIn[t], pending[t], decoderOut[t], decoderIn[t])
        BY <1>1, AllTypesOfInd DEF AllTypes, Types
      <3> QED
        BY <3>1, ChainFacts DEF Coded
    <2> QED
      BY <2>1, <2>2, <2>3 DEF EndPart
  <1>2. IndInv /\ DeliveryInv => EndIsLast
    BY <1>1 DEF EndIsLast
  <1> QED
    BY <1>2, Delivery, PTL
=============================================================================
