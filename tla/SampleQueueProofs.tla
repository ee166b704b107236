-------------------------- MODULE SampleQueueProofs --------------------------
(***************************************************************************)
(* Proofs about SampleQueue, for any tracks, memory blocks and block       *)
(* length: the type invariant, that unread blocks stay with their nodes,   *)
(* that the pool is sound, that unread bytes stay as they were written,    *)
(* that the queues implement SampleFifo, and which blocks are left behind; *)
(* and, for all public operations together, that no block is lost.         *)
(***************************************************************************)
EXTENDS SampleQueue, SequenceTheorems, FiniteSetTheorems, TLAPS

-----------------------------------------------------------------------------
(* Positions: node n holds the bytes from Start(n) on, and ends where node *)
(* n + 1 starts.                                                           *)

LEMMA StartType ==
  /\ Start(0) = 0
  /\ \A n \in Nat : /\ Start(n) \in Nat /\ EndPosition(n) \in Nat
                    /\ EndPosition(n) = Start(n) + AllocationLength
                    /\ EndPosition(n) = Start(n + 1)
                    /\ Start(n) < EndPosition(n)
  BY LengthAssumption DEF Start, EndPosition

LEMMA NodesInOrder ==
  ASSUME NEW m \in Nat, NEW n \in Nat, m < n
  PROVE  EndPosition(m) <= Start(n)
  <1> DEFINE d == n - m - 1
  <1>1. d \in Nat /\ n = m + 1 + d
    OBVIOUS
  <1>2. n * AllocationLength = m * AllocationLength + AllocationLength + d * AllocationLength
    BY <1>1, LengthAssumption
  <1>3. d * AllocationLength \in Nat
    BY <1>1, LengthAssumption
  <1> QED
    BY <1>2, <1>3, LengthAssumption DEF Start, EndPosition

LEMMA StartsInOrder ==
  ASSUME NEW m \in Nat, NEW n \in Nat, m <= n
  PROVE  Start(m) \in Nat /\ Start(n) \in Nat /\ Start(m) <= Start(n)
  <1>1. CASE m = n
    BY <1>1, StartType
  <1>2. CASE m < n
    BY <1>2, NodesInOrder, StartType
  <1> QED
    BY <1>1, <1>2

(* A position at or after a node's start and before a node's end lies      *)
(* between the two.                                                        *)
LEMMA NodeOfPosition ==
  ASSUME NEW m \in Nat, NEW n \in Nat, NEW p \in Nat, Start(m) <= p, p < EndPosition(n)
  PROVE  m <= n
  <1> SUFFICES ASSUME n < m PROVE FALSE
    OBVIOUS
  <1> QED
    BY NodesInOrder, StartType

-----------------------------------------------------------------------------
(* The write node is the first one that is not full; every node from the   *)
(* first up to it has a block, none after it or in front of the first has. *)
NodeInv ==
  /\ \A q \in Tracks, n \in Nodes :
       /\ firstNode[q] <= n /\ n < writeNode[q] => Initialised(q, n)
       /\ writeNode[q] < n \/ n < firstNode[q] => ~Initialised(q, n)
  /\ \A q \in Tracks :
       /\ Start(writeNode[q]) <= totalBytesWritten[q]
       /\ totalBytesWritten[q] < EndPosition(writeNode[q])
       /\ Initialised(q, writeNode[q]) \/ totalBytesWritten[q] = Start(writeNode[q])
  /\ appendingTo # NoTrack =>
       /\ Initialised(appendingTo, writeNode[appendingTo])
       /\ writeNode[appendingTo] < MaxNodes

(* A block is in the pool, or handed out, only if it exists.               *)
PoolInv ==
  /\ PoolSound
  /\ \A i \in DOMAIN availableAllocations : availableAllocations[i] \in created
  /\ \A b \in Blocks : owner[b] # NoOwner => b \in created

(* Samples are committed in order and written before they are committed.   *)
SampleInv ==
  \A q \in Tracks :
    /\ offeredUpTo[q] <= totalBytesWritten[q]
    /\ readPosition[q] <= Len(committed[q])
    /\ \A i \in 1 .. Len(committed[q]) :
         committed[q][i].from < committed[q][i].to /\ committed[q][i].to <= offeredUpTo[q]
    /\ \A i, j \in 1 .. Len(committed[q]) :
         i < j => committed[q][i].to <= committed[q][j].from

(* Nothing that is still to be read lies in front of the read node, and    *)
(* what is being copied comes before what is read next.                    *)
ReadInv ==
  \A q \in Tracks :
    /\ readNode[q] <= writeNode[q]
    /\ Start(readNode[q]) <= offeredUpTo[q]
    /\ \A i \in readPosition[q] + 1 .. Len(committed[q]) :
         Start(readNode[q]) <= committed[q][i].from
    /\ reading = q =>
         /\ Start(readNode[q]) <= position /\ position <= EndPosition(readNode[q])
         /\ position <= end /\ end <= offeredUpTo[q]
         /\ \A i \in readPosition[q] + 1 .. Len(committed[q]) :
              end <= committed[q][i].from

(* The reader is not in front of the first node, nor is any queued sample. *)
FirstInv ==
  \A q \in Tracks :
    /\ firstNode[q] <= readNode[q]
    /\ \A i \in 1 .. Len(committed[q]) : Start(firstNode[q]) <= committed[q][i].from

(* The bytes written to a node the reader has not left are in its block.   *)
BytesInv ==
  \A q \in Tracks, n \in Nodes : readNode[q] <= n /\ Initialised(q, n) =>
    \A i \in 0 .. AllocationLength - 1 :
      Start(n) + i < totalBytesWritten[q] =>
        content[allocation[q][n]][i] = <<q, Start(n) + i>>

IndInv ==
  /\ TypeOK /\ NodeInv /\ PoolInv /\ UnreadBlocksOwned
  /\ SampleInv /\ ReadInv /\ FirstInv /\ BytesInv

-----------------------------------------------------------------------------
LEMMA InitInd == Init => IndInv
  <1> SUFFICES ASSUME Init PROVE IndInv
    OBVIOUS
  <1>1. 0 \in Nodes
    BY BoundsAssumption DEF Nodes
  <1>2. TypeOK
    BY <1>1, LengthAssumption DEF Init, TypeOK, Owner, Byte, Extent
  <1>3. NodeInv
    BY <1>1, StartType, LengthAssumption DEF Init, NodeInv, Initialised, Nodes
  <1>4. PoolInv
    BY DEF Init, PoolInv, PoolSound
  <1>5. UnreadBlocksOwned /\ BytesInv
    BY DEF Init, UnreadBlocksOwned, BytesInv, Initialised
  <1>6. SampleInv
    BY DEF Init, SampleInv
  <1>7. ReadInv /\ FirstInv
    BY StartType DEF Init, ReadInv, FirstInv
  <1> QED
    BY <1>2, <1>3, <1>4, <1>5, <1>6, <1>7 DEF IndInv

(* The node that is written to has not been left by the reader, and is the *)
(* only one that owns its block.                                           *)
LEMMA OwnersDiffer ==
  ASSUME IndInv, NEW q \in Tracks, NEW r \in Tracks, NEW m \in Nodes, NEW n \in Nodes,
         readNode[q] <= m, Initialised(q, m), readNode[r] <= n, Initialised(r, n),
         allocation[q][m] = allocation[r][n]
  PROVE  q = r /\ m = n
  BY DEF IndInv, UnreadBlocksOwned

LEMMA NodeOrder ==
  ASSUME IndInv, NEW q \in Tracks
  PROVE  /\ firstNode[q] \in Nat /\ readNode[q] \in Nat /\ writeNode[q] \in Nat
         /\ firstNode[q] <= readNode[q] /\ readNode[q] <= writeNode[q]
  BY DEF IndInv, TypeOK, Nodes, ReadInv, FirstInv

(* Nodes and samples in front of the reader stay where they are.           *)
LEMMA FirstKept ==
  ASSUME IndInv, firstNode' = firstNode, committed' = committed,
         \A q \in Tracks : readNode[q] <= readNode'[q] /\ readNode'[q] \in Nat
  PROVE  FirstInv'
  <1>1. \A q \in Tracks : firstNode[q] <= readNode'[q]
    BY NodeOrder
  <1> QED
    BY <1>1 DEF IndInv, FirstInv

-----------------------------------------------------------------------------
(* The loading thread                                                      *)

LEMMA AllocateEffect ==
  ASSUME TypeOK, PoolInv, NEW b \in Blocks, NEW q \in Tracks, NEW n \in Nodes, Allocate(b, q, n)
  PROVE  /\ owner[b] = NoOwner /\ owner' = [owner EXCEPT ![b] = <<q, n>>]
         /\ <<q, n>> # NoOwner /\ owner' \in [Blocks -> Owner \cup {NoOwner}]
         /\ availableAllocations' \in Seq(Blocks)
         /\ allocatedCount' \in Int
         /\ created' \in SUBSET Blocks
         /\ PoolInv'
  <1>1. availableAllocations \in Seq(Blocks) /\ Len(availableAllocations) \in Nat
        /\ owner \in [Blocks -> Owner \cup {NoOwner}] /\ created \in SUBSET Blocks
        /\ allocatedCount \in Int
    <2>1. availableAllocations \in Seq(Blocks)
      BY DEF TypeOK
    <2>2. owner \in [Blocks -> Owner \cup {NoOwner}] /\ created \in SUBSET Blocks
      BY DEF TypeOK
    <2>3. allocatedCount \in Int
      BY DEF TypeOK
    <2>4. Len(availableAllocations) \in Nat
      BY <2>1
    <2> QED
      BY <2>1, <2>2, <2>3, <2>4
  <1>2. <<q, n>> # NoOwner /\ <<q, n>> \in Owner
    BY SentinelAssumption DEF Owner, Nodes
  <1>3. owner' = [owner EXCEPT ![b] = <<q, n>>] /\ allocatedCount' \in Int
    <2>1. owner' = [owner EXCEPT ![b] = <<q, n>>]
      BY DEF Allocate
    <2>2. allocatedCount' = allocatedCount + 1
      BY DEF Allocate, CountAfterTaking
    <2> QED
      BY <1>1, <2>1, <2>2
  <1>4. owner' \in [Blocks -> Owner \cup {NoOwner}]
    BY <1>1, <1>2, <1>3
  <1>5. CASE availableAllocations # << >>
    <2> DEFINE last == Len(availableAllocations)
    <2>1. /\ last \in Nat \ {0} /\ b = availableAllocations[last]
          /\ availableAllocations' = SubSeq(availableAllocations, 1, last - 1)
          /\ created' = created
      BY <1>1, <1>5 DEF Allocate, PoolAfterTaking
    <2>2. /\ availableAllocations' \in Seq(Blocks) /\ Len(availableAllocations') = last - 1
          /\ \A i \in 1 .. last - 1 : availableAllocations'[i] = availableAllocations[i]
      <3>1. \A i \in 1 .. last - 1 : availableAllocations[i] \in Blocks
        BY <1>1, <2>1
      <3> HIDE DEF last
      <3> QED
        BY <2>1, <3>1, SubSeqProperties
    <2>3. owner[b] = NoOwner /\ b \in created
      BY <1>1, <2>1 DEF PoolInv, PoolSound
    <2>4. \A i \in 1 .. last - 1 : availableAllocations[i] # b
      BY <1>1, <2>1 DEF PoolInv, PoolSound
    <2>5. DOMAIN availableAllocations' = 1 .. last - 1
          /\ DOMAIN availableAllocations = 1 .. last
      BY <1>1, <2>1, <2>2
    <2>6. PoolSound'
      BY <1>1, <1>3, <2>1, <2>2, <2>4, <2>5 DEF PoolInv, PoolSound
    <2>7. PoolInv'
      BY <1>1, <1>3, <2>1, <2>2, <2>3, <2>5, <2>6 DEF PoolInv
    <2> QED
      BY <1>2, <1>3, <1>4, <1>1, <2>1, <2>2, <2>3, <2>7
  <1>6. CASE availableAllocations = << >>
    <2>1. /\ b \notin created /\ created' = created \cup {b}
          /\ availableAllocations' = availableAllocations
      BY <1>6 DEF Allocate
    <2>2. owner[b] = NoOwner
      BY <2>1 DEF PoolInv
    <2>3. PoolInv'
      BY <1>1, <1>3, <1>6, <2>1 DEF PoolInv, PoolSound
    <2> QED
      BY <1>1, <1>2, <1>3, <1>4, <2>1, <2>2, <2>3
  <1> QED
    BY <1>5, <1>6

LEMMA PreAppendInd == ASSUME IndInv, NEW q \in Tracks, PreAppend(q) PROVE IndInv'
  <1> DEFINE w == writeNode[q]
  <1>0. w \in Nodes /\ w \in Nat /\ w < MaxNodes
    BY BoundsAssumption DEF PreAppend, IndInv, TypeOK, Nodes
  <1>1. CASE Initialised(q, w)
    <2>1. /\ appendingTo' = q
          /\ UNCHANGED <<allocator, allocation, content, firstNode, readNode, writeNode,
                         totalBytesWritten, metadata, consumer>>
      BY <1>1 DEF PreAppend
    <2>2. TypeOK'
      BY <2>1 DEF IndInv, TypeOK, allocator, metadata, consumer
    <2>3. NodeInv'
      BY <1>0, <1>1, <2>1 DEF IndInv, NodeInv, Initialised
    <2>4. PoolInv' /\ UnreadBlocksOwned'
      BY <2>1 DEF IndInv, PoolInv, PoolSound, UnreadBlocksOwned, Initialised, allocator
    <2>5. SampleInv' /\ ReadInv' /\ FirstInv' /\ BytesInv'
      BY <2>1 DEF IndInv, SampleInv, ReadInv, FirstInv, BytesInv, Initialised, metadata,
                  consumer
    <2> QED
      BY <2>2, <2>3, <2>4, <2>5 DEF IndInv
  <1>2. CASE ~Initialised(q, w)
    <2>1. PICK b \in Blocks : Allocate(b, q, w) /\ allocation' = [allocation EXCEPT ![q][w] = b]
      BY <1>2 DEF PreAppend
    <2>2. /\ appendingTo' = q
          /\ UNCHANGED <<content, firstNode, readNode, writeNode, totalBytesWritten,
                         metadata, consumer>>
      BY DEF PreAppend
    <2>3. /\ owner[b] = NoOwner /\ owner' = [owner EXCEPT ![b] = <<q, w>>]
          /\ <<q, w>> # NoOwner /\ owner' \in [Blocks -> Owner \cup {NoOwner}]
          /\ availableAllocations' \in Seq(Blocks)
          /\ allocatedCount' \in Int
          /\ created' \in SUBSET Blocks
          /\ PoolInv'
      BY <1>0, <2>1, AllocateEffect DEF IndInv
    <2>4. /\ allocation' \in [Tracks -> [Nodes -> Blocks \cup {NoBlock}]]
          /\ allocation'[q][w] = b
          /\ \A r \in Tracks, n \in Nodes :
               r # q \/ n # w => allocation'[r][n] = allocation[r][n]
      BY <1>0, <2>1 DEF IndInv, TypeOK
    <2>5. TypeOK'
      BY <2>2, <2>3, <2>4 DEF IndInv, TypeOK, metadata, consumer
    <2>6. NodeInv'
      <3>1. \A r \in Tracks : UNCHANGED <<writeNode[r], totalBytesWritten[r]>>
        BY <2>2
      <3>2. allocation'[q][w] # NoBlock
        BY <2>4, SentinelAssumption
      <3>3. \A r \in Tracks, n \in Nodes :
              /\ firstNode[r] <= n /\ n < writeNode'[r] => allocation'[r][n] # NoBlock
              /\ writeNode'[r] < n \/ n < firstNode[r] => allocation'[r][n] = NoBlock
        <4> SUFFICES ASSUME NEW r \in Tracks, NEW n \in Nodes
                     PROVE  /\ firstNode[r] <= n /\ n < writeNode[r] =>
                                 allocation'[r][n] # NoBlock
                            /\ writeNode[r] < n \/ n < firstNode[r] =>
                                 allocation'[r][n] = NoBlock
          BY <3>1
        <4>1. CASE r = q /\ n = w
          BY <1>0, <4>1, NodeOrder
        <4>2. CASE r # q \/ n # w
          BY <2>4, <4>2 DEF IndInv, NodeInv, Initialised
        <4> QED
          BY <4>1, <4>2
      <3>4. \A r \in Tracks :
              /\ Start(writeNode'[r]) <= totalBytesWritten'[r]
              /\ totalBytesWritten'[r] < EndPosition(writeNode'[r])
              /\ \/ allocation'[r][writeNode'[r]] # NoBlock
                 \/ totalBytesWritten'[r] = Start(writeNode'[r])
        <4> SUFFICES ASSUME NEW r \in Tracks
                     PROVE  \/ allocation'[r][writeNode[r]] # NoBlock
                            \/ totalBytesWritten[r] = Start(writeNode[r])
          BY <2>2 DEF IndInv, NodeInv
        <4>1. CASE r = q
          BY <3>2, <4>1
        <4>2. CASE r # q
          BY <2>4, <4>2 DEF IndInv, TypeOK, NodeInv, Initialised
        <4> QED
          BY <4>1, <4>2
      <3> QED
        BY <1>0, <2>2, <3>2, <3>3, <3>4 DEF NodeInv, Initialised
    <2>7. ASSUME NEW r \in Tracks, NEW n \in Nodes, readNode[r] <= n, allocation'[r][n] # NoBlock
          PROVE  owner'[allocation'[r][n]] = <<r, n>>
      <3>1. CASE r = q /\ n = w
        BY <2>3, <2>4, <3>1 DEF IndInv, TypeOK
      <3>2. CASE r # q \/ n # w
        <4>1. allocation'[r][n] = allocation[r][n] /\ allocation[r][n] \in Blocks
          BY <2>4, <2>7, <3>2 DEF IndInv, TypeOK
        <4>2. owner[allocation[r][n]] = <<r, n>>
          BY <2>7, <4>1 DEF IndInv, UnreadBlocksOwned, Initialised
        <4>3. <<r, n>> # NoOwner
          BY SentinelAssumption DEF Nodes
        <4> QED
          BY <2>3, <4>1, <4>2, <4>3 DEF IndInv, TypeOK
      <3> QED
        BY <3>1, <3>2
    <2>8. UnreadBlocksOwned'
      BY <2>2, <2>7 DEF UnreadBlocksOwned, Initialised
    <2>9. SampleInv' /\ ReadInv' /\ FirstInv'
      BY <2>2 DEF IndInv, SampleInv, ReadInv, FirstInv, metadata, consumer
    <2>10. BytesInv'
      <3> SUFFICES ASSUME NEW r \in Tracks, NEW n \in Nodes, readNode[r] <= n,
                          allocation'[r][n] # NoBlock, NEW i \in 0 .. AllocationLength - 1,
                          Start(n) + i < totalBytesWritten[r]
                   PROVE  content[allocation'[r][n]][i] = <<r, Start(n) + i>>
        BY <2>2 DEF BytesInv, Initialised
      <3>1. CASE r = q /\ n = w
        <4>1. totalBytesWritten[q] = Start(w)
          BY <1>2 DEF IndInv, NodeInv
        <4> QED
          BY <1>0, <3>1, <4>1, StartType, LengthAssumption
      <3>2. CASE r # q \/ n # w
        <4>1. allocation'[r][n] = allocation[r][n]
          BY <2>4, <3>2
        <4>2. readNode[r] <= n /\ allocation[r][n] # NoBlock
          BY <4>1
        <4> QED
          BY <4>1, <4>2 DEF IndInv, BytesInv, Initialised
      <3> QED
        BY <3>1, <3>2
    <2> QED
      BY <2>3, <2>5, <2>6, <2>8, <2>9, <2>10 DEF IndInv
  <1> QED
    BY <1>1, <1>2

LEMMA WriteBytesInd ==
  ASSUME IndInv, NEW k \in 1 .. AllocationLength, WriteBytes(k)
  PROVE  IndInv'
  <1> DEFINE q == appendingTo
             w == writeNode[q]
             from == totalBytesWritten[q]
             offset == from - Start(w)
             b == allocation[q][w]
  <1>1. /\ q \in Tracks /\ w \in Nodes /\ w \in Nat /\ from \in Nat /\ k \in Nat /\ 1 <= k
        /\ Start(w) \in Nat /\ EndPosition(w) = Start(w) + AllocationLength
        /\ w < MaxNodes
    <2>1. q \in Tracks
      BY DEF IndInv, TypeOK, WriteBytes
    <2>2. w \in Nodes /\ from \in Nat
      BY <2>1 DEF IndInv, TypeOK
    <2>3. w \in Nat /\ w < MaxNodes
      BY <2>2, BoundsAssumption DEF IndInv, NodeInv, WriteBytes, Nodes
    <2>4. k \in Nat /\ 1 <= k
      BY LengthAssumption
    <2> HIDE DEF w, from
    <2> QED
      BY <2>1, <2>2, <2>3, <2>4, StartType
  <1>2. /\ Initialised(q, w) /\ b \in Blocks
        /\ Start(w) <= from /\ from < EndPosition(w)
        /\ offset \in Nat /\ readNode[q] <= w
    <2>1. Initialised(q, w)
      BY DEF IndInv, NodeInv, WriteBytes
    <2>2. b \in Blocks
      BY <1>1, <2>1 DEF IndInv, TypeOK, Initialised
    <2>3. Start(w) <= from /\ from < EndPosition(w) /\ readNode[q] <= w
      BY <1>1 DEF IndInv, NodeInv, ReadInv
    <2> HIDE DEF w, from
    <2> QED
      BY <1>1, <2>1, <2>2, <2>3
  <1>3. /\ from + k <= EndPosition(w)
        /\ content' = [content EXCEPT ![b] =
                         [i \in 0 .. AllocationLength - 1 |->
                            IF i \in offset .. offset + k - 1
                            THEN <<q, from + i - offset>> ELSE @[i]]]
        /\ totalBytesWritten' = [totalBytesWritten EXCEPT ![q] = from + k]
        /\ writeNode' = [writeNode EXCEPT ![q] = NodeAfterAppend(q, from + k)]
        /\ appendingTo' = NoTrack
        /\ UNCHANGED <<allocator, allocation, firstNode, readNode, metadata, consumer>>
    BY DEF WriteBytes
  <1>4. /\ totalBytesWritten' \in [Tracks -> Nat]
        /\ totalBytesWritten'[q] = from + k
        /\ \A r \in Tracks : r # q => totalBytesWritten'[r] = totalBytesWritten[r]
        /\ \A r \in Tracks : totalBytesWritten[r] <= totalBytesWritten'[r]
    <2>1. totalBytesWritten \in [Tracks -> Nat]
      BY DEF IndInv, TypeOK
    <2>2. from + k \in Nat /\ from <= from + k
      <3> HIDE DEF from
      <3> QED
        BY <1>1
    <2>3. /\ totalBytesWritten' \in [Tracks -> Nat]
          /\ totalBytesWritten'[q] = from + k
          /\ \A r \in Tracks : r # q => totalBytesWritten'[r] = totalBytesWritten[r]
      BY <1>1, <1>3, <2>1, <2>2
    <2>4. ASSUME NEW r \in Tracks PROVE totalBytesWritten[r] <= totalBytesWritten'[r]
      <3>1. CASE r = q
        BY <2>2, <2>3, <3>1
      <3>2. CASE r # q
        BY <2>1, <2>3, <3>2
      <3> QED
        BY <3>1, <3>2
    <2> QED
      BY <2>3, <2>4
  <1>5. NodeAfterAppend(q, from + k) \in Nodes
        /\ (\/ /\ from + k = EndPosition(w) /\ NodeAfterAppend(q, from + k) = w + 1
            \/ /\ from + k < EndPosition(w) /\ NodeAfterAppend(q, from + k) = w)
    <2>1. NodeAfterAppend(q, from + k) = IF from + k = EndPosition(w) THEN w + 1 ELSE w
      BY DEF NodeAfterAppend
    <2>2. w \in Nodes /\ w + 1 \in Nodes
      BY <1>1, BoundsAssumption DEF Nodes
    <2> HIDE DEF from, w
    <2>3. from + k \in Nat
      BY <1>1
    <2>4. EndPosition(w) \in Nat
      <3>1. w \in Nat
        BY <1>1
      <3> QED
        BY <3>1, StartType
    <2>5. from + k <= EndPosition(w)
      BY <1>3
    <2> QED
      BY <2>1, <2>2, <2>3, <2>4, <2>5
  <1>6. /\ writeNode' \in [Tracks -> Nodes]
        /\ writeNode'[q] = NodeAfterAppend(q, from + k)
        /\ \A r \in Tracks : r # q => writeNode'[r] = writeNode[r]
    BY <1>1, <1>3, <1>5 DEF IndInv, TypeOK
  <1>7. /\ content' \in [Blocks -> [0 .. AllocationLength - 1 -> Byte \cup {NoByte}]]
        /\ \A c \in Blocks : c # b => content'[c] = content[c]
        /\ \A i \in 0 .. AllocationLength - 1 :
             content'[b][i] = IF i \in offset .. offset + k - 1
                              THEN <<q, from + i - offset>> ELSE content[b][i]
    <2>1. content \in [Blocks -> [0 .. AllocationLength - 1 -> Byte \cup {NoByte}]]
      BY DEF IndInv, TypeOK
    <2> DEFINE f == [i \in 0 .. AllocationLength - 1 |->
                       IF i \in offset .. offset + k - 1
                       THEN <<q, from + i - offset>> ELSE content[b][i]]
    <2>2. \A i \in 0 .. AllocationLength - 1 :
            i \in offset .. offset + k - 1 => <<q, from + i - offset>> \in Byte
      <3> SUFFICES ASSUME NEW i \in offset .. offset + k - 1
                   PROVE  from + i - offset \in Nat
        BY <1>1 DEF Byte
      <3> HIDE DEF from, offset
      <3> QED
        BY <1>1, <1>2
    <2>3. f \in [0 .. AllocationLength - 1 -> Byte \cup {NoByte}]
      BY <1>2, <2>1, <2>2
    <2>4. content' = [content EXCEPT ![b] = f]
      BY <1>3
    <2>5. \A i \in 0 .. AllocationLength - 1 :
            f[i] = IF i \in offset .. offset + k - 1
                   THEN <<q, from + i - offset>> ELSE content[b][i]
      OBVIOUS
    <2> HIDE DEF f
    <2> QED
      BY <1>2, <2>1, <2>3, <2>4, <2>5
  <1> HIDE DEF q, w, from, offset, b
  <1>8. TypeOK'
    BY <1>3, <1>4, <1>6, <1>7 DEF IndInv, TypeOK, allocator, metadata, consumer
  <1>9. NodeInv'
    <2>1. \A r \in Tracks, n \in Nodes :
            /\ firstNode[r] <= n /\ n < writeNode'[r] => allocation[r][n] # NoBlock
            /\ writeNode'[r] < n \/ n < firstNode[r] => allocation[r][n] = NoBlock
      <3> SUFFICES ASSUME NEW r \in Tracks, NEW n \in Nodes
                   PROVE  /\ firstNode[r] <= n /\ n < writeNode'[r] => allocation[r][n] # NoBlock
                          /\ writeNode'[r] < n \/ n < firstNode[r] => allocation[r][n] = NoBlock
        OBVIOUS
      <3>1. /\ firstNode[r] <= n /\ n < writeNode[r] => allocation[r][n] # NoBlock
            /\ writeNode[r] < n \/ n < firstNode[r] => allocation[r][n] = NoBlock
        BY DEF IndInv, NodeInv, Initialised
      <3>2. n \in Nat
        BY DEF Nodes
      <3>3. CASE r = q
        BY <1>1, <1>2, <1>5, <1>6, <3>1, <3>2, <3>3 DEF w, Initialised
      <3>4. CASE r # q
        BY <1>6, <3>1, <3>4
      <3> QED
        BY <3>3, <3>4
    <2>2. \A r \in Tracks :
            /\ Start(writeNode'[r]) <= totalBytesWritten'[r]
            /\ totalBytesWritten'[r] < EndPosition(writeNode'[r])
            /\ \/ allocation[r][writeNode'[r]] # NoBlock
               \/ totalBytesWritten'[r] = Start(writeNode'[r])
      <3> SUFFICES ASSUME NEW r \in Tracks
                   PROVE  /\ Start(writeNode'[r]) <= totalBytesWritten'[r]
                          /\ totalBytesWritten'[r] < EndPosition(writeNode'[r])
                          /\ \/ allocation[r][writeNode'[r]] # NoBlock
                             \/ totalBytesWritten'[r] = Start(writeNode'[r])
        OBVIOUS
      <3>1. CASE r # q
        BY <1>4, <1>6, <3>1 DEF IndInv, NodeInv, Initialised
      <3>2. CASE r = q /\ from + k = EndPosition(w) /\ NodeAfterAppend(q, from + k) = w + 1
        <4>1. /\ Start(w + 1) = EndPosition(w) /\ Start(w + 1) < EndPosition(w + 1)
              /\ Start(w + 1) \in Nat
          BY <1>1, StartType
        <4> QED
          BY <1>4, <1>6, <3>2, <4>1
      <3>3. CASE r = q /\ from + k < EndPosition(w) /\ NodeAfterAppend(q, from + k) = w
        BY <1>1, <1>2, <1>4, <1>6, <3>3 DEF Initialised
      <3> QED
        BY <1>5, <3>1, <3>2, <3>3
    <2> QED
      BY <1>3, <2>1, <2>2 DEF NodeInv, Initialised
  <1>10. PoolInv' /\ UnreadBlocksOwned'
    BY <1>3 DEF IndInv, PoolInv, PoolSound, UnreadBlocksOwned, Initialised, allocator
  <1>11. SampleInv'
    <2>1. \A r \in Tracks : offeredUpTo[r] \in Nat /\ totalBytesWritten[r] \in Nat
                            /\ totalBytesWritten'[r] \in Nat
      BY <1>4 DEF IndInv, TypeOK
    <2>2. \A r \in Tracks : offeredUpTo[r] <= totalBytesWritten'[r]
      BY <1>4, <2>1 DEF IndInv, SampleInv
    <2> QED
      BY <1>3, <2>2 DEF IndInv, SampleInv, metadata
  <1>12. ReadInv'
    <2>1. \A r \in Tracks : readNode[r] <= writeNode'[r]
      <3> SUFFICES ASSUME NEW r \in Tracks PROVE readNode[r] <= writeNode'[r]
        OBVIOUS
      <3>1. readNode[r] \in Nat
        BY DEF IndInv, TypeOK, Nodes
      <3>2. CASE r = q
        BY <1>1, <1>2, <1>5, <1>6, <3>1, <3>2
      <3>3. CASE r # q
        BY <1>6, <3>3 DEF IndInv, ReadInv
      <3> QED
        BY <3>2, <3>3
    <2> QED
      BY <1>3, <2>1 DEF IndInv, ReadInv, metadata, consumer
  <1>13. BytesInv'
    <2> SUFFICES ASSUME NEW r \in Tracks, NEW n \in Nodes, readNode[r] <= n,
                        Initialised(r, n), NEW i \in 0 .. AllocationLength - 1,
                        Start(n) + i < totalBytesWritten'[r]
                 PROVE  content'[allocation[r][n]][i] = <<r, Start(n) + i>>
      BY <1>3 DEF BytesInv, Initialised
    <2>1. n \in Nat /\ i \in Nat /\ Start(n) \in Nat /\ Start(n) + i < EndPosition(n)
          /\ EndPosition(n) \in Nat
      BY StartType, LengthAssumption DEF Nodes
    <2>2. allocation[r][n] \in Blocks
      BY DEF IndInv, TypeOK, Initialised
    <2>3. Start(n) + i < totalBytesWritten[r] =>
            content[allocation[r][n]][i] = <<r, Start(n) + i>>
      BY DEF IndInv, BytesInv
    <2>4. CASE r = q /\ n = w
      <3>1. allocation[r][n] = b
        BY <2>4 DEF b, w
      <3>2. Start(w) + i < from + k /\ from = Start(w) + offset
        BY <1>1, <1>2, <1>4, <2>4 DEF offset
      <3>3. CASE i \in offset .. offset + k - 1
        <4>1. from + i - offset = Start(w) + i
          BY <1>1, <1>2, <2>1, <3>2
        <4> QED
          BY <1>7, <2>4, <3>1, <3>3, <4>1
      <3>4. CASE i \notin offset .. offset + k - 1
        <4>1. i < offset
          BY <1>1, <1>2, <2>1, <3>2, <3>4
        <4>2. Start(n) + i < totalBytesWritten[r]
          BY <1>1, <1>2, <2>1, <2>4, <3>2, <4>1 DEF from
        <4> QED
          BY <1>7, <2>3, <3>1, <3>4, <4>2
      <3> QED
        BY <3>3, <3>4
    <2>5. CASE r # q \/ n # w
      <3>1. allocation[r][n] # b
        BY <1>1, <1>2, <2>5, OwnersDiffer DEF b, w
      <3>2. Start(n) + i < totalBytesWritten[r]
        <4>1. CASE r # q
          BY <1>4, <4>1
        <4>2. CASE r = q /\ n # w
          <5>1. ~(w < n)
            BY <4>2 DEF IndInv, NodeInv, w
          <5>2. EndPosition(n) <= Start(w)
            BY <1>1, <2>1, <4>2, <5>1, NodesInOrder
          <5> QED
            BY <1>1, <1>2, <2>1, <4>2, <5>2 DEF from
        <4> QED
          BY <2>5, <4>1, <4>2
      <3> QED
        BY <1>7, <2>2, <2>3, <3>1, <3>2
    <2> QED
      BY <2>4, <2>5
  <1>14. FirstInv'
    BY <1>3 DEF IndInv, FirstInv, metadata
  <1> QED
    BY <1>8, <1>9, <1>10, <1>11, <1>12, <1>13, <1>14 DEF IndInv

LEMMA AppendNothingInd == ASSUME IndInv, AppendNothing PROVE IndInv'
  <1>1. appendingTo' = NoTrack /\ UNCHANGED <<allocator, content, nodes, metadata, consumer>>
    BY DEF AppendNothing
  <1>2. TypeOK' /\ NodeInv' /\ PoolInv' /\ UnreadBlocksOwned'
    BY <1>1 DEF IndInv, TypeOK, NodeInv, PoolInv, PoolSound, UnreadBlocksOwned, Initialised,
                allocator, nodes, metadata, consumer
  <1>3. SampleInv' /\ ReadInv' /\ FirstInv' /\ BytesInv'
    BY <1>1 DEF IndInv, SampleInv, ReadInv, FirstInv, BytesInv, Initialised,
                allocator, nodes, metadata, consumer
  <1> QED
    BY <1>2, <1>3 DEF IndInv

LEMMA SampleMetadataInd ==
  ASSUME IndInv, NEW q \in Tracks, NEW from \in 0 .. MaxBytes, NEW to \in 0 .. MaxBytes,
         NEW key \in BOOLEAN, SampleMetadata(q, from, to, key)
  PROVE  IndInv'
  <1> DEFINE s == [from |-> from, to |-> to]
             old == committed[q]
  <1>1. /\ offeredUpTo[q] <= from /\ from < to /\ to <= totalBytesWritten[q]
        /\ offeredUpTo' = [offeredUpTo EXCEPT ![q] = to]
        /\ UNCHANGED <<allocator, content, nodes, readPosition, appendingTo, consumer>>
    BY DEF SampleMetadata
  <1>2. /\ old \in Seq(Extent) /\ Len(old) \in Nat /\ offeredUpTo[q] \in Nat
        /\ from \in Nat /\ to \in Nat /\ s \in Extent
        /\ readPosition[q] \in Nat /\ readPosition[q] <= Len(old)
    BY BoundsAssumption DEF IndInv, TypeOK, Extent, SampleInv
  <1>3. /\ offeredUpTo' \in [Tracks -> Nat] /\ offeredUpTo'[q] = to
        /\ offeredUpTo[q] <= offeredUpTo'[q]
        /\ \A r \in Tracks : r # q => offeredUpTo'[r] = offeredUpTo[r]
    <2>1. offeredUpTo \in [Tracks -> Nat]
      BY DEF IndInv, TypeOK
    <2> QED
      BY <1>1, <1>2, <2>1
  <1>4. /\ committed' \in [Tracks -> Seq(Extent)]
        /\ keyframeRequired' \in [Tracks -> BOOLEAN]
        /\ \A r \in Tracks : r # q => committed'[r] = committed[r]
        /\ \/ committed'[q] = old
           \/ committed'[q] = Append(old, s)
    <2>1. committed \in [Tracks -> Seq(Extent)] /\ keyframeRequired \in [Tracks -> BOOLEAN]
      BY DEF IndInv, TypeOK
    <2>2. CASE keyframeRequired[q] /\ ~key
      BY <2>1, <2>2 DEF SampleMetadata
    <2>3. CASE ~(keyframeRequired[q] /\ ~key)
      <3>1. /\ committed' = [committed EXCEPT ![q] = Append(old, s)]
            /\ keyframeRequired' = [keyframeRequired EXCEPT ![q] = FALSE]
        BY <2>3 DEF SampleMetadata
      <3>2. Append(old, s) \in Seq(Extent)
        BY <1>2
      <3> HIDE DEF s, old
      <3> QED
        BY <2>1, <3>1, <3>2
    <2> QED
      BY <2>2, <2>3
  <1>5. /\ Len(committed'[q]) \in Nat /\ Len(old) <= Len(committed'[q])
        /\ \A i \in 1 .. Len(committed'[q]) :
             \/ i \in 1 .. Len(old) /\ committed'[q][i] = old[i]
             \/ i = Len(old) + 1 /\ committed'[q][i].from = from /\ committed'[q][i].to = to
    <2>1. CASE committed'[q] = old
      BY <1>2, <2>1
    <2>2. CASE committed'[q] = Append(old, s)
      <3>1. /\ Len(Append(old, s)) = Len(old) + 1
            /\ \A i \in 1 .. Len(old) : Append(old, s)[i] = old[i]
            /\ Append(old, s)[Len(old) + 1] = s
        BY <1>2
      <3>2. s.from = from /\ s.to = to
        OBVIOUS
      <3> HIDE DEF s, old
      <3> QED
        BY <1>2, <2>2, <3>1, <3>2
    <2> QED
      BY <1>4, <2>1, <2>2
  <1>6. \A i \in 1 .. Len(old) :
          /\ old[i].from \in Nat /\ old[i].to \in Nat
          /\ old[i].from < old[i].to /\ old[i].to <= offeredUpTo[q]
    <2>1. \A i \in 1 .. Len(old) : old[i] \in Extent
      BY <1>2
    <2>2. \A i \in 1 .. Len(old) : old[i].from < old[i].to /\ old[i].to <= offeredUpTo[q]
      BY DEF IndInv, SampleInv
    <2> HIDE DEF old
    <2> QED
      BY <2>1, <2>2 DEF Extent
  <1>7. \A i, j \in 1 .. Len(old) : i < j => old[i].to <= old[j].from
    BY DEF IndInv, SampleInv
  <1>8. /\ reading = q => end <= offeredUpTo[q]
        /\ \A r \in Tracks : reading = r => end <= offeredUpTo'[r]
    <2>1. end \in Nat /\ \A r \in Tracks : reading = r => end <= offeredUpTo[r]
      BY DEF IndInv, TypeOK, ReadInv
    <2> QED
      BY <1>1, <1>2, <1>3, <2>1
  <1>9. /\ Start(readNode[q]) <= offeredUpTo[q] /\ Start(readNode[q]) \in Nat
        /\ \A i \in readPosition[q] + 1 .. Len(old) :
             /\ Start(readNode[q]) <= old[i].from
             /\ reading = q => end <= old[i].from
    <2>1. readNode[q] \in Nat
      BY DEF IndInv, TypeOK, Nodes
    <2> QED
      BY <2>1, StartType DEF IndInv, ReadInv
  <1> HIDE DEF s, old
  <1>10. TypeOK'
    BY <1>1, <1>3, <1>4 DEF IndInv, TypeOK, allocator, nodes, consumer
  <1>11. NodeInv' /\ PoolInv' /\ UnreadBlocksOwned' /\ BytesInv'
    <2>1. NodeInv' /\ PoolInv'
      BY <1>1 DEF IndInv, NodeInv, PoolInv, PoolSound, Initialised, allocator, nodes
    <2>2. UnreadBlocksOwned' /\ BytesInv'
      BY <1>1 DEF IndInv, UnreadBlocksOwned, BytesInv, Initialised, allocator, nodes
    <2> QED
      BY <2>1, <2>2
  <1>12. SampleInv'
    <2> SUFFICES ASSUME NEW r \in Tracks
                 PROVE  /\ offeredUpTo'[r] <= totalBytesWritten[r]
                        /\ readPosition[r] <= Len(committed'[r])
                        /\ \A i \in 1 .. Len(committed'[r]) :
                             /\ committed'[r][i].from < committed'[r][i].to
                             /\ committed'[r][i].to <= offeredUpTo'[r]
                        /\ \A i, j \in 1 .. Len(committed'[r]) :
                             i < j => committed'[r][i].to <= committed'[r][j].from
      BY <1>1 DEF SampleInv, nodes
    <2>1. CASE r # q
      BY <1>3, <1>4, <2>1 DEF IndInv, SampleInv
    <2>2. CASE r = q
      <3>1. \A i \in 1 .. Len(committed'[q]) :
              /\ committed'[q][i].from < committed'[q][i].to
              /\ committed'[q][i].to <= offeredUpTo'[q]
        <4> SUFFICES ASSUME NEW i \in 1 .. Len(committed'[q])
                     PROVE  /\ committed'[q][i].from < committed'[q][i].to
                            /\ committed'[q][i].to <= offeredUpTo'[q]
          OBVIOUS
        <4>1. CASE i \in 1 .. Len(old) /\ committed'[q][i] = old[i]
          <5>1. /\ old[i].from < old[i].to /\ old[i].to <= offeredUpTo[q] /\ old[i].to \in Nat
            BY <1>6, <4>1
          <5>2. old[i].to <= offeredUpTo'[q]
            BY <1>2, <1>3, <5>1
          <5> QED
            BY <4>1, <5>1, <5>2
        <4>2. CASE committed'[q][i].from = from /\ committed'[q][i].to = to
          BY <1>1, <1>2, <1>3, <4>2
        <4> QED
          BY <1>5, <4>1, <4>2
      <3>2. ASSUME NEW i \in 1 .. Len(committed'[q]), NEW j \in 1 .. Len(committed'[q]), i < j
            PROVE  committed'[q][i].to <= committed'[q][j].from
        <4>1. i \in 1 .. Len(old) /\ committed'[q][i] = old[i]
          BY <1>2, <1>5, <3>2
        <4>2. CASE j \in 1 .. Len(old) /\ committed'[q][j] = old[j]
          BY <1>7, <3>2, <4>1, <4>2
        <4>3. CASE j = Len(old) + 1 /\ committed'[q][j].from = from
          BY <1>1, <1>2, <1>6, <4>1, <4>3
        <4> QED
          BY <1>5, <4>2, <4>3
      <3>3. offeredUpTo'[r] <= totalBytesWritten[r]
        BY <1>1, <1>3, <2>2
      <3>4. readPosition[r] <= Len(committed'[r])
        BY <1>2, <1>5, <2>2
      <3> QED
        BY <2>2, <3>1, <3>2, <3>3, <3>4
    <2> QED
      BY <2>1, <2>2
  <1>13. ReadInv'
    <2> SUFFICES ASSUME NEW r \in Tracks
                 PROVE  /\ Start(readNode[r]) <= offeredUpTo'[r]
                        /\ \A i \in readPosition[r] + 1 .. Len(committed'[r]) :
                             Start(readNode[r]) <= committed'[r][i].from
                        /\ reading = r =>
                             \A i \in readPosition[r] + 1 .. Len(committed'[r]) :
                               end <= committed'[r][i].from
      BY <1>1, <1>8 DEF IndInv, ReadInv, nodes, consumer
    <2>1. CASE r # q
      BY <1>3, <1>4, <2>1 DEF IndInv, ReadInv
    <2>2. CASE r = q
      <3>1. Start(readNode[q]) <= from /\ (reading = q => end <= from) /\ end \in Nat
        <4>1. end \in Nat
          BY DEF IndInv, TypeOK
        <4>2. offeredUpTo[q] <= from /\ offeredUpTo[q] \in Nat /\ from \in Nat
          BY <1>1, <1>2
        <4>3. Start(readNode[q]) <= from
          BY <1>9, <4>2
        <4>4. reading = q => end <= from
          BY <1>8, <4>1, <4>2
        <4> QED
          BY <4>1, <4>3, <4>4
      <3>2. ASSUME NEW i \in readPosition[q] + 1 .. Len(committed'[q])
            PROVE  /\ Start(readNode[q]) <= committed'[q][i].from
                   /\ reading = q => end <= committed'[q][i].from
        <4>1. i \in 1 .. Len(committed'[q])
          <5>1. readPosition[q] \in Nat
            BY <1>2
          <5>2. Len(committed'[q]) \in Nat
            BY <1>2, <1>5
          <5> QED
            BY <5>1, <5>2
        <4>2. CASE i \in 1 .. Len(old) /\ committed'[q][i] = old[i]
          <5>1. i \in readPosition[q] + 1 .. Len(old)
            BY <1>2, <1>5, <4>2
          <5> QED
            BY <1>9, <4>2, <5>1 DEF old
        <4>3. CASE i = Len(old) + 1 /\ committed'[q][i].from = from
          BY <3>1, <4>3
        <4> QED
          BY <1>5, <4>1, <4>2, <4>3
      <3>3. Start(readNode[q]) <= offeredUpTo'[q]
        BY <1>2, <1>3, <1>9
      <3> QED
        BY <2>2, <3>2, <3>3
    <2> QED
      BY <2>1, <2>2
  <1>14. FirstInv'
    <2> SUFFICES ASSUME NEW r \in Tracks, NEW i \in 1 .. Len(committed'[r])
                 PROVE  Start(firstNode[r]) <= committed'[r][i].from
      BY <1>1 DEF IndInv, FirstInv, nodes
    <2>1. CASE r # q \/ (i \in 1 .. Len(old) /\ committed'[r][i] = old[i])
      BY <1>4, <2>1 DEF IndInv, FirstInv, old
    <2>2. CASE r = q /\ committed'[r][i].from = from
      <3>1. Start(firstNode[q]) <= Start(readNode[q]) /\ Start(firstNode[q]) \in Nat
        BY NodeOrder, StartsInOrder
      <3> QED
        BY <1>1, <1>2, <1>9, <2>2, <3>1
    <2> QED
      BY <1>5, <2>1, <2>2
  <1> QED
    BY <1>10, <1>11, <1>12, <1>13, <1>14 DEF IndInv

-----------------------------------------------------------------------------
(* The transcoding thread                                                  *)

LEMMA ReadInd == ASSUME IndInv, NEW q \in Tracks, Read(q) PROVE IndInv'
  <1> DEFINE i0 == readPosition[q] + 1
             s == committed[q][i0]
  <1>1. PICK n \in Nodes :
          /\ n >= readNode[q] /\ s.from < EndPosition(n)
          /\ n = readNode[q] \/ s.from >= Start(n)
          /\ readNode' = [readNode EXCEPT ![q] = n]
    BY DEF Read
  <1>2. /\ reading = NoTrack /\ reading' = q /\ position' = s.from /\ end' = s.to
        /\ out' = << >> /\ readPosition' = [readPosition EXCEPT ![q] = i0]
        /\ UNCHANGED <<allocator, content, allocation, firstNode, writeNode,
                       totalBytesWritten, committed, offeredUpTo, keyframeRequired,
                       appendingTo, delivered>>
        /\ i0 <= Len(committed[q])
    BY DEF Read, IndInv, TypeOK
  <1>3. /\ committed[q] \in Seq(Extent) /\ readPosition[q] \in Nat /\ Len(committed[q]) \in Nat
        /\ i0 \in 1 .. Len(committed[q]) /\ s.from \in Nat /\ s.to \in Nat
        /\ s.from < s.to /\ s.to <= offeredUpTo[q] /\ offeredUpTo[q] \in Nat
    <2>1. committed[q] \in Seq(Extent) /\ readPosition[q] \in Nat /\ offeredUpTo[q] \in Nat
      BY DEF IndInv, TypeOK
    <2>2. Len(committed[q]) \in Nat /\ i0 \in 1 .. Len(committed[q])
      BY <1>2, <2>1
    <2>3. s \in Extent
      BY <2>1, <2>2
    <2> HIDE DEF i0
    <2> QED
      BY <2>1, <2>2, <2>3 DEF IndInv, SampleInv, Extent
  <1>4. /\ Start(readNode[q]) <= s.from
        /\ \A i \in i0 + 1 .. Len(committed[q]) :
             s.to <= committed[q][i].from /\ committed[q][i].from \in Nat
    <2>1. Start(readNode[q]) <= s.from
      <3>1. i0 \in readPosition[q] + 1 .. Len(committed[q])
        BY <1>3
      <3> HIDE DEF i0
      <3> QED
        BY <3>1 DEF IndInv, ReadInv
    <2>2. ASSUME NEW i \in i0 + 1 .. Len(committed[q])
          PROVE  s.to <= committed[q][i].from /\ committed[q][i].from \in Nat
      <3>1. i \in 1 .. Len(committed[q]) /\ i0 < i
        BY <1>3
      <3> HIDE DEF i0
      <3>2. s.to <= committed[q][i].from
        BY <1>3, <3>1 DEF IndInv, SampleInv
      <3>3. committed[q][i] \in Extent
        BY <1>3, <3>1
      <3> QED
        BY <3>2, <3>3 DEF Extent
    <2> QED
      BY <2>1, <2>2
  <1>5. /\ n \in Nat /\ readNode[q] \in Nat /\ Start(n) \in Nat /\ EndPosition(n) \in Nat
        /\ Start(n) <= s.from
    <2>1. n \in Nat /\ readNode[q] \in Nat
      BY DEF IndInv, TypeOK, Nodes
    <2>2. Start(n) \in Nat /\ EndPosition(n) \in Nat
      BY <2>1, StartType
    <2> HIDE DEF s
    <2> QED
      BY <1>1, <1>4, <2>1, <2>2
  <1>6. /\ readNode' \in [Tracks -> Nodes] /\ readNode'[q] = n /\ readNode[q] <= n
        /\ readPosition' \in [Tracks -> Nat] /\ readPosition'[q] = i0
        /\ \A r \in Tracks : r # q => /\ readNode'[r] = readNode[r]
                                      /\ readPosition'[r] = readPosition[r]
    <2>1. readNode \in [Tracks -> Nodes] /\ readPosition \in [Tracks -> Nat]
      BY DEF IndInv, TypeOK
    <2>2. i0 \in Nat
      BY <1>3
    <2> HIDE DEF i0
    <2> QED
      BY <1>1, <1>2, <1>5, <2>1, <2>2
  <1>7. n <= writeNode[q]
    <2>1. /\ s.from < totalBytesWritten[q] /\ totalBytesWritten[q] < EndPosition(writeNode[q])
          /\ writeNode[q] \in Nat /\ totalBytesWritten[q] \in Nat
      <3>1. totalBytesWritten[q] \in Nat /\ writeNode[q] \in Nodes
        BY DEF IndInv, TypeOK
      <3>2. writeNode[q] \in Nat
        BY <3>1 DEF Nodes
      <3>3. offeredUpTo[q] <= totalBytesWritten[q]
        BY DEF IndInv, SampleInv
      <3>4. totalBytesWritten[q] < EndPosition(writeNode[q])
        BY DEF IndInv, NodeInv
      <3> HIDE DEF s
      <3> QED
        BY <1>3, <3>1, <3>2, <3>3, <3>4
    <2>2. EndPosition(writeNode[q]) \in Nat
      BY <2>1, StartType
    <2>3. s.from < EndPosition(writeNode[q])
      BY <1>3, <2>1, <2>2
    <2>4. s.from \in Nat
      BY <1>3
    <2>5. n \in Nat /\ Start(n) <= s.from
      BY <1>5
    <2> HIDE DEF s
    <2> QED
      BY <2>1, <2>3, <2>4, <2>5, NodeOfPosition
  <1>8. \A r \in Tracks : readNode[r] \in Nat /\ readNode'[r] \in Nat
                          /\ readNode[r] <= readNode'[r]
    <2>1. \A r \in Tracks : readNode[r] \in Nat
      BY DEF IndInv, TypeOK, Nodes
    <2> QED
      BY <1>5, <1>6, <2>1
  <1> HIDE DEF i0, s
  <1>9. TypeOK'
    <2>1. out' \in Seq(Byte \cup {NoByte}) /\ reading' \in Tracks \cup {NoTrack}
          /\ position' \in Nat /\ end' \in Nat
      BY <1>2, <1>3
    <2> QED
      BY <1>2, <1>6, <2>1 DEF IndInv, TypeOK, allocator
  <1>10. NodeInv' /\ PoolInv'
    BY <1>2 DEF IndInv, NodeInv, PoolInv, PoolSound, Initialised, allocator
  <1>11. UnreadBlocksOwned' /\ BytesInv'
    <2>1. \A r \in Tracks, m \in Nodes : readNode'[r] <= m => readNode[r] <= m
      BY <1>8 DEF Nodes
    <2> QED
      BY <1>2, <2>1 DEF IndInv, UnreadBlocksOwned, BytesInv, Initialised, allocator
  <1>12. SampleInv'
    BY <1>2, <1>3, <1>6 DEF IndInv, SampleInv
  <1>13. ReadInv'
    <2> SUFFICES ASSUME NEW r \in Tracks
                 PROVE  /\ readNode'[r] <= writeNode[r]
                        /\ Start(readNode'[r]) <= offeredUpTo[r]
                        /\ \A i \in readPosition'[r] + 1 .. Len(committed[r]) :
                             Start(readNode'[r]) <= committed[r][i].from
                        /\ reading' = r =>
                             /\ Start(readNode'[r]) <= position'
                             /\ position' <= EndPosition(readNode'[r])
                             /\ position' <= end' /\ end' <= offeredUpTo[r]
                             /\ \A i \in readPosition'[r] + 1 .. Len(committed[r]) :
                                  end' <= committed[r][i].from
      BY <1>2 DEF ReadInv
    <2>1. CASE r = q
      <3>1. readNode'[r] = n /\ readPosition'[r] = i0
        BY <1>6, <2>1
      <3>2. n <= writeNode[r]
        BY <1>7, <2>1
      <3>3. Start(n) <= offeredUpTo[r]
        BY <1>3, <1>5, <2>1
      <3>4. ASSUME NEW i \in i0 + 1 .. Len(committed[r])
            PROVE  Start(n) <= committed[r][i].from /\ s.to <= committed[r][i].from
        <4>1. s.to <= committed[q][i].from /\ committed[q][i].from \in Nat
          BY <1>4, <2>1, <3>4
        <4>2. s.to \in Nat /\ Start(n) \in Nat /\ Start(n) <= s.to
          BY <1>3, <1>5
        <4> QED
          BY <2>1, <4>1, <4>2
      <3>5. /\ Start(n) <= position' /\ position' <= EndPosition(n)
            /\ position' <= end' /\ end' <= offeredUpTo[r] /\ end' = s.to
        <4>1. position' = s.from /\ end' = s.to
          BY <1>2
        <4>2. s.from < EndPosition(n)
          BY <1>1
        <4> QED
          BY <1>3, <1>5, <2>1, <4>1, <4>2
      <3> QED
        BY <3>1, <3>2, <3>3, <3>4, <3>5
    <2>2. CASE r # q
      BY <1>2, <1>6, <2>2 DEF IndInv, ReadInv
    <2> QED
      BY <2>1, <2>2
  <1>14. FirstInv'
    BY <1>2, <1>8, FirstKept
  <1> QED
    BY <1>9, <1>10, <1>11, <1>12, <1>13, <1>14 DEF IndInv

LEMMA DeliveredInd == ASSUME IndInv, Delivered PROVE IndInv'
  <1>1. /\ reading \in Tracks
        /\ delivered' = [delivered EXCEPT ![reading] = Append(@, out)]
        /\ reading' = NoTrack /\ out' = << >> /\ position' = 0 /\ end' = 0
        /\ UNCHANGED <<allocator, content, nodes, metadata, appendingTo>>
    BY DEF Delivered, IndInv, TypeOK
  <1>2. delivered' \in [Tracks -> Seq(Seq(Byte \cup {NoByte}))]
    <2> DEFINE Sample == Seq(Byte \cup {NoByte})
    <2>1. delivered \in [Tracks -> Seq(Sample)] /\ out \in Sample
      BY DEF IndInv, TypeOK
    <2> HIDE DEF Sample
    <2>2. Append(delivered[reading], out) \in Seq(Sample)
      BY <1>1, <2>1
    <2>3. delivered' \in [Tracks -> Seq(Sample)]
      BY <1>1, <2>1, <2>2
    <2> QED
      BY <2>3 DEF Sample
  <1>3. TypeOK'
    <2>1. out' \in Seq(Byte \cup {NoByte}) /\ reading' \in Tracks \cup {NoTrack}
          /\ position' \in Nat /\ end' \in Nat
      BY <1>1
    <2> QED
      BY <1>1, <1>2, <2>1 DEF IndInv, TypeOK, allocator, nodes, metadata
  <1>4. NodeInv' /\ PoolInv' /\ UnreadBlocksOwned'
    BY <1>1 DEF IndInv, NodeInv, PoolInv, PoolSound, UnreadBlocksOwned, Initialised,
                allocator, nodes
  <1>5. SampleInv' /\ BytesInv'
    BY <1>1 DEF IndInv, SampleInv, BytesInv, Initialised, allocator, nodes, metadata
  <1>6. ReadInv' /\ FirstInv'
    BY <1>1, SentinelAssumption DEF IndInv, ReadInv, FirstInv, nodes, metadata
  <1> QED
    BY <1>3, <1>4, <1>5, <1>6 DEF IndInv

(* While a sample is copied its track's read node has been written to.     *)
LEMMA ReadingFacts ==
  ASSUME IndInv, reading \in Tracks, position < end \/ AtNodeEnd(reading)
  PROVE  LET q == reading
             n == readNode[q]
         IN  /\ n \in Nodes /\ n \in Nat /\ writeNode[q] \in Nat /\ n <= writeNode[q]
             /\ position \in Nat /\ end \in Nat /\ offeredUpTo[q] \in Nat
             /\ Start(n) \in Nat /\ EndPosition(n) = Start(n) + AllocationLength
             /\ Start(n) <= position /\ position <= EndPosition(n)
             /\ position <= end /\ end <= offeredUpTo[q]
             /\ Initialised(q, n) /\ allocation[q][n] \in Blocks
             /\ owner[allocation[q][n]] = <<q, n>>
             /\ AtNodeEnd(q) => n < writeNode[q]
  <1> DEFINE q == reading
             n == readNode[q]
             w == writeNode[q]
             total == totalBytesWritten[q]
  <1>1. /\ n \in Nodes /\ n \in Nat /\ w \in Nat /\ w \in Nodes /\ total \in Nat
        /\ position \in Nat /\ end \in Nat /\ offeredUpTo[q] \in Nat
    BY DEF IndInv, TypeOK, Nodes
  <1>2. /\ n <= w /\ Start(n) <= position /\ position <= EndPosition(n)
        /\ position <= end /\ end <= offeredUpTo[q] /\ offeredUpTo[q] <= total
    BY DEF IndInv, ReadInv, SampleInv
  <1>3. /\ Start(w) <= total /\ total < EndPosition(w)
        /\ Initialised(q, w) \/ total = Start(w)
        /\ n < w => Initialised(q, n)
    BY <1>1, NodeOrder DEF IndInv, NodeInv
  <1> HIDE DEF n, w, total
  <1>4. /\ Start(n) \in Nat /\ EndPosition(n) = Start(n) + AllocationLength
        /\ Start(w) \in Nat /\ EndPosition(w) \in Nat /\ Start(n) < EndPosition(n)
        /\ EndPosition(n) \in Nat
    BY <1>1, StartType
  <1>5. AtNodeEnd(q) => position = EndPosition(n)
    BY DEF AtNodeEnd, n
  <1>6. Start(n) < total
    BY <1>1, <1>2, <1>4, <1>5
  <1>7. Initialised(q, n) /\ (AtNodeEnd(q) => n < w)
    <2>1. CASE n = w
      BY <1>1, <1>2, <1>3, <1>4, <1>5, <1>6, <2>1
    <2>2. CASE n # w
      BY <1>1, <1>2, <1>3, <2>2
    <2> QED
      BY <2>1, <2>2
  <1>8. allocation[q][n] \in Blocks
    BY <1>1, <1>7 DEF IndInv, TypeOK, Initialised
  <1>9. owner[allocation[q][n]] = <<q, n>>
    BY <1>1, <1>7 DEF IndInv, UnreadBlocksOwned, n
  <1> QED
    BY <1>1, <1>2, <1>4, <1>7, <1>8, <1>9 DEF n, w

LEMMA CopyChunkInd == ASSUME IndInv, CopyChunk PROVE IndInv'
  <1> DEFINE q == reading
             n == readNode[q]
             b == allocation[q][n]
             to == IF end < EndPosition(n) THEN end ELSE EndPosition(n)
             Data == Byte \cup {NoByte}
             chunk == [i \in 1 .. to - position |-> content[b][position + i - 1 - Start(n)]]
  <1>1. /\ q \in Tracks /\ position < end /\ ~AtNodeEnd(q)
        /\ out' = out \o chunk /\ position' = to
        /\ UNCHANGED <<allocator, content, nodes, metadata, appendingTo, reading, end,
                       delivered>>
    BY DEF CopyChunk, Copied, IndInv, TypeOK
  <1>2. /\ n \in Nodes /\ n \in Nat /\ b \in Blocks
        /\ position \in Nat /\ end \in Nat /\ offeredUpTo[q] \in Nat
        /\ Start(n) \in Nat /\ EndPosition(n) = Start(n) + AllocationLength
        /\ Start(n) <= position /\ position <= EndPosition(n)
        /\ end <= offeredUpTo[q]
    BY <1>1, ReadingFacts
  <1>3. position # EndPosition(n)
    BY <1>1 DEF AtNodeEnd
  <1>4. content[b] \in [0 .. AllocationLength - 1 -> Data] /\ out \in Seq(Data)
    BY <1>2 DEF IndInv, TypeOK
  <1> HIDE DEF q, n, b, Data
  <1>5. to \in Nat /\ position < to /\ to <= EndPosition(n) /\ to <= end
    BY <1>1, <1>2, <1>3, LengthAssumption
  <1> HIDE DEF to
  <1>6. to - position \in Nat
    BY <1>2, <1>5
  <1>7. \A i \in 1 .. to - position : content[b][position + i - 1 - Start(n)] \in Data
    <2> SUFFICES ASSUME NEW i \in 1 .. to - position
                 PROVE  content[b][position + i - 1 - Start(n)] \in Data
      OBVIOUS
    <2>1. position + i - 1 - Start(n) \in 0 .. AllocationLength - 1
      BY <1>2, <1>5, LengthAssumption
    <2> QED
      BY <1>4, <2>1
  <1>8. chunk \in Seq(Data)
    BY <1>6, <1>7
  <1> HIDE DEF chunk
  <1>9. out' \in Seq(Data)
    BY <1>1, <1>4, <1>8, ConcatProperties
  <1>10. TypeOK'
    BY <1>1, <1>5, <1>9 DEF IndInv, TypeOK, Data, allocator, nodes, metadata
  <1>11. NodeInv' /\ PoolInv'
    BY <1>1 DEF IndInv, NodeInv, PoolInv, PoolSound, Initialised, allocator, nodes
  <1>12. UnreadBlocksOwned' /\ BytesInv'
    BY <1>1 DEF IndInv, UnreadBlocksOwned, BytesInv, Initialised, allocator, nodes
  <1>13. SampleInv'
    BY <1>1 DEF IndInv, SampleInv, nodes, metadata
  <1>14. ReadInv'
    <2>1. \A r \in Tracks : reading' = r =>
            /\ Start(readNode[r]) <= position' /\ position' <= EndPosition(readNode[r])
            /\ position' <= end
      BY <1>1, <1>2, <1>5 DEF q, n
    <2> QED
      BY <1>1, <2>1 DEF IndInv, ReadInv, nodes, metadata
  <1>15. FirstInv'
    BY <1>1 DEF IndInv, FirstInv, nodes, metadata
  <1> QED
    BY <1>10, <1>11, <1>12, <1>13, <1>14, <1>15 DEF IndInv

LEMMA ReleaseReadNodeInd == ASSUME IndInv, ReleaseReadNode PROVE IndInv'
  <1> DEFINE q == reading
             n == readNode[q]
             b == allocation[q][n]
             old == availableAllocations
  <1>1. /\ q \in Tracks /\ AtNodeEnd(q) /\ Release(<<b>>)
        /\ readNode' = [readNode EXCEPT ![q] = n + 1]
        /\ UNCHANGED <<content, allocation, firstNode, writeNode, totalBytesWritten,
                       metadata, appendingTo, consumer>>
    BY DEF ReleaseReadNode, ReadNodeBlock, IndInv, TypeOK
  <1>2. /\ n \in Nodes /\ n \in Nat /\ b \in Blocks
        /\ writeNode[q] \in Nat /\ n < writeNode[q]
        /\ position \in Nat /\ end \in Nat /\ offeredUpTo[q] \in Nat
        /\ position <= end /\ end <= offeredUpTo[q]
        /\ Initialised(q, n) /\ owner[b] = <<q, n>>
    BY <1>1, ReadingFacts
  <1>3. n + 1 \in Nodes /\ position = Start(n + 1) /\ Start(n + 1) \in Nat
        /\ Start(n + 1) <= EndPosition(n + 1) /\ EndPosition(n + 1) \in Nat
    <2>1. writeNode[q] \in Nodes
      BY <1>1 DEF IndInv, TypeOK
    <2>2. position = EndPosition(n)
      BY <1>1 DEF AtNodeEnd
    <2> HIDE DEF n
    <2> QED
      BY <1>2, <2>1, <2>2, StartType, BoundsAssumption DEF Nodes
  <1>4. /\ owner \in [Blocks -> Owner \cup {NoOwner}] /\ old \in Seq(Blocks)
        /\ Len(old) \in Nat /\ allocatedCount \in Int
    BY DEF IndInv, TypeOK
  <1>5. owner[b] # NoOwner
    BY <1>1, <1>2, SentinelAssumption
  <1>6. /\ owner' \in [Blocks -> Owner \cup {NoOwner}]
        /\ owner'[b] = NoOwner
        /\ \A c \in Blocks : c # b => owner'[c] = owner[c]
        /\ allocatedCount' \in Int /\ created' = created
        /\ availableAllocations' = old \o <<b>>
    <2>1. owner' = [c \in Blocks |-> IF c = b THEN NoOwner ELSE owner[c]]
      BY <1>1 DEF Release
    <2>2. allocatedCount' = allocatedCount - 1
      BY <1>1 DEF Release
    <2> HIDE DEF b
    <2> QED
      BY <1>1, <1>2, <1>4, <2>1, <2>2 DEF Release
  <1>7. /\ availableAllocations' \in Seq(Blocks)
        /\ DOMAIN availableAllocations' = 1 .. Len(old) + 1 /\ DOMAIN old = 1 .. Len(old)
        /\ \A i \in 1 .. Len(old) : availableAllocations'[i] = old[i] /\ old[i] \in Blocks
        /\ availableAllocations'[Len(old) + 1] = b
    <2> HIDE DEF b, old
    <2>1. <<b>> \in Seq(Blocks) /\ Len(<<b>>) = 1 /\ <<b>>[1] = b
      BY <1>2
    <2>2. /\ old \o <<b>> \in Seq(Blocks) /\ Len(old \o <<b>>) = Len(old) + 1
          /\ \A i \in 1 .. Len(old) : (old \o <<b>>)[i] = old[i]
          /\ (old \o <<b>>)[Len(old) + 1] = b
      BY <1>4, <2>1, ConcatProperties
    <2> QED
      BY <1>4, <1>6, <2>2
  <1>8. /\ readNode' \in [Tracks -> Nodes] /\ readNode'[q] = n + 1
        /\ \A r \in Tracks : r # q => readNode'[r] = readNode[r]
    <2>1. readNode \in [Tracks -> Nodes]
      BY DEF IndInv, TypeOK
    <2> HIDE DEF n
    <2> QED
      BY <1>1, <1>3, <2>1
  <1>9. \A r \in Tracks, m \in Nodes :
          readNode'[r] <= m => readNode[r] <= m /\ (r # q \/ m # n)
    <2> SUFFICES ASSUME NEW r \in Tracks, NEW m \in Nodes, readNode'[r] <= m
                 PROVE  readNode[r] <= m /\ (r # q \/ m # n)
      OBVIOUS
    <2>1. m \in Nat
      BY DEF Nodes
    <2>2. CASE r = q
      BY <1>2, <1>8, <2>1, <2>2
    <2>3. CASE r # q
      BY <1>8, <2>3
    <2> QED
      BY <2>2, <2>3
  <1>10. TypeOK'
    <2> HIDE DEF b, n, old
    <2> QED
      BY <1>1, <1>6, <1>7, <1>8 DEF IndInv, TypeOK, metadata, consumer
  <1>11. NodeInv'
    BY <1>1 DEF IndInv, NodeInv, Initialised
  <1>12. PoolInv'
    <2>1. \A i \in 1 .. Len(old) : owner[old[i]] = NoOwner /\ old[i] \in created
      BY <1>7 DEF IndInv, PoolInv, PoolSound
    <2>2. \A i, j \in 1 .. Len(old) : old[i] = old[j] => i = j
      BY <1>7 DEF IndInv, PoolInv, PoolSound
    <2>3. \A c \in Blocks : owner[c] # NoOwner => c \in created
      BY DEF IndInv, PoolInv
    <2> HIDE DEF b, old
    <2>4. \A i \in 1 .. Len(old) : old[i] # b /\ owner'[old[i]] = NoOwner
      BY <1>5, <1>6, <1>7, <2>1
    <2>5. \A i \in 1 .. Len(old) + 1 : i \in 1 .. Len(old) \/ i = Len(old) + 1
      BY <1>4
    <2>6. \A i \in 1 .. Len(old) + 1 : owner'[availableAllocations'[i]] = NoOwner
      BY <1>6, <1>7, <2>4, <2>5
    <2>7. \A i, j \in 1 .. Len(old) + 1 :
            availableAllocations'[i] = availableAllocations'[j] => i = j
      BY <1>7, <2>2, <2>4, <2>5
    <2>8. \A i \in 1 .. Len(old) + 1 : availableAllocations'[i] \in created'
      BY <1>2, <1>5, <1>6, <1>7, <2>1, <2>3, <2>5
    <2>9. \A c \in Blocks : owner'[c] # NoOwner => c \in created'
      BY <1>6, <2>3
    <2> QED
      BY <1>7, <2>6, <2>7, <2>8, <2>9 DEF PoolInv, PoolSound
  <1>13. UnreadBlocksOwned'
    <2> SUFFICES ASSUME NEW r \in Tracks, NEW m \in Nodes, readNode'[r] <= m, Initialised(r, m)
                 PROVE  owner'[allocation[r][m]] = <<r, m>>
      BY <1>1 DEF UnreadBlocksOwned, Initialised
    <2>1. readNode[r] <= m /\ (r # q \/ m # n) /\ readNode[q] <= n
      BY <1>2, <1>9
    <2>2. allocation[r][m] # b
      BY <1>1, <1>2, <2>1, OwnersDiffer
    <2>3. allocation[r][m] \in Blocks
      BY DEF IndInv, TypeOK, Initialised
    <2>4. owner[allocation[r][m]] = <<r, m>>
      BY <2>1 DEF IndInv, UnreadBlocksOwned
    <2> QED
      BY <1>6, <2>2, <2>3, <2>4
  <1>14. SampleInv'
    BY <1>1 DEF IndInv, SampleInv, metadata
  <1>15. ReadInv'
    <2> SUFFICES ASSUME NEW r \in Tracks
                 PROVE  /\ readNode'[r] <= writeNode[r]
                        /\ Start(readNode'[r]) <= offeredUpTo[r]
                        /\ \A i \in readPosition[r] + 1 .. Len(committed[r]) :
                             Start(readNode'[r]) <= committed[r][i].from
                        /\ reading = r =>
                             /\ Start(readNode'[r]) <= position
                             /\ position <= EndPosition(readNode'[r])
                             /\ position <= end /\ end <= offeredUpTo[r]
                             /\ \A i \in readPosition[r] + 1 .. Len(committed[r]) :
                                  end <= committed[r][i].from
      BY <1>1 DEF ReadInv, metadata, consumer
    <2>1. CASE r = q
      <3>1. \A i \in readPosition[q] + 1 .. Len(committed[q]) :
              end <= committed[q][i].from /\ committed[q][i].from \in Nat
        <4> SUFFICES ASSUME NEW i \in readPosition[q] + 1 .. Len(committed[q])
                     PROVE  end <= committed[q][i].from /\ committed[q][i].from \in Nat
          OBVIOUS
        <4>1. end <= committed[q][i].from
          BY <1>1 DEF IndInv, ReadInv
        <4>2. committed[q] \in Seq(Extent) /\ readPosition[q] \in Nat
          BY <1>1 DEF IndInv, TypeOK
        <4>3. i \in 1 .. Len(committed[q])
          BY <4>2
        <4>4. committed[q][i] \in Extent
          BY <4>2, <4>3
        <4> QED
          BY <4>1, <4>4 DEF Extent
      <3> HIDE DEF n
      <3>2. \A i \in readPosition[q] + 1 .. Len(committed[q]) :
              Start(n + 1) <= committed[q][i].from
        <4>1. Start(n + 1) \in Nat /\ Start(n + 1) <= end /\ end \in Nat
          BY <1>2, <1>3
        <4> QED
          BY <3>1, <4>1
      <3>3. readNode'[r] = n + 1 /\ Start(readNode'[r]) <= position
        BY <1>2, <1>3, <1>8, <2>1
      <3>4. /\ readNode'[r] <= writeNode[r]
            /\ position <= EndPosition(readNode'[r])
        <4>1. n + 1 <= writeNode[q]
          BY <1>2
        <4>2. position <= EndPosition(n + 1)
          BY <1>3
        <4> QED
          BY <1>8, <2>1, <4>1, <4>2
      <3>5. /\ Start(readNode'[r]) <= offeredUpTo[r]
            /\ position <= end /\ end <= offeredUpTo[r]
        BY <1>2, <1>3, <1>8, <2>1
      <3> QED
        BY <2>1, <3>1, <3>2, <3>3, <3>4, <3>5
    <2>2. CASE r # q
      BY <1>8, <2>2 DEF IndInv, ReadInv
    <2> QED
      BY <2>1, <2>2
  <1>16. BytesInv'
    BY <1>1, <1>9 DEF IndInv, BytesInv, Initialised
  <1>17. FirstInv'
    <2>1. \A r \in Tracks : readNode[r] <= readNode'[r] /\ readNode'[r] \in Nat
      BY <1>2, <1>3, <1>8, NodeOrder DEF Nodes
    <2> QED
      BY <1>1, <2>1, FirstKept DEF metadata
  <1> QED
    BY <1>10, <1>11, <1>12, <1>13, <1>14, <1>15, <1>16, <1>17 DEF IndInv

-----------------------------------------------------------------------------
LEMMA NextInd == IndInv /\ [Next]_vars => IndInv'
  <1> SUFFICES ASSUME IndInv, [Next]_vars PROVE IndInv'
    OBVIOUS
  <1>1. CASE \E q \in Tracks : PreAppend(q)
    BY <1>1, PreAppendInd
  <1>2. CASE \E k \in 1 .. AllocationLength : WriteBytes(k)
    BY <1>2, WriteBytesInd
  <1>3. CASE AppendNothing
    BY <1>3, AppendNothingInd
  <1>4. CASE \E q \in Tracks, from, to \in 0 .. MaxBytes, key \in BOOLEAN :
               SampleMetadata(q, from, to, key)
    BY <1>4, SampleMetadataInd
  <1>5. CASE \E q \in Tracks : Read(q)
    BY <1>5, ReadInd
  <1>6. CASE CopyChunk
    BY <1>6, CopyChunkInd
  <1>7. CASE ReleaseReadNode
    BY <1>7, ReleaseReadNodeInd
  <1>8. CASE Delivered
    BY <1>8, DeliveredInd
  <1>9. CASE UNCHANGED vars
    <2>1. UNCHANGED <<allocator, content, nodes, metadata, appendingTo, consumer>>
      BY <1>9 DEF vars
    <2>2. TypeOK'
      BY <2>1 DEF IndInv, TypeOK, allocator, nodes, metadata, consumer
    <2>3. NodeInv' /\ PoolInv'
      BY <2>1 DEF IndInv, NodeInv, PoolInv, PoolSound, Initialised, allocator, nodes
    <2>4. UnreadBlocksOwned' /\ BytesInv'
      BY <2>1 DEF IndInv, UnreadBlocksOwned, BytesInv, Initialised, allocator, nodes
    <2>5. SampleInv' /\ ReadInv' /\ FirstInv'
      BY <2>1 DEF IndInv, SampleInv, ReadInv, FirstInv, nodes, metadata, consumer
    <2> QED
      BY <2>2, <2>3, <2>4, <2>5 DEF IndInv
  <1> QED
    BY <1>1, <1>2, <1>3, <1>4, <1>5, <1>6, <1>7, <1>8, <1>9
       DEF Next, LoaderNext, ConsumerNext

LEMMA Invariant == Spec => []IndInv
  BY InitInd, NextInd, PTL DEF Spec

(* What the inductive invariant says of the bytes is what is wanted: an    *)
(* unread position lies in a node the reader has not left and that the     *)
(* writer has filled that far.                                             *)
LEMMA IndIntact == IndInv => UnreadBytesIntact
  <1> SUFFICES ASSUME IndInv, NEW q \in Tracks, NEW r \in Unread(q), NEW p \in r.from .. r.to - 1,
                      NEW n \in Nodes, Start(n) <= p, p < EndPosition(n)
               PROVE  /\ Initialised(q, n)
                      /\ content[allocation[q][n]][p - Start(n)] = <<q, p>>
    BY DEF UnreadBytesIntact
  <1>1. /\ n \in Nat /\ Start(n) \in Nat /\ EndPosition(n) = Start(n) + AllocationLength
        /\ readNode[q] \in Nat /\ writeNode[q] \in Nat /\ writeNode[q] \in Nodes
        /\ totalBytesWritten[q] \in Nat /\ offeredUpTo[q] \in Nat
        /\ Start(readNode[q]) \in Nat /\ Start(writeNode[q]) \in Nat
    <2>1. /\ n \in Nat /\ readNode[q] \in Nat /\ writeNode[q] \in Nat /\ writeNode[q] \in Nodes
          /\ totalBytesWritten[q] \in Nat /\ offeredUpTo[q] \in Nat
      BY DEF IndInv, TypeOK, Nodes
    <2> QED
      BY <2>1, StartType
  <1>2. /\ r.from \in Nat /\ r.to \in Nat
        /\ Start(readNode[q]) <= r.from /\ r.to <= offeredUpTo[q]
    <2>1. CASE \E i \in readPosition[q] + 1 .. Len(committed[q]) : r = committed[q][i]
      <3>1. PICK i \in readPosition[q] + 1 .. Len(committed[q]) : r = committed[q][i]
        BY <2>1
      <3>2. committed[q] \in Seq(Extent) /\ readPosition[q] \in Nat
        BY DEF IndInv, TypeOK
      <3>3. i \in 1 .. Len(committed[q])
        BY <3>2
      <3>4. r \in Extent
        BY <3>1, <3>2, <3>3
      <3>5. Start(readNode[q]) <= r.from
        BY <3>1 DEF IndInv, ReadInv
      <3>6. r.to <= offeredUpTo[q]
        BY <3>1, <3>3 DEF IndInv, SampleInv
      <3> QED
        BY <3>4, <3>5, <3>6 DEF Extent
    <2>2. CASE reading = q /\ r = [from |-> position, to |-> end]
      BY <2>2 DEF IndInv, TypeOK, ReadInv
    <2> QED
      BY <2>1, <2>2 DEF Unread
  <1>3. p \in Nat /\ Start(readNode[q]) <= p /\ p < totalBytesWritten[q]
    <2>1. offeredUpTo[q] <= totalBytesWritten[q]
      BY DEF IndInv, SampleInv
    <2> QED
      BY <1>1, <1>2, <2>1
  <1>4. readNode[q] <= n
    BY <1>1, <1>3, NodeOfPosition
  <1>5. /\ totalBytesWritten[q] < EndPosition(writeNode[q])
        /\ Initialised(q, writeNode[q]) \/ totalBytesWritten[q] = Start(writeNode[q])
        /\ n < writeNode[q] => Initialised(q, n)
    BY <1>1, <1>4, NodeOrder DEF IndInv, NodeInv
  <1>6. n <= writeNode[q]
    <2>1. Start(n) < totalBytesWritten[q] /\ EndPosition(writeNode[q]) \in Nat
      BY <1>1, <1>3, StartType
    <2>2. Start(n) < EndPosition(writeNode[q])
      BY <1>1, <1>5, <2>1
    <2> QED
      BY <1>1, <2>2, NodeOfPosition
  <1>7. Initialised(q, n)
    <2>1. CASE n = writeNode[q]
      BY <1>1, <1>3, <1>5, <2>1
    <2>2. CASE n # writeNode[q]
      BY <1>1, <1>5, <1>6, <2>2
    <2> QED
      BY <2>1, <2>2
  <1>8. PICK i \in 0 .. AllocationLength - 1 : i = p - Start(n) /\ p = Start(n) + i
    <2>1. p - Start(n) \in 0 .. AllocationLength - 1 /\ p = Start(n) + (p - Start(n))
      BY <1>1, <1>3, LengthAssumption
    <2> QED
      BY <2>1
  <1>9. content[allocation[q][n]][i] = <<q, Start(n) + i>>
    BY <1>3, <1>4, <1>7, <1>8 DEF IndInv, BytesInv
  <1> QED
    BY <1>7, <1>8, <1>9

(* Type correctness of the queues and the pool, for every number of tracks,*)
(* blocks, nodes and bytes.                                                *)
THEOREM TypeCorrect == Spec => []TypeOK
  BY Invariant, PTL DEF IndInv

(* A block that is still to be read is never handed to anybody else.       *)
THEOREM BlocksOwned == Spec => []UnreadBlocksOwned
  BY Invariant, PTL DEF IndInv

(* The pool never holds a block twice or one that is in use, so allocate   *)
(* never gives two nodes the same memory.                                  *)
THEOREM PoolIsSound == Spec => []PoolSound
  BY Invariant, PTL DEF IndInv, PoolInv

(* However loader and transcoder interleave, the bytes of a sample not yet *)
(* read stay as they were written.                                         *)
THEOREM BytesIntact == Spec => []UnreadBytesIntact
  BY Invariant, IndIntact, PTL

-----------------------------------------------------------------------------
(* The count. Only finitely many blocks are in use, though nothing bounds  *)
(* how many the allocator may create.                                      *)
CountInv == IsFiniteSet(InUse) /\ AllocatedCountExact

LEMMA CountPreAppend ==
  ASSUME IndInv, CountInv, NEW q \in Tracks, PreAppend(q) PROVE CountInv'
  <1>1. CASE Initialised(q, writeNode[q])
    BY <1>1 DEF PreAppend, CountInv, AllocatedCountExact, InUse, allocator
  <1>2. CASE ~Initialised(q, writeNode[q])
    <2>1. PICK b \in Blocks : Allocate(b, q, writeNode[q])
      BY <1>2 DEF PreAppend
    <2>2. writeNode[q] \in Nodes
      BY DEF IndInv, TypeOK
    <2>3. /\ owner[b] = NoOwner /\ owner' = [owner EXCEPT ![b] = <<q, writeNode[q]>>]
          /\ <<q, writeNode[q]>> # NoOwner
      BY <2>1, <2>2, AllocateEffect DEF IndInv
    <2>4. b \notin InUse /\ InUse' = InUse \cup {b}
      BY <2>3 DEF IndInv, TypeOK, InUse
    <2>5. allocatedCount' = allocatedCount + 1
      BY <2>1 DEF Allocate, CountAfterTaking
    <2> QED
      BY <2>4, <2>5, FS_AddElement DEF CountInv, AllocatedCountExact
  <1> QED
    BY <1>1, <1>2

LEMMA CountRelease ==
  ASSUME IndInv, CountInv, ReleaseReadNode PROVE CountInv'
  <1> DEFINE b == allocation[reading][readNode[reading]]
  <1>1. reading \in Tracks /\ AtNodeEnd(reading) /\ Release(<<b>>)
    BY DEF ReleaseReadNode, ReadNodeBlock, IndInv, TypeOK
  <1>2. b \in Blocks /\ owner[b] = <<reading, readNode[reading]>> /\ readNode[reading] \in Nat
    BY <1>1, ReadingFacts
  <1>3. owner[b] # NoOwner
    BY <1>1, <1>2, SentinelAssumption
  <1>4. owner' = [c \in Blocks |-> IF c = b THEN NoOwner ELSE owner[c]]
        /\ allocatedCount' = allocatedCount - 1
    BY <1>1 DEF Release
  <1> HIDE DEF b
  <1>5. b \in InUse /\ InUse' = InUse \ {b}
    BY <1>2, <1>3, <1>4 DEF InUse
  <1> QED
    BY <1>4, <1>5, FS_RemoveElement DEF CountInv, AllocatedCountExact

LEMMA CountNext == IndInv /\ CountInv /\ [Next]_vars => CountInv'
  <1> SUFFICES ASSUME IndInv, CountInv, [Next]_vars PROVE CountInv'
    OBVIOUS
  <1>1. CASE \E q \in Tracks : PreAppend(q)
    BY <1>1, CountPreAppend
  <1>2. CASE ReleaseReadNode
    BY <1>2, CountRelease
  <1>3. UNCHANGED <<owner, allocatedCount>> => CountInv'
    BY DEF CountInv, AllocatedCountExact, InUse
  <1>4. CASE \/ \E k \in 1 .. AllocationLength : WriteBytes(k)
             \/ AppendNothing
             \/ \E q \in Tracks, from, to \in 0 .. MaxBytes, key \in BOOLEAN :
                  SampleMetadata(q, from, to, key)
    BY <1>3, <1>4 DEF WriteBytes, AppendNothing, SampleMetadata, allocator
  <1>5. CASE (\E q \in Tracks : Read(q)) \/ CopyChunk \/ Delivered \/ UNCHANGED vars
    BY <1>3, <1>5 DEF Read, CopyChunk, Delivered, vars, allocator
  <1> QED
    BY <1>1, <1>2, <1>4, <1>5 DEF Next, LoaderNext, ConsumerNext

LEMMA InitCount == Init => CountInv
  <1> SUFFICES ASSUME Init PROVE CountInv
    OBVIOUS
  <1>1. InUse = {} /\ allocatedCount = 0
    BY DEF Init, InUse
  <1> QED
    BY <1>1, FS_EmptySet DEF CountInv, AllocatedCountExact

(* The count of allocated blocks behind getTotalBytesAllocated is exact:   *)
(* each block is counted when it is taken and uncounted once.              *)
THEOREM CountExact == Spec => []AllocatedCountExact
  BY Invariant, InitCount, CountNext, PTL DEF Spec, CountInv

-----------------------------------------------------------------------------
(* What the consumer has and what it was given. The sample being read is   *)
(* the one in front of the read position; so far its bytes up to position  *)
(* were copied, and all samples before it were delivered.                  *)
Current(q) == committed[q][readPosition[q]]

CopiedSoFar(q) ==
  /\ 1 <= readPosition[q]
  /\ Len(delivered[q]) = readPosition[q] - 1
  /\ Current(q).from <= position /\ Current(q).to = end
  /\ Len(out) = position - Current(q).from
  /\ \A i \in 1 .. Len(out) : out[i] = <<q, Current(q).from + i - 1>>

HandedOver ==
  \A q \in Tracks :
    IF reading = q THEN CopiedSoFar(q) ELSE Len(delivered[q]) = readPosition[q]

LEMMA CommittedFacts ==
  ASSUME IndInv, NEW q \in Tracks
  PROVE  /\ committed[q] \in Seq(Extent) /\ Len(committed[q]) \in Nat
         /\ readPosition[q] \in Nat /\ readPosition[q] <= Len(committed[q])
         /\ \A i \in 1 .. Len(committed[q]) :
              /\ committed[q][i] \in Extent
              /\ committed[q][i].from \in Nat /\ committed[q][i].to \in Nat
              /\ committed[q][i].from < committed[q][i].to
  <1>1. committed[q] \in Seq(Extent) /\ readPosition[q] \in Nat
    BY DEF IndInv, TypeOK
  <1>2. \A i \in 1 .. Len(committed[q]) : committed[q][i] \in Extent
    BY <1>1
  <1>3. \A i \in 1 .. Len(committed[q]) :
          committed[q][i].from \in Nat /\ committed[q][i].to \in Nat
    BY <1>2 DEF Extent
  <1> QED
    BY <1>1, <1>2, <1>3 DEF IndInv, SampleInv

(* sampleMetadata adds a sample at the end of its track's, or none.        *)
LEMMA CommitEffect ==
  ASSUME IndInv, NEW q \in Tracks, NEW from \in 0 .. MaxBytes, NEW to \in 0 .. MaxBytes,
         NEW key \in BOOLEAN, SampleMetadata(q, from, to, key)
  PROVE  /\ from \in Nat /\ to \in Nat /\ from < to /\ offeredUpTo[q] <= from
         /\ UNCHANGED <<allocator, content, nodes, readPosition, appendingTo, consumer>>
         /\ \/ committed' = committed
            \/ committed' = [committed EXCEPT ![q] = Append(@, [from |-> from, to |-> to])]
  BY BoundsAssumption DEF SampleMetadata

LEMMA AppendedSample ==
  ASSUME NEW c \in Seq(Extent), NEW s \in Extent
  PROVE  /\ Append(c, s) \in Seq(Extent) /\ Len(Append(c, s)) = Len(c) + 1
         /\ \A i \in 1 .. Len(c) : Append(c, s)[i] = c[i]
         /\ Append(c, s)[Len(c) + 1] = s
  BY AppendProperties

LEMMA InitHandedOver == Init => HandedOver
  <1> SUFFICES ASSUME Init PROVE HandedOver
    OBVIOUS
  <1>1. \A q \in Tracks : reading # q /\ delivered[q] = << >> /\ readPosition[q] = 0
    BY SentinelAssumption DEF Init
  <1> QED
    BY <1>1 DEF HandedOver

LEMMA CommitHandedOver ==
  ASSUME IndInv, HandedOver, NEW q \in Tracks, NEW from \in 0 .. MaxBytes,
         NEW to \in 0 .. MaxBytes, NEW key \in BOOLEAN, SampleMetadata(q, from, to, key)
  PROVE  HandedOver'
  <1> DEFINE s == [from |-> from, to |-> to]
  <1>1. /\ UNCHANGED <<readPosition, consumer>>
        /\ committed' = committed \/ committed' = [committed EXCEPT ![q] = Append(@, s)]
    BY CommitEffect
  <1>2. s \in Extent
    BY CommitEffect DEF Extent
  <1> HIDE DEF s
  <1>3. ASSUME NEW r \in Tracks, 1 <= readPosition[r]
        PROVE  Current(r)' = Current(r)
    <2>1. /\ committed[r] \in Seq(Extent) /\ readPosition[r] \in 1 .. Len(committed[r])
      BY <1>3, CommittedFacts
    <2>2. committed'[r] = committed[r] \/ committed'[r] = Append(committed[r], s)
      BY <1>1 DEF IndInv, TypeOK
    <2>3. committed'[r][readPosition[r]] = committed[r][readPosition[r]]
      BY <1>2, <2>1, <2>2, AppendedSample
    <2> QED
      BY <1>1, <2>3 DEF Current
  <1>4. ASSUME NEW r \in Tracks, CopiedSoFar(r) PROVE CopiedSoFar(r)'
    <2>1. Current(r)' = Current(r)
      BY <1>3, <1>4 DEF CopiedSoFar
    <2> QED
      BY <1>1, <1>4, <2>1 DEF CopiedSoFar, consumer
  <1> QED
    BY <1>1, <1>4 DEF HandedOver, consumer

LEMMA ReadHandedOver ==
  ASSUME IndInv, HandedOver, NEW q \in Tracks, Read(q) PROVE HandedOver'
  <1> DEFINE s == committed[q][readPosition[q] + 1]
  <1>1. /\ reading = NoTrack /\ readPosition[q] < Len(committed[q])
        /\ reading' = q /\ position' = s.from /\ end' = s.to /\ out' = << >>
        /\ readPosition' = [readPosition EXCEPT ![q] = @ + 1]
        /\ UNCHANGED <<committed, delivered>>
    BY DEF Read
  <1>2. /\ readPosition[q] \in Nat /\ s.from \in Nat /\ s.to \in Nat
        /\ readPosition'[q] = readPosition[q] + 1
    <2>1. readPosition[q] + 1 \in 1 .. Len(committed[q])
      BY <1>1, CommittedFacts
    <2> QED
      BY <1>1, <2>1, CommittedFacts DEF IndInv, TypeOK
  <1>3. \A r \in Tracks : Len(delivered[r]) = readPosition[r]
    BY <1>1, SentinelAssumption DEF HandedOver
  <1>4. Current(q)' = s
    BY <1>1, <1>2 DEF Current
  <1> HIDE DEF s
  <1>5. Len(out') = 0
    BY <1>1
  <1>6. CopiedSoFar(q)'
    BY <1>1, <1>2, <1>3, <1>4, <1>5 DEF CopiedSoFar
  <1>7. \A r \in Tracks : r # q => readPosition'[r] = readPosition[r]
    BY <1>1 DEF IndInv, TypeOK
  <1> QED
    BY <1>1, <1>3, <1>6, <1>7 DEF HandedOver

LEMMA DeliveredHandedOver == ASSUME IndInv, HandedOver, Delivered PROVE HandedOver'
  <1>1. /\ reading \in Tracks /\ reading' = NoTrack
        /\ delivered' = [delivered EXCEPT ![reading] = Append(@, out)]
        /\ UNCHANGED <<committed, readPosition>>
    BY DEF Delivered, metadata, IndInv, TypeOK
  <1> DEFINE Data == Seq(Byte \cup {NoByte})
  <1>2. delivered \in [Tracks -> Seq(Data)] /\ out \in Data
    BY DEF IndInv, TypeOK
  <1> HIDE DEF Data
  <1>3. Len(delivered'[reading]) = Len(delivered[reading]) + 1
    BY <1>1, <1>2, AppendProperties
  <1>4. Len(delivered[reading]) = readPosition[reading] - 1 /\ readPosition[reading] \in Nat
    BY <1>1, CommittedFacts DEF HandedOver, CopiedSoFar
  <1>5. Len(delivered'[reading]) = readPosition[reading]
    BY <1>3, <1>4
  <1>6. ASSUME NEW r \in Tracks, r # reading PROVE Len(delivered'[r]) = readPosition[r]
    BY <1>1, <1>2, <1>6 DEF HandedOver
  <1> QED
    BY <1>1, <1>5, <1>6, SentinelAssumption DEF HandedOver

(* A round of the copy appends the bytes the loader wrote for the sample:  *)
(* they are still in the block, which is what BytesInv says.               *)
LEMMA CopyChunkHandedOver == ASSUME IndInv, HandedOver, CopyChunk PROVE HandedOver'
  <1> DEFINE q == reading
             n == readNode[q]
             b == allocation[q][n]
             to == IF end < EndPosition(n) THEN end ELSE EndPosition(n)
             Data == Byte \cup {NoByte}
             first == Current(q).from
             chunk == [i \in 1 .. to - position |-> content[b][position + i - 1 - Start(n)]]
  <1>1. /\ q \in Tracks /\ position < end /\ ~AtNodeEnd(q)
        /\ out' = out \o chunk /\ position' = to
        /\ UNCHANGED <<committed, readPosition, reading, end, delivered>>
    BY DEF CopyChunk, Copied, IndInv, TypeOK, metadata
  <1>2. /\ n \in Nodes /\ n \in Nat /\ b \in Blocks
        /\ position \in Nat /\ end \in Nat /\ offeredUpTo[q] \in Nat
        /\ Start(n) \in Nat /\ EndPosition(n) = Start(n) + AllocationLength
        /\ Start(n) <= position /\ position <= EndPosition(n)
        /\ end <= offeredUpTo[q] /\ Initialised(q, n)
    BY <1>1, ReadingFacts
  <1>3. position # EndPosition(n)
    BY <1>1 DEF AtNodeEnd
  <1>4. /\ content[b] \in [0 .. AllocationLength - 1 -> Data] /\ out \in Seq(Data)
        /\ totalBytesWritten[q] \in Nat /\ offeredUpTo[q] <= totalBytesWritten[q]
    BY <1>1, <1>2 DEF IndInv, TypeOK, SampleInv
  <1>5. /\ CopiedSoFar(q) /\ first \in Nat
    <2>1. CopiedSoFar(q)
      BY <1>1 DEF HandedOver
    <2>2. readPosition[q] \in 1 .. Len(committed[q])
      BY <1>1, <2>1, CommittedFacts DEF CopiedSoFar
    <2> QED
      BY <1>1, <2>1, <2>2, CommittedFacts DEF Current
  <1>6. /\ first <= position /\ Len(out) = position - first
        /\ \A i \in 1 .. Len(out) : out[i] = <<q, first + i - 1>>
    BY <1>5 DEF CopiedSoFar
  <1>7. \A i \in 0 .. AllocationLength - 1 :
          Start(n) + i < totalBytesWritten[q] => content[b][i] = <<q, Start(n) + i>>
    <2>1. readNode[q] <= n
      BY <1>2
    <2> QED
      BY <1>1, <1>2, <2>1 DEF IndInv, BytesInv
  <1>8. Current(q)' = Current(q)
    BY <1>1 DEF Current
  <1> HIDE DEF q, n, b, Data, first
  <1>9. to \in Nat /\ position < to /\ to <= EndPosition(n) /\ to <= end
    BY <1>1, <1>2, <1>3, LengthAssumption
  <1> HIDE DEF to
  <1>10. \A i \in 1 .. to - position :
           content[b][position + i - 1 - Start(n)] = <<q, position + i - 1>>
    <2> SUFFICES ASSUME NEW i \in 1 .. to - position
                 PROVE  content[b][position + i - 1 - Start(n)] = <<q, position + i - 1>>
      OBVIOUS
    <2> DEFINE k == position + i - 1 - Start(n)
    <2>0. i \in Nat /\ 1 <= i /\ position + i - 1 < to
      BY <1>2, <1>9
    <2>1. /\ k \in 0 .. AllocationLength - 1 /\ Start(n) + k = position + i - 1
          /\ Start(n) + k < totalBytesWritten[q]
      <3>1. Start(n) + k = position + i - 1
        BY <1>2, <2>0
      <3>2. k \in 0 .. AllocationLength - 1
        BY <1>2, <1>9, <2>0, LengthAssumption
      <3>3. to <= totalBytesWritten[q]
        BY <1>2, <1>4, <1>9
      <3>4. position + i - 1 < totalBytesWritten[q]
        BY <1>2, <1>4, <1>9, <2>0, <3>3
      <3> QED
        BY <3>1, <3>2, <3>4
    <2> HIDE DEF k
    <2>2. content[b][k] = <<q, Start(n) + k>>
      BY <1>7, <2>1
    <2> QED
      BY <2>1, <2>2 DEF k
  <1>11. \A i \in 1 .. to - position : content[b][position + i - 1 - Start(n)] \in Data
    <2> SUFFICES ASSUME NEW i \in 1 .. to - position
                 PROVE  content[b][position + i - 1 - Start(n)] \in Data
      OBVIOUS
    <2>1. position + i - 1 - Start(n) \in 0 .. AllocationLength - 1
      BY <1>2, <1>9, LengthAssumption
    <2> QED
      BY <1>4, <2>1
  <1>12. /\ chunk \in Seq(Data) /\ Len(chunk) = to - position
         /\ \A i \in 1 .. to - position : chunk[i] = <<q, position + i - 1>>
    BY <1>2, <1>9, <1>10, <1>11
  <1> HIDE DEF chunk
  <1>13. /\ Len(out') = to - first
         /\ \A i \in 1 .. Len(out') :
              out'[i] = IF i <= Len(out) THEN out[i] ELSE chunk[i - Len(out)]
    <2>1. /\ Len(out \o chunk) = Len(out) + Len(chunk)
          /\ \A i \in 1 .. Len(out) + Len(chunk) :
               (out \o chunk)[i] = IF i <= Len(out) THEN out[i] ELSE chunk[i - Len(out)]
      BY <1>4, <1>12, ConcatProperties
    <2>2. Len(out) + Len(chunk) = to - first
      BY <1>2, <1>5, <1>6, <1>9, <1>12
    <2> QED
      BY <1>1, <2>1, <2>2
  <1>14. \A i \in 1 .. Len(out') : out'[i] = <<q, first + i - 1>>
    <2> SUFFICES ASSUME NEW i \in 1 .. Len(out') PROVE out'[i] = <<q, first + i - 1>>
      OBVIOUS
    <2>0. i \in Nat /\ 1 <= i /\ i <= to - first /\ Len(out) \in Nat
      BY <1>2, <1>5, <1>6, <1>9, <1>13
    <2>1. CASE i <= Len(out)
      BY <1>6, <1>13, <2>0, <2>1
    <2>2. CASE ~(i <= Len(out))
      <3> DEFINE k == i - Len(out)
      <3>1. k \in 1 .. to - position /\ position + k - 1 = first + i - 1
        BY <1>2, <1>5, <1>6, <1>9, <2>0, <2>2
      <3>2. out'[i] = chunk[k]
        BY <1>13, <2>2
      <3> HIDE DEF k
      <3>3. chunk[k] = <<q, position + k - 1>>
        BY <1>12, <3>1
      <3> QED
        BY <3>1, <3>2, <3>3
    <2> QED
      BY <2>1, <2>2
  <1>15. CopiedSoFar(q)'
    <2>1. /\ readPosition'[q] = readPosition[q] /\ delivered'[q] = delivered[q] /\ end' = end
          /\ Current(q)'.from = first /\ Current(q)'.to = Current(q).to
      BY <1>1, <1>8 DEF first
    <2>2. first <= to
      BY <1>2, <1>5, <1>6, <1>9
    <2> QED
      BY <1>1, <1>5, <1>13, <1>14, <2>1, <2>2 DEF CopiedSoFar, q
  <1> QED
    BY <1>1, <1>15 DEF HandedOver, q

LEMMA NextHandedOver == IndInv /\ HandedOver /\ [Next]_vars => HandedOver'
  <1> SUFFICES ASSUME IndInv, HandedOver, [Next]_vars PROVE HandedOver'
    OBVIOUS
  <1>1. UNCHANGED <<committed, readPosition, consumer>> => HandedOver'
    BY DEF HandedOver, CopiedSoFar, Current, consumer
  <1>2. CASE \/ \E q \in Tracks : PreAppend(q)
             \/ \E k \in 1 .. AllocationLength : WriteBytes(k)
             \/ AppendNothing
    BY <1>1, <1>2 DEF PreAppend, WriteBytes, AppendNothing, metadata
  <1>3. CASE \E q \in Tracks, from, to \in 0 .. MaxBytes, key \in BOOLEAN :
               SampleMetadata(q, from, to, key)
    BY <1>3, CommitHandedOver
  <1>4. CASE \E q \in Tracks : Read(q)
    BY <1>4, ReadHandedOver
  <1>5. CASE CopyChunk
    BY <1>5, CopyChunkHandedOver
  <1>6. CASE ReleaseReadNode
    BY <1>1, <1>6 DEF ReleaseReadNode, metadata
  <1>7. CASE Delivered
    BY <1>7, DeliveredHandedOver
  <1>8. CASE UNCHANGED vars
    BY <1>1, <1>8 DEF vars, metadata
  <1> QED
    BY <1>2, <1>3, <1>4, <1>5, <1>6, <1>7, <1>8 DEF Next, LoaderNext, ConsumerNext

-----------------------------------------------------------------------------
(* The refinement: the samples sent are the committed ones, with the bytes *)
(* that were written for them, and those got are the delivered ones.       *)
SamplesOf(q, c) == [i \in DOMAIN c |-> BytesOf(q, c[i])]
Sent == [q \in Tracks |-> SamplesOf(q, committed[q])]

LEMMA BytesOfASample ==
  ASSUME NEW q \in Tracks, NEW s \in Extent
  PROVE  /\ BytesOf(q, s) \in Seq(Byte)
         /\ s.from < s.to => Len(BytesOf(q, s)) = s.to - s.from
         /\ \A i \in 1 .. s.to - s.from : BytesOf(q, s)[i] = <<q, s.from + i - 1>>
  <1> DEFINE n == s.to - s.from
  <1>1. s.from \in Nat /\ s.to \in Nat /\ n \in Int
    BY DEF Extent
  <1>2. BytesOf(q, s) = [i \in 1 .. n |-> <<q, s.from + i - 1>>]
    BY DEF BytesOf
  <1> HIDE DEF n
  <1>3. \A i \in 1 .. n : <<q, s.from + i - 1>> \in Byte
    BY <1>1 DEF Byte
  <1>4. PICK m \in Nat : 1 .. n = 1 .. m /\ (n > 0 => m = n)
    <2>1. CASE n > 0
      BY <1>1, <2>1
    <2>2. CASE ~(n > 0)
      <3>1. 1 .. n = 1 .. 0
        BY <1>1, <2>2
      <3> QED
        BY <2>2, <3>1
    <2> QED
      BY <2>1, <2>2
  <1>5. BytesOf(q, s) \in Seq(Byte) /\ Len(BytesOf(q, s)) = m
    <2>1. BytesOf(q, s) = [i \in 1 .. m |-> <<q, s.from + i - 1>>]
      BY <1>2, <1>4
    <2>2. \A i \in 1 .. m : <<q, s.from + i - 1>> \in Byte
      BY <1>3, <1>4
    <2> QED
      BY <1>4, <2>1, <2>2
  <1> QED
    BY <1>1, <1>2, <1>4, <1>5 DEF n

LEMMA SamplesOfAList ==
  ASSUME NEW q \in Tracks, NEW c \in Seq(Extent)
  PROVE  /\ SamplesOf(q, c) \in Seq(Seq(Byte)) /\ Len(SamplesOf(q, c)) = Len(c)
         /\ \A i \in 1 .. Len(c) : SamplesOf(q, c)[i] = BytesOf(q, c[i])
  <1>1. Len(c) \in Nat /\ DOMAIN c = 1 .. Len(c) /\ \A i \in 1 .. Len(c) : c[i] \in Extent
    OBVIOUS
  <1>2. \A i \in 1 .. Len(c) : BytesOf(q, c[i]) \in Seq(Byte)
    BY <1>1, BytesOfASample
  <1>3. SamplesOf(q, c) = [i \in 1 .. Len(c) |-> BytesOf(q, c[i])]
    BY <1>1 DEF SamplesOf
  <1> DEFINE Sample == Seq(Byte)
  <1>4. \A i \in 1 .. Len(c) : BytesOf(q, c[i]) \in Sample
    BY <1>2
  <1> HIDE DEF Sample
  <1>5. SamplesOf(q, c) \in Seq(Sample) /\ Len(SamplesOf(q, c)) = Len(c)
    BY <1>1, <1>3, <1>4
  <1> QED
    BY <1>3, <1>5 DEF Sample

LEMMA CommitRefines ==
  ASSUME IndInv, NEW q \in Tracks, NEW from \in 0 .. MaxBytes, NEW to \in 0 .. MaxBytes,
         NEW key \in BOOLEAN, SampleMetadata(q, from, to, key)
  PROVE  [Fifo!Next]_Fifo!vars
  <1> DEFINE s == [from |-> from, to |-> to]
             old == SamplesOf(q, committed[q])
             new == SamplesOf(q, Append(committed[q], s))
  <1>1. /\ from \in Nat /\ to \in Nat /\ UNCHANGED consumer
        /\ committed' = committed \/ committed' = [committed EXCEPT ![q] = Append(@, s)]
    BY CommitEffect
  <1>2. UNCHANGED delivered
    BY <1>1 DEF consumer
  <1>3. CASE committed' = committed
    <2>1. Sent' = Sent
      BY <1>3 DEF Sent
    <2> QED
      BY <1>2, <2>1 DEF Fifo!vars, Sent, SamplesOf
  <1>4. CASE committed' = [committed EXCEPT ![q] = Append(@, s)]
    <2>1. s \in Extent /\ committed \in [Tracks -> Seq(Extent)] /\ Len(committed[q]) \in Nat
      BY <1>1, CommittedFacts DEF Extent, IndInv, TypeOK
    <2> HIDE DEF s
    <2>2. /\ Append(committed[q], s) \in Seq(Extent)
          /\ Len(Append(committed[q], s)) = Len(committed[q]) + 1
          /\ \A i \in 1 .. Len(committed[q]) : Append(committed[q], s)[i] = committed[q][i]
          /\ Append(committed[q], s)[Len(committed[q]) + 1] = s
      BY <2>1, AppendedSample
    <2>3. /\ old \in Seq(Seq(Byte)) /\ Len(old) = Len(committed[q])
          /\ \A i \in 1 .. Len(committed[q]) : old[i] = BytesOf(q, committed[q][i])
      BY <2>1, SamplesOfAList
    <2>4. /\ new \in Seq(Seq(Byte)) /\ Len(new) = Len(committed[q]) + 1
          /\ \A i \in 1 .. Len(committed[q]) + 1 :
               new[i] = BytesOf(q, Append(committed[q], s)[i])
      BY <2>2, SamplesOfAList
    <2>5. new[Len(committed[q]) + 1] = BytesOf(q, s) /\ BytesOf(q, s) \in Seq(Byte)
      <3>1. Len(committed[q]) + 1 \in 1 .. Len(committed[q]) + 1
        BY <2>1
      <3>2. new[Len(committed[q]) + 1] = BytesOf(q, Append(committed[q], s)[Len(committed[q]) + 1])
        BY <2>4, <3>1
      <3>3. BytesOf(q, s) \in Seq(Byte)
        BY <2>1, BytesOfASample
      <3> HIDE DEF new
      <3> QED
        BY <2>2, <3>2, <3>3
    <2>6. Sent[q] = old /\ Sent' = [Sent EXCEPT ![q] = new]
      <3>1. \A r \in Tracks : Sent'[r] = IF r = q THEN new ELSE Sent[r]
        BY <1>4, <2>1 DEF Sent
      <3> QED
        BY <3>1 DEF Sent
    <2> DEFINE Sample == Seq(Byte)
               n == Len(committed[q])
    <2>7. /\ old \in Seq(Sample) /\ Len(old) = n /\ new \in Seq(Sample) /\ Len(new) = n + 1
          /\ \A i \in 1 .. n : new[i] = old[i]
          /\ new[n + 1] \in Sample /\ n \in Nat
      <3>1. \A i \in 1 .. n : new[i] = old[i]
        BY <2>1, <2>2, <2>3, <2>4
      <3> QED
        BY <2>1, <2>3, <2>4, <2>5, <3>1
    <2> HIDE DEF Sample, n, old, new
    <2>8. new = Append(old, new[n + 1])
      <3>1. /\ Append(old, new[n + 1]) \in Seq(Sample)
            /\ Len(Append(old, new[n + 1])) = n + 1
            /\ \A i \in 1 .. n : Append(old, new[n + 1])[i] = old[i]
            /\ Append(old, new[n + 1])[n + 1] = new[n + 1]
        BY <2>7, AppendProperties
      <3>2. \A i \in 1 .. n + 1 : new[i] = Append(old, new[n + 1])[i]
        BY <2>7, <3>1
      <3> QED
        BY <2>7, <3>1, <3>2, SeqEqual
    <2>9. Sent'[q] = new
      BY <2>6 DEF Sent
    <2>10. /\ Len(Sent'[q]) = Len(Sent[q]) + 1
           /\ Sent' = [Sent EXCEPT ![q] = Append(@, Sent'[q][Len(@) + 1])]
           /\ Sent'[q][Len(Sent'[q])] \in Seq(Byte)
      BY <2>6, <2>7, <2>8, <2>9 DEF Sample
    <2>11. Fifo!Commit(q)
      BY <1>2, <2>10 DEF Fifo!Commit, Sent, SamplesOf
    <2> QED
      BY <2>11 DEF Fifo!Next
  <1> QED
    BY <1>1, <1>3, <1>4

(* What is handed to the renderer is the next committed sample, whole.     *)
LEMMA DeliverRefines ==
  ASSUME IndInv, HandedOver, Delivered PROVE [Fifo!Next]_Fifo!vars
  <1> DEFINE q == reading
             r == readPosition[q]
             s == Current(q)
  <1>1. /\ q \in Tracks /\ position = end /\ UNCHANGED committed
        /\ delivered' = [delivered EXCEPT ![q] = Append(@, out)]
    BY DEF Delivered, metadata, IndInv, TypeOK
  <1>2. /\ CopiedSoFar(q) /\ r \in 1 .. Len(committed[q]) /\ r \in Nat
        /\ s \in Extent /\ s.from \in Nat /\ s.to \in Nat /\ s.from < s.to
    <2>1. CopiedSoFar(q)
      BY <1>1 DEF HandedOver
    <2>2. r \in 1 .. Len(committed[q]) /\ r \in Nat
      BY <1>1, <2>1, CommittedFacts DEF CopiedSoFar
    <2> QED
      BY <1>1, <2>1, <2>2, CommittedFacts DEF Current
  <1>3. /\ Len(delivered[q]) = r - 1 /\ s.to = end
        /\ Len(out) = position - s.from
        /\ \A i \in 1 .. Len(out) : out[i] = <<q, s.from + i - 1>>
    BY <1>2 DEF CopiedSoFar
  <1>4. out = BytesOf(q, s)
    <2> DEFINE Data == Byte \cup {NoByte}
               t == BytesOf(q, s)
               n == s.to - s.from
    <2>1. out \in Seq(Data) /\ n \in Nat
      BY <1>2 DEF IndInv, TypeOK
    <2>2. t \in Seq(Byte) /\ Len(t) = n /\ \A i \in 1 .. n : t[i] = <<q, s.from + i - 1>>
      BY <1>1, <1>2, BytesOfASample
    <2>3. Len(out) = n
      BY <1>1, <1>3
    <2> HIDE DEF t, n, s
    <2>4. t \in Seq(Data)
      BY <2>2, SeqMonotonic
    <2>5. \A i \in 1 .. Len(out) : out[i] = t[i]
      BY <1>3, <2>2, <2>3
    <2>6. out = t
      BY <2>1, <2>2, <2>3, <2>4, <2>5, SeqEqual
    <2> QED
      BY <2>6 DEF t
  <1>5. committed[q] \in Seq(Extent) /\ Sent[q] = SamplesOf(q, committed[q])
    BY <1>1, CommittedFacts DEF Sent
  <1>6. Len(Sent[q]) = Len(committed[q]) /\ Sent[q][r] = BytesOf(q, committed[q][r])
    BY <1>1, <1>2, <1>5, SamplesOfAList
  <1>7. Sent[q][r] = out
    BY <1>4, <1>6 DEF Current
  <1> HIDE DEF s, r
  <1>8. Len(delivered[q]) + 1 = r /\ Len(delivered[q]) < Len(Sent[q])
    BY <1>1, <1>2, <1>3, <1>6, CommittedFacts
  <1>9. delivered' = [delivered EXCEPT ![q] = Append(@, Sent[q][Len(@) + 1])]
    BY <1>1, <1>7, <1>8
  <1>10. Sent' = Sent
    BY <1>1 DEF Sent
  <1>11. Fifo!Deliver(q)
    BY <1>8, <1>9, <1>10 DEF Fifo!Deliver, Sent, SamplesOf
  <1> QED
    BY <1>1, <1>11 DEF Fifo!Next

LEMMA StepRefines == IndInv /\ HandedOver /\ [Next]_vars => [Fifo!Next]_Fifo!vars
  <1> SUFFICES ASSUME IndInv, HandedOver, [Next]_vars PROVE [Fifo!Next]_Fifo!vars
    OBVIOUS
  <1>1. UNCHANGED <<committed, delivered>> => UNCHANGED Fifo!vars
    BY DEF Fifo!vars
  <1>2. CASE \/ \E q \in Tracks : PreAppend(q)
             \/ \E k \in 1 .. AllocationLength : WriteBytes(k)
             \/ AppendNothing
    BY <1>1, <1>2 DEF PreAppend, WriteBytes, AppendNothing, metadata, consumer
  <1>3. CASE \E q \in Tracks, from, to \in 0 .. MaxBytes, key \in BOOLEAN :
               SampleMetadata(q, from, to, key)
    BY <1>3, CommitRefines
  <1>4. CASE (\E q \in Tracks : Read(q)) \/ CopyChunk \/ ReleaseReadNode
    BY <1>1, <1>4 DEF Read, CopyChunk, ReleaseReadNode, metadata, consumer
  <1>5. CASE Delivered
    BY <1>5, DeliverRefines
  <1>6. CASE UNCHANGED vars
    BY <1>1, <1>6 DEF vars, metadata, consumer
  <1> QED
    BY <1>2, <1>3, <1>4, <1>5, <1>6 DEF Next, LoaderNext, ConsumerNext

LEMMA InitRefines == Init => Fifo!Init
  <1> SUFFICES ASSUME Init PROVE Fifo!Init
    OBVIOUS
  <1>1. \A q \in Tracks : committed[q] = << >>
    BY DEF Init
  <1>2. \A q \in Tracks : [i \in DOMAIN committed[q] |-> BytesOf(q, committed[q][i])] = << >>
    <2> SUFFICES ASSUME NEW q \in Tracks
                 PROVE  [i \in DOMAIN committed[q] |-> BytesOf(q, committed[q][i])] = << >>
      OBVIOUS
    <2>1. committed[q] \in Seq(Extent) /\ Len(committed[q]) = 0
      BY <1>1, EmptySeq
    <2>2. SamplesOf(q, committed[q]) \in Seq(Seq(Byte)) /\ Len(SamplesOf(q, committed[q])) = 0
      BY <2>1, SamplesOfAList
    <2> DEFINE Sample == Seq(Byte)
    <2>3. SamplesOf(q, committed[q]) \in Seq(Sample)
      BY <2>2
    <2> HIDE DEF Sample
    <2>4. SamplesOf(q, committed[q]) = << >>
      BY <2>2, <2>3, EmptySeq
    <2> QED
      BY <2>4 DEF SamplesOf
  <1>3. delivered = [q \in Tracks |-> << >>]
    BY DEF Init
  <1> QED
    BY <1>2, <1>3 DEF Fifo!Init

(* For any tracks, block length and pool, every committed sample reaches   *)
(* the renderer whole, once, in order and with its own bytes, however the  *)
(* steps of the loading thread and of the copy interleave.                 *)
THEOREM QueueIsAFifo == Spec => ImplementsSampleFifo
  BY InitHandedOver, NextHandedOver, InitRefines, StepRefines, Invariant, PTL
     DEF Spec, ImplementsSampleFifo, Fifo!Spec

-----------------------------------------------------------------------------
(* Every sample the consumer is done with ends in front of the read node's *)
(* end: a later step of the reader passes no byte of it.                   *)
BehindReader ==
  \A q \in Tracks : \A i \in 1 .. Len(committed[q]) :
    i <= readPosition[q] /\ ~(reading = q /\ i = readPosition[q]) =>
      committed[q][i].to < EndPosition(readNode[q])

GapInv == OnlyGapsAbandoned /\ BehindReader

LEMMA InitGap == Init => GapInv
  BY DEF Init, GapInv, OnlyGapsAbandoned, Abandoned, Initialised, BehindReader

LEMMA PreAppendGap ==
  ASSUME IndInv, GapInv, NEW q \in Tracks, PreAppend(q) PROVE GapInv'
  <1> DEFINE w == writeNode[q]
  <1>1. UNCHANGED <<readNode, committed, readPosition, reading>>
    BY DEF PreAppend, metadata, consumer
  <1>2. BehindReader'
    BY <1>1 DEF GapInv, BehindReader
  <1>3. CASE Initialised(q, w)
    BY <1>1, <1>2, <1>3
       DEF PreAppend, GapInv, OnlyGapsAbandoned, Abandoned, Initialised, allocator
  <1>4. CASE ~Initialised(q, w)
    <2>1. PICK b \in Blocks : Allocate(b, q, w) /\ allocation' = [allocation EXCEPT ![q][w] = b]
      BY <1>4 DEF PreAppend
    <2>2. w \in Nodes /\ w \in Nat /\ readNode[q] \in Nat /\ readNode[q] <= w
      BY DEF IndInv, TypeOK, ReadInv, Nodes
    <2>3. owner' = [owner EXCEPT ![b] = <<q, w>>]
      BY <2>1 DEF Allocate
    <2>4. ASSUME NEW r \in Tracks, NEW n \in Nodes, Abandoned(r, n)' PROVE Abandoned(r, n)
      <3>1. n < readNode[r] /\ n \in Nat
        BY <1>1, <2>4 DEF Abandoned, Nodes
      <3>2. r # q \/ n # w
        BY <2>2, <3>1
      <3>3. allocation'[r][n] = allocation[r][n]
        BY <2>1, <2>2, <3>2 DEF IndInv, TypeOK
      <3>4. allocation[r][n] \in Blocks /\ owner'[allocation[r][n]] = <<r, n>>
        BY <2>4, <3>3 DEF Abandoned, Initialised, IndInv, TypeOK
      <3>5. owner[allocation[r][n]] = <<r, n>>
        BY <2>3, <3>2, <3>4 DEF IndInv, TypeOK
      <3> QED
        BY <1>1, <2>4, <3>1, <3>3, <3>5 DEF Abandoned, Initialised
    <2> QED
      BY <1>1, <1>2, <2>4 DEF GapInv, OnlyGapsAbandoned
  <1> QED
    BY <1>3, <1>4

LEMMA CommitGap ==
  ASSUME IndInv, GapInv, NEW q \in Tracks, NEW from \in 0 .. MaxBytes,
         NEW to \in 0 .. MaxBytes, NEW key \in BOOLEAN, SampleMetadata(q, from, to, key)
  PROVE  GapInv'
  <1> DEFINE s == [from |-> from, to |-> to]
  <1>1. /\ from \in Nat /\ to \in Nat /\ offeredUpTo[q] <= from
        /\ UNCHANGED <<owner, allocation, readNode, readPosition, reading>>
        /\ committed' = committed \/ committed' = [committed EXCEPT ![q] = Append(@, s)]
    BY CommitEffect DEF allocator, nodes, consumer
  <1>2. s \in Extent /\ s.from = from
    BY <1>1 DEF Extent
  <1> HIDE DEF s
  <1>3. ASSUME NEW r \in Tracks
        PROVE  /\ Len(committed[r]) \in Nat /\ Len(committed'[r]) \in Nat
               /\ readPosition[r] \in Nat /\ readPosition[r] <= Len(committed[r])
               /\ \A i \in 1 .. Len(committed'[r]) :
                    \/ i \in 1 .. Len(committed[r]) /\ committed'[r][i] = committed[r][i]
                    \/ r = q /\ i = Len(committed[r]) + 1 /\ committed'[r][i] = s
    <2>1. /\ committed[r] \in Seq(Extent) /\ Len(committed[r]) \in Nat
          /\ readPosition[r] \in Nat /\ readPosition[r] <= Len(committed[r])
      BY CommittedFacts
    <2>2. CASE committed'[r] = committed[r]
      BY <2>1, <2>2
    <2>3. CASE r = q /\ committed'[r] = Append(committed[r], s)
      BY <1>2, <2>1, <2>3, AppendedSample
    <2> QED
      BY <1>1, <2>2, <2>3 DEF IndInv, TypeOK
  <1>4. BehindReader'
    <2> SUFFICES ASSUME NEW r \in Tracks, NEW i \in 1 .. Len(committed'[r]),
                        i <= readPosition[r], ~(reading = r /\ i = readPosition[r])
                 PROVE  committed'[r][i].to < EndPosition(readNode[r])
      BY <1>1 DEF BehindReader
    <2>1. i \in 1 .. Len(committed[r]) /\ committed'[r][i] = committed[r][i]
      BY <1>3
    <2> QED
      BY <2>1 DEF GapInv, BehindReader
  <1>5. ASSUME NEW r \in Tracks, NEW n \in Nodes, Abandoned(r, n)',
               NEW i \in 1 .. Len(committed'[r])
        PROVE  ~(committed'[r][i].from < EndPosition(n) /\ EndPosition(n) <= committed'[r][i].to)
    <2>1. Abandoned(r, n)
      BY <1>1, <1>5 DEF Abandoned, Initialised
    <2>2. CASE i \in 1 .. Len(committed[r]) /\ committed'[r][i] = committed[r][i]
      <3>1. committed[r] \in Seq(Extent)
        BY CommittedFacts
      <3> QED
        BY <2>1, <2>2, <3>1 DEF GapInv, OnlyGapsAbandoned
    <2>3. CASE r = q /\ committed'[r][i] = s
      <3>1. /\ n \in Nat /\ readNode[q] \in Nat /\ n < readNode[q] /\ offeredUpTo[q] \in Nat
        BY <2>1, <2>3 DEF Abandoned, IndInv, TypeOK, Nodes
      <3>2. EndPosition(n) \in Nat /\ Start(readNode[q]) \in Nat
            /\ EndPosition(n) <= Start(readNode[q])
        BY <3>1, NodesInOrder, StartType
      <3>3. Start(readNode[q]) <= offeredUpTo[q]
        BY DEF IndInv, ReadInv
      <3> QED
        BY <1>1, <1>2, <2>3, <3>1, <3>2, <3>3
    <2> QED
      BY <1>3, <2>2, <2>3
  <1>6. ASSUME NEW r \in Tracks PROVE DOMAIN committed'[r] = 1 .. Len(committed'[r])
    <2>1. committed' \in [Tracks -> Seq(Extent)]
      <3>1. committed \in [Tracks -> Seq(Extent)]
        BY DEF IndInv, TypeOK
      <3>2. Append(committed[q], s) \in Seq(Extent)
        BY <1>2, <3>1, AppendedSample
      <3> QED
        BY <1>1, <3>1, <3>2
    <2> QED
      BY <2>1
  <1>7. OnlyGapsAbandoned'
    BY <1>5, <1>6 DEF OnlyGapsAbandoned
  <1> QED
    BY <1>4, <1>7 DEF GapInv

LEMMA EndsInOrder ==
  ASSUME NEW m \in Nat, NEW n \in Nat, m <= n
  PROVE  EndPosition(m) <= EndPosition(n)
  <1>1. CASE m = n
    BY <1>1, StartType
  <1>2. CASE m < n
    BY <1>2, NodesInOrder, StartType
  <1> QED
    BY <1>1, <1>2

(* The nodes a read passes end in front of its sample, and after every     *)
(* sample before it.                                                       *)
LEMMA ReadGap == ASSUME IndInv, GapInv, NEW q \in Tracks, Read(q) PROVE GapInv'
  <1> DEFINE s == committed[q][readPosition[q] + 1]
             old == readNode[q]
  <1>1. /\ reading = NoTrack /\ readPosition[q] < Len(committed[q]) /\ reading' = q
        /\ readPosition' = [readPosition EXCEPT ![q] = @ + 1]
        /\ UNCHANGED <<allocator, allocation, committed>>
    BY DEF Read
  <1>2. PICK n \in Nodes :
          /\ n >= old /\ s.from < EndPosition(n)
          /\ n = old \/ s.from >= Start(n)
          /\ readNode' = [readNode EXCEPT ![q] = n]
    BY DEF Read
  <1>3. /\ old \in Nat /\ n \in Nat /\ readPosition[q] \in Nat
        /\ readPosition'[q] = readPosition[q] + 1 /\ readNode'[q] = n
        /\ \A r \in Tracks : r # q =>
             readPosition'[r] = readPosition[r] /\ readNode'[r] = readNode[r]
    BY <1>1, <1>2 DEF IndInv, TypeOK, Nodes
  <1>4. \A i \in 1 .. Len(committed[q]) :
          i <= readPosition[q] => committed[q][i].to < EndPosition(old)
    BY <1>1, SentinelAssumption DEF GapInv, BehindReader
  <1>5. /\ Len(committed[q]) \in Nat /\ readPosition[q] + 1 \in 1 .. Len(committed[q])
        /\ \A i \in 1 .. Len(committed[q]) :
             /\ committed[q][i].from \in Nat /\ committed[q][i].to \in Nat
             /\ committed[q][i].from < committed[q][i].to
        /\ \A i, j \in 1 .. Len(committed[q]) :
             i < j => committed[q][i].to <= committed[q][j].from
    BY <1>1, CommittedFacts DEF IndInv, SampleInv
  <1>6. \A i \in 1 .. Len(committed[q]) :
          i > readPosition[q] => s.from <= committed[q][i].from
    <2> SUFFICES ASSUME NEW i \in 1 .. Len(committed[q]), i > readPosition[q]
                 PROVE  s.from <= committed[q][i].from
      OBVIOUS
    <2>1. CASE i = readPosition[q] + 1
      BY <1>5, <2>1
    <2>2. CASE readPosition[q] + 1 < i
      <3>1. s.to <= committed[q][i].from /\ s.from < s.to
        BY <1>5, <2>2
      <3> QED
        BY <1>5, <3>1
    <2> QED
      BY <1>3, <2>1, <2>2
  <1>7. s.from \in Nat
    BY <1>5
  <1> HIDE DEF s, old
  <1>8. BehindReader'
    <2> SUFFICES ASSUME NEW r \in Tracks, NEW i \in 1 .. Len(committed[r]),
                        i <= readPosition'[r], ~(q = r /\ i = readPosition'[r])
                 PROVE  committed[r][i].to < EndPosition(readNode'[r])
      BY <1>1 DEF BehindReader
    <2>1. CASE r = q
      <3>1. i <= readPosition[q] /\ i \in 1 .. Len(committed[q])
        BY <1>3, <1>5, <2>1
      <3>2. committed[q][i].to < EndPosition(old) /\ committed[q][i].to \in Nat
        BY <1>4, <1>5, <3>1
      <3>3. EndPosition(old) <= EndPosition(n) /\ EndPosition(old) \in Nat /\ EndPosition(n) \in Nat
        BY <1>2, <1>3, EndsInOrder, StartType
      <3>4. committed[q][i].to < EndPosition(n)
        BY <3>2, <3>3
      <3> QED
        BY <1>3, <2>1, <3>4
    <2>2. CASE r # q
      BY <1>1, <1>3, <2>2, SentinelAssumption DEF GapInv, BehindReader
    <2> QED
      BY <2>1, <2>2
  <1>9. ASSUME NEW r \in Tracks, NEW m \in Nodes, Abandoned(r, m)', NEW i \in DOMAIN committed[r]
        PROVE  ~(committed[r][i].from < EndPosition(m) /\ EndPosition(m) <= committed[r][i].to)
    <2>1. /\ m < readNode'[r] /\ Initialised(r, m) /\ owner[allocation[r][m]] = <<r, m>>
      BY <1>1, <1>9 DEF Abandoned, Initialised, allocator
    <2>2. CASE m < readNode[r]
      BY <2>1, <2>2 DEF GapInv, OnlyGapsAbandoned, Abandoned
    <2>3. CASE ~(m < readNode[r])
      <3>1. r = q /\ m < n /\ old <= m /\ m \in Nat
        BY <1>3, <2>1, <2>3 DEF Nodes, old
      <3>2. n # old /\ Start(n) <= s.from
        BY <1>2, <1>3, <1>7, <3>1, StartType
      <3>3. EndPosition(m) <= s.from /\ EndPosition(m) \in Nat /\ EndPosition(old) \in Nat
            /\ EndPosition(old) <= EndPosition(m)
        <4>1. EndPosition(m) <= Start(n)
          BY <1>3, <3>1, NodesInOrder
        <4>2. EndPosition(m) \in Nat /\ Start(n) \in Nat /\ EndPosition(old) \in Nat
          BY <1>3, <3>1, StartType
        <4>3. EndPosition(old) <= EndPosition(m)
          BY <1>3, <3>1, EndsInOrder
        <4> QED
          BY <1>7, <3>2, <4>1, <4>2, <4>3
      <3>4. i \in 1 .. Len(committed[q])
        BY <1>9, <3>1, CommittedFacts
      <3>5. CASE i <= readPosition[q]
        BY <1>4, <1>5, <3>1, <3>3, <3>4, <3>5
      <3>6. CASE i > readPosition[q]
        BY <1>5, <1>6, <1>7, <3>1, <3>3, <3>4, <3>6
      <3> QED
        BY <1>3, <3>4, <3>5, <3>6
    <2> QED
      BY <2>2, <2>3
  <1>10. OnlyGapsAbandoned'
    BY <1>1, <1>9 DEF OnlyGapsAbandoned
  <1> QED
    BY <1>8, <1>10 DEF GapInv

(* The node that is returned is no longer abandoned; the others are.       *)
LEMMA ReleaseGap == ASSUME IndInv, GapInv, ReleaseReadNode PROVE GapInv'
  <1> DEFINE q == reading
             n == readNode[q]
             b == allocation[q][n]
  <1>1. /\ q \in Tracks /\ AtNodeEnd(q) /\ Release(<<b>>)
        /\ readNode' = [readNode EXCEPT ![q] = n + 1]
        /\ UNCHANGED <<allocation, committed, readPosition, reading>>
    BY DEF ReleaseReadNode, ReadNodeBlock, IndInv, TypeOK, metadata, consumer
  <1>2. n \in Nat /\ b \in Blocks
    BY <1>1, ReadingFacts
  <1>3. owner' = [c \in Blocks |-> IF c = b THEN NoOwner ELSE owner[c]]
    BY <1>1 DEF Release
  <1>4. /\ readNode'[q] = n + 1
        /\ \A r \in Tracks : r # q => readNode'[r] = readNode[r]
    BY <1>1 DEF IndInv, TypeOK
  <1>5. BehindReader'
    <2> SUFFICES ASSUME NEW r \in Tracks, NEW i \in 1 .. Len(committed[r]),
                        i <= readPosition[r], ~(q = r /\ i = readPosition[r])
                 PROVE  committed[r][i].to < EndPosition(readNode'[r])
      BY <1>1 DEF BehindReader
    <2>1. committed[r][i].to < EndPosition(readNode[r]) /\ committed[r][i].to \in Nat
      BY CommittedFacts DEF GapInv, BehindReader
    <2>2. CASE r = q
      <3>1. EndPosition(n) \in Nat /\ EndPosition(n + 1) \in Nat
            /\ EndPosition(n) <= EndPosition(n + 1)
        <4> HIDE DEF n
        <4>1. n \in Nat /\ n + 1 \in Nat /\ n <= n + 1
          BY <1>2
        <4> QED
          BY <4>1, EndsInOrder, StartType
      <3>2. committed[r][i].to < EndPosition(n)
        BY <2>1, <2>2
      <3> HIDE DEF n, q
      <3>3. committed[r][i].to < EndPosition(n + 1)
        BY <2>1, <3>1, <3>2
      <3> QED
        BY <1>4, <2>2, <3>3
    <2>3. CASE r # q
      BY <1>4, <2>1, <2>3
    <2> QED
      BY <2>2, <2>3
  <1>6. ASSUME NEW r \in Tracks, NEW m \in Nodes, Abandoned(r, m)' PROVE Abandoned(r, m)
    <2>1. /\ m < readNode'[r] /\ Initialised(r, m) /\ m \in Nat /\ readNode[r] \in Nat
          /\ allocation[r][m] \in Blocks /\ owner'[allocation[r][m]] = <<r, m>>
      <3>1. m < readNode'[r] /\ Initialised(r, m) /\ owner'[allocation[r][m]] = <<r, m>>
        BY <1>1, <1>6 DEF Abandoned, Initialised
      <3>2. m \in Nat /\ readNode[r] \in Nat
        BY DEF IndInv, TypeOK, Nodes
      <3>3. allocation[r][m] \in Blocks
        BY <3>1 DEF Initialised, IndInv, TypeOK
      <3> QED
        BY <3>1, <3>2, <3>3
    <2>2. <<r, m>> # NoOwner
      BY <2>1, SentinelAssumption
    <2>3. allocation[r][m] # b /\ owner[allocation[r][m]] = <<r, m>>
      BY <1>3, <2>1, <2>2
    <2>4. r # q \/ m # n
      BY <2>3
    <2>5. m < readNode[r]
      <3>1. CASE r = q
        BY <1>2, <1>4, <2>1, <2>4, <3>1
      <3>2. CASE r # q
        BY <1>4, <2>1, <3>2
      <3> QED
        BY <3>1, <3>2
    <2> QED
      BY <2>1, <2>3, <2>5 DEF Abandoned
  <1> QED
    BY <1>1, <1>5, <1>6 DEF GapInv, OnlyGapsAbandoned

(* A sample is delivered before the read node's end: at the end, the node  *)
(* would have been returned first.                                         *)
LEMMA DeliveredGap == ASSUME IndInv, GapInv, HandedOver, Delivered PROVE GapInv'
  <1>1. /\ reading \in Tracks /\ position = end /\ ~AtNodeEnd(reading) /\ reading' = NoTrack
        /\ UNCHANGED <<allocator, allocation, readNode, committed, readPosition>>
    BY DEF Delivered, nodes, metadata, IndInv, TypeOK
  <1>2. Current(reading).to = end
    BY <1>1 DEF HandedOver, CopiedSoFar
  <1>3. /\ position <= EndPosition(readNode[reading]) /\ position # EndPosition(readNode[reading])
        /\ position \in Nat /\ EndPosition(readNode[reading]) \in Nat
    <2>1. position <= EndPosition(readNode[reading])
      BY <1>1 DEF IndInv, ReadInv
    <2>2. position # EndPosition(readNode[reading])
      BY <1>1 DEF AtNodeEnd
    <2>3. position \in Nat /\ readNode[reading] \in Nat
      BY <1>1 DEF IndInv, TypeOK, Nodes
    <2> QED
      BY <2>1, <2>2, <2>3, StartType
  <1>4. Current(reading).to < EndPosition(readNode[reading])
    BY <1>1, <1>2, <1>3
  <1>5. BehindReader'
    BY <1>1, <1>4, SentinelAssumption DEF GapInv, BehindReader, Current
  <1>6. OnlyGapsAbandoned'
    BY <1>1 DEF GapInv, OnlyGapsAbandoned, Abandoned, Initialised, allocator
  <1> QED
    BY <1>5, <1>6 DEF GapInv

LEMMA NextGap == IndInv /\ HandedOver /\ GapInv /\ [Next]_vars => GapInv'
  <1> SUFFICES ASSUME IndInv, HandedOver, GapInv, [Next]_vars PROVE GapInv'
    OBVIOUS
  <1>1. UNCHANGED <<allocator, allocation, readNode, committed, readPosition, reading>> => GapInv'
    BY DEF GapInv, OnlyGapsAbandoned, Abandoned, Initialised, BehindReader, allocator
  <1>2. CASE \E q \in Tracks : PreAppend(q)
    BY <1>2, PreAppendGap
  <1>3. CASE \/ \E k \in 1 .. AllocationLength : WriteBytes(k)
             \/ AppendNothing
             \/ CopyChunk
    BY <1>1, <1>3 DEF WriteBytes, AppendNothing, CopyChunk, nodes, metadata, consumer
  <1>4. CASE \E q \in Tracks, from, to \in 0 .. MaxBytes, key \in BOOLEAN :
               SampleMetadata(q, from, to, key)
    BY <1>4, CommitGap
  <1>5. CASE \E q \in Tracks : Read(q)
    BY <1>5, ReadGap
  <1>6. CASE ReleaseReadNode
    BY <1>6, ReleaseGap
  <1>7. CASE Delivered
    BY <1>7, DeliveredGap
  <1>8. CASE UNCHANGED vars
    BY <1>1, <1>8 DEF vars, nodes, metadata, consumer
  <1> QED
    BY <1>2, <1>3, <1>4, <1>5, <1>6, <1>7, <1>8 DEF Next, LoaderNext, ConsumerNext

(* The only blocks the reader leaves behind without returning them are     *)
(* those whose last byte belongs to no sample, for any sizes: readData     *)
(* returns every other block.                                              *)
THEOREM GapsOnly == Spec => []OnlyGapsAbandoned
  BY InitHandedOver, NextHandedOver, InitGap, NextGap, Invariant, PTL DEF Spec, GapInv

-----------------------------------------------------------------------------
(* Blocks given back. Those a queue clears are distinct and in use.        *)

HandedOut(blocks) ==
  /\ blocks \in Seq(Blocks)
  /\ \A i \in 1 .. Len(blocks) : owner[blocks[i]] # NoOwner
  /\ \A i, j \in 1 .. Len(blocks) : blocks[i] = blocks[j] => i = j

(* The owners once `blocks` are given back.                                *)
Returned(blocks) ==
  [b \in Blocks |-> IF \E i \in DOMAIN blocks : blocks[i] = b THEN NoOwner ELSE owner[b]]

LEMMA ReturnedIs ==
  ASSUME TypeOK, NEW blocks, HandedOut(blocks), owner' = Returned(blocks)
  PROVE  /\ owner' \in [Blocks -> Owner \cup {NoOwner}]
         /\ \A i \in 1 .. Len(blocks) : blocks[i] \in Blocks /\ owner'[blocks[i]] = NoOwner
         /\ \A b \in Blocks :
              (\A i \in 1 .. Len(blocks) : blocks[i] # b) => owner'[b] = owner[b]
         /\ \A b \in Blocks : owner'[b] # NoOwner => owner'[b] = owner[b]
  <1>1. owner \in [Blocks -> Owner \cup {NoOwner}]
    BY DEF TypeOK
  <1>2. blocks \in Seq(Blocks) /\ DOMAIN blocks = 1 .. Len(blocks)
    BY DEF HandedOut
  <1>3. \A i \in 1 .. Len(blocks) : blocks[i] \in Blocks
    BY <1>2
  <1> QED
    BY <1>1, <1>2, <1>3 DEF Returned

LEMMA CountReturned ==
  ASSUME TypeOK, CountInv, NEW blocks, HandedOut(blocks), owner' = Returned(blocks),
         allocatedCount' = allocatedCount - Len(blocks)
  PROVE  CountInv' /\ allocatedCount' \in Nat
  <1> DEFINE n == Len(blocks)
             S == {blocks[i] : i \in 1 .. n}
  <1>1. blocks \in Seq(Blocks) /\ n \in Nat /\ DOMAIN blocks = 1 .. n
    BY DEF HandedOut
  <1>2. S \subseteq InUse
    BY <1>1 DEF HandedOut, InUse
  <1>3. InUse' = InUse \ S
    BY <1>1, ReturnedIs DEF InUse
  <1>4. blocks \in [1 .. n -> S] /\ blocks \in Surjection(1 .. n, S)
        /\ blocks \in Injection(1 .. n, S)
    <2>1. blocks \in [1 .. n -> S]
      BY <1>1
    <2> QED
      BY <2>1 DEF HandedOut, Surjection, Injection, IsInjective
  <1> HIDE DEF S, n
  <1>5. IsFiniteSet(1 .. n) /\ Cardinality(1 .. n) = n
    BY <1>1, FS_Interval
  <1>6. IsFiniteSet(S) /\ Cardinality(S) = n
    BY <1>4, <1>5, FS_Surjection
  <1>7. S \cap InUse = S /\ InUse \cap S = S
    BY <1>2
  <1>8. IsFiniteSet(InUse \ S) /\ Cardinality(InUse \ S) = Cardinality(InUse) - n
    <2>1. IsFiniteSet(InUse)
      BY DEF CountInv
    <2>2. /\ IsFiniteSet(InUse \ S)
          /\ Cardinality(InUse \ S) = Cardinality(InUse) - Cardinality(InUse \cap S)
      BY <2>1, FS_Difference
    <2> QED
      BY <1>6, <1>7, <2>2
  <1>9. Cardinality(InUse \ S) \in Nat
    BY <1>8, FS_CardinalityType
  <1> QED
    BY <1>3, <1>8, <1>9 DEF CountInv, AllocatedCountExact, n

LEMMA ReleaseEffect ==
  ASSUME TypeOK, PoolInv, NEW blocks, HandedOut(blocks), Release(blocks)
  PROVE  /\ owner' = Returned(blocks) /\ allocatedCount' = allocatedCount - Len(blocks)
         /\ availableAllocations' \in Seq(Blocks) /\ allocatedCount' \in Int
         /\ created' = created /\ PoolInv'
  <1> DEFINE old == availableAllocations
             m == Len(old)
             n == Len(blocks)
  <1>1. /\ old \in Seq(Blocks) /\ m \in Nat /\ DOMAIN old = 1 .. m
        /\ blocks \in Seq(Blocks) /\ n \in Nat /\ allocatedCount \in Int
    BY DEF TypeOK, HandedOut
  <1>2. /\ owner' = Returned(blocks) /\ allocatedCount' = allocatedCount - n
        /\ availableAllocations' = old \o blocks /\ created' = created
    BY DEF Release, Returned
  <1>3. /\ \A i \in 1 .. m : owner[old[i]] = NoOwner /\ old[i] \in created /\ old[i] \in Blocks
        /\ \A i, j \in 1 .. m : old[i] = old[j] => i = j
        /\ \A b \in Blocks : owner[b] # NoOwner => b \in created
    BY <1>1 DEF PoolInv, PoolSound
  <1>4. /\ \A i \in 1 .. n : owner[blocks[i]] # NoOwner
        /\ \A i, j \in 1 .. n : blocks[i] = blocks[j] => i = j
    BY DEF HandedOut
  <1>5. /\ \A i \in 1 .. n : blocks[i] \in Blocks /\ owner'[blocks[i]] = NoOwner
        /\ \A b \in Blocks : owner'[b] # NoOwner => owner'[b] = owner[b]
    BY <1>2, ReturnedIs
  <1> DEFINE new == old \o blocks
  <1>6. /\ new \in Seq(Blocks) /\ Len(new) = m + n /\ DOMAIN new = 1 .. m + n
        /\ \A i \in 1 .. m : new[i] = old[i]
        /\ \A i \in m + 1 .. m + n : new[i] = blocks[i - m] /\ i - m \in 1 .. n
    BY <1>1, ConcatProperties
  <1>7. availableAllocations' = new
    BY <1>2
  <1> HIDE DEF old, m, n, new
  <1>8. \A i \in 1 .. m + n : i \in 1 .. m \/ i \in m + 1 .. m + n
    BY <1>1
  <1>9. \A i \in 1 .. m + n : owner'[new[i]] = NoOwner /\ new[i] \in created
    BY <1>3, <1>4, <1>5, <1>6, <1>8
  <1>10. \A i, j \in 1 .. m + n : new[i] = new[j] => i = j
    <2> SUFFICES ASSUME NEW i \in 1 .. m + n, NEW j \in 1 .. m + n, new[i] = new[j]
                 PROVE  i = j
      OBVIOUS
    <2>1. CASE i \in 1 .. m /\ j \in 1 .. m
      BY <1>3, <1>6, <2>1
    <2>2. CASE i \in m + 1 .. m + n /\ j \in m + 1 .. m + n
      <3>1. i - m = j - m
        BY <1>4, <1>6, <2>2
      <3> QED
        BY <1>1, <3>1
    <2>3. CASE (i \in 1 .. m /\ j \in m + 1 .. m + n) \/ (j \in 1 .. m /\ i \in m + 1 .. m + n)
      BY <1>3, <1>4, <1>6, <2>3
    <2> QED
      BY <1>8, <2>1, <2>2, <2>3
  <1>11. PoolInv'
    <2>1. \A b \in Blocks : owner'[b] # NoOwner => b \in created'
      BY <1>2, <1>3, <1>5
    <2> QED
      BY <1>2, <1>6, <1>7, <1>9, <1>10, <2>1 DEF PoolInv, PoolSound
  <1>12. allocatedCount' \in Int
    BY <1>1, <1>2
  <1> QED
    BY <1>2, <1>6, <1>7, <1>11, <1>12 DEF n

(* The blocks of a run of nodes that are still to be read.                 *)
LEMMA RunOfBlocks ==
  ASSUME IndInv, NEW q \in Tracks, NEW from \in Nat, NEW to \in Nat, from <= to,
         \A m \in from .. to - 1 : m \in Nodes /\ readNode[q] <= m /\ Initialised(q, m)
  PROVE  LET blocks == BlocksOf(q, from, to)
         IN  /\ HandedOut(blocks) /\ Len(blocks) = to - from
             /\ \A i \in 1 .. to - from :
                  blocks[i] = allocation[q][from + i - 1] /\ from + i - 1 \in from .. to - 1
  <1> DEFINE blocks == BlocksOf(q, from, to)
             n == to - from
  <1>1. n \in Nat
    OBVIOUS
  <1>2. \A i \in 1 .. n :
          /\ from + i - 1 \in from .. to - 1
          /\ from + i - 1 \in Nodes /\ readNode[q] <= from + i - 1
          /\ Initialised(q, from + i - 1)
    OBVIOUS
  <1>3. \A i \in 1 .. n : allocation[q][from + i - 1] \in Blocks
    <2> SUFFICES ASSUME NEW i \in 1 .. n PROVE allocation[q][from + i - 1] \in Blocks
      OBVIOUS
    <2>1. from + i - 1 \in Nodes /\ Initialised(q, from + i - 1)
      BY <1>2
    <2> QED
      BY <2>1 DEF IndInv, TypeOK, Initialised
  <1>4. blocks = [i \in 1 .. n |-> allocation[q][from + i - 1]]
    BY DEF BlocksOf
  <1> HIDE DEF n, blocks
  <1>5. blocks \in Seq(Blocks) /\ Len(blocks) = n
    BY <1>1, <1>3, <1>4
  <1>6. \A i \in 1 .. n : blocks[i] = allocation[q][from + i - 1]
    BY <1>4
  <1>7. \A i \in 1 .. n : owner[blocks[i]] = <<q, from + i - 1>> /\ owner[blocks[i]] # NoOwner
    <2> SUFFICES ASSUME NEW i \in 1 .. n
                 PROVE  owner[blocks[i]] = <<q, from + i - 1>> /\ owner[blocks[i]] # NoOwner
      OBVIOUS
    <2>1. owner[blocks[i]] = <<q, from + i - 1>>
      BY <1>2, <1>6 DEF IndInv, UnreadBlocksOwned
    <2>2. from + i - 1 \in Nat
      OBVIOUS
    <2> QED
      BY <2>1, <2>2, SentinelAssumption
  <1>8. \A i, j \in 1 .. n : blocks[i] = blocks[j] => i = j
    <2> SUFFICES ASSUME NEW i \in 1 .. n, NEW j \in 1 .. n, blocks[i] = blocks[j] PROVE i = j
      OBVIOUS
    <2>1. <<q, from + i - 1>> = <<q, from + j - 1>>
      BY <1>7
    <2>2. from + i - 1 = from + j - 1
      BY <2>1
    <2> QED
      BY <2>2
  <1> QED
    BY <1>2, <1>5, <1>6, <1>7, <1>8 DEF HandedOut, n, blocks

(* A queue none of whose nodes was read to its end clears a run of its     *)
(* nodes, the ones not kept, and gives back their blocks.                  *)
Clears(q, keep, blocks) ==
  /\ allocation' = Cleared(q, keep)
  /\ owner' = Returned(blocks)
  /\ content' = content

(* The nodes from .. to - 1 are those that are not kept.                   *)
NotKept(q, keep, from, to) ==
  /\ from <= to /\ from .. to - 1 \subseteq Nodes
  /\ \A m \in Nodes : Initialised(q, m) /\ m \notin keep <=> m \in from .. to - 1

NotKeptAre(q, keep, blocks) ==
  /\ HandedOut(blocks)
  /\ \A i \in 1 .. Len(blocks) : \E m \in Nodes :
       /\ blocks[i] = allocation[q][m]
       /\ m \notin keep /\ readNode[q] <= m /\ Initialised(q, m)
  /\ \A m \in Nodes : Initialised(q, m) /\ m \notin keep =>
       \E i \in 1 .. Len(blocks) : blocks[i] = allocation[q][m]

LEMMA ClearingRun ==
  ASSUME IndInv, NEW q \in Tracks, readNode[q] = firstNode[q], NEW keep,
         NEW from \in Nat, NEW to \in Nat, NotKept(q, keep, from, to)
  PROVE  NotKeptAre(q, keep, BlocksOf(q, from, to))
  <1>1. \A m \in from .. to - 1 : m \in Nodes /\ readNode[q] <= m /\ Initialised(q, m)
    <2> SUFFICES ASSUME NEW m \in from .. to - 1
                 PROVE  m \in Nodes /\ readNode[q] <= m /\ Initialised(q, m)
      OBVIOUS
    <2>1. m \in Nodes /\ Initialised(q, m) /\ m \in Nat
      BY DEF NotKept
    <2>2. ~(m < firstNode[q])
      BY <2>1 DEF IndInv, NodeInv
    <2> QED
      BY <2>1, <2>2, NodeOrder
  <1> DEFINE blocks == BlocksOf(q, from, to)
  <1>2. /\ HandedOut(blocks) /\ Len(blocks) = to - from
        /\ \A i \in 1 .. to - from :
             blocks[i] = allocation[q][from + i - 1] /\ from + i - 1 \in from .. to - 1
    BY <1>1, RunOfBlocks DEF NotKept
  <1> HIDE DEF blocks
  <1>3. ASSUME NEW m \in Nodes, Initialised(q, m) /\ m \notin keep
        PROVE  \E i \in 1 .. Len(blocks) : blocks[i] = allocation[q][m]
    <2>1. m \in from .. to - 1
      BY <1>3 DEF NotKept
    <2>2. m - from + 1 \in 1 .. to - from /\ from + (m - from + 1) - 1 = m
      BY <2>1
    <2> QED
      BY <1>2, <2>2
  <1>4. ASSUME NEW i \in 1 .. Len(blocks)
        PROVE  \E m \in Nodes : /\ blocks[i] = allocation[q][m]
                                /\ m \notin keep /\ readNode[q] <= m /\ Initialised(q, m)
    <2>1. /\ blocks[i] = allocation[q][from + i - 1]
          /\ from + i - 1 \in from .. to - 1
      BY <1>2
    <2>2. /\ from + i - 1 \in Nodes /\ from + i - 1 \notin keep
      BY <2>1 DEF NotKept
    <2> QED
      BY <1>1, <2>1, <2>2
  <1> QED
    BY <1>2, <1>3, <1>4 DEF NotKeptAre, blocks

LEMMA ClearedIs ==
  ASSUME TypeOK, NEW q \in Tracks, NEW keep, allocation' = Cleared(q, keep)
  PROVE  /\ allocation' \in [Tracks -> [Nodes -> Blocks \cup {NoBlock}]]
         /\ \A r \in Tracks : r # q => allocation'[r] = allocation[r]
         /\ \A n \in Nodes : allocation'[q][n] = IF n \in keep THEN allocation[q][n] ELSE NoBlock
         /\ \A r \in Tracks, n \in Nodes :
              allocation'[r][n] # NoBlock =>
                /\ allocation'[r][n] = allocation[r][n]
                /\ r = q => n \in keep
  <1>1. allocation \in [Tracks -> [Nodes -> Blocks \cup {NoBlock}]]
    BY DEF TypeOK
  <1>2. /\ allocation' \in [Tracks -> [Nodes -> Blocks \cup {NoBlock}]]
        /\ \A r \in Tracks : r # q => allocation'[r] = allocation[r]
        /\ \A n \in Nodes : allocation'[q][n] = IF n \in keep THEN allocation[q][n] ELSE NoBlock
    BY <1>1 DEF Cleared
  <1> QED
    BY <1>2

LEMMA ClearingKeeps ==
  ASSUME IndInv, NEW q \in Tracks, readNode[q] = firstNode[q], NEW keep,
         NEW from \in Nat, NEW to \in Nat, NotKept(q, keep, from, to),
         Clears(q, keep, BlocksOf(q, from, to)),
         \A r \in Tracks : /\ totalBytesWritten'[r] <= totalBytesWritten[r]
                           /\ totalBytesWritten'[r] \in Nat
                           /\ r # q => readNode'[r] = readNode[r]
  PROVE  /\ UnreadBlocksOwned' /\ BytesInv'
         /\ NoBlockLost => NoBlockLost'
  <1> DEFINE blocks == BlocksOf(q, from, to)
  <1>1. NotKeptAre(q, keep, blocks)
    BY ClearingRun
  <1>2. /\ owner' = Returned(blocks) /\ allocation' = Cleared(q, keep) /\ content' = content
    BY DEF Clears
  <1> HIDE DEF blocks
  <1>3. /\ HandedOut(blocks)
        /\ \A i \in 1 .. Len(blocks) : \E m \in Nodes :
             /\ blocks[i] = allocation[q][m]
             /\ m \notin keep /\ readNode[q] <= m /\ Initialised(q, m)
        /\ \A m \in Nodes : Initialised(q, m) /\ m \notin keep =>
             \E i \in 1 .. Len(blocks) : blocks[i] = allocation[q][m]
    BY <1>1 DEF NotKeptAre
  <1>4. TypeOK
    BY DEF IndInv
  <1>5. /\ \A i \in 1 .. Len(blocks) : blocks[i] \in Blocks /\ owner'[blocks[i]] = NoOwner
        /\ \A b \in Blocks : (\A i \in 1 .. Len(blocks) : blocks[i] # b) => owner'[b] = owner[b]
        /\ \A b \in Blocks : owner'[b] # NoOwner => owner'[b] = owner[b]
    BY <1>3, <1>2, <1>4, ReturnedIs
  <1>6. ASSUME NEW r \in Tracks, NEW n \in Nodes, readNode'[r] <= n, allocation'[r][n] # NoBlock
        PROVE  /\ allocation'[r][n] = allocation[r][n]
               /\ readNode[r] <= n /\ Initialised(r, n)
               /\ owner'[allocation[r][n]] = <<r, n>>
    <2>1. allocation'[r][n] = allocation[r][n] /\ Initialised(r, n) /\ (r = q => n \in keep)
      BY <1>2, <1>4, <1>6, ClearedIs DEF Initialised
    <2>2. readNode[r] <= n
      <3>1. CASE r = q
        <4>1. ~(n < firstNode[q]) /\ n \in Nat
          BY <2>1, <3>1 DEF IndInv, NodeInv, Nodes
        <4> QED
          BY <3>1, <4>1, NodeOrder
      <3>2. CASE r # q
        BY <1>6, <3>2
      <3> QED
        BY <3>1, <3>2
    <2>3. owner[allocation[r][n]] = <<r, n>> /\ allocation[r][n] \in Blocks
      <3>1. owner[allocation[r][n]] = <<r, n>>
        BY <2>1, <2>2 DEF IndInv, UnreadBlocksOwned
      <3>2. allocation[r][n] \in Blocks \cup {NoBlock}
        BY <1>4 DEF TypeOK
      <3> QED
        BY <2>1, <3>1, <3>2 DEF Initialised
    <2>4. \A i \in 1 .. Len(blocks) : blocks[i] # allocation[r][n]
      <3> SUFFICES ASSUME NEW i \in 1 .. Len(blocks), blocks[i] = allocation[r][n] PROVE FALSE
        OBVIOUS
      <3>1. PICK m \in Nodes : /\ blocks[i] = allocation[q][m]
                               /\ m \notin keep /\ readNode[q] <= m /\ Initialised(q, m)
        BY <1>3
      <3>2. r = q /\ n = m
        BY <2>1, <2>2, <3>1, OwnersDiffer
      <3> QED
        BY <2>1, <3>1, <3>2
    <2>5. owner'[allocation[r][n]] = owner[allocation[r][n]]
      BY <1>5, <2>3, <2>4
    <2> QED
      BY <2>1, <2>2, <2>3, <2>5
  <1>7. UnreadBlocksOwned'
    BY <1>6 DEF UnreadBlocksOwned, Initialised
  <1>8. BytesInv'
    <2> SUFFICES ASSUME NEW r \in Tracks, NEW n \in Nodes, readNode'[r] <= n,
                        allocation'[r][n] # NoBlock, NEW i \in 0 .. AllocationLength - 1,
                        Start(n) + i < totalBytesWritten'[r]
                 PROVE  content[allocation'[r][n]][i] = <<r, Start(n) + i>>
      BY <1>2 DEF BytesInv, Initialised
    <2>1. totalBytesWritten[r] \in Nat /\ n \in Nat /\ i \in Nat
      BY <1>4, LengthAssumption DEF TypeOK, Nodes
    <2>2. Start(n) + i < totalBytesWritten[r]
      BY <2>1, StartType
    <2>3. readNode[r] <= n /\ Initialised(r, n) /\ allocation'[r][n] = allocation[r][n]
      BY <1>6
    <2> QED
      BY <2>2, <2>3 DEF IndInv, BytesInv
  <1>9. ASSUME NoBlockLost, NEW b \in Blocks, owner'[b] # NoOwner
        PROVE  allocation'[owner'[b][1]][owner'[b][2]] = b
    <2>1. owner'[b] = owner[b] /\ owner[b] \in Owner
      BY <1>4, <1>5, <1>9 DEF TypeOK
    <2>2. PICK r \in Tracks, n \in Nodes : owner[b] = <<r, n>>
      BY <2>1 DEF Owner
    <2>3. allocation[r][n] = b
      BY <1>9, <2>1, <2>2 DEF NoBlockLost, InUse
    <2>4. CASE r # q
      BY <1>2, <1>4, <2>1, <2>2, <2>3, <2>4, ClearedIs
    <2>5. CASE r = q /\ n \in keep
      BY <1>2, <1>4, <2>1, <2>2, <2>3, <2>5, ClearedIs
    <2>6. CASE r = q /\ n \notin keep
      <3>1. b # NoBlock
        BY SentinelAssumption
      <3>2. \E i \in 1 .. Len(blocks) : blocks[i] = b
        BY <1>3, <2>3, <2>6, <3>1 DEF Initialised
      <3> QED
        BY <1>5, <1>9, <3>2
    <2> QED
      BY <2>4, <2>5, <2>6
  <1> QED
    BY <1>7, <1>8, <1>9 DEF NoBlockLost, InUse

(* The first d samples and those from n + 1 on are dropped.                *)
LEMMA SamplesCut ==
  ASSUME IndInv, NEW q \in Tracks, NEW d \in Nat, NEW n \in Nat, d <= n,
         n <= Len(committed[q]),
         committed' = [committed EXCEPT ![q] = SubSeq(committed[q], d + 1, n)]
  PROVE  /\ committed' \in [Tracks -> Seq(Extent)]
         /\ \A r \in Tracks : r # q => committed'[r] = committed[r]
         /\ Len(committed'[q]) = n - d /\ n - d \in Nat
         /\ \A i \in 1 .. n - d :
              committed'[q][i] = committed[q][d + i] /\ d + i \in 1 .. Len(committed[q])
  <1> DEFINE cut == SubSeq(committed[q], d + 1, n)
  <1>1. committed \in [Tracks -> Seq(Extent)]
    BY DEF IndInv, TypeOK
  <1>2. committed[q] \in Seq(Extent) /\ Len(committed[q]) \in Nat
    BY <1>1
  <1>3. \A i \in d + 1 .. n : committed[q][i] \in Extent
    BY <1>2
  <1>4. /\ cut \in Seq(Extent)
        /\ Len(cut) = IF d + 1 <= n THEN n - (d + 1) + 1 ELSE 0
        /\ \A i \in 1 .. n - (d + 1) + 1 : cut[i] = committed[q][(d + 1) + i - 1]
    <2>1. d + 1 \in Int /\ n \in Int
      OBVIOUS
    <2> QED
      BY <1>3, <2>1, SubSeqProperties
  <1>5. committed' = [committed EXCEPT ![q] = cut]
    OBVIOUS
  <1> HIDE DEF cut
  <1>6. Len(cut) = n - d /\ n - d \in Nat
    BY <1>4
  <1>7. ASSUME NEW i \in 1 .. n - d
        PROVE  cut[i] = committed[q][d + i] /\ d + i \in 1 .. Len(committed[q])
    <2>1. (d + 1) + i - 1 = d + i /\ i \in 1 .. n - (d + 1) + 1
      OBVIOUS
    <2>2. d + i \in 1 .. Len(committed[q])
      BY <1>2
    <2> QED
      BY <1>4, <2>1, <2>2
  <1> QED
    BY <1>1, <1>4, <1>5, <1>6, <1>7

(* What is known of the queued samples and of where the writer stands.     *)
LEMMA QueuedFacts ==
  ASSUME IndInv, NEW q \in Tracks
  PROVE  /\ committed[q] \in Seq(Extent) /\ Len(committed[q]) \in Nat
         /\ readPosition[q] \in Nat /\ readPosition[q] <= Len(committed[q])
         /\ \A i \in 1 .. Len(committed[q]) :
              /\ committed[q][i].from \in Nat /\ committed[q][i].to \in Nat
              /\ committed[q][i].from < committed[q][i].to
              /\ committed[q][i].to <= offeredUpTo[q]
              /\ Start(firstNode[q]) <= committed[q][i].from
         /\ \A i, j \in 1 .. Len(committed[q]) :
              i < j => committed[q][i].to <= committed[q][j].from
         /\ offeredUpTo[q] \in Nat /\ totalBytesWritten[q] \in Nat
         /\ offeredUpTo[q] <= totalBytesWritten[q]
         /\ Start(firstNode[q]) \in Nat /\ writeNode[q] \in Nodes
         /\ Start(writeNode[q]) \in Nat /\ EndPosition(writeNode[q]) \in Nat
         /\ Start(writeNode[q]) <= totalBytesWritten[q]
         /\ totalBytesWritten[q] < EndPosition(writeNode[q])
  <1>1. /\ committed[q] \in Seq(Extent) /\ Len(committed[q]) \in Nat
        /\ readPosition[q] \in Nat /\ readPosition[q] <= Len(committed[q])
        /\ offeredUpTo[q] \in Nat /\ totalBytesWritten[q] \in Nat
        /\ offeredUpTo[q] <= totalBytesWritten[q] /\ writeNode[q] \in Nodes
    BY DEF IndInv, TypeOK, SampleInv
  <1>2. \A i \in 1 .. Len(committed[q]) : committed[q][i] \in Extent
    BY <1>1
  <1>3. \A i \in 1 .. Len(committed[q]) :
          /\ committed[q][i].from < committed[q][i].to
          /\ committed[q][i].to <= offeredUpTo[q]
          /\ Start(firstNode[q]) <= committed[q][i].from
    BY DEF IndInv, SampleInv, FirstInv
  <1>4. \A i, j \in 1 .. Len(committed[q]) :
          i < j => committed[q][i].to <= committed[q][j].from
    BY DEF IndInv, SampleInv
  <1>5. /\ Start(writeNode[q]) <= totalBytesWritten[q]
        /\ totalBytesWritten[q] < EndPosition(writeNode[q])
    BY DEF IndInv, NodeInv
  <1>6. /\ Start(firstNode[q]) \in Nat
        /\ Start(writeNode[q]) \in Nat /\ EndPosition(writeNode[q]) \in Nat
    BY NodeOrder, StartType
  <1> QED
    BY <1>1, <1>2, <1>3, <1>4, <1>5, <1>6 DEF Extent

(* A node that starts where something was written is not past the writer's.*)
LEMMA WrittenNode ==
  ASSUME IndInv, NEW q \in Tracks, NEW n \in Nat, NEW p \in Nat,
         Start(n) <= p, p <= totalBytesWritten[q]
  PROVE  n <= writeNode[q]
  <1>1. p < EndPosition(writeNode[q])
    BY QueuedFacts
  <1> QED
    BY <1>1, NodeOrder, NodeOfPosition

LEMMA NodesEndIs ==
  ASSUME IndInv, NEW q \in Tracks
  PROVE  /\ NodesEnd(q) \in Nat /\ NodesEnd(q) <= MaxNodes + 1 /\ MaxNodes \in Nat
         /\ firstNode[q] <= NodesEnd(q)
         /\ \A m \in Nodes : Initialised(q, m) <=> firstNode[q] <= m /\ m < NodesEnd(q)
  <1> DEFINE w == writeNode[q]
             f == firstNode[q]
  <1>1. /\ w \in 0 .. MaxNodes /\ MaxNodes \in Nat /\ f \in Nat /\ f <= w /\ w \in Nodes
    BY NodeOrder, QueuedFacts, BoundsAssumption DEF Nodes
  <1>2. NodesEnd(q) = IF Initialised(q, w) THEN w + 1 ELSE w
    BY DEF NodesEnd
  <1>3. \A m \in Nodes : /\ f <= m /\ m < w => Initialised(q, m)
                         /\ w < m \/ m < f => ~Initialised(q, m)
    BY DEF IndInv, NodeInv
  <1> HIDE DEF w, f
  <1>4. ASSUME NEW m \in Nodes
        PROVE  Initialised(q, m) <=> f <= m /\ m < NodesEnd(q)
    <2>1. m \in Nat
      BY DEF Nodes
    <2>2. CASE m = w
      BY <1>1, <1>2, <2>1, <2>2
    <2>3. CASE m # w
      BY <1>1, <1>2, <1>3, <2>1, <2>3
    <2> QED
      BY <2>2, <2>3
  <1>5. NodesEnd(q) \in Nat /\ NodesEnd(q) <= MaxNodes + 1 /\ f <= NodesEnd(q)
    BY <1>1, <1>2
  <1> QED
    BY <1>1, <1>4, <1>5 DEF f

-----------------------------------------------------------------------------
(* The rest of the class                                                   *)

LEMMA RewindInd ==
  ASSUME IndInv, NEW q \in Tracks, readNode[q] = firstNode[q], Rewind(q)
  PROVE  IndInv'
  <1>1. /\ reading = NoTrack /\ readPosition' = [readPosition EXCEPT ![q] = 0]
        /\ UNCHANGED <<allocator, content, allocation, firstNode, writeNode,
                       totalBytesWritten, committed, offeredUpTo, keyframeRequired,
                       appendingTo, consumer>>
    BY DEF Rewind, Idle
  <1>2. readNode' = readNode
    BY DEF Rewind, IndInv, TypeOK
  <1>3. /\ readPosition' \in [Tracks -> Nat] /\ readPosition'[q] = 0
        /\ \A r \in Tracks : r # q => readPosition'[r] = readPosition[r]
    BY <1>1 DEF IndInv, TypeOK
  <1>4. TypeOK'
    BY <1>1, <1>2, <1>3 DEF IndInv, TypeOK, allocator, consumer
  <1>5. NodeInv' /\ PoolInv'
    BY <1>1 DEF IndInv, NodeInv, PoolInv, PoolSound, Initialised, allocator
  <1>6. UnreadBlocksOwned' /\ BytesInv' /\ FirstInv'
    BY <1>1, <1>2 DEF IndInv, UnreadBlocksOwned, BytesInv, FirstInv, Initialised, allocator
  <1>7. SampleInv'
    <2>1. ASSUME NEW r \in Tracks PROVE readPosition'[r] <= Len(committed[r])
      <3>1. Len(committed[r]) \in Nat /\ readPosition[r] <= Len(committed[r])
        BY QueuedFacts
      <3> QED
        BY <1>3, <3>1
    <2> QED
      BY <1>1, <2>1 DEF IndInv, SampleInv
  <1>8. ReadInv'
    <2>1. ASSUME NEW r \in Tracks, NEW i \in readPosition'[r] + 1 .. Len(committed[r])
          PROVE  Start(readNode[r]) <= committed[r][i].from
      <3>1. CASE r = q
        BY <1>3, <3>1 DEF IndInv, FirstInv
      <3>2. CASE r # q
        BY <1>3, <3>2 DEF IndInv, ReadInv
      <3> QED
        BY <3>1, <3>2
    <2> QED
      BY <1>1, <1>2, <2>1, SentinelAssumption DEF IndInv, ReadInv, consumer
  <1> QED
    BY <1>4, <1>5, <1>6, <1>7, <1>8 DEF IndInv

LEMMA DiscardDownstreamInd ==
  ASSUME IndInv, CountInv, NEW q \in Tracks, readNode[q] = firstNode[q],
         NEW d \in 1 .. Len(committed[q]), DiscardDownstream(q, d)
  PROVE  IndInv' /\ CountInv' /\ (NoBlockLost => NoBlockLost')
  <1> DEFINE f == firstNode[q]
             w == writeNode[q]
             len == Len(committed[q])
             upTo == IF d < len THEN committed[q][d + 1].from ELSE committed[q][d].to
  <1>1. PICK n \in Nodes :
          /\ n >= f /\ IsFront(q, upTo, n)
          /\ Release(BlocksOf(q, f, n))
          /\ allocation' = Cleared(q, n .. MaxNodes)
          /\ firstNode' = [firstNode EXCEPT ![q] = n]
          /\ readNode' = [readNode EXCEPT ![q] = IF f < n THEN n ELSE f]
    <2>1. \E n \in Nodes :
          /\ n >= f /\ IsFront(q, upTo, n)
          /\ Release(BlocksOf(q, f, n))
          /\ allocation' = Cleared(q, n .. MaxNodes)
          /\ firstNode' = [firstNode EXCEPT ![q] = n]
          /\ readNode' = [readNode EXCEPT ![q] = IF readNode[q] < n THEN n ELSE readNode[q]]
      BY DEF DiscardDownstream, IndInv, TypeOK
    <2> QED
      BY <2>1
  <1>2. /\ reading = NoTrack
        /\ committed' = [committed EXCEPT ![q] = SubSeq(committed[q], d + 1, len)]
        /\ readPosition' = [readPosition EXCEPT ![q] =
                              IF readPosition[q] < d THEN 0 ELSE readPosition[q] - d]
        /\ UNCHANGED <<content, writeNode, totalBytesWritten, offeredUpTo, keyframeRequired,
                       appendingTo, consumer>>
    BY DEF DiscardDownstream, Idle, IndInv, TypeOK
  <1>3. /\ len \in Nat /\ d \in Nat /\ d \in 1 .. len /\ d <= len
        /\ f \in Nat /\ w \in Nat /\ w \in Nodes /\ f <= w /\ readPosition[q] \in Nat
        /\ readPosition[q] <= len
    <2>1. len \in Nat
      BY QueuedFacts
    <2> QED
      BY <2>1, QueuedFacts, NodeOrder
  <1>4. /\ upTo \in Nat /\ Start(f) <= upTo /\ upTo <= offeredUpTo[q]
        /\ \A i \in d + 1 .. len : upTo <= committed[q][i].from
    <2>1. CASE d < len
      <3>1. d + 1 \in 1 .. len /\ upTo = committed[q][d + 1].from
        BY <1>3, <2>1
      <3>2. ASSUME NEW i \in d + 1 .. len
            PROVE  committed[q][d + 1].from <= committed[q][i].from
        <4>1. i \in 1 .. len /\ (i = d + 1 \/ d + 1 < i)
          BY <1>3
        <4>2. CASE i = d + 1
          BY <3>1, <4>2, QueuedFacts
        <4>3. CASE d + 1 < i
          <5>1. committed[q][d + 1].to <= committed[q][i].from
            BY <3>1, <4>1, <4>3, QueuedFacts
          <5>2. /\ committed[q][d + 1].from \in Nat /\ committed[q][d + 1].to \in Nat
                /\ committed[q][d + 1].from < committed[q][d + 1].to
                /\ committed[q][i].from \in Nat
            BY <3>1, <4>1, QueuedFacts
          <5> QED
            BY <5>1, <5>2
        <4> QED
          BY <4>1, <4>2, <4>3
      <3>3. /\ committed[q][d + 1].from \in Nat /\ committed[q][d + 1].to \in Nat
            /\ committed[q][d + 1].from < committed[q][d + 1].to
            /\ committed[q][d + 1].to <= offeredUpTo[q]
            /\ Start(f) <= committed[q][d + 1].from /\ offeredUpTo[q] \in Nat
        BY <3>1, QueuedFacts
      <3> HIDE DEF upTo, f, len
      <3>4. upTo \in Nat /\ Start(f) <= upTo /\ upTo <= offeredUpTo[q]
        BY <3>1, <3>3
      <3> QED
        BY <3>1, <3>2, <3>4
    <2>2. CASE d = len
      <3>1. upTo = committed[q][d].to /\ d + 1 .. len = {}
        BY <1>3, <2>2
      <3>2. /\ committed[q][d].from \in Nat /\ committed[q][d].to \in Nat
            /\ committed[q][d].from < committed[q][d].to
            /\ committed[q][d].to <= offeredUpTo[q] /\ Start(f) <= committed[q][d].from
            /\ Start(f) \in Nat
        BY <1>3, QueuedFacts
      <3> HIDE DEF upTo, len
      <3> QED
        BY <3>1, <3>2
    <2> QED
      BY <1>3, <2>1, <2>2
  <1> HIDE DEF f, w, len, upTo
  <1>5. n \in Nat /\ f <= n /\ Start(n) \in Nat /\ Start(n) <= upTo /\ n <= w
    <2>1. n \in Nat /\ f <= n
      BY <1>1, <1>3 DEF Nodes
    <2>2. Start(n) \in Nat
      BY <2>1, StartType
    <2>3. Start(n) <= upTo
      BY <1>1, <1>4, <2>2 DEF IsFront, f
    <2>4. upTo <= totalBytesWritten[q]
      BY <1>4, QueuedFacts
    <2> QED
      BY <1>4, <2>1, <2>2, <2>3, <2>4, WrittenNode DEF w
  <1>6. NotKept(q, n .. MaxNodes, f, n)
    <2>1. \A m \in Nodes : /\ f <= m /\ m < w => Initialised(q, m)
                           /\ w < m \/ m < f => ~Initialised(q, m)
      BY DEF IndInv, NodeInv, f, w
    <2>2. \A m \in f .. n - 1 : m \in Nodes /\ f <= m /\ m < n
      BY <1>3, <1>5, BoundsAssumption DEF Nodes
    <2>3. \A m \in Nodes : m \in Nat /\ m <= MaxNodes
      BY BoundsAssumption DEF Nodes
    <2>4. \A m \in f .. n - 1 : Initialised(q, m) /\ m \notin n .. MaxNodes
      BY <1>3, <1>5, <2>1, <2>2
    <2>5. ASSUME NEW m \in Nodes, Initialised(q, m) /\ m \notin n .. MaxNodes
          PROVE  m \in f .. n - 1
      BY <1>3, <1>5, <2>1, <2>3, <2>5, BoundsAssumption
    <2> QED
      BY <1>5, <2>2, <2>4, <2>5 DEF NotKept
  <1> DEFINE blocks == BlocksOf(q, f, n)
  <1>7. NotKeptAre(q, n .. MaxNodes, blocks)
    BY <1>3, <1>5, <1>6, ClearingRun DEF f
  <1>8. /\ TypeOK /\ PoolInv /\ HandedOut(blocks) /\ Release(blocks)
    BY <1>1, <1>7 DEF IndInv, NotKeptAre
  <1>9. /\ owner' = Returned(blocks) /\ allocatedCount' = allocatedCount - Len(blocks)
        /\ availableAllocations' \in Seq(Blocks) /\ allocatedCount' \in Int
        /\ created' = created /\ PoolInv'
    <2> HIDE DEF blocks
    <2> QED
      BY <1>8, ReleaseEffect
  <1>10. CountInv'
    <2> HIDE DEF blocks
    <2> QED
      BY <1>8, <1>9, CountReturned
  <1>11. owner' \in [Blocks -> Owner \cup {NoOwner}]
    <2> HIDE DEF blocks
    <2> QED
      BY <1>8, <1>9, ReturnedIs
  <1>12. /\ readNode' \in [Tracks -> Nodes] /\ readNode'[q] = n
         /\ firstNode' \in [Tracks -> Nodes] /\ firstNode'[q] = n
         /\ \A r \in Tracks : r # q => /\ readNode'[r] = readNode[r]
                                       /\ firstNode'[r] = firstNode[r]
    <2>1. readNode \in [Tracks -> Nodes] /\ firstNode \in [Tracks -> Nodes]
      BY <1>8 DEF TypeOK
    <2>2. (IF f < n THEN n ELSE f) = n
      BY <1>3, <1>5
    <2> QED
      BY <1>1, <2>1, <2>2
  <1>13. /\ UnreadBlocksOwned' /\ BytesInv' /\ (NoBlockLost => NoBlockLost')
    <2>1. Clears(q, n .. MaxNodes, blocks)
      BY <1>1, <1>2, <1>9 DEF Clears
    <2>2. \A r \in Tracks : /\ totalBytesWritten'[r] <= totalBytesWritten[r]
                            /\ totalBytesWritten'[r] \in Nat
                            /\ r # q => readNode'[r] = readNode[r]
      BY <1>2, <1>12, QueuedFacts
    <2> QED
      BY <1>3, <1>5, <1>6, <2>1, <2>2, ClearingKeeps
  <1> HIDE DEF blocks
  <1>14. /\ committed' \in [Tracks -> Seq(Extent)]
         /\ \A r \in Tracks : r # q => committed'[r] = committed[r]
         /\ Len(committed'[q]) = len - d /\ len - d \in Nat
         /\ \A i \in 1 .. len - d :
              committed'[q][i] = committed[q][d + i] /\ d + i \in 1 .. len
    <2>1. len = Len(committed[q]) /\ len <= Len(committed[q])
      BY <1>3 DEF len
    <2>2. /\ committed' \in [Tracks -> Seq(Extent)]
          /\ \A r \in Tracks : r # q => committed'[r] = committed[r]
          /\ Len(committed'[q]) = len - d /\ len - d \in Nat
          /\ \A i \in 1 .. len - d :
               committed'[q][i] = committed[q][d + i] /\ d + i \in 1 .. Len(committed[q])
      BY <1>2, <1>3, <2>1, SamplesCut
    <2> QED
      BY <2>1, <2>2
  <1>15. /\ readPosition' \in [Tracks -> Nat] /\ readPosition'[q] <= len - d
         /\ \A r \in Tracks : r # q => readPosition'[r] = readPosition[r]
    <2>1. readPosition \in [Tracks -> Nat]
      BY <1>8 DEF TypeOK
    <2>2. (IF readPosition[q] < d THEN 0 ELSE readPosition[q] - d) \in 0 .. len - d
      BY <1>3
    <2> QED
      BY <1>2, <1>3, <2>1, <2>2
  <1>16. /\ allocation' \in [Tracks -> [Nodes -> Blocks \cup {NoBlock}]]
         /\ \A r \in Tracks : r # q => allocation'[r] = allocation[r]
         /\ \A m \in Nodes :
              allocation'[q][m] = IF m \in n .. MaxNodes THEN allocation[q][m] ELSE NoBlock
    BY <1>1, <1>8, ClearedIs
  <1>17. TypeOK'
    BY <1>2, <1>8, <1>9, <1>11, <1>12, <1>14, <1>15, <1>16 DEF TypeOK, consumer
  <1>18. NodeInv'
    <2>1. ASSUME NEW r \in Tracks, NEW m \in Nodes
          PROVE  /\ firstNode'[r] <= m /\ m < writeNode[r] => allocation'[r][m] # NoBlock
                 /\ writeNode[r] < m \/ m < firstNode'[r] => allocation'[r][m] = NoBlock
      <3>1. /\ firstNode[r] <= m /\ m < writeNode[r] => allocation[r][m] # NoBlock
            /\ writeNode[r] < m \/ m < firstNode[r] => allocation[r][m] = NoBlock
        BY DEF IndInv, NodeInv, Initialised
      <3>2. CASE r = q
        <4>1. m \in Nat /\ m <= MaxNodes /\ MaxNodes \in Nat
          BY BoundsAssumption DEF Nodes
        <4>2. n <= m => allocation'[q][m] = allocation[q][m]
          BY <1>5, <1>16, <4>1
        <4>3. m < n => allocation'[q][m] = NoBlock
          BY <1>5, <1>16, <4>1
        <4> QED
          BY <1>3, <1>5, <1>12, <3>1, <3>2, <4>1, <4>2, <4>3 DEF f, w
      <3>3. CASE r # q
        BY <1>12, <1>16, <3>1, <3>3
      <3> QED
        BY <3>2, <3>3
    <2>2. \A r \in Tracks : allocation'[r][writeNode[r]] = allocation[r][writeNode[r]]
      <3>1. w \in n .. MaxNodes
        BY <1>3, <1>5, BoundsAssumption DEF Nodes
      <3> QED
        BY <1>3, <1>16, <3>1 DEF w
    <2>3. appendingTo # NoTrack => appendingTo \in Tracks
      BY <1>8 DEF TypeOK
    <2> QED
      BY <1>2, <2>1, <2>2, <2>3 DEF IndInv, NodeInv, Initialised
  <1>19. ASSUME NEW i \in 1 .. len - d
         PROVE  /\ committed'[q][i].from < committed'[q][i].to
                /\ committed'[q][i].to <= offeredUpTo[q]
                /\ Start(n) <= committed'[q][i].from
    <2>1. /\ committed'[q][i] = committed[q][d + i]
          /\ d + i \in 1 .. len /\ d + i \in d + 1 .. len
      BY <1>3, <1>14
    <2>2. /\ committed[q][d + i].from < committed[q][d + i].to
          /\ committed[q][d + i].to <= offeredUpTo[q] /\ committed[q][d + i].from \in Nat
      BY <2>1, QueuedFacts DEF len
    <2>3. upTo <= committed[q][d + i].from
      BY <1>4, <2>1
    <2> QED
      BY <1>4, <1>5, <2>1, <2>2, <2>3
  <1>20. SampleInv'
    <2> SUFFICES ASSUME NEW r \in Tracks
                 PROVE  /\ offeredUpTo[r] <= totalBytesWritten[r]
                        /\ readPosition'[r] <= Len(committed'[r])
                        /\ \A i \in 1 .. Len(committed'[r]) :
                             /\ committed'[r][i].from < committed'[r][i].to
                             /\ committed'[r][i].to <= offeredUpTo[r]
                        /\ \A i, j \in 1 .. Len(committed'[r]) :
                             i < j => committed'[r][i].to <= committed'[r][j].from
      BY <1>2 DEF SampleInv
    <2>1. CASE r # q
      BY <1>14, <1>15, <2>1 DEF IndInv, SampleInv
    <2>2. CASE r = q
      <3>1. ASSUME NEW i \in 1 .. len - d, NEW j \in 1 .. len - d, i < j
            PROVE  committed'[q][i].to <= committed'[q][j].from
        <4>1. d + i \in 1 .. len /\ d + j \in 1 .. len /\ d + i < d + j
          BY <1>3, <1>14, <3>1
        <4>2. committed[q][d + i].to <= committed[q][d + j].from
          BY <4>1, QueuedFacts DEF len
        <4> QED
          BY <1>14, <4>2
      <3> QED
        BY <1>14, <1>15, <1>19, <2>2, <3>1, QueuedFacts
    <2> QED
      BY <2>1, <2>2
  <1>21. ReadInv'
    <2> SUFFICES ASSUME NEW r \in Tracks
                 PROVE  /\ readNode'[r] <= writeNode[r]
                        /\ Start(readNode'[r]) <= offeredUpTo[r]
                        /\ \A i \in readPosition'[r] + 1 .. Len(committed'[r]) :
                             Start(readNode'[r]) <= committed'[r][i].from
      BY <1>2, SentinelAssumption DEF ReadInv, consumer
    <2>1. CASE r # q
      BY <1>12, <1>14, <1>15, <2>1 DEF IndInv, ReadInv
    <2>2. CASE r = q
      <3>1. \A i \in readPosition'[q] + 1 .. Len(committed'[q]) : i \in 1 .. len - d
        BY <1>14, <1>15
      <3>2. Start(n) <= offeredUpTo[q]
        BY <1>4, <1>5, QueuedFacts
      <3> QED
        BY <1>5, <1>12, <1>19, <2>2, <3>1, <3>2 DEF w
    <2> QED
      BY <2>1, <2>2
  <1>22. FirstInv'
    <2>1. ASSUME NEW r \in Tracks
          PROVE  /\ firstNode'[r] <= readNode'[r]
                 /\ \A i \in 1 .. Len(committed'[r]) :
                      Start(firstNode'[r]) <= committed'[r][i].from
      <3>1. CASE r # q
        BY <1>12, <1>14, <3>1 DEF IndInv, FirstInv
      <3>2. CASE r = q
        BY <1>5, <1>12, <1>14, <1>19, <3>2
      <3> QED
        BY <3>1, <3>2
    <2> QED
      BY <2>1 DEF FirstInv
  <1> QED
    BY <1>9, <1>10, <1>13, <1>17, <1>18, <1>20, <1>21, <1>22 DEF IndInv

(* A track without nodes, bytes and samples, between two reads and appends.*)
Emptied(q) ==
  /\ reading' = NoTrack /\ appendingTo' = NoTrack
  /\ firstNode' = [firstNode EXCEPT ![q] = 0]
  /\ readNode' = [readNode EXCEPT ![q] = 0]
  /\ writeNode' = [writeNode EXCEPT ![q] = 0]
  /\ totalBytesWritten' = [totalBytesWritten EXCEPT ![q] = 0]
  /\ committed' = [committed EXCEPT ![q] = << >>]
  /\ readPosition' = [readPosition EXCEPT ![q] = 0]
  /\ offeredUpTo' = [offeredUpTo EXCEPT ![q] = 0]

EmptiedTypes ==
  /\ allocation' \in [Tracks -> [Nodes -> Blocks \cup {NoBlock}]]
  /\ firstNode' \in [Tracks -> Nodes] /\ readNode' \in [Tracks -> Nodes]
  /\ writeNode' \in [Tracks -> Nodes] /\ totalBytesWritten' \in [Tracks -> Nat]
  /\ committed' \in [Tracks -> Seq(Extent)]
  /\ readPosition' \in [Tracks -> Nat] /\ offeredUpTo' \in [Tracks -> Nat]

LEMMA EmptiedKeeps ==
  ASSUME IndInv, NEW q \in Tracks, readNode[q] = firstNode[q], Emptied(q),
         Clears(q, {}, BlocksOf(q, firstNode[q], NodesEnd(q)))
  PROVE  /\ HandedOut(BlocksOf(q, firstNode[q], NodesEnd(q))) /\ EmptiedTypes
         /\ NodeInv' /\ SampleInv' /\ ReadInv' /\ FirstInv'
         /\ UnreadBlocksOwned' /\ BytesInv' /\ (NoBlockLost => NoBlockLost')
  <1> DEFINE f == firstNode[q]
             e == NodesEnd(q)
             blocks == BlocksOf(q, f, e)
  <1>1. Clears(q, {}, blocks) /\ allocation' = Cleared(q, {})
    BY DEF Clears
  <1>2. /\ reading' = NoTrack /\ appendingTo' = NoTrack
        /\ firstNode' = [firstNode EXCEPT ![q] = 0]
        /\ readNode' = [readNode EXCEPT ![q] = 0]
        /\ writeNode' = [writeNode EXCEPT ![q] = 0]
        /\ totalBytesWritten' = [totalBytesWritten EXCEPT ![q] = 0]
        /\ committed' = [committed EXCEPT ![q] = << >>]
        /\ readPosition' = [readPosition EXCEPT ![q] = 0]
        /\ offeredUpTo' = [offeredUpTo EXCEPT ![q] = 0]
    BY DEF Emptied
  <1>3. TypeOK
    BY DEF IndInv
  <1>4. f \in Nat /\ e \in Nat /\ NotKept(q, {}, f, e)
    <2>1. /\ e \in Nat /\ e <= MaxNodes + 1 /\ MaxNodes \in Nat /\ f <= e /\ f \in Nat
          /\ \A m \in Nodes : Initialised(q, m) <=> f <= m /\ m < e
      BY NodesEndIs, NodeOrder
    <2> HIDE DEF e, f
    <2>2. \A m \in f .. e - 1 : m \in Nodes
      BY <2>1 DEF Nodes
    <2>3. \A m \in Nodes : m \in Nat
      BY DEF Nodes
    <2>4. \A m \in Nodes : Initialised(q, m) /\ m \notin {} <=> m \in f .. e - 1
      BY <2>1, <2>3
    <2> QED
      BY <2>1, <2>2, <2>4 DEF NotKept
  <1> HIDE DEF f, e
  <1>5. HandedOut(blocks)
    <2>1. NotKeptAre(q, {}, blocks)
      BY <1>4, ClearingRun DEF f
    <2> QED
      BY <2>1 DEF NotKeptAre
  <1>6. /\ UnreadBlocksOwned' /\ BytesInv' /\ (NoBlockLost => NoBlockLost')
    <2>1. ASSUME NEW r \in Tracks
          PROVE  /\ totalBytesWritten'[r] <= totalBytesWritten[r]
                 /\ totalBytesWritten'[r] \in Nat
                 /\ r # q => readNode'[r] = readNode[r]
      <3>1. totalBytesWritten[r] \in Nat
        BY QueuedFacts
      <3>2. totalBytesWritten'[r] = IF r = q THEN 0 ELSE totalBytesWritten[r]
        BY <1>2, <1>3 DEF TypeOK
      <3>3. r # q => readNode'[r] = readNode[r]
        BY <1>2, <1>3 DEF TypeOK
      <3> QED
        BY <3>1, <3>2, <3>3
    <2> QED
      BY <1>1, <1>4, <2>1, ClearingKeeps
  <1> HIDE DEF blocks
  <1>7. /\ 0 \in Nodes
        /\ firstNode' \in [Tracks -> Nodes] /\ firstNode'[q] = 0
        /\ readNode' \in [Tracks -> Nodes] /\ readNode'[q] = 0
        /\ writeNode' \in [Tracks -> Nodes] /\ writeNode'[q] = 0
        /\ totalBytesWritten' \in [Tracks -> Nat] /\ totalBytesWritten'[q] = 0
        /\ \A r \in Tracks : r # q =>
             /\ firstNode'[r] = firstNode[r] /\ readNode'[r] = readNode[r]
             /\ writeNode'[r] = writeNode[r]
             /\ totalBytesWritten'[r] = totalBytesWritten[r]
    <2>1. 0 \in Nodes
      BY BoundsAssumption DEF Nodes
    <2> QED
      BY <1>2, <1>3, <2>1 DEF TypeOK
  <1>8. /\ committed' \in [Tracks -> Seq(Extent)] /\ committed'[q] = << >>
        /\ readPosition' \in [Tracks -> Nat] /\ readPosition'[q] = 0
        /\ offeredUpTo' \in [Tracks -> Nat] /\ offeredUpTo'[q] = 0
        /\ \A r \in Tracks : r # q =>
             /\ committed'[r] = committed[r] /\ readPosition'[r] = readPosition[r]
             /\ offeredUpTo'[r] = offeredUpTo[r]
    <2>1. << >> \in Seq(Extent)
      OBVIOUS
    <2> QED
      BY <1>2, <1>3, <2>1 DEF TypeOK
  <1>9. /\ allocation' \in [Tracks -> [Nodes -> Blocks \cup {NoBlock}]]
        /\ \A r \in Tracks : r # q => allocation'[r] = allocation[r]
        /\ \A m \in Nodes : allocation'[q][m] = NoBlock
    BY <1>1, <1>3, ClearedIs
  <1>10. NodeInv'
    <2>1. ASSUME NEW r \in Tracks, NEW m \in Nodes
          PROVE  /\ firstNode'[r] <= m /\ m < writeNode'[r] => allocation'[r][m] # NoBlock
                 /\ writeNode'[r] < m \/ m < firstNode'[r] => allocation'[r][m] = NoBlock
      <3>1. CASE r = q
        <4>1. m \in Nat /\ ~(m < 0)
          BY DEF Nodes
        <4>2. allocation'[q][m] = NoBlock
          BY <1>9
        <4>3. writeNode'[q] = 0
          BY <1>7
        <4> QED
          BY <3>1, <4>1, <4>2, <4>3
      <3>2. CASE r # q
        BY <1>7, <1>9, <3>2 DEF IndInv, NodeInv, Initialised
      <3> QED
        BY <3>1, <3>2
    <2>2. ASSUME NEW r \in Tracks
          PROVE  /\ Start(writeNode'[r]) <= totalBytesWritten'[r]
                 /\ totalBytesWritten'[r] < EndPosition(writeNode'[r])
                 /\ \/ allocation'[r][writeNode'[r]] # NoBlock
                    \/ totalBytesWritten'[r] = Start(writeNode'[r])
      <3>1. CASE r = q
        BY <1>7, <3>1, StartType
      <3>2. CASE r # q
        BY <1>7, <1>9, <3>2 DEF IndInv, NodeInv, Initialised
      <3> QED
        BY <3>1, <3>2
    <2> QED
      BY <1>2, <2>1, <2>2 DEF NodeInv, Initialised
  <1>11. SampleInv'
    <2> SUFFICES ASSUME NEW r \in Tracks
                 PROVE  /\ offeredUpTo'[r] <= totalBytesWritten'[r]
                        /\ readPosition'[r] <= Len(committed'[r])
                        /\ \A i \in 1 .. Len(committed'[r]) :
                             /\ committed'[r][i].from < committed'[r][i].to
                             /\ committed'[r][i].to <= offeredUpTo'[r]
                        /\ \A i, j \in 1 .. Len(committed'[r]) :
                             i < j => committed'[r][i].to <= committed'[r][j].from
      BY DEF SampleInv
    <2>1. CASE r = q
      BY <1>7, <1>8, <2>1
    <2>2. CASE r # q
      BY <1>7, <1>8, <2>2 DEF IndInv, SampleInv
    <2> QED
      BY <2>1, <2>2
  <1>12. ReadInv' /\ FirstInv'
    <2>1. ASSUME NEW r \in Tracks
          PROVE  /\ readNode'[r] <= writeNode'[r]
                 /\ Start(readNode'[r]) <= offeredUpTo'[r]
                 /\ \A i \in readPosition'[r] + 1 .. Len(committed'[r]) :
                      Start(readNode'[r]) <= committed'[r][i].from
                 /\ firstNode'[r] <= readNode'[r]
                 /\ \A i \in 1 .. Len(committed'[r]) :
                      Start(firstNode'[r]) <= committed'[r][i].from
      <3>1. CASE r = q
        <4>1. Start(0) = 0 /\ Len(committed'[q]) = 0
          BY <1>8, StartType
        <4> QED
          BY <1>7, <1>8, <3>1, <4>1
      <3>2. CASE r # q
        BY <1>7, <1>8, <3>2 DEF IndInv, ReadInv, FirstInv
      <3> QED
        BY <3>1, <3>2
    <2> QED
      BY <1>2, <2>1, SentinelAssumption DEF ReadInv, FirstInv
  <1> QED
    BY <1>5, <1>6, <1>7, <1>8, <1>9, <1>10, <1>11, <1>12 DEF EmptiedTypes, blocks, f, e

LEMMA ResetInd ==
  ASSUME IndInv, CountInv, NEW q \in Tracks, readNode[q] = firstNode[q], Reset(q)
  PROVE  IndInv' /\ CountInv' /\ (NoBlockLost => NoBlockLost')
  <1> DEFINE blocks == BlocksOf(q, firstNode[q], NodesEnd(q))
             count == allocatedCount - Len(blocks)
             pool == Trimmed(availableAllocations \o blocks, count)
  <1>1. /\ availableAllocations' = pool /\ allocatedCount' = count
        /\ owner' = Returned(blocks)
        /\ created' = {b \in created : owner'[b] # NoOwner \/ \E i \in DOMAIN pool : pool[i] = b}
        /\ keyframeRequired' = [keyframeRequired EXCEPT ![q] = TRUE]
        /\ UNCHANGED <<content, appendingTo, consumer>>
    BY DEF Reset, Returned
  <1>2. Emptied(q)
    BY DEF Reset, Idle, NoLoader, Emptied, consumer
  <1>3. Clears(q, {}, blocks)
    BY <1>1 DEF Reset, Clears
  <1>4. /\ HandedOut(blocks) /\ EmptiedTypes
        /\ NodeInv' /\ SampleInv' /\ ReadInv' /\ FirstInv'
        /\ UnreadBlocksOwned' /\ BytesInv' /\ (NoBlockLost => NoBlockLost')
    BY <1>2, <1>3, EmptiedKeeps
  <1>5. TypeOK
    BY DEF IndInv
  <1> HIDE DEF blocks
  <1>6. CountInv' /\ count \in Nat
    BY <1>1, <1>4, <1>5, CountReturned
  <1>7. pool = << >>
    BY <1>6 DEF Trimmed
  <1> HIDE DEF count, pool
  <1>8. owner' \in [Blocks -> Owner \cup {NoOwner}]
        /\ \A b \in Blocks : owner'[b] # NoOwner => owner'[b] = owner[b]
    BY <1>1, <1>4, <1>5, ReturnedIs
  <1>9. PoolInv'
    <2>1. availableAllocations' = << >>
      BY <1>1, <1>7
    <2>2. ASSUME NEW b \in Blocks, owner'[b] # NoOwner PROVE b \in created'
      BY <1>1, <1>8, <2>2 DEF IndInv, PoolInv
    <2> QED
      BY <2>1, <2>2 DEF PoolInv, PoolSound
  <1>10. TypeOK'
    <2>1. availableAllocations' \in Seq(Blocks) /\ allocatedCount' \in Int
      BY <1>1, <1>6, <1>7
    <2>2. created' \in SUBSET Blocks
      BY <1>1, <1>5 DEF TypeOK
    <2>3. keyframeRequired' \in [Tracks -> BOOLEAN]
      BY <1>1, <1>5 DEF TypeOK
    <2> QED
      BY <1>1, <1>4, <1>5, <1>8, <2>1, <2>2, <2>3 DEF EmptiedTypes, TypeOK, consumer
  <1> QED
    BY <1>4, <1>6, <1>9, <1>10 DEF IndInv

(* Everything the reader has not reached is taken back: the track is empty.*)
LEMMA AllUpstreamInd ==
  ASSUME IndInv, CountInv, NEW q \in Tracks, readNode[q] = firstNode[q],
         DiscardUpstream(q, 0)
  PROVE  IndInv' /\ CountInv' /\ (NoBlockLost => NoBlockLost')
  <1> DEFINE blocks == BlocksOf(q, firstNode[q], NodesEnd(q))
  <1>1. /\ reading = NoTrack /\ appendingTo = NoTrack /\ 0 \in readPosition[q] .. Len(committed[q])
        /\ committed' = [committed EXCEPT ![q] = SubSeq(committed[q], 1, 0)]
        /\ totalBytesWritten' = [totalBytesWritten EXCEPT ![q] = 0]
        /\ offeredUpTo' = [offeredUpTo EXCEPT ![q] = 0]
        /\ Release(blocks) /\ allocation' = Cleared(q, {})
        /\ firstNode' = [firstNode EXCEPT ![q] = 0]
        /\ readNode' = [readNode EXCEPT ![q] = 0]
        /\ writeNode' = [writeNode EXCEPT ![q] = 0]
        /\ UNCHANGED <<content, readPosition, keyframeRequired, appendingTo, consumer>>
    BY DEF DiscardUpstream, Idle, NoLoader, IndInv, TypeOK
  <1>2. Emptied(q)
    <2>1. SubSeq(committed[q], 1, 0) = << >>
      BY SubSeqEmpty
    <2>2. readPosition[q] = 0 /\ readPosition \in [Tracks -> Nat]
      BY <1>1, QueuedFacts DEF IndInv, TypeOK
    <2>3. readPosition' = [readPosition EXCEPT ![q] = 0]
      BY <1>1, <2>2
    <2> QED
      BY <1>1, <2>1, <2>3 DEF Emptied, consumer
  <1>3. Clears(q, {}, blocks)
    BY <1>1 DEF Clears, Release, Returned
  <1>4. /\ HandedOut(blocks) /\ EmptiedTypes
        /\ NodeInv' /\ SampleInv' /\ ReadInv' /\ FirstInv'
        /\ UnreadBlocksOwned' /\ BytesInv' /\ (NoBlockLost => NoBlockLost')
    BY <1>2, <1>3, EmptiedKeeps
  <1>5. TypeOK /\ PoolInv
    BY DEF IndInv
  <1> HIDE DEF blocks
  <1>6. /\ owner' = Returned(blocks) /\ allocatedCount' = allocatedCount - Len(blocks)
        /\ availableAllocations' \in Seq(Blocks) /\ allocatedCount' \in Int
        /\ created' = created /\ PoolInv'
    BY <1>1, <1>4, <1>5, ReleaseEffect
  <1>7. CountInv' /\ owner' \in [Blocks -> Owner \cup {NoOwner}]
    BY <1>4, <1>5, <1>6, CountReturned, ReturnedIs
  <1>8. TypeOK'
    BY <1>1, <1>4, <1>5, <1>6, <1>7 DEF EmptiedTypes, TypeOK, consumer
  <1> QED
    BY <1>4, <1>6, <1>7, <1>8 DEF IndInv

(* The queue keeps k samples, and with them the nodes up to n.             *)
LEMMA SomeUpstreamInd ==
  ASSUME IndInv, CountInv, NEW q \in Tracks, readNode[q] = firstNode[q],
         NEW k \in 1 .. Len(committed[q]), DiscardUpstream(q, k)
  PROVE  IndInv' /\ CountInv' /\ (NoBlockLost => NoBlockLost')
  <1> DEFINE f == firstNode[q]
             w == writeNode[q]
             e == NodesEnd(q)
             len == Len(committed[q])
             upTo == committed[q][k].to
             total == totalBytesWritten[q]
  <1>1. /\ k \in Nat /\ k # 0 /\ len \in Nat /\ k <= len /\ k \in 1 .. len
        /\ upTo \in Nat /\ Start(f) < upTo /\ upTo # 0 /\ upTo <= total /\ total \in Nat
        /\ Start(f) \in Nat /\ f \in Nat /\ w \in Nat /\ w \in Nodes /\ f <= w
    <2>1. len \in Nat /\ total \in Nat /\ offeredUpTo[q] \in Nat /\ offeredUpTo[q] <= total
          /\ Start(f) \in Nat /\ w \in Nodes
      BY QueuedFacts
    <2>2. f \in Nat /\ w \in Nat /\ f <= w
      BY NodeOrder
    <2>3. /\ upTo \in Nat /\ committed[q][k].from \in Nat /\ committed[q][k].from < upTo
          /\ upTo <= offeredUpTo[q] /\ Start(f) <= committed[q][k].from
      BY QueuedFacts
    <2> HIDE DEF upTo, f, total, w, len
    <2>4. k \in 1 .. len
      BY DEF len
    <2> QED
      BY <2>1, <2>2, <2>3, <2>4
  <1>2. PICK n \in f .. MaxNodes :
          /\ upTo <= EndPosition(n)
          /\ n = f \/ upTo > Start(n)
          /\ Release(LaterBlocks(q, n))
          /\ allocation' = Cleared(q, 0 .. n)
          /\ writeNode' = [writeNode EXCEPT ![q] = IF upTo = EndPosition(n) THEN n + 1 ELSE n]
          /\ UNCHANGED <<firstNode, readNode>>
    BY <1>1 DEF DiscardUpstream
  <1>3. /\ reading = NoTrack /\ appendingTo = NoTrack /\ k \in readPosition[q] .. len
        /\ committed' = [committed EXCEPT ![q] = SubSeq(committed[q], 1, k)]
        /\ totalBytesWritten' = [totalBytesWritten EXCEPT ![q] = upTo]
        /\ offeredUpTo' = [offeredUpTo EXCEPT ![q] = upTo]
        /\ UNCHANGED <<content, readPosition, keyframeRequired, appendingTo, consumer>>
    BY <1>1 DEF DiscardUpstream, Idle, NoLoader, IndInv, TypeOK
  <1> HIDE DEF f, w, e, len, upTo, total
  <1>4. /\ n \in Nat /\ n \in Nodes /\ f <= n /\ MaxNodes \in Nat
        /\ Start(n) \in Nat /\ EndPosition(n) \in Nat /\ EndPosition(n) = Start(n + 1)
        /\ Start(n) < upTo /\ n <= w
    <2>1. n \in Nat /\ n \in Nodes /\ f <= n /\ MaxNodes \in Nat
      BY <1>1, BoundsAssumption DEF Nodes
    <2>2. Start(n) \in Nat /\ EndPosition(n) \in Nat /\ EndPosition(n) = Start(n + 1)
      BY <2>1, StartType
    <2>3. Start(n) < upTo
      BY <1>1, <1>2, <2>2
    <2>4. n <= w
      BY <1>1, <2>1, <2>2, <2>3, WrittenNode DEF w, total
    <2> QED
      BY <2>1, <2>2, <2>3, <2>4
  <1>5. /\ \A m \in Nodes : /\ f <= m /\ m < w => Initialised(q, m)
                            /\ w < m \/ m < f => ~Initialised(q, m)
        /\ Start(w) <= total /\ total < EndPosition(w)
        /\ Initialised(q, w) \/ total = Start(w)
    BY DEF IndInv, NodeInv, f, w, total
  <1>6. Initialised(q, n) /\ (upTo = EndPosition(n) => n < w)
    <2>1. CASE n = w
      BY <1>1, <1>4, <1>5, <2>1
    <2>2. CASE n # w
      BY <1>1, <1>4, <1>5, <2>2
    <2> QED
      BY <2>1, <2>2
  <1>7. n + 1 \in Nat /\ e \in Nat /\ NotKept(q, 0 .. n, n + 1, e)
    <2>1. /\ e \in Nat /\ e <= MaxNodes + 1
          /\ \A m \in Nodes : Initialised(q, m) <=> f <= m /\ m < e
      BY NodesEndIs DEF e, f
    <2>2. n + 1 <= e
      BY <1>4, <1>6, <2>1
    <2>3. \A m \in n + 1 .. e - 1 : m \in Nodes
      BY <1>4, <2>1 DEF Nodes
    <2>4. \A m \in Nodes : m \in Nat
      BY DEF Nodes
    <2>5. \A m \in Nodes : Initialised(q, m) /\ m \notin 0 .. n <=> m \in n + 1 .. e - 1
      BY <1>1, <1>4, <2>1, <2>4
    <2> QED
      BY <1>4, <2>1, <2>2, <2>3, <2>5 DEF NotKept
  <1> DEFINE blocks == BlocksOf(q, n + 1, e)
  <1>8. NotKeptAre(q, 0 .. n, blocks)
    BY <1>7, ClearingRun
  <1>9. TypeOK /\ PoolInv /\ HandedOut(blocks) /\ Release(blocks)
    BY <1>2, <1>8 DEF IndInv, NotKeptAre, LaterBlocks, e
  <1>10. /\ owner' = Returned(blocks) /\ allocatedCount' = allocatedCount - Len(blocks)
         /\ availableAllocations' \in Seq(Blocks) /\ allocatedCount' \in Int
         /\ created' = created /\ PoolInv'
    <2> HIDE DEF blocks
    <2> QED
      BY <1>9, ReleaseEffect
  <1>11. CountInv' /\ owner' \in [Blocks -> Owner \cup {NoOwner}]
    <2> HIDE DEF blocks
    <2> QED
      BY <1>9, <1>10, CountReturned, ReturnedIs
  <1>12. /\ totalBytesWritten' \in [Tracks -> Nat] /\ totalBytesWritten'[q] = upTo
         /\ offeredUpTo' \in [Tracks -> Nat] /\ offeredUpTo'[q] = upTo
         /\ \A r \in Tracks : r # q => /\ totalBytesWritten'[r] = totalBytesWritten[r]
                                       /\ offeredUpTo'[r] = offeredUpTo[r]
    BY <1>1, <1>3, <1>9 DEF TypeOK
  <1>13. /\ UnreadBlocksOwned' /\ BytesInv' /\ (NoBlockLost => NoBlockLost')
    <2>1. Clears(q, 0 .. n, blocks)
      BY <1>2, <1>3, <1>10 DEF Clears
    <2>2. ASSUME NEW r \in Tracks
          PROVE  /\ totalBytesWritten'[r] <= totalBytesWritten[r]
                 /\ totalBytesWritten'[r] \in Nat
                 /\ r # q => readNode'[r] = readNode[r]
      <3>1. totalBytesWritten[r] \in Nat
        BY QueuedFacts
      <3>2. CASE r = q
        BY <1>1, <1>12, <3>2 DEF total
      <3>3. CASE r # q
        BY <1>2, <1>12, <3>1, <3>3
      <3> QED
        BY <3>2, <3>3
    <2> QED
      BY <1>7, <2>1, <2>2, ClearingKeeps
  <1> HIDE DEF blocks
  <1>14. /\ writeNode' \in [Tracks -> Nodes]
         /\ \A r \in Tracks : r # q => writeNode'[r] = writeNode[r]
         /\ \/ writeNode'[q] = n /\ upTo < EndPosition(n)
            \/ writeNode'[q] = n + 1 /\ upTo = Start(n + 1)
    <2>1. writeNode \in [Tracks -> Nodes]
      BY <1>9 DEF TypeOK
    <2>2. upTo = EndPosition(n) => n + 1 \in Nodes
      BY <1>1, <1>4, <1>6 DEF Nodes
    <2> QED
      BY <1>1, <1>2, <1>4, <2>1, <2>2
  <1>15. /\ committed' \in [Tracks -> Seq(Extent)]
         /\ \A r \in Tracks : r # q => committed'[r] = committed[r]
         /\ Len(committed'[q]) = k
         /\ \A i \in 1 .. k : committed'[q][i] = committed[q][i] /\ i \in 1 .. len
    <2> DEFINE none == 0
    <2>1. k <= Len(committed[q]) /\ none + 1 = 1 /\ none <= k /\ none \in Nat
      BY <1>1 DEF len
    <2>2. \A i \in 1 .. k : none + i = i /\ i \in 1 .. k - none /\ i \in 1 .. len
      BY <1>1
    <2>3. k - none = k
      BY <1>1
    <2> HIDE DEF none
    <2>4. committed' = [committed EXCEPT ![q] = SubSeq(committed[q], none + 1, k)]
      BY <1>3, <2>1
    <2>5. /\ committed' \in [Tracks -> Seq(Extent)]
          /\ \A r \in Tracks : r # q => committed'[r] = committed[r]
          /\ Len(committed'[q]) = k - none
          /\ \A i \in 1 .. k - none : committed'[q][i] = committed[q][none + i]
      <3>1. k \in Nat /\ none \in Nat /\ none <= k /\ k <= Len(committed[q])
        BY <1>1, <2>1
      <3>2. /\ committed' \in [Tracks -> Seq(Extent)]
            /\ \A r \in Tracks : r # q => committed'[r] = committed[r]
            /\ Len(committed'[q]) = k - none /\ k - none \in Nat
            /\ \A i \in 1 .. k - none : committed'[q][i] = committed[q][none + i]
                                       /\ none + i \in 1 .. Len(committed[q])
        BY <2>4, <3>1, SamplesCut
      <3> QED
        BY <3>2
    <2> QED
      BY <2>2, <2>3, <2>5
  <1>16. /\ allocation' \in [Tracks -> [Nodes -> Blocks \cup {NoBlock}]]
         /\ \A r \in Tracks : r # q => allocation'[r] = allocation[r]
         /\ \A m \in Nodes :
              allocation'[q][m] = IF m \in 0 .. n THEN allocation[q][m] ELSE NoBlock
    BY <1>2, <1>9, ClearedIs
  <1>17. TypeOK'
    BY <1>2, <1>3, <1>9, <1>10, <1>11, <1>12, <1>14, <1>15, <1>16 DEF TypeOK, consumer
  <1>18. NodeInv'
    <2>1. ASSUME NEW m \in Nodes
          PROVE  /\ f <= m /\ m < writeNode'[q] => allocation'[q][m] # NoBlock
                 /\ writeNode'[q] < m \/ m < f => allocation'[q][m] = NoBlock
      <3>1. m \in Nat
        BY DEF Nodes
      <3>2. CASE m <= n
        <4>1. allocation'[q][m] = allocation[q][m]
          BY <1>4, <1>16, <3>1, <3>2
        <4>2. f <= m => allocation[q][m] # NoBlock
          BY <1>1, <1>4, <1>5, <1>6, <3>1, <3>2 DEF Initialised
        <4>3. m < f => allocation[q][m] = NoBlock
          BY <1>5 DEF Initialised
        <4>4. ~(writeNode'[q] < m)
          BY <1>4, <1>14, <3>1, <3>2
        <4> QED
          BY <4>1, <4>2, <4>3, <4>4
      <3>3. CASE n < m
        <4>1. allocation'[q][m] = NoBlock
          BY <1>4, <1>16, <3>1, <3>3
        <4>2. ~(m < writeNode'[q])
          BY <1>4, <1>14, <3>1, <3>3
        <4> QED
          BY <4>1, <4>2
      <3> QED
        BY <1>4, <3>1, <3>2, <3>3
    <2>2. /\ Start(writeNode'[q]) <= upTo /\ upTo < EndPosition(writeNode'[q])
          /\ allocation'[q][writeNode'[q]] # NoBlock \/ upTo = Start(writeNode'[q])
      <3>1. CASE writeNode'[q] = n /\ upTo < EndPosition(n)
        <4>1. allocation'[q][n] # NoBlock
          BY <1>4, <1>6, <1>16 DEF Initialised
        <4> QED
          BY <1>1, <1>4, <3>1, <4>1
      <3>2. CASE writeNode'[q] = n + 1 /\ upTo = Start(n + 1)
        <4>1. Start(n + 1) < EndPosition(n + 1)
          BY <1>4, StartType
        <4> QED
          BY <1>1, <3>2, <4>1
      <3> QED
        BY <1>14, <3>1, <3>2
    <2>3. ASSUME NEW r \in Tracks, r # q
          PROVE  /\ \A m \in Nodes :
                      /\ firstNode[r] <= m /\ m < writeNode'[r] => allocation'[r][m] # NoBlock
                      /\ writeNode'[r] < m \/ m < firstNode[r] => allocation'[r][m] = NoBlock
                 /\ Start(writeNode'[r]) <= totalBytesWritten'[r]
                 /\ totalBytesWritten'[r] < EndPosition(writeNode'[r])
                 /\ \/ allocation'[r][writeNode'[r]] # NoBlock
                    \/ totalBytesWritten'[r] = Start(writeNode'[r])
      <3>1. /\ writeNode'[r] = writeNode[r] /\ allocation'[r] = allocation[r]
            /\ totalBytesWritten'[r] = totalBytesWritten[r]
        BY <1>12, <1>14, <1>16, <2>3
      <3>2. \A m \in Nodes :
              /\ firstNode[r] <= m /\ m < writeNode[r] => allocation[r][m] # NoBlock
              /\ writeNode[r] < m \/ m < firstNode[r] => allocation[r][m] = NoBlock
        BY DEF IndInv, NodeInv, Initialised
      <3>3. /\ Start(writeNode[r]) <= totalBytesWritten[r]
            /\ totalBytesWritten[r] < EndPosition(writeNode[r])
            /\ allocation[r][writeNode[r]] # NoBlock \/ totalBytesWritten[r] = Start(writeNode[r])
        BY DEF IndInv, NodeInv, Initialised
      <3> QED
        BY <3>1, <3>2, <3>3
    <2> QED
      BY <1>2, <1>3, <1>12, <2>1, <2>2, <2>3 DEF NodeInv, Initialised, f
  <1>19. /\ \A i \in 1 .. k :
              /\ committed'[q][i].from < committed'[q][i].to
              /\ committed'[q][i].to <= upTo
              /\ Start(f) <= committed'[q][i].from
         /\ \A i, j \in 1 .. k : i < j => committed'[q][i].to <= committed'[q][j].from
    <2>1. ASSUME NEW i \in 1 .. k
          PROVE  /\ committed[q][i].from < committed[q][i].to
                 /\ committed[q][i].to <= upTo
                 /\ Start(f) <= committed[q][i].from
      <3>1. i \in 1 .. Len(committed[q]) /\ k \in 1 .. Len(committed[q])
        BY <1>1, <1>15 DEF len
      <3>2. /\ committed[q][i].from < committed[q][i].to /\ committed[q][i].to \in Nat
            /\ Start(f) <= committed[q][i].from
            /\ committed[q][k].from \in Nat /\ committed[q][k].from < committed[q][k].to
        BY <3>1, QueuedFacts DEF f
      <3>3. CASE i = k
        BY <1>1, <3>2, <3>3 DEF upTo
      <3>4. CASE i < k
        <4>1. committed[q][i].to <= committed[q][k].from
          BY <3>1, <3>4, QueuedFacts
        <4>2. upTo = committed[q][k].to /\ upTo \in Nat
          BY <1>1 DEF upTo
        <4>3. committed[q][i].to <= upTo
          BY <3>2, <4>1, <4>2
        <4> QED
          BY <3>2, <4>3
      <3> QED
        BY <1>1, <3>2, <3>3, <3>4
    <2>2. ASSUME NEW i \in 1 .. k, NEW j \in 1 .. k, i < j
          PROVE  committed[q][i].to <= committed[q][j].from
      BY <1>15, <2>2, QueuedFacts DEF len
    <2> QED
      BY <1>15, <2>1, <2>2
  <1>20. SampleInv'
    <2> SUFFICES ASSUME NEW r \in Tracks
                 PROVE  /\ offeredUpTo'[r] <= totalBytesWritten'[r]
                        /\ readPosition[r] <= Len(committed'[r])
                        /\ \A i \in 1 .. Len(committed'[r]) :
                             /\ committed'[r][i].from < committed'[r][i].to
                             /\ committed'[r][i].to <= offeredUpTo'[r]
                        /\ \A i, j \in 1 .. Len(committed'[r]) :
                             i < j => committed'[r][i].to <= committed'[r][j].from
      BY <1>3 DEF SampleInv
    <2>1. CASE r = q
      <3>1. readPosition[q] <= k
        BY <1>3, QueuedFacts
      <3> QED
        BY <1>1, <1>12, <1>15, <1>19, <2>1, <3>1
    <2>2. CASE r # q
      BY <1>12, <1>15, <2>2 DEF IndInv, SampleInv
    <2> QED
      BY <2>1, <2>2
  <1>21. ReadInv' /\ FirstInv'
    <2>1. ASSUME NEW r \in Tracks
          PROVE  /\ readNode[r] <= writeNode'[r]
                 /\ Start(readNode[r]) <= offeredUpTo'[r]
                 /\ \A i \in readPosition[r] + 1 .. Len(committed'[r]) :
                      Start(readNode[r]) <= committed'[r][i].from
                 /\ firstNode[r] <= readNode[r]
                 /\ \A i \in 1 .. Len(committed'[r]) :
                      Start(firstNode[r]) <= committed'[r][i].from
      <3>1. CASE r = q
        <4>1. readNode[q] = f
          BY DEF f
        <4>2. f <= writeNode'[q]
          BY <1>1, <1>4, <1>14
        <4>3. \A i \in readPosition[q] + 1 .. Len(committed'[q]) : i \in 1 .. k
          <5>1. readPosition[q] \in Nat /\ Len(committed'[q]) = k
            BY <1>15, QueuedFacts
          <5> QED
            BY <1>1, <5>1
        <4> QED
          BY <1>1, <1>12, <1>15, <1>19, <3>1, <4>1, <4>2, <4>3 DEF f
      <3>2. CASE r # q
        BY <1>12, <1>14, <1>15, <3>2 DEF IndInv, ReadInv, FirstInv
      <3> QED
        BY <3>1, <3>2
    <2> QED
      BY <1>2, <1>3, <2>1, SentinelAssumption DEF ReadInv, FirstInv, consumer
  <1> QED
    BY <1>10, <1>11, <1>13, <1>17, <1>18, <1>20, <1>21 DEF IndInv

-----------------------------------------------------------------------------
(* A node that is given a block had none before, so no block named it its  *)
(* owner; and nodes keep their blocks when these go back to the pool.      *)
LEMMA PreAppendLosesNone ==
  ASSUME IndInv, NoBlockLost, NEW q \in Tracks, PreAppend(q) PROVE NoBlockLost'
  <1> DEFINE w == writeNode[q]
  <1>1. CASE Initialised(q, w)
    BY <1>1 DEF PreAppend, NoBlockLost, InUse, allocator
  <1>2. CASE ~Initialised(q, w)
    <2>1. PICK b \in Blocks : Allocate(b, q, w) /\ allocation' = [allocation EXCEPT ![q][w] = b]
      BY <1>2 DEF PreAppend
    <2>2. w \in Nodes
      BY DEF IndInv, TypeOK
    <2> HIDE DEF w
    <2>3. owner' = [owner EXCEPT ![b] = <<q, w>>]
      BY <2>1, <2>2, AllocateEffect DEF IndInv
    <2>4. /\ allocation'[q][w] = b
          /\ \A r \in Tracks, n \in Nodes :
               r # q \/ n # w => allocation'[r][n] = allocation[r][n]
      BY <2>1, <2>2 DEF IndInv, TypeOK
    <2>5. ASSUME NEW c \in Blocks, owner'[c] # NoOwner
          PROVE  allocation'[owner'[c][1]][owner'[c][2]] = c
      <3>1. CASE c = b
        <4>1. owner'[c] = <<q, w>>
          BY <2>3, <3>1 DEF IndInv, TypeOK
        <4> QED
          BY <2>4, <3>1, <4>1
      <3>2. CASE c # b
        <4>1. owner'[c] = owner[c] /\ owner[c] \in Owner
          BY <2>3, <2>5, <3>2 DEF IndInv, TypeOK
        <4>2. PICK r \in Tracks, n \in Nodes : owner[c] = <<r, n>>
          BY <4>1 DEF Owner
        <4>3. allocation[r][n] = c
          BY <2>5, <4>1, <4>2 DEF NoBlockLost, InUse
        <4>4. r # q \/ n # w
          BY <1>2, <4>3, SentinelAssumption DEF Initialised, w
        <4> QED
          BY <2>4, <4>1, <4>2, <4>3, <4>4
      <3> QED
        BY <3>1, <3>2
    <2> QED
      BY <2>5 DEF NoBlockLost, InUse
  <1> QED
    BY <1>1, <1>2

LEMMA ReleaseLosesNone ==
  ASSUME IndInv, NoBlockLost, ReleaseReadNode PROVE NoBlockLost'
  <1>1. allocation' = allocation
    BY DEF ReleaseReadNode
  <1>2. \A b \in Blocks : owner'[b] # NoOwner => owner'[b] = owner[b]
    BY DEF ReleaseReadNode, Release
  <1> QED
    BY <1>1, <1>2 DEF NoBlockLost, InUse

LEMMA NextLosesNone == IndInv /\ NoBlockLost /\ [Next]_vars => NoBlockLost'
  <1> SUFFICES ASSUME IndInv, NoBlockLost, [Next]_vars PROVE NoBlockLost'
    OBVIOUS
  <1>1. CASE \E q \in Tracks : PreAppend(q)
    BY <1>1, PreAppendLosesNone
  <1>2. CASE ReleaseReadNode
    BY <1>2, ReleaseLosesNone
  <1>3. UNCHANGED <<owner, allocation>> => NoBlockLost'
    BY DEF NoBlockLost, InUse
  <1>4. CASE \/ \E k \in 1 .. AllocationLength : WriteBytes(k)
             \/ AppendNothing
             \/ \E q \in Tracks, from, to \in 0 .. MaxBytes, key \in BOOLEAN :
                  SampleMetadata(q, from, to, key)
    BY <1>3, <1>4 DEF WriteBytes, AppendNothing, SampleMetadata, allocator, nodes
  <1>5. CASE (\E q \in Tracks : Read(q)) \/ CopyChunk \/ Delivered \/ UNCHANGED vars
    BY <1>3, <1>5 DEF Read, CopyChunk, Delivered, vars, allocator, nodes
  <1> QED
    BY <1>1, <1>2, <1>4, <1>5 DEF Next, LoaderNext, ConsumerNext

-----------------------------------------------------------------------------
(* All public operations together.                                         *)
UnreadInv == IndInv /\ CountInv /\ NoBlockLost

LEMMA UnreadStep == UnreadInv /\ [UnreadNext]_vars => UnreadInv'
  <1> SUFFICES ASSUME IndInv, CountInv, NoBlockLost, [UnreadNext]_vars PROVE UnreadInv'
    BY DEF UnreadInv
  <1>1. CASE [Next]_vars
    BY <1>1, NextInd, CountNext, NextLosesNone DEF UnreadInv
  <1>2. CASE \E q \in Tracks : readNode[q] = firstNode[q] /\ PublicOperation(q)
    <2>1. PICK q \in Tracks :
            /\ readNode[q] = firstNode[q]
            /\ \/ Rewind(q)
               \/ \E d \in 1 .. Len(committed[q]) : DiscardDownstream(q, d)
               \/ Reset(q)
               \/ \E k \in 0 .. Len(committed[q]) : DiscardUpstream(q, k)
      BY <1>2 DEF PublicOperation
    <2>2. CASE Rewind(q)
      <3>1. IndInv'
        BY <2>1, <2>2, RewindInd
      <3>2. CountInv' /\ NoBlockLost'
        BY <2>2 DEF Rewind, allocator, CountInv, AllocatedCountExact, NoBlockLost, InUse
      <3> QED
        BY <3>1, <3>2 DEF UnreadInv
    <2>3. CASE \E d \in 1 .. Len(committed[q]) : DiscardDownstream(q, d)
      BY <2>1, <2>3, DiscardDownstreamInd DEF UnreadInv
    <2>4. CASE Reset(q)
      BY <2>1, <2>4, ResetInd DEF UnreadInv
    <2>5. CASE \E k \in 0 .. Len(committed[q]) : DiscardUpstream(q, k)
      <3>1. PICK k \in 0 .. Len(committed[q]) : DiscardUpstream(q, k)
        BY <2>5
      <3>2. CASE k = 0
        BY <2>1, <3>1, <3>2, AllUpstreamInd DEF UnreadInv
      <3>3. CASE k # 0
        <4>1. k \in 1 .. Len(committed[q])
          BY <3>3, QueuedFacts
        <4> QED
          BY <2>1, <3>1, <4>1, SomeUpstreamInd DEF UnreadInv
      <3> QED
        BY <3>2, <3>3
    <2> QED
      BY <2>1, <2>2, <2>3, <2>4, <2>5
  <1> QED
    BY <1>1, <1>2 DEF UnreadNext

LEMMA UnreadInvariant == UnreadSpec => []UnreadInv
  <1>1. Init => UnreadInv
    <2> SUFFICES ASSUME Init PROVE UnreadInv
      OBVIOUS
    <2>1. InUse = {}
      BY DEF Init, InUse
    <2>2. NoBlockLost
      BY <2>1 DEF NoBlockLost
    <2> QED
      BY <2>2, InitInd, InitCount DEF UnreadInv
  <1> QED
    BY <1>1, UnreadStep, PTL DEF UnreadSpec

(* In the four theorems that follow, a queue is discarded, rewound, reset  *)
(* or taken back only while its read node is its first one, so that none of*)
(* its nodes was read to its end or passed; it is read and written at any  *)
(* moment. Without that they do not hold: a node read to its end has given *)
(* back its block already (readData), which the operations do not look at. *)

(* Types, owners and pool are as they should be with every public method   *)
(* of a queue, under that restriction.                                     *)
THEOREM UnreadTypeCorrect == UnreadSpec => [](TypeOK /\ UnreadBlocksOwned /\ PoolSound)
  BY UnreadInvariant, PTL DEF UnreadInv, IndInv, PoolInv

(* Under it, discarding, resetting and taking back return every block that *)
(* they take off the list, once: getTotalBytesAllocated is exact.          *)
THEOREM UnreadCountExact == UnreadSpec => []AllocatedCountExact
  BY UnreadInvariant, PTL DEF UnreadInv, CountInv

(* Under it, the bytes of samples not yet read stay as they were written,  *)
(* also when samples before or after them are discarded.                   *)
THEOREM UnreadBytes == UnreadSpec => []UnreadBytesIntact
  BY UnreadInvariant, IndIntact, PTL DEF UnreadInv

(* Under it, no block is lost: the queue it was handed to can still give   *)
(* it back.                                                                *)
THEOREM UnreadLosesNone == UnreadSpec => []NoBlockLost
  BY UnreadInvariant, PTL DEF UnreadInv
=============================================================================
