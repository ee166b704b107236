---------------------------- MODULE SampleQueue ----------------------------
(***************************************************************************)
(* library/source/SampleQueue.java with library/network/DefaultAllocator   *)
(* .java: the bytes of every track, in allocations of one size that all    *)
(* tracks take from one pool. The loading thread writes and commits        *)
(* samples while the transcoding thread reads them. Node n of a track is   *)
(* the one that starts at position n * AllocationLength; its successor is  *)
(* node n + 1, which exists once node n is initialised.                    *)
(*                                                                         *)
(* A byte is named by the track and the position it was written for. The   *)
(* metadata queue is the list it implements (SampleList): committed[q] are *)
(* the byte ranges of the queued samples.                                  *)
(***************************************************************************)
EXTENDS Integers, Sequences, FiniteSets

CONSTANTS
  Tracks,            (* The tracks that have a queue.                      *)
  Blocks,            (* The memory blocks the allocator can create.        *)
  NoBlock, NoOwner, NoByte, NoTrack,
  AllocationLength,  (* Bytes in a block.                                  *)
  MaxNodes,          (* Bound: nodes a track uses.                         *)
  MaxBytes           (* Bound: bytes the loader writes to a track.         *)

ASSUME SentinelAssumption ==
  /\ NoBlock \notin Blocks /\ NoTrack \notin Tracks
  /\ NoOwner \notin Tracks \X Nat /\ NoByte \notin Tracks \X Nat
ASSUME LengthAssumption == AllocationLength \in Nat \ {0}
ASSUME BoundsAssumption == MaxNodes \in Nat /\ MaxBytes \in Nat

VARIABLES
  (* DefaultAllocator: the pool, how many blocks it counts as handed out,  *)
  (* the blocks that exist; and, as history, whom each block was last      *)
  (* handed to, until it is released.                                      *)
  availableAllocations, allocatedCount, created, owner,
  (* The bytes in each block.                                              *)
  content,
  (* SampleQueue, per track.                                               *)
  allocation, firstNode, readNode, writeNode, totalBytesWritten,
  (* Metadata, per track: the queued samples' ranges, how many were read,  *)
  (* where the last offered sample ended, whether a keyframe is awaited.   *)
  committed, readPosition, offeredUpTo, keyframeRequired,
  (* The loading thread: the track it is about to append to, or NoTrack.   *)
  appendingTo,
  (* The transcoding thread: the track it is copying a sample of, the      *)
  (* bytes left to copy, those copied, and the samples it has received.    *)
  reading, position, end, out, delivered

allocator == <<availableAllocations, allocatedCount, created, owner>>
nodes == <<allocation, firstNode, readNode, writeNode, totalBytesWritten>>
metadata == <<committed, readPosition, offeredUpTo, keyframeRequired>>
consumer == <<reading, position, end, out, delivered>>
vars == <<allocator, content, nodes, metadata, appendingTo, consumer>>

Nodes == 0 .. MaxNodes
Start(n) == n * AllocationLength
EndPosition(n) == n * AllocationLength + AllocationLength

(* Whether node n of track q was initialised and not cleared since.        *)
Initialised(q, n) == allocation[q][n] # NoBlock

-----------------------------------------------------------------------------
(* DefaultAllocator                                                        *)

(* Seeded fault: a block taken from the pool stays in it.                  *)
PoolKept == availableAllocations

PoolAfterTaking == SubSeq(availableAllocations, 1, Len(availableAllocations) - 1)
CountAfterTaking == allocatedCount + 1

(* allocate(): the block added to the pool last, or a new one.             *)
Allocate(b, q, n) ==
  /\ allocatedCount' = CountAfterTaking
  /\ owner' = [owner EXCEPT ![b] = <<q, n>>]
  /\ IF availableAllocations # << >>
     THEN /\ b = availableAllocations[Len(availableAllocations)]
          /\ availableAllocations' = PoolAfterTaking
          /\ UNCHANGED created
     ELSE /\ b \in Blocks \ created
          /\ created' = created \cup {b}
          /\ UNCHANGED availableAllocations

(* release(): the pool takes back any block, whoever returns it.           *)
Release(blocks) ==
  /\ availableAllocations' = availableAllocations \o blocks
  /\ allocatedCount' = allocatedCount - Len(blocks)
  /\ owner' = [b \in Blocks |->
                 IF \E i \in DOMAIN blocks : blocks[i] = b THEN NoOwner ELSE owner[b]]
  /\ UNCHANGED created

-----------------------------------------------------------------------------
Init ==
  /\ availableAllocations = << >>
  /\ allocatedCount = 0
  /\ created = {}
  /\ owner = [b \in Blocks |-> NoOwner]
  /\ content = [b \in Blocks |-> [i \in 0 .. AllocationLength - 1 |-> NoByte]]
  /\ allocation = [q \in Tracks |-> [n \in Nodes |-> NoBlock]]
  /\ firstNode = [q \in Tracks |-> 0]
  /\ readNode = [q \in Tracks |-> 0]
  /\ writeNode = [q \in Tracks |-> 0]
  /\ totalBytesWritten = [q \in Tracks |-> 0]
  /\ committed = [q \in Tracks |-> << >>]
  /\ readPosition = [q \in Tracks |-> 0]
  /\ offeredUpTo = [q \in Tracks |-> 0]
  /\ keyframeRequired = [q \in Tracks |-> TRUE]
  /\ appendingTo = NoTrack
  /\ reading = NoTrack
  /\ position = 0
  /\ end = 0
  /\ out = << >>
  /\ delivered = [q \in Tracks |-> << >>]

-----------------------------------------------------------------------------
(* The loading thread                                                      *)

(* preAppend: the write node gets a block when it has none yet.            *)
PreAppend(q) ==
  /\ appendingTo = NoTrack
  /\ totalBytesWritten[q] < MaxBytes /\ writeNode[q] < MaxNodes
  /\ appendingTo' = q
  /\ IF Initialised(q, writeNode[q])
     THEN UNCHANGED <<allocator, allocation>>
     ELSE \E b \in Blocks :
            /\ Allocate(b, q, writeNode[q])
            /\ allocation' = [allocation EXCEPT ![q][writeNode[q]] = b]
  /\ UNCHANGED <<content, firstNode, readNode, writeNode, totalBytesWritten,
                 metadata, consumer>>

(* Seeded fault: every append moves on to the next node.                   *)
NextAfterAny(q, total) == writeNode[q] + 1

(* postAppend's write node: the next one when this one is full.            *)
NodeAfterAppend(q, total) ==
  IF total = EndPosition(writeNode[q]) THEN writeNode[q] + 1 ELSE writeNode[q]

(* The source fills at most the rest of the write node's block; postAppend *)
(* counts the bytes and leaves a full node.                                *)
WriteBytes(n) ==
  LET q == appendingTo
      from == totalBytesWritten[q]
      block == allocation[q][writeNode[q]]
      offset == from - Start(writeNode[q])
  IN  /\ q # NoTrack
      /\ from + n <= EndPosition(writeNode[q]) /\ from + n <= MaxBytes
      /\ content' = [content EXCEPT ![block] =
                       [i \in 0 .. AllocationLength - 1 |->
                          IF i \in offset .. offset + n - 1
                          THEN <<q, from + i - offset>> ELSE @[i]]]
      /\ totalBytesWritten' = [totalBytesWritten EXCEPT ![q] = from + n]
      /\ writeNode' = [writeNode EXCEPT ![q] = NodeAfterAppend(q, from + n)]
      /\ appendingTo' = NoTrack
      /\ UNCHANGED <<allocator, allocation, firstNode, readNode, metadata, consumer>>

(* sampleData() returns or throws because the input ended or failed: the   *)
(* write node keeps the block it may have been given.                      *)
AppendNothing ==
  /\ appendingTo # NoTrack
  /\ appendingTo' = NoTrack
  /\ UNCHANGED <<allocator, content, nodes, metadata, consumer>>

(* sampleMetadata: the bytes from .. to - 1, all written, are a sample;    *)
(* later ones may be written already. Until the first keyframe samples are *)
(* dropped, and their bytes belong to none.                                *)
SampleMetadata(q, from, to, key) ==
  /\ appendingTo = NoTrack
  /\ offeredUpTo[q] <= from /\ from < to /\ to <= totalBytesWritten[q]
  /\ offeredUpTo' = [offeredUpTo EXCEPT ![q] = to]
  /\ IF keyframeRequired[q] /\ ~key
     THEN UNCHANGED <<committed, keyframeRequired>>
     ELSE /\ committed' = [committed EXCEPT ![q] = Append(@, [from |-> from, to |-> to])]
          /\ keyframeRequired' = [keyframeRequired EXCEPT ![q] = FALSE]
  /\ UNCHANGED <<allocator, content, nodes, readPosition, appendingTo, consumer>>

-----------------------------------------------------------------------------
(* The transcoding thread                                                  *)

(* read(): the metadata queue yields the next sample, and advanceReadTo    *)
(* moves to the node that holds its first byte. Nodes it passes keep their *)
(* blocks.                                                                 *)
Read(q) ==
  /\ reading = NoTrack
  /\ readPosition[q] < Len(committed[q])
  /\ LET s == committed[q][readPosition[q] + 1]
     IN  /\ reading' = q
         /\ position' = s.from
         /\ end' = s.to
         /\ \E n \in Nodes :
              /\ n >= readNode[q] /\ s.from < EndPosition(n)
              /\ n = readNode[q] \/ s.from >= Start(n)
              /\ readNode' = [readNode EXCEPT ![q] = n]
  /\ out' = << >>
  /\ readPosition' = [readPosition EXCEPT ![q] = @ + 1]
  /\ UNCHANGED <<allocator, content, allocation, firstNode, writeNode, totalBytesWritten,
                 committed, offeredUpTo, keyframeRequired, appendingTo, delivered>>

(* Whether the copy has used up the read node.                             *)
AtNodeEnd(q) == position = EndPosition(readNode[q])

(* Seeded fault: each round writes to the start of the target.             *)
Overwritten(q, to) ==
  [i \in 1 .. to - position |->
     content[allocation[q][readNode[q]]][position + i - 1 - Start(readNode[q])]]

(* The target after a round that copies up to position `to`.               *)
Copied(q, to) ==
  out \o [i \in 1 .. to - position |->
            content[allocation[q][readNode[q]]][position + i - 1 - Start(readNode[q])]]

(* One round of readData: copies up to the sample's or the node's end.     *)
CopyChunk ==
  LET q == reading
      to == IF end < EndPosition(readNode[q]) THEN end ELSE EndPosition(readNode[q])
  IN  /\ q # NoTrack
      /\ position < end /\ ~AtNodeEnd(q)
      /\ out' = Copied(q, to)
      /\ position' = to
      /\ UNCHANGED <<allocator, content, nodes, metadata, appendingTo, reading, end, delivered>>

(* Seeded fault: the block is not returned.                                *)
NothingReturned(q) == << >>

ReadNodeBlock(q) == <<allocation[q][readNode[q]]>>

(* A node read to its end returns its block to the pool at once.           *)
ReleaseReadNode ==
  LET q == reading
  IN  /\ q # NoTrack
      /\ AtNodeEnd(q)
      /\ Release(ReadNodeBlock(q))
      /\ readNode' = [readNode EXCEPT ![q] = @ + 1]
      /\ UNCHANGED <<content, allocation, firstNode, writeNode, totalBytesWritten,
                     metadata, appendingTo, consumer>>

(* read() returns the sample to the renderer.                              *)
Delivered ==
  /\ reading # NoTrack
  /\ position = end /\ ~AtNodeEnd(reading)
  /\ delivered' = [delivered EXCEPT ![reading] = Append(@, out)]
  /\ reading' = NoTrack
  /\ out' = << >>
  /\ position' = 0
  /\ end' = 0
  /\ UNCHANGED <<allocator, content, nodes, metadata, appendingTo>>

-----------------------------------------------------------------------------
(* The rest of the class: operations the transcoder has no call to. Each   *)
(* runs on the consuming thread between two reads, and the ones marked by  *)
(* NoLoader only while nothing is being loaded.                            *)

Idle == reading = NoTrack
NoLoader == appendingTo = NoTrack

(* The blocks of nodes from .. to - 1 of track q, as they stand.           *)
BlocksOf(q, from, to) == [i \in 1 .. to - from |-> allocation[q][from + i - 1]]

Cleared(q, keep) ==
  [allocation EXCEPT ![q] = [n \in Nodes |-> IF n \in keep THEN @[n] ELSE NoBlock]]

(* Seeded fault: the node being written is forgotten.                      *)
FullNodesEnd(q) == writeNode[q]

(* One past the last node of q that is initialised.                        *)
NodesEnd(q) == IF Initialised(q, writeNode[q]) THEN writeNode[q] + 1 ELSE writeNode[q]

Rewind(q) ==
  /\ Idle
  /\ readPosition' = [readPosition EXCEPT ![q] = 0]
  /\ readNode' = [readNode EXCEPT ![q] = firstNode[q]]
  /\ UNCHANGED <<allocator, content, allocation, firstNode, writeNode, totalBytesWritten,
                 committed, offeredUpTo, keyframeRequired, appendingTo, consumer>>

(* Seeded fault: the node that holds the next byte goes too.               *)
PastFront(q, upTo, n) == upTo < Start(n) /\ (n = firstNode[q] \/ upTo >= Start(n - 1))

(* Whether n is the first node that is not wholly in front of upTo.        *)
IsFront(q, upTo, n) == upTo < EndPosition(n) /\ (n = firstNode[q] \/ upTo >= Start(n))

(* discardTo, discardToRead, discardToEnd: the metadata queue drops its    *)
(* first d samples, and the nodes in front of what is left are cleared and *)
(* their blocks returned.                                                  *)
DiscardDownstream(q, d) ==
  LET last == committed[q][d]
      upTo == IF d < Len(committed[q]) THEN committed[q][d + 1].from ELSE last.to
  IN  /\ Idle
      /\ \E n \in Nodes :
           /\ n >= firstNode[q] /\ IsFront(q, upTo, n)
           /\ Release(BlocksOf(q, firstNode[q], n))
           /\ allocation' = Cleared(q, n .. MaxNodes)
           /\ firstNode' = [firstNode EXCEPT ![q] = n]
           /\ readNode' = [readNode EXCEPT ![q] = IF @ < n THEN n ELSE @]
      /\ committed' = [committed EXCEPT ![q] = SubSeq(@, d + 1, Len(@))]
      /\ readPosition' = [readPosition EXCEPT ![q] = IF @ < d THEN 0 ELSE @ - d]
      /\ UNCHANGED <<content, writeNode, totalBytesWritten, offeredUpTo, keyframeRequired,
                     appendingTo, consumer>>

(* trim(), with the target the program leaves at zero: of the pool only as *)
(* many blocks stay as the count of blocks handed out is below zero.       *)
Trimmed(pool, count) ==
  IF count >= 0 THEN << >> ELSE SubSeq(pool, 1, IF -count < Len(pool) THEN -count ELSE Len(pool))

(* reset(): clearAllocationNodes from the first node, then trim.           *)
Reset(q) ==
  LET blocks == BlocksOf(q, firstNode[q], NodesEnd(q))
      count == allocatedCount - Len(blocks)
      pool == Trimmed(availableAllocations \o blocks, count)
  IN  /\ Idle /\ NoLoader
      /\ availableAllocations' = pool
      /\ allocatedCount' = count
      /\ owner' = [b \in Blocks |->
                     IF \E i \in DOMAIN blocks : blocks[i] = b THEN NoOwner ELSE owner[b]]
      /\ created' = {b \in created : owner'[b] # NoOwner \/ \E i \in DOMAIN pool : pool[i] = b}
      /\ allocation' = Cleared(q, {})
      /\ firstNode' = [firstNode EXCEPT ![q] = 0]
      /\ readNode' = [readNode EXCEPT ![q] = 0]
      /\ writeNode' = [writeNode EXCEPT ![q] = 0]
      /\ totalBytesWritten' = [totalBytesWritten EXCEPT ![q] = 0]
      /\ committed' = [committed EXCEPT ![q] = << >>]
      /\ readPosition' = [readPosition EXCEPT ![q] = 0]
      /\ offeredUpTo' = [offeredUpTo EXCEPT ![q] = 0]
      /\ keyframeRequired' = [keyframeRequired EXCEPT ![q] = TRUE]
      /\ UNCHANGED <<content, appendingTo, consumer>>

(* Seeded fault: the last node to keep gives back its block too.           *)
KeptAndLater(q, n) == BlocksOf(q, n, NodesEnd(q))

LaterBlocks(q, n) == BlocksOf(q, n + 1, NodesEnd(q))

(* discardUpstreamSamples: the loader takes back all but the first k       *)
(* samples, and writing continues where the last one kept ends.            *)
DiscardUpstream(q, k) ==
  LET upTo == IF k = 0 THEN 0 ELSE committed[q][k].to
  IN  /\ Idle /\ NoLoader
      /\ k \in readPosition[q] .. Len(committed[q])
      /\ committed' = [committed EXCEPT ![q] = SubSeq(@, 1, k)]
      /\ totalBytesWritten' = [totalBytesWritten EXCEPT ![q] = upTo]
      /\ offeredUpTo' = [offeredUpTo EXCEPT ![q] = upTo]
      /\ IF upTo = 0 \/ upTo = Start(firstNode[q])
         THEN LET n == IF upTo = 0 THEN 0 ELSE firstNode[q]
              IN  /\ Release(BlocksOf(q, firstNode[q], NodesEnd(q)))
                  /\ allocation' = Cleared(q, {})
                  /\ firstNode' = [firstNode EXCEPT ![q] = n]
                  /\ readNode' = [readNode EXCEPT ![q] = n]
                  /\ writeNode' = [writeNode EXCEPT ![q] = n]
         ELSE \E n \in firstNode[q] .. MaxNodes :
                /\ upTo <= EndPosition(n)
                /\ n = firstNode[q] \/ upTo > Start(n)
                /\ Release(LaterBlocks(q, n))
                /\ allocation' = Cleared(q, 0 .. n)
                /\ writeNode' = [writeNode EXCEPT ![q] =
                                   IF upTo = EndPosition(n) THEN n + 1 ELSE n]
                /\ UNCHANGED <<firstNode, readNode>>
      /\ UNCHANGED <<content, readPosition, keyframeRequired, appendingTo, consumer>>

-----------------------------------------------------------------------------
LoaderNext ==
  \/ \E q \in Tracks : PreAppend(q)
  \/ \E n \in 1 .. AllocationLength : WriteBytes(n)
  \/ AppendNothing
  \/ \E q \in Tracks, from, to \in 0 .. MaxBytes, key \in BOOLEAN :
       SampleMetadata(q, from, to, key)

ConsumerNext ==
  \/ \E q \in Tracks : Read(q)
  \/ CopyChunk
  \/ ReleaseReadNode
  \/ Delivered

(* What the transcoder does with its queues.                               *)
Next == LoaderNext \/ ConsumerNext

Spec == Init /\ [][Next]_vars

PublicOperation(q) ==
  \/ Rewind(q)
  \/ \E d \in 1 .. Len(committed[q]) : DiscardDownstream(q, d)
  \/ Reset(q)
  \/ \E k \in 0 .. Len(committed[q]) : DiscardUpstream(q, k)

(* The whole interface, when a queue is discarded, rewound, reset or taken *)
(* back only before a node of it was read to its end or passed: after that *)
(* the node's block may be another node's (readData returns it and leaves  *)
(* the node as it is), which the operations do not look at.                *)
UnreadNext ==
  \/ Next
  \/ \E q \in Tracks : readNode[q] = firstNode[q] /\ PublicOperation(q)

UnreadSpec == Init /\ [][UnreadNext]_vars

-----------------------------------------------------------------------------
Byte == Tracks \X Nat
Owner == Tracks \X Nodes
Extent == [from: Nat, to: Nat]

(* Every variable has its type, and the nodes follow one another.          *)
TypeOK ==
  /\ availableAllocations \in Seq(Blocks)
  /\ allocatedCount \in Int
  /\ created \in SUBSET Blocks
  /\ owner \in [Blocks -> Owner \cup {NoOwner}]
  /\ content \in [Blocks -> [0 .. AllocationLength - 1 -> Byte \cup {NoByte}]]
  /\ allocation \in [Tracks -> [Nodes -> Blocks \cup {NoBlock}]]
  /\ firstNode \in [Tracks -> Nodes]
  /\ readNode \in [Tracks -> Nodes]
  /\ writeNode \in [Tracks -> Nodes]
  /\ totalBytesWritten \in [Tracks -> Nat]
  /\ committed \in [Tracks -> Seq(Extent)]
  /\ readPosition \in [Tracks -> Nat]
  /\ offeredUpTo \in [Tracks -> Nat]
  /\ keyframeRequired \in [Tracks -> BOOLEAN]
  /\ appendingTo \in Tracks \cup {NoTrack}
  /\ reading \in Tracks \cup {NoTrack}
  /\ position \in Nat /\ end \in Nat
  /\ out \in Seq(Byte \cup {NoByte})
  /\ delivered \in [Tracks -> Seq(Seq(Byte \cup {NoByte}))]

(* A block still to be read belongs to its node: nobody has given it back, *)
(* so the loader cannot be writing another track's bytes into it.          *)
UnreadBlocksOwned ==
  \A q \in Tracks, n \in Nodes :
    n >= readNode[q] /\ Initialised(q, n) => owner[allocation[q][n]] = <<q, n>>

(* The pool holds each block at most once and none that is in use: no two  *)
(* nodes can be given the same memory.                                     *)
PoolSound ==
  /\ \A i \in DOMAIN availableAllocations : owner[availableAllocations[i]] = NoOwner
  /\ \A i, j \in DOMAIN availableAllocations :
       availableAllocations[i] = availableAllocations[j] => i = j

InUse == {b \in Blocks : owner[b] # NoOwner}

(* The count behind getTotalBytesAllocated is the number of blocks in use. *)
AllocatedCountExact == allocatedCount = Cardinality(InUse)

(* No block is lost: the node it was handed to still refers to it, so that *)
(* clearing the queue can give it back.                                    *)
NoBlockLost == \A b \in InUse : allocation[owner[b][1]][owner[b][2]] = b

(* The byte ranges the consumer is still going to read.                    *)
Unread(q) ==
  {committed[q][i] : i \in readPosition[q] + 1 .. Len(committed[q])}
    \cup (IF reading = q THEN {[from |-> position, to |-> end]} ELSE {})

(* Every byte of a sample not yet read is in its node's block, as written, *)
(* at every moment: while the loader writes, and while it is copied.       *)
UnreadBytesIntact ==
  \A q \in Tracks : \A r \in Unread(q) : \A p \in r.from .. r.to - 1, n \in Nodes :
    Start(n) <= p /\ p < EndPosition(n) =>
      /\ Initialised(q, n)
      /\ content[allocation[q][n]][p - Start(n)] = <<q, p>>

BytesOf(q, r) == [i \in 1 .. r.to - r.from |-> <<q, r.from + i - 1>>]

(* The samples reach the renderer whole, in order, once, and as written.   *)
Fifo == INSTANCE SampleFifo WITH
          Bytes <- Byte,
          sent <- [q \in Tracks |-> [i \in DOMAIN committed[q] |-> BytesOf(q, committed[q][i])]],
          got <- delivered
ImplementsSampleFifo == Fifo!Spec

(* A node behind the read position whose block was never given back.       *)
Abandoned(q, n) ==
  /\ n < readNode[q] /\ Initialised(q, n)
  /\ owner[allocation[q][n]] = <<q, n>>

(* The blocks the reader skips without returning them are those whose last *)
(* byte belongs to no sample, and only those: the memory that leaks is     *)
(* bounded by what the extractor writes outside samples.                   *)
OnlyGapsAbandoned ==
  \A q \in Tracks, n \in Nodes :
    Abandoned(q, n) =>
      \A i \in DOMAIN committed[q] :
        ~(committed[q][i].from < EndPosition(n) /\ EndPosition(n) <= committed[q][i].to)
=============================================================================
