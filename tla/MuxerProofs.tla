----------------------------- MODULE MuxerProofs -----------------------------
(***************************************************************************)
(* Proofs about Muxer, for any number of sessions, streams and frames: the *)
(* type invariant; that no frame is lost and none written out of order as  *)
(* long as operations on the queue do not overlap; that every file is      *)
(* closed once; and that nothing goes wrong but for the causes stated.     *)
(***************************************************************************)
EXTENDS Muxer, FiniteSetTheorems, FunctionTheorems, SequenceTheorems, TLAPS

(* The life of a session and of its output go together.                    *)
LifeInv ==
  \A s \in Sessions :
    /\ started[s] <=> context[s] = "headed"
    /\ trailers[s] = IF context[s] = "freed" THEN 1 ELSE 0
    /\ des[s].step = "unbegun" <=> context[s] = "none"
    /\ des[s].step \in {"running", "incrementing"} => context[s] \in {"allocated", "headed"}
    /\ des[s].step \in {"releasing", "ended"} => context[s] \in {"allocated", "freed"}
    /\ des[s].step # "unbegun" => s \in begun
    /\ writer[s].step # "none" => s \in begun /\ context[s] \in {"headed", "freed"}

IsPushed(frame) == \E k \in 1 .. Len(pushed) : pushed[k] = frame

(* No frame is pushed twice, as they are numbered; what is in the queue's  *)
(* memory, or in a writer's hands, was pushed.                             *)
FrameInv ==
  /\ \A i \in 1 .. Len(pushed) :
       /\ context[pushed[i][1]] \in {"headed", "freed"}
       /\ \A s \in Sessions : pushed[i][1] = s => pushed[i][2] <= FramesOf(s)
  /\ \A i, j \in 1 .. Len(pushed) : pushed[i] = pushed[j] => i = j
  /\ \A i \in DOMAIN slot : IsPushed(slot[i])
  /\ \A w \in Sessions : writer[w].frame # NoFrame => IsPushed(writer[w].frame)

(* A session that did not leave frames behind has written them all.        *)
LeftInv ==
  \A s \in Sessions : context[s] = "freed" /\ s \notin leftAtStop =>
    \A k \in 1 .. Len(pushed) : pushed[k][1] = s => IsWritten(pushed[k])

(* One operation at a time.                                                *)
OneOperation ==
  /\ \A s, r \in Sessions : Pushes(s) /\ Pushes(r) => s = r
  /\ \A w, v \in Sessions : Pops(w) /\ Pops(v) => w = v
  /\ \A s, w \in Sessions : ~(Pushes(s) /\ Pops(w))

(* Then the memory holds the frames from the first one on, of which `start`*)
(* and `size` name the last ones, but for the one being pushed or popped.  *)
QueueInv ==
  ~overlapped =>
    /\ OneOperation
    /\ DOMAIN slot = 0 .. Len(pushed) - 1
    /\ \A i \in 0 .. Len(pushed) - 1 : slot[i] = pushed[i + 1]
    /\ size >= 0
    /\ \A s \in Sessions : Pushes(s) => des[s].size = size /\ start + size + 1 = Len(pushed)
    /\ \A w \in Sessions :
         /\ writer[w].step \in {"fronting", "decrementing"} =>
              writer[w].size = size /\ size # 0 /\ start + size = Len(pushed)
         /\ writer[w].step = "decrementing" => writer[w].frame = pushed[start + 1]
         /\ writer[w].step = "advancing" =>
              start + size + 1 = Len(pushed) /\ writer[w].frame = pushed[start + 1]
    /\ (\A s \in Sessions : ~Pushes(s) /\ ~Pops(s)) => start + size = Len(pushed)

WasTaken(frame) == \E k \in 1 .. start : pushed[k] = frame

(* Writers have different frames, none of them written yet, and a frame    *)
(* taken off is with a writer or written.                                  *)
TakenInv ==
  ~overlapped =>
    /\ \A w \in Sessions : Holds(w) =>
         WasTaken(writer[w].frame) /\ ~IsWritten(writer[w].frame)
    /\ \A w, v \in Sessions :
         Holds(w) /\ Holds(v)
           /\ writer[w].frame = writer[v].frame => w = v
    /\ \A j \in 1 .. Len(written) : WasTaken(written[j])
    /\ Alive => \A k \in 1 .. start :
         \/ IsWritten(pushed[k])
         \/ \E w \in Sessions : Holds(w) /\ writer[w].frame = pushed[k]

(* With one session, a writer has the frame after those written.           *)
OrderInv ==
  ~overlapped /\ (\A s, r \in begun : s = r) =>
    /\ Len(written) <= start
    /\ \A j \in 1 .. Len(written) : written[j] = pushed[j]
    /\ Alive => \A w \in Sessions : Holds(w) =>
         start = Len(written) + 1 /\ writer[w].frame = pushed[start]
    /\ Alive /\ (\A w \in Sessions : ~Holds(w)) => start = Len(written)

(* What is being written is a frame, unless all is lost anyway.            *)
MuxingInv ==
  Alive => \A w \in Sessions : writer[w].step = "muxing" => writer[w].frame # NoFrame

Inv ==
  TypeOK /\ LifeInv /\ FrameInv /\ LeftInv /\ QueueInv /\ TakenInv /\ OrderInv /\ MuxingInv

-----------------------------------------------------------------------------
(* Frames                                                                  *)

LEMMA FrameParts ==
  ASSUME NEW f \in Frames
  PROVE  /\ f[1] \in Sessions /\ f[2] \in Int
         /\ f # NoFrame
  <1>1. PICK s \in Sessions : f \in {s} \X (1 .. MaxFrames[s]) \X Tracks
    BY DEF Frames
  <1>2. MaxFrames[s] \in Nat
    BY MuxerAssumption
  <1>3. f[1] = s /\ f[2] \in 1 .. MaxFrames[s]
    BY <1>1
  <1>4. s # 0
    BY MuxerAssumption DEF Sessions
  <1> QED
    BY <1>2, <1>3, <1>4 DEF NoFrame

LEMMA FrameMade ==
  ASSUME NEW s \in Sessions, NEW n \in 1 .. MaxFrames[s], NEW t \in Tracks
  PROVE  <<s, n, t>> \in Frames
  <1>1. <<s, n, t>> \in {s} \X (1 .. MaxFrames[s]) \X Tracks
    OBVIOUS
  <1> QED
    BY <1>1 DEF Frames

LEMMA AppendElements ==
  ASSUME NEW S, NEW s \in Seq(S), NEW e \in S
  PROVE  /\ Append(s, e) \in Seq(S)
         /\ Len(s) \in Nat /\ Len(Append(s, e)) = Len(s) + 1
         /\ DOMAIN s = 1 .. Len(s) /\ DOMAIN Append(s, e) = 1 .. Len(s) + 1
         /\ \A i \in 1 .. Len(s) : Append(s, e)[i] = s[i]
         /\ Append(s, e)[Len(s) + 1] = e
  OBVIOUS

LEMMA FramesOfType ==
  ASSUME TypeOK, NEW s \in Sessions
  PROVE  /\ IsFiniteSet({i \in DOMAIN pushed : pushed[i][1] = s})
         /\ FramesOf(s) \in Nat
  <1> DEFINE own == {i \in DOMAIN pushed : pushed[i][1] = s}
  <1>1. pushed \in Seq(Frames) /\ Len(pushed) \in Nat /\ DOMAIN pushed = 1 .. Len(pushed)
    BY DEF TypeOK
  <1>2. IsFiniteSet(1 .. Len(pushed))
    BY <1>1, FS_Interval
  <1>3. own \in SUBSET (1 .. Len(pushed))
    BY <1>1
  <1>4. IsFiniteSet(own)
    BY <1>2, <1>3, FS_Subset
  <1>5. Cardinality(own) \in Nat
    BY <1>4, FS_CardinalityType
  <1> QED
    BY <1>4, <1>5 DEF FramesOf

-----------------------------------------------------------------------------
(* Every variable keeps its type. That a pop finds something to pop is     *)
(* QueueInv's.                                                             *)

LEMMA InitType == Init => TypeOK
  <1> SUFFICES ASSUME Init PROVE TypeOK
    OBVIOUS
  <1>1. DOMAIN << >> = {}
    OBVIOUS
  <1>2. /\ begun \in SUBSET Sessions
        /\ streams \in [Sessions -> SUBSET Tracks]
        /\ started \in [Sessions -> BOOLEAN]
        /\ context \in [Sessions -> {"none", "allocated", "headed", "freed"}]
        /\ trailers \in [Sessions -> Nat] /\ leftAtStop \in SUBSET Sessions
    BY DEF Init
  <1>3. /\ des \in [Sessions -> [step: {"unbegun", "running", "incrementing", "releasing", "ended"},
                                 size: Int]]
        /\ writer \in [Sessions -> [step: {"none", "testing", "fronting", "decrementing",
                                           "advancing", "writing", "muxing"},
                                    frame: Frames \cup {NoFrame}, size: Int]]
    BY DEF Init, Thread
  <1>4. start \in Nat /\ size \in Int /\ size >= 0
    <2>1. start = 0 /\ size = 0
      BY DEF Init
    <2> QED
      BY <2>1
  <1>7. overlapped \in BOOLEAN /\ failure = "none"
    BY Zenon DEF Init
  <1>6. pushed \in Seq(Frames) /\ written \in Seq(Frames)
    BY DEF Init
  <1>5. DOMAIN slot \subseteq Int /\ \A i \in DOMAIN slot : slot[i] \in Frames
    BY <1>1 DEF Init
  <1> QED
    BY <1>2, <1>3, <1>4, <1>5, <1>6, <1>7 DEF TypeOK

(* The two ends of a session change the same variables.                    *)
LEMMA StopType ==
  ASSUME TypeOK, NEW s \in Sessions, StopOrRelease(s)
  PROVE  /\ started' \in [Sessions -> BOOLEAN]
         /\ context' \in [Sessions -> {"none", "allocated", "headed", "freed"}]
         /\ trailers' \in [Sessions -> Nat] /\ leftAtStop' \in SUBSET Sessions
         /\ failure' \in {"none", "tooManyStreams", "uninitialised", "staleFrame", "released",
                          "concurrentWrite", "freedTwice"}
  <1>1. started' \in [Sessions -> BOOLEAN]
    BY DEF TypeOK, StopOrRelease, ClearStarted
  <1>2. CASE started[s]
    <2>1. NativeStop(s)
      BY <1>2 DEF StopOrRelease
    <2>2. /\ context' \in [Sessions -> {"none", "allocated", "headed", "freed"}]
          /\ leftAtStop' \in SUBSET Sessions
      BY <2>1 DEF TypeOK, NativeStop
    <2>3. trailers' \in [Sessions -> Nat]
      BY <2>1 DEF TypeOK, NativeStop
    <2>4. failure' \in {"none", "uninitialised", "released", "freedTwice"}
      BY <2>1 DEF NativeStop
    <2> QED
      BY <1>1, <2>2, <2>3, <2>4
  <1>3. CASE ~started[s]
    BY <1>1, <1>3 DEF TypeOK, StopOrRelease
  <1> QED
    BY <1>2, <1>3


LEMMA FreshFrame ==
  ASSUME TypeOK, NEW s \in Sessions, NEW t \in Tracks, FramesOf(s) < MaxFrames[s]
  PROVE  <<s, FramesOf(s) + 1, t>> \in Frames
  <1>1. FramesOf(s) \in Nat
    BY FramesOfType
  <1>2. MaxFrames[s] \in Nat
    BY MuxerAssumption
  <1>3. FramesOf(s) + 1 \in 1 .. MaxFrames[s]
    BY <1>1, <1>2
  <1> QED
    BY <1>3, FrameMade

(* The memory after the frame was put behind the last one.                 *)
LEMMA SlotFilled ==
  ASSUME NEW s \in Sessions, NEW t \in Tracks, OnDataReady(s, t)
  PROVE  LET frame == <<s, FramesOf(s) + 1, t>>
         IN  /\ DOMAIN slot' = DOMAIN slot \cup {start + size}
             /\ slot'[start + size] = frame
             /\ \A i \in DOMAIN slot : i # start + size => slot'[i] = slot[i]
             /\ pushed' = Append(pushed, frame)
  BY DEF OnDataReady

LEMMA OnDataReadyType ==
  ASSUME TypeOK, NEW s \in Sessions, NEW t \in Tracks, OnDataReady(s, t)
  PROVE  TypeOK'
  <1> DEFINE frame == <<s, FramesOf(s) + 1, t>>
  <1>1. frame \in Frames
    BY FreshFrame DEF OnDataReady
  <1>2. pushed' \in Seq(Frames)
    BY <1>1 DEF OnDataReady, TypeOK
  <1>3. /\ DOMAIN slot' = DOMAIN slot \cup {start + size}
        /\ \A i \in DOMAIN slot' : slot'[i] = frame \/ (i \in DOMAIN slot /\ slot'[i] = slot[i])
    BY SlotFilled
  <1> HIDE DEF frame
  <1>4. DOMAIN slot' \subseteq Int /\ \A i \in DOMAIN slot' : slot'[i] \in Frames
    BY <1>1, <1>3 DEF TypeOK
  <1>5. /\ started' \in [Sessions -> BOOLEAN]
        /\ context' \in [Sessions -> {"none", "allocated", "headed", "freed"}]
    BY DEF OnDataReady, TypeOK
  <1>6. writer' \in [Sessions -> [step: {"none", "testing", "fronting", "decrementing",
                                         "advancing", "writing", "muxing"},
                                  frame: Frames \cup {NoFrame}, size: Int]]
    <2>1. Thread("testing") \in [step: {"none", "testing", "fronting", "decrementing",
                                       "advancing", "writing", "muxing"},
                                frame: Frames \cup {NoFrame}, size: Int]
      BY DEF Thread
    <2>2. writer' = writer \/ writer' = [writer EXCEPT ![s] = Thread("testing")]
      BY DEF OnDataReady
    <2> QED
      BY <2>1, <2>2 DEF TypeOK
  <1>7. des' \in [Sessions -> [step: {"unbegun", "running", "incrementing", "releasing", "ended"},
                               size: Int]]
    BY DEF OnDataReady, TypeOK
  <1>8. overlapped' \in BOOLEAN /\ (overlapped => overlapped')
    BY DEF OnDataReady, BeginOperation, TypeOK
  <1>9. failure' \in {"none", "uninitialised"}
    BY DEF OnDataReady
  <1>10. /\ begun' = begun /\ streams' = streams /\ trailers' = trailers
         /\ leftAtStop' = leftAtStop /\ start' = start /\ size' = size /\ written' = written
    BY DEF OnDataReady
  <1> QED
    BY <1>2, <1>4, <1>5, <1>6, <1>7, <1>8, <1>9, <1>10 DEF TypeOK

LEMMA WriterType ==
  ASSUME TypeOK, QueueInv, MuxingInv, NEW w \in Sessions, WriterNext(w)
  PROVE  TypeOK'
  <1> DEFINE Writers == [Sessions -> [step: {"none", "testing", "fronting", "decrementing",
                                             "advancing", "writing", "muxing"},
                                      frame: Frames \cup {NoFrame}, size: Int]]
  <1>a. At(start) \in Frames \cup {NoFrame}
    BY DEF At, TypeOK
  <1>b. writer \in Writers
    BY DEF TypeOK
  <1>1. CASE TestSize(w)
    <2>1. writer' \in Writers
      <3>1. size \in Int
        BY DEF TypeOK
      <3>2. writer' = [writer EXCEPT ![w].step = "fronting", ![w].size = size]
        BY <1>1 DEF TestSize
      <3> QED
        BY <1>b, <3>1, <3>2
    <2>2. overlapped' \in BOOLEAN /\ (overlapped => overlapped')
      BY <1>1 DEF TestSize, BeginOperation, TypeOK
    <2> QED
      BY <1>1, <2>1, <2>2 DEF TestSize, TypeOK, output, queue
  <1>2. CASE ReadFront(w)
    <2>1. writer' \in Writers
      BY <1>2, <1>a, <1>b DEF ReadFront
    <2> QED
      BY <1>2, <2>1 DEF ReadFront, TypeOK, output, queue
  <1>3. CASE Decrement(w)
    <2>1. writer' \in Writers
      <3> DEFINE half == [writer EXCEPT ![w].step = "advancing"]
      <3>1. half \in Writers
        BY <1>b
      <3>2. writer' = [half EXCEPT ![w].size = 0]
        BY <1>3 DEF Decrement
      <3> HIDE DEF half
      <3> QED
        BY <3>1, <3>2
    <2>2. writer[w].size \in Int
      BY <1>b
    <2>3. ~overlapped => writer[w].size = size /\ size # 0
      BY <1>3 DEF QueueInv, Decrement
    <2>4. size' = writer[w].size - 1
      BY <1>3 DEF Decrement, Decremented
    <2>5. size' \in Int
      BY <2>2, <2>4
    <2>6. overlapped \/ size' >= 0
      BY <2>3, <2>4 DEF TypeOK
    <2> QED
      BY <1>3, <2>1, <2>5, <2>6 DEF Decrement, TypeOK, output
  <1>4. CASE Advance(w)
    <2>1. writer' \in Writers
      BY <1>4, <1>b DEF Advance
    <2>2. start' \in Nat
      BY <1>4 DEF Advance, TypeOK
    <2> QED
      BY <1>4, <2>1, <2>2 DEF Advance, TypeOK, output
  <1>5. CASE BeginWrite(w)
    <2>1. writer' \in Writers
      BY <1>5, <1>b DEF BeginWrite
    <2>2. failure' \in {"none", "staleFrame", "released", "concurrentWrite"}
      BY <1>5 DEF BeginWrite
    <2> QED
      BY <1>5, <2>1, <2>2 DEF BeginWrite, TypeOK, output, queue
  <1>6. CASE EndWrite(w)
    <2>1. writer' \in Writers
      BY <1>6, <1>b DEF EndWrite, GoesOn, Thread
    <2>2. failure' \in {"none", "staleFrame"}
      BY <1>6 DEF EndWrite
    <2>3. writer[w].frame # NoFrame
      BY <1>6 DEF EndWrite, MuxingInv
    <2>4. writer[w].frame \in Frames \cup {NoFrame}
      BY <1>b
    <2>5. written' \in Seq(Frames)
      BY <1>6, <2>3, <2>4 DEF EndWrite, TypeOK
    <2> QED
      BY <1>6, <2>1, <2>2, <2>5 DEF EndWrite, TypeOK, output, queue
  <1> QED
    BY <1>1, <1>2, <1>3, <1>4, <1>5, <1>6 DEF WriterNext

LEMMA NextType == TypeOK /\ QueueInv /\ MuxingInv /\ [Next]_vars => TypeOK'
  <1> SUFFICES ASSUME TypeOK, QueueInv, MuxingInv, [Next]_vars PROVE TypeOK'
    OBVIOUS
  <1>1. CASE UNCHANGED vars
    BY <1>1 DEF vars, output, queue, TypeOK
  <1>2. ASSUME NEW s \in Sessions, Begin(s) PROVE TypeOK'
    <2>1. /\ begun' \in SUBSET Sessions
          /\ context' \in [Sessions -> {"none", "allocated", "headed", "freed"}]
          /\ failure' \in {"none", "tooManyStreams"}
      BY <1>2 DEF Begin, TypeOK
    <2>2. des' \in [Sessions -> [step: {"unbegun", "running", "incrementing", "releasing", "ended"},
                                 size: Int]]
      BY <1>2 DEF Begin, TypeOK
    <2> QED
      BY <1>2, <2>1, <2>2 DEF Begin, TypeOK, queue
  <1>3. ASSUME NEW s \in Sessions, NEW t \in Tracks, Discover(s, t) PROVE TypeOK'
    <2>1. streams' \in [Sessions -> SUBSET Tracks]
      BY <1>3 DEF Discover, TypeOK
    <2> QED
      BY <1>3, <2>1 DEF Discover, TypeOK, queue
  <1>4. ASSUME NEW s \in Sessions, NEW t \in Tracks, OnDataReady(s, t) PROVE TypeOK'
    BY <1>4, OnDataReadyType
  <1>5. ASSUME NEW s \in Sessions, Increment(s) PROVE TypeOK'
    <2>1. des' \in [Sessions -> [step: {"unbegun", "running", "incrementing", "releasing", "ended"},
                                 size: Int]]
      BY <1>5 DEF Increment, TypeOK
    <2>2. des[s].size \in Int
      BY DEF TypeOK
    <2>3. ~overlapped => des[s].size = size
      BY <1>5 DEF QueueInv, Increment, Pushes
    <2>4. size' = des[s].size + 1
      BY <1>5 DEF Increment, Incremented
    <2>5. size' \in Int
      BY <2>2, <2>4
    <2>6. overlapped \/ size' >= 0
      BY <2>3, <2>4 DEF TypeOK
    <2> QED
      BY <1>5, <2>1, <2>5, <2>6 DEF Increment, TypeOK, output
  <1>6. ASSUME NEW w \in Sessions, WriterNext(w) PROVE TypeOK'
    BY <1>6, WriterType
  <1>7. ASSUME NEW s \in Sessions, StopMuxer(s) \/ ReleaseOutput(s) PROVE TypeOK'
    <2>1. StopOrRelease(s)
      BY <1>7 DEF StopMuxer, ReleaseOutput
    <2>2. des' \in [Sessions -> [step: {"unbegun", "running", "incrementing", "releasing", "ended"},
                                 size: Int]]
      <3>1. CASE StopMuxer(s)
        BY <3>1 DEF StopMuxer, TypeOK
      <3>2. CASE ReleaseOutput(s)
        BY <3>2 DEF ReleaseOutput, TypeOK
      <3> QED
        BY <1>7, <3>1, <3>2
    <2>3. /\ begun' = begun /\ streams' = streams /\ writer' = writer /\ pushed' = pushed
          /\ written' = written /\ overlapped' = overlapped
          /\ start' = start /\ size' = size /\ slot' = slot
      BY <2>1 DEF StopOrRelease, queue
    <2> QED
      BY <2>1, <2>2, <2>3, StopType DEF TypeOK
  <1> QED
    BY <1>1, <1>2, <1>3, <1>4, <1>5, <1>6, <1>7 DEF Next

-----------------------------------------------------------------------------
(* The life of a session.                                                  *)

LEMMA StopLife ==
  ASSUME TypeOK, LifeInv, NEW s \in Sessions, StopMuxer(s) \/ ReleaseOutput(s)
  PROVE  LifeInv'
  <1>1. StopOrRelease(s)
    BY DEF StopMuxer, ReleaseOutput
  <1>2. /\ begun' = begun /\ writer' = writer
        /\ started' = [started EXCEPT ![s] = FALSE]
    BY <1>1 DEF StopOrRelease, ClearStarted
  <1>3. /\ des[s].step \in {"running", "releasing"} /\ des'[s].step \in {"releasing", "ended"}
        /\ \A r \in Sessions \ {s} : des'[r] = des[r]
    <2>1. CASE StopMuxer(s)
      BY <2>1 DEF StopMuxer, Runs, TypeOK
    <2>2. CASE ReleaseOutput(s)
      BY <2>2 DEF ReleaseOutput, TypeOK
    <2> QED
      BY <2>1, <2>2
  <1>4. CASE started[s]
    <2>1. /\ trailers' = [trailers EXCEPT ![s] = @ + 1]
          /\ context' = [context EXCEPT ![s] = "freed"]
      BY <1>1, <1>4 DEF StopOrRelease, NativeStop
    <2>2. trailers[s] = 0
      BY <1>4 DEF LifeInv
    <2> QED
      BY <1>2, <1>3, <2>1, <2>2 DEF LifeInv, TypeOK
  <1>5. CASE ~started[s]
    <2>1. trailers' = trailers /\ context' = context
      BY <1>1, <1>5 DEF StopOrRelease
    <2> QED
      BY <1>2, <1>3, <1>5, <2>1 DEF LifeInv, TypeOK
  <1> QED
    BY <1>4, <1>5

LEMMA NextLife == TypeOK /\ LifeInv /\ [Next]_vars => LifeInv'
  <1> SUFFICES ASSUME TypeOK, LifeInv, [Next]_vars PROVE LifeInv'
    OBVIOUS
  <1>1. CASE UNCHANGED vars
    BY <1>1 DEF vars, output, LifeInv
  <1>2. ASSUME NEW s \in Sessions, Begin(s) PROVE LifeInv'
    BY <1>2 DEF Begin, LifeInv, TypeOK
  <1>3. ASSUME NEW s \in Sessions, NEW t \in Tracks, Discover(s, t) PROVE LifeInv'
    BY <1>3 DEF Discover, LifeInv
  <1>4. ASSUME NEW s \in Sessions, NEW t \in Tracks, OnDataReady(s, t) PROVE LifeInv'
    <2>1. /\ des[s].step = "running" /\ des' = [des EXCEPT ![s] = [step |-> "incrementing", size |-> size]]
          /\ begun' = begun /\ trailers' = trailers
      BY <1>4 DEF OnDataReady, Runs
    <2>2. CASE started[s]
      <3>1. started' = started /\ context' = context /\ writer' = writer
        BY <1>4, <2>2 DEF OnDataReady
      <3> QED
        BY <2>1, <3>1 DEF LifeInv, TypeOK
    <2>3. CASE ~started[s]
      <3>1. /\ started' = [started EXCEPT ![s] = TRUE]
            /\ context' = [context EXCEPT ![s] = "headed"]
            /\ writer' = [writer EXCEPT ![s] = Thread("testing")]
        BY <1>4, <2>3 DEF OnDataReady
      <3> QED
        BY <2>1, <2>3, <3>1 DEF LifeInv, TypeOK
    <2> QED
      BY <2>2, <2>3
  <1>5. ASSUME NEW s \in Sessions, Increment(s) PROVE LifeInv'
    BY <1>5 DEF Increment, output, LifeInv, TypeOK
  <1>6. ASSUME NEW w \in Sessions, WriterNext(w) PROVE LifeInv'
    <2>1. UNCHANGED <<output, des>>
      BY <1>6 DEF WriterNext, TestSize, ReadFront, Decrement, Advance,
         BeginWrite, EndWrite
    <2>2. writer[w].step # "none" /\ \A v \in Sessions \ {w} : writer'[v] = writer[v]
      BY <1>6 DEF WriterNext, TestSize, ReadFront, Decrement, Advance,
         BeginWrite, EndWrite, TypeOK
    <2> QED
      BY <2>1, <2>2 DEF LifeInv, output
  <1>7. ASSUME NEW s \in Sessions, StopMuxer(s) \/ ReleaseOutput(s) PROVE LifeInv'
    BY <1>7, StopLife
  <1> QED
    BY <1>1, <1>2, <1>3, <1>4, <1>5, <1>6, <1>7 DEF Next

-----------------------------------------------------------------------------
(* The frames pushed                                                       *)

(* A frame pushed is one more of its session, and of no other.             *)
LEMMA OneMore ==
  ASSUME TypeOK, NEW s \in Sessions, NEW f \in Frames, f[1] = s, pushed' = Append(pushed, f)
  PROVE  /\ FramesOf(s)' = FramesOf(s) + 1
         /\ \A r \in Sessions : r # s => FramesOf(r)' = FramesOf(r)
  <1> DEFINE own(r) == {i \in DOMAIN pushed : pushed[i][1] = r}
             ownNext(r) == {i \in DOMAIN pushed' : pushed'[i][1] = r}
  <1>1. /\ Len(pushed) \in Nat /\ DOMAIN pushed = 1 .. Len(pushed)
        /\ DOMAIN pushed' = 1 .. Len(pushed) + 1
        /\ \A i \in 1 .. Len(pushed) : pushed'[i] = pushed[i]
        /\ pushed'[Len(pushed) + 1] = f
    BY AppendElements DEF TypeOK
  <1>2. ownNext(s) = own(s) \cup {Len(pushed) + 1}
    BY <1>1
  <1>3. Len(pushed) + 1 \notin own(s)
    BY <1>1
  <1>4. IsFiniteSet(own(s))
    BY FramesOfType
  <1>5. Cardinality(ownNext(s)) = Cardinality(own(s)) + 1
    <2> HIDE DEF own, ownNext
    <2> QED
      BY <1>2, <1>3, <1>4, FS_AddElement
  <1>6. ASSUME NEW r \in Sessions, r # s PROVE ownNext(r) = own(r)
    BY <1>1, <1>6
  <1> QED
    BY <1>5, <1>6 DEF FramesOf

LEMMA NextFrame == TypeOK /\ TypeOK' /\ LifeInv /\ FrameInv /\ [Next]_vars => FrameInv'
  <1> SUFFICES ASSUME TypeOK, TypeOK', LifeInv, FrameInv, [Next]_vars PROVE FrameInv'
    OBVIOUS
  <1>0. /\ Len(pushed) \in Nat /\ DOMAIN pushed = 1 .. Len(pushed)
        /\ \A i \in 1 .. Len(pushed) : pushed[i] \in Frames /\ pushed[i][1] \in Sessions
                                        /\ pushed[i][2] \in Int
    <2>1. /\ Len(pushed) \in Nat /\ DOMAIN pushed = 1 .. Len(pushed)
          /\ \A i \in 1 .. Len(pushed) : pushed[i] \in Frames
      BY DEF TypeOK
    <2> QED
      BY <2>1, FrameParts
  <1>1. ASSUME UNCHANGED <<slot, pushed>>,
               \A r \in Sessions : context[r] \in {"headed", "freed"} => context'[r] \in {"headed", "freed"},
               \A w \in Sessions : writer'[w].frame # NoFrame => IsPushed(writer'[w].frame)
        PROVE FrameInv'
    <2>1. \A r \in Sessions : FramesOf(r)' = FramesOf(r)
      BY <1>1 DEF FramesOf
    <2> QED
      BY <1>0, <1>1, <2>1 DEF FrameInv, IsPushed
  <1>2. CASE UNCHANGED vars
    BY <1>1, <1>2 DEF vars, output, queue, FrameInv
  <1>3. ASSUME NEW s \in Sessions, Begin(s) PROVE FrameInv'
    <2>1. /\ UNCHANGED <<slot, pushed, writer>>
          /\ context' = [context EXCEPT ![s] = "allocated"] /\ des[s].step = "unbegun"
      BY <1>3 DEF Begin, queue
    <2>2. context[s] = "none"
      BY <2>1 DEF LifeInv
    <2> QED
      BY <1>1, <2>1, <2>2 DEF FrameInv, TypeOK
  <1>4. ASSUME NEW s \in Sessions, NEW t \in Tracks, Discover(s, t) PROVE FrameInv'
    BY <1>1, <1>4 DEF Discover, queue, FrameInv
  <1>5. ASSUME NEW s \in Sessions, NEW t \in Tracks, OnDataReady(s, t) PROVE FrameInv'
    <2> DEFINE frame == <<s, FramesOf(s) + 1, t>>
    <2>1. frame \in Frames /\ frame[1] = s /\ frame[2] = FramesOf(s) + 1
      BY <1>5, FreshFrame DEF OnDataReady
    <2>2. pushed' = Append(pushed, frame) /\ FramesOf(s) \in Nat
      BY <1>5, FramesOfType DEF OnDataReady
    <2>3. /\ context'[s] = "headed"
          /\ \A r \in Sessions : context[r] \in {"headed", "freed"} => context'[r] \in {"headed", "freed"}
          /\ \A w \in Sessions : writer'[w].frame = writer[w].frame \/ writer'[w].frame = NoFrame
      <3>1. CASE started[s]
        BY <1>5, <3>1 DEF OnDataReady, LifeInv
      <3>2. CASE ~started[s]
        <4>1. /\ context' = [context EXCEPT ![s] = "headed"]
              /\ writer' = [writer EXCEPT ![s] = Thread("testing")]
          BY <1>5, <3>2 DEF OnDataReady
        <4>2. Thread("testing").frame = NoFrame
          BY DEF Thread
        <4> QED
          BY <4>1, <4>2 DEF TypeOK
      <3> QED
        BY <3>1, <3>2
    <2>4. /\ DOMAIN slot' = DOMAIN slot \cup {start + size} /\ slot'[start + size] = frame
          /\ \A i \in DOMAIN slot : i # start + size => slot'[i] = slot[i]
      BY <1>5, SlotFilled
    <2> HIDE DEF frame
    <2>5. /\ FramesOf(s)' = FramesOf(s) + 1
          /\ \A r \in Sessions : r # s => FramesOf(r)' = FramesOf(r)
      BY <2>1, <2>2, OneMore
    <2>6. /\ Len(pushed') = Len(pushed) + 1
          /\ \A i \in 1 .. Len(pushed) : pushed'[i] = pushed[i]
          /\ pushed'[Len(pushed) + 1] = frame
      BY <2>1, <2>2, AppendElements DEF TypeOK
    <2>7. \A f : IsPushed(f) \/ f = frame => \E k \in 1 .. Len(pushed') : pushed'[k] = f
      BY <1>0, <2>6 DEF IsPushed
    <2>8. \A i \in 1 .. Len(pushed) : pushed[i] # frame
      <3>1. \A i \in 1 .. Len(pushed) : pushed[i][1] = s => pushed[i][2] # frame[2]
        BY <1>0, <2>1, <2>2 DEF FrameInv
      <3> QED
        BY <2>1, <3>1
    <2>9. ASSUME NEW i \in 1 .. Len(pushed')
          PROVE  /\ context'[pushed'[i][1]] \in {"headed", "freed"}
                 /\ \A r \in Sessions : pushed'[i][1] = r => pushed'[i][2] <= FramesOf(r)'
      <3>1. CASE i = Len(pushed) + 1
        <4>1. pushed'[i][1] = s /\ pushed'[i][2] = FramesOf(s)'
          BY <3>1, <2>1, <2>5, <2>6
        <4>2. FramesOf(s)' \in Int
          BY <2>2, <2>5
        <4> QED
          BY <4>1, <4>2, <2>3
      <3>2. CASE i \in 1 .. Len(pushed)
        <4>1. pushed'[i] = pushed[i] /\ pushed[i][1] \in Sessions /\ pushed[i][2] \in Int
          BY <3>2, <1>0, <2>6
        <4>2. /\ \A r \in Sessions : pushed[i][1] = r => pushed[i][2] <= FramesOf(r)
              /\ context[pushed[i][1]] \in {"headed", "freed"}
          BY <3>2 DEF FrameInv
        <4>3. CASE pushed[i][1] = s
          BY <4>1, <4>2, <4>3, <2>2, <2>3, <2>5
        <4>4. CASE pushed[i][1] # s
          BY <4>1, <4>2, <4>4, <2>3, <2>5
        <4> QED
          BY <4>3, <4>4
      <3> QED
        BY <3>1, <3>2, <1>0, <2>6
    <2>10. \A i, j \in 1 .. Len(pushed') : pushed'[i] = pushed'[j] => i = j
      BY <1>0, <2>6, <2>8 DEF FrameInv
    <2>11. \A i \in DOMAIN slot' : \E k \in 1 .. Len(pushed') : pushed'[k] = slot'[i]
      BY <2>4, <2>7 DEF FrameInv
    <2>12. \A w \in Sessions : writer'[w].frame # NoFrame =>
             \E k \in 1 .. Len(pushed') : pushed'[k] = writer'[w].frame
      BY <2>3, <2>7 DEF FrameInv
    <2> QED
      BY <2>9, <2>10, <2>11, <2>12 DEF FrameInv, IsPushed
  <1>6. ASSUME NEW s \in Sessions, Increment(s) PROVE FrameInv'
    BY <1>1, <1>6 DEF Increment, output, FrameInv
  <1>7. ASSUME NEW w \in Sessions, WriterNext(w) PROVE FrameInv'
    <2>1. UNCHANGED <<output, slot, pushed>>
      BY <1>7 DEF WriterNext, TestSize, ReadFront, Decrement, Advance,
         BeginWrite, EndWrite, queue
    <2>2. ASSUME NEW v \in Sessions, writer'[v].frame # NoFrame PROVE IsPushed(writer'[v].frame)
      <3>1. CASE ReadFront(w)
        <4>1. writer'[v].frame = writer[v].frame \/ writer'[v].frame = At(start)
          BY <3>1 DEF ReadFront, TypeOK
        <4>2. At(start) # NoFrame => IsPushed(At(start))
          BY DEF At, FrameInv
        <4> QED
          BY <4>1, <4>2, <2>2 DEF FrameInv
      <3>2. CASE ~ReadFront(w)
        <4>1. writer'[v].frame = writer[v].frame \/ writer'[v].frame = NoFrame
          <5>0. DOMAIN writer = Sessions
            BY DEF TypeOK
          <5>1. CASE TestSize(w)
            BY <5>0, <5>1 DEF TestSize
          <5>2. CASE Decrement(w)
            BY <5>0, <5>2 DEF Decrement
          <5>3. CASE Advance(w)
            BY <5>0, <5>3 DEF Advance
          <5>4. CASE BeginWrite(w)
            BY <5>0, <5>4 DEF BeginWrite
          <5>5. CASE EndWrite(w)
            BY <5>5 DEF EndWrite, GoesOn, Thread, TypeOK
          <5> QED
            BY <5>1, <5>2, <5>3, <5>4, <5>5, <3>2, <1>7 DEF WriterNext
        <4> QED
          BY <4>1, <2>2 DEF FrameInv
      <3> QED
        BY <3>1, <3>2
    <2> QED
      BY <1>1, <2>1, <2>2 DEF output
  <1>8. ASSUME NEW s \in Sessions, StopMuxer(s) \/ ReleaseOutput(s) PROVE FrameInv'
    <2>1. StopOrRelease(s)
      BY <1>8 DEF StopMuxer, ReleaseOutput
    <2>2. UNCHANGED <<slot, pushed, writer>>
      BY <2>1 DEF StopOrRelease, queue
    <2>3. context' = context \/ context' = [context EXCEPT ![s] = "freed"]
      BY <2>1 DEF StopOrRelease, NativeStop
    <2> QED
      BY <1>1, <2>2, <2>3 DEF FrameInv, TypeOK
  <1> QED
    BY <1>2, <1>3, <1>4, <1>5, <1>6, <1>7, <1>8 DEF Next

-----------------------------------------------------------------------------
(* What a session leaves behind when it stops                              *)

LEMMA NextLeft == TypeOK /\ LifeInv /\ FrameInv /\ LeftInv /\ [Next]_vars => LeftInv'
  <1> SUFFICES ASSUME TypeOK, LifeInv, FrameInv, LeftInv, [Next]_vars PROVE LeftInv'
    OBVIOUS
  <1>0. /\ Len(pushed) \in Nat /\ DOMAIN pushed = 1 .. Len(pushed)
        /\ \A i \in 1 .. Len(pushed) : pushed[i] \in Frames
    BY DEF TypeOK
  <1>1. ASSUME UNCHANGED <<pushed, leftAtStop>>, \A f : IsWritten(f) => IsWritten(f)',
               \A r \in Sessions : context'[r] = "freed" => context[r] = "freed"
        PROVE LeftInv'
    <2>1. \A k \in 1 .. Len(pushed) : IsWritten(pushed[k]) => IsWritten(pushed[k])'
      BY <1>1 DEF IsWritten
    <2> QED
      BY <1>1, <2>1 DEF LeftInv, IsWritten
  <1>2. ASSUME written' = written PROVE \A f : IsWritten(f) => IsWritten(f)'
    BY <1>2 DEF IsWritten
  <1>3. CASE UNCHANGED vars
    BY <1>1, <1>2, <1>3 DEF vars, output
  <1>4. ASSUME NEW s \in Sessions, Begin(s) PROVE LeftInv'
    <2>1. \A r \in Sessions : context'[r] = "freed" => context[r] = "freed"
      BY <1>4 DEF Begin, TypeOK
    <2> QED
      BY <1>1, <1>2, <1>4, <2>1 DEF Begin
  <1>5. ASSUME NEW s \in Sessions, NEW t \in Tracks, Discover(s, t) PROVE LeftInv'
    BY <1>1, <1>2, <1>5 DEF Discover
  <1>6. ASSUME NEW s \in Sessions, NEW t \in Tracks, OnDataReady(s, t) PROVE LeftInv'
    <2> DEFINE frame == <<s, FramesOf(s) + 1, t>>
    <2>1. frame \in Frames /\ frame[1] = s
      BY <1>6, FreshFrame DEF OnDataReady
    <2>2. /\ pushed' = Append(pushed, frame) /\ written' = written /\ leftAtStop' = leftAtStop
          /\ des[s].step = "running"
      BY <1>6 DEF OnDataReady, Runs
    <2>3. context[s] # "freed" /\ \A r \in Sessions : context'[r] = "freed" => context[r] = "freed"
      BY <1>6, <2>2 DEF OnDataReady, LifeInv, TypeOK
    <2> HIDE DEF frame
    <2>4. /\ Len(pushed') = Len(pushed) + 1 /\ \A i \in 1 .. Len(pushed) : pushed'[i] = pushed[i]
          /\ pushed'[Len(pushed) + 1] = frame
      BY <2>1, <2>2, AppendElements DEF TypeOK
    <2>5. ASSUME NEW r \in Sessions, context'[r] = "freed", r \notin leftAtStop',
                 NEW k \in 1 .. Len(pushed'), pushed'[k][1] = r
          PROVE  IsWritten(pushed'[k])
      <3>1. context[r] = "freed" /\ r # s /\ r \notin leftAtStop
        BY <2>2, <2>3, <2>5
      <3>2. k # Len(pushed) + 1
        BY <2>1, <2>4, <2>5, <3>1
      <3>3. k \in 1 .. Len(pushed) /\ pushed'[k] = pushed[k]
        BY <1>0, <2>4, <3>2
      <3> QED
        BY <2>5, <3>1, <3>3 DEF LeftInv
    <2> QED
      BY <2>2, <2>5 DEF LeftInv, IsWritten
  <1>7. ASSUME NEW s \in Sessions, Increment(s) PROVE LeftInv'
    BY <1>1, <1>2, <1>7 DEF Increment, output
  <1>8. ASSUME NEW w \in Sessions, WriterNext(w) PROVE LeftInv'
    <2>1. UNCHANGED <<output, pushed>>
      BY <1>8 DEF WriterNext, TestSize, ReadFront, Decrement, Advance,
         BeginWrite, EndWrite
    <2>2. \A f : IsWritten(f) => IsWritten(f)'
      <3>1. CASE written' = written
        BY <1>2, <3>1
      <3>2. CASE EndWrite(w) /\ written' = Append(written, writer[w].frame)
        <4>1. DOMAIN written = 1 .. Len(written) /\ DOMAIN written' = 1 .. Len(written) + 1
              /\ Len(written) \in Nat /\ \A i \in 1 .. Len(written) : written'[i] = written[i]
          BY <3>2 DEF TypeOK
        <4> QED
          BY <4>1 DEF IsWritten
      <3> QED
        BY <1>8, <3>1, <3>2 DEF WriterNext, TestSize, ReadFront, Decrement, Advance,
         BeginWrite, EndWrite
    <2> QED
      BY <1>1, <2>1, <2>2 DEF output
  <1>9. ASSUME NEW s \in Sessions, StopMuxer(s) \/ ReleaseOutput(s) PROVE LeftInv'
    <2>1. StopOrRelease(s)
      BY <1>9 DEF StopMuxer, ReleaseOutput
    <2>2. UNCHANGED <<pushed, written>>
      BY <2>1 DEF StopOrRelease
    <2>3. CASE started[s]
      <3>1. NativeStop(s)
        BY <2>1, <2>3 DEF StopOrRelease
      <3>2. \A r \in Sessions \ {s} : context'[r] = context[r]
        BY <3>1 DEF NativeStop, TypeOK
      <3>3. CASE \E i \in DOMAIN pushed : pushed[i][1] = s /\ ~IsWritten(pushed[i])
        <4>1. leftAtStop' = leftAtStop \cup {s}
          BY <3>1, <3>3 DEF NativeStop
        <4> QED
          BY <2>2, <3>2, <4>1 DEF LeftInv, IsWritten
      <3>4. CASE ~(\E i \in DOMAIN pushed : pushed[i][1] = s /\ ~IsWritten(pushed[i]))
        <4>1. leftAtStop' = leftAtStop
          BY <3>1, <3>4 DEF NativeStop
        <4>2. \A k \in 1 .. Len(pushed) : pushed[k][1] = s => IsWritten(pushed[k])
          BY <1>0, <3>4
        <4> QED
          BY <2>2, <3>2, <4>1, <4>2 DEF LeftInv, IsWritten
      <3> QED
        BY <3>3, <3>4
    <2>4. CASE ~started[s]
      BY <1>1, <1>2, <2>1, <2>2, <2>4 DEF StopOrRelease
    <2> QED
      BY <2>3, <2>4
  <1> QED
    BY <1>3, <1>4, <1>5, <1>6, <1>7, <1>8, <1>9 DEF Next

-----------------------------------------------------------------------------
(* The queue                                                               *)

(* As long as operations do not overlap, start is in the frames pushed.    *)
LEMMA StartBound ==
  ASSUME TypeOK, QueueInv, ~overlapped
  PROVE  start \in Nat /\ start <= Len(pushed)
  <1>0. start \in Nat /\ size \in Int /\ size >= 0 /\ Len(pushed) \in Nat
    BY DEF TypeOK
  <1>1. CASE \E s \in Sessions : Pushes(s)
    <2>1. start + size + 1 = Len(pushed)
      BY <1>1 DEF QueueInv
    <2> QED
      BY <1>0, <2>1
  <1>2. CASE \E w \in Sessions : Pops(w)
    <2>1. start + size = Len(pushed) \/ start + size + 1 = Len(pushed)
      BY <1>2 DEF QueueInv, Pops
    <2> QED
      BY <1>0, <2>1
  <1>3. CASE \A s \in Sessions : ~Pushes(s) /\ ~Pops(s)
    <2>1. start + size = Len(pushed)
      BY <1>3 DEF QueueInv
    <2> QED
      BY <1>0, <2>1
  <1> QED
    BY <1>1, <1>2, <1>3

(* An operation begins only when no other is under way.                    *)
LEMMA NoneUnderWay ==
  ASSUME TypeOK, BeginOperation, ~overlapped'
  PROVE  ~overlapped /\ \A s \in Sessions : ~Pushes(s) /\ ~Pops(s)
  BY Zenon DEF BeginOperation

(* A step that is none of the queue's.                                     *)
LEMMA QuietStep ==
  ASSUME QueueInv, UNCHANGED <<start, size, slot, pushed, overlapped>>,
         \A s \in Sessions : des'[s] = des[s] \/ (~Pushes(s) /\ ~Pushes(s)'),
         \A w \in Sessions : writer'[w] = writer[w] \/ (~Pops(w) /\ ~Pops(w)')
  PROVE  QueueInv'
  <1> SUFFICES ASSUME ~overlapped' PROVE QueueInv'
    BY DEF QueueInv
  <1>1. ~overlapped
    OBVIOUS
  <1>2. /\ \A s \in Sessions : Pushes(s)' <=> Pushes(s)
        /\ \A s \in Sessions : Pushes(s) => des'[s] = des[s]
        /\ \A w \in Sessions : Pops(w)' <=> Pops(w)
        /\ \A w \in Sessions : Pops(w) => writer'[w] = writer[w]
    BY DEF Pushes, Pops
  <1>3. OneOperation'
    BY <1>1, <1>2 DEF QueueInv, OneOperation
  <1>4. \A w \in Sessions :
          writer'[w].step \in {"fronting", "decrementing", "advancing"} =>
            writer'[w] = writer[w]
    BY <1>2 DEF Pops
  <1>5. /\ size >= 0 /\ DOMAIN slot = 0 .. Len(pushed) - 1
        /\ \A i \in 0 .. Len(pushed) - 1 : slot[i] = pushed[i + 1]
    BY <1>1 DEF QueueInv
  <1>6. \A s \in Sessions : Pushes(s)' => des'[s].size = size /\ start + size + 1 = Len(pushed)
    BY <1>1, <1>2 DEF QueueInv
  <1>7. (\A s \in Sessions : ~Pushes(s)' /\ ~Pops(s)') => start + size = Len(pushed)
    BY <1>1, <1>2 DEF QueueInv
  <1>8. \A w \in Sessions :
         /\ writer'[w].step \in {"fronting", "decrementing"} =>
              writer'[w].size = size /\ size # 0 /\ start + size = Len(pushed)
         /\ writer'[w].step = "decrementing" => writer'[w].frame = pushed[start + 1]
         /\ writer'[w].step = "advancing" =>
              start + size + 1 = Len(pushed) /\ writer'[w].frame = pushed[start + 1]
    BY <1>1, <1>4 DEF QueueInv
  <1> QED
    BY <1>3, <1>5, <1>6, <1>7, <1>8 DEF QueueInv

(* A frame is pushed behind the others, in the slot behind the last.       *)
LEMMA PushQueue ==
  ASSUME TypeOK, QueueInv, NEW s \in Sessions, NEW t \in Tracks, OnDataReady(s, t),
         ~overlapped'
  PROVE  QueueInv'
  <1> DEFINE frame == <<s, FramesOf(s) + 1, t>>
  <1>1. ~overlapped /\ \A r \in Sessions : ~Pushes(r) /\ ~Pops(r)
    BY NoneUnderWay DEF OnDataReady
  <1>2. frame \in Frames
    BY FreshFrame DEF OnDataReady
  <1>3. start + size = Len(pushed) /\ size >= 0 /\ start \in Nat /\ size \in Int
    BY <1>1 DEF QueueInv, TypeOK
  <1>4. /\ DOMAIN slot' = DOMAIN slot \cup {start + size} /\ slot'[start + size] = frame
        /\ \A i \in DOMAIN slot : i # start + size => slot'[i] = slot[i]
        /\ pushed' = Append(pushed, frame)
    BY SlotFilled
  <1>5. /\ start' = start /\ size' = size
        /\ des' = [des EXCEPT ![s] = [step |-> "incrementing", size |-> size]]
    BY DEF OnDataReady
  <1>6. \A w \in Sessions : writer'[w].step \notin {"fronting", "decrementing", "advancing"}
    <2>1. CASE started[s]
      BY <1>1, <2>1 DEF OnDataReady, Pops
    <2>2. CASE ~started[s]
      <3>1. writer' = [writer EXCEPT ![s] = Thread("testing")]
        BY <2>2 DEF OnDataReady
      <3> QED
        BY <1>1, <3>1 DEF Pops, Thread, TypeOK
    <2> QED
      BY <2>1, <2>2
  <1> HIDE DEF frame
  <1>7. /\ Len(pushed) \in Nat /\ Len(pushed') = Len(pushed) + 1
        /\ \A i \in 1 .. Len(pushed) : pushed'[i] = pushed[i]
        /\ pushed'[Len(pushed) + 1] = frame
    BY <1>2, <1>4, AppendElements DEF TypeOK
  <1>8. /\ \A r \in Sessions : Pushes(r)' <=> r = s
        /\ \A w \in Sessions : ~Pops(w)'
        /\ des'[s].size = size
    BY <1>1, <1>5, <1>6 DEF Pushes, Pops, TypeOK
  <1>9. OneOperation'
    BY <1>8 DEF OneOperation
  <1>10. DOMAIN slot' = 0 .. Len(pushed') - 1
    BY <1>1, <1>3, <1>4, <1>7 DEF QueueInv
  <1>11. ASSUME NEW i \in 0 .. Len(pushed') - 1 PROVE slot'[i] = pushed'[i + 1]
    <2>1. CASE i = Len(pushed)
      BY <2>1, <1>3, <1>4, <1>7
    <2>2. CASE i \in 0 .. Len(pushed) - 1
      <3>1. slot'[i] = slot[i] /\ slot[i] = pushed[i + 1]
        BY <2>2, <1>1, <1>3, <1>4, <1>7 DEF QueueInv
      <3>2. i + 1 \in 1 .. Len(pushed)
        BY <2>2, <1>7
      <3> QED
        BY <3>1, <3>2, <1>7
    <2> QED
      BY <2>1, <2>2, <1>7
  <1>12. start' + size' + 1 = Len(pushed')
    BY <1>3, <1>5, <1>7
  <1> QED
    BY <1>3, <1>5, <1>6, <1>8, <1>9, <1>10, <1>11, <1>12 DEF QueueInv

(* Then its size counts it.                                                *)
LEMMA IncrementQueue ==
  ASSUME TypeOK, QueueInv, NEW s \in Sessions, Increment(s), ~overlapped'
  PROVE  QueueInv'
  <1>1. ~overlapped /\ Pushes(s)
    BY DEF Increment, Pushes
  <1>2. /\ UNCHANGED <<start, slot, pushed, writer>>
        /\ des' = [des EXCEPT ![s] = [step |-> "running", size |-> 0]]
        /\ size' = des[s].size + 1
    BY DEF Increment, Incremented
  <1>3. des[s].size = size /\ start + size + 1 = Len(pushed)
    BY <1>1 DEF QueueInv
  <1>4. /\ \A r \in Sessions : Pushes(r) => r = s
        /\ \A w \in Sessions : ~Pops(w)
    BY <1>1 DEF QueueInv, OneOperation
  <1>5. \A r \in Sessions : ~Pushes(r)' /\ ~Pops(r)'
    BY <1>2, <1>4 DEF Pushes, Pops, TypeOK
  <1>6. start' + size' = Len(pushed') /\ size' >= 0
    BY <1>1, <1>2, <1>3 DEF QueueInv, TypeOK
  <1>7. OneOperation'
    BY <1>5 DEF OneOperation
  <1>8. /\ DOMAIN slot' = 0 .. Len(pushed') - 1
        /\ \A i \in 0 .. Len(pushed') - 1 : slot'[i] = pushed'[i + 1]
    BY <1>1, <1>2 DEF QueueInv
  <1>9. \A w \in Sessions : writer'[w].step \notin {"fronting", "decrementing", "advancing"}
    BY <1>5 DEF Pops
  <1> QED
    BY <1>5, <1>6, <1>7, <1>8, <1>9 DEF QueueInv

(* A writer begins its operation with the size it sees.                    *)
LEMMA TestQueue ==
  ASSUME TypeOK, QueueInv, NEW w \in Sessions, TestSize(w), ~overlapped'
  PROVE  QueueInv'
  <1>1. ~overlapped /\ \A r \in Sessions : ~Pushes(r) /\ ~Pops(r)
    BY NoneUnderWay DEF TestSize
  <1>2. UNCHANGED <<start, size, slot, pushed, des>> /\ size # 0
    BY DEF TestSize, queue
  <1>3. /\ writer'[w].step = "fronting" /\ writer'[w].size = size
        /\ \A v \in Sessions \ {w} : writer'[v] = writer[v]
    BY DEF TestSize, TypeOK
  <1>4. /\ \A r \in Sessions : ~Pushes(r)'
        /\ \A v \in Sessions : Pops(v)' <=> v = w
    BY <1>1, <1>2, <1>3 DEF Pushes, Pops
  <1>5. /\ start + size = Len(pushed) /\ size >= 0
        /\ DOMAIN slot = 0 .. Len(pushed) - 1
        /\ \A i \in 0 .. Len(pushed) - 1 : slot[i] = pushed[i + 1]
    BY <1>1 DEF QueueInv
  <1>6. OneOperation'
    BY <1>4 DEF OneOperation
  <1>7. \A v \in Sessions : v # w => writer'[v].step \notin {"fronting", "decrementing", "advancing"}
    BY <1>1, <1>3 DEF Pops
  <1> QED
    BY <1>2, <1>3, <1>4, <1>5, <1>6, <1>7 DEF QueueInv

(* It reads the first of the frames that wait.                             *)
LEMMA FrontQueue ==
  ASSUME TypeOK, QueueInv, NEW w \in Sessions, ReadFront(w), ~overlapped'
  PROVE  QueueInv'
  <1>1. ~overlapped /\ Pops(w) /\ writer[w].step = "fronting"
    BY DEF ReadFront, Pops
  <1>2. UNCHANGED <<start, size, slot, pushed, des>>
    BY DEF ReadFront, queue
  <1>3. /\ writer'[w].step = "decrementing" /\ writer'[w].size = writer[w].size
        /\ writer'[w].frame = At(start)
        /\ \A v \in Sessions \ {w} : writer'[v] = writer[v]
    BY DEF ReadFront, TypeOK
  <1>4. /\ writer[w].size = size /\ size # 0 /\ start + size = Len(pushed) /\ size >= 0
        /\ DOMAIN slot = 0 .. Len(pushed) - 1
        /\ \A i \in 0 .. Len(pushed) - 1 : slot[i] = pushed[i + 1]
    BY <1>1 DEF QueueInv
  <1>5. At(start) = pushed[start + 1]
    <2>1. start \in 0 .. Len(pushed) - 1
      BY <1>4 DEF TypeOK
    <2> QED
      BY <2>1, <1>4 DEF At
  <1>6. /\ \A r \in Sessions : ~Pushes(r)
        /\ \A v \in Sessions : Pops(v) => v = w
    BY <1>1 DEF QueueInv, OneOperation
  <1>7. /\ \A r \in Sessions : ~Pushes(r)'
        /\ \A v \in Sessions : Pops(v)' <=> v = w
    BY <1>2, <1>3, <1>6 DEF Pushes, Pops
  <1>8. OneOperation'
    BY <1>7 DEF OneOperation
  <1>9. \A v \in Sessions : v # w => writer'[v].step \notin {"fronting", "decrementing", "advancing"}
    BY <1>7 DEF Pops
  <1> QED
    BY <1>2, <1>3, <1>4, <1>5, <1>7, <1>8, <1>9 DEF QueueInv

(* The size no longer counts it.                                           *)
LEMMA DecrementQueue ==
  ASSUME TypeOK, QueueInv, NEW w \in Sessions, Decrement(w), ~overlapped'
  PROVE  QueueInv'
  <1>1. ~overlapped /\ Pops(w) /\ writer[w].step = "decrementing"
    BY DEF Decrement, Pops
  <1>2. UNCHANGED <<start, slot, pushed, des>> /\ size' = writer[w].size - 1
    BY DEF Decrement, Decremented
  <1>3. /\ writer'[w].step = "advancing" /\ writer'[w].frame = writer[w].frame
        /\ \A v \in Sessions \ {w} : writer'[v] = writer[v]
    BY DEF Decrement, TypeOK
  <1>4. /\ writer[w].size = size /\ size # 0 /\ start + size = Len(pushed) /\ size >= 0
        /\ writer[w].frame = pushed[start + 1]
        /\ DOMAIN slot = 0 .. Len(pushed) - 1
        /\ \A i \in 0 .. Len(pushed) - 1 : slot[i] = pushed[i + 1]
    BY <1>1 DEF QueueInv
  <1>5. start' + size' + 1 = Len(pushed') /\ size' >= 0
    BY <1>2, <1>4 DEF TypeOK
  <1>6. /\ \A r \in Sessions : ~Pushes(r)
        /\ \A v \in Sessions : Pops(v) => v = w
    BY <1>1 DEF QueueInv, OneOperation
  <1>7. /\ \A r \in Sessions : ~Pushes(r)'
        /\ \A v \in Sessions : Pops(v)' <=> v = w
    BY <1>2, <1>3, <1>6 DEF Pushes, Pops
  <1>8. OneOperation'
    BY <1>7 DEF OneOperation
  <1>9. \A v \in Sessions : v # w => writer'[v].step \notin {"fronting", "decrementing", "advancing"}
    BY <1>7 DEF Pops
  <1> QED
    BY <1>2, <1>3, <1>4, <1>5, <1>7, <1>8, <1>9 DEF QueueInv

(* The next frame is the first.                                            *)
LEMMA AdvanceQueue ==
  ASSUME TypeOK, QueueInv, NEW w \in Sessions, Advance(w), ~overlapped'
  PROVE  QueueInv'
  <1>1. ~overlapped /\ Pops(w) /\ writer[w].step = "advancing"
    BY DEF Advance, Pops
  <1>2. UNCHANGED <<size, slot, pushed, des>> /\ start' = start + 1
    BY DEF Advance
  <1>3. /\ writer'[w].step = "writing"
        /\ \A v \in Sessions \ {w} : writer'[v] = writer[v]
    BY DEF Advance, TypeOK
  <1>4. /\ start + size + 1 = Len(pushed) /\ size >= 0
        /\ DOMAIN slot = 0 .. Len(pushed) - 1
        /\ \A i \in 0 .. Len(pushed) - 1 : slot[i] = pushed[i + 1]
    BY <1>1 DEF QueueInv
  <1>5. start' + size' = Len(pushed')
    BY <1>2, <1>4 DEF TypeOK
  <1>6. /\ \A r \in Sessions : ~Pushes(r)
        /\ \A v \in Sessions : Pops(v) => v = w
    BY <1>1 DEF QueueInv, OneOperation
  <1>7. \A r \in Sessions : ~Pushes(r)' /\ ~Pops(r)'
    BY <1>2, <1>3, <1>6 DEF Pushes, Pops
  <1>8. OneOperation'
    BY <1>7 DEF OneOperation
  <1>9. \A v \in Sessions : writer'[v].step \notin {"fronting", "decrementing", "advancing"}
    BY <1>7 DEF Pops
  <1> QED
    BY <1>2, <1>4, <1>5, <1>7, <1>8, <1>9 DEF QueueInv

LEMMA NextQueue == TypeOK /\ QueueInv /\ [Next]_vars => QueueInv'
  <1> SUFFICES ASSUME TypeOK, QueueInv, [Next]_vars, ~overlapped' PROVE QueueInv'
    BY DEF QueueInv
  <1>1. CASE UNCHANGED vars
    BY <1>1, QuietStep DEF vars, queue
  <1>2. ASSUME NEW s \in Sessions, Begin(s) PROVE QueueInv'
    <2>1. \A r \in Sessions : des'[r] = des[r] \/ (~Pushes(r) /\ ~Pushes(r)')
      BY <1>2 DEF Begin, Pushes, TypeOK
    <2>2. \A w \in Sessions : writer'[w] = writer[w] \/ (~Pops(w) /\ ~Pops(w)')
      BY <1>2 DEF Begin
    <2>3. UNCHANGED <<start, size, slot, pushed, overlapped>>
      BY <1>2 DEF Begin, queue
    <2> QED
      BY <2>1, <2>2, <2>3, QuietStep
  <1>3. ASSUME NEW s \in Sessions, NEW t \in Tracks, Discover(s, t) PROVE QueueInv'
    BY <1>3, QuietStep DEF Discover, queue
  <1>4. ASSUME NEW s \in Sessions, NEW t \in Tracks, OnDataReady(s, t) PROVE QueueInv'
    BY <1>4, PushQueue
  <1>5. ASSUME NEW s \in Sessions, Increment(s) PROVE QueueInv'
    BY <1>5, IncrementQueue
  <1>6. ASSUME NEW w \in Sessions, WriterNext(w) PROVE QueueInv'
    <2>1. CASE BeginWrite(w) \/ EndWrite(w)
      <3>1. \A r \in Sessions : des'[r] = des[r] \/ (~Pushes(r) /\ ~Pushes(r)')
        BY <2>1 DEF BeginWrite, EndWrite
      <3>2. \A v \in Sessions : writer'[v] = writer[v] \/ (~Pops(v) /\ ~Pops(v)')
        <4>1. CASE BeginWrite(w)
          BY <4>1 DEF BeginWrite, Pops, TypeOK
        <4>2. CASE EndWrite(w)
          BY <4>2 DEF EndWrite, GoesOn, Thread, Pops, TypeOK
        <4> QED
          BY <2>1, <4>1, <4>2
      <3>3. UNCHANGED <<start, size, slot, pushed, overlapped>>
        BY <2>1 DEF BeginWrite, EndWrite, queue
      <3> QED
        BY <3>1, <3>2, <3>3, QuietStep
    <2> QED
      BY <1>6, <2>1, TestQueue, FrontQueue, DecrementQueue, AdvanceQueue DEF WriterNext
  <1>7. ASSUME NEW s \in Sessions, StopMuxer(s) \/ ReleaseOutput(s) PROVE QueueInv'
    <2>1. StopOrRelease(s)
      BY <1>7 DEF StopMuxer, ReleaseOutput
    <2>2. \A r \in Sessions : des'[r] = des[r] \/ (~Pushes(r) /\ ~Pushes(r)')
      <3>1. CASE StopMuxer(s)
        BY <3>1 DEF StopMuxer, Runs, Pushes, TypeOK
      <3>2. CASE ReleaseOutput(s)
        BY <3>2 DEF ReleaseOutput, Pushes, TypeOK
      <3> QED
        BY <1>7, <3>1, <3>2
    <2>3. UNCHANGED <<start, size, slot, pushed, overlapped, writer>>
      BY <2>1 DEF StopOrRelease, queue
    <2> QED
      BY <2>2, <2>3, QuietStep
  <1> QED
    BY <1>1, <1>2, <1>3, <1>4, <1>5, <1>6, <1>7 DEF Next

-----------------------------------------------------------------------------
(* What was taken off the queue, and what was written                      *)

(* A writer goes on with the frame that it had, or without one.            *)
SameFrame(w) == /\ Holds(w)' <=> Holds(w)
                /\ Holds(w) => writer'[w].frame = writer[w].frame

LEMMA SameWriter ==
  ASSUME NEW w, writer'[w] = writer[w] PROVE SameFrame(w)
  BY DEF SameFrame, Holds

(* A step that takes nothing off the queue and writes nothing.             *)
LEMMA QuietTaken ==
  ASSUME TypeOK, QueueInv, TakenInv, OrderInv, overlapped => overlapped', Alive' => Alive,
         UNCHANGED <<start, written>>, begun \subseteq begun',
         \A k \in 1 .. Len(pushed) : pushed'[k] = pushed[k],
         \A w \in Sessions : SameFrame(w)
  PROVE  TakenInv' /\ OrderInv'
  <1> SUFFICES ASSUME ~overlapped' PROVE TakenInv' /\ OrderInv'
    BY DEF TakenInv, OrderInv
  <1>1. ~overlapped
    OBVIOUS
  <1>2. \A k \in 1 .. start : pushed'[k] = pushed[k]
    BY <1>1, StartBound
  <1>3. /\ \A w \in Sessions : Holds(w)' <=> Holds(w)
        /\ \A w \in Sessions : Holds(w) => writer'[w].frame = writer[w].frame
    BY DEF SameFrame
  <1>4. TakenInv'
    BY <1>1, <1>2, <1>3 DEF TakenInv, WasTaken, IsWritten
  <1>5. OrderInv'
    <2> SUFFICES ASSUME \A s, r \in begun' : s = r PROVE OrderInv'
      BY DEF OrderInv
    <2>1. /\ Len(written) <= start
          /\ \A j \in 1 .. Len(written) : written[j] = pushed[j]
          /\ Alive => \A w \in Sessions : Holds(w) =>
               start = Len(written) + 1 /\ writer[w].frame = pushed[start]
          /\ Alive /\ (\A w \in Sessions : ~Holds(w)) => start = Len(written)
      BY <1>1 DEF OrderInv
    <2>2. start \in Nat /\ Len(written) \in Nat
      BY DEF TypeOK
    <2>3. \A j \in 1 .. Len(written) : written[j] = pushed'[j]
      BY <1>2, <2>1, <2>2
    <2>4. Alive' => \A w \in Sessions : Holds(w)' =>
               start = Len(written) + 1 /\ writer'[w].frame = pushed'[start]
      BY <1>2, <1>3, <2>1, <2>2
    <2> QED
      BY <1>3, <2>1, <2>3, <2>4 DEF OrderInv
  <1> QED
    BY <1>4, <1>5

(* The frame after those taken off is none of them.                        *)
LEMMA NextIsFresh ==
  ASSUME TypeOK, FrameInv, start + 1 <= Len(pushed), NEW f, WasTaken(f)
  PROVE  f # pushed[start + 1]
  <1>1. PICK k \in 1 .. start : pushed[k] = f
    BY DEF WasTaken
  <1>2. k \in 1 .. Len(pushed) /\ start + 1 \in 1 .. Len(pushed) /\ k # start + 1
    BY DEF TypeOK
  <1> QED
    BY <1>1, <1>2 DEF FrameInv

(* A writer takes a frame off the queue.                                   *)
LEMMA AdvanceTaken ==
  ASSUME TypeOK, LifeInv, FrameInv, QueueInv, TakenInv, OrderInv,
         NEW w \in Sessions, Advance(w)
  PROVE  TakenInv' /\ OrderInv'
  <1> SUFFICES ASSUME ~overlapped' PROVE TakenInv' /\ OrderInv'
    BY DEF TakenInv, OrderInv
  <1>1. ~overlapped /\ Alive /\ writer[w].step = "advancing"
    BY DEF Advance
  <1>2. UNCHANGED <<begun, pushed, written, failure>> /\ start' = start + 1
    BY DEF Advance, output
  <1>3. /\ Holds(w)' /\ writer'[w].frame = writer[w].frame
        /\ \A v \in Sessions \ {w} : writer'[v] = writer[v] /\ (Holds(v)' <=> Holds(v))
    BY DEF Advance, TypeOK, Holds
  <1>4. writer[w].frame = pushed[start + 1] /\ start + 1 <= Len(pushed) /\ start \in Nat
    <2>1. start + size + 1 = Len(pushed) /\ size >= 0 /\ writer[w].frame = pushed[start + 1]
      BY <1>1 DEF QueueInv
    <2> QED
      BY <2>1 DEF TypeOK
  <1>5. \A f : WasTaken(f) => f # writer[w].frame /\ WasTaken(f)'
    <2>1. \A f : WasTaken(f) => f # writer[w].frame
      BY <1>4, NextIsFresh
    <2>2. \A f : WasTaken(f) => WasTaken(f)'
      BY <1>2, <1>4 DEF WasTaken
    <2> QED
      BY <2>1, <2>2
  <1>6. \E k \in 1 .. start' : pushed'[k] = writer[w].frame
    BY <1>2, <1>4
  <1>7. DOMAIN written = 1 .. Len(written)
    BY DEF TypeOK
  <1>8. ~IsWritten(writer[w].frame)
    BY <1>1, <1>5, <1>7 DEF TakenInv, IsWritten
  <1>9. TakenInv'
    <2>1. ASSUME NEW v \in Sessions, Holds(v)'
          PROVE  /\ \E k \in 1 .. start' : pushed'[k] = writer'[v].frame
                 /\ ~\E i \in DOMAIN written' : written'[i] = writer'[v].frame
      <3>1. CASE v = w
        BY <3>1, <1>2, <1>3, <1>6, <1>8 DEF IsWritten
      <3>2. CASE v # w
        <4>1. Holds(v) /\ writer'[v] = writer[v]
          BY <1>3, <2>1, <3>2
        <4>2. WasTaken(writer[v].frame) /\ ~IsWritten(writer[v].frame)
          BY <1>1, <4>1 DEF TakenInv
        <4> QED
          BY <1>2, <1>5, <4>1, <4>2 DEF IsWritten, WasTaken
      <3> QED
        BY <3>1, <3>2
    <2>2. ASSUME NEW u \in Sessions, NEW v \in Sessions, Holds(u)',
                 Holds(v)', writer'[u].frame = writer'[v].frame
          PROVE  u = v
      <3>1. \A x \in Sessions : x # w /\ Holds(x)' =>
              writer'[x].frame # writer'[w].frame
        BY <1>1, <1>3, <1>5 DEF TakenInv
      <3>2. CASE u # w /\ v # w
        BY <1>1, <1>3, <2>2, <3>2 DEF TakenInv
      <3> QED
        BY <2>2, <3>1, <3>2
    <2>3. \A j \in 1 .. Len(written') : \E k \in 1 .. start' : pushed'[k] = written'[j]
      BY <1>1, <1>2, <1>5 DEF TakenInv, WasTaken
    <2>4. ASSUME NEW k \in 1 .. start'
          PROVE  \/ IsWritten(pushed[k])
                 \/ \E v \in Sessions : Holds(v)' /\ writer'[v].frame = pushed[k]
      <3>1. CASE k = start + 1
        BY <3>1, <1>3, <1>4
      <3>2. CASE k \in 1 .. start
        <4>1. \/ IsWritten(pushed[k])
              \/ \E v \in Sessions : Holds(v) /\ writer[v].frame = pushed[k]
          BY <1>1, <3>2 DEF TakenInv
        <4> QED
          BY <1>1, <1>3, <4>1
      <3> QED
        BY <1>2, <1>4, <3>1, <3>2
    <2> QED
      BY <1>2, <2>1, <2>2, <2>3, <2>4 DEF TakenInv, WasTaken, IsWritten
  <1>10. OrderInv'
    <2> SUFFICES ASSUME \A s, r \in begun : s = r PROVE OrderInv'
      BY <1>2 DEF OrderInv
    <2>1. \A v \in Sessions : writer[v].step # "none" => v = w
      BY <1>1 DEF LifeInv
    <2>4. \A v \in Sessions : ~Holds(v)
      BY <1>1, <2>1 DEF Holds
    <2>2. start = Len(written) /\ \A j \in 1 .. Len(written) : written[j] = pushed[j]
      BY <1>1, <2>4 DEF OrderInv
    <2>3. \A v \in Sessions : Holds(v)' => v = w
      BY <1>3, <2>4
    <2> QED
      BY <1>2, <1>3, <1>4, <2>2, <2>3 DEF OrderInv
  <1> QED
    BY <1>9, <1>10

(* A writer writes its frame, or what it has is not to be used.            *)
LEMMA WriteTaken ==
  ASSUME TypeOK, LifeInv, FrameInv, QueueInv, TakenInv, OrderInv, MuxingInv,
         NEW w \in Sessions, EndWrite(w)
  PROVE  TakenInv' /\ OrderInv'
  <1> DEFINE frame == writer[w].frame
  <1> SUFFICES ASSUME ~overlapped' PROVE TakenInv' /\ OrderInv'
    BY DEF TakenInv, OrderInv
  <1>1. ~overlapped /\ Alive /\ Holds(w)
    BY DEF EndWrite, Holds
  <1>2. UNCHANGED <<begun, start, pushed>>
    BY DEF EndWrite, output, queue
  <1>3. /\ ~Holds(w)'
        /\ \A v \in Sessions \ {w} : writer'[v] = writer[v] /\ (Holds(v)' <=> Holds(v))
    BY DEF EndWrite, GoesOn, Thread, TypeOK, Holds
  <1>4. WasTaken(frame) /\ ~IsWritten(frame)
    BY <1>1 DEF TakenInv
  <1>5. /\ Len(written) \in Nat /\ DOMAIN written = 1 .. Len(written) /\ start \in Nat
    BY DEF TypeOK
  <1>6. \A v \in Sessions : v # w /\ Holds(v) => writer[v].frame # frame
    BY <1>1 DEF TakenInv
  <1>7. CASE failure' = "none"
    <2>1. written' = Append(written, frame)
      BY <1>7 DEF EndWrite
    <2>2. frame \in Frames
      <3>1. frame \in Frames \cup {NoFrame}
        BY DEF TypeOK
      <3>2. frame # NoFrame
        BY DEF EndWrite, MuxingInv
      <3> QED
        BY <3>1, <3>2
    <2> HIDE DEF frame
    <2>3. /\ Len(written') = Len(written) + 1 /\ DOMAIN written' = 1 .. Len(written) + 1
          /\ \A j \in 1 .. Len(written) : written'[j] = written[j]
          /\ written'[Len(written) + 1] = frame
      BY <2>1, <2>2, AppendElements DEF TypeOK
    <2>4. \A f : (\E j \in DOMAIN written' : written'[j] = f) <=> IsWritten(f) \/ f = frame
      BY <1>5, <2>3 DEF IsWritten
    <2>5. TakenInv'
      <3>1. ASSUME NEW v \in Sessions, Holds(v)'
            PROVE  /\ WasTaken(writer'[v].frame)
                   /\ ~\E i \in DOMAIN written' : written'[i] = writer'[v].frame
        <4>1. v # w /\ Holds(v) /\ writer'[v] = writer[v]
          BY <1>3, <3>1
        <4>2. WasTaken(writer[v].frame) /\ ~IsWritten(writer[v].frame) /\ writer[v].frame # frame
          BY <1>1, <1>6, <4>1 DEF TakenInv
        <4> QED
          BY <2>4, <4>1, <4>2
      <3>2. ASSUME NEW u \in Sessions, NEW v \in Sessions, Holds(u)',
                   Holds(v)', writer'[u].frame = writer'[v].frame
            PROVE  u = v
        BY <1>1, <1>3, <3>2 DEF TakenInv
      <3>3. \A j \in 1 .. Len(written') : WasTaken(written'[j])
        BY <1>1, <1>4, <1>5, <2>3 DEF TakenInv
      <3>4. ASSUME NEW k \in 1 .. start
            PROVE  \/ \E j \in DOMAIN written' : written'[j] = pushed[k]
                   \/ \E v \in Sessions : Holds(v)' /\ writer'[v].frame = pushed[k]
        <4>1. \/ IsWritten(pushed[k])
              \/ \E v \in Sessions : Holds(v) /\ writer[v].frame = pushed[k]
          BY <1>1 DEF TakenInv
        <4>2. ASSUME NEW v \in Sessions, Holds(v), writer[v].frame = pushed[k]
              PROVE  \/ \E j \in DOMAIN written' : written'[j] = pushed[k]
                     \/ Holds(v)' /\ writer'[v].frame = pushed[k]
          BY <1>3, <2>4, <4>2 DEF frame
        <4> QED
          BY <2>4, <4>1, <4>2
      <3> QED
        BY <1>2, <3>1, <3>2, <3>3, <3>4 DEF TakenInv, WasTaken, IsWritten
    <2>6. OrderInv'
      <3> SUFFICES ASSUME \A s, r \in begun : s = r PROVE OrderInv'
        BY <1>2 DEF OrderInv
      <3>1. \A v \in Sessions : writer[v].step # "none" => v = w
        BY <1>1 DEF LifeInv, Holds
      <3>2. /\ start = Len(written) + 1 /\ frame = pushed[start]
            /\ \A j \in 1 .. Len(written) : written[j] = pushed[j]
        BY <1>1, <3>1 DEF OrderInv, frame
      <3>3. \A v \in Sessions : ~Holds(v)'
        BY <1>3, <3>1 DEF Holds
      <3>4. \A j \in 1 .. Len(written') : written'[j] = pushed[j]
        BY <1>5, <2>3, <3>2
      <3>5. start' = Len(written') /\ Len(written') <= start'
        BY <1>2, <1>5, <2>3, <3>2
      <3>6. \A j \in 1 .. Len(written') : written'[j] = pushed'[j]
        BY <1>2, <3>4
      <3> QED
        BY <3>3, <3>5, <3>6 DEF OrderInv
    <2> QED
      BY <2>5, <2>6
  <1>8. CASE failure' # "none"
    <2>1. written' = written /\ ~Alive'
      BY <1>8 DEF EndWrite, Alive
    <2>2. \A v \in Sessions : Holds(v)' => v # w /\ Holds(v) /\ writer'[v] = writer[v]
      BY <1>3
    <2>3. TakenInv'
      BY <1>1, <1>2, <2>1, <2>2 DEF TakenInv, WasTaken, IsWritten
    <2>4. OrderInv'
      BY <1>1, <1>2, <2>1 DEF OrderInv
    <2> QED
      BY <2>3, <2>4
  <1> QED
    BY <1>7, <1>8

LEMMA NextTaken ==
  TypeOK /\ LifeInv /\ FrameInv /\ QueueInv /\ TakenInv /\ OrderInv /\ MuxingInv /\ [Next]_vars
    => TakenInv' /\ OrderInv'
  <1> SUFFICES ASSUME TypeOK, LifeInv, FrameInv, QueueInv, TakenInv, OrderInv, MuxingInv,
                      [Next]_vars
               PROVE  TakenInv' /\ OrderInv'
    OBVIOUS
  <1>1. CASE UNCHANGED vars
    BY <1>1, QuietTaken, SameWriter DEF vars, output, queue, Alive
  <1>2. ASSUME NEW s \in Sessions, Begin(s) PROVE TakenInv' /\ OrderInv'
    BY <1>2, QuietTaken, SameWriter DEF Begin, queue
  <1>3. ASSUME NEW s \in Sessions, NEW t \in Tracks, Discover(s, t) PROVE TakenInv' /\ OrderInv'
    BY <1>3, QuietTaken, SameWriter DEF Discover, queue, Runs
  <1>4. ASSUME NEW s \in Sessions, NEW t \in Tracks, OnDataReady(s, t)
        PROVE  TakenInv' /\ OrderInv'
    <2> DEFINE frame == <<s, FramesOf(s) + 1, t>>
    <2>1. frame \in Frames
      BY <1>4, FreshFrame DEF OnDataReady
    <2>2. /\ pushed' = Append(pushed, frame) /\ UNCHANGED <<start, written, begun>> /\ Alive
          /\ des[s].step = "running"
      BY <1>4 DEF OnDataReady, Runs
    <2>3. overlapped => overlapped'
      BY <1>4 DEF OnDataReady, BeginOperation
    <2>4. \A w \in Sessions : SameFrame(w)
      <3>1. CASE started[s]
        BY <1>4, <3>1, SameWriter DEF OnDataReady
      <3>2. CASE ~started[s]
        <4>1. writer' = [writer EXCEPT ![s] = Thread("testing")]
          BY <1>4, <3>2 DEF OnDataReady
        <4>2. writer[s].step = "none"
          BY <2>2, <3>2 DEF LifeInv
        <4> QED
          BY <4>1, <4>2 DEF Thread, TypeOK, SameFrame, Holds
      <3> QED
        BY <3>1, <3>2
    <2> HIDE DEF frame
    <2>5. \A k \in 1 .. Len(pushed) : pushed'[k] = pushed[k]
      BY <2>1, <2>2, AppendElements DEF TypeOK
    <2> QED
      BY <2>2, <2>3, <2>4, <2>5, QuietTaken
  <1>5. ASSUME NEW s \in Sessions, Increment(s) PROVE TakenInv' /\ OrderInv'
    BY <1>5, QuietTaken, SameWriter DEF Increment, output
  <1>6. ASSUME NEW w \in Sessions, WriterNext(w) PROVE TakenInv' /\ OrderInv'
    <2>1. CASE TestSize(w) \/ ReadFront(w) \/ Decrement(w) \/ BeginWrite(w)
      <3>1. UNCHANGED <<begun, start, written, pushed>> /\ Alive
        BY <2>1 DEF TestSize, ReadFront, Decrement, BeginWrite, output, queue
      <3>3. overlapped => overlapped'
        BY <2>1, Zenon DEF TestSize, ReadFront, Decrement, BeginWrite, BeginOperation
      <3>2. \A v \in Sessions : SameFrame(v)
        <4>1. CASE TestSize(w)
          BY <4>1 DEF TestSize, TypeOK, SameFrame, Holds
        <4>2. CASE ReadFront(w)
          BY <4>2 DEF ReadFront, TypeOK, SameFrame, Holds
        <4>3. CASE Decrement(w)
          BY <4>3 DEF Decrement, TypeOK, SameFrame, Holds
        <4>4. CASE BeginWrite(w)
          BY <4>4 DEF BeginWrite, TypeOK, SameFrame, Holds
        <4> QED
          BY <2>1, <4>1, <4>2, <4>3, <4>4
      <3> QED
        BY <3>1, <3>2, <3>3, QuietTaken
    <2> QED
      BY <1>6, <2>1, AdvanceTaken, WriteTaken DEF WriterNext
  <1>7. ASSUME NEW s \in Sessions, StopMuxer(s) \/ ReleaseOutput(s) PROVE TakenInv' /\ OrderInv'
    <2>1. StopOrRelease(s) /\ Alive
      BY <1>7 DEF StopMuxer, ReleaseOutput, Runs
    <2>2. UNCHANGED <<begun, queue, writer, pushed, written, overlapped>>
      BY <2>1 DEF StopOrRelease
    <2> QED
      BY <2>1, <2>2, QuietTaken, SameWriter DEF queue
  <1> QED
    BY <1>1, <1>2, <1>3, <1>4, <1>5, <1>6, <1>7 DEF Next

LEMMA NextMuxing == TypeOK /\ MuxingInv /\ [Next]_vars => MuxingInv'
  <1> SUFFICES ASSUME TypeOK, MuxingInv, [Next]_vars, Alive',
                      NEW v \in Sessions, writer'[v].step = "muxing"
               PROVE  writer'[v].frame # NoFrame
    BY DEF MuxingInv
  <1>1. ASSUME writer' = writer, Alive PROVE writer'[v].frame # NoFrame
    BY <1>1 DEF MuxingInv
  <1>2. CASE UNCHANGED vars
    BY <1>1, <1>2 DEF vars, Alive
  <1>3. ASSUME NEW s \in Sessions, NEW t \in Tracks, OnDataReady(s, t)
        PROVE  writer'[v].frame # NoFrame
    <2>1. writer' = writer \/ writer' = [writer EXCEPT ![s] = Thread("testing")]
      BY <1>3 DEF OnDataReady
    <2>2. writer'[v] = writer[v] /\ Alive
      BY <1>3, <2>1 DEF OnDataReady, Runs, Thread, TypeOK
    <2> QED
      BY <2>2 DEF MuxingInv
  <1>4. ASSUME NEW w \in Sessions, WriterNext(w) PROVE writer'[v].frame # NoFrame
    <2>1. CASE BeginWrite(w)
      <3>1. failure' = "none" => writer[w].frame # NoFrame
        BY <2>1 DEF BeginWrite
      <3>2. writer'[v].frame = writer[v].frame /\ (v = w \/ writer'[v] = writer[v])
        BY <2>1 DEF BeginWrite, TypeOK
      <3> QED
        BY <2>1, <3>1, <3>2 DEF BeginWrite, MuxingInv, Alive
    <2>2. CASE ~BeginWrite(w)
      <3>1. writer'[v] = writer[v] /\ Alive
        <4>0. DOMAIN writer = Sessions
          BY DEF TypeOK
        <4>1. CASE TestSize(w)
          BY <4>0, <4>1 DEF TestSize, TypeOK
        <4>2. CASE ReadFront(w)
          BY <4>0, <4>2 DEF ReadFront, TypeOK
        <4>3. CASE Decrement(w)
          BY <4>0, <4>3 DEF Decrement, TypeOK
        <4>4. CASE Advance(w)
          BY <4>0, <4>4 DEF Advance, TypeOK
        <4>5. CASE EndWrite(w)
          BY <4>0, <4>5 DEF EndWrite, GoesOn, Thread, TypeOK
        <4> QED
          BY <1>4, <2>2, <4>1, <4>2, <4>3, <4>4, <4>5 DEF WriterNext
      <3> QED
        BY <3>1 DEF MuxingInv
    <2> QED
      BY <2>1, <2>2
  <1>5. ASSUME NEW s \in Sessions,
               Begin(s) \/ (\E t \in Tracks : Discover(s, t)) \/ Increment(s)
                 \/ StopMuxer(s) \/ ReleaseOutput(s)
        PROVE  writer'[v].frame # NoFrame
    <2>1. writer' = writer /\ Alive
      BY <1>5 DEF Begin, Discover, Increment, StopMuxer, ReleaseOutput, StopOrRelease, Runs
    <2> QED
      BY <1>1, <2>1
  <1> QED
    BY <1>2, <1>3, <1>4, <1>5 DEF Next

-----------------------------------------------------------------------------
(* The invariant                                                           *)

LEMMA InitInv == Init => Inv
  <1> SUFFICES ASSUME Init PROVE Inv
    OBVIOUS
  <1>1. TypeOK
    BY InitType
  <1>2. /\ \A s \in Sessions : /\ started[s] = FALSE /\ context[s] = "none" /\ trailers[s] = 0
                               /\ des[s].step = "unbegun" /\ writer[s] = Thread("none")
        /\ pushed = << >> /\ written = << >> /\ slot = << >> /\ start = 0 /\ size = 0
    BY DEF Init
  <1>3. Thread("none").step = "none" /\ Thread("none").frame = NoFrame
    BY DEF Thread
  <1>4. /\ Len(pushed) = 0 /\ Len(written) = 0 /\ DOMAIN slot = {} /\ 1 .. 0 = {}
        /\ 0 .. Len(pushed) - 1 = {}
    BY <1>2
  <1>5. LifeInv
    BY <1>2, <1>3 DEF LifeInv
  <1>6. FrameInv
    BY <1>2, <1>3, <1>4 DEF FrameInv
  <1>7. LeftInv
    BY <1>2, <1>4 DEF LeftInv
  <1>8. \A s \in Sessions : ~Pushes(s) /\ ~Pops(s)
    BY <1>2, <1>3 DEF Pushes, Pops
  <1>9. QueueInv
    <2>1. OneOperation
      BY <1>8 DEF OneOperation
    <2>2. start + size = Len(pushed) /\ size >= 0
      BY <1>2, <1>4
    <2>3. \A w \in Sessions : writer[w].step \notin {"fronting", "decrementing", "advancing"}
      BY <1>2, <1>3
    <2> QED
      BY <1>4, <1>8, <2>1, <2>2, <2>3 DEF QueueInv
  <1>10. \A w \in Sessions : ~Holds(w) /\ writer[w].step # "muxing"
    BY <1>2, <1>3 DEF Holds
  <1>11. TakenInv
    BY <1>2, <1>4, <1>10 DEF TakenInv
  <1>12. OrderInv
    <2>1. start = Len(written) /\ Len(written) <= start
      BY <1>2, <1>4
    <2> QED
      BY <1>4, <1>10, <2>1 DEF OrderInv
  <1>13. MuxingInv
    BY <1>10 DEF MuxingInv
  <1> QED
    BY <1>1, <1>5, <1>6, <1>7, <1>9, <1>11, <1>12, <1>13 DEF Inv

LEMMA NextInv == Inv /\ [Next]_vars => Inv'
  BY NextType, NextLife, NextFrame, NextLeft, NextQueue, NextTaken, NextMuxing DEF Inv

(* The invariant on which the theorems rest.                               *)
LEMMA Invariant == Spec => []Inv
  BY InitInv, NextInv, PTL DEF Spec

(* Every variable keeps its type, and below zero size does not get unless  *)
(* operations on the queue overlap.                                        *)
THEOREM TypeCorrect == Spec => []TypeOK
  <1>1. Inv => TypeOK
    BY DEF Inv
  <1> QED
    BY <1>1, Invariant, PTL

(* A file that got its header gets exactly one trailer, and none without:  *)
(* the stop and the release of FFmpegMuxer, which follow each other, share *)
(* its flag.                                                               *)
THEOREM OneTrailer == Spec => []ClosedOnce
  <1>1. Inv => ClosedOnce
    BY DEF Inv, LifeInv, ClosedOnce
  <1> QED
    BY <1>1, Invariant, PTL

-----------------------------------------------------------------------------
(* What may go wrong                                                       *)

(* A writer that has a frame nobody pushed, or one that is written, has it *)
(* from operations that overlapped.                                        *)
LEMMA StaleOnlyIfOverlapped ==
  ASSUME Inv, NEW w \in Sessions, Holds(w), ~overlapped
  PROVE  writer[w].frame # NoFrame /\ ~IsWritten(writer[w].frame)
  <1>1. WasTaken(writer[w].frame) /\ ~IsWritten(writer[w].frame)
    BY DEF Inv, TakenInv
  <1>2. PICK k \in 1 .. start : pushed[k] = writer[w].frame
    BY <1>1 DEF WasTaken
  <1>3. start \in Nat /\ start <= Len(pushed)
    BY StartBound DEF Inv
  <1>4. k \in 1 .. Len(pushed)
    BY <1>3 DEF Inv, TypeOK
  <1>5. pushed[k] \in Frames
    BY <1>4 DEF Inv, TypeOK
  <1> QED
    BY <1>1, <1>2, <1>5, FrameParts

(* A writer that has a frame not yet written of an output that is freed    *)
(* has it from a session that stopped too early.                           *)
LEMMA ReleasedOnlyIfLeft ==
  ASSUME Inv, NEW w \in Sessions, writer[w].frame # NoFrame, ~IsWritten(writer[w].frame),
         context[writer[w].frame[1]] # "headed"
  PROVE  leftAtStop # {}
  <1>1. PICK k \in 1 .. Len(pushed) : pushed[k] = writer[w].frame
    BY DEF Inv, FrameInv, IsPushed
  <1>2. pushed[k] \in Frames
    BY DEF Inv, TypeOK
  <1>3. pushed[k][1] \in Sessions
    BY <1>2, FrameParts
  <1>4. context[pushed[k][1]] = "freed"
    BY <1>1 DEF Inv, FrameInv
  <1> QED
    BY <1>1, <1>3, <1>4 DEF Inv, LeftInv

(* A writer that is in a context when that is freed has its frame from a   *)
(* session that stopped too early, or one that is written already.         *)
LEMMA FreedWhileMuxing ==
  ASSUME Inv, NEW s \in Sessions, NativeStop(s), UNCHANGED overlapped,
         NEW w \in Sessions, Muxing(w, s)
  PROVE  leftAtStop' # {} \/ overlapped'
  <1> SUFFICES ASSUME ~overlapped PROVE leftAtStop' # {}
    OBVIOUS
  <1>1. Holds(w) /\ writer[w].frame[1] = s
    BY DEF Muxing, Holds
  <1>2. WasTaken(writer[w].frame) /\ ~IsWritten(writer[w].frame)
    BY <1>1 DEF Inv, TakenInv
  <1>3. PICK k \in 1 .. start : pushed[k] = writer[w].frame
    BY <1>2 DEF WasTaken
  <1>4. k \in DOMAIN pushed
    <2>1. start \in Nat /\ start <= Len(pushed)
      BY StartBound DEF Inv
    <2> QED
      BY <2>1 DEF Inv, TypeOK
  <1>5. leftAtStop' = leftAtStop \cup {s}
    BY <1>1, <1>2, <1>3, <1>4 DEF NativeStop
  <1> QED
    BY <1>5

LEMMA NextFails == Inv /\ FailsOnlyIf /\ [Next]_vars => FailsOnlyIf'
  <1> SUFFICES ASSUME Inv, FailsOnlyIf, [Next]_vars PROVE FailsOnlyIf'
    OBVIOUS
  <1>1. ASSUME failure' = "none" PROVE FailsOnlyIf'
    BY <1>1 DEF FailsOnlyIf
  <1>2. CASE UNCHANGED vars
    BY <1>2 DEF vars, output, FailsOnlyIf
  <1>3. ASSUME NEW s \in Sessions, Begin(s) PROVE FailsOnlyIf'
    BY <1>3 DEF Begin, FailsOnlyIf
  <1>4. ASSUME NEW s \in Sessions, NEW t \in Tracks, Discover(s, t) PROVE FailsOnlyIf'
    BY <1>1, <1>4 DEF Discover, Runs, Alive
  <1>5. ASSUME NEW s \in Sessions, NEW t \in Tracks, OnDataReady(s, t) PROVE FailsOnlyIf'
    <2>1. failure' = "none" \/ (failure' = "uninitialised" /\ Unset # {})
      BY <1>5 DEF OnDataReady
    <2> QED
      BY <1>1, <2>1 DEF FailsOnlyIf
  <1>6. ASSUME NEW s \in Sessions, Increment(s) PROVE FailsOnlyIf'
    BY <1>1, <1>6 DEF Increment, Alive
  <1>7. ASSUME NEW w \in Sessions, WriterNext(w) PROVE FailsOnlyIf'
    <2>1. CASE BeginWrite(w)
      <3>1. /\ Holds(w) /\ writer[w].step = "writing"
            /\ overlapped' = overlapped /\ leftAtStop' = leftAtStop /\ begun' = begun
        BY <2>1 DEF BeginWrite, output, Holds
      <3>2. CASE writer[w].frame = NoFrame \/ IsWritten(writer[w].frame)
        <4>1. failure' = "staleFrame"
          BY <2>1, <3>2 DEF BeginWrite
        <4>2. overlapped'
          BY <3>1, <3>2, StaleOnlyIfOverlapped
        <4> QED
          BY <4>1, <4>2 DEF FailsOnlyIf
      <3>3. CASE ~(writer[w].frame = NoFrame \/ IsWritten(writer[w].frame))
        <4>1. CASE context[writer[w].frame[1]] # "headed"
          <5>1. failure' = "released"
            BY <2>1, <3>3, <4>1 DEF BeginWrite
          <5>2. leftAtStop' # {}
            BY <3>1, <3>3, <4>1, ReleasedOnlyIfLeft
          <5> QED
            BY <5>1, <5>2 DEF FailsOnlyIf
        <4>2. CASE /\ context[writer[w].frame[1]] = "headed"
                   /\ \E v \in Sessions : Muxing(v, writer[w].frame[1])
          <5>1. PICK v \in Sessions : Muxing(v, writer[w].frame[1])
            BY <4>2
          <5>2. v # w /\ v \in begun' /\ w \in begun'
            BY <3>1, <5>1 DEF Muxing, Inv, LifeInv
          <5>3. failure' \in {"none", "concurrentWrite"}
            BY <2>1, <3>3, <4>2 DEF BeginWrite
          <5> QED
            BY <5>2, <5>3 DEF FailsOnlyIf
        <4>3. CASE /\ context[writer[w].frame[1]] = "headed"
                   /\ ~\E v \in Sessions : Muxing(v, writer[w].frame[1])
          <5>1. failure' = "none"
            BY <2>1, <3>3, <4>3 DEF BeginWrite
          <5> QED
            BY <1>1, <5>1
        <4> QED
          BY <4>1, <4>2, <4>3
      <3> QED
        BY <3>2, <3>3
    <2>2. CASE EndWrite(w)
      <3>1. Holds(w) /\ overlapped' = overlapped
        BY <2>2 DEF EndWrite, Holds
      <3>2. failure' = "none" \/ (failure' = "staleFrame" /\ IsWritten(writer[w].frame))
        BY <2>2 DEF EndWrite
      <3>3. IsWritten(writer[w].frame) => overlapped'
        BY <3>1, StaleOnlyIfOverlapped
      <3> QED
        BY <1>1, <3>2, <3>3 DEF FailsOnlyIf
    <2> QED
      BY <1>1, <1>7, <2>1, <2>2 DEF WriterNext, TestSize, ReadFront, Decrement, Advance, Alive
  <1>8. ASSUME NEW s \in Sessions, StopMuxer(s) \/ ReleaseOutput(s) PROVE FailsOnlyIf'
    <2>1. StopOrRelease(s) /\ failure = "none" /\ overlapped' = overlapped
      BY <1>8 DEF StopMuxer, ReleaseOutput, Runs, Alive, StopOrRelease
    <2>2. CASE started[s]
      <3>1. NativeStop(s) /\ context[s] # "freed"
        BY <2>1, <2>2 DEF StopOrRelease, Inv, LifeInv
      <3>2. CASE \E w \in Sessions : Muxing(w, s)
        <4>1. failure' = "released"
          BY <3>1, <3>2 DEF NativeStop
        <4>2. leftAtStop' # {} \/ overlapped'
          BY <2>1, <3>1, <3>2, FreedWhileMuxing
        <4> QED
          BY <4>1, <4>2 DEF FailsOnlyIf
      <3>3. CASE ~\E w \in Sessions : Muxing(w, s)
        <4>1. failure' \in {"none", "uninitialised"}
          BY <3>1, <3>3 DEF NativeStop
        <4> QED
          BY <4>1 DEF FailsOnlyIf
      <3> QED
        BY <3>2, <3>3
    <2>3. CASE ~started[s]
      BY <1>1, <2>1, <2>3 DEF StopOrRelease
    <2> QED
      BY <2>2, <2>3
  <1> QED
    BY <1>2, <1>3, <1>4, <1>5, <1>6, <1>7, <1>8 DEF Next

(* A writer gets hold of a frame twice, or of none, only if operations on  *)
(* the queue overlapped; it uses an output after its release only then, or *)
(* if a session stopped with frames not yet written; two are in one        *)
(* context only if a second session has begun; and the output is not freed *)
(* twice.                                                                  *)
THEOREM WritersFailOnlyIf == Spec => []FailsOnlyIf
  <1>1. Init => FailsOnlyIf
    BY DEF Init, FailsOnlyIf
  <1> QED
    BY <1>1, Invariant, NextFails, PTL DEF Spec

-----------------------------------------------------------------------------
(* No frame is lost                                                        *)

(* As many frames are taken as the first index says.                       *)
LEMMA TakenFrames ==
  ASSUME Inv, ~overlapped, Alive
  PROVE  LET n == IF Advancing THEN start + 1 ELSE start
         IN  /\ n \in Nat /\ n <= Len(pushed)
             /\ Taken = {pushed[i] : i \in 1 .. n}
             /\ Cardinality(Taken) = n
  <1> DEFINE n == IF Advancing THEN start + 1 ELSE start
  <1>1. start \in Nat /\ start <= Len(pushed) /\ Len(pushed) \in Nat
    BY StartBound DEF Inv, TypeOK
  <1>2. ASSUME NEW w \in Sessions, writer[w].step = "advancing"
        PROVE  start + 1 <= Len(pushed) /\ writer[w].frame = pushed[start + 1]
    <2>1. start + size + 1 = Len(pushed) /\ size >= 0 /\ writer[w].frame = pushed[start + 1]
      BY <1>2 DEF Inv, QueueInv
    <2> QED
      BY <1>1, <2>1 DEF Inv, TypeOK
  <1>3. n \in Nat /\ n <= Len(pushed)
    BY <1>1, <1>2 DEF Advancing
  <1>4. DOMAIN written = 1 .. Len(written)
    BY DEF Inv, TypeOK
  <1>5. ASSUME NEW f \in Taken PROVE \E i \in 1 .. n : f = pushed[i]
    <2>1. CASE \E i \in DOMAIN written : f = written[i]
      <3>1. WasTaken(f)
        BY <1>4, <2>1 DEF Inv, TakenInv
      <3> QED
        BY <1>1, <3>1 DEF WasTaken
    <2>2. CASE \E w \in Sessions : writer[w].step = "advancing" /\ f = writer[w].frame
      BY <1>1, <1>2, <2>2 DEF Advancing
    <2>3. CASE \E w \in Sessions : Holds(w) /\ f = writer[w].frame
      <3>1. WasTaken(f)
        BY <2>3 DEF Inv, TakenInv
      <3> QED
        BY <1>1, <3>1 DEF WasTaken
    <2> QED
      BY <1>5, <2>1, <2>2, <2>3 DEF Taken
  <1>6. ASSUME NEW i \in 1 .. n PROVE pushed[i] \in Taken
    <2>1. CASE i \in 1 .. start
      <3>1. \/ IsWritten(pushed[i])
            \/ \E w \in Sessions : Holds(w) /\ writer[w].frame = pushed[i]
        BY <2>1 DEF Inv, TakenInv
      <3> QED
        BY <3>1 DEF IsWritten, Taken
    <2>2. CASE i \notin 1 .. start
      <3>1. Advancing /\ i = start + 1
        BY <1>1, <2>2
      <3>2. PICK w \in Sessions : writer[w].step = "advancing"
        BY <3>1 DEF Advancing
      <3> QED
        BY <1>2, <3>1, <3>2 DEF Taken
    <2> QED
      BY <2>1, <2>2
  <1> HIDE DEF n
  <1>7. Taken = {pushed[i] : i \in 1 .. n}
    BY <1>5, <1>6
  <1>8. Cardinality(Taken) = n
    <2> DEFINE f == [i \in 1 .. n |-> pushed[i]]
    <2>1. \A i, j \in 1 .. n : pushed[i] = pushed[j] => i = j
      BY <1>1, <1>3 DEF Inv, FrameInv
    <2>2. f \in Bijection(1 .. n, Taken)
      BY <1>7, <2>1 DEF Bijection, Injection, Surjection, IsInjective
    <2>3. ExistsBijection(1 .. n, Taken)
      BY <2>2 DEF ExistsBijection
    <2>4. IsFiniteSet(1 .. n) /\ Cardinality(1 .. n) = n
      BY <1>3, FS_Interval
    <2> QED
      BY <2>3, <2>4, FS_Bijection
  <1> QED
    BY <1>3, <1>7, <1>8 DEF n

(* The others wait in their order.                                         *)
LEMMA WaitingFrames ==
  ASSUME Inv, ~overlapped
  PROVE  LET n == IF Advancing THEN start + 1 ELSE start
         IN  InQueue = SubSeq(pushed, n + 1, Len(pushed))
  <1> DEFINE n == IF Advancing THEN start + 1 ELSE start
             count == IF \E s \in Sessions : Pushes(s) THEN size + 1 ELSE size
             rest == SubSeq(pushed, n + 1, Len(pushed))
  <1>1. /\ start \in Nat /\ size \in Int /\ size >= 0 /\ Len(pushed) \in Nat
        /\ \A i \in 1 .. Len(pushed) : pushed[i] \in Frames
        /\ DOMAIN slot = 0 .. Len(pushed) - 1
        /\ \A i \in 0 .. Len(pushed) - 1 : slot[i] = pushed[i + 1]
    BY DEF Inv, TypeOK, QueueInv
  <1>2. n + count = Len(pushed) /\ n \in Nat /\ count \in Nat
    <2>1. CASE \E s \in Sessions : Pushes(s)
      <3>1. ~Advancing /\ start + size + 1 = Len(pushed)
        BY <2>1 DEF Inv, QueueInv, OneOperation, Advancing, Pops
      <3> QED
        BY <1>1, <2>1, <3>1
    <2>2. CASE Advancing
      <3>1. /\ ~\E s \in Sessions : Pushes(s)
            /\ start + size + 1 = Len(pushed)
        BY <2>2 DEF Inv, QueueInv, OneOperation, Advancing, Pops
      <3> QED
        BY <1>1, <2>2, <3>1
    <2>3. CASE ~Advancing /\ ~\E s \in Sessions : Pushes(s)
      <3>1. start + size = Len(pushed)
        <4>1. CASE \E w \in Sessions : Pops(w)
          BY <2>3, <4>1 DEF Inv, QueueInv, Advancing, Pops
        <4>2. CASE ~\E w \in Sessions : Pops(w)
          BY <2>3, <4>2 DEF Inv, QueueInv
        <4> QED
          BY <4>1, <4>2
      <3> QED
        BY <1>1, <2>3, <3>1
    <2> QED
      BY <2>1, <2>2, <2>3
  <1>3. InQueue = [i \in 1 .. count |-> At(n + i - 1)]
    BY DEF InQueue
  <1> HIDE DEF n, count
  <1>4. ASSUME NEW i \in 1 .. count PROVE At(n + i - 1) = pushed[n + i]
    <2>1. n + i - 1 \in 0 .. Len(pushed) - 1
      BY <1>1, <1>2
    <2>2. At(n + i - 1) = pushed[n + i - 1 + 1]
      BY <1>1, <2>1 DEF At
    <2> QED
      BY <1>2, <2>2
  <1>5. /\ rest \in Seq(Frames) /\ Len(rest) = count
        /\ \A i \in 1 .. count : rest[i] = pushed[n + i]
    <2>1. \A i \in n + 1 .. Len(pushed) : pushed[i] \in Frames
      BY <1>1, <1>2
    <2>2. /\ rest \in Seq(Frames)
          /\ Len(rest) = IF n + 1 <= Len(pushed) THEN Len(pushed) - (n + 1) + 1 ELSE 0
          /\ \A i \in 1 .. Len(pushed) - (n + 1) + 1 : rest[i] = pushed[n + 1 + i - 1]
      BY <1>1, <1>2, <2>1, SubSeqProperties
    <2> HIDE DEF rest
    <2>3. Len(rest) = count /\ Len(pushed) - (n + 1) + 1 = count
      BY <1>1, <1>2, <2>2
    <2>4. \A i \in 1 .. count : n + 1 + i - 1 = n + i
      BY <1>2
    <2> QED
      BY <2>2, <2>3, <2>4
  <1> HIDE DEF rest
  <1>6. rest = [i \in 1 .. count |-> pushed[n + i]]
    BY <1>5
  <1>7. InQueue = rest
    BY <1>3, <1>4, <1>6
  <1> QED
    BY <1>7 DEF rest, n

(* As long as no two operations on the queue overlap, the frames pushed    *)
(* are those taken, each once, and those that wait in their order; with a  *)
(* single session they are written in the order in which they were pushed. *)
THEOREM NoneLost == Spec => []NothingLost
  <1>1. ASSUME Inv, ~overlapped, Alive
        PROVE  /\ Cardinality(Taken) <= Len(pushed)
               /\ InQueue = SubSeq(pushed, Cardinality(Taken) + 1, Len(pushed))
               /\ Taken = {pushed[i] : i \in 1 .. Cardinality(Taken)}
    <2> DEFINE n == IF Advancing THEN start + 1 ELSE start
    <2>1. /\ n \in Nat /\ n <= Len(pushed) /\ Taken = {pushed[i] : i \in 1 .. n}
          /\ Cardinality(Taken) = n
      BY <1>1, TakenFrames
    <2>2. InQueue = SubSeq(pushed, n + 1, Len(pushed))
      BY <1>1, WaitingFrames
    <2> HIDE DEF n
    <2> QED
      BY <2>1, <2>2
  <1>2. ASSUME Inv, ~overlapped, Cardinality(begun) = 1
        PROVE  /\ Len(written) <= Len(pushed)
               /\ \A i \in DOMAIN written : written[i] = pushed[i]
    <2>1. \A s, r \in begun : s = r
      <3>1. NumSessions \in Int
        BY MuxerAssumption
      <3>2. IsFiniteSet(Sessions)
        BY <3>1, FS_Interval DEF Sessions
      <3>3. IsFiniteSet(begun)
        BY <1>2, <3>2, FS_Subset DEF Inv, TypeOK
      <3>4. PICK x : begun = {x}
        BY <1>2, <3>3, FS_Singleton
      <3> QED
        BY <3>4
    <2>2. Len(written) <= start /\ \A j \in 1 .. Len(written) : written[j] = pushed[j]
      BY <1>2, <2>1 DEF Inv, OrderInv
    <2>3. start \in Nat /\ start <= Len(pushed)
      BY <1>2, StartBound DEF Inv
    <2>4. Len(written) \in Nat /\ Len(pushed) \in Nat /\ DOMAIN written = 1 .. Len(written)
      BY <1>2 DEF Inv, TypeOK
    <2> QED
      BY <2>2, <2>3, <2>4
  <1>3. Inv => NothingLost
    BY <1>1, <1>2 DEF NothingLost
  <1> QED
    BY <1>3, Invariant, PTL
=============================================================================
