-------------------------------- MODULE Muxer --------------------------------
(***************************************************************************)
(* From the muxer input to the native muxer: output/DefaultMediaOutput,    *)
(* muxer/FFmpegMuxer and cpp/mux_stream.cpp. The decode-encode threads     *)
(* push frames on one queue; every started muxer adds a thread that takes  *)
(* them off and writes them, and that never ends. A session is a           *)
(* transcoder with its output; the activities start another one without    *)
(* waiting for the last to end.                                            *)
(*                                                                         *)
(* The queue is a std::deque without a lock, so the steps of its           *)
(* operations are the memory accesses of libc++: a push constructs the     *)
(* slot at start + size and increments size; a pop decrements size and     *)
(* increments start. An operation loads size once, as the compiler is free *)
(* to make it. The blocks, of 512 slots and more, are left out.            *)
(***************************************************************************)
EXTENDS Integers, FiniteSets, Sequences

CONSTANTS
  NumSessions, (* Bound: they are numbered in the order in which they begin*)
  Tracks,      (* The streams that a session announces, of kinds that      *)
               (* addTrack knows: it answers others with an exception.     *)
  Video,       (* Those that are H.264 or H.265.                           *)
  Subtitles,   (* Those that are DVB subtitles, which have no codec.       *)
  Encoded,     (* Those that an encoder gives, with configuration data.    *)
  Capacity,    (* DEFAULT_NO_STREAMS                                       *)
  MaxFrames    (* Bound, per session: its frames.                          *)

Sessions == 1 .. NumSessions

ASSUME MuxerAssumption ==
  /\ NumSessions \in Nat
  /\ IsFiniteSet(Tracks) /\ Video \subseteq Tracks /\ Encoded \subseteq Tracks
  /\ Subtitles \subseteq Tracks
  /\ Capacity \in Nat /\ MaxFrames \in [Sessions -> Nat]

VARIABLES
  begun,       (* Sessions that have begun.                                *)
  streams,     (* Per session: the tracks that were discovered.            *)
  started,     (* FFmpegMuxer.started                                      *)
  context,     (* The OutputStream: allocated, with its header, freed.     *)
  des,         (* The decode-encode threads: step, and size read.          *)
  start, size, slot,   (* The deque.                                       *)
  writer,      (* The writer threads: step, frame, size read.              *)
  failure,     (* The first use of what is freed, missing or never set, or *)
               (* a write past an array: from there on nothing is defined. *)
  (* History: frames in the order in which they were pushed and written,   *)
  (* trailers written, whether two operations on the queue overlapped, and *)
  (* sessions stopped with frames not yet written.                         *)
  pushed, written, trailers, overlapped, leftAtStop

output == <<begun, streams, started, context, trailers, leftAtStop>>
queue == <<start, size, slot>>
vars == <<output, des, queue, writer, failure, pushed, written, overlapped>>

(* A frame: its session, its number, its track.                            *)
Frames == UNION {{s} \X (1 .. MaxFrames[s]) \X Tracks : s \in Sessions}
NoFrame == <<0, 0, 0>>
Thread(step) == [step |-> step, frame |-> NoFrame, size |-> 0]

Init ==
  /\ begun = {}
  /\ streams = [s \in Sessions |-> {}]
  /\ started = [s \in Sessions |-> FALSE]
  /\ context = [s \in Sessions |-> "none"]
  /\ trailers = [s \in Sessions |-> 0]
  /\ leftAtStop = {}
  /\ des = [s \in Sessions |-> [step |-> "unbegun", size |-> 0]]
  /\ start = 0 /\ size = 0 /\ slot = << >>
  /\ writer = [s \in Sessions |-> Thread("none")]
  /\ failure = "none"
  /\ pushed = << >> /\ written = << >> /\ overlapped = FALSE

Alive == failure = "none"
IsWritten(frame) == \E i \in DOMAIN written : written[i] = frame
Runs(s) == Alive /\ des[s].step = "running"

-----------------------------------------------------------------------------
(* Setting up                                                              *)

(* init() and prepareTracks(): arrays of a fixed size are filled.          *)
Begin(s) ==
  /\ Alive /\ des[s].step = "unbegun"
  /\ \A r \in Sessions : r < s => r \in begun
  /\ begun' = begun \cup {s}
  /\ context' = [context EXCEPT ![s] = "allocated"]
  /\ des' = [des EXCEPT ![s].step = "running"]
  /\ failure' = IF Cardinality(Tracks) > Capacity THEN "tooManyStreams" ELSE "none"
  /\ UNCHANGED <<streams, started, trailers, leftAtStop, queue, writer, pushed,
                 written, overlapped>>

(* newTrackDiscovered(), and addConfigBuffer() for the configuration data  *)
(* that an encoder gives after its format, before its first frame.         *)
Discover(s, t) ==
  /\ Runs(s) /\ t \notin streams[s]
  /\ streams' = [streams EXCEPT ![s] = @ \cup {t}]
  /\ UNCHANGED <<begun, started, context, trailers, leftAtStop, des, queue, writer, failure,
                 pushed, written, overlapped>>

-----------------------------------------------------------------------------
(* The decode-encode thread pushes a frame                                 *)

FramesOf(s) == Cardinality({i \in DOMAIN pushed : pushed[i][1] = s})

(* Streams whose sps_pps_data is never set.                                *)
Unset == Video \ Encoded

Pushes(s) == des[s].step = "incrementing"
Pops(w) == writer[w].step \in {"fronting", "decrementing", "advancing"}

(* A thread begins an operation on the queue: is another one under way?    *)
BeginOperation ==
  overlapped' = (overlapped \/ \E s \in Sessions : Pushes(s) \/ Pops(s))

(* onDataReady: maybeStartMuxer writes the header and starts the writer    *)
(* once all are discovered; a frame before that is dropped. Before a frame *)
(* that is a key frame go the parameter sets, wherever their pointer       *)
(* points to. Then push() fills the slot behind the last, ...              *)
OnDataReady(s, t) ==
  LET frame == <<s, FramesOf(s) + 1, t>>
  IN  /\ Runs(s) /\ streams[s] = Tracks /\ t \in Tracks
      /\ FramesOf(s) < MaxFrames[s]
      /\ IF started[s] THEN UNCHANGED <<started, context, writer>>
         ELSE /\ started' = [started EXCEPT ![s] = TRUE]
              /\ context' = [context EXCEPT ![s] = "headed"]
              /\ writer' = [writer EXCEPT ![s] = Thread("testing")]
      /\ failure' \in IF t \in Unset THEN {"none", "uninitialised"} ELSE {"none"}
      /\ slot' = [i \in DOMAIN slot \cup {start + size} |->
                    IF i = start + size THEN frame ELSE slot[i]]
      /\ pushed' = Append(pushed, frame)
      /\ des' = [des EXCEPT ![s] = [step |-> "incrementing", size |-> size]]
      /\ BeginOperation
      /\ UNCHANGED <<begun, streams, trailers, leftAtStop, start, size, written>>

(* Seeded fault: the size stays what it was.                               *)
NotCounted(s) == des[s].size

Incremented(s) == des[s].size + 1

(* ... and ++size                                                          *)
Increment(s) ==
  /\ Alive /\ des[s].step = "incrementing"
  /\ size' = Incremented(s)
  /\ des' = [des EXCEPT ![s] = [step |-> "running", size |-> 0]]
  /\ UNCHANGED <<output, start, slot, writer, failure, pushed, written, overlapped>>

-----------------------------------------------------------------------------
(* The writer: muxerThread_func                                            *)

(* while (data.size() > 0); it sleeps and comes back if it is not.         *)
TestSize(w) ==
  /\ Alive /\ writer[w].step = "testing" /\ size # 0
  /\ writer' = [writer EXCEPT ![w].step = "fronting", ![w].size = size]
  /\ BeginOperation
  /\ UNCHANGED <<output, des, queue, failure, pushed, written>>

At(i) == IF i \in DOMAIN slot THEN slot[i] ELSE NoFrame

(* data.front(), whatever is in it.                                        *)
ReadFront(w) ==
  /\ Alive /\ writer[w].step = "fronting"
  /\ writer' = [writer EXCEPT ![w].frame = At(start), ![w].step = "decrementing"]
  /\ UNCHANGED <<output, des, queue, failure, pushed, written, overlapped>>

(* Seeded fault: the frame stays in the queue.                             *)
NotRemoved(w) == writer[w].size

Decremented(w) == writer[w].size - 1

(* data.pop(): --size, ...                                                 *)
Decrement(w) ==
  /\ Alive /\ writer[w].step = "decrementing"
  /\ size' = Decremented(w)
  /\ writer' = [writer EXCEPT ![w].step = "advancing", ![w].size = 0]
  /\ UNCHANGED <<output, des, start, slot, failure, pushed, written, overlapped>>

(* ... and ++start                                                         *)
Advance(w) ==
  /\ Alive /\ writer[w].step = "advancing"
  /\ start' = start + 1
  /\ writer' = [writer EXCEPT ![w].step = "writing"]
  /\ UNCHANGED <<output, des, size, slot, failure, pushed, written, overlapped>>

(* Seeded fault: the thread ends with the queue's first frames.            *)
EndsAfterWrite == Thread("none")

GoesOn == Thread("testing")

(* In av_interleaved_write_frame, on the context of session s.             *)
Muxing(w, s) == writer[w].step = "muxing" /\ writer[w].frame[1] = s

(* writeFrame(): the frame and its OutputStream are used, and FFmpeg is    *)
(* called, which does not expect another thread in the same context; ...   *)
BeginWrite(w) ==
  LET frame == writer[w].frame
  IN  /\ Alive /\ writer[w].step = "writing"
      /\ failure' \in IF frame = NoFrame \/ IsWritten(frame) THEN {"staleFrame"}
                      ELSE IF context[frame[1]] # "headed" THEN {"released"}
                      ELSE IF \E v \in Sessions : Muxing(v, frame[1])
                      THEN {"none", "concurrentWrite"} ELSE {"none"}
      /\ writer' = [writer EXCEPT ![w].step = "muxing"]
      /\ UNCHANGED <<output, des, queue, pushed, written, overlapped>>

(* ... then the call returns, and the frame is freed.                      *)
EndWrite(w) ==
  LET frame == writer[w].frame
  IN  /\ Alive /\ writer[w].step = "muxing"
      /\ failure' = IF IsWritten(frame) THEN "staleFrame" ELSE "none"
      /\ written' = IF failure' = "none" THEN Append(written, frame) ELSE written
      /\ writer' = [writer EXCEPT ![w] = GoesOn]
      /\ UNCHANGED <<output, des, queue, pushed, overlapped>>

-----------------------------------------------------------------------------
(* The end of a session                                                    *)

(* release() of mux_stream: the trailer, and everything is closed and      *)
(* freed, also parameter sets and codecs that were never there. A writer   *)
(* may be in the context; frames in the queue are not looked at.           *)
NativeStop(s) ==
  /\ trailers' = [trailers EXCEPT ![s] = @ + 1]
  /\ context' = [context EXCEPT ![s] = "freed"]
  /\ failure' \in IF context[s] = "freed" THEN {"freedTwice"}
                  ELSE IF \E w \in Sessions : Muxing(w, s) THEN {"released"}
                  ELSE IF Unset \cup Subtitles # {} THEN {"none", "uninitialised"}
                  ELSE {"none"}
  /\ leftAtStop' = IF \E i \in DOMAIN pushed : /\ pushed[i][1] = s
                                              /\ ~IsWritten(pushed[i])
                   THEN leftAtStop \cup {s} ELSE leftAtStop

(* Seeded fault: the flag is left as it is.                                *)
StaysStarted(s) == UNCHANGED started

ClearStarted(s) == started' = [started EXCEPT ![s] = FALSE]

(* FFmpegMuxer.stop() and release(): if (started) nativeStop(...)          *)
StopOrRelease(s) ==
  /\ IF started[s] THEN NativeStop(s)
     ELSE UNCHANGED <<trailers, context, failure, leftAtStop>>
  /\ ClearStarted(s)
  /\ UNCHANGED <<begun, streams, queue, writer, pushed, written, overlapped>>

(* The drain loop is over: stopMuxer(), ...                                *)
StopMuxer(s) ==
  /\ Runs(s)
  /\ des' = [des EXCEPT ![s].step = "releasing"]
  /\ StopOrRelease(s)

(* ... then mediaOutput.release()                                          *)
ReleaseOutput(s) ==
  /\ Alive /\ des[s].step = "releasing"
  /\ des' = [des EXCEPT ![s].step = "ended"]
  /\ StopOrRelease(s)

-----------------------------------------------------------------------------
WriterNext(w) ==
  TestSize(w) \/ ReadFront(w) \/ Decrement(w) \/ Advance(w)
    \/ BeginWrite(w) \/ EndWrite(w)

Next ==
  \E s \in Sessions :
    \/ Begin(s)
    \/ \E t \in Tracks : Discover(s, t) \/ OnDataReady(s, t)
    \/ Increment(s) \/ WriterNext(s)
    \/ StopMuxer(s) \/ ReleaseOutput(s)

Spec == Init /\ [][Next]_vars

(* The threads are scheduled; when frames come, and the stop, is open.     *)
FairSpec ==
  /\ Spec
  /\ \A s \in Sessions : WF_vars(Increment(s)) /\ WF_vars(WriterNext(s))

-----------------------------------------------------------------------------
(* Every variable has its type; below zero, where size_t wraps, size does  *)
(* not get unless operations overlap.                                      *)
TypeOK ==
  /\ begun \in SUBSET Sessions
  /\ streams \in [Sessions -> SUBSET Tracks]
  /\ started \in [Sessions -> BOOLEAN]
  /\ context \in [Sessions -> {"none", "allocated", "headed", "freed"}]
  /\ des \in [Sessions -> [step: {"unbegun", "running", "incrementing", "releasing", "ended"},
                           size: Int]]
  /\ start \in Nat /\ size \in Int /\ (overlapped \/ size >= 0)
  /\ DOMAIN slot \subseteq Int /\ \A i \in DOMAIN slot : slot[i] \in Frames
  /\ writer \in [Sessions -> [step: {"none", "testing", "fronting", "decrementing", "advancing",
                                     "writing", "muxing"},
                              frame: Frames \cup {NoFrame}, size: Int]]
  /\ failure \in {"none", "tooManyStreams", "uninitialised", "staleFrame", "released",
                  "concurrentWrite", "freedTwice"}
  /\ pushed \in Seq(Frames) /\ written \in Seq(Frames)
  /\ trailers \in [Sessions -> Nat] /\ overlapped \in BOOLEAN /\ leftAtStop \in SUBSET Sessions

(* A writer has a frame that it took off the queue.                        *)
Holds(w) == writer[w].step \in {"writing", "muxing"}

(* What the writers have taken off the queue, and what is in it.           *)
Taken == {written[i] : i \in DOMAIN written} \cup
         {writer[w].frame : w \in {v \in Sessions : writer[v].step = "advancing" \/ Holds(v)}}
Advancing == \E w \in Sessions : writer[w].step = "advancing"
InQueue ==
  LET first == IF Advancing THEN start + 1 ELSE start
      count == IF \E s \in Sessions : Pushes(s) THEN size + 1 ELSE size
  IN  [i \in 1 .. count |-> At(first + i - 1)]

(* As long as no two operations on the queue overlap, which is what a lock *)
(* around each would have to see to, from the test of the size on, not     *)
(* only around front() and pop() where it is commented out: of all frames  *)
(* pushed, by whatever sessions, the first have been taken, each once, and *)
(* the others wait in their order. With a single writer they are written   *)
(* in that order too; a second session's writer may overtake the first.    *)
NothingLost ==
  ~overlapped =>
    /\ Alive =>
         /\ Cardinality(Taken) <= Len(pushed)
         /\ InQueue = SubSeq(pushed, Cardinality(Taken) + 1, Len(pushed))
         /\ Taken = {pushed[i] : i \in 1 .. Cardinality(Taken)}
    /\ Cardinality(begun) = 1 =>
         /\ Len(written) <= Len(pushed)
         /\ \A i \in DOMAIN written : written[i] = pushed[i]

(* What goes wrong in the writers and in the release needs a cause outside *)
(* them: a writer gets hold of a frame twice, or of none, only if          *)
(* operations on the queue overlapped; it uses an output after its release *)
(* only then, or if a session stopped with frames not yet written, because *)
(* nothing waits for the writer; two writers get into one context only if  *)
(* a second session has begun. Stop and release of the output, one after   *)
(* the other, do not free it twice. (muxerThread_func, writeFrame, release)*)
FailsOnlyIf ==
  /\ failure = "staleFrame" => overlapped
  /\ failure = "released" => leftAtStop # {} \/ overlapped
  /\ failure = "concurrentWrite" => \E r, s \in begun : r # s
  /\ failure # "freedTwice"

(* A file that got its header gets exactly one trailer, by the end of its  *)
(* session, and what was never started is not stopped                      *)
(* (FFmpegMuxer.stop and release, called one after the other).             *)
ClosedOnce ==
  \A s \in Sessions :
    /\ trailers[s] = IF context[s] = "freed" THEN 1 ELSE 0
    /\ des[s].step = "ended" => context[s] \in {"allocated", "freed"}

CaughtUp == \A i \in DOMAIN pushed : IsWritten(pushed[i])

(* Frames that were pushed are written, unless operations overlap: the     *)
(* writer does not end, nor does it miss the last frame, whichever session *)
(* it came from (muxerThread_func).                                        *)
AllWritten == ~CaughtUp ~> CaughtUp \/ overlapped \/ ~Alive
=============================================================================
