---------------------------- MODULE DecodeEncode ----------------------------
(***************************************************************************)
(* The decode-encode thread (DefaultTranscoder.DecodeEncodeStreams): in    *)
(* every round, for every track, it drains the codification, feeds it,     *)
(* drains the renderer and feeds it, until the client cancels or a round   *)
(* finds nothing to do.                                                    *)
(*                                                                         *)
(* Samples of a track are numbered from 1.  What travels from queue to     *)
(* queue is a buffer: the sequence of the numbers of the samples in it,    *)
(* one as a rule; the empty buffer carries the end-of-stream flag.         *)
(*                                                                         *)
(* MediaCodec is a platform service: a codec takes input buffers as long   *)
(* as it has a free slot and gives one output for each input, in order,    *)
(* after an arbitrary time.  The sample queues are those of SampleQueue:   *)
(* here, how many samples are in each.                                     *)
(***************************************************************************)
EXTENDS Integers, FiniteSets, SequencesExt

CONSTANTS
  Kind,         \* per track: "pass", "audio" or "video"
  Times,        \* per track: the presentation times of its samples
  MarksLast,    \* whether the container flags the last sample of a track
  MaxPtsOffset, \* how far pass-through may run ahead of the decoders
  Slots         \* buffers of a codec, on each side

Tracks == 1 .. Len(Kind)

ASSUME KindAssumption ==
  /\ Len(Kind) \in Nat \ {0}
  /\ \A t \in Tracks : Kind[t] \in {"pass", "audio", "video"}
ASSUME TimesAssumption ==
  /\ DOMAIN Times = Tracks
  /\ \A t \in Tracks : Times[t] \in Seq(Int)
ASSUME SizesAssumption ==
  MarksLast \in BOOLEAN /\ MaxPtsOffset \in Nat /\ Slots \in Nat \ {0}

VARIABLES
  loaded,              \* samples of each track put in its queue so far
  loadCompleted,       \* MediaSource.loadCompleted
  readUpTo,            \* samples of each track read from its queue
  formatRead,          \* whether the format was read
  inputBuffer,         \* the renderer's input buffer
  decodeOnly,          \* whether its decode-only flag is set
  inputIndex,          \* whether the renderer holds a slot of the decoder
  frameData,           \* EmptyRenderer.pendingDecoderOutputBuffers
  frameInfo,           \* EmptyRenderer.pendingDecoderOutputBufferInfos
  streamIsFinal, endOfStreamSignaled, endOfStreamReached,
  decoderIn, decoderOut,
  pending,             \* MediaCodecAudioRenderer's pending output buffers
  encoderIndex,        \* whether the codification holds a slot of the encoder
  encoderIn, encoderOut,
  encoderStarted,      \* whether the encoder has announced its format
  endOfCodification,
  formatRegistered,    \* EmptyCodification.format_registered
  currentNumOfStreams, muxerStarted,
  handed,              \* what the codification gave to its muxer input
  call, turn,          \* the next call of the thread and its track
  phase,               \* which loop it is in
  decoderResponse,     \* the sum of the answers in this round
  highestPts, canceled, reachedEndOfStream

source   == <<loaded, loadCompleted>>
reading  == <<readUpTo, formatRead, inputBuffer, decodeOnly, inputIndex>>
frames   == <<frameData, frameInfo>>
decoder  == <<decoderIn, decoderOut>>
ends     == <<streamIsFinal, endOfStreamSignaled, endOfStreamReached>>
encoder  == <<encoderIn, encoderOut, encoderStarted>>
feeding  == <<pending, encoderIndex>>
output   == <<formatRegistered, currentNumOfStreams, muxerStarted, handed>>
rounds   == <<phase, canceled, reachedEndOfStream>>
loop     == <<call, turn, decoderResponse, highestPts>>
vars == <<source, reading, frames, decoder, ends, encoder, feeding,
          endOfCodification, output, rounds, loop>>

NoData == 0
EndOfStream == << >>
Samples(t) == 1 .. Len(Times[t])
IsCodec(t) == Kind[t] # "pass"

(* What an encoder's dequeueOutputBuffer may find.                         *)
Frame(samples)     == [kind |-> "frame", samples |-> samples]
FormatChanged      == [kind |-> "format", samples |-> << >>]
CodecConfig        == [kind |-> "config", samples |-> << >>]

(* A buffer is flagged decode-only when its time is before the position    *)
(* reading started at, which is always zero.                               *)
IsDecodeOnly(t, k) == Times[t][k] < 0

Init ==
  /\ loaded = [t \in Tracks |-> 0] /\ loadCompleted = FALSE
  /\ readUpTo = [t \in Tracks |-> 0]
  /\ formatRead = [t \in Tracks |-> FALSE]
  /\ inputBuffer = [t \in Tracks |-> << >>]
  /\ decodeOnly = [t \in Tracks |-> FALSE]
  /\ inputIndex = [t \in Tracks |-> FALSE]
  /\ frameData = [t \in Tracks |-> << >>] /\ frameInfo = [t \in Tracks |-> << >>]
  /\ streamIsFinal = [t \in Tracks |-> FALSE]
  /\ endOfStreamSignaled = [t \in Tracks |-> FALSE]
  /\ endOfStreamReached = [t \in Tracks |-> FALSE]
  /\ decoderIn = [t \in Tracks |-> << >>] /\ decoderOut = [t \in Tracks |-> << >>]
  /\ pending = [t \in Tracks |-> << >>]
  /\ encoderIndex = [t \in Tracks |-> FALSE]
  /\ encoderIn = [t \in Tracks |-> << >>] /\ encoderOut = [t \in Tracks |-> << >>]
  /\ encoderStarted = [t \in Tracks |-> FALSE]
  /\ endOfCodification = [t \in Tracks |-> FALSE]
  /\ formatRegistered = [t \in Tracks |-> FALSE]
  /\ currentNumOfStreams = 0 /\ muxerStarted = FALSE
  /\ handed = [t \in Tracks |-> << >>]
  /\ call = "test" /\ turn = 1 /\ phase = "running"
  /\ decoderResponse = 0 /\ highestPts = 0
  /\ canceled = FALSE /\ reachedEndOfStream = FALSE

-----------------------------------------------------------------------------
(* The source, the client and the codecs                                   *)

Load(t) ==
  /\ loaded[t] < Len(Times[t]) /\ ~loadCompleted
  /\ loaded' = [loaded EXCEPT ![t] = @ + 1]
  /\ UNCHANGED <<loadCompleted, reading, frames, decoder, ends, encoder, feeding,
                 endOfCodification, output, rounds, loop>>

(* The looper's onLoadCompleted, after the loading thread ended.           *)
LoadCompleted ==
  /\ ~loadCompleted /\ \A t \in Tracks : loaded[t] = Len(Times[t])
  /\ loadCompleted' = TRUE
  /\ UNCHANGED <<loaded, reading, frames, decoder, ends, encoder, feeding,
                 endOfCodification, output, rounds, loop>>

StopTranscoding ==
  /\ ~canceled
  /\ canceled' = TRUE
  /\ UNCHANGED <<source, reading, frames, decoder, ends, encoder, feeding,
                 endOfCodification, output, phase, reachedEndOfStream, loop>>

Decode(t) ==
  /\ decoderIn[t] # << >> /\ phase # "stopped"
  /\ Len(decoderOut[t]) + Len(pending[t]) < Slots
  /\ decoderIn' = [decoderIn EXCEPT ![t] = Tail(@)]
  /\ decoderOut' = [decoderOut EXCEPT ![t] = Append(@, Head(decoderIn[t]))]
  /\ UNCHANGED <<source, reading, frames, ends, encoder, feeding,
                 endOfCodification, output, rounds, loop>>

(* An encoder announces its format before its first output, once; some     *)
(* give a buffer with configuration data next.                             *)
AnnounceFormat(t) ==
  /\ encoderIn[t] # << >> /\ ~encoderStarted[t] /\ phase # "stopped"
  /\ encoderStarted' = [encoderStarted EXCEPT ![t] = TRUE]
  /\ \/ encoderOut' = [encoderOut EXCEPT ![t] = <<FormatChanged>>]
     \/ encoderOut' = [encoderOut EXCEPT ![t] = <<FormatChanged, CodecConfig>>]
  /\ UNCHANGED <<source, reading, frames, decoder, ends, encoderIn, feeding,
                 endOfCodification, output, rounds, loop>>

Encode(t) ==
  /\ encoderIn[t] # << >> /\ encoderStarted[t] /\ phase # "stopped"
  /\ Len(SelectSeq(encoderOut[t], LAMBDA o : o.kind = "frame")) < Slots
  /\ encoderIn' = [encoderIn EXCEPT ![t] = Tail(@)]
  /\ encoderOut' = [encoderOut EXCEPT ![t] = Append(@, Frame(Head(encoderIn[t])))]
  /\ UNCHANGED <<source, reading, frames, decoder, ends, encoderStarted, feeding,
                 endOfCodification, output, rounds, loop>>

-----------------------------------------------------------------------------
(* The output, called from the codifications                               *)

AllDiscovered == Cardinality(Tracks) = currentNumOfStreams

(* newTrackDiscovered: one more of the announced streams has a muxer input. *)
NewTrackDiscovered == currentNumOfStreams' = currentNumOfStreams + 1

(* maybeStartMuxer, with n streams discovered.                             *)
MaybeStartMuxer(n) == muxerStarted' = (muxerStarted \/ n = Cardinality(Tracks))

(* Seeded fault: a sample is written whenever the muxer runs or not.       *)
AlwaysWritten(n) == TRUE

(* sampleData drops what comes before all streams are discovered.          *)
IsWritten(n) == n >= Cardinality(Tracks)

(* onDataReady, with n streams discovered.                                 *)
OnDataReady(t, data, info, n) ==
  /\ MaybeStartMuxer(n)
  /\ handed' = [handed EXCEPT ![t] =
       Append(@, [data |-> data, info |-> info, written |-> IsWritten(n)])]

-----------------------------------------------------------------------------
(* The order of the calls                                                  *)

Sum(answer) == IF decoderResponse + answer > 2 THEN 2 ELSE decoderResponse + answer
Respond(answer) == decoderResponse' = Sum(answer)

GoTo(next) == call' = next /\ UNCHANGED turn
NextTurn ==
  IF turn < Len(Kind) THEN turn' = turn + 1 /\ call' = "drainCodification"
  ELSE turn' = 1 /\ call' = "endRound"

(* After a codification was drained once: the loop goes on while samples   *)
(* come, the drain loops do not, and drainEncoders does nothing else.      *)
AfterDraining(answer) ==
  \/ phase = "running" /\ answer = 1 /\ GoTo("drainCodification")
  \/ phase = "running" /\ answer # 1 /\ GoTo("feedCodification")
  \/ phase = "signalled" /\ GoTo("feedCodification")
  \/ phase = "draining" /\ NextTurn

(* Seeded fault: what was fed does not count.                              *)
HighestUnchanged(result) == highestPts
HighestAfter(result) ==
  IF phase = "running" /\ result > highestPts THEN result ELSE highestPts

(* feedInputBuffer returned.                                               *)
Fed(result) == highestPts' = HighestAfter(result) /\ NextTurn

(* The condition of the loop; then the drain loop that fits the reason.    *)
Test ==
  /\ call = "test"
  /\ decoderResponse' = 0 /\ turn' = 1 /\ call' = "drainCodification"
  /\ phase' = (IF ~canceled THEN "running"
               ELSE IF reachedEndOfStream THEN "draining" ELSE "signalled")
  /\ streamIsFinal' = (IF canceled /\ ~reachedEndOfStream
                       THEN [t \in Tracks |-> TRUE] ELSE streamIsFinal)
  /\ UNCHANGED <<source, reading, frames, decoder, endOfStreamSignaled, endOfStreamReached,
                 encoder, feeding, endOfCodification, output, canceled,
                 reachedEndOfStream, highestPts>>

(* Seeded fault: the condition the comment in the code proposes.           *)
AnythingAnswered == decoderResponse # 0
KeepsDraining == decoderResponse = 1

EndRound ==
  /\ call = "endRound"
  /\ UNCHANGED <<source, reading, frames, decoder, ends, encoder, feeding,
                 endOfCodification, formatRegistered, currentNumOfStreams, handed,
                 turn, highestPts>>
  /\ \/ /\ phase = "running"
        /\ reachedEndOfStream' = (decoderResponse = 0)
        /\ canceled' = (canceled \/ decoderResponse = 0)
        /\ call' = "test"
        /\ UNCHANGED <<phase, decoderResponse, muxerStarted>>
     \/ /\ phase # "running" /\ KeepsDraining
        /\ decoderResponse' = 0 /\ call' = "drainCodification"
        /\ UNCHANGED <<rounds, muxerStarted>>
     \/ /\ phase # "running" /\ ~KeepsDraining
        /\ phase' = "stopped" /\ call' = "none" /\ muxerStarted' = FALSE
        /\ UNCHANGED <<canceled, reachedEndOfStream, decoderResponse>>

-----------------------------------------------------------------------------
(* Codifications                                                           *)

(* Seeded fault: the codification looks at the queue and leaves its head.  *)
InfoPeeked(t) == frameInfo

(* pollFrameData and pollBufferInfo take the head, if there is one.        *)
DataAfterPoll(t) ==
  [frameData EXCEPT ![t] = IF @ = << >> THEN @ ELSE Tail(@)]
InfoAfterPoll(t) ==
  [frameInfo EXCEPT ![t] = IF @ = << >> THEN @ ELSE Tail(@)]

(* EmptyCodification.drainOutputBuffer: registers the track once the       *)
(* format is known, then polls both queues of the renderer; a sample goes  *)
(* on only if both had something.                                          *)
DrainPassThrough(t) ==
  LET known == formatRegistered[t] \/ formatRead[t]
      n == currentNumOfStreams + (IF formatRegistered[t] THEN 0 ELSE 1)
      both == /\ frameData[t] # << >> /\ frameInfo[t] # << >>
              /\ Head(frameData[t]) # NoData
  IN  /\ call = "drainCodification" /\ t = turn /\ Kind[t] = "pass"
      /\ UNCHANGED <<source, reading, decoder, ends, encoder, feeding, endOfCodification,
                     rounds, highestPts>>
      /\ \/ /\ ~known
            /\ Respond(0) /\ AfterDraining(0)
            /\ UNCHANGED <<frames, output>>
         \/ /\ known /\ ~both
            /\ Respond(0) /\ AfterDraining(0)
            /\ formatRegistered' = [formatRegistered EXCEPT ![t] = TRUE]
            /\ currentNumOfStreams' = n
            /\ frameData' = DataAfterPoll(t) /\ frameInfo' = InfoAfterPoll(t)
            /\ UNCHANGED <<muxerStarted, handed>>
         \/ /\ known /\ both
            /\ Respond(1) /\ AfterDraining(1)
            /\ formatRegistered' = [formatRegistered EXCEPT ![t] = TRUE]
            /\ currentNumOfStreams' = n
            /\ frameData' = DataAfterPoll(t) /\ frameInfo' = InfoAfterPoll(t)
            /\ OnDataReady(t, <<Head(frameData[t])>>, <<Head(frameInfo[t])>>, n)

(* MediaCodecCodification.drainOutputBuffer.  It answers 0 for "nothing    *)
(* yet" and, once, at the end; after the end it answers 2.  The empty      *)
(* buffer at the end is not written: FFmpegMuxer drops buffers of size 0.  *)
DrainEncoder(t) ==
  LET found == Head(encoderOut[t])
      Take == encoderOut' = [encoderOut EXCEPT ![t] = Tail(@)]
      Answer(n) == Respond(n) /\ AfterDraining(n)
  IN  /\ call = "drainCodification" /\ t = turn /\ IsCodec(t)
      /\ UNCHANGED <<source, reading, frames, decoder, ends, encoderIn, encoderStarted,
                     feeding, rounds, highestPts, formatRegistered>>
      /\ \/ /\ endOfCodification[t]
            /\ Answer(2)
            /\ UNCHANGED <<encoderOut, endOfCodification, currentNumOfStreams,
                           muxerStarted, handed>>
         \/ /\ ~endOfCodification[t] /\ encoderOut[t] = << >>
            /\ Answer(0)
            /\ UNCHANGED <<encoderOut, endOfCodification, currentNumOfStreams,
                           muxerStarted, handed>>
         \/ /\ ~endOfCodification[t] /\ encoderOut[t] # << >> /\ found = FormatChanged
            /\ Take /\ NewTrackDiscovered /\ Answer(2)
            /\ UNCHANGED <<endOfCodification, muxerStarted, handed>>
         \/ /\ ~endOfCodification[t] /\ encoderOut[t] # << >> /\ found = CodecConfig
            /\ Take /\ Answer(1)
            /\ UNCHANGED <<endOfCodification, currentNumOfStreams, muxerStarted, handed>>
         \/ /\ ~endOfCodification[t] /\ encoderOut[t] # << >> /\ found = Frame(EndOfStream)
            /\ Take /\ MaybeStartMuxer(currentNumOfStreams) /\ Answer(0)
            /\ endOfCodification' = [endOfCodification EXCEPT ![t] = TRUE]
            /\ UNCHANGED <<currentNumOfStreams, handed>>
         \/ /\ ~endOfCodification[t] /\ encoderOut[t] # << >> /\ found.kind = "frame"
            /\ found # Frame(EndOfStream)
            /\ Take /\ Answer(1)
            /\ OnDataReady(t, found.samples, found.samples, currentNumOfStreams)
            /\ UNCHANGED <<endOfCodification, currentNumOfStreams>>

(* feedInputBuffer: only an audio encoder is fed by its codification, from *)
(* the buffers its renderer put aside.  A slot is kept until it is used.   *)
FeedCodification(t) ==
  LET slot == encoderIndex[t] \/ Len(encoderIn[t]) < Slots
  IN  /\ call = "feedCodification" /\ t = turn
      /\ GoTo("drainRenderer")
      /\ UNCHANGED <<source, reading, frames, decoder, ends, encoderOut, encoderStarted,
                     endOfCodification, output, rounds, decoderResponse, highestPts>>
      /\ \/ /\ Kind[t] # "audio" \/ endOfCodification[t] \/ ~slot
            /\ UNCHANGED <<encoderIn, feeding>>
         \/ /\ Kind[t] = "audio" /\ ~endOfCodification[t] /\ slot /\ pending[t] = << >>
            /\ encoderIndex' = [encoderIndex EXCEPT ![t] = TRUE]
            /\ UNCHANGED <<encoderIn, pending>>
         \/ /\ Kind[t] = "audio" /\ ~endOfCodification[t] /\ slot /\ pending[t] # << >>
            /\ encoderIn' = [encoderIn EXCEPT ![t] = Append(@, Head(pending[t]))]
            /\ pending' = [pending EXCEPT ![t] = Tail(@)]
            /\ encoderIndex' = [encoderIndex EXCEPT ![t] = FALSE]

-----------------------------------------------------------------------------
(* Renderers                                                               *)

DrainPassThroughRenderer(t) ==
  /\ call = "drainRenderer" /\ t = turn /\ Kind[t] = "pass"
  /\ (IF phase = "running" THEN Respond(1) ELSE UNCHANGED decoderResponse)
  /\ GoTo("feedRenderer")
  /\ UNCHANGED <<source, reading, frames, decoder, ends, encoder, feeding,
                 endOfCodification, output, rounds, highestPts>>

(* MediaCodecRenderer.drainOutputBuffer.  An audio buffer is put aside     *)
(* for the codification; a video buffer is rendered on the encoder's       *)
(* surface or dropped (frame rate, or no image in time).                   *)
DrainDecoder(t) ==
  LET found == Head(decoderOut[t])
      Take == decoderOut' = [decoderOut EXCEPT ![t] = Tail(@)]
      Answer(n) == IF phase = "running" THEN Respond(n) ELSE UNCHANGED decoderResponse
      ToCodification ==
        \/ /\ Kind[t] = "audio"
           /\ pending' = [pending EXCEPT ![t] = Append(@, found)]
           /\ UNCHANGED encoderIn
        \/ /\ Kind[t] = "video" /\ found # EndOfStream /\ Len(encoderIn[t]) < Slots
           /\ encoderIn' = [encoderIn EXCEPT ![t] = Append(@, found)]
           /\ UNCHANGED pending
        \/ Kind[t] = "video" /\ UNCHANGED <<encoderIn, pending>>
  IN  /\ call = "drainRenderer" /\ t = turn /\ IsCodec(t)
      /\ GoTo("feedRenderer")
      /\ UNCHANGED <<source, reading, frames, decoderIn, streamIsFinal, endOfStreamSignaled,
                     encoderOut, encoderStarted, encoderIndex, endOfCodification, output,
                     rounds, highestPts>>
      /\ \/ /\ endOfStreamReached[t]
            /\ Answer(0)
            /\ UNCHANGED <<decoderOut, endOfStreamReached, encoderIn, pending>>
         \/ /\ ~endOfStreamReached[t] /\ decoderOut[t] = << >>
            /\ Answer(2)
            /\ UNCHANGED <<decoderOut, endOfStreamReached, encoderIn, pending>>
         \/ /\ ~endOfStreamReached[t] /\ decoderOut[t] # << >>
            /\ Take /\ ToCodification
            /\ Answer(IF found = EndOfStream THEN 0 ELSE 1)
            /\ endOfStreamReached' =
                 [endOfStreamReached EXCEPT ![t] = (found = EndOfStream)]

HeldBack(time) == time > highestPts + MaxPtsOffset

(* Seeded fault: a sample held back is given up.                           *)
HeldIsGivenUp(t, k) == [inputBuffer EXCEPT ![t] = << >>]
HeldForLater(t, k) == [inputBuffer EXCEPT ![t] = <<k>>]

(* The end of EmptyRenderer.feedInputBuffer, with sample k, or nothing, in *)
(* the buffer.  A buffer without data has time 0 and no description.       *)
PassOn(t, k) ==
  LET time == IF k = NoData THEN 0 ELSE Times[t][k]
  IN  \/ /\ HeldBack(time)
         /\ inputBuffer' = HeldForLater(t, k)
         /\ Fed(-1)
         /\ UNCHANGED frames
      \/ /\ ~HeldBack(time)
         /\ inputBuffer' = [inputBuffer EXCEPT ![t] = << >>]
         /\ frameData' = [frameData EXCEPT ![t] = Append(@, k)]
         /\ frameInfo' = (IF k = NoData THEN frameInfo
                          ELSE [frameInfo EXCEPT ![t] = Append(@, k)])
         /\ Fed(1)

(* With a flagged last sample, the read itself finds the end, and the      *)
(* renderer takes that for nothing.                                        *)
FlaggedEnd(t) == MarksLast /\ loaded[t] = Len(Times[t]) /\ loaded[t] # 0

(* EmptyRenderer.feedInputBuffer up to the look at the queue.              *)
FeedPassThrough(t) ==
  LET next == readUpTo[t] + 1
  IN  /\ call = "feedRenderer" /\ t = turn /\ Kind[t] = "pass"
      /\ UNCHANGED <<source, decodeOnly, inputIndex, decoder, ends, encoder, feeding,
                     endOfCodification, output, rounds, decoderResponse>>
      /\ \/ /\ streamIsFinal[t]
            /\ Fed(0)
            /\ UNCHANGED <<readUpTo, formatRead, inputBuffer, frames>>
         \/ /\ ~streamIsFinal[t] /\ inputBuffer[t] # << >>
            /\ PassOn(t, Head(inputBuffer[t]))
            /\ UNCHANGED <<readUpTo, formatRead>>
         \/ /\ ~streamIsFinal[t] /\ inputBuffer[t] = << >> /\ ~formatRead[t]
            /\ formatRead' = [formatRead EXCEPT ![t] = TRUE]
            /\ Fed(1)
            /\ UNCHANGED <<readUpTo, inputBuffer, frames>>
         \/ /\ ~streamIsFinal[t] /\ inputBuffer[t] = << >> /\ formatRead[t]
            /\ next <= loaded[t]
            /\ readUpTo' = [readUpTo EXCEPT ![t] = next]
            /\ UNCHANGED formatRead
            /\ IF IsDecodeOnly(t, next)
               THEN Fed(2) /\ UNCHANGED <<inputBuffer, frames>>
               ELSE PassOn(t, next)
         \/ /\ ~streamIsFinal[t] /\ inputBuffer[t] = << >> /\ formatRead[t]
            /\ next > loaded[t] /\ ~FlaggedEnd(t)
            /\ GoTo("nothingRead")
            /\ UNCHANGED <<highestPts, readUpTo, formatRead, inputBuffer, frames>>
         \/ /\ ~streamIsFinal[t] /\ inputBuffer[t] = << >> /\ formatRead[t]
            /\ next > loaded[t] /\ FlaggedEnd(t)
            /\ inputBuffer' = [inputBuffer EXCEPT ![t] = <<NoData>>]
            /\ Fed(2)
            /\ UNCHANGED <<readUpTo, formatRead, frames>>

(* readData found nothing, then looks at loadCompleted.  "Nothing read"    *)
(* leaves a buffer without data for the next call; the end of the input is *)
(* passed on as a buffer without data.                                     *)
NothingPassThrough(t) ==
  /\ call = "nothingRead" /\ t = turn /\ Kind[t] = "pass"
  /\ UNCHANGED <<source, readUpTo, formatRead, decodeOnly, inputIndex, decoder, ends, encoder,
                 feeding, endOfCodification, output, rounds, decoderResponse>>
  /\ IF loadCompleted
     THEN PassOn(t, NoData)
     ELSE /\ inputBuffer' = [inputBuffer EXCEPT ![t] = <<NoData>>]
          /\ Fed(2)
          /\ UNCHANGED frames

(* MediaCodecRenderer.feedInputBuffer.  It keeps its slot of the decoder   *)
(* until it queues a buffer; a sample flagged decode-only stays in it.     *)
FeedDecoder(t) ==
  LET next == readUpTo[t] + 1
      slot == inputIndex[t] \/ Len(decoderIn[t]) < Slots
      filled == Append(inputBuffer[t], next)
      Hold == inputIndex' = [inputIndex EXCEPT ![t] = TRUE]
      Queue(buffer) ==
        /\ decoderIn' = [decoderIn EXCEPT ![t] = Append(@, buffer)]
        /\ inputIndex' = [inputIndex EXCEPT ![t] = FALSE]
        /\ inputBuffer' = [inputBuffer EXCEPT ![t] = << >>]
        /\ decodeOnly' = [decodeOnly EXCEPT ![t] = FALSE]
  IN  /\ call = "feedRenderer" /\ t = turn /\ IsCodec(t)
      /\ UNCHANGED <<source, frames, decoderOut, streamIsFinal, endOfStreamReached, encoder,
                     feeding, endOfCodification, output, rounds, decoderResponse>>
      /\ \/ /\ endOfStreamSignaled[t] \/ ~slot
            /\ Fed(-1)
            /\ UNCHANGED <<reading, decoderIn, endOfStreamSignaled>>
         \/ /\ ~endOfStreamSignaled[t] /\ slot /\ streamIsFinal[t]
            /\ Queue(EndOfStream)
            /\ endOfStreamSignaled' = [endOfStreamSignaled EXCEPT ![t] = TRUE]
            /\ Fed(-1)
            /\ UNCHANGED <<readUpTo, formatRead>>
         \/ /\ ~endOfStreamSignaled[t] /\ slot /\ ~streamIsFinal[t]
            /\ UNCHANGED endOfStreamSignaled
            /\ \/ /\ ~formatRead[t]
                  /\ formatRead' = [formatRead EXCEPT ![t] = TRUE]
                  /\ Hold /\ Fed(-1)
                  /\ UNCHANGED <<readUpTo, inputBuffer, decodeOnly, decoderIn>>
               \/ /\ formatRead[t] /\ next <= loaded[t] /\ IsDecodeOnly(t, next)
                  /\ readUpTo' = [readUpTo EXCEPT ![t] = next]
                  /\ inputBuffer' = [inputBuffer EXCEPT ![t] = filled]
                  /\ decodeOnly' = [decodeOnly EXCEPT ![t] = TRUE]
                  /\ Hold /\ Fed(-1)
                  /\ UNCHANGED <<formatRead, decoderIn>>
               \/ /\ formatRead[t] /\ next <= loaded[t] /\ ~IsDecodeOnly(t, next)
                  /\ readUpTo' = [readUpTo EXCEPT ![t] = next]
                  /\ Queue(filled) /\ Fed(Times[t][next])
                  /\ UNCHANGED formatRead
               \/ /\ formatRead[t] /\ next > loaded[t] /\ ~FlaggedEnd(t)
                  /\ Hold /\ GoTo("nothingRead")
                  /\ UNCHANGED <<highestPts, readUpTo, formatRead, inputBuffer, decodeOnly,
                                 decoderIn>>
               \/ /\ formatRead[t] /\ next > loaded[t] /\ FlaggedEnd(t)
                  /\ decodeOnly' = [decodeOnly EXCEPT ![t] = FALSE]
                  /\ Hold /\ Fed(-1)
                  /\ UNCHANGED <<readUpTo, formatRead, inputBuffer, decoderIn>>

(* Seeded fault: nothing read is taken for the end.                        *)
NothingIsEnd(t) == TRUE

(* The end of the input, unless the flag of an earlier sample is still set.*)
AtEnd(t) == loadCompleted /\ ~decodeOnly[t]

(* Nothing was read; at the end of the input the decoder is told.          *)
NothingDecoder(t) ==
  /\ call = "nothingRead" /\ t = turn /\ IsCodec(t)
  /\ Fed(-1)
  /\ UNCHANGED <<source, readUpTo, formatRead, decodeOnly, frames, decoderOut,
                 streamIsFinal, endOfStreamReached, encoder, feeding,
                 endOfCodification, output, rounds, decoderResponse>>
  /\ \/ /\ AtEnd(t)
        /\ decoderIn' = [decoderIn EXCEPT ![t] = Append(@, EndOfStream)]
        /\ endOfStreamSignaled' = [endOfStreamSignaled EXCEPT ![t] = TRUE]
        /\ inputIndex' = [inputIndex EXCEPT ![t] = FALSE]
        /\ inputBuffer' = [inputBuffer EXCEPT ![t] = << >>]
     \/ /\ ~AtEnd(t)
        /\ UNCHANGED <<decoderIn, endOfStreamSignaled, inputIndex, inputBuffer>>

-----------------------------------------------------------------------------
Step ==
  \/ Test
  \/ EndRound
  \/ \E t \in Tracks :
       \/ DrainPassThrough(t) \/ DrainEncoder(t)
       \/ FeedCodification(t)
       \/ DrainPassThroughRenderer(t) \/ DrainDecoder(t)
       \/ FeedPassThrough(t) \/ NothingPassThrough(t)
       \/ FeedDecoder(t) \/ NothingDecoder(t)

Next ==
  \/ Step
  \/ \E t \in Tracks : Load(t) \/ Decode(t) \/ AnnounceFormat(t) \/ Encode(t)
  \/ LoadCompleted
  \/ StopTranscoding

Spec == Init /\ [][Next]_vars

FairSpec ==
  /\ Spec
  /\ WF_vars(Step)
  /\ \A t \in Tracks :
       WF_vars(Decode(t)) /\ WF_vars(AnnounceFormat(t)) /\ WF_vars(Encode(t))

-----------------------------------------------------------------------------
(* Properties                                                              *)

Calls == {"test", "drainCodification", "feedCodification", "drainRenderer",
          "feedRenderer", "nothingRead", "endRound", "none"}
Buffer(t) == Seq(Samples(t))

(* The types of the variables, and the limits of the queues: a codec has   *)
(* at most Slots buffers on a side, a pass-through renderer one frame.     *)
TypeOK ==
  /\ loadCompleted \in BOOLEAN /\ canceled \in BOOLEAN /\ reachedEndOfStream \in BOOLEAN
  /\ muxerStarted \in BOOLEAN /\ currentNumOfStreams \in 0 .. Cardinality(Tracks)
  /\ call \in Calls /\ turn \in Tracks /\ decoderResponse \in 0 .. 2
  /\ phase \in {"running", "signalled", "draining", "stopped"} /\ highestPts \in Nat
  /\ \A t \in Tracks :
       /\ readUpTo[t] \in 0 .. loaded[t] /\ loaded[t] \in 0 .. Len(Times[t])
       /\ inputBuffer[t] \in Seq(0 .. Len(Times[t]))
       /\ frameData[t] \in Seq(0 .. Len(Times[t])) /\ frameInfo[t] \in Buffer(t)
       /\ Len(frameInfo[t]) <= Len(frameData[t]) /\ Len(frameData[t]) <= 1
       /\ decoderIn[t] \in Seq(Buffer(t)) /\ decoderOut[t] \in Seq(Buffer(t))
       /\ pending[t] \in Seq(Buffer(t)) /\ encoderIn[t] \in Seq(Buffer(t))
       /\ Len(decoderIn[t]) + (IF inputIndex[t] THEN 1 ELSE 0) <= Slots
       /\ Len(encoderIn[t]) + (IF encoderIndex[t] THEN 1 ELSE 0) <= Slots
       /\ Len(pending[t]) + Len(decoderOut[t]) <= Slots

(* The buffers between the renderer and the codification, oldest first.    *)
Queued(t) == encoderIn[t] \o pending[t] \o decoderOut[t] \o decoderIn[t]

(* The data of what a codification handed over, and the buffers of what an *)
(* encoder puts out.                                                       *)
HandedBuffers(handovers) == [i \in 1 .. Len(handovers) |-> handovers[i].data]
EncodedBuffers(outputs) == [i \in 1 .. Len(outputs) |-> outputs[i].samples]

(* Every buffer of a track between its queue and its muxer input, in the   *)
(* order in which it was read.                                             *)
Buffers(t) ==
  HandedBuffers(handed[t]) \o EncodedBuffers(encoderOut[t]) \o Queued(t)
    \o <<frameData[t], inputBuffer[t]>>

(* The samples in a buffer, and in a sequence of buffers.                  *)
Data(buffer) == Range(buffer) \ {NoData}
AllData(buffers) == UNION {Data(buffers[i]) : i \in DOMAIN buffers}

Increasing(buffer) == \A m, n \in DOMAIN buffer : m < n => buffer[m] < buffer[n]
InOrder(buffers) ==
  /\ \A i \in DOMAIN buffers : Increasing(buffers[i])
  /\ \A i, j \in DOMAIN buffers :
       i < j => \A k \in Data(buffers[i]), l \in Data(buffers[j]) : k < l

(* Whatever the codecs' pace, and in every loop of the thread, the samples *)
(* of a track stay in order, none is there twice, and none but a           *)
(* decode-only one or a video frame is lost between its queue and the      *)
(* muxer input (EmptyRenderer, MediaCodecRenderer and the codifications'   *)
(* queues).                                                                *)
NothingLost ==
  \A t \in Tracks :
    /\ InOrder(Buffers(t))
    /\ \A k \in AllData(Buffers(t)) : k <= readUpTo[t]
    /\ Kind[t] # "video" =>
         \A k \in 1 .. readUpTo[t] : IsDecodeOnly(t, k) \/ k \in AllData(Buffers(t))

(* Data and description come from two queues that are polled separately    *)
(* (EmptyCodification.drainOutputBuffer), and one of them also gets        *)
(* buffers without data: still every sample goes out with its own          *)
(* description.                                                            *)
DataMatchesInfo ==
  \A t \in Tracks : \A i \in 1 .. Len(handed[t]) : handed[t][i].data = handed[t][i].info

(* What is written of a track starts at some sample and has no gap: once   *)
(* every stream is discovered nothing is dropped any more, and nothing is  *)
(* written while a stream is missing or to a muxer that was not started    *)
(* (DefaultMediaOutput.sampleData, maybeStartMuxer).                       *)
WrittenWithoutGap ==
  \A t \in Tracks : \A i \in 1 .. Len(handed[t]) :
    handed[t][i].written =>
      /\ AllDiscovered /\ (muxerStarted \/ phase = "stopped")
      /\ \A j \in i .. Len(handed[t]) : handed[t][j].written

IsLast(buffer, buffers) ==
  \A i \in 1 .. Len(buffers) : buffers[i] = buffer => i = Len(buffers)

(* The end of a stream overtakes nothing: it is the last thing in every    *)
(* queue from the decoder to the codification, whoever holds back a buffer,*)
(* a codec takes it only when it has given all the rest, and unless it was *)
(* stopped a renderer tells it only after the input has ended              *)
(* (MediaCodecRenderer and MediaCodecCodification).                        *)
EndIsLast ==
  \A t \in {u \in Tracks : IsCodec(u)} :
    /\ IsLast(EndOfStream, Queued(t))
    /\ IsLast(Frame(EndOfStream), encoderOut[t])
    /\ endOfStreamReached[t] => decoderIn[t] = << >> /\ decoderOut[t] = << >>
    /\ endOfCodification[t] => encoderIn[t] = << >> /\ encoderOut[t] = << >>
    /\ endOfStreamSignaled[t] => loadCompleted \/ streamIsFinal[t]

Delivered(t, k) == \E i \in 1 .. Len(handed[t]) : k \in Range(handed[t][i].data)

(* A pass-through sample in hand that nothing loaded of the other tracks   *)
(* can release.                                                            *)
AheadOfAll(t) ==
  /\ Kind[t] = "pass"
  /\ \E k \in Data(inputBuffer[t]) :
       \A u \in {v \in Tracks : IsCodec(v)} : \A l \in 1 .. loaded[u] :
         Times[t][k] > Times[u][l] + MaxPtsOffset

(* A sample that was loaded reaches its muxer input, or somebody stops, or *)
(* the input ends, or it waits for ever behind a pass-through sample of    *)
(* its own track that is too far ahead of all that was loaded of the       *)
(* tracks with codecs. Nothing else blocks it for ever: no slot held by    *)
(* renderer or codification, no order of calls, no sample of another track,*)
(* and no load that delivers nothing more (EmptyRenderer, MediaCodec-      *)
(* Renderer, the codifications).                                           *)
SamplesDelivered ==
  \A t \in Tracks : \A k \in Samples(t) :
    Kind[t] # "video" /\ ~IsDecodeOnly(t, k) =>
      (<>(loaded[t] >= k) =>
         <>(Delivered(t, k) \/ canceled \/ loadCompleted) \/ <>[]AheadOfAll(t))

(* stopTranscoding ends the thread, whatever is in the codecs: neither the *)
(* round nor the drain loop runs for ever.                                 *)
StopEnds == canceled ~> phase = "stopped"

-----------------------------------------------------------------------------
(* A statement of a comment in the code, which the code does not keep      *)

(* DefaultTranscoder, drainEncoders: "Response to endOfStream - when the   *)
(* end of the file has been reached".  When the input has ended the loop   *)
(* ends.                                                                   *)
EndsAtEndOfInput == loadCompleted ~> phase = "stopped"
=============================================================================
