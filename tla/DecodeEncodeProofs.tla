------------------------- MODULE DecodeEncodeProofs -------------------------
(***************************************************************************)
(* Proofs about DecodeEncode, for any tracks, times and sizes: the types   *)
(* and the limits of the queues, that data and description stay together,  *)
(* and that writing, once begun, goes on.                                  *)
(***************************************************************************)
EXTENDS DecodeEncode, FiniteSetTheorems, TLAPS

(* What a codification hands over, and what an encoder puts out.           *)
Handover(t) == [data : Buffer(t), info : Buffer(t), written : BOOLEAN]
Output(t) == [kind : {"frame", "format", "config"}, samples : Buffer(t)]

(* Every variable that belongs to tracks has a value for each.             *)
Shape ==
  /\ DOMAIN loaded = Tracks /\ DOMAIN readUpTo = Tracks /\ DOMAIN formatRead = Tracks
  /\ DOMAIN inputBuffer = Tracks /\ DOMAIN decodeOnly = Tracks /\ DOMAIN inputIndex = Tracks
  /\ DOMAIN frameData = Tracks /\ DOMAIN frameInfo = Tracks
  /\ DOMAIN streamIsFinal = Tracks /\ DOMAIN endOfStreamSignaled = Tracks
  /\ DOMAIN endOfStreamReached = Tracks
  /\ DOMAIN decoderIn = Tracks /\ DOMAIN decoderOut = Tracks /\ DOMAIN pending = Tracks
  /\ DOMAIN encoderIndex = Tracks /\ DOMAIN encoderIn = Tracks /\ DOMAIN encoderOut = Tracks
  /\ DOMAIN encoderStarted = Tracks /\ DOMAIN endOfCodification = Tracks
  /\ DOMAIN formatRegistered = Tracks /\ DOMAIN handed = Tracks

(* The reading of a track.  A pass-through renderer has at most one        *)
(* sample, or one buffer without data, and has it only after the format.   *)
ReadPart(t) ==
  /\ loaded[t] \in 0 .. Len(Times[t]) /\ readUpTo[t] \in 0 .. loaded[t]
  /\ formatRead[t] \in BOOLEAN /\ decodeOnly[t] \in BOOLEAN /\ inputIndex[t] \in BOOLEAN
  /\ IF IsCodec(t) THEN inputBuffer[t] \in Buffer(t)
     ELSE \/ inputBuffer[t] = << >>
          \/ formatRead[t] /\ \E k \in 0 .. Len(Times[t]) : inputBuffer[t] = <<k>>

(* The pass-through queues hold a sample and its description, or a buffer  *)
(* without data, or nothing.                                               *)
FramePart(t) ==
  \/ frameData[t] = << >> /\ frameInfo[t] = << >>
  \/ ~IsCodec(t) /\ formatRead[t] /\ frameData[t] = <<NoData>> /\ frameInfo[t] = << >>
  \/ /\ ~IsCodec(t) /\ formatRead[t]
     /\ \E k \in Samples(t) : frameData[t] = <<k>> /\ frameInfo[t] = <<k>>

(* The queues of a track's codecs.                                         *)
CodecPart(t) ==
  /\ decoderIn[t] \in Seq(Buffer(t)) /\ decoderOut[t] \in Seq(Buffer(t))
  /\ pending[t] \in Seq(Buffer(t)) /\ encoderIn[t] \in Seq(Buffer(t))
  /\ encoderOut[t] \in Seq(Output(t))
  /\ encoderIndex[t] \in BOOLEAN /\ (Kind[t] # "audio" => ~encoderIndex[t])
  /\ Len(decoderIn[t]) + (IF inputIndex[t] THEN 1 ELSE 0) <= Slots
  /\ Len(encoderIn[t]) + (IF encoderIndex[t] THEN 1 ELSE 0) <= Slots
  /\ Len(pending[t]) + Len(decoderOut[t]) <= Slots

(* What was handed over goes with its own description.                     *)
HandedPart(t) ==
  /\ handed[t] \in Seq(Handover(t))
  /\ \A i \in 1 .. Len(handed[t]) :
       /\ handed[t][i].data = handed[t][i].info
       /\ Kind[t] = "pass" =>
            \E k \in Samples(t) : handed[t][i].data = <<k>>

(* A track is discovered once: a pass-through track when its codification  *)
(* registers it, another one when its encoder's format was taken.          *)
IsDiscovered(t) ==
  IF IsCodec(t)
  THEN encoderStarted[t] /\ \A i \in DOMAIN encoderOut[t] : encoderOut[t][i] # FormatChanged
  ELSE formatRegistered[t]
Discovered == {t \in Tracks : IsDiscovered(t)}

FormatPart(t) ==
  /\ formatRegistered[t] \in BOOLEAN /\ encoderStarted[t] \in BOOLEAN
  /\ ~encoderStarted[t] => encoderOut[t] = << >>
  /\ \A i \in DOMAIN encoderOut[t] : encoderOut[t][i] = FormatChanged => i = 1

(* Where the thread is.  When it feeds a renderer, the codification has    *)
(* just emptied the renderer's queues.                                     *)
AfterDrain == {"feedCodification", "drainRenderer", "feedRenderer", "nothingRead"}
LoopPart ==
  /\ call \in Calls /\ turn \in Tracks /\ decoderResponse \in 0 .. 2
  /\ phase \in {"running", "signalled", "draining", "stopped"} /\ highestPts \in Nat
  /\ loadCompleted \in BOOLEAN /\ canceled \in BOOLEAN /\ reachedEndOfStream \in BOOLEAN
  /\ muxerStarted \in BOOLEAN
  /\ phase = "stopped" => call = "none"
  /\ call \in AfterDrain => frameData[turn] = << >> /\ frameInfo[turn] = << >>
  /\ call = "nothingRead" => inputBuffer[turn] = << >> \/ IsCodec(turn)
  /\ call = "nothingRead" => formatRead[turn]
  /\ call = "nothingRead" /\ IsCodec(turn) => inputIndex[turn]

TrackPart(t) == ReadPart(t) /\ FramePart(t) /\ CodecPart(t) /\ HandedPart(t) /\ FormatPart(t)

CountPart == currentNumOfStreams = Cardinality(Discovered)

IndInv == Shape /\ LoopPart /\ (\A t \in Tracks : TrackPart(t)) /\ CountPart

-----------------------------------------------------------------------------
(* Sequences.                                                              *)

LEMMA TailElements ==
  ASSUME NEW S, NEW s \in Seq(S), s # << >>
  PROVE  /\ Tail(s) \in Seq(S)
         /\ Head(s) = s[1] /\ Head(s) \in S
         /\ Len(s) \in Nat /\ Len(Tail(s)) = Len(s) - 1
         /\ \A i \in DOMAIN Tail(s) : i + 1 \in DOMAIN s /\ Tail(s)[i] = s[i + 1]
  OBVIOUS

LEMMA AppendElements ==
  ASSUME NEW S, NEW s \in Seq(S), NEW e \in S
  PROVE  /\ Append(s, e) \in Seq(S)
         /\ Len(s) \in Nat /\ Len(Append(s, e)) = Len(s) + 1
         /\ \A i \in DOMAIN s : Append(s, e)[i] = s[i]
         /\ Append(s, e)[Len(s) + 1] = e
         /\ DOMAIN Append(s, e) = DOMAIN s \cup {Len(s) + 1}
  OBVIOUS

LEMMA Singletons ==
  /\ \A S : << >> \in Seq(S)
  /\ \A S, e : e \in S => <<e>> \in Seq(S) /\ Len(<<e>>) = 1
  /\ \A e : Head(<<e>>) = e /\ Tail(<<e>>) = << >> /\ <<e>> # << >>
  /\ \A e : Append(<< >>, e) = <<e>>
  OBVIOUS

LEMMA Pairs ==
  ASSUME NEW S, NEW a \in S, NEW b \in S
  PROVE  <<a>> \in Seq(S) /\ <<a, b>> \in Seq(S)
  OBVIOUS

LEMMA TrackFacts ==
  /\ Tracks = 1 .. Len(Kind) /\ Len(Kind) \in Nat \ {0}
  /\ IsFiniteSet(Tracks) /\ Cardinality(Tracks) = Len(Kind)
  /\ \A t \in Tracks : /\ Len(Times[t]) \in Nat
                        /\ \A k \in Samples(t) : Times[t][k] \in Int
  /\ \A t \in Tracks : Kind[t] \in {"pass", "audio", "video"}
  /\ MaxPtsOffset \in Nat /\ Slots \in Nat \ {0}
  <1>1. Tracks = 1 .. Len(Kind) /\ Len(Kind) \in Nat \ {0}
    BY KindAssumption DEF Tracks
  <1>2. IsFiniteSet(Tracks) /\ Cardinality(Tracks) = Len(Kind)
    BY <1>1, FS_Interval
  <1>3. ASSUME NEW t \in Tracks
        PROVE  /\ Len(Times[t]) \in Nat
               /\ \A k \in Samples(t) : Times[t][k] \in Int
    BY TimesAssumption DEF Samples
  <1> QED
    BY <1>1, <1>2, <1>3, KindAssumption, SizesAssumption

LEMMA InitInd == Init => IndInv
  <1> SUFFICES ASSUME Init PROVE IndInv
    OBVIOUS
  <1>1. Shape
    BY DEF Init, Shape
  <1>2. LoopPart
    <2>1. 1 \in Tracks
      BY TrackFacts
    <2>2. call = "test" /\ turn = 1 /\ phase = "running"
      BY DEF Init
    <2>3. decoderResponse \in 0 .. 2 /\ highestPts \in Nat
      BY DEF Init
    <2>4. /\ loadCompleted \in BOOLEAN /\ canceled \in BOOLEAN
          /\ reachedEndOfStream \in BOOLEAN /\ muxerStarted \in BOOLEAN
      BY DEF Init
    <2> QED
      BY <2>1, <2>2, <2>3, <2>4 DEF LoopPart, Calls, AfterDrain
  <1>3. ASSUME NEW t \in Tracks PROVE TrackPart(t)
    <2>1. ReadPart(t)
      BY TrackFacts, Singletons DEF Init, ReadPart, Buffer
    <2>2. FramePart(t)
      BY DEF Init, FramePart
    <2>3. CodecPart(t)
      BY TrackFacts, Singletons DEF Init, CodecPart
    <2>4. HandedPart(t)
      BY Singletons DEF Init, HandedPart
    <2>5. FormatPart(t)
      BY DEF Init, FormatPart
    <2> QED
      BY <2>1, <2>2, <2>3, <2>4, <2>5 DEF TrackPart
  <1>4. CountPart
    <2>1. Discovered = {}
      BY DEF Init, Discovered, IsDiscovered
    <2> QED
      BY <2>1, FS_EmptySet DEF Init, CountPart
  <1> QED
    BY <1>1, <1>2, <1>3, <1>4 DEF IndInv

-----------------------------------------------------------------------------
(* Steps of the thread's control.                                          *)

Raised == highestPts \in Nat /\ highestPts' \in Nat /\ highestPts <= highestPts'

LEMMA NextTurnGood ==
  ASSUME turn \in Tracks, NextTurn
  PROVE  turn' \in Tracks /\ call' \in {"drainCodification", "endRound"}
  BY TrackFacts DEF NextTurn

LEMMA AfterDrainingGood ==
  ASSUME turn \in Tracks, NEW n, AfterDraining(n)
  PROVE  /\ turn' \in Tracks
         /\ \/ call' \in {"drainCodification", "endRound"}
            \/ call' = "feedCodification" /\ turn' = turn
  BY NextTurnGood DEF AfterDraining, GoTo

LEMMA SumGood ==
  ASSUME decoderResponse \in 0 .. 2, NEW n \in 0 .. 2
  PROVE  Sum(n) \in 0 .. 2
  BY DEF Sum

LEMMA FedGood ==
  ASSUME LoopPart, NEW result \in Int, Fed(result)
  PROVE  Raised /\ turn' \in Tracks /\ call' \in {"drainCodification", "endRound"}
  <1>1. turn' \in Tracks /\ call' \in {"drainCodification", "endRound"}
    BY NextTurnGood DEF LoopPart, Fed
  <1>2. Raised
    BY DEF LoopPart, Fed, HighestAfter, Raised
  <1> QED
    BY <1>1, <1>2

(* A part of the invariant survives a step that leaves its variables alone.*)

LEMMA ReadKept ==
  ASSUME NEW t \in Tracks, ReadPart(t),
         loaded'[t] = loaded[t], readUpTo'[t] = readUpTo[t], formatRead'[t] = formatRead[t],
         inputBuffer'[t] = inputBuffer[t], decodeOnly'[t] = decodeOnly[t],
         inputIndex'[t] = inputIndex[t]
  PROVE  ReadPart(t)'
  BY DEF ReadPart

LEMMA FrameKept ==
  ASSUME NEW t \in Tracks, FramePart(t), Raised, formatRead[t] => formatRead'[t],
         frameData'[t] = frameData[t], frameInfo'[t] = frameInfo[t]
  PROVE  FramePart(t)'
  BY DEF FramePart

LEMMA CodecKept ==
  ASSUME NEW t \in Tracks, CodecPart(t),
         decoderIn'[t] = decoderIn[t], decoderOut'[t] = decoderOut[t],
         pending'[t] = pending[t], encoderIn'[t] = encoderIn[t],
         encoderOut'[t] = encoderOut[t], encoderIndex'[t] = encoderIndex[t],
         inputIndex'[t] = inputIndex[t]
  PROVE  CodecPart(t)'
  BY DEF CodecPart

LEMMA HandedKept ==
  ASSUME NEW t \in Tracks, HandedPart(t), Raised, handed'[t] = handed[t]
  PROVE  HandedPart(t)'
  <1>1. handed'[t] \in Seq(Handover(t))
    BY DEF HandedPart
  <1>2. ASSUME NEW i \in 1 .. Len(handed'[t])
        PROVE  /\ handed'[t][i].data = handed'[t][i].info
               /\ Kind[t] = "pass" =>
                    \E k \in Samples(t) : handed'[t][i].data = <<k>>
    BY DEF HandedPart
  <1> QED
    BY <1>1, <1>2 DEF HandedPart, Handover

LEMMA FormatKept ==
  ASSUME NEW t \in Tracks, FormatPart(t), formatRegistered'[t] = formatRegistered[t],
         encoderStarted'[t] = encoderStarted[t], encoderOut'[t] = encoderOut[t]
  PROVE  FormatPart(t)'
  BY DEF FormatPart, FormatChanged

LEMMA CountKept ==
  ASSUME CountPart, currentNumOfStreams' = currentNumOfStreams,
         \A t \in Tracks : IsDiscovered(t)' <=> IsDiscovered(t)
  PROVE  CountPart'
  <1>1. Discovered' = Discovered
    BY DEF Discovered
  <1> QED
    BY <1>1 DEF CountPart

-----------------------------------------------------------------------------
(* The source, the client and the codecs.                                  *)

LEMMA LoadInd ==
  ASSUME IndInv, NEW t \in Tracks, Load(t)
  PROVE  IndInv'
  <1> USE DEF IndInv, source, reading, frames, decoder, ends, encoder, feeding, output, rounds, loop
  <1>1. Shape'
    BY DEF Load, Shape
  <1>2. LoopPart'
    BY DEF Load, LoopPart
  <1>3. Raised
    BY DEF Load, LoopPart, Raised
  <1>4. ASSUME NEW u \in Tracks PROVE TrackPart(u)'
    <2>1. ReadPart(u)'
      <3>1. loaded'[u] \in 0 .. Len(Times[u]) /\ loaded[u] <= loaded'[u]
        BY TrackFacts DEF Load, Shape, TrackPart, ReadPart
      <3> QED
        BY <3>1 DEF Load, TrackPart, ReadPart
    <2>2. FramePart(u)' /\ CodecPart(u)' /\ HandedPart(u)' /\ FormatPart(u)'
      BY <1>3, FrameKept, CodecKept, HandedKept, FormatKept DEF Load, TrackPart
    <2> QED
      BY <2>1, <2>2 DEF TrackPart
  <1>5. CountPart'
    BY CountKept DEF Load, IsDiscovered, FormatChanged
  <1> QED
    BY <1>1, <1>2, <1>4, <1>5

(* A step that leaves the tracks alone.                                    *)
LEMMA TracksKept ==
  ASSUME IndInv, Raised,
         UNCHANGED <<loaded, reading, frames, decoder, encoder, feeding, formatRegistered,
                     currentNumOfStreams, handed>>
  PROVE  (\A t \in Tracks : TrackPart(t)') /\ CountPart'
  <1> USE DEF IndInv, reading, frames, decoder, encoder, feeding
  <1>1. ASSUME NEW t \in Tracks PROVE TrackPart(t)'
    BY ReadKept, FrameKept, CodecKept, HandedKept, FormatKept DEF TrackPart
  <1>2. CountPart'
    BY CountKept DEF IsDiscovered, FormatChanged
  <1> QED
    BY <1>1, <1>2

LEMMA FlagsInd ==
  ASSUME IndInv, LoadCompleted \/ StopTranscoding
  PROVE  IndInv'
  <1> USE DEF IndInv, source, reading, frames, decoder, ends, encoder, feeding, output, rounds, loop,
              LoadCompleted, StopTranscoding
  <1>1. Shape'
    BY DEF Shape
  <1>2. LoopPart'
    <2>1. CASE LoadCompleted
      BY <2>1 DEF LoopPart
    <2>2. CASE StopTranscoding
      BY <2>2 DEF LoopPart
    <2> QED
      BY <2>1, <2>2
  <1>3. Raised
    BY DEF LoopPart, Raised
  <1> QED
    BY <1>1, <1>2, <1>3, TracksKept

LEMMA LoopInd ==
  ASSUME IndInv, Test \/ EndRound
  PROVE  IndInv'
  <1> USE DEF IndInv, source, reading, frames, decoder, ends, encoder, feeding, output, rounds, loop
  <1>1. Shape'
    BY DEF Shape, Test, EndRound
  <1>2. LoopPart'
    <2>1. CASE Test
      <3>1. 1 \in Tracks
        BY TrackFacts
      <3> QED
        BY <2>1, <3>1 DEF Test, LoopPart, Calls, AfterDrain
    <2>2. CASE EndRound
      <3>1. /\ reachedEndOfStream' \in BOOLEAN /\ canceled' \in BOOLEAN
            /\ muxerStarted' \in BOOLEAN /\ loadCompleted' \in BOOLEAN
        BY <2>2 DEF EndRound, LoopPart
      <3>2. decoderResponse' \in 0 .. 2 /\ highestPts' \in Nat /\ turn' \in Tracks
        BY <2>2 DEF EndRound, LoopPart
      <3>3. /\ call' \in {"test", "drainCodification", "none"}
            /\ phase' \in {"running", "signalled", "draining", "stopped"}
            /\ phase' = "stopped" => call' = "none"
        BY <2>2 DEF EndRound, LoopPart
      <3> QED
        BY <3>1, <3>2, <3>3 DEF LoopPart, Calls, AfterDrain
    <2> QED
      BY <2>1, <2>2
  <1>3. Raised
    BY DEF LoopPart, Raised, Test, EndRound
  <1> QED
    BY <1>1, <1>2, <1>3, TracksKept DEF Test, EndRound

LEMMA DecodeInd ==
  ASSUME IndInv, NEW t \in Tracks, Decode(t)
  PROVE  IndInv'
  <1> USE DEF IndInv, source, reading, frames, decoder, ends, encoder, feeding, output, rounds, loop
  <1>1. Shape'
    BY DEF Decode, Shape
  <1>2. LoopPart'
    BY DEF Decode, LoopPart
  <1>3. Raised
    BY DEF Decode, LoopPart, Raised
  <1>4. ASSUME NEW u \in Tracks PROVE TrackPart(u)'
    <2>1. CodecPart(u)'
      <3>1. CASE u = t
        <4>1. decoderIn[t] \in Seq(Buffer(t)) /\ decoderOut[t] \in Seq(Buffer(t))
          BY DEF TrackPart, CodecPart
        <4>2. /\ decoderIn'[t] \in Seq(Buffer(t)) /\ decoderOut'[t] \in Seq(Buffer(t))
              /\ Len(decoderIn'[t]) <= Len(decoderIn[t])
              /\ Len(decoderOut'[t]) = Len(decoderOut[t]) + 1
          BY <4>1, TailElements, AppendElements DEF Decode, Shape
        <4>3. Len(decoderOut[t]) + Len(pending[t]) < Slots /\ pending[t] \in Seq(Buffer(t))
          BY DEF Decode, TrackPart, CodecPart
        <4>4. /\ Len(decoderIn'[t]) + (IF inputIndex[t] THEN 1 ELSE 0) <= Slots
              /\ Len(pending[t]) + Len(decoderOut'[t]) <= Slots
          <5> DEFINE held == IF inputIndex[t] THEN 1 ELSE 0
          <5>1. held \in {0, 1} /\ Len(decoderIn[t]) + held <= Slots /\ Slots \in Nat
            BY TrackFacts DEF TrackPart, CodecPart
          <5> HIDE DEF held
          <5>2. Len(decoderIn'[t]) + held <= Slots
            BY <4>1, <4>2, <5>1
          <5>3. Len(pending[t]) + Len(decoderOut'[t]) <= Slots
            <6> DEFINE put == Len(pending[t])
                       out == Len(decoderOut[t])
                       next == Len(decoderOut'[t])
            <6>1. put \in Nat /\ out \in Nat /\ next = out + 1 /\ out + put < Slots
              <7>1. put \in Nat
                BY <4>3
              <7>2. out \in Nat
                BY <4>1
              <7>3. next = out + 1 /\ out + put < Slots
                BY <4>2, <4>3
              <7> QED
                BY <7>1, <7>2, <7>3
            <6> HIDE DEF put, out, next
            <6>2. put + next <= Slots
              BY <5>1, <6>1
            <6> QED
              BY <6>2 DEF put, next
          <5> QED
            BY <5>2, <5>3 DEF held
        <4>5. UNCHANGED <<inputIndex, pending, encoderIn, encoderOut, encoderIndex>>
          BY DEF Decode
        <4> QED
          BY <3>1, <4>2, <4>4, <4>5 DEF TrackPart, CodecPart, Buffer, Samples, Output
      <3>2. CASE u # t
        BY <3>2, CodecKept DEF Decode, TrackPart, Shape
      <3> QED
        BY <3>1, <3>2
    <2>2. ReadPart(u)' /\ FramePart(u)' /\ HandedPart(u)' /\ FormatPart(u)'
      BY <1>3, ReadKept, FrameKept, HandedKept, FormatKept DEF Decode, TrackPart
    <2> QED
      BY <2>1, <2>2 DEF TrackPart
  <1>5. CountPart'
    BY CountKept DEF Decode, IsDiscovered, FormatChanged
  <1> QED
    BY <1>1, <1>2, <1>4, <1>5

LEMMA FramesOfEncoder ==
  /\ \A t \in Tracks : FormatChanged \in Output(t) /\ CodecConfig \in Output(t)
  /\ \A t \in Tracks : \A b \in Buffer(t) : Frame(b) \in Output(t)
  /\ \A b : Frame(b) # FormatChanged
  /\ CodecConfig # FormatChanged
  BY Singletons DEF Output, FormatChanged, CodecConfig, Frame, Buffer

LEMMA AnnounceInd ==
  ASSUME IndInv, NEW t \in Tracks, AnnounceFormat(t)
  PROVE  IndInv'
  <1> USE DEF IndInv, source, reading, frames, decoder, ends, encoder, feeding, output, rounds, loop
  <1>1. Shape'
    BY DEF AnnounceFormat, Shape
  <1>2. LoopPart'
    BY DEF AnnounceFormat, LoopPart
  <1>3. Raised
    BY DEF AnnounceFormat, LoopPart, Raised
  <1>4. /\ encoderOut'[t] \in Seq(Output(t)) /\ encoderOut[t] = << >>
        /\ encoderOut'[t] = <<FormatChanged>> \/ encoderOut'[t] = <<FormatChanged, CodecConfig>>
        /\ ~encoderStarted[t] /\ encoderStarted'[t] = TRUE
        /\ \A u \in Tracks : u # t => /\ encoderOut'[u] = encoderOut[u]
                                     /\ encoderStarted'[u] = encoderStarted[u]
    <2>1. encoderOut[t] = << >> /\ ~encoderStarted[t]
      BY DEF AnnounceFormat, TrackPart, FormatPart
    <2>2. /\ encoderOut'[t] = <<FormatChanged>> \/ encoderOut'[t] = <<FormatChanged, CodecConfig>>
          /\ encoderStarted'[t] = TRUE
          /\ \A u \in Tracks : u # t => /\ encoderOut'[u] = encoderOut[u]
                                       /\ encoderStarted'[u] = encoderStarted[u]
      BY DEF AnnounceFormat, Shape
    <2>3. FormatChanged \in Output(t) /\ CodecConfig \in Output(t)
      BY FramesOfEncoder
    <2>4. encoderOut'[t] \in Seq(Output(t))
      BY <2>2, <2>3, Pairs
    <2> QED
      BY <2>1, <2>2, <2>4
  <1>5. ASSUME NEW u \in Tracks PROVE TrackPart(u)'
    <2>1. CodecPart(u)'
      BY <1>4 DEF AnnounceFormat, TrackPart, CodecPart, Buffer, Samples, Output
    <2>2. FormatPart(u)'
      <3>1. CASE u = t
        <4>1. \A i \in DOMAIN encoderOut'[t] : encoderOut'[t][i] = FormatChanged => i = 1
          BY <1>4, FramesOfEncoder
        <4> QED
          BY <3>1, <4>1, <1>4 DEF AnnounceFormat, TrackPart, FormatPart, FormatChanged
      <3>2. CASE u # t
        BY <3>2, <1>4, FormatKept DEF AnnounceFormat, TrackPart
      <3> QED
        BY <3>1, <3>2
    <2>3. ReadPart(u)' /\ FramePart(u)' /\ HandedPart(u)'
      BY <1>3, ReadKept, FrameKept, HandedKept DEF AnnounceFormat, TrackPart
    <2> QED
      BY <2>1, <2>2, <2>3 DEF TrackPart
  <1>6. CountPart'
    <2>1. ASSUME NEW u \in Tracks PROVE IsDiscovered(u)' <=> IsDiscovered(u)
      <3>1. CASE u = t
        <4>1. 1 \in DOMAIN encoderOut'[t] /\ encoderOut'[t][1] = FormatChanged
          BY <1>4
        <4> QED
          BY <3>1, <4>1, <1>4 DEF IsDiscovered, AnnounceFormat, FormatChanged
      <3>2. CASE u # t
        BY <3>2, <1>4 DEF IsDiscovered, AnnounceFormat, FormatChanged
      <3> QED
        BY <3>1, <3>2
    <2> QED
      BY <2>1, CountKept DEF AnnounceFormat
  <1> QED
    BY <1>1, <1>2, <1>5, <1>6

LEMMA EncodeInd ==
  ASSUME IndInv, NEW t \in Tracks, Encode(t)
  PROVE  IndInv'
  <1> USE DEF IndInv, source, reading, frames, decoder, ends, encoder, feeding, output, rounds, loop
  <1>1. Shape'
    BY DEF Encode, Shape
  <1>2. LoopPart'
    BY DEF Encode, LoopPart
  <1>3. Raised
    BY DEF Encode, LoopPart, Raised
  <1> DEFINE new == Frame(Head(encoderIn[t]))
  <1>4. /\ encoderIn[t] \in Seq(Buffer(t)) /\ encoderIn[t] # << >>
        /\ encoderOut[t] \in Seq(Output(t)) /\ encoderStarted[t]
    BY DEF Encode, TrackPart, CodecPart
  <1>5. encoderIn'[t] = Tail(encoderIn[t]) /\ encoderOut'[t] = Append(encoderOut[t], new)
    BY DEF Encode, Shape
  <1>6. \A u \in Tracks : u # t => encoderIn'[u] = encoderIn[u] /\ encoderOut'[u] = encoderOut[u]
    BY DEF Encode, Shape
  <1>7. new \in Output(t) /\ new # FormatChanged
    BY <1>4, TailElements, FramesOfEncoder
  <1>8. /\ DOMAIN encoderOut'[t] = DOMAIN encoderOut[t] \cup {Len(encoderOut[t]) + 1}
        /\ \A i \in DOMAIN encoderOut[t] : encoderOut'[t][i] = encoderOut[t][i]
        /\ encoderOut'[t][Len(encoderOut[t]) + 1] # FormatChanged
    BY <1>4, <1>5, <1>7, AppendElements
  <1>9. ASSUME NEW u \in Tracks PROVE TrackPart(u)'
    <2>1. CodecPart(u)'
      <3>1. CASE u = t
        <4>1. /\ encoderIn'[t] \in Seq(Buffer(t)) /\ encoderOut'[t] \in Seq(Output(t))
              /\ Len(encoderIn'[t]) = Len(encoderIn[t]) - 1 /\ Len(encoderIn[t]) \in Nat
          BY <1>4, <1>5, <1>7, TailElements, AppendElements
        <4>2. Len(encoderIn'[t]) + (IF encoderIndex[t] THEN 1 ELSE 0) <= Slots
          <5> DEFINE held == IF encoderIndex[t] THEN 1 ELSE 0
          <5>1. held \in {0, 1} /\ Len(encoderIn[t]) + held <= Slots /\ Slots \in Nat
            BY TrackFacts DEF TrackPart, CodecPart
          <5> HIDE DEF held
          <5>2. Len(encoderIn'[t]) + held <= Slots
            BY <4>1, <5>1
          <5> QED
            BY <5>2 DEF held
        <4> QED
          BY <3>1, <4>1, <4>2 DEF Encode, TrackPart, CodecPart, Buffer, Samples, Output
      <3>2. CASE u # t
        BY <3>2, <1>6, CodecKept DEF Encode, TrackPart
      <3> QED
        BY <3>1, <3>2
    <2>2. FormatPart(u)'
      <3>1. CASE u = t
        <4>1. \A i \in DOMAIN encoderOut'[t] : encoderOut'[t][i] = FormatChanged => i = 1
          BY <1>8 DEF TrackPart, FormatPart
        <4> QED
          BY <3>1, <4>1, <1>4 DEF Encode, TrackPart, FormatPart, FormatChanged
      <3>2. CASE u # t
        BY <3>2, <1>6, FormatKept DEF Encode, TrackPart
      <3> QED
        BY <3>1, <3>2
    <2>3. ReadPart(u)' /\ FramePart(u)' /\ HandedPart(u)'
      BY <1>3, ReadKept, FrameKept, HandedKept DEF Encode, TrackPart
    <2> QED
      BY <2>1, <2>2, <2>3 DEF TrackPart
  <1>10. CountPart'
    <2>1. ASSUME NEW u \in Tracks PROVE IsDiscovered(u)' <=> IsDiscovered(u)
      <3>1. CASE u = t
        BY <3>1, <1>8 DEF IsDiscovered, Encode, FormatChanged
      <3>2. CASE u # t
        BY <3>2, <1>6 DEF IsDiscovered, Encode, FormatChanged
      <3> QED
        BY <3>1, <3>2
    <2> QED
      BY <2>1, CountKept DEF Encode
  <1> QED
    BY <1>1, <1>2, <1>9, <1>10

-----------------------------------------------------------------------------
(* Draining the codifications.                                             *)

(* Taking the head of both queues leaves nothing in them.                  *)
LEMMA PollEmpties ==
  ASSUME NEW t \in Tracks, Shape, FramePart(t)
  PROVE  /\ DataAfterPoll(t)[t] = << >> /\ InfoAfterPoll(t)[t] = << >>
         /\ DOMAIN DataAfterPoll(t) = Tracks /\ DOMAIN InfoAfterPoll(t) = Tracks
         /\ \A u \in Tracks : u # t => /\ DataAfterPoll(t)[u] = frameData[u]
                                      /\ InfoAfterPoll(t)[u] = frameInfo[u]
  <1>1. /\ frameData[t] = << >> \/ Tail(frameData[t]) = << >>
        /\ frameInfo[t] = << >> \/ Tail(frameInfo[t]) = << >>
    BY Singletons DEF FramePart
  <1> QED
    BY <1>1 DEF DataAfterPoll, InfoAfterPoll, Shape

(* One more track is discovered.                                           *)
LEMMA OneMoreDiscovered ==
  ASSUME CountPart, NEW t \in Tracks, ~IsDiscovered(t), IsDiscovered(t)',
         \A u \in Tracks : u # t => (IsDiscovered(u)' <=> IsDiscovered(u)),
         currentNumOfStreams' = currentNumOfStreams + 1
  PROVE  CountPart'
  <1>1. Discovered' = Discovered \cup {t} /\ t \notin Discovered
    BY DEF Discovered
  <1>2. IsFiniteSet(Discovered)
    BY TrackFacts, FS_Subset DEF Discovered
  <1>3. Cardinality(Discovered \cup {t}) = Cardinality(Discovered) + 1
    BY <1>1, <1>2, FS_AddElement
  <1> QED
    BY <1>1, <1>3 DEF CountPart

LEMMA CountBounds ==
  ASSUME CountPart
  PROVE  /\ currentNumOfStreams \in 0 .. Cardinality(Tracks)
         /\ AllDiscovered <=> Discovered = Tracks
  <1>1. Discovered \subseteq Tracks /\ IsFiniteSet(Tracks)
    BY TrackFacts DEF Discovered
  <1>2. /\ Cardinality(Discovered) <= Cardinality(Tracks)
        /\ Cardinality(Discovered) = Cardinality(Tracks) => Discovered = Tracks
        /\ IsFiniteSet(Discovered)
    BY <1>1, FS_Subset
  <1>3. Cardinality(Discovered) \in Nat /\ Cardinality(Tracks) \in Nat
    BY <1>1, <1>2, FS_CardinalityType
  <1> QED
    BY <1>2, <1>3 DEF CountPart, AllDiscovered

(* What onDataReady leaves of a track.                                     *)
LEMMA OnDataReadyGood ==
  ASSUME Shape, NEW t \in Tracks, HandedPart(t), Raised,
         NEW data \in Buffer(t), NEW n, OnDataReady(t, data, data, n),
         Kind[t] = "pass" => \E k \in Samples(t) : data = <<k>>
  PROVE  HandedPart(t)' /\ DOMAIN handed' = Tracks
         /\ \A u \in Tracks : u # t => handed'[u] = handed[u]
  <1> DEFINE new == [data |-> data, info |-> data, written |-> IsWritten(n)]
  <1>1. new \in Handover(t)
    BY DEF Handover, IsWritten
  <1>2. handed' = [handed EXCEPT ![t] = Append(@, new)]
    BY DEF OnDataReady
  <1>3. handed'[t] = Append(handed[t], new) /\ DOMAIN handed' = Tracks
        /\ \A u \in Tracks : u # t => handed'[u] = handed[u]
    BY <1>2 DEF Shape
  <1> HIDE DEF new
  <1>4. /\ handed'[t] \in Seq(Handover(t)) /\ Len(handed[t]) \in Nat
        /\ Len(handed'[t]) = Len(handed[t]) + 1
        /\ \A i \in 1 .. Len(handed[t]) : handed'[t][i] = handed[t][i]
        /\ handed'[t][Len(handed[t]) + 1] = new
    BY <1>1, <1>3, AppendElements DEF HandedPart
  <1>5. ASSUME NEW i \in 1 .. Len(handed'[t])
        PROVE  /\ handed'[t][i].data = handed'[t][i].info
               /\ Kind[t] = "pass" =>
                    \E k \in Samples(t) : handed'[t][i].data = <<k>>
    <2>1. CASE i \in 1 .. Len(handed[t])
      BY <2>1, <1>4 DEF HandedPart
    <2>2. CASE i = Len(handed[t]) + 1
      BY <2>2, <1>4 DEF new
    <2> QED
      BY <1>4, <2>1, <2>2
  <1>6. HandedPart(t)'
    BY <1>4, <1>5 DEF HandedPart, Handover, Buffer, Samples
  <1> QED
    BY <1>3, <1>6

(* After a call for the track whose turn it is, the thread goes on with    *)
(* the next track, or with the next call for this one.                     *)
LEMMA LoopKept ==
  ASSUME LoopPart, call # "none",
         UNCHANGED <<phase, loadCompleted, canceled, reachedEndOfStream>>,
         muxerStarted' \in BOOLEAN, decoderResponse' \in 0 .. 2, highestPts' \in Nat,
         turn' \in Tracks,
         \/ call' \in {"drainCodification", "endRound"}
         \/ /\ call' \in {"feedCodification", "drainRenderer", "feedRenderer"}
            /\ frameData'[turn'] = << >> /\ frameInfo'[turn'] = << >>
  PROVE  LoopPart'
  BY DEF LoopPart, Calls, AfterDrain

LEMMA DrainPassThroughInd ==
  ASSUME IndInv, NEW t \in Tracks, DrainPassThrough(t)
  PROVE  IndInv'
  <1> USE DEF IndInv, source, reading, frames, decoder, ends, encoder, feeding, output, rounds
  <1>1. /\ turn = t /\ call = "drainCodification" /\ Kind[t] = "pass" /\ ~IsCodec(t)
        /\ UNCHANGED <<source, reading, decoder, ends, encoder, feeding, endOfCodification,
                       rounds, highestPts>>
    BY DEF DrainPassThrough, IsCodec
  <1>2. Raised
    BY <1>1 DEF LoopPart, Raised
  <1>3. \E n \in 0 .. 1 : Respond(n) /\ AfterDraining(n)
    BY DEF DrainPassThrough
  <1>4. /\ frameData'[t] = << >> /\ frameInfo'[t] = << >>
        /\ DOMAIN frameData' = Tracks /\ DOMAIN frameInfo' = Tracks
        /\ \A u \in Tracks : u # t => frameData'[u] = frameData[u] /\ frameInfo'[u] = frameInfo[u]
    <2>1. FramePart(t)
      BY DEF TrackPart
    <2>2. CASE ~(formatRegistered[t] \/ formatRead[t])
      BY <2>1, <2>2 DEF DrainPassThrough, FramePart, Shape
    <2>3. CASE formatRegistered[t] \/ formatRead[t]
      <3>1. frameData' = DataAfterPoll(t) /\ frameInfo' = InfoAfterPoll(t)
        BY <2>3 DEF DrainPassThrough
      <3> QED
        BY <2>1, <3>1, PollEmpties
    <2> QED
      BY <2>2, <2>3
  <1>5. /\ formatRegistered'[t] \in BOOLEAN /\ DOMAIN formatRegistered' = Tracks
        /\ \A u \in Tracks : u # t => formatRegistered'[u] = formatRegistered[u]
    BY DEF DrainPassThrough, Shape, TrackPart, FormatPart
  <1>6. /\ DOMAIN handed' = Tracks /\ HandedPart(t)'
        /\ \A u \in Tracks : u # t => handed'[u] = handed[u]
    <2>1. HandedPart(t)
      BY DEF TrackPart
    <2>2. CASE handed' = handed
      BY <1>2, <2>1, <2>2, HandedKept DEF Shape
    <2>3. CASE handed' # handed
      <3> DEFINE data == <<Head(frameData[t])>>
      <3>1. /\ frameData[t] # << >> /\ frameInfo[t] # << >> /\ Head(frameData[t]) # NoData
            /\ \E n : OnDataReady(t, data, <<Head(frameInfo[t])>>, n)
        BY <2>3 DEF DrainPassThrough
      <3>2. PICK k \in Samples(t) : frameData[t] = <<k>> /\ frameInfo[t] = <<k>>
        BY <3>1 DEF TrackPart, FramePart, NoData
      <3>3. data = <<k>> /\ <<Head(frameInfo[t])>> = data /\ data \in Buffer(t)
        BY <3>2, Singletons DEF Buffer
      <3>4. PICK n : OnDataReady(t, data, data, n)
        BY <3>1, <3>3
      <3> HIDE DEF data
      <3> QED
        BY <1>2, <2>1, <3>2, <3>3, <3>4, OnDataReadyGood
    <2> QED
      BY <2>2, <2>3
  <1>7. Shape'
    BY <1>1, <1>4, <1>5, <1>6 DEF Shape
  <1>8. LoopPart'
    <2>1. muxerStarted' \in BOOLEAN
      BY DEF DrainPassThrough, OnDataReady, MaybeStartMuxer, LoopPart
    <2>2. decoderResponse' \in 0 .. 2
      BY <1>3, SumGood DEF LoopPart, Respond
    <2>3. /\ turn' \in Tracks
          /\ \/ call' \in {"drainCodification", "endRound"}
             \/ /\ call' = "feedCodification"
                /\ turn' = t
      BY <1>1, <1>3, AfterDrainingGood DEF LoopPart
    <2> QED
      BY <1>1, <1>2, <1>4, <2>1, <2>2, <2>3, LoopKept DEF Raised
  <1>9. ASSUME NEW u \in Tracks PROVE TrackPart(u)'
    <2>1. FramePart(u)'
      <3>1. CASE u = t
        BY <1>4, <3>1 DEF FramePart
      <3>2. CASE u # t
        BY <1>1, <1>2, <1>4, <3>2, FrameKept DEF TrackPart
      <3> QED
        BY <3>1, <3>2
    <2>2. HandedPart(u)'
      <3>1. CASE u = t
        BY <1>6, <3>1
      <3>2. CASE u # t
        BY <1>2, <1>6, <3>2, HandedKept DEF TrackPart
      <3> QED
        BY <3>1, <3>2
    <2>3. FormatPart(u)'
      BY <1>1, <1>5 DEF TrackPart, FormatPart, FormatChanged
    <2>4. ReadPart(u)' /\ CodecPart(u)'
      BY <1>1, ReadKept, CodecKept DEF TrackPart
    <2> QED
      BY <2>1, <2>2, <2>3, <2>4 DEF TrackPart
  <1>10. CountPart'
    <2>1. \A u \in Tracks : u # t => (IsDiscovered(u)' <=> IsDiscovered(u))
      BY <1>1, <1>5 DEF IsDiscovered, FormatChanged
    <2>2. IsDiscovered(t) <=> formatRegistered[t]
      BY <1>1 DEF IsDiscovered
    <2>3. IsDiscovered(t)' <=> formatRegistered'[t]
      BY <1>1 DEF IsDiscovered, IsCodec
    <2>4. CASE formatRegistered'[t] /\ ~formatRegistered[t]
      <3>1. currentNumOfStreams' = currentNumOfStreams + 1
        BY <2>4 DEF DrainPassThrough
      <3> QED
        BY <2>1, <2>2, <2>3, <2>4, <3>1, OneMoreDiscovered
    <2>5. CASE formatRegistered'[t] <=> formatRegistered[t]
      <3>1. currentNumOfStreams' = currentNumOfStreams
        <4>1. currentNumOfStreams + 0 = currentNumOfStreams
          BY CountBounds
        <4> QED
          BY <2>5, <4>1 DEF DrainPassThrough, Shape, TrackPart, FormatPart
      <3> QED
        BY <2>1, <2>2, <2>3, <2>5, <3>1, CountKept
    <2>6. formatRegistered[t] => formatRegistered'[t]
      BY DEF DrainPassThrough, Shape
    <2> QED
      BY <2>4, <2>5, <2>6
  <1> QED
    BY <1>7, <1>8, <1>9, <1>10

(* The head of an encoder's output, once taken, leaves no format behind.   *)
LEMMA TakeOutput ==
  ASSUME NEW t \in Tracks, CodecPart(t), FormatPart(t), encoderOut[t] # << >>
  PROVE  /\ Head(encoderOut[t]) \in Output(t) /\ encoderStarted[t]
         /\ Tail(encoderOut[t]) \in Seq(Output(t))
         /\ \A i \in DOMAIN Tail(encoderOut[t]) : Tail(encoderOut[t])[i] # FormatChanged
         /\ (\A i \in DOMAIN encoderOut[t] : encoderOut[t][i] # FormatChanged)
              <=> Head(encoderOut[t]) # FormatChanged
  <1>1. encoderOut[t] \in Seq(Output(t)) /\ encoderStarted[t]
    BY DEF CodecPart, FormatPart
  <1> DEFINE out == encoderOut[t]
  <1>2. /\ Tail(out) \in Seq(Output(t)) /\ Head(out) = out[1] /\ Head(out) \in Output(t)
        /\ \A i \in DOMAIN Tail(out) : i + 1 \in DOMAIN out /\ Tail(out)[i] = out[i + 1]
    BY <1>1, TailElements
  <1>3. \A i \in DOMAIN out : out[i] = FormatChanged => i = 1
    BY DEF FormatPart
  <1>4. \A i \in DOMAIN Tail(out) : i \in Nat /\ i # 0
    BY <1>2
  <1>5. \A i \in DOMAIN Tail(out) : Tail(out)[i] # FormatChanged
    BY <1>2, <1>3, <1>4
  <1>6. 1 \in DOMAIN out
    BY <1>1
  <1> QED
    BY <1>1, <1>2, <1>3, <1>5, <1>6

LEMMA DrainEncoderInd ==
  ASSUME IndInv, NEW t \in Tracks, DrainEncoder(t)
  PROVE  IndInv'
  <1> USE DEF IndInv, source, reading, frames, decoder, ends, feeding, rounds
  <1> DEFINE found == Head(encoderOut[t])
             Take == encoderOut' = [encoderOut EXCEPT ![t] = Tail(@)]
             Idle == /\ UNCHANGED <<encoderOut, currentNumOfStreams, handed>>
                     /\ muxerStarted' \in BOOLEAN
             Format == /\ encoderOut[t] # << >> /\ found = FormatChanged /\ Take
                       /\ currentNumOfStreams' = currentNumOfStreams + 1
                       /\ UNCHANGED <<handed, muxerStarted>>
             Other == /\ encoderOut[t] # << >> /\ found # FormatChanged /\ Take
                      /\ UNCHANGED <<currentNumOfStreams, handed>>
                      /\ muxerStarted' \in BOOLEAN
             Sample == /\ encoderOut[t] # << >> /\ found # FormatChanged /\ Take
                       /\ OnDataReady(t, found.samples, found.samples, currentNumOfStreams)
                       /\ UNCHANGED currentNumOfStreams
  <1>1. /\ turn = t /\ call = "drainCodification" /\ Kind[t] # "pass" /\ IsCodec(t)
        /\ UNCHANGED <<source, reading, frames, decoder, ends, encoderIn, encoderStarted,
                       feeding, rounds, highestPts, formatRegistered>>
    BY DEF DrainEncoder, IsCodec
  <1>2. Raised
    BY <1>1 DEF LoopPart, Raised
  <1>3. \E n \in 0 .. 2 : Respond(n) /\ AfterDraining(n)
    BY DEF DrainEncoder
  <1>4. muxerStarted \in BOOLEAN
    BY DEF LoopPart
  <1>5. Idle \/ Format \/ Other \/ Sample
    <2>1. /\ CodecConfig # FormatChanged
          /\ \A b : Frame(b) # FormatChanged
          /\ FormatChanged.kind # "frame"
      BY FramesOfEncoder DEF FormatChanged
    <2> QED
      BY <1>4, <2>1 DEF DrainEncoder, NewTrackDiscovered, MaybeStartMuxer
  <1>6. CodecPart(t) /\ HandedPart(t) /\ FormatPart(t) /\ FramePart(t)
    BY DEF TrackPart
  <1>7. endOfCodification' = endOfCodification \/ DOMAIN endOfCodification' = Tracks
    BY DEF DrainEncoder, Shape
  <1> HIDE DEF Idle, Format, Other, Sample
  <1>8. /\ DOMAIN encoderOut' = Tracks
        /\ \A u \in Tracks : u # t => encoderOut'[u] = encoderOut[u]
        /\ \/ encoderOut'[t] = encoderOut[t]
           \/ encoderOut[t] # << >> /\ encoderOut'[t] = Tail(encoderOut[t])
    BY <1>5 DEF Shape, Idle, Format, Other, Sample
  <1>9. /\ encoderOut'[t] \in Seq(Output(t))
        /\ ~encoderStarted[t] => encoderOut'[t] = << >>
        /\ \A i \in DOMAIN encoderOut'[t] : encoderOut'[t][i] = FormatChanged => i = 1
    BY <1>6, <1>8, TakeOutput DEF CodecPart, FormatPart
  <1>10. /\ DOMAIN handed' = Tracks /\ HandedPart(t)'
         /\ \A u \in Tracks : u # t => handed'[u] = handed[u]
    <2>1. CASE handed' = handed
      BY <1>2, <1>6, <2>1, HandedKept DEF Shape
    <2>2. CASE Sample
      <3>1. found \in Output(t)
        BY <1>6, <2>2, TakeOutput DEF Sample
      <3>2. found.samples \in Buffer(t)
        BY <3>1 DEF Output
      <3>3. OnDataReady(t, found.samples, found.samples, currentNumOfStreams)
        BY <2>2 DEF Sample
      <3> HIDE DEF found
      <3> QED
        BY <1>1, <1>2, <1>6, <3>2, <3>3, OnDataReadyGood
    <2> QED
      BY <1>5, <2>1, <2>2 DEF Idle, Format, Other
  <1>11. Shape'
    BY <1>1, <1>7, <1>8, <1>10 DEF Shape
  <1>12. LoopPart'
    <2>1. muxerStarted' \in BOOLEAN
      BY <1>4, <1>5 DEF Idle, Format, Other, Sample, OnDataReady, MaybeStartMuxer
    <2>2. decoderResponse' \in 0 .. 2
      BY <1>3, SumGood DEF LoopPart, Respond
    <2>3. /\ turn' \in Tracks
          /\ \/ call' \in {"drainCodification", "endRound"}
             \/ /\ call' = "feedCodification"
                /\ turn' = t
      BY <1>1, <1>3, AfterDrainingGood DEF LoopPart
    <2>4. frameData'[t] = << >> /\ frameInfo'[t] = << >>
      BY <1>1, <1>6 DEF FramePart
    <2> QED
      BY <1>1, <1>2, <2>1, <2>2, <2>3, <2>4, LoopKept DEF Raised
  <1>13. ASSUME NEW u \in Tracks PROVE TrackPart(u)'
    <2>1. CodecPart(u)'
      <3>1. CASE u = t
        BY <1>1, <1>6, <1>9, <3>1 DEF CodecPart, Buffer, Samples, Output
      <3>2. CASE u # t
        BY <1>1, <1>8, <3>2, CodecKept DEF TrackPart
      <3> QED
        BY <3>1, <3>2
    <2>2. HandedPart(u)'
      <3>1. CASE u = t
        BY <1>10, <3>1
      <3>2. CASE u # t
        BY <1>2, <1>10, <3>2, HandedKept DEF TrackPart
      <3> QED
        BY <3>1, <3>2
    <2>3. FormatPart(u)'
      <3>1. CASE u = t
        BY <1>1, <1>6, <1>9, <3>1 DEF FormatPart, FormatChanged
      <3>2. CASE u # t
        BY <1>1, <1>8, <3>2, FormatKept DEF TrackPart
      <3> QED
        BY <3>1, <3>2
    <2>4. ReadPart(u)' /\ FramePart(u)'
      BY <1>1, <1>2, ReadKept, FrameKept DEF TrackPart
    <2> QED
      BY <2>1, <2>2, <2>3, <2>4 DEF TrackPart
  <1>14. CountPart'
    <2>1. \A u \in Tracks : u # t => (IsDiscovered(u)' <=> IsDiscovered(u))
      BY <1>1, <1>8 DEF IsDiscovered, FormatChanged
    <2>2. CASE Format
      <3>1. ~IsDiscovered(t)
        BY <1>1, <1>6, <2>2, TakeOutput DEF IsDiscovered, Format
      <3>2. IsDiscovered(t)'
        <4>1. encoderOut'[t] = Tail(encoderOut[t]) /\ encoderOut[t] # << >>
          BY <2>2 DEF Format, Shape
        <4> QED
          BY <1>1, <1>6, <4>1, TakeOutput DEF IsDiscovered, FormatChanged
      <3> QED
        BY <2>1, <2>2, <3>1, <3>2, OneMoreDiscovered DEF Format
    <2>3. CASE Other \/ Sample
      <3>1. IsDiscovered(t)
        BY <1>1, <1>6, <2>3, TakeOutput DEF IsDiscovered, Other, Sample
      <3>2. IsDiscovered(t)'
        <4>1. encoderOut'[t] = Tail(encoderOut[t]) /\ encoderOut[t] # << >>
          BY <2>3 DEF Other, Sample, Shape
        <4> QED
          BY <1>1, <1>6, <4>1, TakeOutput DEF IsDiscovered, FormatChanged
      <3> QED
        BY <2>1, <2>3, <3>1, <3>2, CountKept DEF Other, Sample
    <2>4. CASE Idle
      BY <1>1, <2>4, CountKept DEF Idle, IsDiscovered, FormatChanged
    <2> QED
      BY <1>5, <2>2, <2>3, <2>4
  <1> QED
    BY <1>11, <1>12, <1>13, <1>14

-----------------------------------------------------------------------------
(* Feeding the codifications, draining the renderers.                      *)

(* A step that leaves alone what the codifications drain and hand over.    *)
LEMMA OutputKept ==
  ASSUME IndInv, Raised,
         UNCHANGED <<encoderOut, encoderStarted, formatRegistered, currentNumOfStreams, handed>>
  PROVE  CountPart' /\ \A t \in Tracks : HandedPart(t)' /\ FormatPart(t)'
  <1>1. CountPart'
    BY CountKept DEF IndInv, IsDiscovered, FormatChanged
  <1>2. ASSUME NEW t \in Tracks PROVE HandedPart(t)' /\ FormatPart(t)'
    BY HandedKept, FormatKept DEF IndInv, TrackPart
  <1> QED
    BY <1>1, <1>2

(* A slot held of a queue counts as used.                                  *)
Used(held) == IF held THEN 1 ELSE 0

LEMMA RoomGood ==
  ASSUME NEW n \in Nat, NEW held \in BOOLEAN, n + Used(held) <= Slots, held \/ n < Slots
  PROVE  n + Used(TRUE) <= Slots /\ n + 1 + Used(FALSE) <= Slots
  <1>1. Slots \in Nat /\ Used(TRUE) = 1 /\ Used(FALSE) = 0
    BY TrackFacts DEF Used
  <1>2. CASE held
    BY <1>1, <1>2 DEF Used
  <1>3. CASE ~held
    BY <1>1, <1>3 DEF Used
  <1> QED
    BY <1>2, <1>3

LEMMA FeedCodificationInd ==
  ASSUME IndInv, NEW t \in Tracks, FeedCodification(t)
  PROVE  IndInv'
  <1> USE DEF IndInv, source, reading, frames, decoder, ends, output, rounds
  <1>1. /\ turn = t /\ call = "feedCodification" /\ call' = "drainRenderer" /\ turn' = turn
        /\ UNCHANGED <<source, reading, frames, decoder, ends, encoderOut, encoderStarted,
                       endOfCodification, output, rounds, decoderResponse, highestPts>>
    BY DEF FeedCodification, GoTo
  <1>2. Raised
    BY <1>1 DEF LoopPart, Raised
  <1>3. CodecPart(t)
    BY DEF TrackPart
  <1> DEFINE slot == encoderIndex[t] \/ Len(encoderIn[t]) < Slots
             Idle == UNCHANGED <<encoderIn, encoderIndex, pending>>
             Hold == /\ slot /\ Kind[t] = "audio"
                     /\ encoderIndex' = [encoderIndex EXCEPT ![t] = TRUE]
                     /\ UNCHANGED <<encoderIn, pending>>
             Queue == /\ slot /\ pending[t] # << >>
                      /\ encoderIn' = [encoderIn EXCEPT ![t] = Append(@, Head(pending[t]))]
                      /\ pending' = [pending EXCEPT ![t] = Tail(@)]
                      /\ encoderIndex' = [encoderIndex EXCEPT ![t] = FALSE]
  <1>4. Idle \/ Hold \/ Queue
    BY DEF FeedCodification, feeding
  <1>5. /\ DOMAIN encoderIn' = Tracks /\ DOMAIN pending' = Tracks /\ DOMAIN encoderIndex' = Tracks
        /\ \A u \in Tracks : u # t => /\ encoderIn'[u] = encoderIn[u]
                                     /\ pending'[u] = pending[u]
                                     /\ encoderIndex'[u] = encoderIndex[u]
    BY <1>4 DEF Shape
  <1>6. CodecPart(t)'
    <2>1. /\ encoderIn[t] \in Seq(Buffer(t)) /\ pending[t] \in Seq(Buffer(t))
          /\ decoderOut[t] \in Seq(Buffer(t)) /\ encoderIndex[t] \in BOOLEAN
          /\ Len(encoderIn[t]) + Used(encoderIndex[t]) <= Slots
      BY <1>3 DEF CodecPart, Used
    <2>2. /\ Len(encoderIn[t]) \in Nat /\ Len(pending[t]) \in Nat /\ Len(decoderOut[t]) \in Nat
          /\ Len(pending[t]) + Len(decoderOut[t]) <= Slots
      <3>1. Len(encoderIn[t]) \in Nat /\ Len(pending[t]) \in Nat /\ Len(decoderOut[t]) \in Nat
        BY <2>1
      <3>2. Len(pending[t]) + Len(decoderOut[t]) <= Slots
        BY <1>3 DEF CodecPart
      <3> QED
        BY <3>1, <3>2
    <2>3. CASE Idle
      BY <1>1, <1>3, <2>3, CodecKept
    <2>4. CASE Hold
      <3>1. /\ encoderIndex'[t] = TRUE /\ encoderIn' = encoderIn /\ pending' = pending
            /\ Kind[t] = "audio"
        BY <2>4 DEF Shape
      <3>2. Len(encoderIn[t]) + Used(TRUE) <= Slots
        BY <2>1, <2>2, <2>4, RoomGood
      <3> QED
        BY <1>1, <1>3, <3>1, <3>2 DEF CodecPart, Buffer, Samples, Output, Used
    <2>5. CASE Queue
      <3>1. /\ encoderIndex'[t] = FALSE /\ pending'[t] = Tail(pending[t])
            /\ encoderIn'[t] = Append(encoderIn[t], Head(pending[t]))
        BY <2>5 DEF Shape
      <3>2. /\ pending'[t] \in Seq(Buffer(t)) /\ encoderIn'[t] \in Seq(Buffer(t))
            /\ Len(pending'[t]) = Len(pending[t]) - 1
            /\ Len(encoderIn'[t]) = Len(encoderIn[t]) + 1
        <4>1. /\ Tail(pending[t]) \in Seq(Buffer(t)) /\ Head(pending[t]) \in Buffer(t)
              /\ Len(Tail(pending[t])) = Len(pending[t]) - 1
          BY <2>1, <2>5, TailElements
        <4>2. \A b \in Buffer(t) : /\ Append(encoderIn[t], b) \in Seq(Buffer(t))
                                   /\ Len(Append(encoderIn[t], b)) = Len(encoderIn[t]) + 1
          BY <2>1, AppendElements
        <4> QED
          BY <3>1, <4>1, <4>2
      <3>3. Len(encoderIn'[t]) + Used(FALSE) <= Slots
        BY <2>1, <2>2, <2>5, <3>2, RoomGood
      <3>4. Len(pending'[t]) + Len(decoderOut[t]) <= Slots
        <4> DEFINE put == Len(pending[t])
                   next == Len(pending'[t])
                   out == Len(decoderOut[t])
        <4>1. put \in Nat /\ out \in Nat /\ put + out <= Slots /\ next = put - 1
          BY <2>2, <3>2
        <4> HIDE DEF put, next, out
        <4>2. next + out <= Slots
          BY <4>1, TrackFacts
        <4> QED
          BY <4>2 DEF next, out
      <3> QED
        BY <1>1, <1>3, <3>1, <3>2, <3>3, <3>4 DEF CodecPart, Buffer, Samples, Output, Used
    <2> QED
      BY <1>4, <2>3, <2>4, <2>5
  <1> HIDE DEF Idle, Hold, Queue
  <1>7. Shape'
    BY <1>1, <1>5 DEF Shape
  <1>8. LoopPart'
    <2>1. frameData[turn] = << >> /\ frameInfo[turn] = << >>
      BY <1>1 DEF LoopPart, AfterDrain
    <2>2. /\ muxerStarted' \in BOOLEAN /\ decoderResponse' \in 0 .. 2 /\ highestPts' \in Nat
          /\ turn' \in Tracks
      BY <1>1 DEF LoopPart
    <2> QED
      BY <1>1, <2>1, <2>2, LoopKept
  <1>9. ASSUME NEW u \in Tracks PROVE TrackPart(u)'
    <2>1. CodecPart(u)'
      <3>1. CASE u = t
        BY <1>6, <3>1
      <3>2. CASE u # t
        BY <1>1, <1>5, <3>2, CodecKept DEF TrackPart
      <3> QED
        BY <3>1, <3>2
    <2>2. ReadPart(u)' /\ FramePart(u)'
      BY <1>1, <1>2, ReadKept, FrameKept DEF TrackPart
    <2>3. HandedPart(u)' /\ FormatPart(u)'
      BY <1>1, <1>2, OutputKept
    <2> QED
      BY <2>1, <2>2, <2>3 DEF TrackPart
  <1>10. CountPart'
    BY <1>1, <1>2, OutputKept
  <1> QED
    BY <1>7, <1>8, <1>9, <1>10

LEMMA DrainPassThroughRendererInd ==
  ASSUME IndInv, NEW t \in Tracks, DrainPassThroughRenderer(t)
  PROVE  IndInv'
  <1> USE DEF IndInv, source, reading, frames, decoder, ends, encoder, feeding, output, rounds
  <1>1. /\ turn = t /\ call = "drainRenderer" /\ call' = "feedRenderer" /\ turn' = turn
        /\ UNCHANGED <<source, reading, frames, decoder, ends, encoder, feeding,
                       endOfCodification, output, rounds, highestPts>>
    BY DEF DrainPassThroughRenderer, GoTo
  <1>2. Raised
    BY <1>1 DEF LoopPart, Raised
  <1>3. Shape'
    BY <1>1 DEF Shape
  <1>4. LoopPart'
    <2>1. frameData[turn] = << >> /\ frameInfo[turn] = << >>
      BY <1>1 DEF LoopPart, AfterDrain
    <2>2. muxerStarted' \in BOOLEAN /\ highestPts' \in Nat /\ turn' \in Tracks
      BY <1>1 DEF LoopPart
    <2>3. decoderResponse' \in 0 .. 2
      <3>1. decoderResponse' = decoderResponse \/ decoderResponse' = Sum(1)
        BY DEF DrainPassThroughRenderer, Respond
      <3> QED
        BY <3>1, SumGood DEF LoopPart
    <2> QED
      BY <1>1, <2>1, <2>2, <2>3, LoopKept
  <1> QED
    BY <1>1, <1>2, <1>3, <1>4, TracksKept

LEMMA DrainDecoderInd ==
  ASSUME IndInv, NEW t \in Tracks, DrainDecoder(t)
  PROVE  IndInv'
  <1> USE DEF IndInv, source, reading, frames, output, rounds
  <1>1. /\ turn = t /\ call = "drainRenderer" /\ call' = "feedRenderer" /\ turn' = turn
        /\ UNCHANGED <<source, reading, frames, decoderIn, streamIsFinal, endOfStreamSignaled,
                       encoderOut, encoderStarted, encoderIndex, endOfCodification, output,
                       rounds, highestPts>>
    BY DEF DrainDecoder, GoTo
  <1>2. Raised
    BY <1>1 DEF LoopPart, Raised
  <1>3. CodecPart(t)
    BY DEF TrackPart
  <1> DEFINE found == Head(decoderOut[t])
             Take == decoderOut[t] # << >> /\ decoderOut' = [decoderOut EXCEPT ![t] = Tail(@)]
             Idle == UNCHANGED <<decoderOut, encoderIn, pending>>
             Aside == /\ Take /\ pending' = [pending EXCEPT ![t] = Append(@, found)]
                      /\ UNCHANGED encoderIn
             Render == /\ Take /\ Kind[t] = "video" /\ Len(encoderIn[t]) < Slots
                       /\ encoderIn' = [encoderIn EXCEPT ![t] = Append(@, found)]
                       /\ UNCHANGED pending
             Drop == Take /\ UNCHANGED <<encoderIn, pending>>
  <1>4. Idle \/ Aside \/ Render \/ Drop
    BY DEF DrainDecoder
  <1>5. /\ DOMAIN encoderIn' = Tracks /\ DOMAIN pending' = Tracks /\ DOMAIN decoderOut' = Tracks
        /\ \A u \in Tracks : u # t => /\ encoderIn'[u] = encoderIn[u]
                                     /\ pending'[u] = pending[u]
                                     /\ decoderOut'[u] = decoderOut[u]
    BY <1>4 DEF Shape
  <1>6. DOMAIN endOfStreamReached' = Tracks
    BY DEF DrainDecoder, Shape
  <1>7. \E n \in 0 .. 2 : decoderResponse' = decoderResponse \/ decoderResponse' = Sum(n)
    BY DEF DrainDecoder, Respond
  <1>8. CodecPart(t)'
    <2> DEFINE put == Len(pending[t])
               out == Len(decoderOut[t])
               in == Len(encoderIn[t])
    <2>1. /\ encoderIn[t] \in Seq(Buffer(t)) /\ pending[t] \in Seq(Buffer(t))
          /\ decoderOut[t] \in Seq(Buffer(t))
      BY <1>3 DEF CodecPart
    <2>2. put \in Nat /\ out \in Nat /\ in \in Nat
      BY <2>1
    <2>3. put + out <= Slots
      BY <1>3 DEF CodecPart
    <2>4. ASSUME Take
          PROVE  /\ decoderOut'[t] \in Seq(Buffer(t)) /\ Len(decoderOut'[t]) = out - 1
                 /\ found \in Buffer(t)
      <3>1. decoderOut'[t] = Tail(decoderOut[t]) /\ decoderOut[t] # << >>
        BY <2>4 DEF Shape
      <3> QED
        BY <2>1, <3>1, TailElements
    <2>5. \A b \in Buffer(t) : /\ Append(encoderIn[t], b) \in Seq(Buffer(t))
                              /\ Len(Append(encoderIn[t], b)) = in + 1
                              /\ Append(pending[t], b) \in Seq(Buffer(t))
                              /\ Len(Append(pending[t], b)) = put + 1
      BY <2>1, AppendElements
    <2>6. CASE Idle
      BY <1>1, <1>3, <2>6, CodecKept
    <2>7. CASE Aside
      <3>1. pending'[t] = Append(pending[t], found) /\ encoderIn' = encoderIn
        BY <2>7 DEF Shape
      <3>2. pending'[t] \in Seq(Buffer(t)) /\ Len(pending'[t]) = put + 1
        BY <2>4, <2>5, <2>7, <3>1
      <3>3. Len(decoderOut'[t]) = out - 1 /\ decoderOut'[t] \in Seq(Buffer(t))
        BY <2>4, <2>7
      <3> DEFINE next == Len(pending'[t])
                 rest == Len(decoderOut'[t])
      <3>4. next + rest <= Slots
        <4>1. next = put + 1 /\ rest = out - 1
          BY <3>2, <3>3
        <4> HIDE DEF next, rest, put, out
        <4> QED
          BY <2>2, <2>3, <4>1, TrackFacts
      <3> QED
        BY <1>1, <1>3, <3>1, <3>2, <3>3, <3>4 DEF CodecPart, Buffer, Samples, Output
    <2>8. CASE Drop \/ Render
      <3>1. pending' = pending /\ Len(decoderOut'[t]) = out - 1 /\ decoderOut'[t] \in Seq(Buffer(t))
        BY <2>4, <2>8
      <3> DEFINE rest == Len(decoderOut'[t])
      <3>2. put + rest <= Slots
        <4>1. rest = out - 1
          BY <3>1
        <4> HIDE DEF rest, put, out
        <4> QED
          BY <2>2, <2>3, <4>1, TrackFacts
      <3>3. /\ encoderIn'[t] \in Seq(Buffer(t))
            /\ Len(encoderIn'[t]) + Used(encoderIndex[t]) <= Slots
        <4>1. CASE Drop
          BY <1>3, <4>1 DEF CodecPart, Used
        <4>2. CASE Render
          <5>1. encoderIn'[t] = Append(encoderIn[t], found)
            BY <4>2 DEF Shape
          <5>2. encoderIn'[t] \in Seq(Buffer(t)) /\ Len(encoderIn'[t]) = in + 1
            BY <2>4, <2>5, <4>2, <5>1
          <5>3. Used(encoderIndex[t]) = 0
            BY <1>3, <4>2 DEF CodecPart, Used
          <5>4. in < Slots
            BY <4>2
          <5> HIDE DEF in
          <5>5. in + 1 + 0 <= Slots
            BY <2>2, <5>4, TrackFacts
          <5> QED
            BY <5>2, <5>3, <5>5
        <4> QED
          BY <2>8, <4>1, <4>2
      <3> QED
        BY <1>1, <1>3, <3>1, <3>2, <3>3 DEF CodecPart, Buffer, Samples, Output, Used
    <2> QED
      BY <1>4, <2>6, <2>7, <2>8
  <1> HIDE DEF Idle, Aside, Render, Drop
  <1>9. Shape'
    BY <1>1, <1>5, <1>6 DEF Shape
  <1>10. LoopPart'
    <2>1. frameData[turn] = << >> /\ frameInfo[turn] = << >>
      BY <1>1 DEF LoopPart, AfterDrain
    <2>2. muxerStarted' \in BOOLEAN /\ highestPts' \in Nat /\ turn' \in Tracks
      BY <1>1 DEF LoopPart
    <2>3. decoderResponse' \in 0 .. 2
      BY <1>7, SumGood DEF LoopPart
    <2> QED
      BY <1>1, <2>1, <2>2, <2>3, LoopKept
  <1>11. ASSUME NEW u \in Tracks PROVE TrackPart(u)'
    <2>1. CodecPart(u)'
      <3>1. CASE u = t
        BY <1>8, <3>1
      <3>2. CASE u # t
        BY <1>1, <1>5, <3>2, CodecKept DEF TrackPart
      <3> QED
        BY <3>1, <3>2
    <2>2. ReadPart(u)' /\ FramePart(u)'
      BY <1>1, <1>2, ReadKept, FrameKept DEF TrackPart
    <2>3. HandedPart(u)' /\ FormatPart(u)'
      BY <1>1, <1>2, OutputKept
    <2> QED
      BY <2>1, <2>2, <2>3 DEF TrackPart
  <1>12. CountPart'
    BY <1>1, <1>2, OutputKept
  <1> QED
    BY <1>9, <1>10, <1>11, <1>12

-----------------------------------------------------------------------------
(* Feeding the pass-through renderers.                                     *)

(* What feeding a pass-through renderer leaves: the track's own parts are  *)
(* in order, and the thread goes on, or looks whether all was loaded.      *)
FedInOrder(t) ==
  /\ Raised /\ turn' \in Tracks
  /\ \/ call' \in {"drainCodification", "endRound"}
     \/ /\ call' = "nothingRead" /\ turn' = t /\ ~IsCodec(t)
        /\ inputBuffer'[t] = << >> /\ formatRead'[t] = TRUE
        /\ frameData'[t] = << >> /\ frameInfo'[t] = << >>
  /\ ReadPart(t)' /\ FramePart(t)'
  /\ DOMAIN readUpTo' = Tracks /\ DOMAIN formatRead' = Tracks /\ DOMAIN inputBuffer' = Tracks
  /\ DOMAIN frameData' = Tracks /\ DOMAIN frameInfo' = Tracks
  /\ \A u \in Tracks : u # t => /\ readUpTo'[u] = readUpTo[u] /\ formatRead'[u] = formatRead[u]
                               /\ inputBuffer'[u] = inputBuffer[u]
                               /\ frameData'[u] = frameData[u] /\ frameInfo'[u] = frameInfo[u]

(* The state when a pass-through renderer is fed.                          *)
Feeding(t) ==
  /\ IndInv /\ turn = t /\ Kind[t] = "pass" /\ ~IsCodec(t)
  /\ frameData[t] = << >> /\ frameInfo[t] = << >>
  /\ UNCHANGED <<loaded, decodeOnly, inputIndex>>

LEMMA PassOnGood ==
  ASSUME NEW t \in Tracks, Feeding(t), NEW k \in 0 .. Len(Times[t]), PassOn(t, k),
         UNCHANGED formatRead, formatRead[t] = TRUE, readUpTo'[t] \in 0 .. loaded[t],
         DOMAIN readUpTo' = Tracks, \A u \in Tracks : u # t => readUpTo'[u] = readUpTo[u]
  PROVE  FedInOrder(t)
  <1>1. LoopPart /\ Shape /\ ReadPart(t)
    BY DEF Feeding, IndInv, TrackPart
  <1>2. Raised /\ turn' \in Tracks /\ call' \in {"drainCodification", "endRound"}
    <2>1. PICK result \in Int : Fed(result)
      BY DEF PassOn
    <2> QED
      BY <1>1, <2>1, FedGood
  <1> DEFINE time == IF k = NoData THEN 0 ELSE Times[t][k]
             Held == /\ inputBuffer' = [inputBuffer EXCEPT ![t] = <<k>>]
                     /\ UNCHANGED <<frameData, frameInfo>>
             Passed == /\ ~HeldBack(time)
                       /\ inputBuffer' = [inputBuffer EXCEPT ![t] = << >>]
                       /\ frameData' = [frameData EXCEPT ![t] = Append(@, k)]
                       /\ frameInfo' = (IF k = NoData THEN frameInfo
                                        ELSE [frameInfo EXCEPT ![t] = Append(@, k)])
  <1>3. Held \/ Passed
    BY DEF PassOn, HeldForLater, frames
  <1>4. /\ DOMAIN inputBuffer' = Tracks /\ DOMAIN frameData' = Tracks /\ DOMAIN frameInfo' = Tracks
        /\ \A u \in Tracks : u # t => /\ inputBuffer'[u] = inputBuffer[u]
                                     /\ frameData'[u] = frameData[u]
                                     /\ frameInfo'[u] = frameInfo[u]
        /\ inputBuffer'[t] = << >> \/ inputBuffer'[t] = <<k>>
    BY <1>1, <1>3 DEF Shape
  <1>5. FramePart(t)'
    <2>1. CASE Held
      BY <2>1 DEF Feeding, FramePart
    <2>2. CASE Passed /\ k = NoData
      <3>1. frameData'[t] = <<NoData>> /\ frameInfo'[t] = << >>
        BY <1>1, <2>2, Singletons DEF Feeding, Shape
      <3> QED
        BY <3>1 DEF FramePart, Feeding
    <2>3. CASE Passed /\ k # NoData
      <3>1. frameData'[t] = <<k>> /\ frameInfo'[t] = <<k>>
        BY <1>1, <2>3, Singletons DEF Feeding, Shape
      <3>2. k \in Samples(t)
        BY <2>3, TrackFacts DEF Samples, NoData
      <3> QED
        BY <3>1, <3>2 DEF FramePart, Feeding
    <2> QED
      BY <1>3, <2>1, <2>2, <2>3
  <1>6. ReadPart(t)'
    BY <1>1, <1>4 DEF Feeding, ReadPart
  <1> HIDE DEF Held, Passed
  <1> QED
    BY <1>1, <1>2, <1>4, <1>5, <1>6 DEF FedInOrder, Shape

(* A call that fills no queue.                                             *)
LEMMA FedAlone ==
  ASSUME NEW t \in Tracks, Feeding(t), NEW result \in Int, Fed(result), UNCHANGED frames,
         ReadPart(t)', formatRead[t] => formatRead'[t],
         DOMAIN readUpTo' = Tracks, DOMAIN formatRead' = Tracks, DOMAIN inputBuffer' = Tracks,
         \A u \in Tracks : u # t => /\ readUpTo'[u] = readUpTo[u] /\ formatRead'[u] = formatRead[u]
                                    /\ inputBuffer'[u] = inputBuffer[u]
  PROVE  FedInOrder(t)
  <1>1. LoopPart /\ Shape
    BY DEF Feeding, IndInv
  <1>2. Raised /\ turn' \in Tracks /\ call' \in {"drainCodification", "endRound"}
    BY <1>1, FedGood
  <1>3. FramePart(t)'
    BY DEF Feeding, FramePart, frames
  <1> QED
    BY <1>1, <1>2, <1>3 DEF FedInOrder, Shape, frames

(* With a track fed in order, the invariant holds.                         *)
LEMMA FedInOrderInd ==
  ASSUME IndInv, NEW t \in Tracks, FedInOrder(t), call # "none",
         UNCHANGED <<source, decodeOnly, inputIndex, decoder, ends, encoder, feeding,
                     endOfCodification, output, rounds, decoderResponse>>
  PROVE  IndInv'
  <1> USE DEF IndInv, source, decoder, ends, encoder, feeding, output, rounds
  <1>1. Raised
    BY DEF FedInOrder
  <1>2. Shape'
    BY DEF Shape, FedInOrder
  <1>3. LoopPart'
    <2>1. /\ muxerStarted' \in BOOLEAN /\ decoderResponse' \in 0 .. 2 /\ highestPts' \in Nat
          /\ turn' \in Tracks
      BY <1>1 DEF LoopPart, Raised, FedInOrder
    <2>2. CASE call' \in {"drainCodification", "endRound"}
      BY <2>1, <2>2, LoopKept
    <2>3. CASE call' = "nothingRead"
      <3>1. call' \in Calls /\ phase # "stopped"
        BY <2>3 DEF LoopPart, Calls
      <3>2. /\ inputBuffer'[turn'] = << >> /\ formatRead'[turn'] = TRUE
            /\ frameData'[turn'] = << >> /\ frameInfo'[turn'] = << >>
        BY <2>3 DEF FedInOrder
      <3>3. ~IsCodec(turn')
        BY <2>3 DEF FedInOrder
      <3> QED
        BY <2>1, <2>3, <3>1, <3>2, <3>3 DEF LoopPart
    <2> QED
      BY <2>2, <2>3 DEF FedInOrder
  <1>4. ASSUME NEW u \in Tracks PROVE TrackPart(u)'
    <2>1. ReadPart(u)' /\ FramePart(u)'
      <3>1. CASE u = t
        BY <3>1 DEF FedInOrder
      <3>2. CASE u # t
        BY <1>1, <3>2, ReadKept, FrameKept DEF FedInOrder, TrackPart
      <3> QED
        BY <3>1, <3>2
    <2>2. CodecPart(u)'
      BY CodecKept DEF TrackPart
    <2>3. HandedPart(u)' /\ FormatPart(u)'
      BY <1>1, OutputKept
    <2> QED
      BY <2>1, <2>2, <2>3 DEF TrackPart
  <1>5. CountPart'
    BY <1>1, OutputKept
  <1> QED
    BY <1>2, <1>3, <1>4, <1>5

LEMMA FeedPassThroughInd ==
  ASSUME IndInv, NEW t \in Tracks, FeedPassThrough(t)
  PROVE  IndInv'
  <1> DEFINE next == readUpTo[t] + 1
  <1>1. /\ turn = t /\ call = "feedRenderer" /\ Kind[t] = "pass" /\ ~IsCodec(t)
        /\ UNCHANGED <<source, decodeOnly, inputIndex, decoder, ends, encoder, feeding,
                       endOfCodification, output, rounds, decoderResponse>>
    BY DEF FeedPassThrough, IsCodec
  <1>2. Shape /\ LoopPart /\ ReadPart(t)
    BY DEF IndInv, TrackPart
  <1>3. frameData[t] = << >> /\ frameInfo[t] = << >>
    BY <1>1, <1>2 DEF LoopPart, AfterDrain
  <1>4. Feeding(t)
    BY <1>1, <1>3 DEF Feeding, source
  <1>5. readUpTo[t] \in 0 .. loaded[t] /\ loaded[t] \in 0 .. Len(Times[t]) /\ Len(Times[t]) \in Nat
    BY <1>2, TrackFacts DEF ReadPart
  <1>6. FedInOrder(t)
    <2>1. CASE Fed(0) /\ UNCHANGED <<readUpTo, formatRead, inputBuffer, frames>>
      <3>1. ReadPart(t)'
        BY <1>2, <1>4, <2>1, ReadKept DEF Feeding
      <3> QED
        BY <1>2, <1>4, <2>1, <3>1, FedAlone DEF Shape
    <2>2. CASE /\ inputBuffer[t] # << >> /\ PassOn(t, Head(inputBuffer[t]))
               /\ UNCHANGED <<readUpTo, formatRead>>
      <3>1. PICK k \in 0 .. Len(Times[t]) : inputBuffer[t] = <<k>>
        BY <1>1, <1>2, <2>2 DEF ReadPart
      <3>2. Head(inputBuffer[t]) = k /\ formatRead[t] = TRUE
        BY <1>1, <1>2, <2>2, <3>1, Singletons DEF ReadPart
      <3>3. PassOn(t, k)
        BY <2>2, <3>2
      <3> QED
        BY <1>2, <1>4, <1>5, <2>2, <3>2, <3>3, PassOnGood DEF Shape
    <2>3. CASE /\ inputBuffer[t] = << >> /\ Fed(1) /\ UNCHANGED <<readUpTo, inputBuffer, frames>>
               /\ formatRead' = [formatRead EXCEPT ![t] = TRUE]
      <3>1. /\ formatRead'[t] = TRUE /\ DOMAIN formatRead' = Tracks
            /\ \A u \in Tracks : u # t => formatRead'[u] = formatRead[u]
        BY <1>2, <2>3 DEF Shape
      <3>2. ReadPart(t)'
        BY <1>1, <1>2, <1>4, <2>3, <3>1 DEF Feeding, ReadPart, IsCodec
      <3>3. /\ formatRead[t] => formatRead'[t]
            /\ DOMAIN readUpTo' = Tracks /\ DOMAIN inputBuffer' = Tracks
            /\ \A u \in Tracks : u # t => /\ readUpTo'[u] = readUpTo[u]
                                         /\ formatRead'[u] = formatRead[u]
                                         /\ inputBuffer'[u] = inputBuffer[u]
        BY <1>2, <2>3, <3>1 DEF Shape
      <3>4. Fed(1) /\ UNCHANGED frames /\ DOMAIN formatRead' = Tracks
        BY <2>3, <3>1
      <3> QED
        BY <1>4, <3>2, <3>3, <3>4, FedAlone
    <2>4. CASE /\ formatRead[t] /\ next <= loaded[t] /\ inputBuffer[t] = << >>
               /\ readUpTo' = [readUpTo EXCEPT ![t] = next] /\ UNCHANGED formatRead
               /\ \/ Fed(2) /\ UNCHANGED <<inputBuffer, frames>>
                  \/ PassOn(t, next)
      <3>1. /\ readUpTo'[t] = next /\ DOMAIN readUpTo' = Tracks
            /\ \A u \in Tracks : u # t => readUpTo'[u] = readUpTo[u]
        BY <1>2, <2>4 DEF Shape
      <3>2. next \in 0 .. loaded[t] /\ next \in 0 .. Len(Times[t])
        BY <1>5, <2>4
      <3>3. CASE Fed(2) /\ UNCHANGED <<inputBuffer, frames>>
        <4>1. ReadPart(t)'
          BY <1>1, <1>2, <1>4, <2>4, <3>1, <3>2, <3>3 DEF Feeding, ReadPart, IsCodec
        <4> QED
          BY <1>2, <1>4, <2>4, <3>1, <3>3, <4>1, FedAlone DEF Shape
      <3>4. CASE PassOn(t, next)
        <4>1. formatRead[t] = TRUE
          BY <1>2, <2>4 DEF ReadPart
        <4> HIDE DEF next
        <4> QED
          BY <1>4, <2>4, <3>1, <3>2, <3>4, <4>1, PassOnGood
      <3> QED
        BY <2>4, <3>3, <3>4
    <2>5. CASE /\ formatRead[t] /\ inputBuffer[t] = << >> /\ GoTo("nothingRead")
               /\ UNCHANGED <<highestPts, readUpTo, formatRead, inputBuffer, frames>>
      <3>1. ReadPart(t)' /\ formatRead[t] = TRUE
        BY <1>2, <1>4, <2>5, ReadKept DEF Feeding, ReadPart
      <3>2. FramePart(t)'
        BY <1>3, <2>5 DEF FramePart, frames
      <3>3. Raised
        BY <1>2, <2>5 DEF Raised, LoopPart
      <3> QED
        BY <1>1, <1>2, <1>3, <2>5, <3>1, <3>2, <3>3 DEF FedInOrder, Shape, GoTo, frames
    <2>6. CASE /\ formatRead[t] /\ inputBuffer' = [inputBuffer EXCEPT ![t] = <<NoData>>]
               /\ Fed(2) /\ UNCHANGED <<readUpTo, formatRead, frames>>
      <3>1. /\ inputBuffer'[t] = <<NoData>> /\ DOMAIN inputBuffer' = Tracks
            /\ \A u \in Tracks : u # t => inputBuffer'[u] = inputBuffer[u]
        BY <1>2, <2>6 DEF Shape
      <3>2. NoData \in 0 .. Len(Times[t])
        BY <1>5 DEF NoData
      <3>3. ReadPart(t)'
        BY <1>1, <1>2, <1>4, <2>6, <3>1, <3>2 DEF Feeding, ReadPart, IsCodec
      <3> QED
        BY <1>2, <1>4, <2>6, <3>1, <3>3, FedAlone DEF Shape
    <2> QED
      BY <2>1, <2>2, <2>3, <2>4, <2>5, <2>6 DEF FeedPassThrough
  <1> QED
    BY <1>1, <1>6, FedInOrderInd

LEMMA NothingPassThroughInd ==
  ASSUME IndInv, NEW t \in Tracks, NothingPassThrough(t)
  PROVE  IndInv'
  <1>1. /\ turn = t /\ call = "nothingRead" /\ Kind[t] = "pass" /\ ~IsCodec(t)
        /\ UNCHANGED <<source, readUpTo, formatRead, decodeOnly, inputIndex, decoder, ends,
                       encoder, feeding, endOfCodification, output, rounds, decoderResponse>>
    BY DEF NothingPassThrough, IsCodec
  <1>2. Shape /\ LoopPart /\ ReadPart(t)
    BY DEF IndInv, TrackPart
  <1>3. frameData[t] = << >> /\ frameInfo[t] = << >> /\ formatRead[t] = TRUE
    BY <1>1, <1>2 DEF LoopPart, AfterDrain, ReadPart
  <1>4. Feeding(t)
    BY <1>1, <1>3 DEF Feeding, source
  <1>5. NoData \in 0 .. Len(Times[t])
    BY TrackFacts DEF NoData
  <1>6. FedInOrder(t)
    <2>1. CASE PassOn(t, NoData)
      <3>1. readUpTo'[t] \in 0 .. loaded[t]
        BY <1>1, <1>2 DEF ReadPart
      <3> QED
        BY <1>1, <1>2, <1>3, <1>4, <1>5, <2>1, <3>1, PassOnGood DEF Shape
    <2>2. CASE /\ inputBuffer' = [inputBuffer EXCEPT ![t] = <<NoData>>]
               /\ Fed(2) /\ UNCHANGED frames
      <3>1. /\ inputBuffer'[t] = <<NoData>> /\ DOMAIN inputBuffer' = Tracks
            /\ \A u \in Tracks : u # t => inputBuffer'[u] = inputBuffer[u]
        BY <1>2, <2>2 DEF Shape
      <3>2. ReadPart(t)'
        BY <1>1, <1>2, <1>3, <1>4, <1>5, <3>1 DEF Feeding, ReadPart, IsCodec
      <3> QED
        BY <1>1, <1>2, <1>4, <2>2, <3>1, <3>2, FedAlone DEF Shape
    <2> QED
      BY <2>1, <2>2 DEF NothingPassThrough
  <1> QED
    BY <1>1, <1>6, FedInOrderInd

-----------------------------------------------------------------------------
(* Feeding the decoders.                                                   *)

(* What feeding a decoder leaves, in the same way.                         *)
DecoderInOrder(t) ==
  /\ Raised /\ turn' \in Tracks
  /\ \/ call' \in {"drainCodification", "endRound"}
     \/ /\ call' = "nothingRead" /\ turn' = t /\ IsCodec(t)
        /\ formatRead'[t] = TRUE /\ inputIndex'[t] = TRUE
        /\ frameData'[t] = << >> /\ frameInfo'[t] = << >>
  /\ ReadPart(t)' /\ CodecPart(t)'
  /\ DOMAIN readUpTo' = Tracks /\ DOMAIN formatRead' = Tracks /\ DOMAIN inputBuffer' = Tracks
  /\ DOMAIN decodeOnly' = Tracks /\ DOMAIN inputIndex' = Tracks /\ DOMAIN decoderIn' = Tracks
  /\ DOMAIN endOfStreamSignaled' = Tracks
  /\ \A u \in Tracks : u # t => /\ readUpTo'[u] = readUpTo[u] /\ formatRead'[u] = formatRead[u]
                               /\ inputBuffer'[u] = inputBuffer[u]
                               /\ decodeOnly'[u] = decodeOnly[u]
                               /\ inputIndex'[u] = inputIndex[u] /\ decoderIn'[u] = decoderIn[u]

LEMMA DecoderInOrderInd ==
  ASSUME IndInv, NEW t \in Tracks, IsCodec(t), DecoderInOrder(t), call # "none",
         UNCHANGED <<source, frames, decoderOut, streamIsFinal, endOfStreamReached, encoder,
                     feeding, endOfCodification, output, rounds, decoderResponse>>
  PROVE  IndInv'
  <1> USE DEF IndInv, source, frames, encoder, feeding, output, rounds
  <1>1. Raised
    BY DEF DecoderInOrder
  <1>2. Shape'
    BY DEF Shape, DecoderInOrder
  <1>3. LoopPart'
    <2>1. /\ muxerStarted' \in BOOLEAN /\ decoderResponse' \in 0 .. 2 /\ highestPts' \in Nat
          /\ turn' \in Tracks
      BY <1>1 DEF LoopPart, Raised, DecoderInOrder
    <2>2. CASE call' \in {"drainCodification", "endRound"}
      BY <2>1, <2>2, LoopKept
    <2>3. CASE call' = "nothingRead"
      <3>1. call' \in Calls /\ phase # "stopped"
        BY <2>3 DEF LoopPart, Calls
      <3>2. /\ formatRead'[turn'] = TRUE /\ inputIndex'[turn'] = TRUE /\ IsCodec(turn')
            /\ frameData'[turn'] = << >> /\ frameInfo'[turn'] = << >>
        BY <2>3 DEF DecoderInOrder
      <3> QED
        BY <2>1, <2>3, <3>1, <3>2 DEF LoopPart
    <2> QED
      BY <2>2, <2>3 DEF DecoderInOrder
  <1>4. ASSUME NEW u \in Tracks PROVE TrackPart(u)'
    <2>1. ReadPart(u)' /\ CodecPart(u)'
      <3>1. CASE u = t
        BY <3>1 DEF DecoderInOrder
      <3>2. CASE u # t
        BY <3>2, ReadKept, CodecKept DEF DecoderInOrder, TrackPart
      <3> QED
        BY <3>1, <3>2
    <2>2. FramePart(u)'
      <3>1. CASE u = t
        BY <3>1 DEF TrackPart, FramePart
      <3>2. CASE u # t
        BY <1>1, <3>2, FrameKept DEF DecoderInOrder, TrackPart
      <3> QED
        BY <3>1, <3>2
    <2>3. HandedPart(u)' /\ FormatPart(u)'
      BY <1>1, OutputKept
    <2> QED
      BY <2>1, <2>2, <2>3 DEF TrackPart
  <1>5. CountPart'
    BY <1>1, OutputKept
  <1> QED
    BY <1>2, <1>3, <1>4, <1>5

(* A slot of the decoder is held on to, or used for a buffer.              *)
HoldsSlot(t) ==
  /\ inputIndex[t] \/ Len(decoderIn[t]) < Slots
  /\ inputIndex' = [inputIndex EXCEPT ![t] = TRUE] /\ UNCHANGED decoderIn
UsesSlot(t, buffer) ==
  /\ inputIndex[t] \/ Len(decoderIn[t]) < Slots
  /\ inputIndex' = [inputIndex EXCEPT ![t] = FALSE]
  /\ decoderIn' = [decoderIn EXCEPT ![t] = Append(@, buffer)]

LEMMA SlotGood ==
  ASSUME Shape, NEW t \in Tracks, CodecPart(t), inputIndex[t] \in BOOLEAN,
         HoldsSlot(t) \/ \E b \in Buffer(t) : UsesSlot(t, b),
         UNCHANGED <<decoderOut, encoder, feeding>>
  PROVE  /\ CodecPart(t)' /\ inputIndex'[t] \in BOOLEAN
         /\ DOMAIN inputIndex' = Tracks /\ DOMAIN decoderIn' = Tracks
         /\ \A u \in Tracks : u # t => /\ inputIndex'[u] = inputIndex[u]
                                      /\ decoderIn'[u] = decoderIn[u]
  <1> USE DEF encoder, feeding
  <1>1. /\ decoderIn[t] \in Seq(Buffer(t)) /\ Len(decoderIn[t]) + Used(inputIndex[t]) <= Slots
    BY DEF CodecPart, Used
  <1>2. Len(decoderIn[t]) \in Nat
    BY <1>1
  <1>3. CASE HoldsSlot(t)
    <2>1. /\ inputIndex'[t] = TRUE /\ decoderIn' = decoderIn /\ DOMAIN inputIndex' = Tracks
          /\ \A u \in Tracks : u # t => inputIndex'[u] = inputIndex[u]
      BY <1>3 DEF HoldsSlot, Shape
    <2>2. Len(decoderIn[t]) + Used(TRUE) <= Slots
      BY <1>1, <1>2, <1>3, RoomGood DEF HoldsSlot
    <2>3. CodecPart(t)'
      BY <2>1, <2>2 DEF CodecPart, Buffer, Samples, Output, Used
    <2> QED
      BY <2>1, <2>3 DEF Shape
  <1>4. CASE \E b \in Buffer(t) : UsesSlot(t, b)
    <2>1. PICK b \in Buffer(t) : UsesSlot(t, b)
      BY <1>4
    <2>2. /\ inputIndex'[t] = FALSE /\ decoderIn'[t] = Append(decoderIn[t], b)
          /\ DOMAIN inputIndex' = Tracks /\ DOMAIN decoderIn' = Tracks
          /\ \A u \in Tracks : u # t => /\ inputIndex'[u] = inputIndex[u]
                                       /\ decoderIn'[u] = decoderIn[u]
      BY <2>1 DEF UsesSlot, Shape
    <2>3. /\ decoderIn'[t] \in Seq(Buffer(t)) /\ Len(decoderIn'[t]) = Len(decoderIn[t]) + 1
      BY <1>1, <2>2, AppendElements
    <2>4. Len(decoderIn'[t]) + Used(FALSE) <= Slots
      BY <1>1, <1>2, <2>1, <2>3, RoomGood DEF UsesSlot
    <2>5. CodecPart(t)'
      BY <2>2, <2>3, <2>4 DEF CodecPart, Buffer, Samples, Output, Used
    <2> QED
      BY <2>2, <2>5
  <1> QED
    BY <1>3, <1>4

LEMMA FeedDecoderInd ==
  ASSUME IndInv, NEW t \in Tracks, FeedDecoder(t)
  PROVE  IndInv'
  <1> DEFINE next == readUpTo[t] + 1
             filled == Append(inputBuffer[t], next)
             Slot == HoldsSlot(t) \/ \E b \in Buffer(t) : UsesSlot(t, b)
             Emptied == inputBuffer' = [inputBuffer EXCEPT ![t] = << >>]
             Unmarked == decodeOnly' = [decodeOnly EXCEPT ![t] = FALSE]
             Marked == decodeOnly' = [decodeOnly EXCEPT ![t] = TRUE]
             Advanced == next <= loaded[t] /\ readUpTo' = [readUpTo EXCEPT ![t] = next]
             Signalled == \/ UNCHANGED endOfStreamSignaled
                          \/ endOfStreamSignaled' = [endOfStreamSignaled EXCEPT ![t] = TRUE]
  <1>1. /\ turn = t /\ call = "feedRenderer" /\ IsCodec(t)
        /\ UNCHANGED <<source, frames, decoderOut, streamIsFinal, endOfStreamReached, encoder,
                       feeding, endOfCodification, output, rounds, decoderResponse>>
    BY DEF FeedDecoder
  <1>2. Shape /\ LoopPart /\ ReadPart(t) /\ CodecPart(t)
    BY DEF IndInv, TrackPart
  <1>3. frameData[t] = << >> /\ frameInfo[t] = << >>
    BY <1>1, <1>2 DEF LoopPart, AfterDrain
  <1>4. /\ readUpTo[t] \in 0 .. loaded[t] /\ loaded[t] \in 0 .. Len(Times[t])
        /\ Len(Times[t]) \in Nat /\ loaded' = loaded
        /\ inputBuffer[t] \in Buffer(t) /\ formatRead[t] \in BOOLEAN /\ decodeOnly[t] \in BOOLEAN
        /\ inputIndex[t] \in BOOLEAN
    BY <1>1, <1>2, TrackFacts DEF ReadPart, source
  <1>5. next <= loaded[t] => next \in Samples(t) /\ next \in 0 .. loaded[t] /\ Times[t][next] \in Int
    BY <1>4, TrackFacts DEF Samples
  <1>6. next <= loaded[t] => filled \in Buffer(t)
    BY <1>4, <1>5, AppendElements DEF Buffer
  <1>7. EndOfStream \in Buffer(t)
    BY Singletons DEF EndOfStream, Buffer
  <1>8. /\ Slot \/ UNCHANGED <<decoderIn, inputIndex>>
        /\ UNCHANGED readUpTo \/ Advanced
        /\ UNCHANGED formatRead \/ formatRead' = [formatRead EXCEPT ![t] = TRUE]
        /\ UNCHANGED decodeOnly \/ Unmarked \/ Marked
        /\ \/ UNCHANGED inputBuffer \/ Emptied
           \/ next <= loaded[t] /\ inputBuffer' = [inputBuffer EXCEPT ![t] = filled]
        /\ Signalled
        /\ \/ \E result \in Int : Fed(result)
           \/ formatRead[t] /\ GoTo("nothingRead") /\ HoldsSlot(t)
              /\ UNCHANGED <<highestPts, formatRead>>
    <2>1. Slot \/ UNCHANGED <<decoderIn, inputIndex>>
      BY <1>6, <1>7 DEF FeedDecoder, HoldsSlot, UsesSlot, reading
    <2>2. /\ UNCHANGED readUpTo \/ Advanced
          /\ UNCHANGED formatRead \/ formatRead' = [formatRead EXCEPT ![t] = TRUE]
      BY DEF FeedDecoder, reading
    <2>3. UNCHANGED decodeOnly \/ Unmarked \/ Marked
      BY DEF FeedDecoder, reading
    <2>4. \/ UNCHANGED inputBuffer \/ Emptied
          \/ next <= loaded[t] /\ inputBuffer' = [inputBuffer EXCEPT ![t] = filled]
      BY DEF FeedDecoder, reading
    <2>5. Signalled
      BY DEF FeedDecoder
    <2>6. \/ \E result \in Int : Fed(result)
          \/ formatRead[t] /\ GoTo("nothingRead") /\ HoldsSlot(t)
              /\ UNCHANGED <<highestPts, formatRead>>
      BY <1>5 DEF FeedDecoder, HoldsSlot
    <2> QED
      BY <2>1, <2>2, <2>3, <2>4, <2>5, <2>6
  <1>9. /\ CodecPart(t)' /\ inputIndex'[t] \in BOOLEAN
        /\ DOMAIN inputIndex' = Tracks /\ DOMAIN decoderIn' = Tracks
        /\ \A u \in Tracks : u # t => /\ inputIndex'[u] = inputIndex[u]
                                     /\ decoderIn'[u] = decoderIn[u]
    <2>1. CASE Slot
      BY <1>1, <1>2, <1>4, <2>1, SlotGood
    <2>2. CASE UNCHANGED <<decoderIn, inputIndex>>
      BY <1>1, <1>2, <1>4, <2>2, CodecKept DEF encoder, feeding, Shape
    <2> QED
      BY <1>8, <2>1, <2>2
  <1>10. /\ readUpTo'[t] \in 0 .. loaded[t] /\ DOMAIN readUpTo' = Tracks
         /\ \A u \in Tracks : u # t => readUpTo'[u] = readUpTo[u]
    BY <1>2, <1>4, <1>5, <1>8 DEF Shape
  <1>11. /\ formatRead'[t] \in BOOLEAN /\ DOMAIN formatRead' = Tracks
         /\ \A u \in Tracks : u # t => formatRead'[u] = formatRead[u]
    BY <1>2, <1>4, <1>8 DEF Shape
  <1>12. /\ decodeOnly'[t] \in BOOLEAN /\ DOMAIN decodeOnly' = Tracks
         /\ \A u \in Tracks : u # t => decodeOnly'[u] = decodeOnly[u]
    BY <1>2, <1>4, <1>8 DEF Shape
  <1>13. /\ inputBuffer'[t] \in Buffer(t) /\ DOMAIN inputBuffer' = Tracks
         /\ \A u \in Tracks : u # t => inputBuffer'[u] = inputBuffer[u]
    <2>1. DOMAIN inputBuffer = Tracks
      BY <1>2 DEF Shape
    <2>2. CASE UNCHANGED inputBuffer
      BY <1>4, <2>1, <2>2
    <2>3. CASE Emptied
      BY <1>4, <1>7, <2>1, <2>3, Singletons DEF Buffer
    <2>4. CASE next <= loaded[t] /\ inputBuffer' = [inputBuffer EXCEPT ![t] = filled]
      BY <1>6, <2>1, <2>4
    <2> QED
      BY <1>8, <2>2, <2>3, <2>4
  <1>14. DOMAIN endOfStreamSignaled' = Tracks
    BY <1>2, <1>8 DEF Shape
  <1>15. ReadPart(t)'
    BY <1>1, <1>4, <1>9, <1>10, <1>11, <1>12, <1>13 DEF ReadPart, IsCodec, Buffer, Samples
  <1>16. /\ Raised /\ turn' \in Tracks
         /\ \/ call' \in {"drainCodification", "endRound"}
            \/ /\ call' = "nothingRead" /\ turn' = t /\ IsCodec(t)
               /\ formatRead'[t] = TRUE /\ inputIndex'[t] = TRUE
               /\ frameData'[t] = << >> /\ frameInfo'[t] = << >>
    <2>1. CASE \E result \in Int : Fed(result)
      BY <1>2, <2>1, FedGood
    <2>2. CASE formatRead[t] /\ GoTo("nothingRead") /\ HoldsSlot(t)
              /\ UNCHANGED <<highestPts, formatRead>>
      <3>1. formatRead'[t] = TRUE /\ inputIndex'[t] = TRUE
        BY <1>2, <1>4, <2>2 DEF HoldsSlot, Shape
      <3>2. frameData'[t] = << >> /\ frameInfo'[t] = << >>
        BY <1>1, <1>3 DEF frames
      <3>3. Raised
        BY <1>2, <2>2 DEF Raised, LoopPart
      <3> QED
        BY <1>1, <2>2, <3>1, <3>2, <3>3 DEF GoTo
    <2> QED
      BY <1>8, <2>1, <2>2
  <1> HIDE DEF Slot
  <1>17. DecoderInOrder(t)
    BY <1>9, <1>10, <1>11, <1>12, <1>13, <1>14, <1>15, <1>16 DEF DecoderInOrder
  <1> QED
    BY <1>1, <1>17, DecoderInOrderInd

LEMMA NothingDecoderInd ==
  ASSUME IndInv, NEW t \in Tracks, NothingDecoder(t)
  PROVE  IndInv'
  <1>1. /\ turn = t /\ call = "nothingRead" /\ IsCodec(t) /\ Fed(-1)
        /\ UNCHANGED <<readUpTo, formatRead, decodeOnly>>
        /\ UNCHANGED <<source, frames, decoderOut, streamIsFinal, endOfStreamReached, encoder,
                       feeding, endOfCodification, output, rounds, decoderResponse>>
    BY DEF NothingDecoder
  <1>2. Shape /\ LoopPart /\ ReadPart(t) /\ CodecPart(t)
    BY DEF IndInv, TrackPart
  <1>3. inputIndex[t] = TRUE
    BY <1>1, <1>2 DEF LoopPart, ReadPart
  <1>4. EndOfStream \in Buffer(t) /\ EndOfStream = << >>
    BY Singletons DEF EndOfStream, Buffer
  <1>5. \/ /\ UsesSlot(t, EndOfStream)
           /\ endOfStreamSignaled' = [endOfStreamSignaled EXCEPT ![t] = TRUE]
           /\ inputBuffer' = [inputBuffer EXCEPT ![t] = << >>]
        \/ UNCHANGED <<decoderIn, endOfStreamSignaled, inputIndex, inputBuffer>>
    BY <1>3 DEF NothingDecoder, UsesSlot
  <1>6. /\ CodecPart(t)' /\ inputIndex'[t] \in BOOLEAN
        /\ DOMAIN inputIndex' = Tracks /\ DOMAIN decoderIn' = Tracks
        /\ \A u \in Tracks : u # t => /\ inputIndex'[u] = inputIndex[u]
                                     /\ decoderIn'[u] = decoderIn[u]
    <2>1. CASE UsesSlot(t, EndOfStream)
      BY <1>1, <1>2, <1>3, <1>4, <2>1, SlotGood
    <2>2. CASE UNCHANGED <<decoderIn, inputIndex>>
      BY <1>1, <1>2, <1>3, <2>2, CodecKept DEF encoder, feeding, Shape
    <2> QED
      BY <1>5, <2>1, <2>2
  <1>7. /\ inputBuffer'[t] \in Buffer(t) /\ DOMAIN inputBuffer' = Tracks
        /\ DOMAIN endOfStreamSignaled' = Tracks
        /\ \A u \in Tracks : u # t => inputBuffer'[u] = inputBuffer[u]
    BY <1>1, <1>2, <1>4, <1>5 DEF Shape, ReadPart
  <1>8. ReadPart(t)'
    BY <1>1, <1>2, <1>6, <1>7 DEF ReadPart, IsCodec, Buffer, Samples, source
  <1>9. Raised /\ turn' \in Tracks /\ call' \in {"drainCodification", "endRound"}
    BY <1>1, <1>2, FedGood
  <1>10. DecoderInOrder(t)
    BY <1>1, <1>2, <1>6, <1>7, <1>8, <1>9 DEF DecoderInOrder, Shape
  <1> QED
    BY <1>1, <1>10, DecoderInOrderInd

-----------------------------------------------------------------------------
(* The theorems.                                                           *)

LEMMA StepInd == IndInv /\ [Next]_vars => IndInv'
  <1> SUFFICES ASSUME IndInv, [Next]_vars PROVE IndInv'
    OBVIOUS
  <1>1. CASE UNCHANGED vars
    <2> USE DEF vars, source, reading, frames, decoder, ends, encoder, feeding, output, rounds, loop
    <2>1. Shape'
      BY <1>1 DEF IndInv, Shape
    <2>2. LoopPart'
      BY <1>1 DEF IndInv, LoopPart
    <2>3. Raised
      BY <1>1 DEF IndInv, LoopPart, Raised
    <2> QED
      BY <1>1, <2>1, <2>2, <2>3, TracksKept DEF IndInv
  <1>2. CASE \E t \in Tracks : Load(t) \/ Decode(t) \/ AnnounceFormat(t) \/ Encode(t)
    BY <1>2, LoadInd, DecodeInd, AnnounceInd, EncodeInd
  <1>3. CASE LoadCompleted \/ StopTranscoding
    BY <1>3, FlagsInd
  <1>4. CASE Test \/ EndRound
    BY <1>4, LoopInd
  <1>5. ASSUME NEW t \in Tracks, DrainPassThrough(t) \/ DrainEncoder(t) PROVE IndInv'
    BY <1>5, DrainPassThroughInd, DrainEncoderInd
  <1>6. ASSUME NEW t \in Tracks,
               FeedCodification(t) \/ DrainPassThroughRenderer(t) \/ DrainDecoder(t)
        PROVE  IndInv'
    BY <1>6, FeedCodificationInd, DrainPassThroughRendererInd, DrainDecoderInd
  <1>7. ASSUME NEW t \in Tracks,
               \/ FeedPassThrough(t) \/ NothingPassThrough(t)
               \/ FeedDecoder(t) \/ NothingDecoder(t)
        PROVE  IndInv'
    BY <1>7, FeedPassThroughInd, NothingPassThroughInd, FeedDecoderInd, NothingDecoderInd
  <1> QED
    BY <1>1, <1>2, <1>3, <1>4, <1>5, <1>6, <1>7 DEF Next, Step

(* The inductive invariant holds, whatever the tracks, the times of their  *)
(* samples and the pace of the codecs.                                     *)
THEOREM Inductive == Spec => []IndInv
  <1> QED
    BY InitInd, StepInd, PTL DEF Spec

LEMMA TypesOfInd == IndInv => TypeOK
  <1> SUFFICES ASSUME IndInv PROVE TypeOK
    OBVIOUS
  <1>1. currentNumOfStreams \in 0 .. Cardinality(Tracks)
    BY CountBounds DEF IndInv
  <1>2. ASSUME NEW t \in Tracks
        PROVE  /\ readUpTo[t] \in 0 .. loaded[t] /\ loaded[t] \in 0 .. Len(Times[t])
               /\ inputBuffer[t] \in Seq(0 .. Len(Times[t]))
    <2>1. ReadPart(t)
      BY DEF IndInv, TrackPart
    <2>2. Buffer(t) \subseteq Seq(0 .. Len(Times[t]))
      <3>1. Samples(t) \subseteq 0 .. Len(Times[t])
        BY TrackFacts DEF Samples
      <3> QED
        BY <3>1 DEF Buffer
    <2> QED
      BY <2>1, <2>2, Singletons DEF ReadPart
  <1>3. ASSUME NEW t \in Tracks
        PROVE  /\ frameData[t] \in Seq(0 .. Len(Times[t])) /\ frameInfo[t] \in Buffer(t)
               /\ Len(frameInfo[t]) <= Len(frameData[t]) /\ Len(frameData[t]) <= 1
    <2>1. FramePart(t)
      BY DEF IndInv, TrackPart
    <2>2. NoData \in 0 .. Len(Times[t]) /\ Samples(t) \subseteq 0 .. Len(Times[t])
      BY TrackFacts DEF Samples, NoData
    <2>3. Len(<< >>) = 0 /\ \A k : Len(<<k>>) = 1
      OBVIOUS
    <2>4. CASE frameData[t] = << >> /\ frameInfo[t] = << >>
      BY <2>3, <2>4, Singletons DEF Buffer
    <2>5. CASE frameData[t] = <<NoData>> /\ frameInfo[t] = << >>
      BY <2>2, <2>3, <2>5, Singletons DEF Buffer
    <2>6. CASE \E k \in Samples(t) : frameData[t] = <<k>> /\ frameInfo[t] = <<k>>
      <3>1. PICK k \in Samples(t) : frameData[t] = <<k>> /\ frameInfo[t] = <<k>>
        BY <2>6
      <3>2. <<k>> \in Seq(Samples(t)) /\ <<k>> \in Seq(0 .. Len(Times[t]))
        BY <2>2, Singletons
      <3> QED
        BY <2>3, <3>1, <3>2 DEF Buffer
    <2> QED
      BY <2>1, <2>4, <2>5, <2>6 DEF FramePart
  <1>4. ASSUME NEW t \in Tracks
        PROVE  /\ decoderIn[t] \in Seq(Buffer(t)) /\ decoderOut[t] \in Seq(Buffer(t))
               /\ pending[t] \in Seq(Buffer(t)) /\ encoderIn[t] \in Seq(Buffer(t))
               /\ Len(decoderIn[t]) + (IF inputIndex[t] THEN 1 ELSE 0) <= Slots
               /\ Len(encoderIn[t]) + (IF encoderIndex[t] THEN 1 ELSE 0) <= Slots
               /\ Len(pending[t]) + Len(decoderOut[t]) <= Slots
    BY DEF IndInv, TrackPart, CodecPart
  <1> QED
    BY <1>1, <1>2, <1>3, <1>4 DEF TypeOK, IndInv, LoopPart

(* The variables keep their types; no codec is ever given more buffers     *)
(* than it has slots, and the pass-through queues hold one frame           *)
(* (MediaCodecRenderer, EmptyRenderer).                                    *)
THEOREM TypeCorrect == Spec => []TypeOK
  <1> QED
    BY TypesOfInd, Inductive, PTL

(* Every sample goes out with its own description, although the two queues *)
(* are polled separately and one of them also carries buffers without data *)
(* (EmptyRenderer.feedInputBuffer, EmptyCodification.drainOutputBuffer).   *)
THEOREM DataWithDescription == Spec => []DataMatchesInfo
  <1>1. IndInv => DataMatchesInfo
    BY DEF IndInv, TrackPart, HandedPart, DataMatchesInfo
  <1> QED
    BY <1>1, Inductive, PTL

(* What a step does to what was handed over: it appends, with the streams  *)
(* counted in that step, or leaves it alone; and the muxer, once started,  *)
(* runs until the thread stops.                                            *)
HandsOver ==
  /\ currentNumOfStreams' >= currentNumOfStreams
  /\ muxerStarted => muxerStarted' \/ phase' = "stopped"
  /\ phase = "stopped" => phase' = "stopped"
  /\ \A t \in Tracks :
       \/ handed'[t] = handed[t]
       \/ \E data, info : OnDataReady(t, data, info, currentNumOfStreams')

LEMMA StepHandsOver ==
  ASSUME IndInv, Next
  PROVE  HandsOver
  <1>1. currentNumOfStreams \in Int /\ currentNumOfStreams + 1 >= currentNumOfStreams
        /\ currentNumOfStreams >= currentNumOfStreams
        /\ currentNumOfStreams + 0 = currentNumOfStreams
    BY CountBounds DEF IndInv
  <1>2. CASE UNCHANGED <<output, phase>>
    BY <1>1, <1>2 DEF HandsOver, output
  <1>3. CASE Test \/ EndRound
    BY <1>1, <1>3 DEF HandsOver, Test, EndRound, output, IndInv, LoopPart
  <1>4. ASSUME NEW t \in Tracks, DrainPassThrough(t) PROVE HandsOver
    <2>1. UNCHANGED phase
      BY <1>4 DEF DrainPassThrough, rounds
    <2>2. currentNumOfStreams' >= currentNumOfStreams
      BY <1>1, <1>4 DEF DrainPassThrough, output
    <2>3. \/ UNCHANGED <<handed, muxerStarted>>
          \/ \E data, info : OnDataReady(t, data, info, currentNumOfStreams')
      BY <1>4 DEF DrainPassThrough, output
    <2>4. muxerStarted => muxerStarted'
      BY <2>3 DEF OnDataReady, MaybeStartMuxer
    <2>5. ASSUME NEW u \in Tracks
          PROVE  \/ handed'[u] = handed[u]
                 \/ \E data, info : OnDataReady(u, data, info, currentNumOfStreams')
      <3>1. CASE u = t
        BY <2>3, <3>1
      <3>2. CASE u # t
        BY <2>3, <3>2 DEF OnDataReady, IndInv, Shape
      <3> QED
        BY <3>1, <3>2
    <2> QED
      BY <2>1, <2>2, <2>4, <2>5 DEF HandsOver
  <1>5. ASSUME NEW t \in Tracks, DrainEncoder(t) PROVE HandsOver
    <2>1. UNCHANGED phase
      BY <1>5 DEF DrainEncoder, rounds
    <2>2. currentNumOfStreams' >= currentNumOfStreams
      BY <1>1, <1>5 DEF DrainEncoder, NewTrackDiscovered
    <2>3. \/ UNCHANGED handed /\ (muxerStarted => muxerStarted')
          \/ \E data, info : OnDataReady(t, data, info, currentNumOfStreams')
      BY <1>5 DEF DrainEncoder, MaybeStartMuxer
    <2> QED
      BY <2>1, <2>2, <2>3 DEF HandsOver, OnDataReady, MaybeStartMuxer, IndInv, Shape
  <1>6. ASSUME NEW t \in Tracks,
               \/ Load(t) \/ Decode(t) \/ AnnounceFormat(t) \/ Encode(t)
               \/ FeedCodification(t) \/ DrainPassThroughRenderer(t) \/ DrainDecoder(t)
               \/ FeedPassThrough(t) \/ NothingPassThrough(t)
               \/ FeedDecoder(t) \/ NothingDecoder(t)
        PROVE  UNCHANGED <<output, phase>>
    BY <1>6 DEF Load, Decode, AnnounceFormat, Encode, FeedCodification, DrainPassThroughRenderer,
                DrainDecoder, FeedPassThrough, NothingPassThrough, FeedDecoder, NothingDecoder, rounds
  <1>7. CASE LoadCompleted \/ StopTranscoding
    BY <1>2, <1>7 DEF LoadCompleted, StopTranscoding, rounds
  <1> QED
    BY <1>2, <1>3, <1>4, <1>5, <1>6, <1>7 DEF Next, Step

(* Once a sample of a track was written, every later one is: the muxer     *)
(* runs, and no stream is missing any more (DefaultMediaOutput.sampleData, *)
(* maybeStartMuxer).                                                       *)
THEOREM WritingGoesOn == Spec => []WrittenWithoutGap
  <1>1. Init => WrittenWithoutGap
    BY DEF Init, WrittenWithoutGap
  <1>2. IndInv /\ TypeOK /\ TypeOK' /\ WrittenWithoutGap /\ [Next]_vars
         => WrittenWithoutGap'
    <2> SUFFICES ASSUME IndInv, TypeOK, TypeOK', WrittenWithoutGap, [Next]_vars
                 PROVE  WrittenWithoutGap'
      OBVIOUS
    <2>1. CASE UNCHANGED vars
      BY <2>1 DEF vars, output, rounds, WrittenWithoutGap, AllDiscovered
    <2>2. CASE Next
      <3>1. HandsOver
        BY <2>2, StepHandsOver
      <3>2. /\ currentNumOfStreams \in 0 .. Cardinality(Tracks)
            /\ currentNumOfStreams' \in 0 .. Cardinality(Tracks)
            /\ Cardinality(Tracks) \in Nat
        BY TrackFacts DEF TypeOK
      <3>3. AllDiscovered => AllDiscovered'
        BY <3>1, <3>2 DEF HandsOver, AllDiscovered
      <3> SUFFICES ASSUME NEW t \in Tracks, NEW i \in 1 .. Len(handed'[t]), handed'[t][i].written
                   PROVE  /\ AllDiscovered' /\ (muxerStarted' \/ phase' = "stopped")
                          /\ \A j \in i .. Len(handed'[t]) : handed'[t][j].written
        BY DEF WrittenWithoutGap
      <3>4. CASE handed'[t] = handed[t]
        BY <3>1, <3>3, <3>4 DEF WrittenWithoutGap, HandsOver
      <3>5. CASE \E data, info : OnDataReady(t, data, info, currentNumOfStreams')
        <4>1. PICK data, info : OnDataReady(t, data, info, currentNumOfStreams')
          BY <3>5
        <4> DEFINE new == [data |-> data, info |-> info,
                           written |-> IsWritten(currentNumOfStreams')]
                   last == Len(handed[t]) + 1
        <4>2. handed'[t] = Append(handed[t], new) /\ handed[t] \in Seq(Handover(t))
          BY <4>1 DEF OnDataReady, IndInv, Shape, TrackPart, HandedPart
        <4>3. new.written = IsWritten(currentNumOfStreams')
          OBVIOUS
        <4> HIDE DEF new
        <4>4. /\ Len(handed[t]) \in Nat /\ Len(handed'[t]) = last
              /\ \A j \in 1 .. Len(handed[t]) : handed'[t][j] = handed[t][j]
              /\ handed'[t][last] = new
          BY <4>2
        <4>5. IsWritten(currentNumOfStreams') <=> AllDiscovered'
          BY <3>2 DEF IsWritten, AllDiscovered
        <4>6. AllDiscovered' => muxerStarted'
          BY <4>1 DEF OnDataReady, MaybeStartMuxer, AllDiscovered
        <4>7. CASE i = last
          BY <4>3, <4>4, <4>5, <4>6, <4>7
        <4>8. CASE i \in 1 .. Len(handed[t])
          <5>1. handed[t][i].written
            BY <4>4, <4>8
          <5>2. AllDiscovered /\ \A j \in i .. Len(handed[t]) : handed[t][j].written
            BY <4>8, <5>1 DEF WrittenWithoutGap
          <5>3. AllDiscovered' /\ muxerStarted' /\ handed'[t][last].written
            BY <3>3, <4>3, <4>4, <4>5, <4>6, <5>2
          <5>4. ASSUME NEW j \in i .. Len(handed'[t]) PROVE handed'[t][j].written
            <6>1. CASE j = last
              BY <5>3, <6>1
            <6>2. CASE j # last
              <7>1. j \in i .. Len(handed[t]) /\ j \in 1 .. Len(handed[t])
                BY <4>4, <4>8, <6>2
              <7> QED
                BY <4>4, <5>2, <7>1
            <6> QED
              BY <6>1, <6>2
          <5> QED
            BY <5>3, <5>4
        <4> QED
          BY <4>4, <4>7, <4>8
      <3> QED
        BY <3>1, <3>4, <3>5 DEF HandsOver
    <2> QED
      BY <2>1, <2>2
  <1> QED
    BY <1>1, <1>2, Inductive, TypeCorrect, PTL DEF Spec
=============================================================================
