-------------------------- MODULE TranscoderProofs --------------------------
(***************************************************************************)
(* Proofs about Transcoder, for any number of tracks, whatever their ids,  *)
(* and of stops: what is announced is complete; tracks are split as asked; *)
(* no exception ends the process but those FailsOnlyIf admits.             *)
(***************************************************************************)
EXTENDS Transcoder, FiniteSetTheorems, SequenceTheorems, TLAPS

Unasked ==
  {"setDataSource", "start", "setOutputSource", "synchronized", "testSource", "settingFlag"}
Setup == {"starting", "settingHandler", "creatingSource", "testingFlag"}
Finishing == {"testing", "testingFormats", "counting", "finishing"}
Later == {"maybeFinishPrepare", "selectTracks", "start"}
Messages == {"onPrepare", "maybeFinishPrepare", "selectTracks", "start"}

(* The types of what the theorems are about.                               *)
Types ==
  /\ PreparationTypeOK
  /\ looper \in Setup \cup Finishing \cup {"preparing", "synchronized", "idle", "startingLoop"}
  /\ failure \in {"none", "noFormat", "noSeekMap", "noDataSource", "alreadyLoading", "noId",
                  "arrayTooShort", "badIndex", "noMuxer", "noLoop"}
  /\ ui \in Unasked \cup {"waiting", "clearing"}
  /\ dataSource \in BOOLEAN /\ mediaOutput \in BOOLEAN
  /\ mediaSource \in {"null", "withSource", "withoutSource"}
  /\ prepareWhenReady \in BOOLEAN /\ tracksSelected \in BOOLEAN /\ outputPrepared \in BOOLEAN
  /\ sync \in [Threads -> [step: {"out", "evaluating", "waiting", "testing", "preparing",
                                  "leaving"}, lock: BOOLEAN]]

(* The looper starts after the calls that come before start().             *)
OrderInv ==
  ui = "start" \/ (ui = "setDataSource" /\ DataSourceFirst) => looper = "starting"

(* Preparation is asked for once, and no other message comes before it.    *)
RequestInv ==
  /\ ui \in Unasked => extractor = "unstarted" /\ mailbox = << >> /\ ~prepareWhenReady
                         /\ looper # "preparing"
  /\ looper \in Setup \cup {"preparing"} => extractor = "unstarted"
  /\ looper \in Finishing \cup {"synchronized"} => extractor # "unstarted"
  /\ looper = "preparing" => mailbox = << >>
  /\ extractor = "unstarted" => /\ mailbox = << >> \/ mailbox = <<"onPrepare">>
                                /\ prepareWhenReady => mailbox = << >>
                                /\ uiMailbox = << >> /\ ~tracksSelected
  /\ extractor # "unstarted" => mailbox \in Seq(Later)
  /\ extractor # "unstarted" /\ ~tracksSelected => mailbox \in Seq({"maybeFinishPrepare"})

(* Only the thread that found the output unprepared prepares it.           *)
OutputInv ==
  /\ sync["ui"].step # "out" => ui = "synchronized"
  /\ sync["looper"].step # "out" => looper = "synchronized"
  /\ ui \notin {"setDataSource", "start", "setOutputSource"} => mediaOutput
  /\ \A th \in Threads : sync[th].step = "preparing" => outputPrepared /\ muxers = 0
  /\ sync["ui"].step = "preparing" => sync["looper"].step # "preparing"
  /\ outputPrepared => muxers = 1 \/ \E th \in Threads : sync[th].step = "preparing"
  /\ ~outputPrepared => muxers = 0
  /\ muxers \in {0, 1}
  /\ sync["looper"].step = "leaving" => outputPrepared
  /\ extractor # "unstarted" /\ looper # "synchronized" => muxers = 1
  /\ uiMailbox # << >> \/ tracksSelected => muxers = 1

News == \E i \in DOMAIN mailbox : mailbox[i] = "maybeFinishPrepare"

(* What the looper has seen is a part of what there is.                    *)
PreparedInv ==
  /\ sampleQueues <= readers /\ readers <= trackIds
  /\ extractor = "addingReader" => readers < trackIds
  /\ extractor = "addingQueue" => sampleQueues < readers
  /\ sampleQueuesBuilt => knownAtEnd <= sampleQueues
  /\ looper \in {"testingFormats", "counting", "finishing"} =>
       sampleQueuesBuilt /\ knownAtEnd <= local.trackCount /\ local.trackCount <= sampleQueues
  /\ looper \in {"counting", "finishing"} => 1 .. knownAtEnd \subseteq formats
  /\ looper \in Finishing /\ seekMap /\ ~local.seekMap => News
  /\ prepared => /\ sampleQueuesBuilt /\ knownAtEnd <= preparedTracks
                 /\ 1 .. preparedTracks \subseteq formats

Inv == Types /\ OrderInv /\ RequestInv /\ OutputInv /\ PreparedInv /\ FailsOnlyIf

(* Only a stop takes the loop away that the looper is about to start.      *)
LoopInv ==
  /\ stops \in 0 .. MaxStops
  /\ ui = "clearing" => stops > 0
  /\ looper = "startingLoop" /\ ~decodeEncodeStreams => stops > 0

(* The types of the other variables.                                       *)
RestTypes ==
  /\ transcoderHandler \in BOOLEAN /\ transcoderRunning \in BOOLEAN
  /\ trackStates \in Seq(States) /\ tracksToDiscard \in Seq(Nat)
  /\ renderers \in 0 .. NumTracks /\ numOfMuxingStreams \in -1 .. NumTracks
  /\ discarded \in SUBSET (1 .. NumTracks)
  /\ muxers \in Nat /\ monitor \in [BOOLEAN -> Threads \cup {"none"}]
  /\ decodeEncodeStreams \in BOOLEAN /\ des \in {"none", "running", "draining", "ended"}
  /\ canceled \in BOOLEAN /\ quit \in BOOLEAN
  /\ stops \in 0 .. MaxStops /\ stopFound \in BOOLEAN

(* The tracks are announced once, and chosen once, after that.             *)
OnceInv ==
  /\ looper \in {"testingFormats", "counting", "finishing"} => ~prepared
  /\ prepared => preparedTracks <= sampleQueues
  /\ ~prepared => ~tracksSelected /\ uiMailbox = << >>
  /\ prepared /\ ~tracksSelected => uiMailbox = <<"onPrepared">>
  /\ tracksSelected => uiMailbox \in Seq({"onTracksSelected"})

IsSorted(c) == Ordered(c.selected) /\ Ordered(c.discarded)

(* s lists the tracks of T, in order.                                      *)
ListsAll(s, T) == Ordered(s) /\ Named(s) = T

(* d are the numbers in the ids of the tracks of s, of those of T.         *)
AreIds(d, s) == Len(d) = Len(s) /\ \A m \in 1 .. Len(s) : d[m] = Ids[s[m]]
ListsIds(d, T) == \E s \in Seq(1 .. NumTracks) : ListsAll(s, T) /\ AreIds(d, s)

(* How the tracks are split; what was made of it later is still so.        *)
ChosenInv ==
  /\ tracksSelected =>
       /\ Len(trackStates) = preparedTracks
       /\ ListsIds(tracksToDiscard, InState(trackStates, "DISCARD"))
       /\ IsSorted(chosen) => \A i \in 1 .. preparedTracks : trackStates[i] = Expected(chosen, i)
  /\ numOfMuxingStreams >= 0 =>
       /\ tracksSelected
       /\ discarded = InState(trackStates, "DISCARD") \cap named
       /\ numOfMuxingStreams = renderers

SelectInv == RestTypes /\ OnceInv /\ ChosenInv

-----------------------------------------------------------------------------
(* Messages and failures                                                   *)

LEMMA Posted ==
  ASSUME NEW S, mailbox \in Seq(S), NEW m \in S, Post(m)
  PROVE  /\ mailbox' \in Seq(S) /\ mailbox' # << >>
         /\ News \/ m = "maybeFinishPrepare" => News'
  <1>1. /\ mailbox' \in Seq(S) /\ Len(mailbox) \in Nat
        /\ DOMAIN mailbox = 1 .. Len(mailbox) /\ DOMAIN mailbox' = 1 .. Len(mailbox) + 1
        /\ \A i \in 1 .. Len(mailbox) : mailbox'[i] = mailbox[i]
        /\ mailbox'[Len(mailbox) + 1] = m
    BY DEF Post
  <1>2. mailbox' # << >>
    BY <1>1
  <1>3. ASSUME NEW i \in DOMAIN mailbox, mailbox[i] = "maybeFinishPrepare" PROVE News'
    BY <1>1, <1>3 DEF News
  <1>4. ASSUME m = "maybeFinishPrepare" PROVE News'
    BY <1>1, <1>4 DEF News
  <1> QED
    BY <1>1, <1>2, <1>3, <1>4 DEF News

LEMMA Received ==
  ASSUME NEW S, mailbox \in Seq(S), NEW m, Receive(m)
  PROVE  m \in S /\ mailbox' \in Seq(S)
  BY DEF Receive

LEMMA NoFailure == failure' = "none" => FailsOnlyIf'
  BY DEF FailsOnlyIf

-----------------------------------------------------------------------------
(* The loading thread                                                      *)

LEMMA ExtractorKeeps == ASSUME Inv, ExtractorNext, UNCHANGED LifeCycle PROVE Inv'
  <1>1. /\ extractor # "unstarted" /\ failure = "none"
        /\ UNCHANGED <<announced, uiMailbox, looper, local, failure>>
        /\ ui \notin Unasked /\ looper \notin Setup \cup {"preparing"}
    BY DEF ExtractorNext, Track, AddReader, AddQueue, OnUpstreamFormatChanged, EndTracks,
           EndTracksAgain, SeekMap, Extracts, Alive, Inv, RequestInv
  <1>2. extractor' # "unstarted"
    BY <1>1 DEF ExtractorNext, Track, AddReader, AddQueue, OnUpstreamFormatChanged, EndTracks,
           EndTracksAgain, SeekMap
  <1>3. OrderInv' /\ OutputInv' /\ FailsOnlyIf'
    <2>1. FailsOnlyIf'
      BY <1>1, NoFailure
    <2>2. OrderInv' /\ OutputInv'
      BY <1>1, <1>2 DEF Inv, OrderInv, OutputInv, LifeCycle, fields, locking, selection
    <2> QED
      BY <2>1, <2>2
  <1>4. mailbox' = mailbox \/ Post("maybeFinishPrepare")
    BY DEF ExtractorNext, Track, AddReader, AddQueue, OnUpstreamFormatChanged, EndTracks,
           EndTracksAgain, SeekMap, EndPosted
  <1>5. RequestInv' /\ (News => News') /\ mailbox' \in Seq(Messages)
    <2>1. mailbox \in Seq(Messages) /\ mailbox \in Seq(Later)
          /\ (~tracksSelected => mailbox \in Seq({"maybeFinishPrepare"}))
      BY <1>1 DEF Inv, RequestInv, Types, PreparationTypeOK, Messages
    <2>2. mailbox' \in Seq(Messages) /\ mailbox' \in Seq(Later)
          /\ (~tracksSelected => mailbox' \in Seq({"maybeFinishPrepare"})) /\ (News => News')
      <3>1. CASE mailbox' = mailbox
        BY <2>1, <3>1 DEF News
      <3>2. CASE Post("maybeFinishPrepare")
        <4>1. "maybeFinishPrepare" \in Messages /\ "maybeFinishPrepare" \in Later
          BY DEF Messages, Later
        <4> QED
          BY <2>1, <3>2, <4>1, Posted
      <3> QED
        BY <1>4, <3>1, <3>2
    <2>3. RequestInv'
      BY <1>1, <1>2, <2>2 DEF Inv, RequestInv, LifeCycle, fields
    <2> QED
      BY <2>2, <2>3
  <1> USE <1>1, <1>5
  <1>6. CASE Track
    <2>1. Types'
      BY <1>6, TracksAssumption
      DEF Track, Extracts, Inv, Types, PreparationTypeOK, PreparedInv, news, announced,
              LifeCycle, fields, locking, Messages
    <2>2. PreparedInv'
      BY <1>6, TracksAssumption
      DEF Track, Extracts, Inv, Types, PreparationTypeOK, PreparedInv, news, announced
    <2> QED
      BY <1>3, <2>1, <2>2 DEF Inv
  <1>7. ASSUME NEW isNull \in BOOLEAN, AddReader(isNull) PROVE Inv'
    <2>1. Types'
      BY <1>7, TracksAssumption
      DEF AddReader, Inv, Types, PreparationTypeOK, PreparedInv, news, announced,
              LifeCycle, fields, locking, Messages
    <2>2. PreparedInv'
      BY <1>7, TracksAssumption
      DEF AddReader, Inv, Types, PreparationTypeOK, PreparedInv, news, announced
    <2> QED
      BY <1>3, <2>1, <2>2 DEF Inv
  <1>8. CASE AddQueue
    <2>1. Types'
      BY <1>8, TracksAssumption
      DEF AddQueue, Inv, Types, PreparationTypeOK, PreparedInv, news, announced,
              LifeCycle, fields, locking, Messages
    <2>2. PreparedInv'
      BY <1>8, TracksAssumption
      DEF AddQueue, Inv, Types, PreparationTypeOK, PreparedInv, news, announced
    <2> QED
      BY <1>3, <2>1, <2>2 DEF Inv
  <1>9. ASSUME NEW t \in 1 .. NumTracks, OnUpstreamFormatChanged(t) PROVE Inv'
    <2>1. Types' /\ PreparedInv'
      BY <1>9 DEF OnUpstreamFormatChanged, Inv, Types, PreparationTypeOK, PreparedInv, arrays,
                  announced, LifeCycle, fields, locking, Messages
    <2> QED
      BY <1>3, <2>1 DEF Inv
  <1>10. CASE EndTracks
    <2>1. /\ UNCHANGED <<arrays, formats, seekMap, extractor>>
          /\ ~sampleQueuesBuilt /\ sampleQueuesBuilt' = TRUE /\ knownAtEnd' = sampleQueues
      BY <1>10 DEF EndTracks
    <2>2. Types'
      BY <2>1 DEF Inv, Types, PreparationTypeOK, arrays, announced, LifeCycle, fields, locking,
                  Messages
    <2>3. PreparedInv'
      BY <2>1, TracksAssumption DEF Inv, Types, PreparationTypeOK, PreparedInv, arrays, announced
    <2> QED
      BY <1>3, <2>2, <2>3 DEF Inv
  <1>11. CASE EndTracksAgain
    <2>1. UNCHANGED <<arrays, news, knownAtEnd, extractor>>
      BY <1>11 DEF EndTracksAgain
    <2>2. Types'
      BY <2>1 DEF Inv, Types, PreparationTypeOK, arrays, news, announced, LifeCycle, fields,
                  locking, Messages
    <2>3. PreparedInv'
      BY <2>1 DEF Inv, PreparedInv, arrays, news, announced
    <2> QED
      BY <1>3, <2>2, <2>3 DEF Inv
  <1>12. CASE SeekMap
    <2>1. News'
      <3>1. mailbox \in Seq(Messages) /\ "maybeFinishPrepare" \in Messages
        BY DEF Inv, Types, PreparationTypeOK, Messages
      <3> QED
        BY <1>12, <3>1, Posted DEF SeekMap
    <2>2. Types' /\ PreparedInv'
      BY <1>12, <2>1 DEF SeekMap, Inv, Types, PreparationTypeOK, PreparedInv, arrays,
                  announced, LifeCycle, fields, locking, Messages
    <2> QED
      BY <1>3, <2>2 DEF Inv
  <1> QED
    BY <1>6, <1>7, <1>8, <1>9, <1>10, <1>11, <1>12 DEF ExtractorNext

-----------------------------------------------------------------------------
(* The looper: maybeFinishPrepare                                          *)

LEMMA FinishKeeps == ASSUME Inv, FinishNext, UNCHANGED LifeCycle PROVE Inv'
  <1>1. /\ failure = "none"
        /\ UNCHANGED <<arrays, news, knownAtEnd, extractor>>
    BY DEF FinishNext, ReadSeekMap, TestState, TestFormats, CountTracks, FinishPrepare, Receive,
           Alive
  <1>2. CASE ReadSeekMap
    <2>1. /\ looper = "idle" /\ looper' = "testing" /\ mailbox # << >>
          /\ Receive("maybeFinishPrepare")
          /\ local' = [local EXCEPT !.seekMap = seekMap]
          /\ UNCHANGED <<announced, uiMailbox, failure>>
      BY <1>2 DEF ReadSeekMap, Receive
    <2>2. extractor # "unstarted"
      <3>1. mailbox # <<"onPrepare">>
        BY <2>1 DEF Receive
      <3> QED
        BY <2>1, <3>1 DEF Inv, RequestInv
    <2>3. /\ mailbox \in Seq(Messages) /\ mailbox \in Seq(Later)
          /\ ~tracksSelected => mailbox \in Seq({"maybeFinishPrepare"})
      BY <2>2 DEF Inv, RequestInv, Types, PreparationTypeOK, Messages
    <2>4. /\ mailbox' \in Seq(Messages) /\ mailbox' \in Seq(Later)
          /\ ~tracksSelected => mailbox' \in Seq({"maybeFinishPrepare"})
      BY <2>1, <2>3, Received
    <2>5. Types'
      BY <1>1, <2>1, <2>4 DEF Inv, Types, PreparationTypeOK, Messages, LifeCycle, fields, locking,
                              arrays, news, announced, Finishing
    <2>6. OrderInv' /\ RequestInv' /\ OutputInv'
      BY <1>1, <2>1, <2>2, <2>4 DEF Inv, OrderInv, RequestInv, OutputInv, LifeCycle, fields,
                                    locking, Setup, Finishing, Unasked
    <2>7. local'.seekMap = seekMap
      BY <2>1 DEF Inv, Types, PreparationTypeOK
    <2>8. PreparedInv'
      BY <1>1, <2>1, <2>7 DEF Inv, PreparedInv, arrays, news, announced, Finishing
    <2> QED
      BY <1>1, <2>1, <2>5, <2>6, <2>8, NoFailure DEF Inv
  <1>3. CASE TestState \/ TestFormats \/ CountTracks
    <2>1. /\ looper \in Finishing /\ looper' \in Finishing \cup {"idle"}
          /\ UNCHANGED <<announced, mailbox, uiMailbox, failure>>
          /\ local'.seekMap = local.seekMap
          /\ local' \in [seekMap: BOOLEAN, trackCount: 0 .. NumTracks]
      BY <1>3 DEF TestState, TestFormats, CountTracks, Finishing, Inv, Types, PreparationTypeOK
    <2>2. Types'
      BY <1>1, <2>1 DEF Inv, Types, PreparationTypeOK, LifeCycle, fields, locking, arrays, news,
                        announced
    <2>3. OrderInv' /\ RequestInv' /\ OutputInv'
      BY <1>1, <2>1 DEF Inv, OrderInv, RequestInv, OutputInv, LifeCycle, fields,
                        locking, Setup, Finishing, Unasked
    <2>4. PreparedInv'
      <3>0. News => News'
        BY <2>1 DEF News
      <3>1. CASE TestState
        <4>1. /\ local'.trackCount = sampleQueues
              /\ looper' = IF MayFinish THEN "testingFormats" ELSE "idle"
          BY <3>1 DEF TestState, Inv, Types, PreparationTypeOK
        <4> QED
          BY <1>1, <2>1, <3>0, <4>1 DEF Inv, PreparedInv, Types, PreparationTypeOK, arrays, news,
                                        announced, Finishing, MayFinish
      <3>2. CASE TestFormats
        <4>1. /\ local' = local /\ looper = "testingFormats"
              /\ looper' = IF AllFormats THEN "counting" ELSE "idle"
          BY <3>2 DEF TestFormats
        <4>2. AllFormats => 1 .. knownAtEnd \subseteq formats
          BY <4>1 DEF AllFormats, Inv, PreparedInv, Types, PreparationTypeOK
        <4> QED
          BY <1>1, <2>1, <3>0, <4>1, <4>2 DEF Inv, PreparedInv, arrays, news, announced, Finishing
      <3>3. CASE CountTracks
        <4>1. /\ local'.trackCount = sampleQueues /\ looper = "counting" /\ looper' = "finishing"
          BY <3>3 DEF CountTracks, Inv, Types, PreparationTypeOK
        <4> QED
          BY <1>1, <2>1, <3>0, <4>1 DEF Inv, PreparedInv, Types, PreparationTypeOK, arrays, news,
                                        announced, Finishing
      <3> QED
        BY <1>3, <3>1, <3>2, <3>3
    <2> QED
      BY <1>1, <2>1, <2>2, <2>3, <2>4, NoFailure DEF Inv
  <1>4. CASE FinishPrepare
    <2> DEFINE count == local.trackCount
               known == 1 .. count \subseteq formats
    <2>1. /\ looper = "finishing" /\ looper' = "idle"
          /\ failure' = IF ~known THEN "noFormat"
                        ELSE IF ~local.seekMap THEN "noSeekMap" ELSE "none"
          /\ UNCHANGED <<mailbox, local>>
          /\ IF known /\ local.seekMap
             THEN /\ prepared' = TRUE /\ preparedTracks' = count
                  /\ uiMailbox' = Append(uiMailbox, "onPrepared")
             ELSE UNCHANGED <<announced, uiMailbox>>
      BY <1>4 DEF FinishPrepare
    <2>2. /\ extractor # "unstarted" /\ muxers = 1 /\ sampleQueuesBuilt
          /\ knownAtEnd <= count /\ count <= sampleQueues /\ 1 .. knownAtEnd \subseteq formats
          /\ seekMap /\ ~local.seekMap => News
      BY <2>1 DEF Inv, RequestInv, OutputInv, PreparedInv, Finishing
    <2>3. /\ uiMailbox' \in Seq({"onPrepared", "onTracksSelected"})
          /\ prepared' \in BOOLEAN /\ preparedTracks' \in 0 .. NumTracks
      <3>1. CASE known /\ local.seekMap
        <4>1. uiMailbox \in Seq({"onPrepared", "onTracksSelected"})
          BY DEF Inv, Types, PreparationTypeOK
        <4>2. count \in 0 .. NumTracks
          BY DEF Inv, Types, PreparationTypeOK
        <4> QED
          BY <2>1, <3>1, <4>1, <4>2
      <3>2. CASE ~(known /\ local.seekMap)
        BY <2>1, <3>2 DEF Inv, Types, PreparationTypeOK, announced
      <3> QED
        BY <3>1, <3>2
    <2>4. Types'
      BY <1>1, <2>1, <2>3
      DEF Inv, Types, PreparationTypeOK, LifeCycle, fields, locking, arrays, news
    <2>5. OrderInv' /\ RequestInv' /\ OutputInv'
      BY <1>1, <2>1, <2>2 DEF Inv, OrderInv, RequestInv, OutputInv, LifeCycle, fields,
                        locking, Setup, Finishing, Unasked
    <2>6. PreparedInv'
      BY <1>1, <2>1, <2>2 DEF Inv, PreparedInv, arrays, news, announced, Finishing
    <2>7. FailsOnlyIf'
      <3>1. failure' = "noFormat" => TrackCameLate'
        <4>1. ASSUME ~known PROVE knownAtEnd < trackIds
          <5>1. knownAtEnd # count
            BY <2>2, <4>1
          <5> QED
            BY <2>2, <5>1 DEF Inv, PreparedInv, Types, PreparationTypeOK
        <4> QED
          BY <1>1, <2>1, <2>2, <4>1 DEF TrackCameLate, arrays, news, Inv, Types, PreparationTypeOK
      <3>2. failure' = "noSeekMap" =>
              ~seekMap' \/ \E i \in DOMAIN mailbox' : mailbox'[i] = "maybeFinishPrepare"
        BY <1>1, <2>1, <2>2 DEF News, news
      <3> QED
        BY <2>1, <3>1, <3>2 DEF FailsOnlyIf
    <2> QED
      BY <2>4, <2>5, <2>6, <2>7 DEF Inv
  <1> QED
    BY <1>2, <1>3, <1>4 DEF FinishNext

-----------------------------------------------------------------------------
(* The synchronized blocks                                                 *)

SyncFrame == <<arrays, news, knownAtEnd, announced, extractor, mailbox, uiMailbox, local, failure,
               fields, selection, loop>>

LEMMA SyncKeeps == ASSUME Inv, NEW th \in Threads, SyncNext(th) PROVE Inv'
  <1>1. UNCHANGED SyncFrame /\ failure = "none"
    BY DEF SyncNext, ReadLock, EnterLock, TestOutput, PrepareOutput, LeaveLock, SyncFrame,
           preparation, Alive
  <1>2. th \in {"ui", "looper"} /\ sync[th].step # "out"
    BY DEF SyncNext, ReadLock, EnterLock, TestOutput, PrepareOutput, LeaveLock, Threads
  <1>3. (th = "ui" => ui = "synchronized") /\ (th = "looper" => looper = "synchronized")
    BY <1>2 DEF Inv, OutputInv
  <1>4. \A x \in Threads : sync'[x] = IF x = th THEN sync'[th] ELSE sync[x]
    BY DEF SyncNext, ReadLock, EnterLock, TestOutput, PrepareOutput, LeaveLock, Inv, Types
  <1>5. /\ sync' \in [Threads -> [step: {"out", "evaluating", "waiting", "testing", "preparing",
                                         "leaving"}, lock: BOOLEAN]]
        /\ outputPrepared' \in BOOLEAN
    <2>1. CASE TestOutput(th)
      <3>1. outputPrepared' \in BOOLEAN
        BY <2>1, Zenon DEF TestOutput
      <3> QED
        BY <2>1, <3>1 DEF TestOutput, Inv, Types
    <2>2. CASE ReadLock(th) \/ EnterLock(th) \/ PrepareOutput(th) \/ LeaveLock(th)
      BY <2>2 DEF ReadLock, EnterLock, PrepareOutput, LeaveLock, Inv, Types
    <2> QED
      BY <2>1, <2>2 DEF SyncNext
  <1>6. /\ ui' = IF th = "ui" /\ LeaveLock(th) THEN "testSource" ELSE ui
        /\ looper' = IF th = "looper" /\ LeaveLock(th) THEN "idle" ELSE looper
    BY <1>2 DEF SyncNext, ReadLock, EnterLock, TestOutput, PrepareOutput, LeaveLock, preparation
  <1>7. Types'
    BY <1>1, <1>5, <1>6 DEF Inv, Types, PreparationTypeOK, SyncFrame, arrays, news, announced,
                            fields, Unasked
  <1>8. OrderInv' /\ RequestInv'
    BY <1>1, <1>3, <1>6
    DEF Inv, OrderInv, RequestInv, SyncFrame, fields, Unasked, Setup, Finishing
  <1>9. PreparedInv'
    <2>1. News => News'
      BY <1>1 DEF News, SyncFrame
    <2> QED
      BY <1>1, <1>3, <1>6, <2>1
      DEF Inv, PreparedInv, SyncFrame, arrays, news, announced, Finishing
  <1>10. OutputInv'
    <2>1. CASE ReadLock(th) \/ EnterLock(th)
      <3>1. /\ sync'[th].step \in {"waiting", "testing"}
            /\ sync[th].step \in {"evaluating", "waiting"}
            /\ UNCHANGED <<outputPrepared, muxers, ui, looper>>
        BY <2>1 DEF ReadLock, EnterLock, Inv, Types, preparation
      <3> QED
        BY <1>1, <1>2, <1>3, <1>4, <3>1 DEF Inv, OutputInv, SyncFrame, fields, Threads
    <2>2. CASE TestOutput(th)
      <3>1. /\ sync[th].step = "testing"
            /\ sync'[th].step = IF MayPrepareOutput(th) THEN "preparing" ELSE "leaving"
            /\ UNCHANGED <<muxers, ui, looper>>
        BY <2>2 DEF TestOutput, Inv, Types, preparation
      <3>2. outputPrepared' <=> outputPrepared \/ MayPrepareOutput(th)
        BY <2>2, Zenon DEF TestOutput
      <3>3. MayPrepareOutput(th) => ~outputPrepared
        BY Zenon DEF MayPrepareOutput
      <3>4. th = "looper" => outputPrepared'
        <4>1. th = "looper" => mediaOutput /\ Other(th) = mediaOutput
          BY <1>3 DEF Other, Inv, OutputInv, RequestInv, Finishing, Unasked
        <4> QED
          BY <3>2, <4>1 DEF MayPrepareOutput
      <3> QED
        BY <1>1, <1>2, <1>3, <1>4, <3>1, <3>2, <3>3, <3>4
        DEF Inv, OutputInv, SyncFrame, fields, Threads
    <2>3. CASE PrepareOutput(th)
      <3>1. /\ sync[th].step = "preparing" /\ sync'[th].step = "leaving"
            /\ muxers' = muxers + 1 /\ UNCHANGED <<outputPrepared, ui, looper>>
        BY <2>3 DEF PrepareOutput, Inv, Types, preparation
      <3>2. muxers = 0 /\ outputPrepared
        BY <3>1 DEF Inv, OutputInv
      <3> QED
        BY <1>1, <1>2, <1>3, <1>4, <3>1, <3>2 DEF Inv, OutputInv, SyncFrame, fields, Threads
    <2>4. CASE LeaveLock(th)
      <3>1. /\ sync[th].step = "leaving" /\ sync'[th].step = "out"
            /\ UNCHANGED <<outputPrepared, muxers>>
        BY <2>4 DEF LeaveLock, Inv, Types
      <3>2. th = "looper" => sync["ui"].step # "preparing"
        BY <1>3 DEF Inv, OutputInv, RequestInv, Finishing, Unasked
      <3>3. th = "looper" => muxers = 1
        BY <1>2, <3>1, <3>2 DEF Inv, OutputInv, Threads
      <3> QED
        BY <1>1, <1>2, <1>3, <1>4, <1>6, <2>4, <3>1, <3>2, <3>3
        DEF Inv, OutputInv, SyncFrame, fields, Threads
    <2> QED
      BY <2>1, <2>2, <2>3, <2>4 DEF SyncNext
  <1> QED
    BY <1>1, <1>7, <1>8, <1>9, <1>10, NoFailure DEF Inv, SyncFrame

-----------------------------------------------------------------------------
(* The UI thread sets up, the looper gets ready                            *)

Sets == SetDataSource \/ Start \/ SetOutputSource \/ PrepareTests \/ PrepareSetsFlag

LEMMA SetupKeeps == ASSUME Inv, Sets PROVE Inv'
  <1>1. /\ failure = "none" /\ ui \in Unasked
        /\ UNCHANGED <<arrays, news, knownAtEnd, announced, extractor, uiMailbox, local, failure,
                       mediaSource, tracksSelected, outputPrepared, muxers>>
    BY DEF Sets, SetDataSource, Start, SetOutputSource, PrepareTests, PrepareSetsFlag, Calls, Alive,
           Unasked, preparation, selection, locking, fields
  <1>2. /\ extractor = "unstarted" /\ mailbox = << >> /\ ~prepareWhenReady /\ looper # "preparing"
        /\ uiMailbox = << >> /\ ~tracksSelected /\ looper \notin Finishing \cup {"synchronized"}
        /\ sync["looper"].step = "out"
    BY <1>1 DEF Inv, RequestInv, OutputInv
  <1>3. FailsOnlyIf'
    BY <1>1, NoFailure
  <1>4. CASE SetDataSource
    <2>1. /\ ui' \in {"start", "setOutputSource"} /\ dataSource' = TRUE
          /\ ui' = "start" => ui = "setDataSource" /\ DataSourceFirst
          /\ UNCHANGED <<looper, mailbox, mediaOutput, prepareWhenReady, sync>>
      BY <1>4 DEF SetDataSource, Calls, preparation, locking
    <2>2. Types'
      BY <1>1, <2>1 DEF arrays, news, announced, Inv, Types, PreparationTypeOK, Unasked
    <2>6. ui = "setDataSource"
      BY <1>4 DEF SetDataSource, Calls
    <2>3. RequestInv' /\ OutputInv'
      BY <1>1, <1>2, <2>1, <2>6
      DEF Inv, RequestInv, OutputInv, Unasked, Finishing, Setup, Threads
    <2>4. PreparedInv'
      BY <1>1, <1>2, <2>1 DEF arrays, news, announced, Inv, PreparedInv, Finishing
    <2>5. OrderInv'
      BY <2>1 DEF Inv, OrderInv
    <2> QED
      BY <1>3, <2>2, <2>3, <2>4, <2>5 DEF Inv
  <1>5. CASE Start
    <2>1. looper = "starting" /\ looper' = "settingHandler" /\ ui = "start"
      BY <1>5 DEF Start, Calls, Inv, OrderInv
    <2> QED
      BY <1>1, <1>2, <1>3, <1>5, <2>1
      DEF Start, arrays, news, announced, fields, locking, Inv, Types,
          PreparationTypeOK, OrderInv, RequestInv, OutputInv, PreparedInv, Unasked, Finishing, Setup
  <1>6. CASE SetOutputSource
    <2>1. /\ ui = "setOutputSource" /\ ui' = "synchronized" /\ mediaOutput' = TRUE
          /\ sync["ui"].step = "out" /\ sync'["ui"].step = "evaluating"
          /\ sync'["looper"] = sync["looper"]
          /\ sync' \in [Threads -> [step: {"out", "evaluating", "waiting", "testing", "preparing",
                                           "leaving"}, lock: BOOLEAN]]
          /\ UNCHANGED <<looper, mailbox, dataSource, prepareWhenReady>>
      BY <1>6 DEF SetOutputSource, Calls, Inv, Types, OutputInv, Threads, preparation
    <2>2. Types'
      BY <1>1, <1>2, <2>1
      DEF arrays, news, announced, Inv, Types, PreparationTypeOK, Unasked
    <2>3. OrderInv' /\ RequestInv'
      BY <1>1, <1>2, <2>1 DEF Inv, OrderInv, RequestInv, Unasked, Finishing, Setup
    <2>4. PreparedInv'
      BY <1>1, <1>2, <2>1 DEF arrays, news, announced, Inv, PreparedInv, Finishing
    <2>5. OutputInv'
      BY <1>1, <1>2, <2>1 DEF Inv, OutputInv, Threads
    <2> QED
      BY <1>3, <2>2, <2>3, <2>4, <2>5 DEF Inv
  <1>7. CASE PrepareTests
    <2>1. /\ ui = "testSource" /\ ui' \in {"settingFlag", "waiting"}
          /\ mailbox' \in {<< >>, <<"onPrepare">>} /\ (ui' = "settingFlag" => mailbox' = << >>)
          /\ UNCHANGED <<looper, fields, outputPrepared, sync, muxers>>
      BY <1>2, <1>7 DEF PrepareTests, Calls, Post, locking
    <2>2. mailbox' \in Seq(Messages)
      <3>1. << >> \in Seq(Messages) /\ <<"onPrepare">> \in Seq(Messages)
        BY DEF Messages
      <3> QED
        BY <2>1, <3>1
    <2>3. Types'
      BY <1>1, <1>2, <2>1, <2>2
      DEF arrays, news, announced, fields, Inv, Types, PreparationTypeOK, Unasked, Messages
    <2>4. OrderInv' /\ RequestInv'
      BY <1>1, <1>2, <2>1 DEF fields, Inv, OrderInv, RequestInv, Unasked, Finishing, Setup
    <2>5. PreparedInv' /\ OutputInv'
      BY <1>1, <1>2, <2>1
      DEF arrays, news, announced, fields, Inv, PreparedInv, OutputInv, Finishing
    <2> QED
      BY <1>3, <2>3, <2>4, <2>5 DEF Inv
  <1>8. CASE PrepareSetsFlag
    BY <1>1, <1>2, <1>3, <1>8
    DEF PrepareSetsFlag, Calls, preparation, arrays, news, announced, locking, Inv, Types,
        PreparationTypeOK, OrderInv, RequestInv, OutputInv, PreparedInv, Unasked, Finishing, Setup
  <1> QED
    BY <1>4, <1>5, <1>6, <1>7, <1>8 DEF Sets

GetsReady == SetHandler \/ CreateSource \/ TestFlag

LEMMA ReadyKeeps == ASSUME Inv, GetsReady PROVE Inv'
  <1>1. /\ failure = "none" /\ looper \in Setup \ {"starting"}
        /\ UNCHANGED <<arrays, news, knownAtEnd, announced, extractor, mailbox, uiMailbox, local,
                       failure, ui, dataSource, mediaOutput, prepareWhenReady, tracksSelected,
                       outputPrepared, sync, muxers>>
    BY DEF GetsReady, SetHandler, CreateSource, TestFlag, Alive, Setup, fields, locking
  <1>2. /\ mediaSource' \in {mediaSource, "withSource", "withoutSource"}
        /\ mediaSource' = "withoutSource" => mediaSource = "withoutSource" \/ ~dataSource
        /\ looper' \in {"creatingSource", "testingFlag", "preparing", "idle"}
        /\ looper' = "preparing" => prepareWhenReady
    BY DEF GetsReady, SetHandler, CreateSource, TestFlag, fields
  <1>3. extractor = "unstarted"
    BY <1>1 DEF Inv, RequestInv
  <1>4. Types'
    BY <1>1, <1>2 DEF arrays, news, announced, Inv, Types, PreparationTypeOK, Setup
  <1>5. OrderInv'
    BY <1>1, <1>2 DEF Inv, OrderInv, Setup
  <1>6. RequestInv'
    BY <1>1, <1>2, <1>3 DEF Inv, RequestInv, Setup, Finishing
  <1>7. OutputInv' /\ PreparedInv'
    BY <1>1, <1>2, <1>3
    DEF arrays, news, announced, Inv, OutputInv, PreparedInv, Setup, Finishing
  <1> QED
    BY <1>1, <1>4, <1>5, <1>6, <1>7, NoFailure DEF Inv

LEMMA PrepareKeeps == ASSUME Inv, HandlePrepare \/ OnPrepare PROVE Inv'
  <1>1. CASE HandlePrepare
    <2>1. /\ looper = "idle" /\ looper' = "preparing" /\ failure = "none"
          /\ mailbox # << >> /\ Head(mailbox) = "onPrepare" /\ mailbox' = Tail(mailbox)
          /\ UNCHANGED <<arrays, news, knownAtEnd, announced, extractor, uiMailbox, local, failure,
                         ui, fields, locking>>
      BY <1>1 DEF HandlePrepare, Receive, Alive
    <2>2. extractor = "unstarted"
      <3>1. "onPrepare" \notin Later
        BY DEF Later
      <3>2. extractor # "unstarted" => mailbox \in Seq(Later)
        BY DEF Inv, RequestInv
      <3> QED
        BY <2>1, <3>1, <3>2
    <2>3. mailbox = <<"onPrepare">> /\ mailbox' = << >> /\ ~prepareWhenReady
      <3>1. mailbox = <<"onPrepare">>
        BY <2>1, <2>2 DEF Inv, RequestInv
      <3>2. ~prepareWhenReady
        BY <2>1, <2>2 DEF Inv, RequestInv
      <3> QED
        BY <2>1, <3>1, <3>2
    <2>4. Types'
      <3>1. mailbox' \in Seq(Messages)
        BY <2>3
      <3> QED
        BY <2>1, <3>1
        DEF arrays, news, announced, fields, locking, Inv, Types, PreparationTypeOK, Messages
    <2>5. OrderInv' /\ RequestInv'
      <3>1. ui \notin Unasked
        BY <2>1 DEF Inv, RequestInv
      <3> QED
        BY <2>1, <2>2, <2>3, <3>1
        DEF fields, Inv, OrderInv, RequestInv, Finishing, Setup, Unasked
    <2>6. OutputInv' /\ PreparedInv'
      BY <2>1, <2>2 DEF arrays, news, announced, fields, locking, Inv, OutputInv, PreparedInv,
                        Finishing
    <2> QED
      BY <2>1, <2>4, <2>5, <2>6, NoFailure DEF Inv
  <1>2. CASE OnPrepare
    <2>1. /\ looper = "preparing" /\ looper' = "synchronized" /\ failure = "none"
          /\ failure' = IF mediaSource = "withoutSource" THEN "noDataSource"
                        ELSE IF extractor # "unstarted" THEN "alreadyLoading" ELSE "none"
          /\ extractor' = IF extractor = "unstarted" THEN "extracting" ELSE extractor
          /\ sync["looper"].step = "out" /\ sync'["looper"].step = "evaluating"
          /\ sync'["ui"] = sync["ui"]
          /\ sync' \in [Threads -> [step: {"out", "evaluating", "waiting", "testing", "preparing",
                                           "leaving"}, lock: BOOLEAN]]
          /\ UNCHANGED <<arrays, news, knownAtEnd, announced, mailbox, uiMailbox, local, ui, fields,
                         outputPrepared, muxers>>
      BY <1>2 DEF OnPrepare, Alive, Inv, Types, OutputInv, Threads
    <2>2. /\ extractor = "unstarted" /\ mailbox = << >> /\ ui \notin Unasked
          /\ uiMailbox = << >> /\ ~tracksSelected
      BY <2>1 DEF Inv, RequestInv
    <2>3. Types'
      BY <2>1 DEF arrays, news, announced, fields, Inv, Types, PreparationTypeOK
    <2>4. OrderInv' /\ PreparedInv'
      BY <2>1, <2>2
      DEF arrays, news, announced, fields, Inv, OrderInv, PreparedInv, Finishing, Unasked
    <2>5. RequestInv'
      <3>1. << >> \in Seq(Later) /\ << >> \in Seq({"maybeFinishPrepare"})
        OBVIOUS
      <3> QED
        BY <2>1, <2>2, <3>1 DEF fields, Inv, RequestInv, Finishing, Setup, Unasked
    <2>6. OutputInv'
      BY <2>1, <2>2 DEF fields, Inv, OutputInv, Threads
    <2>7. FailsOnlyIf'
      BY <2>1, <2>2 DEF FailsOnlyIf, Inv, OrderInv
    <2> QED
      BY <2>3, <2>4, <2>5, <2>6, <2>7 DEF Inv
  <1> QED
    BY <1>1, <1>2

-----------------------------------------------------------------------------
(* Tracks are chosen, the loop starts and ends                             *)

(* A message that was not there before preparation is a later one.         *)
LEMMA LaterReceived ==
  ASSUME Inv, NEW m \in {"selectTracks", "start"}, Receive(m)
  PROVE  /\ extractor # "unstarted" /\ tracksSelected /\ muxers = 1
         /\ mailbox' \in Seq(Later) /\ mailbox' \in Seq(Messages)
  <1>1. mailbox # << >> /\ Head(mailbox) = m /\ mailbox' = Tail(mailbox)
    BY DEF Receive
  <1>2. extractor # "unstarted"
    <2>1. mailbox # <<"onPrepare">>
      BY <1>1
    <2> QED
      BY <1>1, <2>1 DEF Inv, RequestInv
  <1>3. mailbox \in Seq(Later) /\ mailbox \in Seq(Messages)
    BY <1>2 DEF Inv, RequestInv, Types, PreparationTypeOK, Messages
  <1>4. tracksSelected
    <2>1. ASSUME ~tracksSelected PROVE FALSE
      <3>1. mailbox \in Seq({"maybeFinishPrepare"})
        BY <1>2, <2>1 DEF Inv, RequestInv
      <3> QED
        BY <1>1, <3>1
    <2> QED
      BY <2>1
  <1>5. mailbox' \in Seq(Later) /\ mailbox' \in Seq(Messages)
    BY <1>3, Received
  <1> QED
    BY <1>2, <1>4, <1>5 DEF Inv, OutputInv

(* A callback of the UI thread's may post one of the later messages.       *)
LEMMA PostsKeep ==
  ASSUME Inv, failure' = failure,
         (\E c \in Choices, form \in IdForms : SetSelectedTracks(c, form)) \/ StartTranscoder
  PROVE  Inv'
  <1> DEFINE Frame ==
               /\ ui = "waiting" /\ failure = "none" /\ uiMailbox # << >>
               /\ uiMailbox' = Tail(uiMailbox)
               /\ UNCHANGED <<arrays, news, knownAtEnd, announced, extractor, looper, local, failure,
                              ui, dataSource, mediaOutput, mediaSource, prepareWhenReady,
                              outputPrepared, sync, muxers>>
               /\ tracksSelected' = TRUE \/ tracksSelected' = tracksSelected
  <1>1. Frame
    <2>1. CASE StartTranscoder
      BY <2>1 DEF StartTranscoder, Calls, Alive, fields, locking
    <2>2. ASSUME NEW c \in Choices, NEW form \in IdForms, SetSelectedTracks(c, form) PROVE Frame
      BY <2>2 DEF SetSelectedTracks, Calls, Alive, locking
    <2> QED
      BY <2>1, <2>2
  <1>2. mailbox' = mailbox \/ (tracksSelected' /\ \E m \in {"selectTracks", "start"} : Post(m))
    <2>1. ASSUME NEW c \in Choices, NEW form \in IdForms, SetSelectedTracks(c, form)
          PROVE  tracksSelected' = TRUE /\ Post("selectTracks")
      <3>1. failure = "none"
        BY <2>1 DEF SetSelectedTracks, Calls, Alive
      <3> QED
        BY <2>1, <3>1, Zenon DEF SetSelectedTracks
    <2>2. CASE StartTranscoder
      <3>1. mailbox' = mailbox \/ (tracksSelected /\ Post("start"))
        BY <2>2, Zenon DEF StartTranscoder
      <3>2. tracksSelected' = tracksSelected
        BY <2>2 DEF StartTranscoder, fields
      <3> QED
        BY <3>1, <3>2
    <2> QED
      BY <2>1, <2>2
  <1>3. tracksSelected => tracksSelected'
    BY <1>1
  <1>4. extractor # "unstarted" /\ muxers = 1
    BY <1>1 DEF Inv, RequestInv, OutputInv
  <1>5. /\ mailbox \in Seq(Messages) /\ mailbox \in Seq(Later)
        /\ ~tracksSelected => mailbox \in Seq({"maybeFinishPrepare"})
    BY <1>4 DEF Inv, RequestInv, Types, PreparationTypeOK, Messages
  <1>6. /\ mailbox' \in Seq(Messages) /\ mailbox' \in Seq(Later) /\ (News => News')
        /\ ~tracksSelected' => mailbox' \in Seq({"maybeFinishPrepare"})
    <2>1. CASE mailbox' = mailbox
      BY <1>3, <1>5, <2>1 DEF News
    <2>2. CASE tracksSelected' /\ \E m \in {"selectTracks", "start"} : Post(m)
      <3>1. PICK m \in {"selectTracks", "start"} : Post(m)
        BY <2>2
      <3>2. m \in Messages /\ m \in Later
        BY DEF Messages, Later
      <3> QED
        BY <1>5, <2>2, <3>1, <3>2, Posted
    <2> QED
      BY <1>2, <2>1, <2>2
  <1>7. uiMailbox' \in Seq({"onPrepared", "onTracksSelected"})
    <2>1. uiMailbox \in Seq({"onPrepared", "onTracksSelected"})
      BY DEF Inv, Types, PreparationTypeOK
    <2> QED
      BY <1>1, <2>1
  <1>8. Types'
    <2>1. tracksSelected' \in BOOLEAN
      BY <1>1 DEF Inv, Types
    <2> QED
      BY <1>1, <1>6, <1>7, <2>1
      DEF arrays, news, announced, Inv, Types, PreparationTypeOK, Messages
  <1>9. OrderInv' /\ RequestInv' /\ OutputInv'
    BY <1>1, <1>4, <1>6 DEF Inv, OrderInv, RequestInv, OutputInv, Unasked
  <1>10. PreparedInv'
    BY <1>1, <1>6 DEF arrays, news, announced, Inv, PreparedInv
  <1> QED
    BY <1>1, <1>8, <1>9, <1>10, NoFailure DEF Inv

(* An exception of setSelectedTracks leaves all else as it was.            *)
LEMMA CallbackKeeps ==
  ASSUME Inv,
         (\E c \in Choices, form \in IdForms : SetSelectedTracks(c, form)) \/ StartTranscoder
  PROVE  Inv'
  <1>1. CASE failure' = failure
    BY <1>1, PostsKeep
  <1>2. CASE failure' # failure
    <2>1. /\ failure' = "noId"
          /\ UNCHANGED <<arrays, news, knownAtEnd, announced, extractor, mailbox, uiMailbox, looper,
                         local, ui, dataSource, mediaOutput, mediaSource, prepareWhenReady,
                         tracksSelected, locking>>
      BY <1>2 DEF SetSelectedTracks, StartTranscoder, Calls, Alive
    <2>2. Types'
      BY <2>1 DEF arrays, news, announced, locking, Inv, Types, PreparationTypeOK
    <2>3. OrderInv' /\ RequestInv' /\ OutputInv'
      BY <2>1 DEF locking, Inv, OrderInv, RequestInv, OutputInv
    <2>4. PreparedInv'
      BY <2>1 DEF arrays, news, announced, Inv, PreparedInv, News
    <2>5. FailsOnlyIf'
      BY <2>1 DEF FailsOnlyIf
    <2> QED
      BY <2>2, <2>3, <2>4, <2>5 DEF Inv
  <1> QED
    BY <1>1, <1>2

LEMMA RenderersKeep == ASSUME Inv, CreateRenderers PROVE Inv'
  <1>1. /\ looper = "idle" /\ failure = "none" /\ Receive("selectTracks")
        /\ failure' = IF ArraysShort THEN "arrayTooShort"
                      ELSE IF BadIndex THEN "badIndex"
                      ELSE IF muxers = 0 THEN "noMuxer" ELSE "none"
        /\ uiMailbox' = uiMailbox \/ uiMailbox' = Append(uiMailbox, "onTracksSelected")
        /\ UNCHANGED <<arrays, news, knownAtEnd, announced, extractor, looper, local, ui, fields,
                       tracksToDiscard, locking>>
    BY DEF CreateRenderers, Receive, Alive
  <1>2. /\ extractor # "unstarted" /\ tracksSelected /\ muxers = 1
        /\ mailbox' \in Seq(Later) /\ mailbox' \in Seq(Messages)
    BY <1>1, LaterReceived
  <1>3. uiMailbox' \in Seq({"onPrepared", "onTracksSelected"})
    <2>1. uiMailbox \in Seq({"onPrepared", "onTracksSelected"})
      BY DEF Inv, Types, PreparationTypeOK
    <2> QED
      BY <1>1, <2>1
  <1>4. ~ArraysShort
    BY DEF ArraysShort, Inv, PreparedInv, Types, PreparationTypeOK
  <1>5. Types'
    BY <1>1, <1>2, <1>3, <1>4
    DEF arrays, news, announced, fields, locking, Inv, Types, PreparationTypeOK, Messages
  <1>6. OrderInv' /\ RequestInv' /\ OutputInv'
    <2>1. ui \notin Unasked
      BY <1>2 DEF Inv, RequestInv
    <2> QED
      BY <1>1, <1>2, <2>1
      DEF fields, locking, Inv, OrderInv, RequestInv, OutputInv, Setup, Finishing
  <1>7. PreparedInv'
    BY <1>1 DEF arrays, news, announced, Inv, PreparedInv, Finishing
  <1>8. FailsOnlyIf'
    <2>1. failure' \in {"badIndex", "none"}
      BY <1>1, <1>2, <1>4
    <2> QED
      BY <2>1 DEF FailsOnlyIf
  <1> QED
    BY <1>5, <1>6, <1>7, <1>8 DEF Inv

LoopSteps == EndLoop \/ (\E b \in BOOLEAN : LeaveLoop(b)) \/ StopTests \/ StopClears

LEMMA LoopKeeps == ASSUME Inv, LoopInv, AssignLoop \/ StartLoop \/ LoopSteps PROVE Inv'
  <1>1. CASE AssignLoop
    <2>1. /\ looper = "idle" /\ looper' = "startingLoop" /\ failure = "none" /\ Receive("start")
          /\ UNCHANGED <<arrays, news, knownAtEnd, announced, extractor, uiMailbox, local,
                         failure, ui, dataSource, mediaOutput, mediaSource, prepareWhenReady,
                         tracksSelected, locking>>
      BY <1>1 DEF AssignLoop, Receive, Alive
    <2>2. /\ extractor # "unstarted" /\ tracksSelected /\ muxers = 1
          /\ mailbox' \in Seq(Later) /\ mailbox' \in Seq(Messages)
      BY <2>1, LaterReceived
    <2>3. ui \notin Unasked
      BY <2>2 DEF Inv, RequestInv
    <2>4. Types'
      BY <2>1, <2>2 DEF arrays, news, announced, locking, Inv, Types, PreparationTypeOK, Messages
    <2>5. OrderInv' /\ RequestInv' /\ OutputInv'
      BY <2>1, <2>2, <2>3
      DEF locking, Inv, OrderInv, RequestInv, OutputInv, Setup, Finishing, Unasked
    <2>6. PreparedInv'
      BY <2>1 DEF arrays, news, announced, Inv, PreparedInv, Finishing
    <2> QED
      BY <2>1, <2>4, <2>5, <2>6, NoFailure DEF Inv
  <1>3. CASE StartLoop
    <2>1. /\ looper = "startingLoop" /\ looper' = "idle" /\ failure = "none"
          /\ failure' = IF decodeEncodeStreams THEN "none" ELSE "noLoop"
          /\ UNCHANGED <<arrays, news, knownAtEnd, announced, extractor, mailbox, uiMailbox, local,
                         ui, fields, locking, stops>>
      BY <1>3 DEF StartLoop, Alive
    <2>2. Types'
      BY <2>1 DEF arrays, news, announced, fields, locking, Inv, Types, PreparationTypeOK
    <2>3. OrderInv' /\ RequestInv' /\ OutputInv'
      BY <2>1
      DEF fields, locking, Inv, OrderInv, RequestInv, OutputInv, Setup, Finishing, Unasked
    <2>4. PreparedInv'
      BY <2>1 DEF arrays, news, announced, Inv, PreparedInv, Finishing
    <2>5. FailsOnlyIf'
      BY <2>1 DEF FailsOnlyIf, LoopInv
    <2> QED
      BY <2>2, <2>3, <2>4, <2>5 DEF Inv
  <1>2. CASE LoopSteps
    <2>1. /\ failure = "none"
          /\ UNCHANGED <<arrays, news, knownAtEnd, announced, extractor, mailbox, uiMailbox, looper,
                         local, failure, fields, locking>>
          /\ ui' = ui \/ (ui \in {"waiting", "clearing"} /\ ui' \in {"waiting", "clearing"})
      BY <1>2 DEF LoopSteps, EndLoop, LeaveLoop, StopTests, StopClears, Calls, Alive, preparation
    <2>2. Types'
      BY <2>1 DEF arrays, news, announced, fields, locking, Inv, Types, PreparationTypeOK
    <2>3. OrderInv' /\ RequestInv' /\ OutputInv'
      BY <2>1 DEF fields, locking, Inv, OrderInv, RequestInv, OutputInv, Unasked
    <2>4. PreparedInv'
      <3>1. News => News'
        BY <2>1 DEF News
      <3> QED
        BY <2>1, <3>1 DEF arrays, news, announced, Inv, PreparedInv
    <2> QED
      BY <2>1, <2>2, <2>3, <2>4, NoFailure DEF Inv
  <1> QED
    BY <1>1, <1>2, <1>3

-----------------------------------------------------------------------------
LEMMA InitInv == Init => Inv
  <1> SUFFICES ASSUME Init PROVE Inv
    OBVIOUS
  <1>1. << >> \in Seq(Messages) /\ << >> \in Seq({"onPrepared", "onTracksSelected"})
    OBVIOUS
  <1>2. PreparationInit
    BY DEF Init
  <1>3. Types
    <2>1. PreparationTypeOK
      <3>1. 0 \in 0 .. NumTracks
        BY TracksAssumption
      <3>2. local \in [seekMap: BOOLEAN, trackCount: 0 .. NumTracks]
        BY <1>2, <3>1 DEF PreparationInit
      <3>3. mailbox \in Seq(Messages) /\ uiMailbox \in Seq({"onPrepared", "onTracksSelected"})
        BY <1>1, <1>2 DEF PreparationInit
      <3> QED
        BY <1>2, <3>1, <3>2, <3>3 DEF PreparationInit, PreparationTypeOK, Messages
    <2>2. sync \in [Threads -> [step: {"out", "evaluating", "waiting", "testing", "preparing",
                                      "leaving"}, lock: BOOLEAN]]
      BY DEF Init
    <2>3. /\ looper = "starting" /\ failure = "none" /\ ui \in Unasked
          /\ mediaSource = "null" /\ ~dataSource /\ ~mediaOutput /\ ~prepareWhenReady
      BY <1>2 DEF Init, PreparationInit, Unasked
    <2> QED
      BY <2>1, <2>2, <2>3 DEF Init, Types, Setup
  <1>4. OrderInv /\ RequestInv
    BY <1>2 DEF Init, PreparationInit, OrderInv, RequestInv, Setup, Finishing
  <1>5. OutputInv /\ PreparedInv
    BY <1>2 DEF Init, PreparationInit, OutputInv, PreparedInv, Threads, Finishing
  <1>6. FailsOnlyIf
    BY <1>2 DEF PreparationInit, FailsOnlyIf
  <1> QED
    BY <1>3, <1>4, <1>5, <1>6 DEF Inv

LEMMA NextLoopInv == LoopInv /\ [Next]_vars => LoopInv'
  <1> SUFFICES ASSUME LoopInv, [Next]_vars PROVE LoopInv'
    OBVIOUS
  <1> USE TranscoderAssumption
  <1>1. CASE StopTests
    BY <1>1 DEF StopTests, LoopInv, preparation
  <1>2. CASE StopClears
    BY <1>2 DEF StopClears, Calls, LoopInv, preparation
  <1>3. CASE AssignLoop
    BY <1>3 DEF AssignLoop, LoopInv
  <1>4. ASSUME UNCHANGED <<stops, decodeEncodeStreams>>, ui' = "clearing" => ui = "clearing",
               looper' = "startingLoop" => looper = "startingLoop"
        PROVE  LoopInv'
    BY <1>4 DEF LoopInv
  <1>5. CASE Sets \/ GetsReady \/ HandlePrepare \/ OnPrepare
    BY <1>4, <1>5 DEF Sets, SetDataSource, Start, SetOutputSource, PrepareTests, PrepareSetsFlag,
                      GetsReady, SetHandler, CreateSource, TestFlag, HandlePrepare, OnPrepare,
                      preparation, loop
  <1>6. CASE \E th \in Threads : SyncNext(th)
    BY <1>4, <1>6 DEF SyncNext, ReadLock, EnterLock, TestOutput, PrepareOutput, LeaveLock,
                      preparation, loop
  <1>7. CASE (\E c \in Choices, form \in IdForms : SetSelectedTracks(c, form)) \/ StartTranscoder
             \/ CreateRenderers
    BY <1>4, <1>7 DEF SetSelectedTracks, StartTranscoder, CreateRenderers, loop
  <1>8. CASE (FinishNext \/ ExtractorNext) /\ UNCHANGED LifeCycle
    BY <1>4, <1>8 DEF FinishNext, ReadSeekMap, TestState, TestFormats, CountTracks, FinishPrepare,
                      ExtractorNext, Track, AddReader, AddQueue, OnUpstreamFormatChanged, EndTracks,
                      EndTracksAgain, SeekMap, LifeCycle, loop
  <1>9. CASE StartLoop \/ EndLoop \/ (\E b \in BOOLEAN : LeaveLoop(b)) \/ UNCHANGED vars
    BY <1>4, <1>9 DEF StartLoop, EndLoop, LeaveLoop, vars, preparation, loop
  <1> QED
    BY <1>1, <1>2, <1>3, <1>5, <1>6, <1>7, <1>8, <1>9
    DEF Next, UINext, LooperNext, LoopNext, Sets, GetsReady, Threads

LEMMA NextInv == Inv /\ LoopInv /\ [Next]_vars => Inv'
  <1> SUFFICES ASSUME Inv, LoopInv, [Next]_vars PROVE Inv'
    OBVIOUS
  <1>1. CASE UNCHANGED vars
    <2>1. UNCHANGED <<preparation, ui, fields, locking, stops>>
      BY <1>1 DEF vars, loop
    <2>2. Types'
      BY <2>1
      DEF preparation, arrays, news, announced, fields, locking, Inv, Types, PreparationTypeOK
    <2>3. OrderInv' /\ RequestInv' /\ OutputInv'
      BY <2>1 DEF preparation, fields, locking, Inv, OrderInv, RequestInv, OutputInv
    <2>4. PreparedInv'
      BY <2>1 DEF preparation, arrays, news, announced, Inv, PreparedInv, News
    <2>5. FailsOnlyIf'
      BY <2>1 DEF preparation, arrays, news, Inv, FailsOnlyIf, TrackCameLate
    <2> QED
      BY <2>2, <2>3, <2>4, <2>5 DEF Inv
  <1>2. CASE UINext
    BY <1>2, SetupKeeps, SyncKeeps, CallbackKeeps, LoopKeeps
    DEF UINext, Sets, LoopSteps, Threads
  <1>3. CASE LooperNext
    BY <1>3, ReadyKeeps, PrepareKeeps, SyncKeeps, FinishKeeps, RenderersKeep, LoopKeeps
    DEF LooperNext, GetsReady, Threads
  <1>4. CASE LoopNext \/ LeaveLoop(TRUE) \/ StopTests
    BY <1>4, LoopKeeps DEF LoopNext, LoopSteps
  <1>5. CASE ExtractorNext /\ UNCHANGED LifeCycle
    BY <1>5, ExtractorKeeps
  <1> QED
    BY <1>1, <1>2, <1>3, <1>4, <1>5 DEF Next

-----------------------------------------------------------------------------
(* Recursion and induction: the least number principle, an induction that *)
(* is about a set, and a recursion whose step is a function.               *)

LEMMA Least == ASSUME NEW T, T \subseteq Nat, T # {} PROVE \E m \in T : \A t \in T : m <= t
  <1> DEFINE upTo == {0 .. t : t \in T}
  <1>1. upTo \subseteq FiniteSubsetsOf(Nat) /\ upTo # {}
    <2>1. ASSUME NEW t \in T PROVE 0 .. t \in FiniteSubsetsOf(Nat)
      BY FS_Interval DEF FiniteSubsetsOf
    <2> QED
      BY <2>1
  <1>2. PICK x \in upTo : \A y \in upTo : ~(<<y, x>> \in StrictSubsetOrdering(Nat))
    <2>1. IsWellFoundedOn(StrictSubsetOrdering(Nat), FiniteSubsetsOf(Nat))
      BY FS_StrictSubsetOrderingWellFounded
    <2> HIDE DEF upTo
    <2> QED
      BY <1>1, <2>1, WFMin
  <1>3. PICK m \in T : x = 0 .. m
    BY <1>2
  <1>4. ASSUME NEW t \in T, t < m PROVE FALSE
    <2>1. <<0 .. t, 0 .. m>> \notin StrictSubsetOrdering(Nat)
      BY <1>2, <1>3
    <2>2. 0 .. t \in SUBSET Nat /\ 0 .. m \in SUBSET Nat
      OBVIOUS
    <2>3. ~(0 .. t \subseteq 0 .. m /\ 0 .. t # 0 .. m)
      BY <2>1, <2>2 DEF StrictSubsetOrdering
    <2>4. 0 .. t \subseteq 0 .. m /\ m \notin 0 .. t /\ m \in 0 .. m
      BY <1>4
    <2> QED
      BY <2>3, <2>4
  <1> QED
    BY <1>4

LEMMA Induction ==
  ASSUME NEW n \in Nat, NEW S, 0 \in S, \A i \in 1 .. n : i - 1 \in S => i \in S
  PROVE  \A i \in 0 .. n : i \in S
  <1> DEFINE T == (0 .. n) \ S
  <1> SUFFICES ASSUME T # {} PROVE FALSE
    OBVIOUS
  <1>1. PICK m \in T : \A t \in T : m <= t
    <2>1. T \subseteq Nat
      OBVIOUS
    <2> HIDE DEF T
    <2> QED
      BY <2>1, Least
  <1>2. m \in 1 .. n /\ m - 1 \in 0 .. n /\ m - 1 \in S
    BY <1>1
  <1> QED
    BY <1>1, <1>2

Steps(X, n) == [X \X (1 .. n) -> X]
IsIteration(f, X, n, x, step) ==
  f \in [0 .. n -> X] /\ f[0] = x /\ \A i \in 1 .. n : f[i] = step[<<f[i - 1], i>>]

(* A function can be defined step by step, from a step that is a function. *)
LEMMA Recursion ==
  ASSUME NEW n \in Nat, NEW X, NEW x \in X, NEW step \in Steps(X, n)
  PROVE  \E f : IsIteration(f, X, n, x, step)
  <1> DEFINE Is(f, m) == f[0] = x /\ \A i \in 1 .. m : f[i] = step[<<f[i - 1], i>>]
             S == {m \in 0 .. n : \E f \in [0 .. m -> X] : Is(f, m)}
  <1>1. 0 \in S
    <2> DEFINE f == [i \in 0 .. 0 |-> x]
    <2>1. f \in [0 .. 0 -> X] /\ Is(f, 0)
      OBVIOUS
    <2>2. 0 \in 0 .. n
      OBVIOUS
    <2> HIDE DEF f
    <2> QED
      BY <2>1, <2>2
  <1>2. ASSUME NEW m \in 1 .. n, m - 1 \in S PROVE m \in S
    <2>1. PICK f \in [0 .. m - 1 -> X] : Is(f, m - 1)
      BY <1>2
    <2> DEFINE y == step[<<f[m - 1], m>>]
               g == [i \in 0 .. m |-> IF i = m THEN y ELSE f[i]]
    <2>2. y \in X
      BY <2>1 DEF Steps
    <2> HIDE DEF y
    <2>3. g \in [0 .. m -> X] /\ g[0] = x /\ g[m] = y /\ \A i \in 0 .. m - 1 : g[i] = f[i]
      BY <2>1, <2>2
    <2> HIDE DEF g
    <2>4. Is(g, m)
      <3>1. ASSUME NEW i \in 1 .. m PROVE g[i] = step[<<g[i - 1], i>>]
        <4>1. CASE i = m
          BY <2>3, <4>1 DEF y
        <4>2. CASE i # m
          BY <2>1, <2>3, <4>2
        <4> QED
          BY <4>1, <4>2
      <3> QED
        BY <2>3, <3>1
    <2> QED
      BY <2>3, <2>4
  <1>3. n \in S
    <2> HIDE DEF S
    <2> QED
      BY <1>1, <1>2, Induction
  <1> QED
    BY <1>3 DEF IsIteration

-----------------------------------------------------------------------------
(* Lists of tracks                                                         *)

LEMMA SeqInto ==
  ASSUME NEW S, NEW T, NEW s \in Seq(S), \A m \in DOMAIN s : s[m] \in T
  PROVE  s \in Seq(T)
  <1>1. Len(s) \in Nat /\ s \in [1 .. Len(s) -> T]
    OBVIOUS
  <1>2. \E n \in Nat : s \in [1 .. n -> T]
    BY <1>1
  <1>3. Seq(T) = UNION {[1 .. n -> T] : n \in Nat}
    BY SeqDef
  <1> QED
    BY <1>2, <1>3, Zenon

(* The cursor j of a list is at the first track behind track i.            *)
Passed(list, j, i) ==
  \A m \in DOMAIN list : (m < j => list[m] <= i) /\ (m >= j => list[m] > i)

LEMMA CursorMoves ==
  ASSUME NEW list \in Seq(Nat), Ordered(list), NEW j \in Nat \ {0}, NEW i \in Nat \ {0},
         Passed(list, j, i - 1)
  PROVE  /\ (j <= Len(list) /\ list[j] = i) <=> i \in Named(list)
         /\ i \in Named(list) => Passed(list, j + 1, i)
         /\ i \notin Named(list) => Passed(list, j, i)
  <1>1. Len(list) \in Nat /\ DOMAIN list = 1 .. Len(list) /\ \A m \in DOMAIN list : list[m] \in Nat
    OBVIOUS
  <1>2. j <= Len(list) /\ list[j] = i => i \in Named(list)
    BY <1>1 DEF Named
  <1>3. i \in Named(list) => j <= Len(list) /\ list[j] = i
    <2>1. ASSUME NEW m \in DOMAIN list, list[m] = i PROVE j <= Len(list) /\ list[j] = i
      <3>1. m >= j
        BY <1>1, <2>1 DEF Passed
      <3>2. j \in DOMAIN list
        BY <1>1, <3>1
      <3>3. list[j] > i - 1
        BY <3>2 DEF Passed
      <3>4. j < m => list[j] < list[m]
        BY <3>2 DEF Ordered
      <3> QED
        BY <1>1, <2>1, <3>1, <3>2, <3>3, <3>4
    <2> QED
      BY <2>1 DEF Named
  <1>4. i \in Named(list) => Passed(list, j + 1, i)
    <2>1. ASSUME i \in Named(list), NEW m \in DOMAIN list
          PROVE  (m < j + 1 => list[m] <= i) /\ (m >= j + 1 => list[m] > i)
      <3>1. j \in DOMAIN list /\ list[j] = i
        BY <1>1, <1>3, <2>1
      <3>2. (m < j => list[m] <= i - 1) /\ (j < m => list[j] < list[m])
        BY <3>1 DEF Passed, Ordered
      <3> QED
        BY <1>1, <3>1, <3>2
    <2> QED
      BY <2>1 DEF Passed
  <1>5. i \notin Named(list) => Passed(list, j, i)
    <2>1. ASSUME i \notin Named(list), NEW m \in DOMAIN list
          PROVE  (m < j => list[m] <= i) /\ (m >= j => list[m] > i)
      <3>1. list[m] # i
        BY <2>1 DEF Named
      <3>2. (m < j => list[m] <= i - 1) /\ (m >= j => list[m] > i - 1)
        BY DEF Passed
      <3> QED
        BY <1>1, <3>1, <3>2
    <2> QED
      BY <2>1 DEF Passed
  <1> QED
    BY <1>2, <1>3, <1>4, <1>5

LEMMA ListGrows ==
  ASSUME NEW list \in Seq(Nat), NEW T, ListsAll(list, T), NEW i \in Nat, \A t \in T : t < i
  PROVE  ListsAll(Append(list, i), T \cup {i})
  <1> DEFINE more == Append(list, i)
             n == Len(list)
  <1>1. /\ n \in Nat /\ DOMAIN list = 1 .. n /\ DOMAIN more = 1 .. n + 1
        /\ \A m \in 1 .. n : more[m] = list[m] /\ list[m] \in Nat
        /\ more[n + 1] = i
    OBVIOUS
  <1>2. \A m \in DOMAIN list : list[m] < i
    BY DEF ListsAll, Named
  <1>3. \A l, m \in DOMAIN list : l < m => list[l] < list[m]
    BY DEF ListsAll, Ordered
  <1> HIDE DEF more, n
  <1>4. Ordered(more)
    <2>1. ASSUME NEW l \in DOMAIN more, NEW m \in DOMAIN more, l < m PROVE more[l] < more[m]
      <3>1. l \in 1 .. n
        BY <1>1, <2>1
      <3>2. m = n + 1 \/ m \in 1 .. n
        BY <1>1
      <3> QED
        BY <1>1, <1>2, <1>3, <2>1, <3>1, <3>2
    <2> QED
      BY <2>1 DEF Ordered
  <1>5. Named(more) = T \cup {i}
    <2>1. Named(list) = T
      BY DEF ListsAll
    <2>2. Named(list) \subseteq Named(more) /\ i \in Named(more)
      BY <1>1 DEF Named
    <2>3. Named(more) \subseteq Named(list) \cup {i}
      <3>1. ASSUME NEW m \in 1 .. n + 1 PROVE m \in 1 .. n \/ m = n + 1
        BY <1>1
      <3> QED
        BY <1>1, <3>1 DEF Named
    <2> QED
      BY <2>1, <2>2, <2>3
  <1> QED
    BY <1>4, <1>5 DEF ListsAll, more

LEMMA ListLength ==
  ASSUME NEW list \in Seq(Nat), NEW T, ListsAll(list, T)
  PROVE  IsFiniteSet(T) /\ Cardinality(T) = Len(list)
  <1>1. /\ Len(list) \in Nat /\ DOMAIN list = 1 .. Len(list)
        /\ list \in [1 .. Len(list) -> Nat]
    OBVIOUS
  <1>2. \A l, m \in 1 .. Len(list) : list[l] = list[m] => l = m
    BY <1>1 DEF ListsAll, Ordered
  <1>3. \A t : t \in T <=> \E m \in 1 .. Len(list) : list[m] = t
    BY <1>1 DEF ListsAll, Named
  <1>4. list \in Bijection(1 .. Len(list), T)
    <2>1. list \in [1 .. Len(list) -> T]
      BY <1>1, <1>3
    <2>2. list \in Injection(1 .. Len(list), T)
      BY <1>1, <1>2, <2>1 DEF Injection, IsInjective
    <2>3. list \in Surjection(1 .. Len(list), T)
      BY <1>3, <2>1 DEF Surjection
    <2> QED
      BY <2>2, <2>3 DEF Bijection
  <1>5. ExistsBijection(1 .. Len(list), T)
    BY <1>4 DEF ExistsBijection
  <1> QED
    BY <1>1, <1>5, FS_CountingElements, FS_NatBijection

LEMMA OfTracks ==
  ASSUME NEW list \in Seq(1 .. NumTracks)
  PROVE  /\ list \in Seq(Nat) /\ Len(list) \in Nat /\ DOMAIN list = 1 .. Len(list)
         /\ \A m \in DOMAIN list : list[m] \in 1 .. NumTracks /\ list[m] \in Nat \ {0}
  <1>1. 1 .. NumTracks \subseteq Nat \ {0}
    BY TracksAssumption
  <1> DEFINE T == 1 .. NumTracks
  <1> HIDE DEF T
  <1>2. list \in Seq(T) /\ T \subseteq Nat \ {0}
    BY <1>1 DEF T
  <1>3. \A m \in DOMAIN list : list[m] \in T /\ list[m] \in Nat \ {0}
    <2>1. list \in [1 .. Len(list) -> T] /\ DOMAIN list = 1 .. Len(list)
      BY <1>2
    <2>2. \A m \in DOMAIN list : list[m] \in T
      BY <2>1
    <2> QED
      BY <1>2, <2>2
  <1>4. Len(list) \in Nat /\ DOMAIN list = 1 .. Len(list)
    BY <1>2
  <1>5. list \in Seq(Nat)
    BY <1>2, <1>3, SeqInto
  <1> QED
    BY <1>3, <1>4, <1>5 DEF T

LEMMA NextIs ==
  ASSUME NEW list \in Seq(1 .. NumTracks), NEW n \in Nat \ {0}, NEW i \in 1 .. NumTracks
  PROVE  IsNext(list, n, i) <=> n <= Len(list) /\ list[n] = i
  <1>1. ASSUME n <= Len(list) PROVE list[n] \in 1 .. NumTracks
    BY <1>1, OfTracks
  <1> QED
    BY <1>1, TranscoderAssumption DEF IsNext

LEMMA IdsGrow ==
  ASSUME NEW d \in Seq(Nat), NEW T, ListsIds(d, T), NEW i \in 1 .. NumTracks,
         \A t \in T : t < i
  PROVE  ListsIds(Append(d, Ids[i]), T \cup {i})
  <1>1. PICK s \in Seq(1 .. NumTracks) : ListsAll(s, T) /\ AreIds(d, s)
    BY DEF ListsIds
  <1>2. /\ Len(s) \in Nat /\ Len(d) = Len(s) /\ \A m \in 1 .. Len(s) : d[m] = Ids[s[m]]
        /\ s \in Seq(Nat) /\ i \in Nat
    BY <1>1, OfTracks, TracksAssumption DEF AreIds
  <1>5. Append(s, i) \in Seq(1 .. NumTracks)
    <2> DEFINE S == 1 .. NumTracks
    <2>1. s \in Seq(S) /\ i \in S
      OBVIOUS
    <2> HIDE DEF S
    <2>2. Append(s, i) \in Seq(S)
      BY <2>1
    <2> QED
      BY <2>2 DEF S
  <1>3. ListsAll(Append(s, i), T \cup {i})
    BY <1>1, <1>2, ListGrows
  <1>4. AreIds(Append(d, Ids[i]), Append(s, i))
    <2>1. /\ Len(Append(d, Ids[i])) = Len(s) + 1 /\ Len(Append(s, i)) = Len(s) + 1
          /\ \A m \in 1 .. Len(s) : Append(d, Ids[i])[m] = d[m] /\ Append(s, i)[m] = s[m]
          /\ Append(d, Ids[i])[Len(s) + 1] = Ids[i] /\ Append(s, i)[Len(s) + 1] = i
      BY <1>2
    <2>2. \A m \in 1 .. Len(s) + 1 : m \in 1 .. Len(s) \/ m = Len(s) + 1
      BY <1>2
    <2> QED
      BY <1>2, <2>1, <2>2 DEF AreIds
  <1> QED
    BY <1>3, <1>4, <1>5 DEF ListsIds

LEMMA StateAdded ==
  ASSUME NEW states \in Seq(States), NEW s \in States
  PROVE  InState(Append(states, s), "DISCARD") =
           InState(states, "DISCARD") \cup (IF s = "DISCARD" THEN {Len(states) + 1} ELSE {})
  <1> DEFINE more == Append(states, s)
             n == Len(states)
  <1>1. /\ n \in Nat /\ DOMAIN states = 1 .. n /\ DOMAIN more = 1 .. n + 1
        /\ \A m \in 1 .. n : more[m] = states[m]
        /\ more[n + 1] = s
    OBVIOUS
  <1> HIDE DEF more, n
  <1>2. \A m \in 1 .. n + 1 : m \in 1 .. n \/ m = n + 1
    BY <1>1
  <1>3. 1 .. n \subseteq 1 .. n + 1 /\ n + 1 \in 1 .. n + 1
    BY <1>1
  <1>4. InState(more, "DISCARD") = InState(states, "DISCARD")
                                     \cup (IF s = "DISCARD" THEN {n + 1} ELSE {})
    BY <1>1, <1>2, <1>3 DEF InState
  <1> QED
    BY <1>4 DEF more, n

-----------------------------------------------------------------------------
(* setSelectedTracks: how the tracks are split                             *)

Part == [j: Nat \ {0}, k: Nat \ {0}, states: Seq(States), discards: Seq(Nat)]

LEMMA SplitStep ==
  ASSUME NEW p \in Part, NEW c, NEW i \in 1 .. NumTracks
  PROVE  SplitTrack(p, c, i) \in Part
  <1>1. /\ p.states \in Seq(States) /\ p.discards \in Seq(Nat)
        /\ p.j \in Nat \ {0} /\ p.k \in Nat \ {0}
    BY DEF Part
  <1>2. Append(p.states, "SELECTED") \in Seq(States) /\ Append(p.states, "DISCARD") \in Seq(States)
        /\ Append(p.states, "PASSTHROUGH") \in Seq(States)
        /\ Append(p.discards, Ids[i]) \in Seq(Nat)
    BY <1>1, TranscoderAssumption DEF States
  <1> QED
    BY <1>1, <1>2 DEF SplitTrack, Part

IsSplit(part, c, n) ==
  /\ part[0] = [j |-> 1, k |-> 1, states |-> << >>, discards |-> << >>]
  /\ \A i \in 1 .. n : part[i] = SplitTrack(part[i - 1], c, i)

LEMMA SplitIs ==
  ASSUME NEW c, preparedTracks \in 0 .. NumTracks
  PROVE  \E part : IsSplit(part, c, preparedTracks) /\ Split(c) = part[preparedTracks]
  <1> DEFINE n == preparedTracks
             first == [j |-> 1, k |-> 1, states |-> << >>, discards |-> << >>]
             Parts(f) == [i \in 0 .. n |-> IF i = 0 THEN first ELSE SplitTrack(f[i - 1], c, i)]
             step == [q \in Part \X (1 .. n) |-> SplitTrack(q[1], c, q[2])]
  <1>1. first \in Part
    BY DEF Part
  <1>2. step \in Steps(Part, n)
    BY SplitStep, TracksAssumption DEF Steps
  <1>3. \E f : f = Parts(f)
    <2>0. PICK f : IsIteration(f, Part, n, first, step)
      <3>1. n \in Nat
        BY TracksAssumption
      <3> HIDE DEF first, step, n
      <3> QED
        BY <1>1, <1>2, <3>1, Recursion
    <2>1. /\ f \in [0 .. n -> Part] /\ f[0] = first
          /\ \A i \in 1 .. n : f[i] = step[<<f[i - 1], i>>]
      BY <2>0 DEF IsIteration
    <2>2. ASSUME NEW i \in 0 .. n PROVE f[i] = Parts(f)[i]
      <3>1. CASE i = 0
        BY <2>1, <3>1
      <3>2. CASE i # 0
        <4>1. i \in 1 .. n /\ f[i - 1] \in Part
          BY <2>1, <3>2
        <4>2. step[<<f[i - 1], i>>] = SplitTrack(f[i - 1], c, i)
          BY <4>1
        <4> QED
          BY <2>1, <3>2, <4>1, <4>2
      <3> QED
        BY <3>1, <3>2
    <2> QED
      BY <2>1, <2>2
  <1> DEFINE part == CHOOSE f : f = Parts(f)
  <1>4. part = Parts(part)
    BY <1>3
  <1>5. Split(c) = part[n]
    BY DEF Split
  <1> HIDE DEF part
  <1>6. IsSplit(part, c, n)
    BY <1>4 DEF IsSplit
  <1> QED
    BY <1>5, <1>6

(* What is known of the split after i tracks.                              *)
Good(c, p, i) ==
  /\ p \in Part /\ Len(p.states) = i
  /\ ListsIds(p.discards, InState(p.states, "DISCARD"))
  /\ IsSorted(c) => /\ Passed(c.selected, p.j, i) /\ Passed(c.discarded, p.k, i)
                    /\ \A m \in 1 .. i : p.states[m] = Expected(c, m)

IsChoice(c) ==
  /\ c.selected \in Seq(1 .. NumTracks) /\ c.discarded \in Seq(1 .. NumTracks)
  /\ Named(c.selected) \cap Named(c.discarded) = {}

LEMMA SplitGoesOn ==
  ASSUME NEW c, IsChoice(c), NEW i \in 1 .. NumTracks, NEW p, Good(c, p, i - 1)
  PROVE  Good(c, SplitTrack(p, c, i), i)
  <1> DEFINE hit == IsNext(c.selected, p.j, i)
             drop == ~hit /\ IsNext(c.discarded, p.k, i)
             state == IF hit THEN "SELECTED" ELSE IF drop THEN "DISCARD" ELSE "PASSTHROUGH"
             q == SplitTrack(p, c, i)
  <1>1. /\ p \in Part /\ Len(p.states) = i - 1
        /\ ListsIds(p.discards, InState(p.states, "DISCARD"))
        /\ p.states \in Seq(States) /\ p.discards \in Seq(Nat)
        /\ p.j \in Nat \ {0} /\ p.k \in Nat \ {0}
    BY DEF Good, Part
  <1>2. q \in Part
    BY <1>1, SplitStep
  <1>3. /\ q.states = Append(p.states, state)
        /\ q.discards = IF drop THEN Append(p.discards, Ids[i]) ELSE p.discards
        /\ q.j = IF hit THEN p.j + 1 ELSE p.j
        /\ q.k = IF drop THEN p.k + 1 ELSE p.k
    BY DEF SplitTrack
  <1>4. state \in States /\ (state = "DISCARD" <=> drop)
    BY DEF States
  <1>5. hit => ~drop
    OBVIOUS
  <1> HIDE DEF q
  <1>6. /\ DOMAIN p.states = 1 .. i - 1 /\ DOMAIN q.states = 1 .. i /\ Len(q.states) = i
        /\ \A m \in 1 .. i - 1 : q.states[m] = p.states[m]
        /\ q.states[i] = state
    <2> HIDE DEF state
    <2> QED
      BY <1>1, <1>3, <1>4
  <1>7. ListsIds(q.discards, InState(q.states, "DISCARD"))
    <2>1. InState(q.states, "DISCARD") =
            InState(p.states, "DISCARD") \cup (IF drop THEN {i} ELSE {})
      <3> HIDE DEF state, drop
      <3> QED
        BY <1>1, <1>3, <1>4, StateAdded
    <2>2. \A m \in InState(p.states, "DISCARD") : m < i
      BY <1>6 DEF InState
    <2> HIDE DEF drop
    <2>3. CASE drop
      <3>1. ListsIds(Append(p.discards, Ids[i]), InState(p.states, "DISCARD") \cup {i})
        BY <1>1, <2>2, IdsGrow
      <3> QED
        BY <1>3, <2>1, <2>3, <3>1
    <2>4. CASE ~drop
      BY <1>1, <1>3, <2>1, <2>4
    <2> QED
      BY <2>3, <2>4
  <1>8. ASSUME IsSorted(c)
        PROVE  /\ Passed(c.selected, q.j, i) /\ Passed(c.discarded, q.k, i)
               /\ \A m \in 1 .. i : q.states[m] = Expected(c, m)
    <2>0. /\ c.selected \in Seq(1 .. NumTracks) /\ c.discarded \in Seq(1 .. NumTracks)
          /\ i \in Nat \ {0}
      BY TracksAssumption DEF IsChoice
    <2>1. /\ c.selected \in Seq(Nat) /\ c.discarded \in Seq(Nat)
          /\ Ordered(c.selected) /\ Ordered(c.discarded)
          /\ Named(c.selected) \cap Named(c.discarded) = {}
          /\ Passed(c.selected, p.j, i - 1) /\ Passed(c.discarded, p.k, i - 1)
          /\ \A m \in 1 .. i - 1 : p.states[m] = Expected(c, m)
      BY <1>8, <2>0, OfTracks DEF IsSorted, IsChoice, Good
    <2>2. /\ hit <=> i \in Named(c.selected)
          /\ i \in Named(c.selected) => Passed(c.selected, p.j + 1, i)
          /\ i \notin Named(c.selected) => Passed(c.selected, p.j, i)
      <3>1. IsNext(c.selected, p.j, i) <=> p.j <= Len(c.selected) /\ c.selected[p.j] = i
        BY <1>1, <2>0, NextIs
      <3>2. /\ p.j <= Len(c.selected) /\ c.selected[p.j] = i <=> i \in Named(c.selected)
            /\ i \in Named(c.selected) => Passed(c.selected, p.j + 1, i)
            /\ i \notin Named(c.selected) => Passed(c.selected, p.j, i)
        BY <1>1, <2>0, <2>1, CursorMoves
      <3> QED
        BY <3>1, <3>2
    <2>3. /\ IsNext(c.discarded, p.k, i) <=> i \in Named(c.discarded)
          /\ i \in Named(c.discarded) => Passed(c.discarded, p.k + 1, i)
          /\ i \notin Named(c.discarded) => Passed(c.discarded, p.k, i)
      <3>1. IsNext(c.discarded, p.k, i) <=> p.k <= Len(c.discarded) /\ c.discarded[p.k] = i
        BY <1>1, <2>0, NextIs
      <3>2. /\ p.k <= Len(c.discarded) /\ c.discarded[p.k] = i <=> i \in Named(c.discarded)
            /\ i \in Named(c.discarded) => Passed(c.discarded, p.k + 1, i)
            /\ i \notin Named(c.discarded) => Passed(c.discarded, p.k, i)
        BY <1>1, <2>0, <2>1, CursorMoves
      <3> QED
        BY <3>1, <3>2
    <2>4. drop <=> i \in Named(c.discarded)
      BY <2>1, <2>2, <2>3
    <2>5. state = Expected(c, i)
      BY <2>2, <2>4 DEF Expected
    <2>6. Passed(c.selected, q.j, i) /\ Passed(c.discarded, q.k, i)
      BY <1>3, <2>2, <2>3, <2>4
    <2>7. \A m \in 1 .. i : q.states[m] = Expected(c, m)
      <3>1. \A m \in 1 .. i : m \in 1 .. i - 1 \/ m = i
        OBVIOUS
      <3> QED
        BY <1>6, <2>1, <2>5, <3>1
    <2> QED
      BY <2>6, <2>7
  <1> QED
    BY <1>2, <1>6, <1>7, <1>8 DEF Good, q

LEMMA SplitBegins ==
  ASSUME NEW c, IsChoice(c)
  PROVE  Good(c, [j |-> 1, k |-> 1, states |-> << >>, discards |-> << >>], 0)
  <1> DEFINE first == [j |-> 1, k |-> 1, states |-> << >>, discards |-> << >>]
  <1>1. /\ first \in Part /\ Len(first.states) = 0 /\ first.discards = << >>
        /\ first.j = 1 /\ first.k = 1
    BY DEF Part
  <1>2. InState(first.states, "DISCARD") = {} /\ ListsIds(<< >>, {})
    <2>1. << >> \in Seq(1 .. NumTracks) /\ ListsAll(<< >>, {}) /\ AreIds(<< >>, << >>)
      BY DEF ListsAll, Ordered, Named, AreIds
    <2>2. ListsIds(<< >>, {})
      BY <2>1 DEF ListsIds
    <2>3. InState(first.states, "DISCARD") = {}
      BY <1>1 DEF InState
    <2> QED
      BY <2>2, <2>3
  <1>3. ASSUME NEW list \in Seq(1 .. NumTracks) PROVE Passed(list, 1, 0)
    BY OfTracks DEF Passed
  <1>4. Passed(c.selected, first.j, 0) /\ Passed(c.discarded, first.k, 0)
    BY <1>1, <1>3 DEF IsChoice
  <1> HIDE DEF first
  <1>5. ListsIds(first.discards, InState(first.states, "DISCARD"))
    BY <1>1, <1>2, Zenon
  <1>6. \A m \in 1 .. 0 : first.states[m] = Expected(c, m)
    OBVIOUS
  <1>7. Good(c, first, 0)
    BY <1>1, <1>4, <1>5, <1>6 DEF Good
  <1> QED
    BY <1>7 DEF first

LEMMA SplitEnds ==
  ASSUME NEW c, IsChoice(c), preparedTracks \in 0 .. NumTracks
  PROVE  Good(c, Split(c), preparedTracks)
  <1> DEFINE n == preparedTracks
  <1>1. PICK part : IsSplit(part, c, n) /\ Split(c) = part[n]
    BY SplitIs
  <1> DEFINE S == {i \in 0 .. n : Good(c, part[i], i)}
  <1>2. 0 \in S
    BY <1>1, SplitBegins DEF IsSplit
  <1>3. ASSUME NEW i \in 1 .. n, i - 1 \in S PROVE i \in S
    <2>1. part[i] = SplitTrack(part[i - 1], c, i) /\ Good(c, part[i - 1], i - 1)
      BY <1>1, <1>3 DEF IsSplit
    <2>2. Good(c, part[i], i)
      <3>1. i \in 1 .. NumTracks
        BY TracksAssumption
      <3> QED
        BY <2>1, <3>1, SplitGoesOn
    <2> QED
      BY <2>2
  <1>4. n \in S
    <2>1. n \in Nat
      BY TracksAssumption
    <2> HIDE DEF S, n
    <2>2. \A i \in 0 .. n : i \in S
      BY <1>2, <1>3, <2>1, Induction
    <2> QED
      BY <2>1, <2>2
  <1> QED
    BY <1>1, <1>4

LEMMA ChoiceIs ==
  ASSUME NEW c \in Choices, preparedTracks \in 0 .. NumTracks
  PROVE  IsChoice(c)
  <1>1. c.selected \in Lists /\ c.discarded \in Lists
        /\ Named(c.selected) \cap Named(c.discarded) = {}
    BY DEF Choices
  <1>2. ASSUME NEW s \in Lists PROVE s \in Seq(1 .. NumTracks)
    <2>1. PICK m \in 0 .. preparedTracks : s \in [1 .. m -> 1 .. preparedTracks]
      BY DEF Lists
    <2>2. s \in [1 .. m -> 1 .. NumTracks] /\ m \in Nat
      BY <2>1, TracksAssumption
    <2> QED
      BY <2>2, SeqDef
  <1> QED
    BY <1>1, <1>2 DEF IsChoice

-----------------------------------------------------------------------------
(* discardTracks: who is told                                              *)

IsPass(pass, n) ==
  /\ pass[0] = [k |-> 1, tracks |-> {}]
  /\ \A i \in 1 .. n : pass[i] = MeetTrack(pass[i - 1], i)

LEMMA MetIs ==
  ASSUME sampleQueues \in Nat
  PROVE  \E pass : IsPass(pass, sampleQueues) /\ Met = pass[sampleQueues].tracks
  <1> DEFINE n == sampleQueues
             Pass == [k: Nat \ {0}, tracks: SUBSET Nat]
             first == [k |-> 1, tracks |-> {}]
             Passes(f) == [i \in 0 .. n |-> IF i = 0 THEN first ELSE MeetTrack(f[i - 1], i)]
             step == [q \in Pass \X (1 .. n) |-> MeetTrack(q[1], q[2])]
  <1>1. first \in Pass
    OBVIOUS
  <1>2. step \in Steps(Pass, n)
    <2>1. ASSUME NEW p \in Pass, NEW i \in 1 .. n PROVE MeetTrack(p, i) \in Pass
      BY DEF MeetTrack
    <2> HIDE DEF Pass
    <2> QED
      BY <2>1 DEF Steps
  <1>3. \E f : f = Passes(f)
    <2>1. PICK f : IsIteration(f, Pass, n, first, step)
      <3>1. n \in Nat
        OBVIOUS
      <3> HIDE DEF first, step, n, Pass
      <3> QED
        BY <1>1, <1>2, <3>1, Recursion
    <2>2. /\ f \in [0 .. n -> Pass] /\ f[0] = first
          /\ \A i \in 1 .. n : f[i] = step[<<f[i - 1], i>>]
      BY <2>1 DEF IsIteration
    <2> HIDE DEF Pass, first
    <2>3. ASSUME NEW i \in 0 .. n PROVE f[i] = Passes(f)[i]
      <3>1. CASE i = 0
        BY <2>2, <3>1
      <3>2. CASE i # 0
        <4>1. i \in 1 .. n /\ f[i - 1] \in Pass
          BY <2>2, <3>2
        <4>2. step[<<f[i - 1], i>>] = MeetTrack(f[i - 1], i)
          BY <4>1
        <4> QED
          BY <2>2, <3>2, <4>1, <4>2
      <3> QED
        BY <3>1, <3>2
    <2> QED
      BY <2>2, <2>3
  <1> DEFINE pass == CHOOSE f : f = Passes(f)
  <1>4. pass = Passes(pass)
    BY <1>3
  <1>5. Met = pass[n].tracks
    BY DEF Met, MeetTrack
  <1> HIDE DEF pass
  <1>6. IsPass(pass, n)
    <2>1. pass[0] = first
      BY <1>4
    <2>2. ASSUME NEW i \in 1 .. n PROVE pass[i] = MeetTrack(pass[i - 1], i)
      <3>1. i \in 0 .. n /\ i # 0
        OBVIOUS
      <3> HIDE DEF first
      <3> QED
        BY <1>4, <3>1
    <2> QED
      BY <2>1, <2>2 DEF IsPass
  <1> QED
    BY <1>5, <1>6

LEMMA MetAll ==
  ASSUME sampleQueues \in 0 .. NumTracks, NEW list \in Seq(1 .. NumTracks), Ordered(list),
         AreIds(tracksToDiscard, list), Named(list) \subseteq 1 .. sampleQueues
  PROVE  Met = Named(list)
  <1> DEFINE n == sampleQueues
             All == Named(list)
             Known(p, i) == /\ p.k \in Nat \ {0} /\ Passed(list, p.k, i)
                            /\ p.tracks = All \cap (1 .. i)
  <1>0. n \in Nat /\ list \in Seq(Nat)
    BY TracksAssumption, OfTracks
  <1>1. PICK pass : IsPass(pass, n) /\ Met = pass[n].tracks
    BY <1>0, MetIs
  <1> DEFINE S == {i \in 0 .. n : Known(pass[i], i)}
  <1>2. 0 \in S
    <2>1. pass[0].k = 1 /\ pass[0].tracks = {}
      BY <1>1 DEF IsPass
    <2>2. Passed(list, 1, 0)
      <3>1. ASSUME NEW m \in DOMAIN list PROVE m >= 1 /\ list[m] > 0
        BY OfTracks
      <3> QED
        BY <3>1 DEF Passed
    <2> QED
      BY <2>1, <2>2
  <1>3. ASSUME NEW i \in 1 .. n, i - 1 \in S PROVE i \in S
    <2> DEFINE p == pass[i - 1]
               q == pass[i]
    <2>1. q = MeetTrack(p, i) /\ Known(p, i - 1)
      BY <1>1, <1>3 DEF IsPass
    <2>2. /\ p.k <= Len(tracksToDiscard) /\ tracksToDiscard[p.k] = Ids[i] <=> i \in All
          /\ i \in All => Passed(list, p.k + 1, i)
          /\ i \notin All => Passed(list, p.k, i)
      <3>1. i \in 1 .. NumTracks /\ i \in Nat \ {0}
        BY TracksAssumption
      <3>2. /\ IsNext(list, p.k, i) <=> i \in All
            /\ i \in All => Passed(list, p.k + 1, i)
            /\ i \notin All => Passed(list, p.k, i)
        <4>1. IsNext(list, p.k, i) <=> p.k <= Len(list) /\ list[p.k] = i
          BY <2>1, <3>1, NextIs
        <4>2. /\ p.k <= Len(list) /\ list[p.k] = i <=> i \in All
              /\ i \in All => Passed(list, p.k + 1, i)
              /\ i \notin All => Passed(list, p.k, i)
          BY <1>0, <2>1, <3>1, CursorMoves
        <4> QED
          BY <4>1, <4>2
      <3>3. IsNext(list, p.k, i) <=>
              p.k <= Len(tracksToDiscard) /\ tracksToDiscard[p.k] = Ids[i]
        <4>1. p.k \in Nat \ {0} /\ Len(list) \in Nat
          BY <2>1
        <4> QED
          BY <4>1 DEF AreIds, IsNext
      <3> QED
        BY <3>2, <3>3
    <2>3. 1 .. i = (1 .. i - 1) \cup {i}
      OBVIOUS
    <2> HIDE DEF p, q
    <2>4. Known(q, i)
      <3> HIDE DEF All
      <3>1. CASE i \in All
        <4>1. q.k = p.k + 1 /\ q.tracks = p.tracks \cup {i}
          BY <2>1, <2>2, <3>1 DEF MeetTrack
        <4> QED
          BY <2>1, <2>2, <2>3, <3>1, <4>1
      <3>2. CASE i \notin All
        <4>1. q = p
          BY <2>1, <2>2, <3>2 DEF MeetTrack
        <4> QED
          BY <2>1, <2>2, <2>3, <3>2, <4>1
      <3> QED
        BY <3>1, <3>2
    <2> QED
      BY <2>4 DEF q
  <1>4. n \in S
    <2>1. n \in Nat
      BY <1>0
    <2> HIDE DEF S, n
    <2>2. \A i \in 0 .. n : i \in S
      BY <1>2, <1>3, <2>1, Induction
    <2> QED
      BY <2>1, <2>2
  <1> QED
    BY <1>1, <1>4

-----------------------------------------------------------------------------
(* The tracks are announced and chosen once                                *)

Quiet == <<selection, tracksSelected, uiMailbox, announced, sampleQueues, named>>
Counted == {"testingFormats", "counting", "finishing"}

LEMMA ChosenStays ==
  ASSUME ChosenInv, UNCHANGED <<selection, tracksSelected, preparedTracks, named>>
  PROVE  ChosenInv'
  <1>1. UNCHANGED <<trackStates, tracksToDiscard, chosen, numOfMuxingStreams, discarded, renderers>>
    BY DEF selection
  <1>2. InState(trackStates, "DISCARD")' = InState(trackStates, "DISCARD")
    BY <1>1 DEF InState
  <1>3. ListsIds(tracksToDiscard, InState(trackStates, "DISCARD"))' =
          ListsIds(tracksToDiscard, InState(trackStates, "DISCARD"))
    BY <1>1, <1>2 DEF ListsIds, ListsAll, AreIds, Ordered, Named
  <1>4. IsSorted(chosen)' = IsSorted(chosen)
        /\ \A i : Expected(chosen, i)' = Expected(chosen, i)
    BY <1>1 DEF IsSorted, Expected, Ordered, Named
  <1> QED
    BY <1>1, <1>2, <1>3, <1>4 DEF ChosenInv

LEMMA SelectStays ==
  ASSUME SelectInv, RestTypes', UNCHANGED Quiet, looper' \in Counted => looper \in Counted
  PROVE  SelectInv'
  <1>1. ChosenInv'
    BY ChosenStays DEF SelectInv, Quiet, announced
  <1>2. OnceInv'
    BY DEF SelectInv, OnceInv, Quiet, announced, Counted
  <1> QED
    BY <1>1, <1>2 DEF SelectInv

LEMMA RestStays ==
  ASSUME RestTypes, UNCHANGED <<transcoderHandler, transcoderRunning, selection, muxers, monitor,
                                loop>>
  PROVE  RestTypes'
  BY DEF RestTypes, selection, loop

Others ==
  Sets \/ GetsReady \/ HandlePrepare \/ OnPrepare \/ AssignLoop \/ StartLoop \/ LoopSteps

LEMMA OthersSelect == ASSUME Inv, SelectInv, Others PROVE SelectInv'
  <1>1. /\ UNCHANGED <<selection, tracksSelected, uiMailbox, announced, sampleQueues, named>>
        /\ looper' \in Counted => looper' = looper
        /\ UNCHANGED <<muxers, monitor>>
    <2>1. CASE Sets
      BY <2>1 DEF Sets, SetDataSource, Start, SetOutputSource, PrepareTests, PrepareSetsFlag,
                  preparation, arrays, locking, fields, Counted
    <2>2. CASE GetsReady
      BY <2>2 DEF GetsReady, SetHandler, CreateSource, TestFlag, arrays, locking, fields, Counted
    <2>3. CASE HandlePrepare \/ OnPrepare
      BY <2>3 DEF HandlePrepare, OnPrepare, arrays, locking, fields, Counted
    <2>4. CASE AssignLoop \/ StartLoop \/ LoopSteps
      BY <2>4 DEF AssignLoop, StartLoop, LoopSteps, EndLoop, LeaveLoop, StopTests, StopClears,
                  preparation, arrays, locking, fields, Counted
    <2> QED
      BY <2>1, <2>2, <2>3, <2>4 DEF Others
  <1>2. RestTypes'
    <2>1. CASE Sets \/ HandlePrepare \/ OnPrepare \/ CreateSource \/ TestFlag
      <3>1. UNCHANGED <<transcoderHandler, transcoderRunning, loop>>
        BY <2>1 DEF Sets, SetDataSource, Start, SetOutputSource, PrepareTests, PrepareSetsFlag,
                    HandlePrepare, OnPrepare, CreateSource, TestFlag, fields
      <3> QED
        BY <1>1, <3>1, RestStays DEF SelectInv
    <2>2. CASE SetHandler
      BY <1>1, <2>2 DEF SetHandler, SelectInv, RestTypes, selection, loop
    <2>3. CASE AssignLoop
      <3>1. /\ transcoderRunning' = TRUE /\ decodeEncodeStreams' = TRUE /\ canceled' = FALSE
            /\ UNCHANGED <<transcoderHandler, des, quit, stops, stopFound>>
        BY <2>3 DEF AssignLoop
      <3> QED
        BY <1>1, <3>1 DEF SelectInv, RestTypes, selection
    <2>7. CASE StartLoop
      <3>1. /\ des' = "running" \/ des' = des
            /\ UNCHANGED <<fields, decodeEncodeStreams, canceled, quit, stops, stopFound>>
        BY <2>7 DEF StartLoop
      <3> QED
        BY <1>1, <3>1 DEF SelectInv, RestTypes, selection, fields
    <2>4. CASE EndLoop \/ \E b \in BOOLEAN : LeaveLoop(b)
      BY <1>1, <2>4 DEF EndLoop, QuitLooper, LeaveLoop, SelectInv, RestTypes, selection, fields
    <2>5. CASE StopTests
      <3>1. stops' \in 0 .. MaxStops
        BY <2>5, TranscoderAssumption DEF StopTests, SelectInv, RestTypes
      <3>2. stopFound' \in BOOLEAN /\ canceled' \in BOOLEAN
        BY <2>5, Zenon DEF StopTests
      <3>3. UNCHANGED <<transcoderHandler, transcoderRunning, decodeEncodeStreams, des, quit>>
        BY <2>5 DEF StopTests, fields
      <3> QED
        BY <1>1, <3>1, <3>2, <3>3 DEF SelectInv, RestTypes, selection
    <2>6. CASE StopClears
      BY <1>1, <2>6 DEF StopClears, SelectInv, RestTypes, selection, fields
    <2> QED
      BY <2>1, <2>2, <2>3, <2>4, <2>5, <2>6, <2>7 DEF Others, GetsReady, LoopSteps
  <1> QED
    BY <1>1, <1>2, SelectStays DEF Quiet

LEMMA SyncSelect == ASSUME Inv, SelectInv, NEW th \in Threads, SyncNext(th) PROVE SelectInv'
  <1>1. UNCHANGED SyncFrame
    BY DEF SyncNext, ReadLock, EnterLock, TestOutput, PrepareOutput, LeaveLock, SyncFrame,
           preparation
  <1>2. looper' = looper \/ looper' = "idle"
    BY DEF SyncNext, ReadLock, EnterLock, TestOutput, PrepareOutput, LeaveLock, preparation
  <1>3. muxers' \in Nat
    BY DEF SyncNext, ReadLock, EnterLock, TestOutput, PrepareOutput, LeaveLock, SelectInv, RestTypes
  <1>4. monitor' \in [BOOLEAN -> Threads \cup {"none"}]
    BY DEF SyncNext, ReadLock, EnterLock, TestOutput, PrepareOutput, LeaveLock, SelectInv, RestTypes
  <1>5. RestTypes'
    BY <1>1, <1>3, <1>4 DEF SyncFrame, fields, selection, loop, SelectInv, RestTypes
  <1> QED
    BY <1>1, <1>2, <1>5, SelectStays DEF SyncFrame, Quiet, fields, arrays, Counted

LEMMA ExtractorSelects ==
  ASSUME Inv, SelectInv, ExtractorNext, UNCHANGED LifeCycle PROVE SelectInv'
  <1>1. /\ UNCHANGED <<announced, uiMailbox, looper>> /\ UNCHANGED LifeCycle
        /\ sampleQueues' \in {sampleQueues, sampleQueues + 1}
        /\ named' \in {named, named \cup {readers + 1}}
    BY DEF ExtractorNext, Track, AddReader, AddQueue, OnUpstreamFormatChanged, EndTracks,
           EndTracksAgain, SeekMap, arrays
  <1>2. RestTypes'
    BY <1>1, RestStays DEF SelectInv, LifeCycle, fields, locking
  <1>3. OnceInv'
    BY <1>1 DEF SelectInv, OnceInv, announced, LifeCycle, fields, Inv, Types, PreparationTypeOK
  <1>4. ChosenInv'
    <2>1. /\ UNCHANGED <<trackStates, tracksToDiscard, chosen, numOfMuxingStreams, discarded,
                         renderers, tracksSelected, preparedTracks>>
      BY <1>1 DEF LifeCycle, selection, fields, announced
    <2>2. InState(trackStates, "DISCARD")' = InState(trackStates, "DISCARD")
      BY <2>1 DEF InState
    <2>3. tracksSelected => InState(trackStates, "DISCARD") \cap named' =
                              InState(trackStates, "DISCARD") \cap named
      <3>1. ASSUME tracksSelected PROVE readers + 1 \notin InState(trackStates, "DISCARD")
        <4>1. /\ preparedTracks <= sampleQueues /\ sampleQueues <= readers
              /\ Len(trackStates) = preparedTracks /\ trackStates \in Seq(States)
          BY <3>1 DEF SelectInv, OnceInv, ChosenInv, RestTypes, Inv, PreparedInv
        <4>2. readers + 1 \notin DOMAIN trackStates
          BY <4>1 DEF Inv, Types, PreparationTypeOK
        <4> QED
          BY <4>2 DEF InState
      <3> QED
        BY <1>1, <3>1
    <2>4. ListsIds(tracksToDiscard, InState(trackStates, "DISCARD"))' =
            ListsIds(tracksToDiscard, InState(trackStates, "DISCARD"))
      BY <2>1, <2>2 DEF ListsIds, ListsAll, AreIds, Ordered, Named
    <2>5. IsSorted(chosen)' = IsSorted(chosen)
          /\ \A i : Expected(chosen, i)' = Expected(chosen, i)
      BY <2>1 DEF IsSorted, Expected, Ordered, Named
    <2> QED
      BY <2>1, <2>2, <2>3, <2>4, <2>5 DEF SelectInv, ChosenInv
  <1> QED
    BY <1>2, <1>3, <1>4 DEF SelectInv

LEMMA FinishSelects == ASSUME Inv, SelectInv, FinishNext, UNCHANGED LifeCycle PROVE SelectInv'
  <1>1. UNCHANGED <<selection, tracksSelected, sampleQueues, named>>
    BY DEF FinishNext, ReadSeekMap, TestState, TestFormats, CountTracks, FinishPrepare, LifeCycle,
           fields, arrays
  <1>2. RestTypes'
    BY RestStays DEF SelectInv, LifeCycle, fields, locking
  <1>3. CASE ReadSeekMap \/ TestFormats \/ CountTracks
    <2>1. /\ UNCHANGED <<announced, uiMailbox>>
          /\ looper' \in Counted => looper \in Counted
      BY <1>3 DEF ReadSeekMap, TestFormats, CountTracks, Counted
    <2> QED
      BY <1>1, <1>2, <2>1, SelectStays DEF Quiet
  <1>4. CASE TestState
    <2>1. /\ UNCHANGED <<announced, uiMailbox>>
          /\ looper' \in Counted => ~prepared
      BY <1>4 DEF TestState, MayFinish, Counted
    <2>2. OnceInv'
      BY <1>1, <2>1 DEF SelectInv, OnceInv, announced, Counted
    <2>3. ChosenInv'
      BY <1>1, <2>1, ChosenStays DEF SelectInv, announced
    <2> QED
      BY <1>2, <2>2, <2>3 DEF SelectInv
  <1>5. CASE FinishPrepare
    <2>1. /\ looper = "finishing" /\ looper' = "idle"
          /\ local.trackCount <= sampleQueues
          /\ ~prepared /\ ~tracksSelected /\ uiMailbox = << >>
      BY <1>5 DEF FinishPrepare, Inv, PreparedInv, SelectInv, OnceInv
    <2>2. \/ UNCHANGED <<announced, uiMailbox>>
          \/ /\ prepared' = TRUE /\ preparedTracks' = local.trackCount
             /\ uiMailbox' = Append(uiMailbox, "onPrepared")
      BY <1>5 DEF FinishPrepare
    <2>3. uiMailbox' = uiMailbox \/ uiMailbox' = <<"onPrepared">>
      BY <2>1, <2>2
    <2>4. OnceInv'
      BY <1>1, <2>1, <2>2, <2>3 DEF SelectInv, OnceInv, announced
    <2>5. ChosenInv'
      BY <1>1, <2>1 DEF SelectInv, ChosenInv, selection
    <2> QED
      BY <1>2, <2>4, <2>5 DEF SelectInv
  <1> QED
    BY <1>3, <1>4, <1>5 DEF FinishNext

LEMMA StartSelects == ASSUME Inv, SelectInv, StartTranscoder PROVE SelectInv'
  <1>1. /\ UNCHANGED <<arrays, announced, looper, fields, selection, locking, loop>>
        /\ uiMailbox # << >> /\ Head(uiMailbox) = "onTracksSelected" /\ uiMailbox' = Tail(uiMailbox)
    BY DEF StartTranscoder
  <1>2. RestTypes'
    BY <1>1, RestStays DEF SelectInv, fields, locking
  <1>3. ChosenInv'
    BY <1>1, ChosenStays DEF SelectInv, fields, announced, arrays
  <1>4. prepared /\ tracksSelected
    <2>1. uiMailbox # <<"onPrepared">>
      BY <1>1
    <2> QED
      BY <1>1, <2>1 DEF SelectInv, OnceInv
  <1>5. uiMailbox' \in Seq({"onTracksSelected"})
    <2>1. uiMailbox \in Seq({"onTracksSelected"})
      BY <1>4 DEF SelectInv, OnceInv
    <2> QED
      BY <1>1, <2>1
  <1>6. OnceInv'
    BY <1>1, <1>4, <1>5 DEF SelectInv, OnceInv, announced, arrays, fields
  <1> QED
    BY <1>2, <1>3, <1>6 DEF SelectInv

LEMMA TracksSplit ==
  ASSUME Inv, SelectInv, NEW c \in Choices, NEW form \in IdForms, ~IdFails(c, form),
         SetSelectedTracks(c, form)
  PROVE  SelectInv'
  <1> DEFINE n == preparedTracks
             end == Split(c)
  <1>1. /\ uiMailbox # << >> /\ Head(uiMailbox) = "onPrepared" /\ uiMailbox' = Tail(uiMailbox)
        /\ chosen' = c /\ trackStates' = end.states /\ tracksToDiscard' = end.discards
        /\ tracksSelected' = TRUE
        /\ UNCHANGED <<arrays, announced, looper, transcoderHandler, transcoderRunning, renderers,
                       numOfMuxingStreams, discarded, locking, loop>>
    BY DEF SetSelectedTracks
  <1>2. ~tracksSelected /\ prepared /\ uiMailbox' = << >>
    <2>1. ~tracksSelected
      <3>1. ASSUME uiMailbox \in Seq({"onTracksSelected"}) PROVE FALSE
        BY <1>1, <3>1
      <3> QED
        BY <3>1 DEF SelectInv, OnceInv
    <2>2. prepared /\ uiMailbox = <<"onPrepared">>
      BY <1>1, <2>1 DEF SelectInv, OnceInv
    <2> QED
      BY <1>1, <2>1, <2>2
  <1>3. n \in 0 .. NumTracks /\ NumTracks \in Nat
    BY TracksAssumption DEF Inv, Types, PreparationTypeOK
  <1>4. Good(c, end, n)
    BY <1>3, ChoiceIs, SplitEnds
  <1> HIDE DEF n, end
  <1>5. /\ end.states \in Seq(States) /\ Len(end.states) = n /\ end.discards \in Seq(Nat)
        /\ ListsIds(end.discards, InState(end.states, "DISCARD"))
        /\ IsSorted(c) => \A m \in 1 .. n : end.states[m] = Expected(c, m)
    BY <1>4 DEF Good, Part
  <1>7. RestTypes'
    BY <1>1, <1>5 DEF SelectInv, RestTypes, locking, loop
  <1>8. OnceInv'
    <2>1. << >> \in Seq({"onTracksSelected"})
      OBVIOUS
    <2> QED
      BY <1>1, <1>2, <2>1 DEF SelectInv, OnceInv, announced, arrays
  <1>9. ChosenInv'
    <2>1. InState(trackStates, "DISCARD")' = InState(end.states, "DISCARD")
      BY <1>1 DEF InState
    <2>2. ListsIds(tracksToDiscard, InState(trackStates, "DISCARD"))'
      BY <1>1, <1>5, <2>1 DEF ListsIds, ListsAll, AreIds, Ordered, Named
    <2>3. IsSorted(chosen)' = IsSorted(c)
          /\ \A i : Expected(chosen, i)' = Expected(c, i)
      BY <1>1 DEF IsSorted, Expected, Ordered, Named
    <2>4. preparedTracks' = n
      BY <1>1 DEF announced, n
    <2>5. ~(numOfMuxingStreams' >= 0)
      BY <1>1, <1>2 DEF SelectInv, ChosenInv
    <2> QED
      BY <1>1, <1>5, <2>2, <2>3, <2>4, <2>5 DEF ChosenInv
  <1> QED
    BY <1>7, <1>8, <1>9 DEF SelectInv

LEMMA ChoiceSelects ==
  ASSUME Inv, SelectInv, NEW c \in Choices, NEW form \in IdForms, SetSelectedTracks(c, form)
  PROVE  SelectInv'
  <1>1. CASE IdFails(c, form)
    <2>1. UNCHANGED <<arrays, announced, looper, uiMailbox, tracksSelected, selection, locking, loop,
                      transcoderHandler, transcoderRunning>>
      BY <1>1 DEF SetSelectedTracks, selection
    <2>2. RestTypes'
      BY <2>1, RestStays DEF SelectInv, locking
    <2> QED
      BY <2>1, <2>2, SelectStays DEF Quiet, arrays
  <1> QED
    BY <1>1, TracksSplit

LEMMA RenderersSelect == ASSUME Inv, SelectInv, CreateRenderers PROVE SelectInv'
  <1> DEFINE discards == InState(trackStates, "DISCARD")
  <1>1. /\ Receive("selectTracks")
        /\ UNCHANGED <<arrays, announced, looper, fields, trackStates, tracksToDiscard, chosen,
                       locking, loop>>
        /\ \/ UNCHANGED <<discarded, renderers, numOfMuxingStreams, uiMailbox>>
           \/ /\ discarded' = Met \cap named
              /\ renderers' = preparedTracks - Cardinality(discards)
              /\ numOfMuxingStreams' = preparedTracks - Len(tracksToDiscard)
              /\ uiMailbox' = Append(uiMailbox, "onTracksSelected")
    BY DEF CreateRenderers, NumOfStreams
  <1>2. tracksSelected /\ prepared
    BY <1>1, LaterReceived DEF SelectInv, OnceInv
  <1>3. /\ preparedTracks \in 0 .. NumTracks /\ sampleQueues \in 0 .. NumTracks
        /\ preparedTracks <= sampleQueues /\ NumTracks \in Nat
        /\ named \subseteq 1 .. NumTracks
        /\ trackStates \in Seq(States) /\ tracksToDiscard \in Seq(Nat)
        /\ Len(trackStates) = preparedTracks
        /\ ListsIds(tracksToDiscard, discards)
        /\ uiMailbox \in Seq({"onTracksSelected"})
    BY <1>2, TracksAssumption DEF SelectInv, OnceInv, ChosenInv, RestTypes, Inv, Types,
                                  PreparationTypeOK
  <1>4. discards \subseteq 1 .. preparedTracks
    BY <1>3 DEF InState
  <1> HIDE DEF discards
  <1>12. PICK list \in Seq(1 .. NumTracks) : ListsAll(list, discards) /\ AreIds(tracksToDiscard, list)
    BY <1>3 DEF ListsIds
  <1>5. /\ Cardinality(discards) = Len(tracksToDiscard)
        /\ Cardinality(discards) \in 0 .. preparedTracks
    <2>1. list \in Seq(Nat) /\ Len(tracksToDiscard) = Len(list)
      BY <1>12, OfTracks DEF AreIds
    <2>2. Cardinality(discards) = Len(tracksToDiscard) /\ Len(tracksToDiscard) \in Nat
      BY <1>3, <1>12, <2>1, ListLength
    <2>3. Cardinality(discards) <= Cardinality(1 .. preparedTracks)
      <3>1. IsFiniteSet(1 .. preparedTracks)
        BY <1>3, FS_Interval
      <3> QED
        BY <1>4, <3>1, FS_Subset
    <2>4. Cardinality(1 .. preparedTracks) = preparedTracks
      BY <1>3, FS_Interval
    <2> QED
      BY <1>3, <2>2, <2>3, <2>4
  <1>6. Met = discards
    <2>2. Ordered(list) /\ Named(list) = discards
      BY <1>12 DEF ListsAll
    <2>3. Named(list) \subseteq 1 .. sampleQueues
      BY <1>3, <1>4, <2>2
    <2> QED
      BY <1>3, <1>12, <2>2, <2>3, MetAll
  <1>7. \/ UNCHANGED <<discarded, renderers, numOfMuxingStreams>>
        \/ /\ discarded' = discards \cap named
           /\ renderers' = numOfMuxingStreams'
           /\ numOfMuxingStreams' \in 0 .. NumTracks
    BY <1>1, <1>3, <1>5, <1>6
  <1>8. uiMailbox' \in Seq({"onTracksSelected"})
    <2>1. CASE uiMailbox' = uiMailbox
      BY <1>3, <2>1
    <2>2. CASE uiMailbox' = Append(uiMailbox, "onTracksSelected")
      BY <1>3, <2>2
    <2> QED
      BY <1>1, <2>1, <2>2
  <1>9. RestTypes'
    <2>1. /\ UNCHANGED <<transcoderHandler, transcoderRunning, trackStates, tracksToDiscard, muxers,
                         monitor, decodeEncodeStreams, des, canceled, quit, stops, stopFound>>
      BY <1>1 DEF fields, locking, loop
    <2>2. /\ discarded \in SUBSET (1 .. NumTracks) /\ renderers \in 0 .. NumTracks
          /\ numOfMuxingStreams \in -1 .. NumTracks
      BY DEF SelectInv, RestTypes
    <2>3. discarded' \in SUBSET (1 .. NumTracks)
      BY <1>3, <1>7, <2>2
    <2>4. renderers' \in 0 .. NumTracks /\ numOfMuxingStreams' \in -1 .. NumTracks
      BY <1>3, <1>7, <2>2
    <2> QED
      BY <2>1, <2>3, <2>4 DEF SelectInv, RestTypes
  <1>10. OnceInv'
    BY <1>1, <1>2, <1>8 DEF SelectInv, OnceInv, announced, arrays, fields
  <1>11. ChosenInv'
    <2>1. /\ InState(trackStates, "DISCARD")' = discards
          /\ UNCHANGED <<tracksSelected, preparedTracks>>
      BY <1>1 DEF InState, discards, fields, announced
    <2>2. ListsIds(tracksToDiscard, InState(trackStates, "DISCARD"))'
      BY <1>1, <1>3, <2>1 DEF ListsIds, ListsAll, AreIds, Ordered, Named
    <2>3. IsSorted(chosen)' = IsSorted(chosen)
          /\ \A i : Expected(chosen, i)' = Expected(chosen, i)
      BY <1>1 DEF IsSorted, Expected, Ordered, Named
    <2>4. named' = named
      BY <1>1 DEF arrays
    <2>5. numOfMuxingStreams' >= 0 => discarded' = discards \cap named
                                      /\ numOfMuxingStreams' = renderers'
      BY <1>7 DEF SelectInv, ChosenInv, discards
    <2> QED
      BY <1>1, <1>2, <2>1, <2>2, <2>3, <2>4, <2>5 DEF SelectInv, ChosenInv
  <1> QED
    BY <1>9, <1>10, <1>11 DEF SelectInv

LEMMA InitSelect == Init => SelectInv
  <1> SUFFICES ASSUME Init PROVE SelectInv
    OBVIOUS
  <1>1. PreparationInit
    BY DEF Init
  <1>2. RestTypes
    <2>1. << >> \in Seq(States) /\ << >> \in Seq(Nat)
      OBVIOUS
    <2>2. /\ 0 \in 0 .. NumTracks /\ -1 \in -1 .. NumTracks /\ 0 \in 0 .. MaxStops
      BY TracksAssumption, TranscoderAssumption
    <2>3. [b \in BOOLEAN |-> "none"] \in [BOOLEAN -> Threads \cup {"none"}]
      OBVIOUS
    <2>4. /\ transcoderHandler = FALSE /\ transcoderRunning = FALSE
          /\ trackStates = << >> /\ tracksToDiscard = << >> /\ renderers = 0
          /\ numOfMuxingStreams = -1 /\ discarded = {} /\ muxers = 0
          /\ monitor = [b \in BOOLEAN |-> "none"]
          /\ decodeEncodeStreams = FALSE /\ des = "none" /\ canceled = FALSE /\ quit = FALSE
          /\ stops = 0 /\ stopFound = FALSE
      BY DEF Init
    <2> QED
      BY <2>1, <2>2, <2>3, <2>4 DEF RestTypes
  <1>3. OnceInv
    BY <1>1 DEF Init, PreparationInit, OnceInv
  <1>4. ChosenInv
    BY DEF Init, ChosenInv
  <1> QED
    BY <1>2, <1>3, <1>4 DEF SelectInv

LEMMA NextSelect == Inv /\ SelectInv /\ [Next]_vars => SelectInv'
  <1> SUFFICES ASSUME Inv, SelectInv, [Next]_vars PROVE SelectInv'
    OBVIOUS
  <1>1. CASE UNCHANGED vars
    <2>1. UNCHANGED <<preparation, selection, fields, locking, loop>>
      BY <1>1 DEF vars
    <2>2. RestTypes'
      BY <2>1, RestStays DEF fields, locking, SelectInv
    <2> QED
      BY <2>1, <2>2, SelectStays DEF Quiet, preparation, arrays, fields
  <1>2. CASE UINext
    BY <1>2, OthersSelect, SyncSelect, ChoiceSelects, StartSelects
    DEF UINext, Others, Sets, LoopSteps, Threads
  <1>3. CASE LooperNext
    BY <1>3, OthersSelect, SyncSelect, FinishSelects, RenderersSelect
    DEF LooperNext, Others, GetsReady, Threads
  <1>4. CASE LoopNext \/ LeaveLoop(TRUE) \/ StopTests
    BY <1>4, OthersSelect DEF LoopNext, Others, LoopSteps
  <1>5. CASE ExtractorNext /\ UNCHANGED LifeCycle
    BY <1>5, ExtractorSelects
  <1> QED
    BY <1>1, <1>2, <1>3, <1>4, <1>5 DEF Next

-----------------------------------------------------------------------------
(* The invariant the theorems rest on: preparation is asked for once and   *)
(* before any other message, and what the looper has seen is a part of     *)
(* what the loading thread has published.                                  *)
THEOREM Invariant == Spec => [](Inv /\ LoopInv)
  <1>1. Init => Inv /\ LoopInv
    <2>1. Init => LoopInv
      BY TranscoderAssumption DEF Init, PreparationInit, LoopInv
    <2> QED
      BY <2>1, InitInv
  <1>2. Inv /\ LoopInv /\ [Next]_vars => (Inv /\ LoopInv)'
    BY NextInv, NextLoopInv
  <1> QED
    BY <1>1, <1>2, PTL DEF Spec

(* Whatever the loading thread publishes while the looper looks at it, and *)
(* in whatever order: the tracks that are announced are all there were at  *)
(* their end, each with its format.                                        *)
THEOREM TracksAreComplete == Spec => []AnnouncedComplete
  <1>1. Inv => AnnouncedComplete
    BY DEF Inv, PreparedInv, AnnouncedComplete
  <1> QED
    BY <1>1, Invariant, PTL

(* However the threads interleave: preparation is not started twice, no    *)
(* track is looked at that is half published, tracks are never prepared    *)
(* before there is a muxer, and the looper finds no loop to start only     *)
(* after a stop (onPrepare, onSelectedTracks, readyToStart).               *)
THEOREM NoOtherFailure == Spec => []FailsOnlyIf
  <1>1. Inv => FailsOnlyIf
    BY DEF Inv
  <1> QED
    BY <1>1, Invariant, PTL

(* With it: the tracks are announced once and chosen once, the split is    *)
(* what was asked, and what the loading thread was told to discard still   *)
(* is, although tracks may come after it.                                  *)
THEOREM Selection == Spec => [](Inv /\ SelectInv)
  <1>1. Init => SelectInv
    BY InitSelect
  <1>2. Inv /\ SelectInv /\ [Next]_vars => SelectInv'
    BY NextSelect
  <1> QED
    BY <1>1, <1>2, Invariant, PTL DEF Spec

(* Every variable keeps its type; the number of streams the output is told *)
(* is one of tracks.                                                       *)
THEOREM TypeCorrect == Spec => []TypeOK
  <1>1. Inv /\ SelectInv => TypeOK
    BY DEF Inv, Types, SelectInv, RestTypes, TypeOK, Setup, Finishing, Unasked
  <1> QED
    BY <1>1, Selection, PTL

(* For any number of tracks, any ids and any lists: two cursors that go    *)
(* along with the tracks once split them as asked where the lists are in   *)
(* the order of the tracks, the third cursor, of another thread and later, *)
(* meets all that are to be discarded, by the numbers of their ids, and    *)
(* the streams that are counted are those that get a codification, in      *)
(* whatever order the lists are.                                           *)
THEOREM TracksSplitAsAsked == Spec => []SplitAsAsked
  <1>1. Inv /\ SelectInv => SplitAsAsked
    BY DEF SelectInv, ChosenInv, SplitAsAsked, SplitAs, IsSorted
  <1> QED
    BY <1>1, Selection, PTL
=============================================================================
