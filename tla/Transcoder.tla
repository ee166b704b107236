----------------------------- MODULE Transcoder -----------------------------
(***************************************************************************)
(* The life cycle of core/DefaultTranscoder.java: the UI thread sets it up *)
(* and answers its callbacks as the activities do, the looper prepares     *)
(* source and output and starts the decode-encode loop, the loop ends the  *)
(* looper. The looper's part of Preparation is composed in: both share its *)
(* queue. What the loop does is DecodeEncode's, how loading is held back   *)
(* LoadControl's.                                                          *)
(*                                                                         *)
(* setOutputSource and onPrepare lock the Boolean object `outputPrepared`  *)
(* refers to, FALSE or TRUE, and replace it in the lock. With the calls in *)
(* the modelled order neither has to wait for the other: prepare() comes   *)
(* when setOutputSource has left its block, onPrepare after it.            *)
(*                                                                         *)
(* Tracks are the numbers of their order of discovery, the order of        *)
(* available_tracks; their ids are compared by the numbers in them.        *)
(***************************************************************************)
EXTENDS Preparation

CONSTANTS
  DataSourceFirst, (* setDataSource is called before start().              *)
  Ids,             (* The number in each track's id: of a transport        *)
                   (* stream its pid, of closed captions pid + 8192.       *)
  MaxStops         (* Bound: calls of stopTranscoder.                      *)

ASSUME TranscoderAssumption ==
  /\ DataSourceFirst \in BOOLEAN /\ MaxStops \in Nat
  /\ Ids \in [1 .. NumTracks -> Nat]
  /\ \A i, k \in 1 .. NumTracks : Ids[i] = Ids[k] => i = k

VARIABLES
  ui,                  (* What the UI thread does next.                    *)
  dataSource, mediaOutput, transcoderHandler,  (* Whether they are set.    *)
  mediaSource,         (* "null", or whether it got its data source.       *)
  prepareWhenReady, outputPrepared, tracksSelected, transcoderRunning,
  trackStates,         (* preparedState.trackEnabledStates                 *)
  tracksToDiscard,
  renderers,           (* Those and the codifications; 0 while null.       *)
  decodeEncodeStreams, (* Whether the field refers to a loop.              *)
  des, canceled,       (* The loop's step, its field `canceled`.           *)
  quit,                (* The looper was told to end.                      *)
  monitor,             (* Who holds the monitors of FALSE and TRUE.        *)
  sync,                (* Per thread: where in the synchronized block, and *)
                       (* the object it locks.                             *)
  muxers, numOfMuxingStreams,    (* mediaOutput: FFmpegMuxers created.     *)
  (* History: tracks the UI chose, tracks whose reader was told to discard,*)
  (* stops, and whether one of them began when there was a loop.           *)
  chosen, discarded, stops, stopFound

fields == <<dataSource, mediaOutput, transcoderHandler, mediaSource, prepareWhenReady,
            tracksSelected, transcoderRunning>>
selection == <<trackStates, tracksToDiscard, renderers, numOfMuxingStreams, chosen, discarded>>
locking == <<outputPrepared, monitor, sync, muxers>>
loop == <<decodeEncodeStreams, des, canceled, quit, stops, stopFound>>
vars == <<preparation, ui, fields, selection, locking, loop>>

Threads == {"ui", "looper"}
States == {"SELECTED", "DISCARD", "PASSTHROUGH"}
NoChoice == [selected |-> << >>, discarded |-> << >>]

Init ==
  /\ PreparationInit
  /\ ui = IF DataSourceFirst THEN "setDataSource" ELSE "start"
  /\ dataSource = FALSE /\ mediaOutput = FALSE /\ transcoderHandler = FALSE
  /\ mediaSource = "null"
  /\ prepareWhenReady = FALSE /\ tracksSelected = FALSE /\ transcoderRunning = FALSE
  /\ trackStates = << >> /\ tracksToDiscard = << >> /\ renderers = 0
  /\ numOfMuxingStreams = -1
  /\ chosen = NoChoice /\ discarded = {}
  /\ outputPrepared = FALSE
  /\ monitor = [b \in BOOLEAN |-> "none"]
  /\ sync = [th \in Threads |-> [step |-> "out", lock |-> FALSE]]
  /\ muxers = 0
  /\ decodeEncodeStreams = FALSE /\ des = "none" /\ canceled = FALSE /\ quit = FALSE
  /\ stops = 0 /\ stopFound = FALSE

-----------------------------------------------------------------------------
(* synchronized (outputPrepared) { if (...) mediaOutput.prepare(...) }     *)

(* The object the field refers to now is the one that is locked.           *)
ReadLock(th) ==
  /\ Alive /\ sync[th].step = "evaluating"
  /\ sync' = [sync EXCEPT ![th] = [step |-> "waiting", lock |-> outputPrepared]]
  /\ UNCHANGED <<preparation, ui, fields, selection, loop, outputPrepared, monitor, muxers>>

EnterLock(th) ==
  /\ Alive /\ sync[th].step = "waiting" /\ monitor[sync[th].lock] = "none"
  /\ monitor' = [monitor EXCEPT ![sync[th].lock] = th]
  /\ sync' = [sync EXCEPT ![th].step = "testing"]
  /\ UNCHANGED <<preparation, ui, fields, selection, loop, outputPrepared, muxers>>

Other(th) == IF th = "ui" THEN transcoderHandler ELSE mediaOutput

MayPrepareOutput(th) == Other(th) /\ ~outputPrepared

TestOutput(th) ==
  /\ Alive /\ sync[th].step = "testing"
  /\ outputPrepared' = (outputPrepared \/ MayPrepareOutput(th))
  /\ sync' = [sync EXCEPT ![th].step = IF MayPrepareOutput(th) THEN "preparing" ELSE "leaving"]
  /\ UNCHANGED <<preparation, ui, fields, selection, loop, monitor, muxers>>

(* mediaOutput.prepare(), which creates the muxer.                         *)
PrepareOutput(th) ==
  /\ Alive /\ sync[th].step = "preparing"
  /\ muxers' = muxers + 1
  /\ sync' = [sync EXCEPT ![th].step = "leaving"]
  /\ UNCHANGED <<preparation, ui, fields, selection, loop, outputPrepared, monitor>>

LeaveLock(th) ==
  /\ Alive /\ sync[th].step = "leaving"
  /\ monitor' = [monitor EXCEPT ![sync[th].lock] = "none"]
  /\ sync' = [sync EXCEPT ![th].step = "out"]
  /\ IF th = "ui" THEN ui' = "testSource" /\ UNCHANGED looper
                  ELSE looper' = "idle" /\ UNCHANGED ui
  /\ UNCHANGED <<arrays, news, knownAtEnd, announced, extractor, mailbox, uiMailbox, local,
                 failure, fields, selection, loop, outputPrepared, muxers>>

SyncNext(th) ==
  ReadLock(th) \/ EnterLock(th) \/ TestOutput(th) \/ PrepareOutput(th) \/ LeaveLock(th)

-----------------------------------------------------------------------------
(* The UI thread sets the transcoder up: one call after the other, in the  *)
(* order of the activities or of the documentation.                        *)

Calls(step) == Alive /\ ui = step

SetDataSource ==
  /\ Calls("setDataSource")
  /\ dataSource' = TRUE
  /\ ui' = IF DataSourceFirst THEN "start" ELSE "setOutputSource"
  /\ UNCHANGED <<preparation, mediaOutput, transcoderHandler, mediaSource, prepareWhenReady,
                 tracksSelected, transcoderRunning, selection, locking, loop>>

(* HandlerThread.start()                                                   *)
Start ==
  /\ Calls("start")
  /\ looper' = "settingHandler"
  /\ ui' = IF DataSourceFirst THEN "setOutputSource" ELSE "setDataSource"
  /\ UNCHANGED <<arrays, news, knownAtEnd, announced, extractor, mailbox, uiMailbox, local,
                 failure, fields, selection, locking, loop>>

SetOutputSource ==
  /\ Calls("setOutputSource")
  /\ mediaOutput' = TRUE
  /\ sync' = [sync EXCEPT !["ui"].step = "evaluating"]
  /\ ui' = "synchronized"
  /\ UNCHANGED <<preparation, dataSource, transcoderHandler, mediaSource, prepareWhenReady,
                 tracksSelected, transcoderRunning, selection, loop, outputPrepared, monitor,
                 muxers>>

(* prepare(): the look at mediaSource, and what follows from it.           *)
PrepareTests ==
  /\ Calls("testSource")
  /\ IF mediaSource = "null"
     THEN ui' = "settingFlag" /\ UNCHANGED mailbox
     ELSE ui' = "waiting" /\ Post("onPrepare")
  /\ UNCHANGED <<arrays, news, knownAtEnd, announced, extractor, uiMailbox, looper, local,
                 failure, fields, selection, locking, loop>>

PrepareSetsFlag ==
  /\ Calls("settingFlag")
  /\ prepareWhenReady' = TRUE
  /\ ui' = "waiting"
  /\ UNCHANGED <<preparation, dataSource, mediaOutput, transcoderHandler, mediaSource,
                 tracksSelected, transcoderRunning, selection, locking, loop>>

-----------------------------------------------------------------------------
(* The looper: onLooperPrepared and onPrepare                              *)

SetHandler ==
  /\ Alive /\ looper = "settingHandler"
  /\ transcoderHandler' = TRUE
  /\ looper' = "creatingSource"
  /\ UNCHANGED <<arrays, news, knownAtEnd, announced, extractor, mailbox, uiMailbox, local,
                 failure, ui, dataSource, mediaOutput, mediaSource, prepareWhenReady,
                 tracksSelected, transcoderRunning, selection, locking, loop>>

CreateSource ==
  /\ Alive /\ looper = "creatingSource"
  /\ mediaSource' = IF dataSource THEN "withSource" ELSE "withoutSource"
  /\ looper' = "testingFlag"
  /\ UNCHANGED <<arrays, news, knownAtEnd, announced, extractor, mailbox, uiMailbox, local,
                 failure, ui, dataSource, mediaOutput, transcoderHandler, prepareWhenReady,
                 tracksSelected, transcoderRunning, selection, locking, loop>>

TestFlag ==
  /\ Alive /\ looper = "testingFlag"
  /\ looper' = IF prepareWhenReady THEN "preparing" ELSE "idle"
  /\ UNCHANGED <<arrays, news, knownAtEnd, announced, extractor, mailbox, uiMailbox, local,
                 failure, ui, fields, selection, locking, loop>>

HandlePrepare ==
  /\ Receive("onPrepare") /\ ~quit
  /\ looper' = "preparing"
  /\ UNCHANGED <<arrays, news, knownAtEnd, announced, extractor, uiMailbox, local, failure, ui,
                 fields, selection, locking, loop>>

(* mediaSource.prepare(): a loadable without a data source, or a second    *)
(* load, ends in an exception. Then the synchronized block.                *)
OnPrepare ==
  /\ Alive /\ looper = "preparing"
  /\ failure' = IF mediaSource = "withoutSource" THEN "noDataSource"
                ELSE IF extractor # "unstarted" THEN "alreadyLoading" ELSE "none"
  /\ extractor' = IF extractor = "unstarted" THEN "extracting" ELSE extractor
  /\ sync' = [sync EXCEPT !["looper"].step = "evaluating"]
  /\ looper' = "synchronized"
  /\ UNCHANGED <<arrays, news, knownAtEnd, announced, mailbox, uiMailbox, local, ui, fields,
                 selection, loop, outputPrepared, monitor, muxers>>

-----------------------------------------------------------------------------
(* The tracks are announced: the UI's answer splits them in three          *)

Named(s) == {s[i] : i \in DOMAIN s}
Distinct(s) == Cardinality(Named(s)) = Len(s)

(* What the UI may ask for: no track twice, in any order.                  *)
Lists == {s \in UNION {[1 .. n -> 1 .. preparedTracks] : n \in 0 .. preparedTracks} :
            Distinct(s)}
Choices == {c \in [selected: Lists, discarded: Lists] :
              Named(c.selected) \cap Named(c.discarded) = {}}

(* The n-th of the list is track i, by its id.                             *)
IsNext(list, n, i) == n <= Len(list) /\ Ids[list[n]] = Ids[i]

(* Seeded fault: a track that is passed over is taken off both lists.      *)
BothAdvance(p, c, i) ==
  LET hit == IsNext(c.selected, p.j, i)
      drop == ~hit /\ IsNext(c.discarded, p.k, i)
  IN  [j |-> p.j + 1, k |-> p.k + 1,
       states |-> Append(p.states, IF hit THEN "SELECTED"
                                   ELSE IF drop THEN "DISCARD" ELSE "PASSTHROUGH"),
       discards |-> IF drop THEN Append(p.discards, Ids[i]) ELSE p.discards]

(* Seeded fault: a track on neither list keeps its initial state.          *)
NullLeft(p, c, i) ==
  LET hit == IsNext(c.selected, p.j, i)
      drop == ~hit /\ IsNext(c.discarded, p.k, i)
  IN  [j |-> IF hit THEN p.j + 1 ELSE p.j,
       k |-> IF drop THEN p.k + 1 ELSE p.k,
       states |-> Append(p.states, IF hit THEN "SELECTED" ELSE IF drop THEN "DISCARD" ELSE "null"),
       discards |-> IF drop THEN Append(p.discards, Ids[i]) ELSE p.discards]

(* One round of setSelectedTracks: track i is compared with the next one   *)
(* of either list; the array of those to discard holds the numbers of ids. *)
SplitTrack(p, c, i) ==
  LET hit == IsNext(c.selected, p.j, i)
      drop == ~hit /\ IsNext(c.discarded, p.k, i)
  IN  [j |-> IF hit THEN p.j + 1 ELSE p.j,
       k |-> IF drop THEN p.k + 1 ELSE p.k,
       states |-> Append(p.states, IF hit THEN "SELECTED"
                                   ELSE IF drop THEN "DISCARD" ELSE "PASSTHROUGH"),
       discards |-> IF drop THEN Append(p.discards, Ids[i]) ELSE p.discards]

Split(c) ==
  LET part[i \in 0 .. preparedTracks] ==
        IF i = 0 THEN [j |-> 1, k |-> 1, states |-> << >>, discards |-> << >>]
        ELSE SplitTrack(part[i - 1], c, i)
  IN  part[preparedTracks]

InState(states, s) == {i \in DOMAIN states : states[i] = s}

(* The ids of a transport stream are "program/number", those of other      *)
(* containers have no "/", or there are none at all.                       *)
IdForms == {"programNumber", "number", "null"}

(* id.equals(...), for the first track of a list, and                      *)
(* Integer.parseInt(id.split("/")[1]), for every track that is discarded.  *)
IdFails(c, form) ==
  \/ form = "null" /\ c # NoChoice
  \/ form = "number" /\ Split(c).discards # << >>

(* Callback.onPrepared, and setSelectedTracks(c). After an exception there *)
(* is nobody to see what was changed before it.                            *)
SetSelectedTracks(c, form) ==
  /\ Calls("waiting") /\ uiMailbox # << >> /\ Head(uiMailbox) = "onPrepared"
  /\ form = "programNumber" \/ named = {}
  /\ IF IdFails(c, form)
     THEN /\ failure' = "noId"
          /\ UNCHANGED <<uiMailbox, chosen, trackStates, tracksToDiscard, tracksSelected, mailbox>>
     ELSE /\ uiMailbox' = Tail(uiMailbox)
          /\ chosen' = c
          /\ trackStates' = Split(c).states /\ tracksToDiscard' = Split(c).discards
          /\ tracksSelected' = TRUE
          /\ Post("selectTracks")
          /\ UNCHANGED failure
  /\ UNCHANGED <<arrays, news, knownAtEnd, announced, extractor, looper, local, ui,
                 dataSource, mediaOutput, transcoderHandler, mediaSource, prepareWhenReady,
                 transcoderRunning, renderers, numOfMuxingStreams, discarded, locking, loop>>

(* discardTracks: the reader of each listed track is told, as long as the  *)
(* list goes along with the tracks; k, and the tracks that were met.       *)
MeetTrack(p, i) ==
  IF p.k <= Len(tracksToDiscard) /\ tracksToDiscard[p.k] = Ids[i]
  THEN [k |-> p.k + 1, tracks |-> p.tracks \cup {i}] ELSE p

Met ==
  LET pass[i \in 0 .. sampleQueues] ==
        IF i = 0 THEN [k |-> 1, tracks |-> {}] ELSE MeetTrack(pass[i - 1], i)
  IN  pass[sampleQueues].tracks

(* A track without a reader is reported, with tracksID[i], which ends      *)
(* before the i-th track when an earlier one is kept.                      *)
BadIndex == \E i \in Met \ named : i > Len(tracksToDiscard)

(* The ids and readers of all queues are looked at.                        *)
ArraysShort == trackIds < sampleQueues \/ readers < sampleQueues

NumOfStreams == preparedTracks - Len(tracksToDiscard)

(* The rest of onSelectedTracks: discard, create renderers, codifications  *)
(* and the output's tracks, tell the UI.                                   *)
CreateRenderers ==
  /\ Receive("selectTracks") /\ ~quit
  /\ failure' = IF ArraysShort THEN "arrayTooShort"
                ELSE IF BadIndex THEN "badIndex"
                ELSE IF muxers = 0 THEN "noMuxer" ELSE "none"
  /\ IF failure' = "none"
     THEN /\ discarded' = Met \cap named
          /\ renderers' = preparedTracks - Cardinality(InState(trackStates, "DISCARD"))
          /\ numOfMuxingStreams' = NumOfStreams
          /\ uiMailbox' = Append(uiMailbox, "onTracksSelected")
     ELSE UNCHANGED <<discarded, renderers, numOfMuxingStreams, uiMailbox>>
  /\ UNCHANGED <<arrays, news, knownAtEnd, announced, extractor, looper, local, ui, fields,
                 trackStates, tracksToDiscard, chosen, locking, loop>>

-----------------------------------------------------------------------------
(* Starting, and the decode-encode loop                                    *)

(* Callback.onTracksSelected, and startTranscoder.                         *)
StartTranscoder ==
  /\ Calls("waiting") /\ uiMailbox # << >> /\ Head(uiMailbox) = "onTracksSelected"
  /\ uiMailbox' = Tail(uiMailbox)
  /\ IF tracksSelected /\ mediaOutput THEN Post("start") ELSE UNCHANGED mailbox
  /\ UNCHANGED <<arrays, news, knownAtEnd, announced, extractor, looper, local, failure, ui,
                 fields, selection, locking, loop>>

(* reallyStartTranscoding, readyToStart: the field is assigned, ...        *)
AssignLoop ==
  /\ Receive("start") /\ ~quit
  /\ transcoderRunning' = TRUE
  /\ decodeEncodeStreams' = TRUE /\ canceled' = FALSE
  /\ looper' = "startingLoop"
  /\ UNCHANGED <<arrays, news, knownAtEnd, announced, extractor, uiMailbox, local, failure, ui,
                 dataSource, mediaOutput, transcoderHandler, mediaSource, prepareWhenReady,
                 tracksSelected, selection, locking, des, quit, stops, stopFound>>

(* ... and read again to start the loop: a stop may have made it null.     *)
StartLoop ==
  /\ Alive /\ looper = "startingLoop"
  /\ looper' = "idle"
  /\ failure' = IF decodeEncodeStreams THEN "none" ELSE "noLoop"
  /\ des' = IF decodeEncodeStreams THEN "running" ELSE des
  /\ UNCHANGED <<arrays, news, knownAtEnd, announced, extractor, mailbox, uiMailbox, local, ui,
                 fields, selection, locking, decodeEncodeStreams, canceled, quit, stops, stopFound>>

(* The loop ends at its end of stream, or when it was canceled; ...        *)
LeaveLoop(endOfStream) ==
  /\ Alive /\ des = "running"
  /\ endOfStream \/ canceled
  /\ des' = "draining"
  /\ UNCHANGED <<preparation, ui, fields, selection, locking, decodeEncodeStreams, canceled,
                 quit, stops, stopFound>>

(* Seeded fault: the looper is left running.                               *)
NoQuit == FALSE

QuitLooper == TRUE

(* ... the drain loop ends too (DecodeEncode), the output is stopped and   *)
(* released, and the looper is told to end.                                *)
EndLoop ==
  /\ Alive /\ des = "draining"
  /\ des' = "ended"
  /\ quit' = QuitLooper
  /\ UNCHANGED <<preparation, ui, fields, selection, locking, decodeEncodeStreams, canceled,
                 stops, stopFound>>

(* stopTranscoder: cancel the loop if there is one, ...                    *)
StopTests ==
  /\ Calls("waiting") /\ stops < MaxStops
  /\ stops' = stops + 1
  /\ stopFound' = (stopFound \/ decodeEncodeStreams)
  /\ canceled' = (canceled \/ decodeEncodeStreams)
  /\ ui' = "clearing"
  /\ UNCHANGED <<preparation, fields, selection, locking, decodeEncodeStreams, des, quit>>

(* ... and decodeEncodeStreams = null, which may by now be another one.    *)
StopClears ==
  /\ Calls("clearing")
  /\ decodeEncodeStreams' = FALSE
  /\ ui' = "waiting"
  /\ UNCHANGED <<preparation, fields, selection, locking, des, canceled, quit, stops, stopFound>>

-----------------------------------------------------------------------------
LifeCycle == <<ui, fields, selection, locking, loop>>

UINext ==
  \/ SetDataSource \/ Start \/ SetOutputSource \/ SyncNext("ui")
  \/ PrepareTests \/ PrepareSetsFlag
  \/ \E c \in Choices, form \in IdForms : SetSelectedTracks(c, form)
  \/ StartTranscoder \/ StopClears

LooperNext ==
  \/ SetHandler \/ CreateSource \/ TestFlag \/ HandlePrepare \/ OnPrepare
  \/ SyncNext("looper")
  \/ ~quit /\ FinishNext /\ UNCHANGED LifeCycle
  \/ CreateRenderers \/ AssignLoop \/ StartLoop

LoopNext == EndLoop \/ LeaveLoop(FALSE)

Next ==
  \/ UINext \/ LooperNext \/ LoopNext \/ LeaveLoop(TRUE) \/ StopTests
  \/ ExtractorNext /\ UNCHANGED LifeCycle

Spec == Init /\ [][Next]_vars

(* The threads are scheduled; when the input ends, and whether anybody     *)
(* stops, is open.                                                         *)
FairSpec == Spec /\ WF_vars(UINext) /\ WF_vars(LooperNext) /\ WF_vars(LoopNext)

-----------------------------------------------------------------------------
(* Every variable has its type.                                            *)
TypeOK ==
  /\ PreparationTypeOK
  /\ looper \in {"starting", "settingHandler", "creatingSource", "testingFlag", "preparing",
                 "synchronized", "idle", "startingLoop", "testing", "testingFormats",
                 "counting", "finishing"}
  /\ failure \in {"none", "noFormat", "noSeekMap", "noDataSource", "alreadyLoading", "noId",
                  "arrayTooShort", "badIndex", "noMuxer", "noLoop"}
  /\ ui \in {"setDataSource", "start", "setOutputSource", "synchronized", "testSource",
             "settingFlag", "waiting", "clearing"}
  /\ dataSource \in BOOLEAN /\ mediaOutput \in BOOLEAN /\ transcoderHandler \in BOOLEAN
  /\ mediaSource \in {"null", "withSource", "withoutSource"}
  /\ prepareWhenReady \in BOOLEAN /\ tracksSelected \in BOOLEAN
  /\ transcoderRunning \in BOOLEAN
  /\ trackStates \in Seq(States) /\ tracksToDiscard \in Seq(Nat)
  /\ renderers \in 0 .. NumTracks /\ numOfMuxingStreams \in -1 .. NumTracks
  /\ discarded \in SUBSET (1 .. NumTracks)
  /\ outputPrepared \in BOOLEAN /\ muxers \in Nat
  /\ monitor \in [BOOLEAN -> Threads \cup {"none"}]
  /\ sync \in [Threads -> [step: {"out", "evaluating", "waiting", "testing", "preparing",
                                 "leaving"}, lock: BOOLEAN]]
  /\ decodeEncodeStreams \in BOOLEAN /\ des \in {"none", "running", "draining", "ended"}
  /\ canceled \in BOOLEAN /\ quit \in BOOLEAN
  /\ stops \in 0 .. MaxStops /\ stopFound \in BOOLEAN

(* Which exceptions end the process, and what must have come before: a     *)
(* track came after endTracks(); the look at the seek map is older than    *)
(* its message, also where it is announced before endTracks(); a stop came *)
(* between the two reads of the field that refers to the loop. The others  *)
(* are those of a data source that was set after start(), of ids the split *)
(* cannot read, and of a discarded track without a reader. Neither is      *)
(* preparation started twice, nor are tracks looked at that are only half  *)
(* published, nor is there no muxer when the tracks are prepared, which    *)
(* would end it, too (MediaSource, onPrepare, onSelectedTracks).           *)
FailsOnlyIf ==
  /\ failure \notin {"alreadyLoading", "arrayTooShort", "noMuxer"}
  /\ failure = "noFormat" => TrackCameLate
  /\ failure = "noSeekMap" =>
       ~seekMap \/ \E i \in DOMAIN mailbox : mailbox[i] = "maybeFinishPrepare"
  /\ failure = "noLoop" => stops > 0

Expected(c, i) ==
  IF i \in Named(c.selected) THEN "SELECTED"
  ELSE IF i \in Named(c.discarded) THEN "DISCARD" ELSE "PASSTHROUGH"

SplitAs(c) == \A i \in 1 .. preparedTracks : trackStates[i] = Expected(c, i)

Ordered(s) == \A i, j \in DOMAIN s : i < j => s[i] < s[j]

(* Lists in the order of available_tracks split the tracks as asked,       *)
(* whatever their ids, and what the loading thread is told to discard      *)
(* later, by the numbers of ids and from arrays that may have grown, are   *)
(* those very tracks. For lists in any order, the output is told as many   *)
(* streams as there are codifications to announce one: otherwise writing   *)
(* never begins (setSelectedTracks, onSelectedTracks, discardTracks,       *)
(* DefaultMediaOutput.maybeStartMuxer).                                    *)
SplitAsAsked ==
  /\ tracksSelected /\ Ordered(chosen.selected) /\ Ordered(chosen.discarded) => SplitAs(chosen)
  /\ numOfMuxingStreams >= 0 =>
       /\ discarded = InState(trackStates, "DISCARD") \cap named
       /\ numOfMuxingStreams = renderers

(* A stop that finds a loop ends it, and the looper, unless it comes       *)
(* between the looper's assignment of the loop and its start: then an      *)
(* exception may end the process (stopTranscoder, readyToStart,            *)
(* DecodeEncodeStreams).                                                   *)
StopEndsLoop == stopFound ~> failure = "noLoop" \/ (des = "ended" /\ quit)

-----------------------------------------------------------------------------
(* A statement of the documentation, which the code does not keep          *)

(* Transcoder, setDataSource: "The caller should then wait for" onPrepared *)
(* "callback". A prepare() begins preparation, sooner or later.            *)
PrepareIsKept == ui = "waiting" ~> ~Alive \/ extractor # "unstarted"
=============================================================================
