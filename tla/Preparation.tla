---------------------------- MODULE Preparation ----------------------------
(***************************************************************************)
(* source/MediaSource.java while it prepares: the loading thread announces *)
(* tracks, formats, the end of the tracks and the seek map; every news is  *)
(* followed by a message to the looper, which announces the tracks when    *)
(* all is known (maybeFinishPrepare). Nothing is locked.                   *)
(*                                                                         *)
(* The three arrays of tracks only grow, so they are their lengths. What   *)
(* the looper reads in separate statements is read in separate steps. A    *)
(* format, the end of the tracks and the seek map come in one step with    *)
(* their message: a look between the two finds the news like one before    *)
(* it, and the message comes all the same. A load that has ended or failed *)
(* is one that says no more.                                               *)
(***************************************************************************)
EXTENDS Integers, Sequences, FiniteSets

CONSTANTS
  NumTracks,   (* Bound: tracks of the input.                              *)
  LateTracks   (* Whether tracks may come after endTracks().               *)

ASSUME TracksAssumption == NumTracks \in Nat /\ LateTracks \in BOOLEAN

VARIABLES
  trackIds, readers, sampleQueues,   (* Lengths of the arrays.             *)
  named,                             (* Tracks whose reader is not null.   *)
  formats,                           (* Tracks with an upstream format.    *)
  seekMap, sampleQueuesBuilt, prepared,
  preparedTracks,                    (* preparedState.tracks.length        *)
  extractor,   (* What the loading thread does next.                       *)
  mailbox,     (* Messages for the looper, oldest first.                   *)
  uiMailbox,   (* Messages for the UI thread.                              *)
  looper,      (* What the looper does next.                               *)
  local,       (* Its local variables seekMap and trackCount.              *)
  failure,     (* The exception that ended the process.                    *)
  knownAtEnd   (* History: the tracks there were at the first endTracks(). *)

arrays == <<trackIds, readers, sampleQueues, named>>
news == <<formats, seekMap, sampleQueuesBuilt>>
announced == <<prepared, preparedTracks>>
preparation == <<arrays, news, knownAtEnd, announced, extractor, mailbox, uiMailbox, looper,
                 local, failure>>

PreparationInit ==
  /\ trackIds = 0 /\ readers = 0 /\ sampleQueues = 0 /\ named = {}
  /\ formats = {}
  /\ seekMap = FALSE /\ sampleQueuesBuilt = FALSE
  /\ prepared = FALSE /\ preparedTracks = 0
  /\ extractor = "unstarted"
  /\ mailbox = << >> /\ uiMailbox = << >>
  /\ looper = "starting"
  /\ local = [seekMap |-> FALSE, trackCount |-> 0]
  /\ failure = "none"
  /\ knownAtEnd = 0

Alive == failure = "none"
Post(m) == mailbox' = Append(mailbox, m)

-----------------------------------------------------------------------------
(* The loading thread                                                      *)

Extracts == Alive /\ extractor = "extracting"

(* prepareTrackOutput, for an id that is new: three assignments.           *)
Track ==
  /\ Extracts
  /\ trackIds < NumTracks
  /\ sampleQueuesBuilt => LateTracks
  /\ trackIds' = trackIds + 1
  /\ extractor' = "addingReader"
  /\ UNCHANGED <<readers, sampleQueues, named, news, knownAtEnd, announced, mailbox, uiMailbox, looper,
                 local, failure>>

(* Most extractors name no reader.                                         *)
AddReader(isNull) ==
  /\ Alive /\ extractor = "addingReader"
  /\ readers' = readers + 1
  /\ named' = IF isNull THEN named ELSE named \cup {readers'}
  /\ extractor' = "addingQueue"
  /\ UNCHANGED <<trackIds, sampleQueues, news, knownAtEnd, announced, mailbox, uiMailbox, looper,
                 local, failure>>

AddQueue ==
  /\ Alive /\ extractor = "addingQueue"
  /\ sampleQueues' = sampleQueues + 1
  /\ extractor' = "extracting"
  /\ UNCHANGED <<trackIds, readers, named, news, knownAtEnd, announced, mailbox, uiMailbox, looper,
                 local, failure>>

OnUpstreamFormatChanged(t) ==
  /\ Extracts
  /\ t <= sampleQueues /\ t \notin formats
  /\ formats' = formats \cup {t}
  /\ Post("maybeFinishPrepare")
  /\ UNCHANGED <<arrays, seekMap, sampleQueuesBuilt, knownAtEnd, announced, extractor, uiMailbox,
                 looper, local, failure>>

(* Seeded fault: nobody looks at what the end of the tracks completes.     *)
EndUnnoticed == UNCHANGED mailbox

EndPosted == Post("maybeFinishPrepare")

EndTracks ==
  /\ Extracts
  /\ ~sampleQueuesBuilt
  /\ sampleQueuesBuilt' = TRUE
  /\ EndPosted
  /\ knownAtEnd' = sampleQueues
  /\ UNCHANGED <<arrays, formats, seekMap, announced, extractor, uiMailbox, looper, local,
                 failure>>

(* A call after tracks that came late. Bound: none while a message waits.  *)
EndTracksAgain ==
  /\ Extracts
  /\ sampleQueuesBuilt /\ knownAtEnd < sampleQueues
  /\ ~ \E i \in DOMAIN mailbox : mailbox[i] = "maybeFinishPrepare"
  /\ Post("maybeFinishPrepare")
  /\ UNCHANGED <<arrays, news, knownAtEnd, announced, extractor, uiMailbox, looper, local,
                 failure>>

SeekMap ==
  /\ Extracts
  /\ ~seekMap
  /\ seekMap' = TRUE
  /\ Post("maybeFinishPrepare")
  /\ UNCHANGED <<arrays, formats, sampleQueuesBuilt, knownAtEnd, announced, extractor, uiMailbox,
                 looper, local, failure>>

ExtractorNext ==
  \/ Track \/ (\E isNull \in BOOLEAN : AddReader(isNull)) \/ AddQueue
  \/ \E t \in 1 .. NumTracks : OnUpstreamFormatChanged(t)
  \/ EndTracks \/ EndTracksAgain \/ SeekMap

-----------------------------------------------------------------------------
(* The looper: maybeFinishPrepare                                          *)

Receive(m) ==
  /\ Alive /\ looper = "idle"
  /\ mailbox # << >> /\ Head(mailbox) = m
  /\ mailbox' = Tail(mailbox)

(* SeekMap seekMap = this.seekMap                                          *)
ReadSeekMap ==
  /\ Receive("maybeFinishPrepare")
  /\ local' = [local EXCEPT !.seekMap = seekMap]
  /\ looper' = "testing"
  /\ UNCHANGED <<arrays, news, knownAtEnd, announced, extractor, uiMailbox, failure>>

(* Seeded fault: the end of the tracks is not waited for.                  *)
OnlyOnce == ~prepared

MayFinish == ~prepared /\ sampleQueuesBuilt

(* The loop over the queues iterates over the array it started with.       *)
TestState ==
  /\ Alive /\ looper = "testing"
  /\ looper' = IF MayFinish THEN "testingFormats" ELSE "idle"
  /\ local' = [local EXCEPT !.trackCount = sampleQueues]
  /\ UNCHANGED <<arrays, news, knownAtEnd, announced, extractor, mailbox, uiMailbox, failure>>

(* Seeded fault: one format is enough.                                     *)
SomeFormat == local.trackCount = 0 \/ formats # {}

AllFormats == 1 .. local.trackCount \subseteq formats

TestFormats ==
  /\ Alive /\ looper = "testingFormats"
  /\ looper' = IF AllFormats THEN "counting" ELSE "idle"
  /\ UNCHANGED <<arrays, news, knownAtEnd, announced, extractor, mailbox, uiMailbox, local,
                 failure>>

(* trackCount = sampleQueues.length: the array there is now.               *)
CountTracks ==
  /\ Alive /\ looper = "counting"
  /\ local' = [local EXCEPT !.trackCount = sampleQueues]
  /\ looper' = "finishing"
  /\ UNCHANGED <<arrays, news, knownAtEnd, announced, extractor, mailbox, uiMailbox, failure>>

(* The formats and the duration are read through what may be null.         *)
FinishPrepare ==
  LET count == local.trackCount
      known == 1 .. count \subseteq formats
  IN  /\ Alive /\ looper = "finishing"
      /\ looper' = "idle"
      /\ failure' = IF ~known THEN "noFormat"
                    ELSE IF ~local.seekMap THEN "noSeekMap" ELSE "none"
      /\ IF known /\ local.seekMap
         THEN /\ prepared' = TRUE /\ preparedTracks' = count
              /\ uiMailbox' = Append(uiMailbox, "onPrepared")
         ELSE UNCHANGED <<announced, uiMailbox>>
      /\ UNCHANGED <<arrays, news, knownAtEnd, extractor, mailbox, local>>

FinishNext ==
  ReadSeekMap \/ TestState \/ TestFormats \/ CountTracks \/ FinishPrepare

-----------------------------------------------------------------------------
PreparationTypeOK ==
  /\ trackIds \in 0 .. NumTracks
  /\ readers \in 0 .. NumTracks
  /\ sampleQueues \in 0 .. NumTracks
  /\ named \in SUBSET (1 .. NumTracks) /\ formats \in SUBSET (1 .. NumTracks)
  /\ seekMap \in BOOLEAN /\ sampleQueuesBuilt \in BOOLEAN /\ prepared \in BOOLEAN
  /\ preparedTracks \in 0 .. NumTracks
  /\ extractor \in {"unstarted", "extracting", "addingReader", "addingQueue"}
  /\ mailbox \in Seq({"onPrepare", "maybeFinishPrepare", "selectTracks", "start"})
  /\ uiMailbox \in Seq({"onPrepared", "onTracksSelected"})
  /\ local \in [seekMap: BOOLEAN, trackCount: 0 .. NumTracks]
  /\ knownAtEnd \in 0 .. NumTracks

TrackCameLate == sampleQueuesBuilt /\ trackIds > knownAtEnd

(* What is announced is complete: every track there was when the extractor *)
(* said that there are no more, each with its format, in whatever order    *)
(* the news came and however often preparation was looked at               *)
(* (maybeFinishPrepare).                                                   *)
AnnouncedComplete ==
  prepared => knownAtEnd <= preparedTracks /\ 1 .. preparedTracks \subseteq formats

Complete == /\ extractor # "addingReader" /\ extractor # "addingQueue"
            /\ sampleQueuesBuilt /\ seekMap
            /\ 1 .. sampleQueues \subseteq formats

(* No news goes unnoticed: once the extractor has said everything, the     *)
(* tracks are announced, whichever news came last and whatever the looper  *)
(* was doing then, unless an exception ended the process.                  *)
PreparationAnswered == <>[]Complete => <>(prepared \/ ~Alive)
=============================================================================
