---------------------------- MODULE LoadControl ----------------------------
(***************************************************************************)
(* How much is loaded: the loading thread of library/source/MediaSource    *)
(* .java stops at a condition variable after every check interval, and the *)
(* transcoder (library/core/DefaultTranscoder.java) reopens it, from its   *)
(* looper while it prepares, and from its looper and the decode-encode     *)
(* loop when it runs, as long as the memory in use is below a limit. Four  *)
(* threads: the loader, the looper, the decode-encode loop (DES), the UI.  *)
(***************************************************************************)
EXTENDS Integers, Sequences

CONSTANTS
  Interval,   (* continueLoadingCheckIntervalBytes                         *)
  MaxSize,    (* BUFFER_MAX_SIZE                                           *)
  Chunk,      (* Most bytes one call of the extractor reads.               *)
  MaxAlloc,   (* Most memory one call of the extractor takes.              *)
  MaxRead     (* Bound: bytes read from the source in all.                 *)

ASSUME SizesAssumption ==
  /\ Interval \in Nat /\ MaxSize \in Nat \ {0} /\ Chunk \in Nat \ {0}
  /\ MaxAlloc \in Nat /\ MaxRead \in Nat

VARIABLES
  isOpen,              (* loadCondition                                    *)
  loader,              (* What the loading thread does next.               *)
  progress,            (* Bytes read since the last check or seek.         *)
  bytesRead,           (* Bytes read from the source in all.               *)
  allocated,           (* allocator.getTotalBytesAllocated()               *)
  formatsFound,        (* All tracks are known, with their formats.        *)
  prepared, transcoderRunning,
  mailbox,             (* Messages for the looper, oldest first.           *)
  looper, quit,        (* What the looper does; whether it was told to end.*)
  startRequested, canceled,
  des,                 (* What the decode-encode loop does next.           *)
  (* History: bytes read, and seeks that restarted the count, since the    *)
  (* memory in use last was below the limit or transcoding began.          *)
  overBytes, overSeeks

loading == <<loader, progress, bytesRead, formatsFound>>
control == <<prepared, transcoderRunning, looper, quit, startRequested, canceled>>
over == <<overBytes, overSeeks>>
vars == <<isOpen, loading, allocated, control, mailbox, des, over>>

Messages == {"prepare", "maybeFinishPrepare", "continueLoadingRequested", "start"}

Post(m) == mailbox' = Append(mailbox, m)

Init ==
  /\ isOpen = FALSE
  /\ loader = "unstarted"
  /\ progress = 0
  /\ bytesRead = 0
  /\ allocated = 0
  /\ formatsFound = FALSE
  /\ prepared = FALSE
  /\ transcoderRunning = FALSE
  /\ mailbox = <<"prepare">>
  /\ looper = "idle"
  /\ quit = FALSE
  /\ startRequested = FALSE
  /\ canceled = FALSE
  /\ des = "off"
  /\ overBytes = 0
  /\ overSeeks = 0

-----------------------------------------------------------------------------
(* The loading thread: ExtractingLoadable.load                             *)

(* loadCondition.block() returns.                                          *)
Block ==
  /\ loader = "blocked"
  /\ isOpen
  /\ loader' = "reading"
  /\ UNCHANGED <<isOpen, progress, bytesRead, formatsFound, allocated, control, mailbox,
                 des, over>>

(* One call of the extractor reads c bytes, takes a bytes of memory, may   *)
(* find the last format, and may ask for a seek. When the interval is over *)
(* the condition is closed next, which makes a seek's restart of the count *)
(* immaterial.                                                             *)
ReadInput(c, a, finds, seek) ==
  LET read == progress + c
      atLimit == transcoderRunning /\ allocated + a >= MaxSize
  IN  /\ loader = "reading"
      /\ bytesRead + c <= MaxRead
      /\ bytesRead' = bytesRead + c
      /\ allocated' = allocated + a
      /\ formatsFound' = (formatsFound \/ finds)
      /\ IF finds THEN Post("maybeFinishPrepare") ELSE UNCHANGED mailbox
      /\ IF read > Interval
         THEN loader' = "closing" /\ progress' = read
         ELSE loader' = "blocked" /\ progress' = IF seek THEN 0 ELSE read
      /\ overBytes' = IF atLimit THEN overBytes + c ELSE 0
      /\ overSeeks' = IF ~atLimit THEN 0
                      ELSE IF seek /\ read <= Interval THEN overSeeks + 1 ELSE overSeeks
      /\ UNCHANGED <<isOpen, control, des>>

(* The input ends, or reading it fails; the thread reads no more.          *)
EndOrFail ==
  /\ loader = "reading"
  /\ loader' = "ended"
  /\ UNCHANGED <<isOpen, progress, bytesRead, formatsFound, allocated, control, mailbox,
                 des, over>>

(* position = input.getPosition()                                          *)
NewPosition == 0

CloseCondition ==
  /\ loader = "closing"
  /\ loader' = "posting"
  /\ isOpen' = FALSE
  /\ progress' = NewPosition
  /\ UNCHANGED <<bytesRead, formatsFound, allocated, control, mailbox, des, over>>

(* Seeded fault: nothing is asked for before transcoding begins.           *)
PostWhenRunning ==
  mailbox' = IF transcoderRunning THEN Append(mailbox, "continueLoadingRequested") ELSE mailbox

PostRequest == Post("continueLoadingRequested")

RequestMore ==
  /\ loader = "posting"
  /\ loader' = "blocked"
  /\ PostRequest
  /\ UNCHANGED <<isOpen, progress, bytesRead, formatsFound, allocated, control, des, over>>

-----------------------------------------------------------------------------
(* The transcoder's looper                                                 *)

Receive(m) ==
  /\ looper = "idle" /\ ~quit
  /\ mailbox # << >> /\ Head(mailbox) = m
  /\ mailbox' = Tail(mailbox)

(* mediaSource.prepare: opens the condition and starts the loading thread. *)
Prepare ==
  /\ Receive("prepare")
  /\ isOpen' = TRUE
  /\ loader' = "blocked"
  /\ UNCHANGED <<progress, bytesRead, formatsFound, allocated, control, des, over>>

(* The first time every track has a format: loading pauses, and the UI is  *)
(* told to select tracks.                                                  *)
MaybeFinishPrepare ==
  /\ Receive("maybeFinishPrepare")
  /\ IF prepared \/ ~formatsFound
     THEN UNCHANGED <<isOpen, prepared>>
     ELSE isOpen' = FALSE /\ prepared' = TRUE
  /\ UNCHANGED <<loading, allocated, transcoderRunning, looper, quit, startRequested,
                 canceled, des, over>>

(* Seeded faults: the limit is not looked at; loading continues only once  *)
(* transcoding runs.                                                       *)
AlwaysContinue == TRUE
OnlyWhenRunning == transcoderRunning /\ allocated < MaxSize

MayContinue == transcoderRunning => allocated < MaxSize

(* onContinueLoadingRequested looks at the memory in use, and opens the    *)
(* condition in a second step.                                             *)
OnContinueLoadingRequested ==
  /\ Receive("continueLoadingRequested")
  /\ looper' = IF MayContinue THEN "opening" ELSE "idle"
  /\ UNCHANGED <<isOpen, loading, allocated, prepared, transcoderRunning, quit,
                 startRequested, canceled, des, over>>

(* reallyStartTranscoding: starts the decode-encode loop, and opens the    *)
(* condition whatever the memory in use.                                   *)
ReallyStartTranscoding ==
  /\ Receive("start")
  /\ transcoderRunning' = TRUE
  /\ des' = "reading"
  /\ looper' = "opening"
  /\ UNCHANGED <<isOpen, loading, allocated, prepared, quit, startRequested, canceled, over>>

LooperOpens ==
  /\ looper = "opening"
  /\ looper' = "idle"
  /\ isOpen' = TRUE
  /\ UNCHANGED <<loading, allocated, prepared, transcoderRunning, quit, startRequested,
                 canceled, mailbox, des, over>>

-----------------------------------------------------------------------------
(* The decode-encode loop                                                  *)

(* A renderer reads samples, which returns n bytes of memory.              *)
FeedRenderer(n) ==
  /\ des = "reading"
  /\ des' = "checking"
  /\ allocated' = allocated - n
  /\ IF allocated - n < MaxSize
     THEN overBytes' = 0 /\ overSeeks' = 0
     ELSE UNCHANGED over
  /\ UNCHANGED <<isOpen, loading, control, mailbox>>

(* Seeded fault: the loop leaves reopening to the looper.                  *)
LeftToLooper == "reading"

AfterCheck == IF transcoderRunning /\ allocated < MaxSize THEN "opening" ELSE "reading"

CheckMemory ==
  /\ des = "checking"
  /\ des' = AfterCheck
  /\ UNCHANGED <<isOpen, loading, allocated, control, mailbox, over>>

DesOpens ==
  /\ des = "opening"
  /\ des' = "reading"
  /\ isOpen' = TRUE
  /\ UNCHANGED <<loading, allocated, control, mailbox, over>>

(* The loop ends when it was canceled, or when a whole round moved no      *)
(* sample, which the renderers decide; the looper is told to end.          *)
DesEnds ==
  /\ des = "reading"
  /\ des' = "ended"
  /\ quit' = TRUE
  /\ UNCHANGED <<isOpen, loading, allocated, prepared, transcoderRunning, looper,
                 startRequested, canceled, mailbox, over>>

-----------------------------------------------------------------------------
(* The UI, which has been told of the tracks, and starts once.             *)

StartTranscoder ==
  /\ prepared /\ ~startRequested
  /\ startRequested' = TRUE
  /\ Post("start")
  /\ UNCHANGED <<isOpen, loading, allocated, prepared, transcoderRunning, looper, quit,
                 canceled, des, over>>

StopTranscoder ==
  /\ des \notin {"off", "ended"} /\ ~canceled
  /\ canceled' = TRUE
  /\ UNCHANGED <<isOpen, loading, allocated, prepared, transcoderRunning, looper, quit,
                 startRequested, mailbox, des, over>>

-----------------------------------------------------------------------------
ReadNext ==
  \/ \E c \in 1 .. Chunk, a \in 0 .. MaxAlloc, finds, seek \in BOOLEAN :
       ReadInput(c, a, finds, seek)
  \/ EndOrFail

LoaderNext == Block \/ ReadNext \/ CloseCondition \/ RequestMore

LooperNext ==
  \/ Prepare
  \/ MaybeFinishPrepare
  \/ OnContinueLoadingRequested
  \/ ReallyStartTranscoding
  \/ LooperOpens

DesStep == (\E n \in 0 .. allocated : FeedRenderer(n)) \/ CheckMemory \/ DesOpens

DesNext == DesStep \/ DesEnds

UiNext == StartTranscoder \/ StopTranscoder

Next == LoaderNext \/ LooperNext \/ DesNext \/ UiNext

Spec == Init /\ [][Next]_vars

(* Threads are scheduled, the source delivers, a canceled loop ends. That  *)
(* renderers give memory back is not assumed.                              *)
Fairness ==
  /\ WF_vars(LoaderNext)
  /\ WF_vars(LooperNext)
  /\ WF_vars(DesStep)
  /\ SF_vars(canceled /\ DesEnds)

FairSpec == Spec /\ Fairness

-----------------------------------------------------------------------------
(* Every variable has its type; the loader never gets further than one     *)
(* call past the interval between two checks.                              *)
TypeOK ==
  /\ isOpen \in BOOLEAN
  /\ loader \in {"unstarted", "blocked", "reading", "closing", "posting", "ended"}
  /\ progress \in 0 .. Interval + Chunk
  /\ bytesRead \in 0 .. MaxRead
  /\ allocated \in Nat
  /\ formatsFound \in BOOLEAN
  /\ prepared \in BOOLEAN /\ transcoderRunning \in BOOLEAN
  /\ mailbox \in Seq(Messages)
  /\ looper \in {"idle", "opening"} /\ quit \in BOOLEAN
  /\ startRequested \in BOOLEAN /\ canceled \in BOOLEAN
  /\ des \in {"off", "reading", "checking", "opening", "ended"}
  /\ overBytes \in Nat /\ overSeeks \in Nat

(* While transcoding runs and the memory in use is at its limit, at most   *)
(* three more intervals are read, one for each thread that had looked at   *)
(* the memory before it filled, and one after each seek, which restarts    *)
(* the count.                                                              *)
ReadAtLimitBounded == overBytes <= (3 + overSeeks) * (Interval + Chunk)

(* Before the tracks are known, a loader that is held back is never        *)
(* stranded: a request to continue is on its way.                          *)
NotStranded ==
  loader = "blocked" /\ ~isOpen /\ ~prepared =>
    \/ looper = "opening"
    \/ \E i \in DOMAIN mailbox : mailbox[i] = "continueLoadingRequested"

(* Preparation gets to its end: the tracks are known, or the input ends.   *)
PreparationCompletes == <>(prepared \/ loader = "ended")

(* Once started, loading gets to its end unless transcoding ends or, from  *)
(* some time on, the memory in use stays at its limit, as it may when the  *)
(* renderers hold samples back: no wake-up is lost between the check of    *)
(* the memory on either thread, its opening of the condition and the       *)
(* loader's closing (onContinueLoadingRequested, startTranscoding).        *)
LoadingGoesOn ==
  transcoderRunning ~>
    (loader = "ended" \/ des = "ended" \/ [](allocated >= MaxSize))
=============================================================================
