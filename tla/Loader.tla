------------------------------- MODULE Loader -------------------------------
(***************************************************************************)
(* library/network/Loader.java: loads run one at a time on the loader's    *)
(* thread; the looper starts and cancels them, releases the loader and is  *)
(* told how a load ended by a message to the load's own handler. A failed  *)
(* load may be started again, at once or later, as its owner answers.      *)
(*                                                                         *)
(* The looper's calls are atomic with respect to one another, not to the   *)
(* thread. cancel() and run() are split where one may see the other half   *)
(* done. `released` and `canceled` are set in one step: between the two no *)
(* read of the thread's comes out differently.                             *)
(***************************************************************************)
EXTENDS Integers, Sequences, FiniteSets

CONSTANTS
  Loads,       (* The LoadTasks, one for every call of startLoading.       *)
  NoLoad,      (* null                                                     *)
  ReleaseTask, (* Tells the owner, on the thread, that it is released.     *)
  Answers,     (* What onLoadError may answer.                             *)
  MaxErrors    (* Bound: failures of one load.                             *)

AllAnswers == {"null", "dontRetry", "dontRetryFatal", "retry", "retryReset", "retryLater"}

ASSUME LoaderAssumption ==
  /\ NoLoad \notin Loads /\ ReleaseTask \notin Loads /\ ReleaseTask # NoLoad
  /\ Answers \subseteq AllAnswers
  /\ MaxErrors \in Nat

VARIABLES
  currentTask, fatalError,       (* Fields of the Loader; fatalError # null*)
  errorCount, canceled, released, executorThread,      (* of the LoadTasks *)
  delayed,      (* Loads whose MSG_START is in the looper's queue.         *)
  mailbox,      (* Their other messages, oldest first.                     *)
  looper,       (* What is left of the call the looper is in.              *)
  executor,     (* What the thread is to run, oldest first; whether it was *)
  shutdown,     (* told to end after that.                                 *)
  thread,       (* The thread's step, its load, and how the load ended.    *)
  interrupted,  (* The thread's interrupt flag.                            *)
  process,      (* "dead" after an exception nobody caught.                *)
  (* History: loads started, loads cancelLoading was called for, and how   *)
  (* often a load's owner was told that it is over.                        *)
  started, asked, answered

fields == <<currentTask, fatalError, errorCount, canceled, released>>
messages == <<delayed, mailbox>>
running == <<executorThread, thread, interrupted>>
history == <<started, asked, answered>>
vars == <<fields, messages, looper, executor, shutdown, running, process, history>>

Idle == [step |-> "idle", load |-> NoLoad, what |-> "none"]
Ends == {"endOfSource", "ioException", "fatalError"}
Message(l, w) == [load |-> l, what |-> w]

Init ==
  /\ currentTask = NoLoad
  /\ fatalError = FALSE
  /\ errorCount = [l \in Loads |-> 0]
  /\ canceled = [l \in Loads |-> FALSE]
  /\ released = [l \in Loads |-> FALSE]
  /\ executorThread = [l \in Loads |-> FALSE]
  /\ delayed = {}
  /\ mailbox = << >>
  /\ looper = "free"
  /\ executor = << >>
  /\ shutdown = FALSE
  /\ thread = Idle
  /\ interrupted = FALSE
  /\ process = "alive"
  /\ started = {}
  /\ asked = {}
  /\ answered = [l \in Loads |-> 0]

-----------------------------------------------------------------------------
(* Calls on the looper                                                     *)

LooperFree == process = "alive" /\ looper = "free"

(* "should only be called when" no load is in progress: start() checks it. *)
StartLoading(l) ==
  /\ LooperFree /\ ~shutdown
  /\ l \notin started /\ currentTask = NoLoad
  /\ fatalError' = FALSE
  /\ currentTask' = l
  /\ executor' = Append(executor, l)
  /\ started' = started \cup {l}
  /\ UNCHANGED <<errorCount, canceled, released, messages, looper, shutdown, running,
                 process, asked, answered>>

ClearFatalError ==
  /\ LooperFree
  /\ fatalError' = FALSE
  /\ UNCHANGED <<currentTask, errorCount, canceled, released, messages, looper, executor,
                 shutdown, running, process, history>>

(* Seeded fault: a canceled start leaves no message behind.                *)
StartRemovedOnly(l, isRelease) == UNCHANGED mailbox

(* MSG_CANCEL in place of the MSG_START that is taken back.                *)
StartReplaced(l, isRelease) ==
  mailbox' = IF isRelease THEN mailbox ELSE Append(mailbox, Message(l, "cancel"))

(* Seeded fault: a released load is not marked as such.                    *)
NotMarked(l, isRelease) == UNCHANGED released

MarkReleased(l, isRelease) == released' = [released EXCEPT ![l] = isRelease]

MarkCanceled(l) == canceled' = [canceled EXCEPT ![l] = TRUE]

(* LoadTask.cancel, up to the look at executorThread.                      *)
Cancel(l, isRelease) ==
  /\ MarkReleased(l, isRelease)
  /\ IF l \in delayed
     THEN /\ delayed' = delayed \ {l}
          /\ StartReplaced(l, isRelease)
          /\ looper' = IF isRelease THEN "releasing" ELSE "free"
          /\ UNCHANGED canceled
     ELSE /\ MarkCanceled(l)
          /\ looper' = IF isRelease THEN "cancelingToRelease" ELSE "canceling"
          /\ UNCHANGED messages

CancelLoading ==
  /\ LooperFree /\ currentTask # NoLoad
  /\ Cancel(currentTask, FALSE)
  /\ asked' = asked \cup {currentTask}
  /\ UNCHANGED <<currentTask, fatalError, errorCount, executor, shutdown, running, process,
                 started, answered>>

Release ==
  /\ LooperFree /\ ~shutdown
  /\ IF currentTask # NoLoad
     THEN Cancel(currentTask, TRUE)
     ELSE looper' = "releasing" /\ UNCHANGED <<canceled, released, messages>>
  /\ UNCHANGED <<currentTask, fatalError, errorCount, executor, shutdown, running, process,
                 history>>

(* Seeded fault: the thread is left alone.                                 *)
NoInterrupt == UNCHANGED interrupted

(* An interrupt of an idle thread is cleared before its next task.         *)
InterruptThread ==
  interrupted' = (interrupted \/ executorThread[currentTask])

(* The owner is told that the load l is over, for good.                    *)
Tell(l) == answered' = [answered EXCEPT ![l] = @ + 1]

(* Seeded fault: the owner is told at once.                                *)
CancelTells ==
  /\ process = "alive" /\ looper \in {"canceling", "cancelingToRelease"}
  /\ InterruptThread
  /\ looper' = IF looper = "canceling" THEN "free" ELSE "releasing"
  /\ IF looper = "canceling" THEN Tell(currentTask) /\ currentTask' = NoLoad
                             ELSE UNCHANGED <<currentTask, answered>>
  /\ UNCHANGED <<fatalError, errorCount, canceled, released, messages, executor, shutdown,
                 executorThread, thread, process, started, asked>>

(* The rest of cancel(): executorThread.interrupt().                       *)
FinishCancel ==
  /\ process = "alive" /\ looper \in {"canceling", "cancelingToRelease"}
  /\ InterruptThread
  /\ looper' = IF looper = "canceling" THEN "free" ELSE "releasing"
  /\ UNCHANGED <<fields, messages, executor, shutdown, executorThread, thread, process,
                 history>>

(* The rest of release(): onLoadCanceled for a load in progress, the task  *)
(* that tells the owner if it asked for that, and the executor's end.      *)
FinishRelease(tellsOwner) ==
  /\ process = "alive" /\ looper = "releasing"
  /\ currentTask' = NoLoad
  /\ IF currentTask # NoLoad THEN Tell(currentTask) ELSE UNCHANGED answered
  /\ executor' = IF tellsOwner THEN Append(executor, ReleaseTask) ELSE executor
  /\ shutdown' = TRUE
  /\ looper' = "free"
  /\ UNCHANGED <<fatalError, errorCount, canceled, released, messages, running, process,
                 started, asked>>

-----------------------------------------------------------------------------
(* The thread: LoadTask.run                                                *)

(* The executor clears the interrupt flag before it runs a task.           *)
RunTask ==
  /\ process = "alive" /\ thread.step = "idle" /\ executor # << >>
  /\ executor' = Tail(executor)
  /\ interrupted' = FALSE
  /\ thread' = IF Head(executor) = ReleaseTask THEN Idle
               ELSE [Idle EXCEPT !.step = "entered", !.load = Head(executor)]
  /\ UNCHANGED <<fields, messages, looper, shutdown, executorThread, process, history>>

(* Seeded fault: the thread does not make itself known.                    *)
NoThread(l) == UNCHANGED executorThread

(* executorThread = Thread.currentThread()                                 *)
SetThread(l) == executorThread' = [executorThread EXCEPT ![l] = TRUE]

Enter ==
  /\ process = "alive" /\ thread.step = "entered"
  /\ SetThread(thread.load)
  /\ thread' = [thread EXCEPT !.step = "checking"]
  /\ UNCHANGED <<fields, messages, looper, executor, shutdown, interrupted, process, history>>

CheckCanceled ==
  /\ process = "alive" /\ thread.step = "checking"
  /\ thread' = IF canceled[thread.load]
               THEN [thread EXCEPT !.step = "ended", !.what = "endOfSource"]
               ELSE [thread EXCEPT !.step = "loading"]
  /\ UNCHANGED <<fields, messages, looper, executor, shutdown, executorThread, interrupted,
                 process, history>>

(* load() returns, or throws an IOException or anything run() takes for    *)
(* one, or an Error.                                                       *)
LoadEnds(what) ==
  /\ process = "alive" /\ thread.step = "loading"
  /\ what # "endOfSource" => errorCount[thread.load] < MaxErrors
  /\ thread' = [thread EXCEPT !.step = "ended", !.what = what]
  /\ UNCHANGED <<fields, messages, looper, executor, shutdown, executorThread, interrupted,
                 process, history>>

(* load() throws an InterruptedException, which is taken for the answer to *)
(* a cancel: checkState(canceled). If it is not, nothing catches what the  *)
(* check throws.                                                           *)
LoadInterrupted ==
  /\ process = "alive" /\ thread.step = "loading"
  /\ IF canceled[thread.load]
     THEN /\ thread' = [thread EXCEPT !.step = "ended", !.what = "endOfSource"]
          /\ UNCHANGED process
     ELSE thread' = [thread EXCEPT !.step = "checkFailed"] /\ process' = "dead"
  /\ UNCHANGED <<fields, messages, looper, executor, shutdown, executorThread, history>>

(* Blocked or reading, it notices the interrupt.                           *)
NoticesInterrupt ==
  interrupted /\ interrupted' = FALSE /\ LoadInterrupted

(* MediaSource's load() throws one of its own, when no extractor fits.     *)
NoExtractorFits ==
  ~interrupted /\ UNCHANGED interrupted /\ LoadInterrupted

(* if (!released) ...                                                      *)
CheckReleased ==
  /\ process = "alive" /\ thread.step = "ended"
  /\ thread' = IF released[thread.load] THEN Idle ELSE [thread EXCEPT !.step = "sending"]
  /\ UNCHANGED <<fields, messages, looper, executor, shutdown, executorThread, interrupted,
                 process, history>>

(* ... send. An Error is thrown on, which ends the process unless the      *)
(* executor catches it.                                                    *)
SendMessage(caught) ==
  /\ process = "alive" /\ thread.step = "sending"
  /\ mailbox' = Append(mailbox, Message(thread.load, thread.what))
  /\ thread' = Idle
  /\ process' = IF thread.what = "fatalError" /\ ~caught THEN "dead" ELSE "alive"
  /\ UNCHANGED <<fields, delayed, looper, executor, shutdown, executorThread, interrupted,
                 history>>

-----------------------------------------------------------------------------
(* LoadTask.handleMessage                                                  *)

(* Seeded fault: finish() comes before the message is looked at.           *)
FinishedStart(l) ==
  /\ LooperFree /\ l \in delayed
  /\ delayed' = delayed \ {l}
  /\ currentTask' = NoLoad
  /\ executor' = IF released[l] THEN executor ELSE Append(executor, currentTask')
  /\ UNCHANGED <<fatalError, errorCount, canceled, released, mailbox, looper, shutdown,
                 running, process, history>>

(* The delayed MSG_START is due: execute().                                *)
HandleStart(l) ==
  /\ LooperFree /\ l \in delayed
  /\ delayed' = delayed \ {l}
  /\ executor' = IF released[l] THEN executor ELSE Append(executor, currentTask)
  /\ UNCHANGED <<fields, mailbox, looper, shutdown, running, process, history>>

Take(m) == /\ LooperFree /\ mailbox # << >> /\ m = Head(mailbox)
           /\ mailbox' = Tail(mailbox)
           /\ UNCHANGED <<looper, shutdown, running, released, canceled, started, asked>>

(* A message of a load that was released is ignored.                       *)
HandleReleased(m) ==
  /\ Take(m) /\ released[m.load]
  /\ UNCHANGED <<currentTask, fatalError, errorCount, delayed, executor, process, answered>>

(* The Error is thrown on the looper as well.                              *)
HandleFatal(m) ==
  /\ Take(m) /\ ~released[m.load] /\ m.what = "fatalError"
  /\ process' = "dead"
  /\ UNCHANGED <<currentTask, fatalError, errorCount, delayed, executor, answered>>

(* finish(), then onLoadCanceled or onLoadCompleted, which may throw.      *)
HandleOver(m, throws) ==
  /\ Take(m) /\ ~released[m.load] /\ m.what # "fatalError"
  /\ canceled[m.load] \/ m.what \in {"cancel", "endOfSource"}
  /\ currentTask' = NoLoad
  /\ Tell(m.load)
  /\ throws => ~canceled[m.load] /\ m.what = "endOfSource"
  /\ fatalError' = (fatalError \/ throws)
  /\ UNCHANGED <<errorCount, delayed, executor, process>>

(* getRetryDelayMillis(): none after the first error.                      *)
StartsLater(answer, count) == answer = "retryLater" \/ (answer = "retry" /\ count > 1)

(* finish(), onLoadError and what it answers: another start(), or none.    *)
HandleError(m, answer) ==
  LET count == errorCount[m.load] + 1
      retry == answer \in {"retry", "retryReset", "retryLater"}
  IN  /\ Take(m) /\ ~released[m.load] /\ ~canceled[m.load] /\ m.what = "ioException"
      /\ errorCount' = [errorCount EXCEPT ![m.load] =
                          IF answer = "retryReset" THEN 1 ELSE count]
      /\ fatalError' = (fatalError \/ answer = "dontRetryFatal")
      /\ currentTask' = IF retry THEN m.load ELSE NoLoad
      /\ delayed' = IF retry /\ StartsLater(answer, count) THEN delayed \cup {m.load} ELSE delayed
      /\ executor' = IF retry /\ ~StartsLater(answer, count)
                     THEN Append(executor, m.load) ELSE executor
      /\ IF retry THEN UNCHANGED answered ELSE Tell(m.load)
      /\ UNCHANGED process

-----------------------------------------------------------------------------
CallNext ==
  \/ \E l \in Loads : StartLoading(l)
  \/ ClearFatalError
  \/ CancelLoading
  \/ Release

FinishNext ==
  \/ FinishCancel
  \/ \E tellsOwner \in BOOLEAN : FinishRelease(tellsOwner)

HandleNext ==
  \/ \E l \in Loads : HandleStart(l)
  \/ \E l \in Loads, what \in Ends \cup {"cancel"} :
       \/ HandleReleased(Message(l, what))
       \/ HandleFatal(Message(l, what))
       \/ \E throws \in BOOLEAN : HandleOver(Message(l, what), throws)
       \/ \E answer \in Answers : HandleError(Message(l, what), answer)

ThreadNext ==
  \/ RunTask
  \/ Enter
  \/ CheckCanceled
  \/ NoticesInterrupt
  \/ CheckReleased
  \/ \E caught \in BOOLEAN : SendMessage(caught)

LoadNext == (\E what \in Ends : LoadEnds(what)) \/ NoExtractorFits

Next == CallNext \/ FinishNext \/ HandleNext \/ ThreadNext \/ LoadNext

Spec == Init /\ [][Next]_vars

(* Both threads are scheduled. The calls are made from messages of the     *)
(* same looper, so they cannot keep it from a load's message for ever. A   *)
(* load need not end by itself: it may wait for its condition; only an     *)
(* interrupt is sure to end it.                                            *)
FairSpec ==
  Spec /\ WF_vars(FinishNext) /\ SF_vars(HandleNext) /\ WF_vars(ThreadNext)

-----------------------------------------------------------------------------
(* Every variable has its type.                                            *)
TypeOK ==
  /\ currentTask \in Loads \cup {NoLoad}
  /\ fatalError \in BOOLEAN
  /\ errorCount \in [Loads -> Nat]
  /\ canceled \in [Loads -> BOOLEAN]
  /\ released \in [Loads -> BOOLEAN]
  /\ executorThread \in [Loads -> BOOLEAN]
  /\ delayed \in SUBSET Loads
  /\ mailbox \in Seq([load: Loads, what: Ends \cup {"cancel"}])
  /\ looper \in {"free", "canceling", "cancelingToRelease", "releasing"}
  /\ executor \in Seq(Loads \cup {ReleaseTask})
  /\ shutdown \in BOOLEAN
  /\ thread \in [step: {"idle", "entered", "checking", "loading", "ended", "sending",
                        "checkFailed"},
                 load: Loads \cup {NoLoad}, what: Ends \cup {"none"}]
  /\ interrupted \in BOOLEAN
  /\ process \in {"alive", "dead"}
  /\ started \in SUBSET Loads
  /\ asked \in SUBSET Loads
  /\ answered \in [Loads -> Nat]

(* What is under way for a load: waiting to start, queued for the thread,  *)
(* on it, or an end the looper has yet to hear of.                         *)
Queued(l) == \E i \in DOMAIN executor : executor[i] = l
Told(l) == \E i \in DOMAIN mailbox : mailbox[i].load = l
UnderWay(l) == l \in delayed \/ Queued(l) \/ thread.load = l \/ Told(l)

(* isLoading() does not say so for ever: something is under way for the    *)
(* current load, and for no other unless the loader was released.          *)
CurrentIsUnderWay ==
  process = "alive" =>
    \A l \in Loads : ~released[l] => (UnderWay(l) <=> currentTask = l)

(* The owner of a load is told at most once that it is over; a load that   *)
(* it was told of is not started again.                                    *)
AnsweredOnce ==
  \A l \in Loads : /\ answered[l] <= 1
                   /\ answered[l] = 1 => currentTask # l /\ l \notin delayed

(* A cancel reaches a load that runs: the look at executorThread and the   *)
(* thread's look at `canceled` cannot both come too early. And an interrupt*)
(* is for the load that is canceled: none is left over for the thread's    *)
(* next load, nor comes before `canceled` is set, which the check of an    *)
(* InterruptedException would take for nobody's cancel.                    *)
InterruptMeetsCancel ==
  /\ looper = "free" /\ process = "alive" /\ thread.step = "loading" /\ canceled[thread.load] =>
       interrupted
  /\ interrupted /\ thread.step \in {"entered", "checking", "loading"} => canceled[thread.load]

(* "If the Loader has not been released then there is guaranteed to be a   *)
(* memory barrier between load() exiting and this callback": the thread is *)
(* not, and will not be, in a load whose owner is told that it is over.    *)
ToldAfterLoad ==
  [][\A l \in Loads : answered'[l] # answered[l] /\ ~released[l] =>
       thread'.load # l /\ \A i \in DOMAIN executor' : executor'[i] # l]_vars

(* A cancel is answered, also one that meets a retry, a start or an end.   *)
CancelAnswered ==
  \A l \in Loads : l \in asked ~> answered[l] = 1 \/ process = "dead"
=============================================================================
