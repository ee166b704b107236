---------------------------- MODULE LoaderProofs ----------------------------
(***************************************************************************)
(* Proofs about Loader, for any number of loads and of failures: something *)
(* is under way for the current load and for no other; an owner is told    *)
(* once, and only when its load is off the thread; a cancel and the load   *)
(* it is for do not miss each other.                                       *)
(***************************************************************************)
EXTENDS Loader, SequenceTheorems, TLAPS

(* A load is in one place at a time.                                       *)
ExecutorOnce ==
  \A i, j \in 1 .. Len(executor) : executor[i] = executor[j] /\ executor[i] \in Loads => i = j

MailboxOnce == \A i, j \in 1 .. Len(mailbox) : mailbox[i].load = mailbox[j].load => i = j

PlaceInv ==
  /\ ExecutorOnce /\ MailboxOnce
  /\ \A l \in Loads :
       /\ l \in delayed => ~Queued(l) /\ thread.load # l /\ ~Told(l)
       /\ Queued(l) => thread.load # l /\ ~Told(l)
       /\ thread.load = l => ~Told(l)

(* It was started, and is the current one until it is answered.            *)
CurrentInv ==
  \A l \in Loads :
    /\ process = "alive" /\ ~released[l] => (UnderWay(l) <=> currentTask = l)
    /\ UnderWay(l) \/ currentTask = l \/ answered[l] # 0 \/ released[l] => l \in started
    /\ l \in delayed => currentTask = l /\ ~released[l]
    /\ currentTask = l => answered[l] = 0
    /\ answered[l] <= 1

(* A load is released only with the loader.                                *)
ReleaseInv ==
  /\ \A l \in Loads : released[l] =>
       shutdown \/ (currentTask = l /\ looper \in {"cancelingToRelease", "releasing"})
  /\ \A l \in Loads : currentTask = l /\ looper \in {"cancelingToRelease", "releasing"} => released[l]
  /\ looper \in {"canceling", "cancelingToRelease"} => currentTask \in Loads /\ canceled[currentTask]
  /\ shutdown => currentTask = NoLoad /\ looper = "free"

(* The thread is known to the load it runs.                                *)
ThreadInv ==
  /\ thread.step = "idle" <=> thread.load = NoLoad
  /\ thread.step \in {"ended", "sending"} => thread.what \in Ends
  /\ thread.step \in {"checking", "loading"} => executorThread[thread.load]
  /\ looper \in {"free", "releasing"} /\ process = "alive" /\ thread.step = "loading"
       /\ canceled[thread.load] => interrupted
  /\ interrupted /\ thread.step \in {"entered", "checking", "loading"} => canceled[thread.load]

Inv == TypeOK /\ PlaceInv /\ CurrentInv /\ ReleaseInv /\ ThreadInv

-----------------------------------------------------------------------------
(* Types                                                                   *)

Steps == {"idle", "entered", "checking", "loading", "ended", "sending", "checkFailed"}

Messages == [load: Loads, what: Ends \cup {"cancel"}]

LEMMA AppendElements ==
  ASSUME NEW S, NEW s \in Seq(S), NEW e \in S
  PROVE  /\ Append(s, e) \in Seq(S)
         /\ Len(s) \in Nat /\ Len(Append(s, e)) = Len(s) + 1
         /\ DOMAIN s = 1 .. Len(s) /\ DOMAIN Append(s, e) = 1 .. Len(s) + 1
         /\ \A i \in 1 .. Len(s) : Append(s, e)[i] = s[i]
         /\ Append(s, e)[Len(s) + 1] = e
  OBVIOUS

LEMMA HeadAndTail ==
  ASSUME NEW S, NEW s \in Seq(S), s # << >>
  PROVE  /\ Head(s) \in S /\ Tail(s) \in Seq(S) /\ Head(s) = s[1]
         /\ Len(s) \in Nat \ {0} /\ Len(Tail(s)) = Len(s) - 1
         /\ DOMAIN s = 1 .. Len(s) /\ DOMAIN Tail(s) = 1 .. Len(s) - 1
         /\ \A i \in 1 .. Len(s) - 1 : Tail(s)[i] = s[i + 1]
  OBVIOUS

LEMMA NoLoadIsNone == NoLoad \notin Loads /\ ReleaseTask \notin Loads /\ ReleaseTask # NoLoad
  BY LoaderAssumption

LEMMA ThreadLoad ==
  ASSUME TypeOK, ThreadInv, thread.step # "idle"
  PROVE  thread.load \in Loads
  BY DEF TypeOK, ThreadInv

LEMMA CancelType ==
  ASSUME TypeOK, NEW l \in Loads, NEW b \in BOOLEAN, Cancel(l, b)
  PROVE  /\ released' \in [Loads -> BOOLEAN] /\ canceled' \in [Loads -> BOOLEAN]
         /\ delayed' \in SUBSET Loads
         /\ mailbox' \in Seq(Messages)
         /\ looper' \in {"free", "canceling", "cancelingToRelease", "releasing"}
  <1>1. released' \in [Loads -> BOOLEAN]
    BY DEF Cancel, MarkReleased, TypeOK
  <1>2. Message(l, "cancel") \in Messages /\ mailbox \in Seq(Messages)
    BY DEF Message, Messages, TypeOK
  <1>3. CASE l \in delayed
    <2>1. mailbox' = mailbox \/ mailbox' = Append(mailbox, Message(l, "cancel"))
      BY <1>3 DEF Cancel, StartReplaced
    <2>2. /\ canceled' = canceled /\ delayed' = delayed \ {l}
          /\ looper' \in {"releasing", "free"}
      BY <1>3 DEF Cancel
    <2>3. mailbox' \in Seq(Messages)
      BY <1>2, <2>1, AppendElements
    <2> QED
      BY <1>1, <2>2, <2>3 DEF TypeOK
  <1>4. CASE l \notin delayed
    <2>1. /\ canceled' = [canceled EXCEPT ![l] = TRUE]
          /\ looper' \in {"cancelingToRelease", "canceling"}
          /\ delayed' = delayed /\ mailbox' = mailbox
      BY <1>4 DEF Cancel, MarkCanceled, messages
    <2>2. canceled' \in [Loads -> BOOLEAN]
      BY <2>1 DEF TypeOK
    <2> QED
      BY <1>1, <1>2, <2>1, <2>2 DEF TypeOK
  <1> QED
    BY <1>3, <1>4

LEMMA CallType == ASSUME TypeOK, CallNext PROVE TypeOK'
  <1>1. ASSUME NEW l \in Loads, StartLoading(l) PROVE TypeOK'
    <2>1. executor' \in Seq(Loads \cup {ReleaseTask})
      BY <1>1, AppendElements DEF StartLoading, TypeOK
    <2> QED
      BY <1>1, <2>1 DEF StartLoading, messages, running, TypeOK
  <1>2. CASE ClearFatalError
    <2>1. fatalError' \in BOOLEAN /\ UNCHANGED <<messages, running, history>>
          /\ UNCHANGED <<currentTask, errorCount, canceled, released, looper, executor, shutdown,
                         process>>
      BY <1>2 DEF ClearFatalError
    <2> QED
      BY <2>1 DEF messages, running, history, TypeOK
  <1>3. CASE CancelLoading
    <2>1. currentTask \in Loads /\ Cancel(currentTask, FALSE)
      BY <1>3 DEF CancelLoading, TypeOK
    <2>2. asked' \in SUBSET Loads
      BY <1>3, <2>1 DEF CancelLoading, TypeOK
    <2>3. /\ released' \in [Loads -> BOOLEAN] /\ canceled' \in [Loads -> BOOLEAN]
          /\ delayed' \in SUBSET Loads
          /\ mailbox' \in Seq(Messages)
          /\ looper' \in {"free", "canceling", "cancelingToRelease", "releasing"}
      BY <2>1, CancelType
    <2>4. UNCHANGED <<currentTask, fatalError, errorCount, executor, shutdown, running, process,
                      started, answered>>
      BY <1>3 DEF CancelLoading
    <2> QED
      BY <2>2, <2>3, <2>4 DEF Messages, running, TypeOK
  <1>4. CASE Release
    <2>1. CASE currentTask # NoLoad
      <3>1. currentTask \in Loads /\ Cancel(currentTask, TRUE)
        BY <1>4, <2>1 DEF Release, TypeOK
      <3> QED
        BY <1>4, <3>1, CancelType DEF Messages, Release, running, history, TypeOK
    <2>2. CASE currentTask = NoLoad
      BY <1>4, <2>2 DEF Release, messages, running, history, TypeOK
    <2> QED
      BY <2>1, <2>2
  <1> QED
    BY <1>1, <1>2, <1>3, <1>4 DEF CallNext

LEMMA FinishType == ASSUME TypeOK, ReleaseInv, FinishNext PROVE TypeOK'
  <1>1. CASE FinishCancel
    <2>1. currentTask \in Loads
      BY <1>1 DEF FinishCancel, ReleaseInv
    <2>2. interrupted' \in BOOLEAN
      <3>1. executorThread[currentTask] \in BOOLEAN /\ interrupted \in BOOLEAN
        BY <2>1 DEF TypeOK
      <3>2. interrupted' = (interrupted \/ executorThread[currentTask])
        BY <1>1, Zenon DEF FinishCancel, InterruptThread
      <3> QED
        BY <3>1, <3>2, Zenon
    <2>3. looper' \in {"free", "releasing"}
      BY <1>1 DEF FinishCancel
    <2> QED
      BY <1>1, <2>2, <2>3 DEF FinishCancel, fields, messages, history, TypeOK
  <1>2. ASSUME NEW tells \in BOOLEAN, FinishRelease(tells) PROVE TypeOK'
    <2>1. answered' \in [Loads -> Nat]
      <3>1. CASE currentTask # NoLoad
        <4>1. currentTask \in Loads /\ answered' = [answered EXCEPT ![currentTask] = @ + 1]
          BY <1>2, <3>1 DEF FinishRelease, Tell, TypeOK
        <4> QED
          BY <4>1 DEF TypeOK
      <3>2. CASE currentTask = NoLoad
        BY <1>2, <3>2 DEF FinishRelease, TypeOK
      <3> QED
        BY <3>1, <3>2
    <2>2. executor' \in Seq(Loads \cup {ReleaseTask})
      BY <1>2 DEF FinishRelease, TypeOK
    <2> QED
      BY <1>2, <2>1, <2>2 DEF FinishRelease, messages, running, TypeOK
  <1> QED
    BY <1>1, <1>2 DEF FinishNext

LEMMA HandleType == ASSUME TypeOK, CurrentInv, HandleNext PROVE TypeOK'
  <1>1. ASSUME NEW l \in Loads, HandleStart(l) PROVE TypeOK'
    <2>1. executor' \in Seq(Loads \cup {ReleaseTask})
      <3>1. currentTask = l
        BY <1>1 DEF HandleStart, CurrentInv
      <3> QED
        BY <1>1, <3>1 DEF HandleStart, TypeOK
    <2> QED
      BY <1>1, <2>1 DEF HandleStart, fields, running, history, TypeOK
  <1>2. ASSUME NEW m, Take(m)
        PROVE  /\ mailbox' \in Seq(Messages) /\ m.load \in Loads
               /\ UNCHANGED <<looper, shutdown, running, released, canceled, started, asked>>
    <2>1. mailbox \in Seq(Messages)
      BY DEF TypeOK, Messages
    <2>2. mailbox' = Tail(mailbox) /\ mailbox # << >> /\ m = Head(mailbox)
      BY <1>2 DEF Take
    <2>3. m \in Messages /\ mailbox' \in Seq(Messages)
      BY <2>1, <2>2, HeadAndTail
    <2> QED
      BY <1>2, <2>3 DEF Take, Messages
  <1>3. ASSUME NEW m, HandleReleased(m) PROVE TypeOK'
    BY <1>2, <1>3 DEF Messages, HandleReleased, running, TypeOK
  <1>4. ASSUME NEW m, HandleFatal(m) PROVE TypeOK'
    BY <1>2, <1>4 DEF Messages, HandleFatal, running, TypeOK
  <1>5. ASSUME NEW m, NEW throws \in BOOLEAN, HandleOver(m, throws) PROVE TypeOK'
    <2>1. Take(m)
      BY <1>5 DEF HandleOver
    <2>2. answered' \in [Loads -> Nat]
      BY <1>2, <1>5, <2>1 DEF HandleOver, Tell, TypeOK
    <2>3. fatalError' \in BOOLEAN
      BY <1>5, Zenon DEF HandleOver, TypeOK
    <2> QED
      BY <1>2, <1>5, <2>1, <2>2, <2>3 DEF Messages, HandleOver, running, TypeOK
  <1>6. ASSUME NEW m, NEW answer \in Answers, HandleError(m, answer) PROVE TypeOK'
    <2>1. Take(m) /\ m.load \in Loads
      BY <1>2, <1>6 DEF HandleError
    <2>2. errorCount' \in [Loads -> Nat]
      <3>1. errorCount[m.load] + 1 \in Nat
        BY <2>1 DEF TypeOK
      <3> QED
        BY <1>6, <2>1, <3>1 DEF HandleError, TypeOK
    <2>3. fatalError' \in BOOLEAN
      BY <1>6, Zenon DEF HandleError, TypeOK
    <2>4. currentTask' \in Loads \cup {NoLoad}
      BY <1>6, <2>1 DEF HandleError
    <2>5. delayed' \in SUBSET Loads /\ executor' \in Seq(Loads \cup {ReleaseTask})
      BY <1>6, <2>1 DEF HandleError, TypeOK
    <2>6. answered' \in [Loads -> Nat]
      <3>1. answered' = answered \/ answered' = [answered EXCEPT ![m.load] = @ + 1]
        BY <1>6 DEF HandleError, Tell
      <3>2. CASE answered' = answered
        BY <3>2 DEF TypeOK
      <3>3. CASE answered' = [answered EXCEPT ![m.load] = @ + 1]
        BY <2>1, <3>3 DEF TypeOK
      <3> QED
        BY <3>1, <3>2, <3>3
    <2>7. process' = process
      BY <1>6 DEF HandleError
    <2> QED
      BY <1>2, <2>1, <2>2, <2>3, <2>4, <2>5, <2>6, <2>7 DEF Messages, running, TypeOK
  <1> QED
    BY <1>1, <1>3, <1>4, <1>5, <1>6 DEF HandleNext

LEMMA ThreadType == ASSUME TypeOK, ThreadInv, ThreadNext \/ LoadNext PROVE TypeOK'
  <1> DEFINE Threads == [step: Steps, load: Loads \cup {NoLoad}, what: Ends \cup {"none"}]
  <1>1. thread \in Threads
    BY DEF TypeOK, Steps
  <1>2. CASE RunTask
    <2>1. executor' \in Seq(Loads \cup {ReleaseTask}) /\ Head(executor) \in Loads \cup {ReleaseTask}
      BY <1>2 DEF RunTask, TypeOK
    <2>2. thread' \in Threads
      BY <1>2, <2>1 DEF RunTask, Idle, Steps
    <2> QED
      BY <1>2, <2>1, <2>2 DEF RunTask, fields, messages, history, TypeOK, Steps
  <1>3. CASE Enter
    <2>1. thread' \in Threads /\ executorThread' \in [Loads -> BOOLEAN]
      BY <1>1, <1>3 DEF Enter, SetThread, TypeOK, Steps
    <2> QED
      BY <1>3, <2>1 DEF Enter, fields, messages, history, TypeOK, Steps
  <1>4. CASE CheckCanceled
    <2>1. thread' \in Threads
      BY <1>1, <1>4 DEF CheckCanceled, Ends, Steps
    <2> QED
      BY <1>4, <2>1 DEF CheckCanceled, fields, messages, history, TypeOK, Steps
  <1>5. CASE NoticesInterrupt \/ NoExtractorFits
    <2>1. LoadInterrupted /\ interrupted' \in BOOLEAN
      BY <1>5, Zenon DEF NoticesInterrupt, NoExtractorFits, TypeOK
    <2>2. thread' \in Threads /\ process' \in {"alive", "dead"}
      BY <1>1, <2>1 DEF LoadInterrupted, Ends, Steps, TypeOK
    <2> QED
      BY <2>1, <2>2 DEF LoadInterrupted, fields, messages, history, TypeOK, Steps
  <1>6. CASE CheckReleased
    <2>1. thread' \in Threads
      BY <1>1, <1>6 DEF CheckReleased, Idle, Steps
    <2> QED
      BY <1>6, <2>1 DEF CheckReleased, fields, messages, history, TypeOK, Steps
  <1>7. ASSUME NEW caught \in BOOLEAN, SendMessage(caught) PROVE TypeOK'
    <2>1. thread.load \in Loads /\ thread.what \in Ends
      BY <1>7, ThreadLoad DEF SendMessage, ThreadInv
    <2>2. Message(thread.load, thread.what) \in Messages
      BY <2>1 DEF Message, Messages
    <2>3. mailbox' \in Seq(Messages)
      BY <1>7, <2>2, AppendElements DEF SendMessage, TypeOK, Messages
    <2>4. thread' \in Threads /\ process' \in {"alive", "dead"}
      BY <1>7 DEF SendMessage, Idle, Steps
    <2> QED
      BY <1>7, <2>3, <2>4 DEF Messages, SendMessage, fields, history, TypeOK, Steps
  <1>8. ASSUME NEW what \in Ends, LoadEnds(what) PROVE TypeOK'
    <2>1. thread' \in Threads
      BY <1>1, <1>8 DEF LoadEnds, Steps
    <2> QED
      BY <1>8, <2>1 DEF LoadEnds, fields, messages, history, TypeOK, Steps
  <1> QED
    BY <1>2, <1>3, <1>4, <1>5, <1>6, <1>7, <1>8 DEF ThreadNext, LoadNext

LEMMA NextType == TypeOK /\ ReleaseInv /\ CurrentInv /\ ThreadInv /\ [Next]_vars => TypeOK'
  <1> SUFFICES ASSUME TypeOK, ReleaseInv, CurrentInv, ThreadInv, [Next]_vars PROVE TypeOK'
    OBVIOUS
  <1>1. CASE UNCHANGED vars
    BY <1>1 DEF vars, fields, messages, running, history, TypeOK
  <1> QED
    BY <1>1, CallType, FinishType, HandleType, ThreadType DEF Next

-----------------------------------------------------------------------------
(* What the two queues hold                                                *)

LEMMA ExecutorAppended ==
  ASSUME TypeOK, ExecutorOnce, NEW e \in Loads \cup {ReleaseTask},
         executor' = Append(executor, e), e \in Loads => ~Queued(e)
  PROVE  /\ \A l \in Loads : Queued(l)' <=> Queued(l) \/ l = e
         /\ ExecutorOnce'
  <1>1. /\ Len(executor) \in Nat /\ Len(executor') = Len(executor) + 1
        /\ DOMAIN executor = 1 .. Len(executor) /\ DOMAIN executor' = 1 .. Len(executor) + 1
        /\ \A i \in 1 .. Len(executor) : executor'[i] = executor[i]
        /\ executor'[Len(executor) + 1] = e
    BY AppendElements DEF TypeOK
  <1>2. \A l \in Loads : Queued(l)' <=> Queued(l) \/ l = e
    BY <1>1 DEF Queued
  <1>3. ExecutorOnce'
    BY <1>1 DEF ExecutorOnce, Queued
  <1> QED
    BY <1>2, <1>3

LEMMA ExecutorTaken ==
  ASSUME TypeOK, ExecutorOnce, executor # << >>, executor' = Tail(executor)
  PROVE  /\ Head(executor) \in Loads \cup {ReleaseTask}
         /\ Head(executor) \in Loads => Queued(Head(executor))
         /\ \A l \in Loads : Queued(l)' <=> Queued(l) /\ l # Head(executor)
         /\ ExecutorOnce'
  <1>1. /\ Head(executor) \in Loads \cup {ReleaseTask} /\ Head(executor) = executor[1]
        /\ Len(executor) \in Nat \ {0} /\ Len(executor') = Len(executor) - 1
        /\ DOMAIN executor = 1 .. Len(executor) /\ DOMAIN executor' = 1 .. Len(executor) - 1
        /\ \A i \in 1 .. Len(executor) - 1 : executor'[i] = executor[i + 1]
    BY HeadAndTail DEF TypeOK
  <1>2. Head(executor) \in Loads => Queued(Head(executor))
    BY <1>1 DEF Queued
  <1>3. ExecutorOnce'
    <2>1. ASSUME NEW i \in 1 .. Len(executor'), NEW j \in 1 .. Len(executor'),
                 executor'[i] = executor'[j], executor'[i] \in Loads
          PROVE  i = j
      <3>1. i + 1 \in 1 .. Len(executor) /\ j + 1 \in 1 .. Len(executor)
        BY <1>1
      <3>2. executor[i + 1] = executor[j + 1] /\ executor[i + 1] \in Loads
        BY <1>1, <2>1
      <3>3. i + 1 = j + 1
        BY <3>1, <3>2 DEF ExecutorOnce
      <3> QED
        BY <1>1, <3>3
    <2> QED
      BY <2>1 DEF ExecutorOnce
  <1>4. ASSUME NEW l \in Loads PROVE Queued(l)' <=> Queued(l) /\ l # Head(executor)
    <2>1. ASSUME NEW i \in DOMAIN executor', executor'[i] = l PROVE Queued(l) /\ l # Head(executor)
      <3>1. i + 1 \in 1 .. Len(executor) /\ 1 \in 1 .. Len(executor) /\ executor[i + 1] = l
        BY <1>1, <2>1
      <3>2. i + 1 # 1
        BY <1>1
      <3> QED
        BY <1>1, <3>1, <3>2 DEF ExecutorOnce, Queued
    <2>2. ASSUME NEW i \in DOMAIN executor, executor[i] = l, l # Head(executor)
          PROVE  \E j \in DOMAIN executor' : executor'[j] = l
      <3>1. i - 1 \in 1 .. Len(executor) - 1 /\ executor'[i - 1] = executor[i]
        BY <1>1, <2>2
      <3> QED
        BY <1>1, <2>2, <3>1
    <2> QED
      BY <2>1, <2>2 DEF Queued
  <1> QED
    BY <1>1, <1>2, <1>3, <1>4

LEMMA MailboxAppended ==
  ASSUME TypeOK, MailboxOnce, NEW m \in Messages, mailbox' = Append(mailbox, m), ~Told(m.load)
  PROVE  /\ \A l \in Loads : Told(l)' <=> Told(l) \/ l = m.load
         /\ MailboxOnce'
  <1>1. /\ Len(mailbox) \in Nat /\ Len(mailbox') = Len(mailbox) + 1
        /\ DOMAIN mailbox = 1 .. Len(mailbox) /\ DOMAIN mailbox' = 1 .. Len(mailbox) + 1
        /\ \A i \in 1 .. Len(mailbox) : mailbox'[i] = mailbox[i]
        /\ mailbox'[Len(mailbox) + 1] = m
    BY AppendElements DEF TypeOK, Messages
  <1>2. \A l \in Loads : Told(l)' <=> Told(l) \/ l = m.load
    BY <1>1 DEF Told
  <1>3. MailboxOnce'
    BY <1>1 DEF MailboxOnce, Told
  <1> QED
    BY <1>2, <1>3

LEMMA MailboxTaken ==
  ASSUME TypeOK, MailboxOnce, NEW m, Take(m)
  PROVE  /\ m.load \in Loads /\ Told(m.load)
         /\ \A l \in Loads : Told(l)' <=> Told(l) /\ l # m.load
         /\ MailboxOnce'
  <1>0. mailbox \in Seq(Messages) /\ mailbox # << >> /\ mailbox' = Tail(mailbox) /\ m = Head(mailbox)
    BY DEF TypeOK, Messages, Take
  <1>1. /\ m \in Messages /\ m = mailbox[1]
        /\ Len(mailbox) \in Nat \ {0} /\ Len(mailbox') = Len(mailbox) - 1
        /\ DOMAIN mailbox = 1 .. Len(mailbox) /\ DOMAIN mailbox' = 1 .. Len(mailbox) - 1
        /\ \A i \in 1 .. Len(mailbox) - 1 : mailbox'[i] = mailbox[i + 1]
    BY <1>0, HeadAndTail
  <1>2. m.load \in Loads /\ Told(m.load)
    BY <1>1 DEF Told, Messages
  <1>3. MailboxOnce'
    <2>1. ASSUME NEW i \in 1 .. Len(mailbox'), NEW j \in 1 .. Len(mailbox'),
                 mailbox'[i].load = mailbox'[j].load
          PROVE  i = j
      <3>1. i + 1 \in 1 .. Len(mailbox) /\ j + 1 \in 1 .. Len(mailbox)
        BY <1>1
      <3>2. mailbox[i + 1].load = mailbox[j + 1].load
        BY <1>1, <2>1
      <3>3. i + 1 = j + 1
        BY <3>1, <3>2 DEF MailboxOnce
      <3> QED
        BY <1>1, <3>3
    <2> QED
      BY <2>1 DEF MailboxOnce
  <1>4. ASSUME NEW l \in Loads PROVE Told(l)' <=> Told(l) /\ l # m.load
    <2>1. ASSUME NEW i \in DOMAIN mailbox', mailbox'[i].load = l PROVE Told(l) /\ l # m.load
      <3>1. i + 1 \in 1 .. Len(mailbox) /\ 1 \in 1 .. Len(mailbox) /\ mailbox[i + 1].load = l
        BY <1>1, <2>1
      <3>2. i + 1 # 1
        BY <1>1
      <3> QED
        BY <1>1, <3>1, <3>2 DEF MailboxOnce, Told
    <2>2. ASSUME NEW i \in DOMAIN mailbox, mailbox[i].load = l, l # m.load
          PROVE  \E j \in DOMAIN mailbox' : mailbox'[j].load = l
      <3>1. i - 1 \in 1 .. Len(mailbox) - 1 /\ mailbox'[i - 1] = mailbox[i]
        BY <1>1, <2>2
      <3> QED
        BY <1>1, <2>2, <3>1
    <2> QED
      BY <2>1, <2>2 DEF Told
  <1> QED
    BY <1>2, <1>3, <1>4

LEMMA QueuesKept ==
  /\ UNCHANGED executor => (ExecutorOnce => ExecutorOnce') /\ \A l \in Loads : Queued(l)' <=> Queued(l)
  /\ UNCHANGED mailbox => (MailboxOnce => MailboxOnce') /\ \A l \in Loads : Told(l)' <=> Told(l)
  BY DEF ExecutorOnce, MailboxOnce, Queued, Told

-----------------------------------------------------------------------------
(* The calls on the looper                                                 *)

Kept == PlaceInv /\ CurrentInv /\ ReleaseInv /\ ThreadInv

(* While nobody was released, the load on the thread is the current one.   *)
LEMMA CurrentOnThread ==
  ASSUME Inv, process = "alive", ~shutdown, thread.load \in Loads
  PROVE  thread.load = currentTask
  BY DEF Inv, CurrentInv, ReleaseInv, UnderWay

LEMMA NoneReleased ==
  ASSUME Inv, looper \in {"free", "canceling"}, ~shutdown
  PROVE  \A l \in Loads : ~released[l]
  BY DEF Inv, ReleaseInv

(* A load is new: it is nowhere, and it becomes the current one.           *)
LEMMA StartKeeps == ASSUME Inv, NEW l \in Loads, StartLoading(l) PROVE Kept'
  <1>1. /\ looper = "free" /\ process = "alive" /\ ~shutdown /\ l \notin started
        /\ currentTask = NoLoad
        /\ currentTask' = l /\ executor' = Append(executor, l) /\ started' = started \cup {l}
        /\ UNCHANGED <<canceled, released, messages, looper, shutdown, running, process, answered>>
    BY DEF StartLoading, LooperFree
  <1>2. ~UnderWay(l) /\ ~released[l] /\ answered[l] = 0
    BY <1>1 DEF Inv, CurrentInv
  <1>3. /\ \A x \in Loads : Queued(x)' <=> Queued(x) \/ x = l
        /\ ExecutorOnce'
    BY <1>1, <1>2, ExecutorAppended DEF Inv, PlaceInv, UnderWay
  <1>4. MailboxOnce' /\ \A x \in Loads : Told(x)' <=> Told(x)
    BY <1>1, QueuesKept DEF Inv, PlaceInv, messages
  <1>5. UNCHANGED <<delayed, thread, interrupted, executorThread>>
    BY <1>1 DEF messages, running
  <1>6. PlaceInv'
    BY <1>2, <1>3, <1>4, <1>5 DEF Inv, PlaceInv, UnderWay
  <1>7. CurrentInv'
    BY <1>1, <1>2, <1>3, <1>4, <1>5, NoLoadIsNone DEF Inv, CurrentInv, UnderWay
  <1>8. ReleaseInv'
    <2>1. \A x \in Loads : ~released[x]
      BY <1>1, NoneReleased
    <2> QED
      BY <1>1, <2>1 DEF Inv, ReleaseInv
  <1>9. ThreadInv'
    BY <1>1, <1>5 DEF Inv, ThreadInv
  <1> QED
    BY <1>6, <1>7, <1>8, <1>9 DEF Kept

(* A cancel: a start that waits is taken back, or the thread will be told. *)
LEMMA CancelKeeps ==
  ASSUME Inv, looper = "free", process = "alive", currentTask \in Loads, NEW b \in BOOLEAN,
         Cancel(currentTask, b),
         UNCHANGED <<currentTask, executor, shutdown, running, process, started, answered>>
  PROVE  Kept'
  <1> DEFINE l == currentTask
  <1>1. ~shutdown
    BY NoLoadIsNone DEF Inv, ReleaseInv
  <1>2. \A x \in Loads : ~released[x]
    BY <1>1, NoneReleased
  <1>3. \A x \in Loads : released'[x] <=> (x = l /\ b)
    BY <1>2 DEF Cancel, MarkReleased, Inv, TypeOK
  <1>4. UNCHANGED <<thread, interrupted, executorThread>>
    BY DEF running
  <1>5. ExecutorOnce' /\ \A x \in Loads : Queued(x)' <=> Queued(x)
    BY QueuesKept DEF Inv, PlaceInv
  <1>6. CASE l \in delayed
    <2>1. /\ delayed' = delayed \ {l} /\ canceled' = canceled
          /\ looper' = IF b THEN "releasing" ELSE "free"
          /\ mailbox' = IF b THEN mailbox ELSE Append(mailbox, Message(l, "cancel"))
      BY <1>6 DEF Cancel, StartReplaced
    <2>2. ~Queued(l) /\ thread.load # l /\ ~Told(l)
      BY <1>6 DEF Inv, PlaceInv
    <2>3. MailboxOnce' /\ \A x \in Loads : Told(x)' <=> Told(x) \/ (~b /\ x = l)
      <3>1. CASE b
        BY <2>1, <3>1, QueuesKept DEF Inv, PlaceInv
      <3>2. CASE ~b
        <4>1. Message(l, "cancel") \in Messages /\ Message(l, "cancel").load = l
          BY DEF Message, Messages
        <4> QED
          BY <2>1, <2>2, <3>2, <4>1, MailboxAppended DEF Inv, PlaceInv
      <3> QED
        BY <3>1, <3>2
    <2>4. PlaceInv'
      BY <1>4, <1>5, <2>1, <2>2, <2>3 DEF Inv, PlaceInv
    <2>5. CurrentInv'
      BY <1>2, <1>3, <1>4, <1>5, <1>6, <2>1, <2>3 DEF Inv, CurrentInv, UnderWay
    <2>6. ReleaseInv'
      BY <1>1, <1>3, <2>1 DEF ReleaseInv
    <2>7. ThreadInv'
      BY <1>4, <2>1 DEF Inv, ThreadInv
    <2> QED
      BY <2>4, <2>5, <2>6, <2>7 DEF Kept
  <1>7. CASE l \notin delayed
    <2>1. /\ UNCHANGED messages /\ canceled' = [canceled EXCEPT ![l] = TRUE]
          /\ looper' = IF b THEN "cancelingToRelease" ELSE "canceling"
      BY <1>7 DEF Cancel, MarkCanceled
    <2>2. \A x \in Loads : canceled'[x] <=> canceled[x] \/ x = l
      BY <2>1 DEF Inv, TypeOK
    <2>3. MailboxOnce' /\ \A x \in Loads : Told(x)' <=> Told(x)
      BY <2>1, QueuesKept DEF Inv, PlaceInv, messages
    <2>4. PlaceInv'
      BY <1>4, <1>5, <2>1, <2>3 DEF Inv, PlaceInv, messages
    <2>5. CurrentInv'
      BY <1>2, <1>3, <1>4, <1>5, <1>7, <2>1, <2>3 DEF Inv, CurrentInv, UnderWay, messages
    <2>6. ReleaseInv'
      BY <1>1, <1>3, <2>1, <2>2 DEF ReleaseInv
    <2>7. ThreadInv'
      <3>1. thread.step # "idle" => thread.load \in Loads
        BY ThreadLoad DEF Inv
      <3> QED
        BY <1>4, <2>1, <2>2, <3>1 DEF Inv, ThreadInv
    <2> QED
      BY <2>4, <2>5, <2>6, <2>7 DEF Kept
  <1> QED
    BY <1>6, <1>7

LEMMA CallKeeps == ASSUME Inv, CallNext PROVE Kept'
  <1>1. ASSUME NEW l \in Loads, StartLoading(l) PROVE Kept'
    BY <1>1, StartKeeps
  <1>2. CASE ClearFatalError
    <2>1. UNCHANGED <<currentTask, canceled, released, messages, looper, executor, shutdown,
                      running, process, started, answered>>
      BY <1>2 DEF ClearFatalError, history
    <2>2. /\ ExecutorOnce' /\ MailboxOnce'
          /\ \A x \in Loads : (Queued(x)' <=> Queued(x)) /\ (Told(x)' <=> Told(x))
      BY <2>1, QueuesKept DEF Inv, PlaceInv, messages
    <2>3. PlaceInv' /\ CurrentInv'
      BY <2>1, <2>2 DEF Inv, PlaceInv, CurrentInv, UnderWay, messages, running
    <2>4. ReleaseInv' /\ ThreadInv'
      BY <2>1 DEF Inv, ReleaseInv, ThreadInv, running
    <2> QED
      BY <2>3, <2>4 DEF Kept
  <1>3. CASE CancelLoading
    <2>1. currentTask \in Loads
      BY <1>3 DEF CancelLoading, Inv, TypeOK
    <2> QED
      BY <1>3, <2>1, CancelKeeps DEF CancelLoading, LooperFree
  <1>4. CASE Release
    <2>1. CASE currentTask # NoLoad
      <3>1. currentTask \in Loads
        BY <2>1 DEF Inv, TypeOK
      <3> QED
        BY <1>4, <2>1, <3>1, CancelKeeps DEF Release, LooperFree, history
    <2>2. CASE currentTask = NoLoad
      <3>1. /\ UNCHANGED <<currentTask, canceled, released, messages, executor, shutdown,
                           running, process, started, answered>>
            /\ looper = "free" /\ looper' = "releasing" /\ ~shutdown
        BY <1>4, <2>2 DEF Release, LooperFree, history
      <3>2. /\ ExecutorOnce' /\ MailboxOnce'
            /\ \A x \in Loads : (Queued(x)' <=> Queued(x)) /\ (Told(x)' <=> Told(x))
        BY <3>1, QueuesKept DEF Inv, PlaceInv, messages
      <3>3. PlaceInv' /\ CurrentInv'
        BY <3>1, <3>2 DEF Inv, PlaceInv, CurrentInv, UnderWay, messages, running
      <3>4. \A x \in Loads : ~released[x]
        BY <3>1, NoneReleased
      <3>5. ReleaseInv'
        BY <2>2, <3>1, <3>4, NoLoadIsNone DEF Inv, ReleaseInv
      <3>6. ThreadInv'
        BY <3>1 DEF Inv, ThreadInv, running
      <3> QED
        BY <3>3, <3>5, <3>6 DEF Kept
    <2> QED
      BY <2>1, <2>2
  <1> QED
    BY <1>1, <1>2, <1>3, <1>4 DEF CallNext

(* The thread is interrupted when it is in the load that is canceled.      *)
LEMMA FinishCancelKeeps == ASSUME Inv, FinishCancel PROVE Kept'
  <1>1. /\ process = "alive" /\ looper \in {"canceling", "cancelingToRelease"}
        /\ looper' = IF looper = "canceling" THEN "free" ELSE "releasing"
        /\ UNCHANGED <<currentTask, canceled, released, messages, executor, shutdown,
                       executorThread, thread, process, started, answered>>
    BY DEF FinishCancel, fields, history
  <1>2. currentTask \in Loads /\ canceled[currentTask] /\ ~shutdown
    BY <1>1 DEF Inv, ReleaseInv
  <1>3. interrupted' <=> interrupted \/ executorThread[currentTask]
    BY Zenon DEF FinishCancel, InterruptThread
  <1>4. /\ ExecutorOnce' /\ MailboxOnce'
        /\ \A x \in Loads : (Queued(x)' <=> Queued(x)) /\ (Told(x)' <=> Told(x))
    BY <1>1, QueuesKept DEF Inv, PlaceInv, messages
  <1>5. PlaceInv' /\ CurrentInv'
    BY <1>1, <1>4 DEF Inv, PlaceInv, CurrentInv, UnderWay, messages
  <1>6. ReleaseInv'
    BY <1>1, <1>2 DEF Inv, ReleaseInv
  <1>7. ThreadInv'
    <2>1. thread.step # "idle" => thread.load = currentTask
      BY <1>1, <1>2, ThreadLoad, CurrentOnThread DEF Inv
    <2> QED
      BY <1>1, <1>2, <1>3, <2>1 DEF Inv, ThreadInv
  <1> QED
    BY <1>5, <1>6, <1>7 DEF Kept

LEMMA FinishReleaseKeeps == ASSUME Inv, NEW tells \in BOOLEAN, FinishRelease(tells) PROVE Kept'
  <1>1. /\ looper = "releasing" /\ looper' = "free" /\ currentTask' = NoLoad /\ shutdown'
        /\ UNCHANGED <<canceled, released, messages, running, process, started>>
    BY DEF FinishRelease
  <1>2. \A l \in Loads : currentTask = l => released[l]
    BY <1>1 DEF Inv, ReleaseInv
  <1>3. ExecutorOnce' /\ \A x \in Loads : Queued(x)' <=> Queued(x)
    <2>1. CASE tells
      BY <2>1, ExecutorAppended, NoLoadIsNone DEF FinishRelease, Inv, PlaceInv
    <2>2. CASE ~tells
      BY <2>2, QueuesKept DEF FinishRelease, Inv, PlaceInv
    <2> QED
      BY <2>1, <2>2
  <1>4. MailboxOnce' /\ \A x \in Loads : Told(x)' <=> Told(x)
    BY <1>1, QueuesKept DEF Inv, PlaceInv, messages
  <1>5. \A x \in Loads : answered'[x] = IF x = currentTask THEN answered[x] + 1 ELSE answered[x]
    <2>1. CASE currentTask = NoLoad
      BY <2>1, NoLoadIsNone DEF FinishRelease
    <2>2. CASE currentTask # NoLoad
      BY <2>2 DEF FinishRelease, Tell, Inv, TypeOK
    <2> QED
      BY <2>1, <2>2
  <1>6. PlaceInv'
    BY <1>1, <1>3, <1>4 DEF Inv, PlaceInv, messages, running
  <1>7. CurrentInv'
    BY <1>1, <1>2, <1>3, <1>4, <1>5, NoLoadIsNone DEF Inv, CurrentInv, UnderWay, messages, running
  <1>8. ReleaseInv' /\ ThreadInv'
    BY <1>1, NoLoadIsNone DEF Inv, ReleaseInv, ThreadInv, running
  <1> QED
    BY <1>6, <1>7, <1>8 DEF Kept

-----------------------------------------------------------------------------
(* The messages of a load                                                  *)

(* The start that waits is for the current load, which nobody released.    *)
LEMMA HandleStartKeeps == ASSUME Inv, NEW l \in Loads, HandleStart(l) PROVE Kept'
  <1>1. /\ looper = "free" /\ process = "alive" /\ l \in delayed /\ delayed' = delayed \ {l}
        /\ UNCHANGED <<currentTask, canceled, released, mailbox, looper, shutdown, executorThread,
                       thread, interrupted, process, started, answered>>
    BY DEF HandleStart, LooperFree, fields, running, history
  <1>2. currentTask = l /\ ~released[l] /\ ~Queued(l) /\ thread.load # l /\ ~Told(l)
    BY <1>1 DEF Inv, CurrentInv, PlaceInv
  <1>3. executor' = Append(executor, l)
    BY <1>2 DEF HandleStart
  <1>4. /\ \A x \in Loads : Queued(x)' <=> Queued(x) \/ x = l
        /\ ExecutorOnce'
    BY <1>2, <1>3, ExecutorAppended DEF Inv, PlaceInv
  <1>5. MailboxOnce' /\ \A x \in Loads : Told(x)' <=> Told(x)
    BY <1>1, QueuesKept DEF Inv, PlaceInv
  <1>6. PlaceInv'
    BY <1>1, <1>2, <1>4, <1>5 DEF Inv, PlaceInv
  <1>7. CurrentInv'
    BY <1>1, <1>2, <1>4, <1>5 DEF Inv, CurrentInv, UnderWay
  <1>8. ReleaseInv' /\ ThreadInv'
    BY <1>1 DEF Inv, ReleaseInv, ThreadInv
  <1> QED
    BY <1>6, <1>7, <1>8 DEF Kept

(* A message that is taken is all that was under way for its load.         *)
LEMMA TakeFrees ==
  ASSUME Inv, NEW m, Take(m)
  PROVE  /\ m.load \in Loads /\ Told(m.load)
         /\ m.load \notin delayed /\ ~Queued(m.load) /\ thread.load # m.load
         /\ ~released[m.load] => currentTask = m.load /\ ~shutdown /\ \A x \in Loads : ~released[x]
         /\ \A x \in Loads : Told(x)' <=> Told(x) /\ x # m.load
         /\ MailboxOnce'
         /\ looper = "free" /\ process = "alive"
         /\ UNCHANGED <<looper, shutdown, executorThread, thread, interrupted, released, canceled,
                        started>>
  <1>1. /\ m.load \in Loads /\ Told(m.load)
        /\ \A x \in Loads : Told(x)' <=> Told(x) /\ x # m.load
        /\ MailboxOnce'
    BY MailboxTaken DEF Inv, PlaceInv
  <1>2. /\ looper = "free" /\ process = "alive"
        /\ UNCHANGED <<looper, shutdown, executorThread, thread, interrupted, released, canceled,
                       started>>
    BY DEF Take, LooperFree, running
  <1>3. m.load \notin delayed /\ ~Queued(m.load) /\ thread.load # m.load
    BY <1>1 DEF Inv, PlaceInv
  <1>4. ~released[m.load] => currentTask = m.load
    BY <1>1, <1>2 DEF Inv, CurrentInv, UnderWay
  <1>5. currentTask = m.load => ~shutdown
    BY <1>1, NoLoadIsNone DEF Inv, ReleaseInv
  <1>6. ~shutdown => \A x \in Loads : ~released[x]
    BY <1>2, NoneReleased
  <1> QED
    BY <1>1, <1>2, <1>3, <1>4, <1>5, <1>6

LEMMA HandleReleasedKeeps == ASSUME Inv, NEW m, HandleReleased(m) PROVE Kept'
  <1>1. Take(m) /\ released[m.load]
        /\ UNCHANGED <<currentTask, delayed, executor, process, answered>>
    BY DEF HandleReleased
  <1>2. ExecutorOnce' /\ \A x \in Loads : Queued(x)' <=> Queued(x)
    BY <1>1, QueuesKept DEF Inv, PlaceInv
  <1>3. PlaceInv'
    BY <1>1, <1>2, TakeFrees DEF Inv, PlaceInv
  <1>4. CurrentInv'
    BY <1>1, <1>2, TakeFrees DEF Inv, CurrentInv, UnderWay
  <1>5. ReleaseInv' /\ ThreadInv'
    BY <1>1, TakeFrees DEF Inv, ReleaseInv, ThreadInv
  <1> QED
    BY <1>3, <1>4, <1>5 DEF Kept

LEMMA HandleFatalKeeps == ASSUME Inv, NEW m, HandleFatal(m) PROVE Kept'
  <1>1. Take(m) /\ process' = "dead"
        /\ UNCHANGED <<currentTask, delayed, executor, answered>>
    BY DEF HandleFatal
  <1>2. ExecutorOnce' /\ \A x \in Loads : Queued(x)' <=> Queued(x)
    BY <1>1, QueuesKept DEF Inv, PlaceInv
  <1>3. PlaceInv'
    BY <1>1, <1>2, TakeFrees DEF Inv, PlaceInv
  <1>4. CurrentInv'
    BY <1>1, <1>2, TakeFrees DEF Inv, CurrentInv, UnderWay
  <1>5. ReleaseInv' /\ ThreadInv'
    BY <1>1, TakeFrees DEF Inv, ReleaseInv, ThreadInv
  <1> QED
    BY <1>3, <1>4, <1>5 DEF Kept

(* A load that ends for good: nothing is under way for it, none is current.*)
LEMMA EndKeeps ==
  ASSUME Inv, NEW m, Take(m), ~released[m.load], currentTask' = NoLoad, Tell(m.load),
         UNCHANGED <<delayed, executor, process>>
  PROVE  Kept'
  <1>1. ExecutorOnce' /\ \A x \in Loads : Queued(x)' <=> Queued(x)
    BY QueuesKept DEF Inv, PlaceInv
  <1>2. \A x \in Loads : answered'[x] = IF x = m.load THEN answered[x] + 1 ELSE answered[x]
    BY TakeFrees DEF Tell, Inv, TypeOK
  <1>3. PlaceInv'
    BY <1>1, TakeFrees DEF Inv, PlaceInv
  <1>4. CurrentInv'
    BY <1>1, <1>2, TakeFrees, NoLoadIsNone DEF Inv, CurrentInv, UnderWay
  <1>5. ReleaseInv' /\ ThreadInv'
    BY TakeFrees, NoLoadIsNone DEF Inv, ReleaseInv, ThreadInv
  <1> QED
    BY <1>3, <1>4, <1>5 DEF Kept

(* A load that is tried again waits to start or is queued, and stays current. *)
LEMMA HandleErrorKeeps ==
  ASSUME Inv, NEW m, NEW answer \in Answers, HandleError(m, answer) PROVE Kept'
  <1> DEFINE l == m.load
             retry == answer \in {"retry", "retryReset", "retryLater"}
             later == StartsLater(answer, errorCount[m.load] + 1)
  <1>1. /\ Take(m) /\ ~released[l]
        /\ currentTask' = IF retry THEN l ELSE NoLoad
        /\ delayed' = IF retry /\ later THEN delayed \cup {l} ELSE delayed
        /\ executor' = IF retry /\ ~later THEN Append(executor, l) ELSE executor
        /\ IF retry THEN UNCHANGED answered ELSE Tell(l)
        /\ UNCHANGED process
    BY DEF HandleError
  <1> HIDE DEF retry, later
  <1>2. CASE ~retry
    BY <1>1, <1>2, EndKeeps
  <1>3. CASE retry
    <2>1. /\ currentTask' = l /\ UNCHANGED <<answered, process>>
          /\ currentTask = l /\ l \in Loads
      BY <1>1, <1>3, TakeFrees
    <2>2. ReleaseInv' /\ ThreadInv'
      BY <1>1, <2>1, TakeFrees DEF Inv, ReleaseInv, ThreadInv
    <2>3. CASE later
      <3>1. delayed' = delayed \cup {l} /\ UNCHANGED executor
        BY <1>1, <1>3, <2>3
      <3>2. ExecutorOnce' /\ \A x \in Loads : Queued(x)' <=> Queued(x)
        BY <3>1, QueuesKept DEF Inv, PlaceInv
      <3>3. PlaceInv'
        BY <1>1, <2>1, <3>1, <3>2, TakeFrees DEF Inv, PlaceInv
      <3>4. CurrentInv'
        BY <1>1, <2>1, <3>1, <3>2, TakeFrees DEF Inv, CurrentInv, UnderWay
      <3> QED
        BY <2>2, <3>3, <3>4 DEF Kept
    <2>4. CASE ~later
      <3>1. UNCHANGED delayed /\ executor' = Append(executor, l)
        BY <1>1, <1>3, <2>4
      <3>2. ~Queued(l)
        BY <1>1, TakeFrees
      <3>3. ExecutorOnce' /\ \A x \in Loads : Queued(x)' <=> Queued(x) \/ x = l
        BY <2>1, <3>1, <3>2, ExecutorAppended DEF Inv, PlaceInv
      <3>4. PlaceInv'
        BY <1>1, <2>1, <3>1, <3>3, TakeFrees DEF Inv, PlaceInv
      <3>5. CurrentInv'
        BY <1>1, <2>1, <3>1, <3>3, TakeFrees DEF Inv, CurrentInv, UnderWay
      <3> QED
        BY <2>2, <3>4, <3>5 DEF Kept
    <2> QED
      BY <2>3, <2>4
  <1> QED
    BY <1>2, <1>3

LEMMA HandleKeeps == ASSUME Inv, HandleNext PROVE Kept'
  <1>1. ASSUME NEW m, NEW throws \in BOOLEAN, HandleOver(m, throws) PROVE Kept'
    BY <1>1, EndKeeps DEF HandleOver
  <1> QED
    BY <1>1, HandleStartKeeps, HandleReleasedKeeps, HandleFatalKeeps, HandleErrorKeeps
    DEF HandleNext

-----------------------------------------------------------------------------
(* The thread                                                              *)

LEMMA RunTaskKeeps == ASSUME Inv, RunTask PROVE Kept'
  <1>1. /\ process = "alive" /\ thread.step = "idle" /\ executor # << >>
        /\ executor' = Tail(executor) /\ ~interrupted'
        /\ thread' = IF Head(executor) = ReleaseTask THEN Idle
                     ELSE [Idle EXCEPT !.step = "entered", !.load = Head(executor)]
        /\ UNCHANGED <<currentTask, canceled, released, delayed, mailbox, looper, shutdown,
                       executorThread, process, started, answered>>
    BY DEF RunTask, fields, messages, history
  <1>2. /\ Head(executor) \in Loads \cup {ReleaseTask}
        /\ Head(executor) \in Loads => Queued(Head(executor))
        /\ \A l \in Loads : Queued(l)' <=> Queued(l) /\ l # Head(executor)
        /\ ExecutorOnce'
    BY <1>1, ExecutorTaken DEF Inv, PlaceInv
  <1>3. thread.load = NoLoad
    BY <1>1 DEF Inv, ThreadInv
  <1>4. /\ \A l \in Loads : thread'.load = l <=> l = Head(executor)
        /\ thread'.step \in {"idle", "entered"} /\ (thread'.step = "idle" <=> thread'.load = NoLoad)
    BY <1>1, <1>2, NoLoadIsNone DEF Idle
  <1>5. MailboxOnce' /\ \A x \in Loads : Told(x)' <=> Told(x)
    BY <1>1, QueuesKept DEF Inv, PlaceInv
  <1>6. PlaceInv'
    BY <1>1, <1>2, <1>3, <1>4, <1>5, NoLoadIsNone DEF Inv, PlaceInv
  <1>7. CurrentInv'
    BY <1>1, <1>2, <1>3, <1>4, <1>5, NoLoadIsNone DEF Inv, CurrentInv, UnderWay
  <1>8. ReleaseInv'
    BY <1>1 DEF Inv, ReleaseInv
  <1>9. ThreadInv'
    BY <1>1, <1>4 DEF Inv, ThreadInv
  <1> QED
    BY <1>6, <1>7, <1>8, <1>9 DEF Kept

(* A step of the thread that moves no load from one place to another.      *)
LEMMA StepKeeps ==
  ASSUME Inv, thread'.load = thread.load,
         UNCHANGED <<currentTask, canceled, released, delayed, mailbox, looper, executor, shutdown,
                     started, answered>>,
         process = "alive", process' \in {"alive", "dead"}
  PROVE  PlaceInv' /\ CurrentInv' /\ ReleaseInv'
  <1>1. /\ ExecutorOnce' /\ MailboxOnce'
        /\ \A x \in Loads : (Queued(x)' <=> Queued(x)) /\ (Told(x)' <=> Told(x))
    BY QueuesKept DEF Inv, PlaceInv
  <1>2. PlaceInv'
    BY <1>1 DEF Inv, PlaceInv
  <1>3. CurrentInv'
    BY <1>1 DEF Inv, CurrentInv, UnderWay
  <1>4. ReleaseInv'
    BY DEF Inv, ReleaseInv
  <1> QED
    BY <1>2, <1>3, <1>4

(* It looks at canceled once it is known: a cancel that came before is seen, *)
(* one that comes later will interrupt it.                                 *)
LEMMA EnterKeeps == ASSUME Inv, Enter \/ CheckCanceled PROVE Kept'
  <1>1. thread.load \in Loads /\ thread.step \in {"entered", "checking"} /\ process = "alive"
    BY ThreadLoad DEF Inv, Enter, CheckCanceled
  <1>2. thread \in [step: Steps, load: Loads \cup {NoLoad}, what: Ends \cup {"none"}]
    BY DEF Inv, TypeOK, Steps
  <1>3. /\ thread'.load = thread.load
        /\ UNCHANGED <<currentTask, canceled, released, delayed, mailbox, looper, executor, shutdown,
                       started, answered, interrupted, process>>
    BY <1>2 DEF Enter, CheckCanceled, fields, messages, history
  <1>4. PlaceInv' /\ CurrentInv' /\ ReleaseInv'
    BY <1>1, <1>3, StepKeeps
  <1>5. CASE Enter
    <2>1. thread'.step = "checking" /\ thread.step = "entered" /\ executorThread'[thread.load]
      BY <1>1, <1>2, <1>5 DEF Enter, SetThread, Inv, TypeOK
    <2>2. ThreadInv'
      BY <1>1, <1>3, <2>1, NoLoadIsNone DEF Inv, ThreadInv
    <2> QED
      BY <1>4, <2>2 DEF Kept
  <1>6. CASE CheckCanceled
    <2>1. UNCHANGED executorThread /\ thread.step = "checking"
      BY <1>6 DEF CheckCanceled
    <2>2. CASE canceled[thread.load]
      <3>1. thread'.step = "ended" /\ thread'.what = "endOfSource"
        BY <1>2, <1>6, <2>2 DEF CheckCanceled
      <3>2. ThreadInv'
        BY <1>1, <1>3, <2>1, <3>1, NoLoadIsNone DEF Inv, ThreadInv, Ends
      <3> QED
        BY <1>4, <3>2 DEF Kept
    <2>3. CASE ~canceled[thread.load]
      <3>1. thread'.step = "loading"
        BY <1>2, <1>6, <2>3 DEF CheckCanceled
      <3>2. ThreadInv'
        BY <1>1, <1>3, <2>1, <2>3, <3>1, NoLoadIsNone DEF Inv, ThreadInv
      <3> QED
        BY <1>4, <3>2 DEF Kept
    <2> QED
      BY <2>2, <2>3
  <1> QED
    BY <1>5, <1>6

LEMMA LoadKeeps ==
  ASSUME Inv, LoadNext \/ NoticesInterrupt PROVE Kept'
  <1>1. thread \in [step: Steps, load: Loads \cup {NoLoad}, what: Ends \cup {"none"}]
    BY DEF Inv, TypeOK, Steps
  <1>2. ASSUME NEW what \in Ends, LoadEnds(what) PROVE Kept'
    <2>1. /\ thread.step = "loading" /\ thread'.step = "ended" /\ thread'.what \in Ends
          /\ thread'.load = thread.load /\ process = "alive"
          /\ UNCHANGED <<currentTask, canceled, released, delayed, mailbox, looper, executor,
                         shutdown, started, answered, interrupted, executorThread, process>>
      BY <1>1, <1>2 DEF LoadEnds, fields, messages, history
    <2>2. thread.load \in Loads
      BY <2>1, ThreadLoad DEF Inv
    <2>3. ThreadInv'
      BY <2>1, <2>2, NoLoadIsNone DEF Inv, ThreadInv
    <2> QED
      BY <2>1, <2>3, StepKeeps DEF Kept
  <1>3. CASE NoticesInterrupt \/ NoExtractorFits
    <2>1. LoadInterrupted /\ ~interrupted'
      <3>1. CASE NoticesInterrupt
        BY <3>1 DEF NoticesInterrupt
      <3>2. CASE NoExtractorFits
        BY <3>2 DEF NoExtractorFits
      <3> QED
        BY <1>3, <3>1, <3>2
    <2>2. /\ thread.step = "loading" /\ thread'.step \in {"ended", "checkFailed"}
          /\ thread'.step = "ended" => thread'.what \in Ends
          /\ thread'.load = thread.load /\ process = "alive" /\ process' \in {"alive", "dead"}
          /\ UNCHANGED <<currentTask, canceled, released, delayed, mailbox, looper, executor,
                         shutdown, started, answered, executorThread>>
      BY <1>1, <2>1 DEF LoadInterrupted, fields, messages, history, Ends
    <2>3. thread.load \in Loads
      BY <2>2, ThreadLoad DEF Inv
    <2>4. ThreadInv'
      BY <2>2, <2>3, NoLoadIsNone DEF Inv, ThreadInv
    <2> QED
      BY <2>2, <2>4, StepKeeps DEF Kept
  <1> QED
    BY <1>2, <1>3 DEF LoadNext

(* The load leaves the thread; its end is on the way if nobody released it. *)
LEMMA LeaveKeeps ==
  ASSUME Inv, CheckReleased \/ \E caught \in BOOLEAN : SendMessage(caught) PROVE Kept'
  <1>1. thread \in [step: Steps, load: Loads \cup {NoLoad}, what: Ends \cup {"none"}]
    BY DEF Inv, TypeOK, Steps
  <1>2. thread.load \in Loads /\ process = "alive"
    BY ThreadLoad DEF Inv, CheckReleased, SendMessage
  <1>3. CASE CheckReleased
    <2>1. /\ thread.step = "ended"
          /\ UNCHANGED <<currentTask, canceled, released, delayed, mailbox, looper, executor,
                         shutdown, started, answered, interrupted, executorThread, process>>
      BY <1>3 DEF CheckReleased, fields, messages, history
    <2>2. CASE ~released[thread.load]
      <3>1. thread'.step = "sending" /\ thread'.load = thread.load /\ thread'.what = thread.what
        BY <1>1, <1>3, <2>2 DEF CheckReleased
      <3>2. ThreadInv'
        BY <1>2, <2>1, <3>1, NoLoadIsNone DEF Inv, ThreadInv
      <3> QED
        BY <1>2, <2>1, <3>1, <3>2, StepKeeps DEF Kept
    <2>3. CASE released[thread.load]
      <3>1. thread' = Idle /\ thread'.load = NoLoad /\ thread'.step = "idle"
        BY <1>3, <2>3 DEF CheckReleased, Idle
      <3>2. /\ ExecutorOnce' /\ MailboxOnce'
            /\ \A x \in Loads : (Queued(x)' <=> Queued(x)) /\ (Told(x)' <=> Told(x))
        BY <2>1, QueuesKept DEF Inv, PlaceInv
      <3>3. PlaceInv'
        BY <2>1, <3>1, <3>2, NoLoadIsNone DEF Inv, PlaceInv
      <3>4. CurrentInv'
        BY <2>1, <2>3, <3>1, <3>2, NoLoadIsNone DEF Inv, CurrentInv, UnderWay
      <3>5. ReleaseInv' /\ ThreadInv'
        BY <2>1, <3>1 DEF Inv, ReleaseInv, ThreadInv
      <3> QED
        BY <3>3, <3>4, <3>5 DEF Kept
    <2> QED
      BY <2>2, <2>3
  <1>4. ASSUME NEW caught \in BOOLEAN, SendMessage(caught) PROVE Kept'
    <2>1. /\ thread.step = "sending" /\ thread' = Idle /\ thread'.load = NoLoad
          /\ thread'.step = "idle" /\ process' \in {"alive", "dead"}
          /\ mailbox' = Append(mailbox, Message(thread.load, thread.what))
          /\ UNCHANGED <<currentTask, canceled, released, delayed, looper, executor, shutdown,
                         started, answered, interrupted, executorThread>>
      BY <1>4 DEF SendMessage, fields, history, Idle
    <2>2. /\ Message(thread.load, thread.what) \in Messages
          /\ Message(thread.load, thread.what).load = thread.load
      BY <1>2, <2>1 DEF Inv, ThreadInv, Message, Messages
    <2>3. ~Told(thread.load)
      BY <1>2 DEF Inv, PlaceInv
    <2>4. MailboxOnce' /\ \A x \in Loads : Told(x)' <=> Told(x) \/ x = thread.load
      BY <2>1, <2>2, <2>3, MailboxAppended DEF Inv, PlaceInv
    <2>5. ExecutorOnce' /\ \A x \in Loads : Queued(x)' <=> Queued(x)
      BY <2>1, QueuesKept DEF Inv, PlaceInv
    <2>6. PlaceInv'
      BY <1>2, <2>1, <2>4, <2>5, NoLoadIsNone DEF Inv, PlaceInv
    <2>7. CurrentInv'
      BY <1>2, <2>1, <2>4, <2>5, NoLoadIsNone DEF Inv, CurrentInv, UnderWay
    <2>8. ReleaseInv' /\ ThreadInv'
      BY <2>1 DEF Inv, ReleaseInv, ThreadInv
    <2> QED
      BY <2>6, <2>7, <2>8 DEF Kept
  <1> QED
    BY <1>3, <1>4

-----------------------------------------------------------------------------
LEMMA InitInv == Init => Inv
  <1> SUFFICES ASSUME Init PROVE Inv
    OBVIOUS
  <1>1. TypeOK
    <2>1. 0 \in Nat /\ << >> \in Seq([load: Loads, what: Ends \cup {"cancel"}])
          /\ << >> \in Seq(Loads \cup {ReleaseTask})
      OBVIOUS
    <2>2. /\ errorCount \in [Loads -> Nat] /\ answered \in [Loads -> Nat]
          /\ canceled \in [Loads -> BOOLEAN] /\ released \in [Loads -> BOOLEAN]
          /\ executorThread \in [Loads -> BOOLEAN]
      BY DEF Init
    <2>3. thread \in [step: Steps, load: Loads \cup {NoLoad}, what: Ends \cup {"none"}]
      BY DEF Init, Idle, Steps
    <2> QED
      BY <2>1, <2>2, <2>3 DEF Init, TypeOK, Steps
  <1>2. /\ Len(executor) = 0 /\ Len(mailbox) = 0 /\ DOMAIN executor = {} /\ DOMAIN mailbox = {}
        /\ thread.load = NoLoad /\ thread.step = "idle" /\ thread.what = "none"
    BY DEF Init, Idle
  <1>3. ExecutorOnce /\ MailboxOnce /\ \A l \in Loads : ~Queued(l) /\ ~Told(l)
    BY <1>2 DEF ExecutorOnce, MailboxOnce, Queued, Told
  <1>4. PlaceInv
    BY <1>3 DEF Init, PlaceInv
  <1>5. CurrentInv
    BY <1>2, <1>3, NoLoadIsNone DEF Init, CurrentInv, UnderWay
  <1>6. ReleaseInv /\ ThreadInv
    BY <1>2 DEF Init, ReleaseInv, ThreadInv
  <1> QED
    BY <1>1, <1>4, <1>5, <1>6 DEF Inv

LEMMA NextInv == Inv /\ [Next]_vars => Inv'
  <1> SUFFICES ASSUME Inv, [Next]_vars PROVE Inv'
    OBVIOUS
  <1>1. TypeOK'
    BY NextType DEF Inv
  <1>2. CASE UNCHANGED vars
    <2>1. UNCHANGED <<currentTask, canceled, released, delayed, mailbox, looper, executor, shutdown,
                      started, answered, interrupted, executorThread, process, thread>>
      BY <1>2 DEF vars, fields, messages, running, history
    <2>2. /\ ExecutorOnce' /\ MailboxOnce'
          /\ \A x \in Loads : (Queued(x)' <=> Queued(x)) /\ (Told(x)' <=> Told(x))
      BY <2>1, QueuesKept DEF Inv, PlaceInv
    <2>3. PlaceInv' /\ CurrentInv'
      BY <2>1, <2>2 DEF Inv, PlaceInv, CurrentInv, UnderWay
    <2>4. ReleaseInv' /\ ThreadInv'
      BY <2>1 DEF Inv, ReleaseInv, ThreadInv
    <2> QED
      BY <1>1, <2>3, <2>4 DEF Inv
  <1>3. FinishNext => Kept'
    BY FinishCancelKeeps, FinishReleaseKeeps DEF FinishNext
  <1>4. ThreadNext \/ LoadNext => Kept'
    BY RunTaskKeeps, EnterKeeps, LoadKeeps, LeaveKeeps DEF ThreadNext
  <1>5. Next => Kept'
    BY <1>3, <1>4, CallKeeps, HandleKeeps DEF Next
  <1> QED
    BY <1>1, <1>2, <1>5 DEF Inv, Kept

(* The invariant the theorems rest on: a load is in one place at a time,   *)
(* what is under way is the current load, and the thread is known to it.   *)
THEOREM Invariant == Spec => []Inv
  <1> QED
    BY InitInv, NextInv, PTL DEF Spec

(* Every variable has its type, in every reachable state.                  *)
THEOREM TypeCorrect == Spec => []TypeOK
  <1>1. Inv => TypeOK
    BY DEF Inv
  <1> QED
    BY <1>1, Invariant, PTL

(* Whatever the looper and the thread do to each other: something is under *)
(* way for the current load, and for no other that was not released.       *)
THEOREM NothingStranded == Spec => []CurrentIsUnderWay
  <1>1. Inv => CurrentIsUnderWay
    BY DEF Inv, CurrentInv, CurrentIsUnderWay
  <1> QED
    BY <1>1, Invariant, PTL

(* However a cancel, a retry, an end and a release meet: the owner is told *)
(* at most once, and a load it was told of is over.                        *)
THEOREM ToldOnce == Spec => []AnsweredOnce
  <1>1. Inv => AnsweredOnce
    <2> SUFFICES ASSUME Inv, NEW l \in Loads
                 PROVE  /\ answered[l] <= 1
                        /\ answered[l] = 1 => currentTask # l /\ l \notin delayed
      BY DEF AnsweredOnce
    <2> QED
      BY DEF Inv, CurrentInv
  <1> QED
    BY <1>1, Invariant, PTL

(* A cancel meets the load it is for: run() makes the thread known before  *)
(* it looks at canceled, cancel() sets canceled before it looks for the    *)
(* thread.                                                                 *)
THEOREM CancelMeetsLoad == Spec => []InterruptMeetsCancel
  <1>1. Inv => InterruptMeetsCancel
    BY DEF Inv, ThreadInv, InterruptMeetsCancel
  <1> QED
    BY <1>1, Invariant, PTL

(* The owner of a load is told that it is over only when the thread is not *)
(* in it and will not be again.                                            *)
THEOREM LeftBeforeTold == Spec => ToldAfterLoad
  <1> DEFINE Off(l) == answered'[l] # answered[l] /\ ~released[l] =>
                         thread'.load # l /\ \A i \in DOMAIN executor' : executor'[i] # l
  <1>1. ASSUME Inv, [Next]_vars, NEW l \in Loads, answered'[l] # answered[l], ~released[l]
        PROVE  thread'.load # l /\ \A i \in DOMAIN executor' : executor'[i] # l
    <2>1. ASSUME NEW m, Take(m), Tell(m.load), ~released[m.load], UNCHANGED executor
          PROVE  thread'.load # l /\ \A i \in DOMAIN executor' : executor'[i] # l
      <3>1. l = m.load
        BY <1>1, <2>1, TakeFrees DEF Tell, Inv, TypeOK
      <3> QED
        BY <1>1, <2>1, <3>1, TakeFrees DEF Queued
    <2>2. ASSUME NEW m, NEW throws \in BOOLEAN, HandleOver(m, throws)
          PROVE  thread'.load # l /\ \A i \in DOMAIN executor' : executor'[i] # l
      BY <2>1, <2>2 DEF HandleOver
    <2>3. ASSUME NEW m, NEW answer \in Answers, HandleError(m, answer)
          PROVE  thread'.load # l /\ \A i \in DOMAIN executor' : executor'[i] # l
      <3>1. answered' # answered
        BY <1>1
      <3>2. /\ Take(m) /\ ~released[m.load] /\ Tell(m.load)
            /\ answer \notin {"retry", "retryReset", "retryLater"}
        BY <2>3, <3>1 DEF HandleError
      <3>3. UNCHANGED executor
        BY <2>3, <3>2 DEF HandleError
      <3> QED
        BY <2>1, <3>2, <3>3
    <2>4. ASSUME NEW tells \in BOOLEAN, FinishRelease(tells) PROVE FALSE
      <3>1. looper = "releasing" /\ IF currentTask # NoLoad THEN Tell(currentTask) ELSE UNCHANGED answered
        BY <2>4 DEF FinishRelease
      <3>2. currentTask # NoLoad /\ currentTask \in Loads
        BY <1>1, <3>1 DEF Inv, TypeOK
      <3>3. released[currentTask]
        BY <1>1, <3>1, <3>2 DEF Inv, ReleaseInv
      <3>4. l = currentTask
        BY <1>1, <3>1, <3>2 DEF Tell, Inv, TypeOK
      <3> QED
        BY <1>1, <3>3, <3>4
    <2>5. answered' # answered
      BY <1>1
    <2>6. CallNext => UNCHANGED answered
      BY DEF CallNext, StartLoading, ClearFatalError, CancelLoading, Release, history
    <2>7. ThreadNext \/ LoadNext => UNCHANGED answered
      BY DEF ThreadNext, LoadNext, RunTask, Enter, CheckCanceled, NoticesInterrupt, NoExtractorFits,
             LoadInterrupted, CheckReleased, SendMessage, LoadEnds, history
    <2>8. FinishCancel => UNCHANGED answered
      BY DEF FinishCancel, history
    <2>9. CASE HandleNext
      BY <2>2, <2>3, <2>5, <2>9
      DEF HandleNext, HandleStart, HandleReleased, HandleFatal, history
    <2>10. CASE UNCHANGED vars
      BY <2>5, <2>10 DEF vars, history
    <2> QED
      BY <1>1, <2>4, <2>5, <2>6, <2>7, <2>8, <2>9, <2>10 DEF Next, FinishNext
  <1>2. Inv /\ [Next]_vars => [\A l \in Loads : Off(l)]_vars
    BY <1>1
  <1> QED
    BY <1>2, Invariant, PTL DEF Spec, ToldAfterLoad
=============================================================================
