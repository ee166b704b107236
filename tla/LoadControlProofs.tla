-------------------------- MODULE LoadControlProofs --------------------------
(***************************************************************************)
(* Proofs about LoadControl, for every interval, memory limit and size of  *)
(* the extractor's reads: the type invariant, that a loader is never       *)
(* stranded before the tracks are known, and the bound on what is read     *)
(* while the memory in use is at its limit.                                *)
(***************************************************************************)
EXTENDS LoadControl, TLAPS

(* Between two checks the loader is at most one call past the interval.    *)
ProgressInv ==
  /\ loader \in {"unstarted", "blocked", "reading"} => progress <= Interval
  /\ loader = "posting" => progress = 0

(* The looper prepares once, first of all; it starts transcoding once,     *)
(* after the tracks are known, which takes a loader that was started.      *)
MailOrder ==
  /\ \A i \in 1 .. Len(mailbox) : mailbox[i] = "prepare" => i = 1 /\ loader = "unstarted"
  /\ \A i \in 1 .. Len(mailbox) : mailbox[i] = "start" =>
                                    prepared /\ ~transcoderRunning /\ startRequested
  /\ \A i, j \in 1 .. Len(mailbox) : mailbox[i] = "start" /\ mailbox[j] = "start" => i = j

OrderInv ==
  /\ MailOrder
  /\ transcoderRunning => prepared /\ startRequested
  /\ prepared => formatsFound
  /\ loader = "unstarted" => ~formatsFound

BaseInv == TypeOK /\ ProgressInv /\ OrderInv

(* A loader that reads before the tracks are known was let through by a    *)
(* condition that is still open, so it stops only by closing it itself.    *)
OpenWhileReading == loader = "reading" /\ ~prepared => isOpen

StrandedInv == OpenWhileReading /\ NotStranded

(* The intervals the loader may still read without another look at the     *)
(* memory: one if it is past the condition or finds it open, and one for   *)
(* each thread that has looked and not opened yet.                         *)
LoaderMayRead == isOpen \/ loader \in {"reading", "closing"}
Step == Interval + Chunk
Due(p) == IF p THEN Step ELSE 0
Permitted == Due(LoaderMayRead) + Due(des = "opening") + Due(looper = "opening")

(* What the seeks made at the limit add to it.                             *)
SeekAllowance(s) == s * Step

AtLimit == transcoderRunning /\ allocated >= MaxSize

BoundInv ==
  /\ ~AtLimit => overBytes = 0 /\ overSeeks = 0
  /\ AtLimit => overBytes + Permitted <= 3 * Step + SeekAllowance(overSeeks) + progress
  /\ transcoderRunning /\ ~isOpen /\ looper = "idle" =>
       progress = 0 /\ loader \in {"blocked", "posting"}

-----------------------------------------------------------------------------
(* Removing the head of a sequence moves the others one place down.        *)
LEMMA TailElements ==
  ASSUME NEW S, NEW s \in Seq(S), s # << >>
  PROVE  /\ Tail(s) \in Seq(S)
         /\ Head(s) = s[1] /\ Head(s) \in S
         /\ Len(Tail(s)) = Len(s) - 1
         /\ \A i \in 1 .. Len(Tail(s)) : Tail(s)[i] = s[i + 1]
  OBVIOUS

LEMMA AppendElements ==
  ASSUME NEW S, NEW s \in Seq(S), NEW e \in S
  PROVE  /\ Append(s, e) \in Seq(S)
         /\ Len(Append(s, e)) = Len(s) + 1
         /\ \A i \in 1 .. Len(s) : Append(s, e)[i] = s[i]
         /\ Append(s, e)[Len(s) + 1] = e
  OBVIOUS

(* What is left of the mailbox once a message m was received.              *)
LEMMA ReceiveElements ==
  ASSUME mailbox \in Seq(Messages), NEW m, Receive(m)
  PROVE  /\ looper = "idle"
         /\ mailbox' \in Seq(Messages)
         /\ Len(mailbox) = Len(mailbox') + 1 /\ Len(mailbox') \in Nat
         /\ mailbox[1] = m
         /\ \A i \in 1 .. Len(mailbox') : i + 1 \in 1 .. Len(mailbox) /\ mailbox'[i] = mailbox[i + 1]
  <1>1. mailbox # << >> /\ mailbox' = Tail(mailbox) /\ Head(mailbox) = m /\ looper = "idle"
    BY DEF Receive
  <1>2. Len(mailbox) \in Nat
    OBVIOUS
  <1> QED
    BY <1>1, <1>2, TailElements

(* After a message was received none asks to prepare, and none asks to     *)
(* start if that one did.                                                  *)
LEMMA ReceiveOrder ==
  ASSUME mailbox \in Seq(Messages), MailOrder, NEW m, Receive(m)
  PROVE  /\ \A i \in 1 .. Len(mailbox') : mailbox'[i] # "prepare"
         /\ \A i \in 1 .. Len(mailbox') : mailbox'[i] = "start" =>
              prepared /\ ~transcoderRunning /\ startRequested /\ m # "start"
         /\ \A i, j \in 1 .. Len(mailbox') :
              mailbox'[i] = "start" /\ mailbox'[j] = "start" => i = j
  <1>1. /\ Len(mailbox) = Len(mailbox') + 1 /\ Len(mailbox') \in Nat /\ mailbox[1] = m
        /\ \A i \in 1 .. Len(mailbox') :
             i + 1 \in 1 .. Len(mailbox) /\ mailbox'[i] = mailbox[i + 1]
    BY ReceiveElements
  <1>2. ASSUME NEW i \in 1 .. Len(mailbox')
        PROVE  /\ mailbox'[i] # "prepare"
               /\ mailbox'[i] = "start" =>
                    prepared /\ ~transcoderRunning /\ startRequested /\ m # "start"
    <2>1. i + 1 \in 1 .. Len(mailbox) /\ i + 1 # 1 /\ 1 \in 1 .. Len(mailbox)
      BY <1>1
    <2> QED
      BY <1>1, <2>1 DEF MailOrder
  <1>3. ASSUME NEW i \in 1 .. Len(mailbox'), NEW j \in 1 .. Len(mailbox'),
               mailbox'[i] = "start", mailbox'[j] = "start"
        PROVE  i = j
    <2>1. i + 1 = j + 1
      BY <1>1, <1>3 DEF MailOrder
    <2> QED
      BY <1>1, <2>1
  <1> QED
    BY <1>2, <1>3

(* Posting a message other than these two keeps the order.                 *)
LEMMA PostOrder ==
  ASSUME mailbox \in Seq(Messages), MailOrder,
         NEW m \in Messages \ {"prepare", "start"}, Post(m),
         loader' = "unstarted" <=> loader = "unstarted",
         UNCHANGED <<prepared, transcoderRunning, startRequested>>
  PROVE  mailbox' \in Seq(Messages) /\ MailOrder'
  <1>1. /\ mailbox' \in Seq(Messages)
        /\ Len(mailbox) \in Nat /\ Len(mailbox') = Len(mailbox) + 1
        /\ \A i \in 1 .. Len(mailbox) : mailbox'[i] = mailbox[i]
        /\ mailbox'[Len(mailbox) + 1] = m
    BY AppendElements DEF Post
  <1>2. \A i \in 1 .. Len(mailbox') : mailbox'[i] \in {"prepare", "start"} =>
          i \in 1 .. Len(mailbox) /\ mailbox[i] = mailbox'[i]
    BY <1>1
  <1> QED
    BY <1>1, <1>2 DEF MailOrder

LEMMA InitBase == Init => BaseInv
  <1> SUFFICES ASSUME Init PROVE BaseInv
    OBVIOUS
  <1>1. mailbox \in Seq(Messages) /\ Len(mailbox) = 1 /\ mailbox[1] = "prepare"
    BY DEF Init, Messages
  <1>2. TypeOK
    <2>1. 0 \in 0 .. Interval + Chunk /\ 0 \in 0 .. MaxRead
      BY SizesAssumption
    <2> QED
      BY <1>1, <2>1 DEF Init, TypeOK
  <1>3. ProgressInv
    BY SizesAssumption DEF Init, ProgressInv
  <1>4. OrderInv
    BY <1>1 DEF Init, OrderInv, MailOrder
  <1> QED
    BY <1>2, <1>3, <1>4 DEF BaseInv

(* The steps of each thread keep BaseInv.                                  *)
LEMMA LoaderBase == BaseInv /\ LoaderNext => BaseInv'
  <1> SUFFICES ASSUME BaseInv, LoaderNext PROVE BaseInv'
    OBVIOUS
  <1> USE SizesAssumption DEF BaseInv
  <1>1. CASE Block
    <2>1. TypeOK'
      BY <1>1 DEF Block, TypeOK, control, over
    <2>2. ProgressInv'
      BY <1>1 DEF Block, ProgressInv
    <2>3. OrderInv'
      BY <1>1 DEF Block, OrderInv, MailOrder, control
    <2> QED
      BY <2>1, <2>2, <2>3
  <1>2. ASSUME NEW c \in 1 .. Chunk, NEW a \in 0 .. MaxAlloc,
               NEW finds \in BOOLEAN, NEW seek \in BOOLEAN,
               ReadInput(c, a, finds, seek)
        PROVE  BaseInv'
    <2>1. progress + c \in 0 .. Interval + Chunk /\ allocated + a \in Nat
      BY <1>2 DEF ReadInput, TypeOK, ProgressInv
    <2>2. loader = "reading" /\ loader' # "unstarted" /\ loader' # "posting"
      BY <1>2 DEF ReadInput
    <2>3. mailbox' \in Seq(Messages) /\ MailOrder'
      <3>1. CASE finds
        BY <1>2, <2>2, <3>1, PostOrder DEF ReadInput, TypeOK, OrderInv, Messages, control
      <3>2. CASE ~finds
        BY <1>2, <3>2 DEF ReadInput, TypeOK, OrderInv, MailOrder, control
      <3> QED
        BY <3>1, <3>2
    <2>4. TypeOK'
      <3>1. overBytes' \in Nat /\ overSeeks' \in Nat
        BY <1>2 DEF ReadInput, TypeOK
      <3>2. progress' \in 0 .. Interval + Chunk
        BY <1>2, <2>1 DEF ReadInput
      <3> QED
        BY <1>2, <2>1, <2>3, <3>1, <3>2 DEF ReadInput, TypeOK, control
    <2>5. ProgressInv'
      BY <1>2, <2>1, <2>2 DEF ReadInput, ProgressInv
    <2>6. OrderInv'
      BY <1>2, <2>2, <2>3 DEF ReadInput, OrderInv, control
    <2> QED
      BY <2>4, <2>5, <2>6
  <1>3. CASE EndOrFail
    BY <1>3 DEF EndOrFail, TypeOK, ProgressInv, OrderInv, MailOrder, control, over
  <1>4. CASE CloseCondition
    <2>1. TypeOK'
      <3>1. 0 \in 0 .. Interval + Chunk
        OBVIOUS
      <3> QED
        BY <1>4, <3>1 DEF CloseCondition, NewPosition, TypeOK, control, over
    <2>2. ProgressInv'
      BY <1>4 DEF CloseCondition, NewPosition, ProgressInv
    <2>3. OrderInv'
      BY <1>4 DEF CloseCondition, OrderInv, MailOrder, control
    <2> QED
      BY <2>1, <2>2, <2>3
  <1>5. CASE RequestMore
    <2>1. mailbox' \in Seq(Messages) /\ MailOrder'
      BY <1>5, PostOrder DEF RequestMore, PostRequest, TypeOK, OrderInv, Messages, control
    <2>2. TypeOK' /\ ProgressInv'
      BY <1>5, <2>1 DEF RequestMore, TypeOK, ProgressInv, control, over
    <2>3. OrderInv'
      BY <1>5, <2>1 DEF RequestMore, OrderInv, control
    <2> QED
      BY <2>2, <2>3
  <1> QED
    BY <1>1, <1>2, <1>3, <1>4, <1>5 DEF LoaderNext, ReadNext

LEMMA LooperBase == BaseInv /\ LooperNext => BaseInv'
  <1> SUFFICES ASSUME BaseInv, LooperNext PROVE BaseInv'
    OBVIOUS
  <1> USE SizesAssumption DEF BaseInv
  <1>1. mailbox \in Seq(Messages)
    BY DEF TypeOK
  <1>2. CASE Prepare
    <2>1. Receive("prepare")
      BY <1>2 DEF Prepare
    <2>2. TypeOK' /\ ProgressInv'
      BY <1>2, <1>1, <2>1, ReceiveElements
      DEF Prepare, TypeOK, ProgressInv, OrderInv, MailOrder, control, over
    <2>3. OrderInv'
      BY <1>2, <1>1, <2>1, ReceiveElements, ReceiveOrder
      DEF Prepare, OrderInv, MailOrder, control
    <2> QED
      BY <2>2, <2>3
  <1>3. CASE MaybeFinishPrepare
    <2>1. Receive("maybeFinishPrepare")
      BY <1>3 DEF MaybeFinishPrepare
    <2>2. TypeOK' /\ ProgressInv'
      <3>1. mailbox' \in Seq(Messages) /\ isOpen' \in BOOLEAN /\ prepared' \in BOOLEAN
        BY <1>3, <1>1, <2>1, ReceiveElements DEF MaybeFinishPrepare, TypeOK
      <3> QED
        BY <1>3, <3>1 DEF MaybeFinishPrepare, TypeOK, ProgressInv, loading, over
    <2>3. OrderInv'
      BY <1>3, <1>1, <2>1, ReceiveElements, ReceiveOrder
      DEF MaybeFinishPrepare, TypeOK, OrderInv, MailOrder, loading
    <2> QED
      BY <2>2, <2>3
  <1>4. CASE OnContinueLoadingRequested
    <2>1. Receive("continueLoadingRequested")
      BY <1>4 DEF OnContinueLoadingRequested
    <2>2. TypeOK' /\ ProgressInv'
      BY <1>4, <1>1, <2>1, ReceiveElements
      DEF OnContinueLoadingRequested, TypeOK, ProgressInv, loading, over
    <2>3. OrderInv'
      BY <1>4, <1>1, <2>1, ReceiveElements, ReceiveOrder
      DEF OnContinueLoadingRequested, OrderInv, MailOrder, loading
    <2> QED
      BY <2>2, <2>3
  <1>5. CASE ReallyStartTranscoding
    <2>1. Receive("start")
      BY <1>5 DEF ReallyStartTranscoding
    <2>2. TypeOK' /\ ProgressInv'
      BY <1>5, <1>1, <2>1, ReceiveElements
      DEF ReallyStartTranscoding, TypeOK, ProgressInv, loading, over
    <2>3. 1 \in 1 .. Len(mailbox) /\ mailbox[1] = "start"
      BY <1>1, <2>1, ReceiveElements
    <2>4. prepared /\ startRequested
      BY <2>3 DEF OrderInv, MailOrder
    <2>5. MailOrder'
      BY <1>1, <1>5, <2>1, ReceiveOrder DEF OrderInv, MailOrder
    <2>6. OrderInv'
      BY <1>5, <2>4, <2>5 DEF ReallyStartTranscoding, OrderInv, loading
    <2> QED
      BY <2>2, <2>6
  <1>6. CASE LooperOpens
    BY <1>6 DEF LooperOpens, TypeOK, ProgressInv, OrderInv, MailOrder, loading, over
  <1> QED
    BY <1>2, <1>3, <1>4, <1>5, <1>6 DEF LooperNext

LEMMA DesBase == BaseInv /\ DesNext => BaseInv'
  <1> SUFFICES ASSUME BaseInv, DesNext PROVE BaseInv'
    OBVIOUS
  <1> USE DEF BaseInv
  <1>1. ASSUME NEW n \in 0 .. allocated, FeedRenderer(n) PROVE BaseInv'
    <2>1. allocated' \in Nat /\ overBytes' \in Nat /\ overSeeks' \in Nat
      BY <1>1 DEF FeedRenderer, TypeOK, over
    <2> QED
      BY <1>1, <2>1 DEF FeedRenderer, TypeOK, ProgressInv, OrderInv, MailOrder, loading, control
  <1>2. CASE CheckMemory
    BY <1>2 DEF CheckMemory, AfterCheck, TypeOK, ProgressInv, OrderInv, MailOrder, loading, control, over
  <1>3. CASE DesOpens
    BY <1>3 DEF DesOpens, TypeOK, ProgressInv, OrderInv, MailOrder, loading, control, over
  <1>4. CASE DesEnds
    BY <1>4 DEF DesEnds, TypeOK, ProgressInv, OrderInv, MailOrder, loading, over
  <1> QED
    BY <1>1, <1>2, <1>3, <1>4 DEF DesNext, DesStep

LEMMA UiBase == BaseInv /\ UiNext => BaseInv'
  <1> SUFFICES ASSUME BaseInv, UiNext PROVE BaseInv'
    OBVIOUS
  <1> USE DEF BaseInv
  <1>1. CASE StartTranscoder
    <2>1. /\ mailbox' \in Seq(Messages)
          /\ Len(mailbox) \in Nat /\ Len(mailbox') = Len(mailbox) + 1
          /\ \A i \in 1 .. Len(mailbox) : mailbox'[i] = mailbox[i]
          /\ mailbox'[Len(mailbox) + 1] = "start"
      BY <1>1, AppendElements, "start" \in Messages
      DEF StartTranscoder, Post, TypeOK, Messages
    <2>2. TypeOK' /\ ProgressInv'
      BY <1>1, <2>1 DEF StartTranscoder, TypeOK, ProgressInv, loading, over
    <2>3. /\ prepared /\ ~transcoderRunning
          /\ \A i \in 1 .. Len(mailbox) : mailbox[i] # "start"
      BY <1>1 DEF StartTranscoder, OrderInv, MailOrder
    <2>4. \A i \in 1 .. Len(mailbox') :
            \/ i \in 1 .. Len(mailbox) /\ mailbox'[i] = mailbox[i]
            \/ i = Len(mailbox) + 1 /\ mailbox'[i] = "start"
      BY <2>1
    <2>5. OrderInv'
      BY <1>1, <2>1, <2>3, <2>4 DEF StartTranscoder, OrderInv, MailOrder, loading
    <2> QED
      BY <2>2, <2>5
  <1>2. CASE StopTranscoder
    BY <1>2 DEF StopTranscoder, TypeOK, ProgressInv, OrderInv, MailOrder, loading, over
  <1> QED
    BY <1>1, <1>2 DEF UiNext

LEMMA NextBase == BaseInv /\ [Next]_vars => BaseInv'
  <1> SUFFICES ASSUME BaseInv, [Next]_vars PROVE BaseInv'
    OBVIOUS
  <1>1. CASE UNCHANGED vars
    BY <1>1 DEF vars, loading, control, over, BaseInv, TypeOK, ProgressInv, OrderInv, MailOrder
  <1> QED
    BY <1>1, LoaderBase, LooperBase, DesBase, UiBase DEF Next

LEMMA SpecBase == Spec => []BaseInv
  BY InitBase, NextBase, PTL DEF Spec

(* Every variable keeps its type; in particular the loader never reads     *)
(* more than one call past the check interval (ExtractingLoadable.load).   *)
THEOREM TypeCorrect == Spec => []TypeOK
  <1>1. BaseInv => TypeOK
    BY DEF BaseInv
  <1> QED
    BY <1>1, SpecBase, PTL

-----------------------------------------------------------------------------
(* A loader that is held back                                              *)

LEMMA NextStranded == BaseInv /\ StrandedInv /\ [Next]_vars => StrandedInv'
  <1> SUFFICES ASSUME BaseInv, StrandedInv, [Next]_vars PROVE StrandedInv'
    OBVIOUS
  <1>1. /\ mailbox \in Seq(Messages)
        /\ transcoderRunning => prepared
        /\ prepared \in BOOLEAN /\ isOpen \in BOOLEAN
    BY DEF BaseInv, TypeOK, OrderInv
  <1> USE DEF StrandedInv, OpenWhileReading, NotStranded
  <1>2. CASE Block
    BY <1>2 DEF Block, control
  <1>3. ASSUME NEW c \in 1 .. Chunk, NEW a \in 0 .. MaxAlloc,
               NEW finds \in BOOLEAN, NEW seek \in BOOLEAN,
               ReadInput(c, a, finds, seek)
        PROVE  StrandedInv'
    BY <1>3 DEF ReadInput, control
  <1>4. CASE EndOrFail
    BY <1>4 DEF EndOrFail
  <1>5. CASE CloseCondition
    BY <1>5 DEF CloseCondition
  <1>6. CASE RequestMore
    <2>1. /\ Len(mailbox) + 1 \in DOMAIN mailbox'
          /\ mailbox'[Len(mailbox) + 1] = "continueLoadingRequested"
      BY <1>1, <1>6, AppendElements, "continueLoadingRequested" \in Messages
      DEF RequestMore, PostRequest, Post, Messages
    <2> QED
      BY <1>6, <2>1 DEF RequestMore
  <1>7. CASE Prepare
    BY <1>7 DEF Prepare
  <1>8. CASE MaybeFinishPrepare
    <2>1. CASE prepared'
      BY <2>1
    <2>2. CASE ~prepared'
      <3>1. UNCHANGED <<isOpen, prepared, loader, looper>>
        BY <1>8, <2>2 DEF MaybeFinishPrepare, loading
      <3>2. Receive("maybeFinishPrepare")
        BY <1>8 DEF MaybeFinishPrepare
      <3>3. ASSUME NEW i \in DOMAIN mailbox, mailbox[i] = "continueLoadingRequested"
            PROVE  \E j \in DOMAIN mailbox' : mailbox'[j] = "continueLoadingRequested"
        <4>0. i \in 1 .. Len(mailbox)
          BY <1>1, <3>3
        <4>1. i \in 2 .. Len(mailbox') + 1 /\ Len(mailbox') \in Nat
          BY <1>1, <3>2, <3>3, <4>0, ReceiveElements
        <4> DEFINE j == i - 1
        <4>2. j \in 1 .. Len(mailbox') /\ j + 1 = i
          BY <4>1
        <4> HIDE DEF j
        <4>3. mailbox'[j] = mailbox[j + 1] /\ mailbox' \in Seq(Messages)
          BY <1>1, <3>2, <4>2, ReceiveElements
        <4>4. j \in DOMAIN mailbox'
          BY <4>2, <4>3
        <4> QED
          BY <3>3, <4>2, <4>3, <4>4
      <3> QED
        BY <3>1, <3>3
    <2> QED
      BY <2>1, <2>2
  <1>9. CASE OnContinueLoadingRequested
    BY <1>1, <1>9 DEF OnContinueLoadingRequested, MayContinue, loading
  <1>10. CASE ReallyStartTranscoding
    BY <1>10 DEF ReallyStartTranscoding, loading
  <1>11. CASE LooperOpens
    BY <1>11 DEF LooperOpens
  <1>12. CASE DesNext
    <2>1. isOpen' = (isOpen \/ isOpen') /\ UNCHANGED <<loader, prepared, looper, mailbox>>
      BY <1>1, <1>12
      DEF DesNext, DesStep, FeedRenderer, CheckMemory, DesOpens, DesEnds, loading, control
    <2> QED
      BY <1>12, <2>1
  <1>13. CASE StartTranscoder
    BY <1>13 DEF StartTranscoder
  <1>14. CASE StopTranscoder
    BY <1>14 DEF StopTranscoder, loading
  <1>15. CASE UNCHANGED vars
    BY <1>15 DEF vars, loading, control
  <1> QED
    BY <1>2, <1>3, <1>4, <1>5, <1>6, <1>7, <1>8, <1>9, <1>10, <1>11, <1>12, <1>13,
       <1>14, <1>15
    DEF Next, LoaderNext, ReadNext, LooperNext, UiNext

(* Until the tracks are known, a loading thread that waits at the closed   *)
(* condition has a request to continue under way, so that preparation      *)
(* cannot stop for want of input (MediaSource.load, maybeFinishPrepare and *)
(* DefaultTranscoder.onContinueLoadingRequested).                          *)
THEOREM NeverStranded == Spec => []NotStranded
  <1>1. Init => StrandedInv
    BY DEF Init, StrandedInv, OpenWhileReading, NotStranded
  <1>2. StrandedInv => NotStranded
    BY DEF StrandedInv
  <1> QED
    BY <1>1, <1>2, NextStranded, SpecBase, PTL DEF Spec

-----------------------------------------------------------------------------
(* What is read while the memory in use is at its limit                    *)

LEMMA StepType == Step \in Nat /\ Interval <= Step /\ Chunk <= Step
  BY SizesAssumption DEF Step

(* One more seek allows one more interval.                                 *)
LEMMA SeekAllowanceType ==
  /\ SeekAllowance(0) = 0
  /\ \A s \in Nat : /\ SeekAllowance(s) \in Nat
                    /\ SeekAllowance(s + 1) = SeekAllowance(s) + Step
  BY StepType DEF SeekAllowance

LEMMA InitBound == Init => BoundInv
  BY DEF Init, BoundInv, AtLimit

LEMMA LoaderBound == BaseInv /\ BoundInv /\ LoaderNext => BoundInv'
  <1> SUFFICES ASSUME BaseInv, BoundInv, LoaderNext PROVE BoundInv'
    OBVIOUS
  <1>1. /\ progress \in Nat /\ overBytes \in Nat /\ overSeeks \in Nat /\ allocated \in Nat
        /\ MaxSize \in Nat /\ isOpen \in BOOLEAN
        /\ loader \in {"unstarted", "blocked", "reading"} => progress <= Interval
        /\ transcoderRunning => loader # "unstarted"
        /\ progress <= Step
    BY SizesAssumption DEF BaseInv, TypeOK, ProgressInv, OrderInv, Step
  <1>2. CASE Block
    BY <1>2 DEF Block, BoundInv, AtLimit, Permitted, LoaderMayRead, control, over
  <1>3. ASSUME NEW c \in 1 .. Chunk, NEW a \in 0 .. MaxAlloc,
               NEW finds \in BOOLEAN, NEW seek \in BOOLEAN,
               ReadInput(c, a, finds, seek)
        PROVE  BoundInv'
    <2> DEFINE read == progress + c
    <2>1. /\ loader = "reading" /\ UNCHANGED <<isOpen, des, looper, transcoderRunning>>
          /\ loader' = "closing" \/ loader' = "blocked"
          /\ AtLimit' <=> transcoderRunning /\ allocated + a >= MaxSize
      BY <1>3 DEF ReadInput, control, AtLimit
    <2>2. c \in Nat /\ read \in Nat /\ read <= Interval + c /\ c <= Chunk
      BY <1>1, <2>1, SizesAssumption
    <2>3. /\ Permitted \in Nat /\ Permitted' \in Nat /\ Permitted' <= Permitted
          /\ Permitted' <= 3 * Step
      BY <2>1, StepType DEF Permitted, LoaderMayRead, Due
    <2>4. ~AtLimit' => overBytes' = 0 /\ overSeeks' = 0
      BY <1>3, <2>1 DEF ReadInput
    <2>5. ASSUME AtLimit'
          PROVE  overBytes' + Permitted' <= 3 * Step + SeekAllowance(overSeeks') + progress'
      <3>1. /\ overBytes + Permitted' <= 3 * Step + SeekAllowance(overSeeks) + progress
            /\ SeekAllowance(overSeeks) \in Nat
        <4>1. SeekAllowance(overSeeks) \in Nat
          BY <1>1, SeekAllowanceType
        <4>2. CASE AtLimit
          BY <1>1, <2>3, <4>1, <4>2, StepType DEF BoundInv
        <4>3. CASE ~AtLimit
          BY <1>1, <2>3, <4>1, <4>3, StepType DEF BoundInv
        <4> QED
          BY <4>1, <4>2, <4>3
      <3>2. overBytes' = overBytes + c
        BY <1>3, <2>1, <2>5 DEF ReadInput
      <3>3. CASE seek /\ read <= Interval
        <4>1. overSeeks' = overSeeks + 1 /\ progress' = 0
          BY <1>3, <2>1, <2>2, <2>5, <3>3, SizesAssumption DEF ReadInput
        <4>2. SeekAllowance(overSeeks') = SeekAllowance(overSeeks) + Step /\ SeekAllowance(overSeeks) \in Nat
          BY <1>1, <4>1, SeekAllowanceType
        <4> QED
          BY <1>1, <2>2, <2>3, <3>1, <3>2, <3>3, <4>1, <4>2, StepType, SizesAssumption
      <3>4. CASE ~(seek /\ read <= Interval)
        <4>1. overSeeks' = overSeeks /\ progress' = read
          BY <1>1, <1>3, <2>1, <2>2, <2>5, <3>4, SizesAssumption DEF ReadInput
        <4>2. SeekAllowance(overSeeks) \in Nat
          BY <1>1, SeekAllowanceType
        <4> QED
          BY <1>1, <2>2, <2>3, <3>1, <3>2, <4>1, <4>2, StepType
      <3> QED
        BY <3>3, <3>4
    <2>6. transcoderRunning /\ ~isOpen => looper # "idle"
      BY <2>1 DEF BoundInv
    <2> QED
      BY <2>1, <2>4, <2>5, <2>6 DEF BoundInv
  <1>4. CASE EndOrFail
    <2>1. Permitted' <= Permitted /\ Permitted \in Nat /\ Permitted' \in Nat
      BY <1>4, StepType DEF EndOrFail, Permitted, LoaderMayRead, Due, control
    <2>2. SeekAllowance(overSeeks) \in Nat
      BY <1>1, SeekAllowanceType
    <2> QED
      BY <1>1, <1>4, <2>1, <2>2, StepType DEF EndOrFail, BoundInv, AtLimit, control, over
  <1>5. CASE CloseCondition
    <2>1. Permitted' + Step = Permitted /\ Permitted' \in Nat
      BY <1>5, StepType DEF CloseCondition, Permitted, LoaderMayRead, Due, control
    <2>2. SeekAllowance(overSeeks) \in Nat
      BY <1>1, SeekAllowanceType
    <2>3. progress' = 0 /\ loader' = "posting" /\ UNCHANGED <<over, transcoderRunning, allocated>>
      BY <1>5 DEF CloseCondition, NewPosition, control
    <2> QED
      BY <1>1, <2>1, <2>2, <2>3, StepType DEF BoundInv, AtLimit, over
  <1>6. CASE RequestMore
    BY <1>6 DEF RequestMore, BoundInv, AtLimit, Permitted, LoaderMayRead, control, over
  <1> QED
    BY <1>2, <1>3, <1>4, <1>5, <1>6 DEF LoaderNext, ReadNext

LEMMA LooperBound == BaseInv /\ BoundInv /\ LooperNext => BoundInv'
  <1> SUFFICES ASSUME BaseInv, BoundInv, LooperNext PROVE BoundInv'
    OBVIOUS
  <1>1. /\ progress \in Nat /\ overBytes \in Nat /\ overSeeks \in Nat /\ allocated \in Nat
        /\ MaxSize \in Nat /\ isOpen \in BOOLEAN
        /\ mailbox \in Seq(Messages) /\ MailOrder
        /\ transcoderRunning => prepared
        /\ SeekAllowance(overSeeks) \in Nat
    <2>1. overSeeks \in Nat
      BY DEF BaseInv, TypeOK
    <2>2. SeekAllowance(overSeeks) \in Nat
      BY <2>1, SeekAllowanceType
    <2> QED
      BY <2>1, <2>2, SizesAssumption DEF BaseInv, TypeOK, OrderInv
  <1>2. Permitted' \in Nat /\ Permitted' <= 3 * Step
    BY StepType DEF Permitted, Due
  <1>3. CASE Prepare
    <2>1. loader = "unstarted" /\ ~transcoderRunning
      <3>1. 1 \in 1 .. Len(mailbox) /\ mailbox[1] = "prepare"
        BY <1>1, <1>3, ReceiveElements DEF Prepare
      <3>2. loader = "unstarted"
        BY <1>1, <3>1 DEF MailOrder
      <3> QED
        BY <3>2 DEF BaseInv, OrderInv
    <2> QED
      BY <1>3, <2>1 DEF Prepare, BoundInv, AtLimit, control, over
  <1>4. CASE MaybeFinishPrepare
    <2>1. CASE transcoderRunning
      BY <1>1, <1>4, <2>1
      DEF MaybeFinishPrepare, BoundInv, AtLimit, Permitted, LoaderMayRead, loading, over
    <2>2. CASE ~transcoderRunning
      BY <1>4, <2>2 DEF MaybeFinishPrepare, BoundInv, AtLimit, loading, over
    <2> QED
      BY <2>1, <2>2
  <1>5. CASE OnContinueLoadingRequested
    <2>1. looper = "idle"
      BY <1>5 DEF OnContinueLoadingRequested, Receive
    <2>2. CASE AtLimit
      <3>1. ~MayContinue
        BY <1>1, <2>2 DEF AtLimit, MayContinue
      <3>2. UNCHANGED looper
        BY <1>5, <2>1, <3>1 DEF OnContinueLoadingRequested
      <3> QED
        BY <1>5, <3>2 DEF OnContinueLoadingRequested, BoundInv, AtLimit, Permitted,
                          LoaderMayRead, loading, over
    <2>3. CASE ~AtLimit
      BY <1>5, <2>1, <2>3 DEF OnContinueLoadingRequested, BoundInv, AtLimit, loading, over
    <2> QED
      BY <2>2, <2>3
  <1>6. CASE ReallyStartTranscoding
    <2>1. ~transcoderRunning
      <3>1. 1 \in 1 .. Len(mailbox) /\ mailbox[1] = "start"
        BY <1>1, <1>6, ReceiveElements DEF ReallyStartTranscoding
      <3> QED
        BY <1>1, <3>1 DEF MailOrder
    <2>2. overBytes = 0 /\ overSeeks = 0
      BY <2>1 DEF BoundInv, AtLimit
    <2>3. UNCHANGED <<progress, overBytes, overSeeks>> /\ looper' = "opening"
      BY <1>6 DEF ReallyStartTranscoding, loading, over
    <2> QED
      BY <1>1, <1>2, <2>2, <2>3, StepType DEF BoundInv
  <1>7. CASE LooperOpens
    <2>1. Permitted' <= Permitted /\ Permitted \in Nat
      BY <1>7, StepType DEF LooperOpens, Permitted, LoaderMayRead, Due, loading
    <2> QED
      BY <1>1, <1>2, <1>7, <2>1, StepType DEF LooperOpens, BoundInv, AtLimit, loading, over
  <1> QED
    BY <1>3, <1>4, <1>5, <1>6, <1>7 DEF LooperNext

LEMMA DesBound == BaseInv /\ BoundInv /\ DesNext => BoundInv'
  <1> SUFFICES ASSUME BaseInv, BoundInv, DesNext PROVE BoundInv'
    OBVIOUS
  <1>1. /\ progress \in Nat /\ overBytes \in Nat /\ overSeeks \in Nat /\ allocated \in Nat
        /\ MaxSize \in Nat /\ isOpen \in BOOLEAN
        /\ SeekAllowance(overSeeks) \in Nat
    <2>1. overSeeks \in Nat
      BY DEF BaseInv, TypeOK
    <2>2. SeekAllowance(overSeeks) \in Nat
      BY <2>1, SeekAllowanceType
    <2> QED
      BY <2>1, <2>2, SizesAssumption DEF BaseInv, TypeOK
  <1>2. Permitted \in Nat /\ Permitted' \in Nat
    BY StepType DEF Permitted, Due
  <1>3. ASSUME NEW n \in 0 .. allocated, FeedRenderer(n) PROVE BoundInv'
    <2>1. UNCHANGED Permitted
      BY <1>3 DEF FeedRenderer, Permitted, LoaderMayRead, loading, control
    <2>2. CASE allocated - n < MaxSize
      BY <1>1, <1>3, <2>2 DEF FeedRenderer, BoundInv, AtLimit, loading, control
    <2>3. CASE ~(allocated - n < MaxSize)
      <3>1. AtLimit' = AtLimit
        BY <1>1, <1>3, <2>3 DEF FeedRenderer, AtLimit, control
      <3> QED
        BY <1>3, <2>1, <2>3, <3>1 DEF FeedRenderer, BoundInv, loading, control, over
    <2> QED
      BY <2>2, <2>3
  <1>4. CASE CheckMemory
    <2>1. CASE AtLimit
      <3>1. Permitted' <= Permitted
        BY <1>1, <1>4, <2>1, StepType
        DEF CheckMemory, AfterCheck, AtLimit, Permitted, LoaderMayRead, Due, loading, control
      <3> QED
        BY <1>1, <1>2, <1>4, <2>1, <3>1, StepType
        DEF CheckMemory, BoundInv, AtLimit, loading, control, over
    <2>2. CASE ~AtLimit
      BY <1>4, <2>2 DEF CheckMemory, BoundInv, AtLimit, loading, control, over
    <2> QED
      BY <2>1, <2>2
  <1>5. CASE DesOpens
    <2>1. Permitted' <= Permitted
      BY <1>5, StepType DEF DesOpens, Permitted, LoaderMayRead, Due, loading, control
    <2> QED
      BY <1>1, <1>2, <1>5, <2>1, StepType DEF DesOpens, BoundInv, AtLimit, loading, control, over
  <1>6. CASE DesEnds
    <2>1. Permitted' <= Permitted
      BY <1>6, StepType DEF DesEnds, Permitted, LoaderMayRead, Due, loading
    <2> QED
      BY <1>1, <1>2, <1>6, <2>1, StepType DEF DesEnds, BoundInv, AtLimit, loading, over
  <1> QED
    BY <1>3, <1>4, <1>5, <1>6 DEF DesNext, DesStep

LEMMA NextBound == BaseInv /\ BoundInv /\ [Next]_vars => BoundInv'
  <1> SUFFICES ASSUME BaseInv, BoundInv, [Next]_vars PROVE BoundInv'
    OBVIOUS
  <1>1. CASE UiNext
    BY <1>1 DEF UiNext, StartTranscoder, StopTranscoder, BoundInv, AtLimit, Permitted,
                LoaderMayRead, loading, over
  <1>2. CASE UNCHANGED vars
    BY <1>2 DEF vars, BoundInv, AtLimit, Permitted, LoaderMayRead, loading, control, over
  <1> QED
    BY <1>1, <1>2, LoaderBound, LooperBound, DesBound DEF Next

LEMMA BoundImplies == BaseInv /\ BoundInv => ReadAtLimitBounded
  <1> SUFFICES ASSUME BaseInv, BoundInv PROVE ReadAtLimitBounded
    OBVIOUS
  <1>1. /\ progress \in Nat /\ overBytes \in Nat /\ overSeeks \in Nat
        /\ progress <= Step /\ SeekAllowance(overSeeks) \in Nat
        /\ Permitted \in Nat
        /\ looper \in {"idle", "opening"}
    <2>1. overSeeks \in Nat /\ Permitted \in Nat
      BY StepType DEF BaseInv, TypeOK, Permitted, Due
    <2>2. SeekAllowance(overSeeks) \in Nat
      BY <2>1, SeekAllowanceType
    <2> QED
      BY <2>1, <2>2, SizesAssumption DEF BaseInv, TypeOK, Step
  <1>2. overBytes <= 3 * Step + SeekAllowance(overSeeks)
    <2>1. CASE ~AtLimit
      BY <1>1, <2>1, StepType DEF BoundInv
    <2>2. CASE AtLimit /\ (isOpen \/ looper = "opening")
      <3>1. Permitted >= Step
        BY <2>2, StepType DEF Permitted, LoaderMayRead, Due
      <3> QED
        BY <1>1, <2>2, <3>1, StepType DEF BoundInv
    <2>3. CASE AtLimit /\ ~isOpen /\ looper = "idle"
      <3>1. progress = 0
        BY <2>3 DEF BoundInv, AtLimit
      <3> QED
        BY <1>1, <2>3, <3>1, StepType DEF BoundInv
    <2> QED
      BY <1>1, <2>1, <2>2, <2>3
  <1>3. (3 + overSeeks) * Step = 3 * Step + SeekAllowance(overSeeks)
    BY <1>1, StepType DEF SeekAllowance
  <1> QED
    BY <1>2, <1>3 DEF ReadAtLimitBounded, Step

(* While transcoding runs with the memory in use at BUFFER_MAX_SIZE or     *)
(* above, the loader reads at most three more check intervals and one more *)
(* for each seek, however the loop's and the looper's checks of the memory *)
(* and their opening of the condition interleave with its own closing.     *)
THEOREM ReadAtLimit == Spec => []ReadAtLimitBounded
  BY InitBound, NextBound, BoundImplies, SpecBase, PTL DEF Spec
=============================================================================
