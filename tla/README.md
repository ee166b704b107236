# DecodeEncoder in TLA+

DecodeEncoder is an Android application that reads a media stream (a file, HTTP
or UDP), takes it apart into tracks, decodes and encodes some tracks again,
passes others through, drops the rest, and muxes the result into an MPEG
transport stream. Its library is derived from ExoPlayer; the loop that moves
samples from the source to the muxer, and the native muxer, are its own. The
code modelled is `src/app/app/src/main`; paths below are relative to
`java/com/example/decoderencoder/library/` there.

## 1. Inventory

Four threads matter: the **UI thread**, the **looper** of the `HandlerThread`
`DefaultTranscoder`, the **loading thread** of `Loader`, and the
**decode-encode loop** (`DecodeEncodeStreams`, "DES"). The native muxer adds a
**writer thread** for every session.

| Component | State it keeps | Operations | Interacts with |
| --- | --- | --- | --- |
| `source/SampleMetadataQueue` | circular, growing arrays of sample descriptions, read position, largest times, last-sample flag, formats | commit, splice, read, seek (`advanceTo`...), discard at either end, reset, format | called by `SampleQueue` under its monitor |
| `source/SampleQueue` | a list of fixed-size nodes per track, three positions in it, bytes written | `sampleData`, `sampleMetadata`, `format`; `read` with its copy loop; discard, rewind, reset, take-back | loading thread writes, DES reads; blocks from the allocator |
| `network/DefaultAllocator` | pool of free blocks, count of blocks handed out | allocate, release, trim | shared by every track's queue; its count is the load control's input |
| `source/MediaSource` | per-track queues, ids and readers, `prepared`, `loadCondition` | track discovery, `maybeFinishPrepare`, `continueLoading`, the load loop, `readData` | loading thread, looper, DES |
| `network/Loader` | current task, executor, messages, error counts | start, cancel, retry, release | one executor thread, callbacks on the looper |
| `core/DefaultTranscoder` | life-cycle flags, renderers, codifications | prepare, select tracks, start, stop, memory checks | UI thread posts to the looper; owns DES |
| DES, renderers, codifications | codec queues, pass-through queues, highest timestamp | feed and drain, in rounds; end of stream; drain loops | sample queues on one side, the output on the other |
| `output/DefaultMediaOutput`, `muxer/FFmpegMuxer`, `cpp/mux_stream.cpp` | streams announced and discovered, native frame queue, output context | register tracks, start, write, stop, release | DES pushes, the native writer threads take |
| `util/TimestampAdjuster` | last timestamp, offset | unwrap a 33-bit time | the TS extractor |
| `video/openGL/OutputSurface` | one "frame available" flag | wait for a frame with a timeout | decoder's callback thread |
| `hdmi_in` | recorder state | record from HDMI input | vendor services |
| extractors, data sources, DRM, metadata, text, utilities, UI | | | taken over, or pure data; see section 8 |

What is hard here: the bytes of a sample change hands between the loading
thread and DES with no lock around the nodes; blocks circulate through a pool
shared by all tracks; loading is stopped and continued from three threads through
one condition variable; tracks are published in three arrays without a lock while
another thread counts them; a cancel races the end, the failure and the restart of a load;
the end of the stream is inferred from return codes; the looper assigns the loop and reads it again to
start it, while a stop may take it away; tracks are matched by ids that are not in the order of the
tracks; the muxer's queue and its context are shared with native threads without a lock. `PROJECT.json` lists each of these hazards at its line.

What makes each component correct:

* *metadata queue*: it is one list, whatever its arrays do; times, flags and positions stay consistent
  when samples leave at either end;
* *sample queue and allocator*: samples arrive whole, in order, once, with the
  bytes written for them; no block has two users; no block is lost; the count
  is exact;
* *load control*: no wake-up is lost; memory stays bounded;
* *loader*: its owner hears once that a load is over, and only when the thread is out
  of it; a cancel is always answered; an interrupt meets the load it is for;
* *preparation*: announced when, and only when, every track is known, with its
  format;
* *life cycle*: a request to prepare, and a stop, are kept; tracks are split as
  asked; a stop ends loop and looper; preparation is not begun twice, and nothing half published
  is looked at;
* *decode-encode loop*: every sample that was loaded reaches the output, or waits behind one that is
  too far ahead of the rest; the loop ends at the end of the stream; data and description stay together;
* *output and muxer*: writing begins when all streams are known; every frame pushed is written,
  once, in order; a file gets one trailer.

## 2. Plan, and where it stands

Written in this order, the most shared state first:

1. `SampleList` (abstract) and `SampleMetadataQueue`, which implements it. *Done, and the
   implementation proved.*
2. `SampleFifo` (abstract) and `SampleQueue` (sample queue + allocator), which
   implements it, taking the metadata queue as the list of step 1. *Done, and the implementation
   proved.*
3. `LoadControl`: condition variable, load loop, looper, DES check. *Done and proved.*
4. `DecodeEncode`: rounds of the loop with pass-through and codec tracks, the
   hold-back by timestamps, end of stream, both drain loops, and the Java side
   of the output. *Done; all safety invariants proved.*
5. `Preparation` and `Loader`. *Done and proved.*
6. `Transcoder`: the life cycle on the UI thread and the looper, composed with `Preparation`;
   the track split of `setSelectedTracks` is part of it. *Done; all safety invariants proved.*
7. `Muxer`: native queue, writer threads, stop and release, for overlapping sessions. *Done and
   proved.*

Decided against: `TimestampAdjuster` (one method under one monitor, arithmetic on a single
number, used by one extractor that comes from ExoPlayer; no thread of the transcoder shares its
state) and `OutputSurface` (one flag between a GPU callback and a 50 ms wait; a model would
restate the method, and its outcome, a frame or none, is a choice in `DecodeEncode`).

What could still be added: a composition of `LoadControl` with `Loader`, so that a release finds
the loading thread at its condition (section 4, observations); the sample splicing and
format adjustment of `SampleQueue`.

## 3. Modules

| Module | What it is |
| --- | --- |
| `SampleList` | what the metadata queue promises: one list with a read position |
| `SampleMetadataQueue` | the circular arrays; every public method an action |
| `SampleFifo` | what a renderer is promised: committed samples, in order, whole |
| `SampleQueue` | nodes, blocks and pool; appends and reads in their steps |
| `LoadControl` | who stops and who continues the loading thread |
| `Loader` | loads on their thread: cancel, interrupt, messages, retries, release |
| `Preparation` | the extractor's news against `maybeFinishPrepare`, read by read |
| `Transcoder` | the life cycle; extends `Preparation`, whose looper is its looper |
| `DecodeEncode` | the rounds of the loop: renderers, codifications, the output's registration |
| `Muxer` | the native queue in its memory accesses, writers, stop and release |
| `MC...` | definitions for TLC: inputs, views, symmetry |
| `...Proofs` | the theorems about the module named, and their proofs |
| `DeliveryProofs` | the theorems about the order and completeness of what `DecodeEncode` passes on |

They meet where the code does. `SampleQueue` takes the metadata queue as the list that
`SampleMetadataQueue` implements; `DecodeEncode` takes the sample queue as the ordered, whole
delivery that `SampleQueue` implements, and its `Load` is what `LoadControl` lets through;
`Transcoder` takes the loop as `DecodeEncode` shows it (it ends when stopped, its drain loop
ends); `Muxer` begins where `DecodeEncode` hands samples to the output.

**`SampleMetadataQueue`.** Variables have the names of the fields; the seven
parallel arrays are one array `slots` of records. Each public method is one
step, because it holds the object's monitor (the few reads in `SampleQueue`
between two such calls come from the same thread). `returned` is what the method
answers, so that answers can be compared with the abstract list's. The caller's
two fields that a method's effect depends on are variables here too:
`totalBytesWritten` (the offset a sample is committed with) and
`downstreamFormat` (compared on every read). `KeyframesSeparateTimes` is the
assumption `getLargestTimestamp` documents; without it the class's own
comment says the answer is not exact.

**`SampleQueue`.** A track's linked list of `AllocationNode`s becomes a function
`allocation[q]` from node number to block: node *n* starts at byte
*n* x `AllocationLength`, and the successor of an initialised node is the next
number. A byte is named by its track and position, so that a byte found where
another one belongs is visible. The steps of the loading thread are `PreAppend`
(which fetches a block), `WriteBytes` (the source fills part of it, then
`postAppend`), `AppendNothing` (input ended or failed after the block was
fetched) and `SampleMetadata`. The steps of the consumer are `Read` (the
metadata read, `advanceReadTo`), `CopyChunk` and `ReleaseReadNode` (the rounds of
`readData`), `Delivered`. The rest of the API is `Rewind`, `DiscardDownstream`,
`Reset`, `DiscardUpstream` (together `PublicOperation`). Two specifications use them: `Spec`, what the
transcoder does, and `UnreadSpec`, also the rest of the
API, but called on a queue only while its read node is its first node, so before a node
was read to its end or passed. The restriction is needed: `readData` returns a node's block as soon as it
is read out and leaves the node in the list (`SampleQueue.java:461-464`), and the operations
that visit read nodes meet a block that is somebody else's, or in the pool. The transcoder calls none of them. `owner` is a history
variable: whom a block was handed to last.

**`LoadControl`.** `loader`, `looper` and `des` say what each thread does next;
a check of the memory and the opening of the condition are two steps, since
that is where the threads interleave. `progress` is the distance from the
last check; `mailbox` is the looper's message queue. A renderer gives memory back
by reading (`FeedRenderer`), when it reads; nothing says that it does. How much an extractor call reads and
allocates, and when the last format is found, is arbitrary. `overBytes` and
`overSeeks` are history, for the bound on what is read at the limit.

**`Loader`.** A `LoadTask` is a member of `Loads`, its fields functions on them. Each call on
the looper is a step, but `cancel()` is two, `Cancel` (the flag) and `FinishCancel` (the look at
`executorThread` and the interrupt), because the thread's own two writes and reads come between.
`run()` is `RunTask`, `Enter` (it makes its thread known), `CheckCanceled`, the load, which
ends in any of its ways (`LoadEnds`, `NoticesInterrupt`, `NoExtractorFits`), `CheckReleased`
and `SendMessage`. `handleMessage` is one action for each of its outcomes: `HandleStart`,
`HandleReleased`, `HandleFatal`, `HandleOver`, `HandleError` with every answer of
`onLoadError`. `mailbox` are the messages in order, `delayed` the starts that wait for their
time. `answered` (how often an owner was told that its load is over), `asked` and `started`
are history.

**`Preparation`.** The loading thread publishes a track in the three assignments of
`prepareTrackOutput` (`Track`, `AddReader`, `AddQueue`); formats, `endTracks` and the seek map each
post a message. The looper reads in the order of `maybeFinishPrepare`: `ReadSeekMap`, `TestState`,
`TestFormats` (over the array it started with), `CountTracks` (the array there is now),
`FinishPrepare`. Arrays only grow, so they are their lengths.

**`Transcoder`.** `ui`, `looper` and `des` say what a thread does next; `mailbox` and
`uiMailbox` are the messages to the looper and the callbacks to the UI.

| Source | Actions |
| --- | --- |
| `setDataSource`, `start`, `setOutputSource`, `prepare` | `SetDataSource`, `Start`, `SetOutputSource`, `PrepareTests`, `PrepareSetsFlag` |
| the `synchronized (outputPrepared)` block, on both threads | `ReadLock` (which object), `EnterLock`, `TestOutput`, `PrepareOutput`, `LeaveLock` |
| `onLooperPrepared`, `onPrepare` | `SetHandler`, `CreateSource`, `TestFlag`, `HandlePrepare`, `OnPrepare` |
| `setSelectedTracks` with its split | `SetSelectedTracks`, `Split`, `IdFails` |
| `onSelectedTracks`, `MediaSource.discardTracks` | `CreateRenderers`, `Met` |
| `startTranscoder`, `reallyStartTranscoding`, the two statements of `readyToStart` | `StartTranscoder`, `AssignLoop`, `StartLoop` |
| `stopTranscoder`, the end of DES | `StopTests`, `StopClears`, `LeaveLoop`, `EndLoop` |

The UI calls in the order of the activities (`DataSourceFirst = FALSE`: they call `start()`
before `setDataSource()`) or of the interface's documentation (`TRUE`). `failure` names the
exception that ended the process; after it nothing happens. A track is its number in
`available_tracks`, which is the order of discovery; `Ids` gives each the number in its id, in any order.
The split compares ids and hands the numbers in them to `discardTracks`, which compares them with those of
the queues. An id may have no number behind a "/", or be null (`IdForms`): then the split throws (`noId`).
With the calls in this order neither thread waits for the other at the `synchronized` block:
`prepare()` comes when `setOutputSource` has left it.

**`DecodeEncode`.** One step is one call of the loop: `call` and `turn` say which
call on which track comes next, `phase` which of the three loops it is in
(`running`: `startTranscoding`; `signalled`: `signalEndOfStreamAndDrainEncoders`;
`draining`: `drainEncoders`). A feed that asks its queue and then looks at
`loadCompleted` takes two steps (`FeedPassThrough` or `FeedDecoder`, then
`NothingPassThrough` or `NothingDecoder`), since the looper and the loader run
between them. Answers are the numbers of the code: 0, 1, 2 and, as a sum, "2 or
more" (`Sum`), as nothing tells larger sums apart.

| Source | Actions |
| --- | --- |
| `DefaultTranscoder.DecodeEncodeStreams` | `Test`, `EndRound`, and the order of the calls: `AfterDraining`, `Fed` |
| `EmptyCodification`, `EmptyRenderer` | `DrainPassThrough`, `DrainPassThroughRenderer`, `FeedPassThrough`, `NothingPassThrough` |
| `MediaCodecCodification`, `MediaCodecAudioCodification` | `DrainEncoder`, `FeedCodification` |
| `MediaCodecRenderer` and its two subclasses | `DrainDecoder`, `FeedDecoder`, `NothingDecoder` |
| `DefaultMediaOutput` | `NewTrackDiscovered`, `MaybeStartMuxer`, `IsWritten`, inside the actions of the codifications |
| `MediaSource`, UI | `Load`, `LoadCompleted`, `StopTranscoding` |
| `android.media.MediaCodec` (external) | `Decode`, `AnnounceFormat`, `Encode` |

A sample is a number; its time is in `Times`. A buffer is the sequence of samples
whose bytes are in it, which is how a decode-only sample left in a buffer shows.
The sample queue of a track is the pair `loaded`, `readUpTo`: that it
delivers samples whole and in order is what `SampleQueue` shows. A time before
zero is what makes a sample decode-only (`lastSeekPositionUs` is 0). A video
frame is either drawn on the encoder's surface or dropped; why is left open.

**`Muxer`.** A session is a transcoder with its output; sessions follow one another without
waiting, as the activities start them. `des` is a session's decode-encode thread, `writer` its
writer thread, which never ends. The `std::queue` is `start`, `size` and `slot`, and its
operations are the accesses of libc++'s deque: a push fills the slot behind the last
(`OnDataReady`) and then writes `size` (`Increment`); the writer tests `size` (`TestSize`), reads the front
(`ReadFront`), writes `size` (`Decrement`), then `start` (`Advance`), and writes the frame in two
steps (`BeginWrite`, `EndWrite`), between which it is in `av_interleaved_write_frame` on the session's
context (`Muxing`), where another writer, or the release, may meet it. `Begin`, `Discover`, `StopMuxer` and `ReleaseOutput` are the calls of
`DefaultMediaOutput` and `FFmpegMuxer`. `context` is the native `OutputStream`. A use of what is
freed, missing or never set, and a write past an array, end in `failure`, after which nothing is
defined. `overlapped` is history: two operations on the queue were under way at once.

Definitions commented "Seeded fault" are never used by a specification: each is
a wrong version of the definition that follows, kept to show that the property
it breaks depends on that definition.


## 4. Runs

| Run | Question | Result |
| --- | --- | --- |
| `metadata_queue` | do arrays that grow and wrap behave as a list, and do times, flag and positions stay consistent under every sequence of calls? | holds |
| `sample_queue` | two tracks sharing a pool, loader against consumer: does every sample arrive whole, once, in order and unharmed; is the pool sound; is nothing left behind but gaps? | holds |
| `sample_queue_discard` | do discard, rewind, reset and take-back keep count and bytes right and lose no block, on a queue whose read node is its first one? | holds |
| `load_control` | is the overshoot of the memory limit bounded, and is a loader that waits during preparation always going to be woken? | holds |
| `load_control_live` | does preparation end, and loading once started, unless the memory stays full? | holds |
| `loader` | two loads that fail, are retried, canceled and released at any moment: is an owner told once, and only when the thread is out; does a cancel reach its load, and is it answered? | holds |
| `transcoder` | the whole life cycle, with tracks that come late, ids against the order of the tracks and a stop at any moment: is what is announced complete, are lists in the tracks' order split as asked; is a preparation answered, does a stop that finds a loop end it; which exceptions end the process, and after what only? | holds |
| `transcoder_prepare` | is a request to prepare always kept? | violated |
| `decode_encode` | a pass-through and an audio track, at every pace of the codecs and of the loader: do all samples reach the muxer input, in order, with their own description; when does writing start; is a decoder told the end last; does a sample ever wait for ever but behind one that is too far ahead, and does a stop end the loop? | holds |
| `decode_encode_video` | with video, two buffers per codec, decode-only samples and a container that flags the last sample: are samples lost or reordered? | holds |
| `decode_encode_end` | does the loop end after the input has? | violated |
| `muxer` | two sessions and the queue their writers share: is what was pushed written, once and in order; what must have come before a writer or a release fails; how often is a file closed? | holds |

| Run | Checked | Distinct states |
| --- | --- | --- |
| `metadata_queue` | `TypeOK`, `UpstreamFieldsAgree`, `SamplesDisjoint`, `ImplementsSampleList` | 56 934 |
| `sample_queue` | `PoolSound`, `OnlyGapsAbandoned`, `ImplementsSampleFifo` | 722 090 |
| `sample_queue_discard` | `AllocatedCountExact`, `UnreadBytesIntact`, `NoBlockLost` | 192 411 |
| `load_control` | `ReadAtLimitBounded`, `NotStranded` | 1 773 388 |
| `load_control_live` | `PreparationCompletes`, `LoadingGoesOn` | 33 263 |
| `loader` | `TypeOK`, `CurrentIsUnderWay`, `AnsweredOnce`, `InterruptMeetsCancel`, `ToldAfterLoad`, `CancelAnswered` | 11 334 |
| `transcoder` | `TypeOK`, `AnnouncedComplete`, `FailsOnlyIf`, `SplitAsAsked`, `PreparationAnswered`, `StopEndsLoop` | 292 020 |
| `decode_encode` | `NothingLost`, `DataMatchesInfo`, `EndIsLast`, `WrittenWithoutGap`, `SamplesDelivered`, `StopEnds` | 141 012 |
| `decode_encode_video` | `NothingLost` | 128 070 |
| `muxer` | `NothingLost`, `FailsOnlyIf`, `ClosedOnce`, `AllWritten` | 864 342 |

`TypeOK` of `SampleQueue`, `LoadControl`, `DecodeEncode` and `Muxer` is proved (section 6) rather
than run. Every property of a passing run has a mutant in `PROJECT.json`, a fault in
one definition that makes TLC report that property. Deadlock is not checked, because
every part really stops: the input ends, the loop ends, a release ends the thread, an
exception ends the process. What must not stop before that is stated by the liveness properties.

Two properties are violated.

*End.* A round ends the loop when all answers in it add up to 0. A codification answers 0
once at its end, possibly in a round that also moved a sample, and 2 ever after;
no round adds up to 0 then, and the loop goes on until somebody stops it.

*Prepare.* `prepare()` tests `mediaSource` and sets `prepareWhenReady`; `onLooperPrepared`
assigns `mediaSource` and tests `prepareWhenReady`. The two run on different threads without a
lock. When `prepare()` finds null, the looper then assigns the source and finds the flag not set, and only
then the flag is set, nobody prepares, and the callback the interface promises never comes. This needs `setDataSource` before `start`,
as the interface documents it.

### Seen while modelling, without a run of their own

These are behaviours of the modules that no property excludes:

* a loop with a pass-through renderer never ends by itself: that renderer answers 1 in every round
  (`DrainPassThroughRenderer`); and where the container flags the last sample, a renderer
  takes the end for "nothing read" (`FlaggedEnd`);
* the drain loops go on while the answers add up to exactly 1: with two encoders that still have
  samples they end at once and leave what is in the encoders (`core/DefaultTranscoder.java:495`);
* `readData` asks the queue first and `loadCompleted` second, so samples that arrive between
  the two looks are never read;
* a stop does not release the loader: a loading thread that waits at its condition waits for ever;
* `startTranscoder()` posts the start to the looper. A `stopTranscoder()` before the looper takes the
  message finds no loop, returns `true`, and the loop then starts. `StopEndsLoop` is what does hold: a stop
  that finds a loop ends it, but one that comes between the two statements of `readyToStart` may end the
  process instead (`noLoop`);
* the interface asks for lists of tracks "ordered (by id)" (`core/Transcoder.java:80`). The split goes along
  `available_tracks`, which is in the order of discovery, and a transport stream's closed captions
  (pid + 8192, `extractor/ts/SeiReader.java:46-49`) are discovered right after their video, before the next pid.
  Of the tracks 256, 8448, 257 the list 257, 8448 is in the order of ids, and 8448 falls through to
  pass-through. Lists in the order of the tracks are split as asked, whatever the ids (`SplitAsAsked`);
* discarding, rewinding or resetting a queue after a block of it was read to its end returns that block again: the
  pool then holds it twice, and the count of blocks in use is too low (`UnreadSpec` excludes it; the transcoder
  does not do it);
* a pass-through sample that is later, by more than the offset, than everything that was loaded of the tracks
  with codecs is held back, with all behind it on its track, until more comes (`AheadOfAll`). With
  pass-through tracks only, or when a track with a codec ends early, nothing more comes; and while the
  sample waits, loading may fill the memory and stop (`LoadControl` then rests at its limit). The run has
  a stream whose tracks go on, and in it nothing waits for ever unless loading itself stops short;
* a track id without a "/", as containers other than transport streams give it, makes the split throw
  when it is discarded, and a missing id when it is listed at all (`noId`);
* where no extractor fits, `source/MediaSource.java:532-537` throws an `InterruptedException` of its
  own. `Loader` takes it for the interrupt of a cancel, its assertion fails, and the process ends
  (`NoExtractorFits`);
* the activities call `start()` before `setDataSource()`; a looper fast enough then makes a media
  source without a data source (`noDataSource`);
* a seek map that is announced between the two looks of `maybeFinishPrepare` is a null pointer
  (`noSeekMap`), a track that comes after the look at the formats one without format
  (`noFormat`), and the report of a track to be discarded that has no reader, behind one that is
  kept, indexes past the end of a list (`badIndex`);
* in the native code, `failure` of `Muxer` names what goes wrong: frames taken twice or missing after
  overlapping operations, frames of a released session, two writers in one FFmpeg context, parameter sets
  that were never set, codecs of DVB subtitle streams that were never set and are closed all the same, more
  streams than the arrays hold. `FailsOnlyIf` says what must have come before the first three. The last
  three follow from what the input is. Not in the model: failures to open the file or to write the header
  are only logged, and for streams of unknown kinds `addTrack` throws.

### Bounds, and why they are enough

* `metadata_queue`: capacity grows by 2 (`CapacityIncrement`; 1000 in the code),
  at most 3 samples ever (`MaxIndex`), 2 times, 2 formats, 3 bytes. Two queued samples
  trigger a growth and a third after a discard starts at a nonzero relative index, so
  every combination of wrapped, grown, discarded and taken back with up to three samples
  occurs. Two times allow equal and different neighbours. `MCOffered` lets only a keyframe follow
  a byte that belongs to no sample, and only the largest time be the last sample's. Larger queues
  are covered by the proofs.
* `sample_queue`: two tracks, blocks of 2 bytes, 4 blocks, 4 bytes per track,
  3 nodes. Samples can lie inside a block, fill one, straddle two, end exactly at
  an end, and leave gaps; with 4 bytes per track two blocks per track are
  used, so blocks return to the pool and change track. The tracks share nothing
  but the pool, so a third adds no new kind of interference.
  `sample_queue_discard` has one track, 5 bytes and 3 blocks.
* `load_control`: interval 1, calls of 1 byte, limit 2, so that the limit is
  reached and left; 8 bytes in all let the bound of 3 intervals and more be passed
  if it could be. `load_control_live` has 4.
* `loader`: two loads, so that one can meet the other's thread, message or interrupt; all six answers of
  `onLoadError`; two failures each, so that a retry can fail.
* `transcoder`: two tracks, so that one can come between another's publication and the
  looper's reads of it, and a split can select one and discard the other; one stop, at any moment (on the one UI thread a second finds the loop as
  a first would, or none); ids that descend along the tracks; a second `endTracks` only while no message of the first waits.
  `transcoder_prepare` has one track and no stop.
* `decode_encode`: two pass-through and two audio samples, one buffer on each
  side of a codec, so that everything that can fill up does, and a `MaxPtsOffset` of
  4 where the code has 600000: the second pass-through sample is later than the
  first audio sample by more than it, and than the last by no more, so it is held
  back and let through. `decode_encode_video` has two buffers and one decode-only
  sample per track. `decode_encode_end` has one track and one sample, which is what it needs.
* `muxer`: sessions with two and one frames, the smallest with an order in one session and an overlap
  between two; one passed-through video track, which is where the parameter sets are missing. With two
  frames one can be in the queue while another is written, or be in the hands of the other session's writer,
  which then meets the first in one context. No stream is a subtitle stream, which changes only the
  release, as missing parameter sets do; the theorems have any streams.

`SYMMETRY` is on blocks only, in runs without liveness. `VIEW`s leave out what
no guard reads (`returned`, slots outside the queue, what was already delivered) and are
used only where no checked state predicate reads it.

## 5. Fairness

`FairSpec` of `LoadControl` assumes

* weak fairness of the loading thread, the looper and the DES steps: they are
  threads or messages, scheduled by the platform, and no step of theirs waits on
  a lock held for ever; the source delivers or ends;
* strong fairness of the end of a canceled loop: `while (!canceled)` tests the
  flag every round. The field is not volatile; that the write becomes visible at
  some time is assumed.

There is no fairness on the end of the input, on the UI, on finding formats, and none on renderers
(`FeedRenderer`), which may hold samples back for ever. `LoadingGoesOn` therefore leaves open that the memory in
use stays at its limit: whenever it is below, again and again, loading goes on.

`FairSpec` of `Loader` assumes weak fairness of the executor's thread (`ThreadNext`) and of the second
half of a call that has begun (`FinishNext`), and strong fairness of the looper's messages (`HandleNext`):
calls of `cancelLoading` and the like are made from messages of the same looper, so they cannot keep it
from a load's message for ever. There is none on the load itself (`LoadNext`), which may read a live
stream without end: that `CancelAnswered` holds all the same is because an interrupted load
notices.

`FairSpec` of `Transcoder` assumes weak fairness of the UI thread, the looper and the loop: each is one
thread that takes its next step when it has one. There is none on what the extractor announces, on the end
of the input or on stops; `PreparationAnswered` therefore speaks of an extractor that has said everything.

`FairSpec` of `DecodeEncode` assumes weak fairness of the loop's thread (`Step`) and
of each codec (`Decode`, `AnnounceFormat`, `Encode`: the platform gives an output
for every input as long as buffers are free). There is none on the loader (`Load`), which may stop for
good when the memory is full, and nothing makes the load complete or a client stop. `SamplesDelivered`
therefore speaks of a sample that was loaded, and names the one thing it may wait for for ever: data of other
tracks that would release a pass-through sample ahead of it. A `Step` is
always possible while the loop runs, so its fairness is only that the thread
is scheduled.

`FairSpec` of `Muxer` assumes weak fairness of each writer thread and of the second half of a push that has
begun. Writers poll and sleep, so they are never waiting for anybody. There is none on frames or stops.

## 6. Theorems

All are for any value of the constants that satisfies the named assumptions of the
module, so for any number of tracks, samples, blocks, loads, sessions. Each rests on an inductive
invariant whose preservation has one lemma per action.

**`SampleMetadataQueueProofs`**: `TypeCorrect`, `FieldsAgree`, `BytesDisjoint` and `ArraysAreAList`, the implementation of `SampleList`. `Inv` adds to the type invariant, to
`UpstreamFieldsAgree` and to `SamplesDisjoint` that the queue, read out of the arrays, is a sequence of
samples, that a format is there unless one is required, and `KeyInv`: every sample
queued before a keyframe is earlier than it. `KeyInv` is what `FieldsAgree` needs: `getLargestTimestamp` scans from
the end and stops at a keyframe, and without it the scan could miss a larger one. `ArraysAreAList` shows,
for each method, that what it does to the arrays, index by index and modulo the capacity, is what
`SampleList` does to the list. The searches of the code are stated with least and greatest indices; that
those exist is the lemma `Least`, derived from the well-foundedness of the strict subset order on finite sets.

**`SampleQueueProofs`**: `TypeCorrect`, `BlocksOwned`, `PoolIsSound`, `BytesIntact`, `CountExact`,
`GapsOnly`, and `QueueIsAFifo`, the implementation of `SampleFifo`, all of `Spec`; `UnreadTypeCorrect`,
`UnreadCountExact`, `UnreadBytes` and `UnreadLosesNone`, of `UnreadSpec`; for any number of
tracks, blocks, nodes and any block length. The inductive invariant `IndInv` is the conjunction of

* `NodeInv`: of the nodes from the first on, those up to the write node, and only these, were
  initialised, and no node in front of the first is; the loader's append in progress has its block;
* `PoolInv` / `PoolSound`: blocks in the pool are created, unowned, distinct;
* `UnreadBlocksOwned`: what is to be read is owned by its node;
* `SampleInv`: committed ranges are written, in order, and disjoint;
* `ReadInv`: the read node and the copy position agree with the read position;
* `FirstInv`: neither the reader nor a queued sample is in front of the first node;
* `BytesInv`: every written byte from the read node on is in its block.

`BytesInv` alone is not inductive: a write to one track preserves another
track's bytes only because the blocks differ, which is `UnreadBlocksOwned`, which
an allocation preserves only because the pool holds no owned block, which a
release preserves only because a node is released while it is still
owned, which is `ReadInv`. `CountExact` adds to this that the set of blocks in
use is finite, although `Blocks` need not be. `GapsOnly` adds `BehindReader`: every sample
the consumer is done with ends before the end of the read node. `QueueIsAFifo` adds
`HandedOver`: the sample being read is the one before the read position, its bytes up to the copy
position are in the consumer's buffer, and all before it were delivered, in order. Most steps are
stutters of `SampleFifo`; a commit is its `Commit` and the end of a read its delivery; a chunk
of the copy appends the right bytes because of `BytesInv`.

`UnreadSpec` adds the operations that clear a run of nodes: discarding from the front, discarding from the
end, starting over; only while the queue's read node is its first one. Without that condition the theorems would
be false: a block that was read to its end would be returned again. `UnreadInv` is `IndInv` with `CountInv` and `NoBlockLost`. The lemma that all three rest on
is `ClearingRun`: as no node of the run has been read to its end, each still owns its block, so what
`clearAllocationNodes` collects are distinct blocks in use, and no node that stays points to one of them. Their
release leaves the pool sound (`ReleaseEffect`) and the count exact (`CountReturned`: as many blocks leave the set
in use as are subtracted, because they are distinct). `CountInv` is part of the invariant because
`reset` trims the pool to what the target leaves beyond the count: only an exact count is surely not negative.
Taking back keeps the samples that end before the cut (`SamplesCut`), in nodes that stay. `UnreadLosesNone` says the
rest: what is in use is what a node of some queue points to.

**`LoadControlProofs`**: `TypeCorrect`, `NeverStranded`, `ReadAtLimit`. The
interesting one is `ReadAtLimit`: `overBytes <= (3 + overSeeks) * (Interval + Chunk)`.
It is not inductive: how much may still be read depends on how many threads are
about to open the condition on an old look at the memory. The strengthening
gives a credit of one interval to each of them (condition open, looper about to
open, loop about to open), counts what the loader has already used of the current interval, and
shows that credit and bytes read together never pass the bound. `NeverStranded` strengthens to every
phase of the loader: the request is posted right after the closing.

**`LoaderProofs`**: `TypeCorrect`, `NothingStranded`, `ToldOnce`, `CancelMeetsLoad` and `LeftBeforeTold` (an
action property). `Inv` says besides the types that a load is in one place at a time, in the executor, on
the thread, in one message or waiting for its delay (`PlaceInv`); that, until the loader is released, the
current load and no other is under way, started and not answered (`CurrentInv`); that loads are released only with the
loader (`ReleaseInv`); and that the thread a load knows is the one it is on (`ThreadInv`). `ToldOnce` rests on
`PlaceInv`: a second answer would need a second message. `LeftBeforeTold` does too: a message is
the only place its load is in.

**`TranscoderProofs`**: `TracksAreComplete`, `NoOtherFailure`, `TypeCorrect`, `TracksSplitAsAsked`, for
any number of tracks and any ids. `Inv` says
that preparation is asked for once and before any other message, that only the thread that found the
output unprepared prepares it, that what the looper has
seen is part of what was published, and that a message is still to come if the looper missed the seek map.
`LoopInv` says that only a stop takes the loop away that the looper is about to start. `NoOtherFailure` rests
on all of them: that there is a muxer when the tracks are prepared, for one, is because the output is
prepared, by whichever thread is second, before the looper handles its next message.
`SelectInv` adds, for the last two theorems, that tracks are announced and chosen once (`OnceInv`) and how they are
split (`ChosenInv`). The loops of `setSelectedTracks` and `discardTracks` are recursive functions with cursors over
the lists. That such a function exists is the lemma `Recursion`; what the cursors have passed after i tracks
is shown by `Induction` over a set of numbers (both from `Least`, as above). For ordered lists the cursors have passed
exactly what names a track up to i; for any lists, `tracksToDiscard` lists the numbers in the ids of the tracks
whose state is `DISCARD`, in the order of the tracks and once each, which is why the streams counted for the output are the renderers made.

**`DecodeEncodeProofs`**: `TypeCorrect`, `DataWithDescription`,
`WritingGoesOn`, for `Spec`, for any number of tracks of each kind, any times,
offset and number of slots, with and without a flagged last sample. The inductive invariant has, for each track,

* `ReadPart`: a pass-through renderer has at most one sample, or one buffer without
  data, in hand, and only after the format was read;
* `FramePart`: the two pass-through queues hold a sample and its description,
  or only a buffer without data, or nothing;
* `CodecPart`: the queues of the codecs, with what renderer and codification
  hold counted, fit the slots;
* `HandedPart`: what was handed over came with its own description;
* `FormatPart`: an announced format is the first output of an encoder;

and for the thread, `LoopPart`: when it feeds a renderer, the codification has just
emptied that renderer's queues; and `CountPart`: the count of streams is the number of tracks
discovered. `DataMatchesInfo` alone is not inductive: the two queues could get out of
step when a buffer without data is put into one of them only. They do not, because the one
drain before each feed polls both, and both are then empty, which is `FramePart` with
`LoopPart`. `WritingGoesOn` needs `CountPart`: when all streams are discovered, no
track can register again, so the comparison by equality in `maybeStartMuxer` is
never passed by.

**`DeliveryProofs`**, of the same module: `NoSampleLost` and `EndOvertakesNothing`. A track is read as one `Line`, from what was handed
over back to the buffer the renderer fills: outputs of the encoder, inputs of the encoder, the codification's
queue, outputs and inputs of the decoder (a pass-through track has only the two ends). `KeptPart` says that this line is in order, that nothing in it was
not read yet, and that no sample read is missing from it except what is decode-only (video frames may be dropped, so of
video only the order is left). A step moves buffers from one queue of the line to the next and leaves the line as it is
(the lemmas `Move...`), takes the front away into `handed`, or adds what was read at the back. `EndPart` says where the
end of the stream is, once signalled: last before the encoder, or last behind it with nothing left
before, or through. Neither is inductive alone. `SignalPart` says that a thread about to signal the end has not
done so yet, `RoutePart` which queues a kind of track never uses and that what waits in a decoder's
buffer is decode-only; what the queues hold is known from `IndInv`.

**`MuxerProofs`**: `TypeCorrect`, `OneTrailer`, `WritersFailOnlyIf`, `NoneLost`, for any sessions, frames, streams
and capacity. `Inv` says that the life of a session and that of its native context go together
(`LifeInv`), that a frame is pushed once (`FrameInv`), that a released session has written all its frames
unless it left some behind (`LeftInv`), and, as long as no two operations on the queue overlapped, that at
most one thread is inside one (`QueueInv`), that the frames taken and those in the queue are together
the frames pushed (`TakenInv`), and that with one session they are written in that order (`OrderInv`); `MuxingInv`, that what is being written is
a frame. `WritersFailOnlyIf` needs most of them: without overlap no two writers hold the same frame, since
each was taken once, and a frame being written belongs to a session that is not released or was left behind.

Every invariant, action property and refinement that a passing run checks is stated by one of these
theorems. Only model-checked is liveness: `PreparationCompletes`, `LoadingGoesOn`, `CancelAnswered`,
`PreparationAnswered`, `StopEndsLoop`, `SamplesDelivered`, `StopEnds` and `AllWritten` rest on fairness and on
which actions are enabled, which the proof system does not treat.

## 7. Faithfulness, in particular

* Java `long` and `int` are unbounded integers; positions would have to pass
  2^63 bytes. Nothing in the modelled code computes modulo but the native `size_t`, which goes below zero
  only when operations overlap.
* `DefaultAllocator` is synchronized: its calls are atomic. `SampleQueue` is
  not, so its steps are split where the other thread may see a difference: before the
  block is fetched, before the bytes are written, before they are counted
  as a sample, before a block is returned. Memory visibility between the two
  threads comes from the monitors of metadata queue and allocator, which
  both use in the right order.
* `trim` is called with a target buffer size of zero, the value the program
  leaves it at.
* In `Loader`, `cancel` sets `released` and `canceled` in one step: the thread reads `canceled` before
  `released`, so it cannot tell. `Executors.newSingleThreadExecutor` runs tasks one by one, in order; `shutdown`
  lets those already submitted run.
* In `Preparation`, a piece of news and the message posted for it are one step: a looper that saw the news
  before the message was posted would go on as with the message waiting behind the one it handles.
* The order of the UI's calls is that of the activities; a second `start`, `setSelectedTracks` or
  `startTranscoder` on one transcoder is not made there. The loop inside `Transcoder` only runs, drains
  and ends, as `DecodeEncode` shows.
* `DecodeEncode` takes from `MediaCodec` that outputs come in the order of the inputs, one
  for each, that an encoder announces its format before its first output, and that
  a buffer held by the program is not available to the codec. `INFO_OUTPUT_BUFFERS_CHANGED`, which
  platforms since API 21 do not give, is left out. `handed` is a history variable; its
  field `written` is whether `DefaultMediaOutput` passed the sample on.
* `canceled` of the loop is a plain field: that a write to it is seen in some
  later round is assumed.
* In `Muxer` the queue is the `start` and `size` of libc++'s deque, each access a step, and a
  modified member may be computed from a value loaded in an earlier step, as the compiler
  may. Blocks of the deque and their reallocation are left out: what overlapping operations do to them is
  covered by `overlapped`, after which no order is claimed.
* Reading the encryption header is not modelled: nothing in the program sets
  up a decryption session.

## 8. Not modelled

* **`TimestampAdjuster`**, **`OutputSurface`**: see section 2.
* **HDMI recorder**: a separate path for one vendor's hardware, built on platform callbacks whose
  contract is not in the repository.
* **Extractors**: byte-level parsing from ExoPlayer. Which calls they make on the queues, and in which order,
  is in `SampleQueue` and `Preparation`.
* **Data sources and bandwidth meter**: pure I/O; a source that delivers, ends or fails is in `LoadControl`
  and `Loader`.
* **DRM**: the transcoder creates no session manager.
* **Metadata and text decoders**: stateless decoding of data, not part of the transcoder's pipeline.
* **Utilities, value classes, Android screens, OpenGL drawing**: no protocol of their own; the screens' calls
  are the UI thread of `Transcoder`.
* **Vendored FFmpeg**: more than a million lines of third-party C. They are nearly all
  of the repository's implementation lines; the program's own are the Java library and
  `mux_stream.cpp`, and the models are about the part of these that keeps state between threads.

Of the components that are modelled in part: splicing, sample offsets, format adjustment and the encryption
header of `SampleQueue`; source ids of `SampleMetadataQueue`; rendering to a surface, frame-rate conversion and
the starting and releasing of codecs in the renderers; ADTS headers and parameter sets as data, and failures to
open a file, in the muxer.
