# voice_sender in TLA+

voice_sender plays lists of songs into voice channels: for every stream it takes
the next task of a play list, downloads the song, decodes and re-encodes it to
Opus and sends the frames over RTP, while clients skip, pause, seek, edit the
list and stop the stream through a ZeroMQ socket. This directory holds a model
of that program in TLA+, the TLC runs that check it and the TLAPS proofs about
it. Paths below are relative to the repository.

## 1. The system

One `DownloadManager` exists per stream. It *is* a `TaskManager` (the play list)
and owns an `AudioSender`; its job is four coroutines in one task container
(`src/DownloadManager/DownloadManager_utils.cpp:14-33`), and the container being
empty is what deletes it.

| component | state it keeps | operations | talks to |
|---|---|---|---|
| play list, `TaskManager` | `taskOrder`, `taskMap`, `currentIndex`, `mode`, `hasManualSkip`, the event `TaskUpdateEvent`, a mutex | add, remove, skipTo, skipRelative, autoNext, clear, update, getNextTask | handlers edit it, the download loop reads it and sleeps on its event |
| download loop, `startQueueJob` | `extendedTask` (the item being downloaded), `err_count`, `curl_handle` | take a task, resolve a cached URL, announce the task, download, wait for the end of the song | curl callbacks wake it; it wakes the control coroutine (`EventNewDownload`, `EventDownloadFinished`) |
| control coroutine, `start_producer` | `task` (the item being played), `data_wrapper`, the decoder in use, the probe bytes | the *control cycle*: pick up, probe, set up the decoder, feed, wait for download and song to end, release | sets `EventFeedDecoder` and the item's `EventReadFinished`, waits for `EventReadFinshed` |
| decoder coroutine, `start_consumer` | the read position | read, report end or error, hand frames to the encoder | sets `EventReadFinshed`; reads the decoder ctl opens and closes |
| sender coroutine, `start_sender` | frame index, RTP timestamp, pacing window | take frames from the ring buffer, send them in time, pause, flush | ring buffer filled by the decoder coroutine |
| audio path: `AudioDataBuffer`, IOBuf queue, readers, decoders, `AudioUtils.h`, `encode_opus_frame` | what has arrived, read positions, left-over samples, the size of the frame buffer | write, pause, read, seek, convert, frame | filled by curl's thread, emptied by the decoder coroutine, moved by requests |
| transfers, `CurlMultiManager` | one worker thread, callbacks by handle | addTask, cancelTask, completion, stop | calls the callbacks of the download loops |
| handlers, request loop, publisher | `instanceMap` of streams | start, stop, update, query, publish | all of the above, on the request thread |
| RTP registry | instances by weak pointer, main stream, streams by id and by timestamp | get, create, remove, destroy | handlers and sender |

Everything is held together by `coro::event`. Two of its properties shape the
whole model: `set()` resumes the coroutine that awaits the event *on the thread
of the setter*, and the setter goes on only when that coroutine suspends, yields
or ends; and an event stays set until someone resets it, so that a set without a
waiter greets whoever awaits it next.

What is hard here, in the order of importance:

- **Events shared by all songs.** `EventReadFinshed` and `EventFeedDecoder`
  belong to the sender, not to the song; every skip, failure and stop sets or
  resets them from another thread, at any point of the cycle.
- **Two coroutines, two pointers.** The loop is on `extendedTask`, ctl on `task`;
  ctl may take an item before it is announced and may lag one behind.
- **The decoder may outrun the download**, and what a decoder returns at the end
  of the bytes differs between a buffer, a queue and mpg123's feed.
- **Requests at any time** between two steps of the loop: skip flags, the cursor,
  the mutex that is held while an event resumes the loop.
- **Stopping**: each of the coroutines has to be woken wherever it sleeps.
- **Transfers of all streams on one thread**: the worker reads libcurl's message,
  and only then takes the lock under which others cancel, add and sweep.
- **Lifetimes**: a manager deletes itself on the pool, its RTP instance lives as long
  as the last manager that shares it, and both are found by maps that own neither.
- **Sizes that never line up**: curl's chunks, reader blocks, packets, reads, vector
  blocks and opus frames cut the same sound in six different ways.

What makes each part correct: the cursor is always on a task that exists and the
loop never sleeps beside a task it could play; the songs are played whole, one
at a time, in order; a skip ends exactly the song it is meant for; a failed song
does not stop the list; nobody sets up or closes a decoder that another one reads with; a
stop ends all coroutines; frames leave in order, in time, with timestamps that
follow them; every transfer is answered once; no map leads to a deleted manager and a
stream sends to the address it was started with; no media stream is destroyed while it
is used; every sample that was decoded is in
a packet once, in order.

## 2. Plan

| module | models | status |
|---|---|---|
| `Playlist`, `PlaylistProofs` | `TaskManager`, one action per operation, and theorems about it | done |
| `PlaylistFeed`, `PlaylistFeedProofs` | the list between handlers and download loop: mutex, event, resumption on the handler's stack (extends `Playlist`) | done |
| `Player` | abstract: what an undisturbed stream promises its listener | done |
| `StreamPipeline` | the three coroutines, the curl thread and the handlers of one stream; implements `Player` | done |
| `RtpSender`, `RtpSenderProofs` | pacing, timestamps, pause, flush, stop of `start_sender` and the ring buffer | done |
| `Transfers`, `TransfersProofs` | `CurlMultiManager` with several streams: completion read outside the lock, cancellation, re-used handles, `stop` | done |
| `StreamRegistry`, `StreamRegistryProofs` | `instanceMap` and the RTP registry: repeated start, stop, deletion, requests to a stream that ends | done |
| `AudioUtils`, `AudioPath` | fixed buffer and queue at their limits, pause and resume of the transfer, readers, decoders, seek, conversion of samples, left-over samples of `encode_opus_frame` | done |
| `StreamPipelineProofs` | types, the event protocol of the control cycle, and that the pipeline implements `Player` | done |
| `AudioPathProofs`, `SequenceLemmas` | types and bounds of what waits in the buffers, its order, and that the packets hold what was decoded; facts about sequences, `FlattenSeq` and numbers these proofs use | done |

Order: first what a listener notices (which song, whole, in order, in time), then
what several streams do to each other, then the limits of the data paths. Each
module keeps its parameters as constants with a named assumption, has one action
per step of the code between two points where another thread can act, and uses no
`RECURSIVE` operator, so that it can be proved about.

## 3. What is modelled

**`Playlist`.** Names stand for tasks, `taskMap` is the set of names that have an
entry. `skipRelative` computes in the `int` of the build (`WrapInt`, with
`IntMax` a constant) and with C++'s truncating `%`. `updateTasks` stores the new
entries before it refuses an order, as the code does. Every operation runs under
the list's mutex and is one action.

**`PlaylistFeed`** adds the loop's label `pc`, whether it sleeps, whether it was
resumed inside `event.set()` on the handler's stack (`inline`) and whether the
handler holds the mutex (`mtx`). `Fetch`, `Failed` and `Advance` lock the mutex;
the loop gives its thread back in `Top` (the `yield` of `DownloadManager.cpp:57`).
The run of a song is one step, `SongEnds`, which may succeed, fail to
download or leave a read error. A curl handle that cannot be made is `StreamPipeline`'s
(`DlNoHandle`): the loop goes back to its top, with the list as it was.

**`StreamPipeline`**. `pc[p]` is the place of process `p`, `await[c]` the event
coroutine `c` is suspended on, `host[c]` the process on whose stack it runs, `ev`
the set of events that are set. `Set`, `Await`, `Reset` and `Leave` are libcoro's
`set`, `co_await`, `reset` and `yield`/`schedule`; every action is one of them
with the assignments the code makes around it. The list is a fixed sequence of
tasks; which task comes next is `PlaylistFeed`'s subject. A song is `SongSize`
chunks; `items[i].size` counts those that have reached the buffer the decoder
reads. Formats stand for the decoder they lead to: `mp3` (mpg123), `other`
(FFmpeg while it downloads), `mov` (FFmpeg after the download), `unknown` (fails
the probe), `broken` (passes the probe, fails in the decoder), `odd` (decodes to an
encoding `process_audio_frame` does not know: `doSkip` and a reset in the decoder
coroutine). A read is two steps, entered (`DecFed`) and left (`DecReadOk`,
`DecReadOther`), so that what ctl does in between is seen. `errors` is `err_count`; more
than `MaxErrors` of them (3 in the code) and the loop sets `isStopped` and calls
`cleanupJob` itself, one event at a time as the handlers' stop does (`StopSignal`,
`CleanUp`). `Faults` lets transfers, lookups and new curl handles fail. The ring buffer is taken to have room: a full ring only
delays the decoder, and `clean_up` wakes it.

**`Player`** is the abstract specification: `Begin`, `Hear`, `End`, songs in order,
one at a time, each heard whole. `StreamPipeline` refines it with `turn` the task
of the open cycle and `last` the task of the last closed one. `Lasting` names the
tasks that are live streams: what is heard of them is in order and in their turn,
but nobody promises that they end (see 6, streams).

**`RtpSender`**. One label per point of `start_sender`'s loop at which a handler,
the decoder or time can get in between. `clock` counts the frame times since
`start_time`; `expected_send_time` is always a whole number of them, so that
`frames_late` is a difference of integers. Only the sender consumes the ring:
the frames of a batch are there when it is measured, and `Fill` takes them at
once (the checks inside the loop at lines 193 and 198 can then not succeed).
`push_frame` may fail; a failed packet of a batch leaves its timestamp to the next
one, a single one does not. The moving average of the send times is represented
by its three outcomes (`Adjusted`). A handler's request is several steps: state,
event, ring. Which thread the sender resumes on makes no difference here, as no
lock is held across `EventStateUpdate.set()`. `last` is a history variable, the
last packet sent.

**`Transfers`**. What a function does under `mutex_` is one action, what it does
outside is another: the worker's `curl_multi_info_read` (`WorkerReads`), its turn
under the lock (`WorkerTakes`) and the call of the callback (`WorkerCalls`) are three,
and so are `cancelTask`'s lock, call and `notify`. libcurl is the set of its handles
with the transfer each is driven for (`multi`) and the set of its messages, in no
promised order; removing a handle removes its messages. A transfer has a name,
`<<job, n>>`, so that a callback called with another transfer's result shows in
`told`. `NewHandle` may get any address nobody holds, as an allocator may; a job
re-uses its handle for `executeDownload` after `getRealUrl`. `AddTaskFails` may happen
for any reason curl has and must for a handle that is still driven.

**`StreamRegistry`**. The k-th start makes manager k, media stream k and, where the
weak pointer of its id cannot be locked, RTP instance k, so that the numbers tell
whose stream a sender uses. What `session->create_stream` answers is a choice: a stream, or
nothing, and then the deleter of the empty shared pointer has locked the handlers' thread
against itself (label `noStream`, which nothing leaves). The handlers' thread is one label per step of
`startStreamHandler` and `stopStreamHandler`; the managers' coroutines go on beside
it. `Referenced` and `Owned` are the counts of the shared pointers. The deleter of
a media stream, which locks the mutex of its instance, is a label of its own
(`deleter`): a thread that comes there under the lock stays there. The end of the last
owner is `~RTPInstance`: `destroyed` counts how often each media stream is given to
`destroy_stream`, and the instance keeps what it held, so that a later use of it would
show. `Polite` restricts starts to ids whose managers were all told to stop. No fairness
is assumed here: whether a manager that was told to stop ends is the pipeline's subject.

**`AudioUtils`** holds the conversions of `AudioUtils.h` in the two ways the code does
them: full blocks of two registers, with `packs` in each 128-bit part, and the rest one
by one, with rounding and saturation. A volume and a float are counted in halves.
`AudioPath` compares them with `Reference`, which is not made of them: each sample of the
*song*, at its volume, by itself. `RawSamples` is what the decoder delivers of it in the
song's encoding, so that a missing scale factor shows.

**`AudioPath`** follows units of compressed data from `write_callback` through the
fixed buffer or the 32 KB write queue and the queue of buffers, the readers under
mpg123 and ffmpeg (`Asked`, `Input`, `Remaining`, `MoveReader`), the outcomes of `read`,
`process_audio_frame` and the loop of `encode_opus_frame`. A unit is a number and
decodes to one sample of every channel; a packet is `format.packet` units.

`stage` is the place of ctl, with each of its waits: for bytes to probe and, of a mov
file, for the whole download (`Setup`), for enough to open (`Enough`), for the download
again after three attempts at the format, and on after the fourth (`Open`, `OpenAgain`,
`FeedUnopened`), the ticks of a stream (`FeedDecoder`), `is_eof` (`SetEof`) and the end of
the song (`EndSong`). The decoder coroutine is bound by `EventFeedDecoder` alone
(`start_consumer`): fed or left fed, it reads whatever ctl is doing, with a decoder that
may be closed (`ReadClosed`) or that ffmpeg opens again at the place of the reader
(`Decode`). The outcomes of a read are those of the decoders: output full (`ReadOk`), with
`src_simple` failing, an encoding nobody converts (`doSkip`) or a format ctl never learnt, a packet
that does not fit and is lost, end of input as `DONE` or `NEED_MORE`. A skip is two steps,
`cancelTask` and `doSkip`, at any time. `frames` are the packets with the samples they hold;
`decoded`, `heard` are history.

Three steps lead to the stage `astray`, behind which the module says nothing: a song that
begins while the decoder is still fed or was opened again by a read that came after the
cycle before it, samples whose format is not known (whatever `audio_props` holds is used),
and a frame that wants fewer samples than are kept back for it (a negative length for
`memcpy`). They are in section 6. What `AudioPath` assumes: a song has one channel or two;
mpg123 can be opened; one unit is enough to probe; a fixed buffer is read no faster than it
is filled while its download runs (`Ready`; `StreamPipeline` shows what happens otherwise).

## 4. Runs

Runs that pass:

| run | instance | checks |
|---|---|---|
| `playlist_operations` | 3 names, all orders of up to 3 with repetitions, offsets -7..7 in an int of 4 bits | `PlaylistTypeOK`, `CursorInRange`, `OrderHasEntries`, `ChangesAreSignalled` |
| `playlist_requests` | 2 names, 3 requests against the loop | `FeedTypeOK`, `NoLostUpdate`, `NoSelfDeadlock`, `RoundRobinPlaysAll`, `StopEndsLoop` |
| `pipeline_plays` | mp3, cached mov and another song, then two streams, one for each reader; downloads stay ahead | `TypeOK`, `PlayedWhole`, `LoopWaitsForCycle`, `OverlapOnlyAtEof`, `NoLeftOverFinish`, `ArrivedIsHeard`, refinement of `Player` with liveness (`PlaysLikePlayer`) |
| `pipeline_skips` | one cached song, one skip request, failures, of which the first ends the job | `DoSkipEndsCycle` |
| `pipeline_stops` | two songs the decoder may overtake, the second of an unknown encoding, a stop at any point | `AllReleased`, `StopWhilePlayingEnds`, `SenderStops` |
| `rtp_sender` | ring of 2, window 1..2, 4 frames, 3 requests, a timestamp field of 16 that wraps | `SenderTypeOK`, `LeadIsBounded`, `TimestampFollowsIndex`, `SentInOrder`, `RingDrains`, `StopEndsSender` |
| `transfers_races` | two jobs with 2 and 1 transfers, 3 addresses, one skip, a stop | `TransfersTypeOK`, `OneAnswer`, `HandlesAlive`, `StaleOnlyAfterCancel`, `Answered` |
| `registry_streams` | 3 starts of 2 ids in any order, also on top of each other, any stops and ends | `RegistryTypeOK`, `NoDanglingEntry`, `ReplacedIsKept`, `SendsWhereAsked`, `InUseNotDestroyed` |
| `audio_path` | two songs of six kinds, one request or failure | `AudioTypeOK`, `HeardAsDecoded`, `DecodedInOrder`, `PauseEnds` |

Bounds. Two tasks show everything one cycle can do to the next; a third one is
there where the three decoder paths are to follow one another. A song needs two
chunks so that the decoder can be ahead of, level with and behind the download,
three where probing and feeding have different thresholds; one chunk is enough
for a stop. One skip reaches every label of every coroutine; it is the only bound
on requests besides the stop. Three requests on the list fill it, change it and
stop the loop; three on the sender pause it, seek or play, and stop it. The
offsets go past both ends of a list of three and past the end of the int. A window
of two frames makes batches, single frames and both directions of adjustment;
four frames fill the ring twice; `MaxTime` bounds only the time nobody sleeps for,
two frames of it make the sender late by one and by two. The bounds of `RtpSender`
are constants: its theorems hold for every value of them.

Three addresses for two jobs leave one free whenever a handle is replaced, so that an
address comes back while the worker holds an old message of it; one job with two
transfers re-uses its handle and changes it. Three starts are a stream, its
successor and a third that meets the ends of both; a second id shows that they do not
meet. In `audio_path` the sizes have no common measure, so that none lines up with
the next: a vector register holds 3 samples (blocks of 6), a read 2 units, an opus
frame 3 of 2 channels, a chunk up to 2, a packet 1, 2 or 3, a song 5; the write queue
flushes at 1 and the queue is full at 1, so that every song that streams can be
paused. Samples are -6..5, so that louder ones saturate at both ends; volumes are 1 and
1½. The second song shows what the first leaves behind. The six kinds are every pair of
reader and container, and between them a song of one channel, one of each encoding and of one that
nobody converts, one with a rate that doubles and one larger than its buffer.

`DownloadAhead` is an assumption, not a bound: where it is TRUE the download is
taken to stay ahead of the decoder, which plays in real time. Where it is FALSE
(`pipeline_skips`, `pipeline_stops`) the decoder may reach the end of what has
arrived and take it for the end of the song (`IO_Mpg123.cpp:8-18`): the song is cut,
but, as `pipeline_stops` shows, the cycle still ends and the list goes on. The invariants
of `pipeline_plays` are claims about a stream that nothing disturbs: no request, no
failure, a download that is ahead, songs that can be decoded; each says so, and section 6 what
happens otherwise. Deadlock
checking is off where the job may end or all songs may have been played; the
liveness properties say what must still happen.

Runs that show a disagreement between the code and what it says of itself. Each
checks one property and TLC's trace is the scenario:

| run | what happens |
|---|---|
| `playlist_skip_target` | the task skipped to is passed over by `autoNext` |
| `pipeline_stop` | a stop leaves the download loop waiting for `EventReadFinished` for ever |
| `audio_vbr` | a packet larger than the one before it in the same read loses its tail |

What the passing runs leave out on purpose is listed in section 6. A skip in
`DoSkipEndsCycle` must meet a song that is being played, a stop in
`StopWhilePlayingEnds` likewise. `AllReleased` is about `Orderly` tasks: nothing is
skipped, no download fails, no stream comes before them and no song that a decoder
does not understand. `SenderStops` allows for a ctl that polls for bytes of a task whose
download failed before ctl took it (`PollsInVain`; it cannot happen without `Faults`).
`StopEndsLoop` allows for a song in hand that never ends after the stop, which is what
`pipeline_stop` shows. `HeardAsDecoded` names the three cases in which it is false,
`PauseEnds` the songs that never come to be played. `StopEndsSender` allows for a pause that is requested
after the stop: such a request puts the sender back to sleep, and `clean_up` does
not come again. `StaleOnlyAfterCancel` allows for what a skip does between
`curl_multi_info_read` and the lock, `SendsWhereAsked` for a start on top of a stream
that nobody stopped. `audio_path` has one size of encoded frames; `audio_vbr` has two.

Fairness. Weak fairness of each coroutine: libcoro's pools run what is ready, and
several pool threads serve the yielding loops. Weak fairness of the curl worker:
a transfer progresses, and ends at the low-speed limit at the latest
(`DownloadManager.cpp:112-113`). Weak fairness of a handler that has begun; no
request is ever assumed to come. In `RtpSender` time passes and the scheduler
resumes a sender whose time has come (`yield_until`); no frame is assumed to be
produced. In `PlaylistFeed` a song is assumed to end while nothing is stopped, which is
what `AllReleased` shows of the pipeline for orderly tasks; after a stop nothing is
assumed of it (`FairLoopStep`), as the loop may then wait for ever. In `Transfers`
the worker, a cancellation and a stop that have begun go on; `curl_multi_perform` and
`curl_multi_wait` do not fail for ever (strong fairness of the outcome in which they do
not), and a transfer that is driven again and again ends (strong fairness of
`TransferEnds`), by its length or by the low-speed limit. `StreamRegistry` has no
fairness and claims no liveness. In `AudioPath` some coroutine that can run does; neither the server nor a client is
ever assumed to do anything.

## 5. Proofs

`PlaylistProofs` proves, for any set of names, any orders, any offsets and any
`IntMax`:

- `PlaylistSafe`: `PlaylistTypeOK`, `CursorInRange` and `OrderHasEntries` are
  invariants. Their conjunction is inductive as it stands. The lemmas do the work:
  `RankIsOnto` and `WithoutProperties` show that `std::remove` with `erase`, written
  with ranks, gives a sequence of the kept names; `RelativeIndexInRange` shows
  that the wrapped, truncated and corrected index is in the list;
  `NextIndexesInRange` and `FirstPlaceInRange` do the same for the modes and
  `std::find`.
- `PlaylistSignals`: every change of order or cursor leaves `TaskUpdateEvent` set.

`PlaylistFeedProofs` proves `FeedSafe`: `FeedTypeOK`, `NoLostUpdate` and
`NoSelfDeadlock`, for any names, orders and number of requests. `NoLostUpdate` speaks
only of a loop that sleeps; what makes it inductive is `Heard`, the same from the
moment the loop found no task (every edit sets the event, and only the loop
itself, awake, resets it), and `Resumed`, that it sleeps nowhere but before the
reset. The list part is `PlaylistStep` of `PlaylistProofs`; the two steps that are
not list operations, the stop and the limit of errors, only set the event.

`RtpSenderProofs` proves, for any ring, window, frame size, timestamp range and any
number of frames, requests and time:

- `SenderSafe`: `SenderTypeOK`, `LeadIsBounded` and `TimestampFollowsIndex`. The lead is
  inductive only with `Window`: behind `Pace` and `Wake` the sender is one window
  ahead, and in a batch the frames still to be sent count. The timestamp needs
  `StampedTwice`, which rests on `ModOfSum` and `ModIsUnique`, as the range is a
  constant and not a number.
- `SenderKeepsOrder`: `SentInOrder`, from `Ordered`: last packet, batch, ring and
  decoder hold frames with increasing numbers. `InLineAfterBatch`,
  `InLineInBatch` and `InLineWithOneMore` say what taking, batching and producing a
  frame do to that line.

`TransfersProofs` proves `TransfersSafe`: `TransfersTypeOK`, `OneAnswer`, `HandlesAlive`
and `StaleOnlyAfterCancel`, for any jobs, addresses and numbers of transfers and
skips. The invariant adds four parts. `OwnHandles`: a job that has begun has a handle
of its own, no two jobs the same; without it one job's `add_handle` could replace the
other's callback. `Fresh`: the transfer a job adds or waits for was not called back,
which makes "at most once" survive the next transfer of the same job. `InHand`: what
the worker and `cancelTask` hold at each label. `Cancelled`: what was read differs
from what is registered only after a cancellation. `CallEffect` and `CallKeeps` say
once what a call of a callback does, for the three places that make one; the sweep
of `stop`, which calls any number of them, has a proof of its own.

`StreamRegistryProofs` proves, for any ids and any number of starts, stops and ends:

- `RegistrySafe`: `RegistryTypeOK`, `NoDanglingEntry` and `SendsWhereAsked`.
  `NoDanglingEntry` holds because the entry is always of the *last* start of its id
  (`Latest`) or gone, and a manager takes the entry with it before it is deleted.
  `SendsWhereAsked` follows from `Sharing`: a start joins an instance only through the
  weak pointer, and every stop of the start that made it has removed that pointer
  (`KnownInstances`, `Joining`). `MainStreams` says that the main stream of an
  instance is that of the start that made it, `Hand` and `Births` what the handlers'
  thread has in hand and when a manager exists.
- `RegistryReplacesSafely`: `ReplacedIsKept`. The part of the types that a stream referred
  to has its stamp (`stream_timestamps_` keeps it for good) is what saves `createStream` from
  running the deleter of the stream it replaces. Nothing is assumed of `create_stream`; a
  stream that could not be made is not one that is replaced.
- `RegistryInUse`: `InUseNotDestroyed`, with `UseInv`: a stream that an instance refers to is
  of a manager of that instance or of the start under way (`Homes`), so that no two instances
  refer to the same one; what was destroyed is the stream of a manager that exists
  (`DestroyedIsBorn`), never the one a start is about to add. An instance whose last owner
  went is found by nobody, as `Reusable` asks for an owner.

`StreamPipelineProofs` proves, for any list of songs, any number of chunks and any
thresholds:

- `PipelineTypes`: `TypeOK`, whatever fails, is skipped or stopped. Its invariant
  `TypeInv` adds what the labels say: where each coroutine may be suspended and on
  which event (`Awaits`), what a handler and curl's thread have in hand (`InHand`),
  which item each pointer names and how far it was read (`Positions`).
- where nothing disturbs the stream: `SongsPlayedWhole`, `LoopWaits`,
  `OverlapsOnlyAtEof`, `FinishNotLeftOver`, and `ImplementsPlayer`, the safety part of the
  refinement of `Player`. Their invariant `PlayInv` adds `Calm` (no request and no error
  is under way), `Transferring` and `Sizes` (which part of the song has arrived, by the
  place of the transfer), `Feeding` (when dec may read, what `EventFeedDecoder` and
  `EventReadFinshed` tell, by the places of ctl and dec) and `Turns` (whose turn it is,
  by the places of the loop and ctl). Each action has a lemma (`XKeeps`) for both
  invariants at once. What a `set` does to the coroutine it resumes is stated once, in
  the lemmas about `Set`, `Await`, `Reset` and `Leave`; the lemmas of the actions cite
  them and never open those operators.

The second part assumes `Undisturbed`: no skip, no stop, no failure, downloads
that stay ahead of the decoder, songs a decoder knows. That is the promise the code makes;
the properties are false without it: with two ordinary songs (`Songs <- TwoSongs`) TLC finds
`NoLeftOverFinish` violated with any single one of a skip, a failure or a decoder that
overtakes its download (section 6).
`pipeline_plays` is an instance of the assumption.

`AudioPathProofs` proves, for any set of songs and formats, any sizes of chunks, reads,
packets and limits, and any number of disturbances:

- `AudioTypes`: `AudioTypeOK`, with the bounds of the write queue, the queue, the fixed
  buffer and `temp_buffer`. That a reader's position stays within the song needs `Placed`:
  what a stream's reader has passed and what is still stored come to no more than what has
  arrived.
- `AudioInOrder`: `DecodedInOrder`. Its invariant is `AudioInv`, in five parts: `Store` (types,
  positions, bounds), `Control`, `Sound` (samples and packets), `InLine` and `Gapless`. `InLine`
  says that the units stand in one line (heard, then what the decoder was fed and what is
  unread, then the write queue), each part sorted and below the next one. A read moves the
  border between what is unread and what was fed or heard, a flush that between the write
  queue and the queue, a chunk lengthens the end; a seek and a new song empty the part in
  front. `Gapless` is the same without holes, for a file that fits in its buffer:
  `Ends` says that the line ends with the last unit that arrived, so that what is decoded
  next follows what was heard. It says so until no read of the cycle can be filled any more
  (`Exhausted`); what was heard still has no hole then, but units may be lost behind it. Reads
  that come after a skip are part of this: a decoder that is opened again where the reader
  stands keeps the order, and before its format is known nothing has been heard, or the song
  is astray.
- `AudioHeard`: `HeardAsDecoded`, for all values of the constants. Its three conditions (no
  AVX2, samples that are not of 32 bits, no mono read encoded with the song) are part of the property, and
  each is needed, as section 6 shows.
  The proof is in two halves. `ProcessIsReference` says that the full blocks and the tail
  of a conversion together scale each sample by itself, `EncodeParts` that either branch of
  `encode_opus_frame` sends what was kept back and the front of the read, and keeps the
  rest.

`AudioPath` joins buffers with the library's `FlattenSeq`, which is a recursive function.
`SequenceLemmas` derives what is needed of it (`FlattenAppend`, `FlattenType`, ...) without an induction
theorem that takes an operator: the set of lengths for which the statement holds is
named, and contains every number as `<` is well-founded on `Nat` (`NatInductive`).

Beside `AudioPathAssumption` these proofs use `SamplesFit`. It is about the model's data
and not the code: a sample is a number of its own so that the properties can tell it from
the others, and there must be enough numbers of 16 bits for that.

The properties that these conjunctions consist of are also stated one by one
(`PlaylistTypes`, `FeedNeverBlocksItself`, `SenderTimestamps`, `TransfersHandles`, ...),
each from the conjunction.

Assumptions: the named `ASSUME`s of the modules, which TLC evaluates in the runs.

Only model-checked: every liveness property, with `PauseEnds` and the part of `Player` that
says songs are played in the end. Fairness and `ENABLED` are out of the prover's reach. Of the
invariants that the passing runs check, each is stated by a theorem.

## 6. Where the code and its promises part

Besides the three violation runs, the modules show the following. Where constants
are named, the passing run of that name leaves the case out by them, and TLC finds the
property violated when they are changed (and the other properties taken out of the
configuration). Where an exception is named, the property is false without it. The other
rows are actions of the modules.

The play list and its songs (`StreamPipeline`):

| what the code does | where | seen with |
|---|---|---|
| after a decoder error the loop goes on while ctl stays in the old cycle | `AudioSender_producer.cpp:61` | `pipeline_plays` with `Songs <- BrokenFirst`: `LoopWaitsForCycle`; exception `Orderly` of `AllReleased` |
| a song of an unknown encoding calls `doSkip` and resets `EventFeedDecoder` afterwards, when the next song may have been fed already: it is then never read | `AudioSender_producer.cpp:253-258` | `pipeline_stops` with `Songs <- OddFirst`: `AllReleased` without `Orderly` |
| a skip of one song or a failed download leaves `EventReadFinshed` set and cuts the next | `AudioSender_control.cpp:186` | `pipeline_plays` with `Songs <- TwoSongs` and `Faults = TRUE`: `NoLeftOverFinish`; with `MaxSkips = 1` also `PlayedWhole` |
| in every song ctl writes `is_eof` and asks the decoder for the length while dec may be inside `read()`, which only dec locks | `AudioSender_control.cpp:159-160` | the exception of `OverlapOnlyAtEof` |
| a skip ends the cycle while dec is inside `read()`, and ctl resets the decoder, and sets up the next, beside it | `AudioSender_control.cpp:172`, `AudioSender_producer.cpp:40` | `pipeline_plays` with `Songs <- TwoSongs`, `MaxSkips = 1`: `OverlapOnlyAtEof` |
| when a download fails before ctl took its task, `doSkip` is called of the task before, and ctl polls for bytes that never come, also after a stop | `AudioSender_control.cpp:77`, `:108`, `:183` | `pipeline_stops` with `Songs <- TwoSongs`, `Faults = TRUE`: exception `PollsInVain` of `SenderStops` |
| a stream's last chunks are followed by NEED_MORE and nobody feeds again; fed mpg123 never reports an end | `AudioSender_control.cpp:155`, `AudioDecoder_Mpg123.cpp` | `pipeline_stops` with `Songs <- OneStream`, `MayStop = FALSE`: `AllReleased` without `Orderly` |

Sender, transfers and registry:

| what the code does | where | seen with |
|---|---|---|
| a pause that is requested after the stop puts the sender back to sleep; `clean_up` does not come again | `AudioSender_control.cpp:205` | the exception of `StopEndsSender` |
| a skip between `curl_multi_info_read` and the lock: the next transfer on that address hears of the old one's end | `CurlMultiManager.cpp:152` | the exception of `StaleOnlyAfterCancel` |
| the removal callback erases the entry of its id, also when a later start has replaced it; the later manager can then not be stopped | `Handler_StartStream.cpp:55` | `registry_streams` with one id, `MaxStarts = 2`, `Polite = TRUE`: `RemovesOnlyItself` |
| when `create_stream` returns nullptr its shared pointer still calls the deleter, under the lock the deleter takes | `RTPInstance.cpp:47-57` | `CreateStream`, label `noStream`; `ReplacedIsKept` is about streams that were made |
| `~RTPInstance` gives the main stream to `destroy_stream` twice; its members then run the streams' deleters, which lock a mutex and use a session that may be gone | `RTPInstance.cpp:14-27` | `Destructions`: `destroyed` comes to 2; `InUseNotDestroyed` claims only that it is 0 while somebody owns the instance |

What is heard (`AudioPath`):

| what the code does | where | seen with |
|---|---|---|
| a stream that is paused because its queue is full is resumed by a NEED_MORE only. A mov file that streams is decoded after its download, so that one of more than 5 MB waits for itself for ever; likewise a stream ffmpeg cannot open | `DownloadManager.cpp:305-308`, `AudioSender_control.cpp:96`, `:118` | the exception `Played` of `PauseEnds` |
| a full queue also loses the 32 KB it has no room for | `DownloadManager.cpp:304-308` | `WriteStream` |
| the last bytes of a stream, up to 32 KB, stay in the write queue | `DownloadManager.cpp:299` | `item.write_queue` at `DownloadFinished` |
| a feed event that ctl sets after a skip wakes dec in a cycle that is over: ffmpeg opens the old song again where the reader stands, and the next one is read through that context | `AudioSender_control.cpp:155`, `AudioSender_producer.cpp:29`, `AudioDecoder_FFmpeg.cpp:273` | `StartSong`, stage `astray`; exception of `DecodedInOrder` |
| an ffmpeg that fails to open still answers with the format of the song before, and after four failures the song is fed with no format at all | `AudioDecoder_FFmpeg.cpp:494-503`, `AudioSender_control.cpp:124-125` | `FeedUnopened`, `ReadUnknown`, stage `astray` |
| the encoder has two channels, `wantedSamples` counts those of the song: mono is framed from memory behind its samples | `AudioSender.cpp:42`, `AudioSender_encoder.cpp:5` | exception `encoder.mono` of `HeardAsDecoded` |
| a mono song after one of two channels may want fewer samples than are kept back: a negative length for `memcpy` | `AudioSender_encoder.cpp:14` | `EncodeOverrun`, stage `astray` |
| `packs` works in 128-bit parts, the halves are not put back in order: with AVX2, as the Debug build has it, samples swap places within a block | `AudioUtils.h:66`, `ReleaseOptimizations.cmake:10` | `audio_path` with `Packs = 2`, `Half = 2`: exception `Packs = 1` of `HeardAsDecoded` |
| 32-bit samples are not scaled to 16 bits before they are clamped | `AudioSender_producer.cpp:202` | exception `format.encoding # "S32"` of `HeardAsDecoded` |
| a read that ends with DONE or NEED_MORE loses what it has decoded | `AudioDecoder_FFmpeg.cpp:297` | `ReadTooLittle` |
| a packet that does not fit in the rest of the output is lost, and its read is an error that stops the song | `AudioDecoder_FFmpeg.cpp:344`, `:389` | `ReadError` |

## 7. What is not modelled

Message contents, configuration parsing, generated and vendored code. The publisher's
sockets: each of its functions is one call, and what goes wrong there is two threads
inside ZeroMQ. `getStream` and `destroyStream(id)` of the RTP instance, which nothing
calls, and `IOBuf_Mpg123`. Requests that only read. Corrupt packets inside ffmpeg and
mpg123, and the position counters a query reports. The ring of encoded frames between
`AudioPath` and `RtpSender` when a seek empties it. `frame_index` has no width in
`RtpSender` (the code's `int` product overflows after 24.8 days). A stop request that comes
when the job has already stopped itself for its errors, and would run `clean_up` a second
time. The decoder's error counts for a query, and the vector a probe fills again for each
song. What a song does behind `astray`, and what its assumptions exclude (section 3):
songs of more than two channels, an mpg123 that cannot be opened, a probe that needs more
than one unit, a file whose decoder overtakes its download.

Data races (on `bool`, `shared_ptr` and `variant` members, on the queue whose lock is
given back at once at `AudioSender_producer.cpp:39`, on libcurl's multi handle, on
`instanceMap`) are modelled as interleavings of whole reads and writes, not as
undefined behaviour.
