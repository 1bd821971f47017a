--------------------------- MODULE StreamPipeline ---------------------------
(***************************************************************************)
(* One stream: the coroutines that bring a song from the network to the    *)
(* encoder and the threads that drive them.                                *)
(*                                                                         *)
(*   dl    DownloadManager::startQueueJob: takes tasks, downloads them     *)
(*   ctl   AudioSender::start_producer: one "control cycle" per task       *)
(*   dec   AudioSender::start_consumer: decodes what ctl feeds it          *)
(*   api   the handlers' thread: skip and stop requests                    *)
(*   curl  the worker thread of CurlMultiManager                           *)
(*                                                                         *)
(* They are tied together by coro::events.  event.set() resumes the one    *)
(* coroutine that awaits it on the thread of the setter, which goes on     *)
(* only when that coroutine suspends, yields or returns: host[c] is the    *)
(* process on whose stack c runs, "pool" when it has a thread of its own.  *)
(***************************************************************************)
EXTENDS Integers, Sequences, FiniteSets

CONSTANTS
    Songs,         \* Songs[i]: the i-th task the download loop takes
    SongSize,      \* length of a song, in chunks that reach its buffer
    ProbeSize,     \* chunks ctl waits for before it probes the format
    FeedSize,      \* chunks ctl waits for before it starts the decoder
    MaxSkips,      \* bound on skip requests
    MaxErrors,     \* failures in a row that the download loop puts up with
    MayStop,       \* a stop request may come
    Faults,        \* downloads, URL lookups and new curl handles may fail
    DownloadAhead  \* the download is never overtaken by the decoder

\* format: mp3 goes to mpg123 and other (flac, ogg, ...) to FFmpeg, both while
\* they download; mov goes to FFmpeg after it; unknown fails the probe; broken
\* passes the probe and fails in the decoder; odd decodes to samples of an
\* encoding that process_audio_frame does not know.
SongType == [format : {"mp3", "other", "mov", "unknown", "broken", "odd"},
             use_stream : BOOLEAN, cached : BOOLEAN]

ASSUME PipelineAssumption ==
    /\ Songs \in Seq(SongType)
    /\ SongSize \in Nat \ {0}
    /\ ProbeSize \in Nat /\ FeedSize \in Nat
    /\ MaxSkips \in Nat /\ MaxErrors \in Nat
    /\ {MayStop, Faults, DownloadAhead} \subseteq BOOLEAN

VARIABLES
    pc, host, await, ev,        \* control: labels, stacks, awaited and set events
    isStopped,
    extendedTask, task,         \* items dl and ctl are on, 0 for nullptr
    items,                      \* the ExtendedTaskItems, by number
    wrapper,                    \* data_wrapper: kind, pos and is_eof
    decoder,                    \* open or closed
    audio_data,                 \* item whose bytes ctl's probe vector starts with
    curl,                       \* what curl_handle is registered for
    result,                     \* outcome of the transfer whose callback runs
    errors,                     \* err_count of startQueueJob
    back,                       \* where the caller of a subroutine goes on
    skips, skipped, heard       \* requests so far; history

vars == <<pc, host, await, ev, isStopped, extendedTask, task, items, wrapper,
          decoder, audio_data, curl, result, errors, back, skips, skipped, heard>>

Coroutines == {"dl", "ctl", "dec"}
Processes == Coroutines \cup {"api", "curl"}
Items == 1 .. Len(Songs)

NewDownload  == <<"EventNewDownload", 0>>
ReadFinshed  == <<"EventReadFinshed", 0>>
FeedDecoder  == <<"EventFeedDecoder", 0>>
TaskUpdate   == <<"TaskUpdateEvent", 0>>
CurlFinished(i)     == <<"EventCurlFinished", i>>
DownloadFinished(i) == <<"EventDownloadFinished", i>>
ReadFinished(i)     == <<"EventReadFinished", i>>
Events == {NewDownload, ReadFinshed, FeedDecoder, TaskUpdate} \cup
          UNION {{CurlFinished(i), DownloadFinished(i), ReadFinished(i)} : i \in Items}
NoEvent == <<"none", 0>>

NewItem == [state |-> "Downloading", should_skip |-> FALSE, read_error |-> FALSE,
            data |-> "buffer", size |-> 0, url |-> FALSE]

Init ==
    /\ pc = [p \in Processes |-> IF p \in Coroutines THEN "top" ELSE "idle"]
    /\ host = [c \in Coroutines |-> "pool"]
    /\ await = [c \in Coroutines |-> NoEvent]
    /\ ev = {}
    /\ isStopped = FALSE
    /\ extendedTask = 0
    /\ task = 0
    /\ items = [i \in Items |-> NewItem]
    /\ wrapper = [kind |-> "buffer", pos |-> 0, is_eof |-> FALSE]
    /\ decoder = "closed"
    /\ audio_data = 0
    /\ curl = "none"
    /\ result = FALSE
    /\ errors = 0
    /\ back = [p \in {"dl", "dec", "api"} |-> "idle"]
    /\ skips = 0
    /\ skipped = {}
    /\ heard = [i \in Items |-> 0]

-----------------------------------------------------------------------------
(* Scheduling.                                                             *)
Runs(p) ==
    /\ p \in Coroutines => await[p] = NoEvent
    /\ \A c \in Coroutines : host[c] # p

At(p, label) == pc[p] = label /\ Runs(p)

Goto(p, label) == pc' = [pc EXCEPT ![p] = label]

\* p goes on by itself: no coroutine changes thread.
Step(p, label) == Goto(p, label) /\ UNCHANGED <<host, await, ev>>

\* p gives its thread back: tp_->yield(), tp_->schedule(), co_return.
Leave(p, label) ==
    /\ Goto(p, label)
    /\ host' = [host EXCEPT ![p] = "pool"]
    /\ UNCHANGED <<await, ev>>

\* event.set() by p.
Set(p, e, label) ==
    /\ Goto(p, label)
    /\ ev' = ev \cup {e}
    /\ await' = [c \in Coroutines |-> IF await[c] = e THEN NoEvent ELSE await[c]]
    /\ host' = [c \in Coroutines |-> IF await[c] = e THEN p ELSE host[c]]

\* co_await event by p.
Await(p, e, label) ==
    IF e \in ev
      THEN Step(p, label)
      ELSE /\ Goto(p, label)
           /\ await' = [await EXCEPT ![p] = e]
           /\ host' = [host EXCEPT ![p] = "pool"]
           /\ UNCHANGED ev

\* event.reset() by p.
Reset(p, e, label) == Goto(p, label) /\ ev' = ev \ {e} /\ UNCHANGED <<host, await>>

Put(i, field, value) == items' = [items EXCEPT ![i][field] = value]

taskVars     == <<isStopped, extendedTask, task, audio_data>>
decoderVars  == <<wrapper, decoder, heard>>
downloadVars == <<curl, result, errors>>
requestVars  == <<back, skips, skipped>>

\* History: a skip request had an effect on task i.
Hit(i) == skipped' = skipped \cup ({i} \ {0})

-----------------------------------------------------------------------------
(* AudioSender::doSkip, called by dl, dec and api; p goes on at back[p].   *)
DoSkipState(p) ==
    /\ At(p, "doSkip")
    /\ IF task = 0
         THEN Step(p, back[p]) /\ UNCHANGED items
         ELSE Step(p, "doSkip.finish") /\ Put(task, "state", "DownloadAndWriteFinished")
    /\ IF p = "api" THEN Hit(task) ELSE UNCHANGED skipped
    /\ UNCHANGED <<taskVars, decoderVars, downloadVars, back, skips>>

DoSkipFinishDropped(p) ==
    /\ At(p, "doSkip.finish")
    /\ Step(p, "doSkip.feed")
    /\ UNCHANGED <<items, taskVars, decoderVars, downloadVars, requestVars>>

DoSkipFinish(p) ==
    /\ At(p, "doSkip.finish")
    /\ Set(p, ReadFinshed, "doSkip.feed")
    /\ UNCHANGED <<items, taskVars, decoderVars, downloadVars, requestVars>>

DoSkipFeed(p) ==
    /\ At(p, "doSkip.feed")
    /\ Reset(p, FeedDecoder, back[p])
    /\ UNCHANGED <<items, taskVars, decoderVars, downloadVars, requestVars>>

DoSkip(p) == DoSkipState(p) \/ DoSkipFinish(p) \/ DoSkipFeed(p)

\* The completion callbacks of executeDownload and getRealUrl, run by p with
\* the outcome in result, up to the event they set.
Callback(p, kind, label) ==
    /\ IF kind = "url" THEN Put(extendedTask, "url", result)
       ELSE IF result THEN Put(extendedTask, "state", "DownloadAndWriteFinished")
       ELSE Put(extendedTask, "should_skip", TRUE)
    /\ Step(p, label)

-----------------------------------------------------------------------------
(* cleanupJob, by api or by dl itself, once isStopped is set.              *)
\* skipDownload: dl has no transfer to cancel when it calls it.
StopSignal(p) ==
    /\ At(p, "stop")
    /\ Set(p, TaskUpdate, IF p = "dl" THEN "cleanUp" ELSE "cancel")
    /\ back' = [back EXCEPT ![p] = "cleanUp"]
    /\ UNCHANGED <<items, taskVars, decoderVars, downloadVars, skips, skipped>>

\* The stopped dl returns from the top of its loop.
Stopped(p) == IF p = "dl" THEN "top" ELSE "idle"

CleanUpStarvesDecoder(p) ==
    /\ \/ At(p, "cleanUp")     /\ Set(p, ReadFinshed, "cleanUp.new")
       \/ At(p, "cleanUp.new") /\ Set(p, NewDownload, Stopped(p))
    /\ UNCHANGED <<items, taskVars, decoderVars, downloadVars, requestVars>>

CleanUp(p) ==
    /\ \/ At(p, "cleanUp")      /\ Set(p, ReadFinshed, "cleanUp.new")
       \/ At(p, "cleanUp.new")  /\ Set(p, NewDownload, "cleanUp.feed")
       \/ At(p, "cleanUp.feed") /\ Set(p, FeedDecoder, Stopped(p))
    /\ UNCHANGED <<items, taskVars, decoderVars, downloadVars, requestVars>>

-----------------------------------------------------------------------------
(* dl: startQueueJob.                                                      *)
DlTopUnstoppable ==
    /\ At("dl", "top")
    /\ Leave("dl", "next")
    /\ UNCHANGED <<items, taskVars, decoderVars, downloadVars, requestVars>>

\* A song that failed in the decoder or the probe counts each time round.
ErrorsNow ==
    errors + (IF extendedTask # 0 /\ items[extendedTask].read_error THEN 1 ELSE 0)

\* Too many failures in a row and dl stops the manager by itself.
DlTop ==
    /\ At("dl", "top")
    /\ IF isStopped
         THEN Leave("dl", "done") /\ UNCHANGED <<isStopped, errors>>
         ELSE /\ errors' = ErrorsNow
              /\ IF errors' > MaxErrors
                   THEN isStopped' = TRUE /\ Step("dl", "stop")
                   ELSE Leave("dl", "next") /\ UNCHANGED isStopped
    /\ UNCHANGED <<items, extendedTask, task, audio_data, decoderVars, curl, result,
                   requestVars>>

\* A list that has no further task puts dl to sleep.
DlNext ==
    /\ At("dl", "next")
    /\ IF extendedTask = Len(Songs)
         THEN Await("dl", TaskUpdate, "woken") /\ UNCHANGED extendedTask
         ELSE /\ extendedTask' = extendedTask + 1
              /\ Step("dl", IF Songs[extendedTask'].cached THEN "getRealUrl" ELSE "setData")
    /\ UNCHANGED <<items, isStopped, task, audio_data, decoderVars, downloadVars, requestVars>>

\* Without a curl handle dl skips, and takes the same task again.
DlNoHandle ==
    /\ At("dl", "next")
    /\ Faults /\ extendedTask # Len(Songs)
    /\ Step("dl", "doSkip")
    /\ back' = [back EXCEPT !["dl"] = "top"]
    /\ UNCHANGED <<items, taskVars, decoderVars, downloadVars, skips, skipped>>

DlWoken ==
    /\ At("dl", "woken")
    /\ Reset("dl", TaskUpdate, "top")
    /\ UNCHANGED <<items, taskVars, decoderVars, downloadVars, requestVars>>

\* addTask and co_await on an event that is new for every transfer.
Register(kind, label) ==
    /\ curl' = kind
    /\ Goto("dl", label)
    /\ ev' = ev \ {CurlFinished(extendedTask)}
    /\ await' = [await EXCEPT !["dl"] = CurlFinished(extendedTask)]
    /\ host' = [host EXCEPT !["dl"] = "pool"]
    /\ UNCHANGED <<taskVars, decoderVars, result, errors>>

DlGetRealUrl ==
    /\ At("dl", "getRealUrl")
    /\ Register("url", "urlFinished")
    /\ UNCHANGED <<items, requestVars>>

DlUrlFinished ==
    /\ At("dl", "urlFinished")
    /\ Leave("dl", "urlCheck")
    /\ UNCHANGED <<items, taskVars, decoderVars, downloadVars, requestVars>>

\* No real URL: skip and take the next task, without a control cycle.
DlUrlCheck ==
    /\ At("dl", "urlCheck")
    /\ IF items[extendedTask].url
         THEN Step("dl", "setData") /\ UNCHANGED <<back, errors>>
         ELSE /\ Step("dl", "doSkip")
              /\ back' = [back EXCEPT !["dl"] = "top"]
              /\ errors' = errors + 1
    /\ UNCHANGED <<items, taskVars, decoderVars, curl, result, skips, skipped>>

DlSetData ==
    /\ At("dl", "setData")
    /\ IF Songs[extendedTask].use_stream
         THEN Put(extendedTask, "data", "queue")
         ELSE UNCHANGED items
    /\ Step("dl", "announce")
    /\ UNCHANGED <<taskVars, decoderVars, downloadVars, requestVars>>

DlAnnounce ==
    /\ At("dl", "announce")
    /\ Set("dl", NewDownload, "execute")
    /\ UNCHANGED <<items, taskVars, decoderVars, downloadVars, requestVars>>

DlExecute ==
    /\ At("dl", "execute")
    /\ Put(extendedTask, "state", "Downloading")
    /\ Step("dl", "addTask")
    /\ UNCHANGED <<taskVars, decoderVars, downloadVars, requestVars>>

DlAddTask ==
    /\ At("dl", "addTask")
    /\ Register("data", "curlFinished")
    /\ UNCHANGED <<items, requestVars>>

DlCurlFinished ==
    /\ At("dl", "curlFinished")
    /\ IF items[extendedTask].should_skip
         THEN Step("dl", "doSkip") /\ back' = [back EXCEPT !["dl"] = "schedule"]
         ELSE Leave("dl", "downloaded") /\ UNCHANGED back
    /\ UNCHANGED <<items, taskVars, decoderVars, downloadVars, skips, skipped>>

DlSchedule ==
    /\ At("dl", "schedule")
    /\ Leave("dl", "downloaded")
    /\ UNCHANGED <<items, taskVars, decoderVars, downloadVars, requestVars>>

DlDownloaded ==
    /\ At("dl", "downloaded")
    /\ Set("dl", DownloadFinished(extendedTask), "awaitRead")
    /\ UNCHANGED <<items, taskVars, decoderVars, downloadVars, requestVars>>

DlAwaitReadDropped ==
    /\ At("dl", "awaitRead")
    /\ Step("dl", "top")
    /\ UNCHANGED <<items, taskVars, decoderVars, downloadVars, requestVars>>

DlAwaitRead ==
    /\ At("dl", "awaitRead")
    /\ Await("dl", ReadFinished(extendedTask), "top")
    /\ errors' = IF items[extendedTask].should_skip THEN errors + 1 ELSE 0
    /\ UNCHANGED <<items, taskVars, decoderVars, curl, result, requestVars>>

DlStep ==
    \/ DlTop \/ DlNext \/ DlNoHandle \/ DlWoken \/ DlGetRealUrl \/ DlUrlFinished
    \/ DlUrlCheck \/ DlSetData \/ DlAnnounce \/ DlExecute \/ DlAddTask \/ DlCurlFinished
    \/ DlSchedule \/ DlDownloaded \/ DlAwaitRead \/ DoSkip("dl")
    \/ StopSignal("dl") \/ CleanUp("dl")

-----------------------------------------------------------------------------
(* ctl: start_producer.                                                    *)
CtlTopKeepsPosition ==
    /\ At("ctl", "top")
    /\ ~isStopped
    /\ IF extendedTask \in {0, task}
         THEN Await("ctl", NewDownload, "woken") /\ UNCHANGED <<task, wrapper>>
         ELSE /\ task' = extendedTask
              /\ wrapper' = [wrapper EXCEPT !.kind = items[extendedTask].data, !.is_eof = FALSE]
              /\ Step("ctl", "probe")
    /\ UNCHANGED <<items, isStopped, extendedTask, audio_data, decoder, heard,
                   downloadVars, requestVars>>

CtlTop ==
    /\ At("ctl", "top")
    /\ IF isStopped
         THEN Leave("ctl", "done") /\ UNCHANGED <<task, wrapper>>
       ELSE IF extendedTask \in {0, task}
         THEN Await("ctl", NewDownload, "woken") /\ UNCHANGED <<task, wrapper>>
         ELSE /\ task' = extendedTask
              /\ wrapper' = [kind |-> items[extendedTask].data, pos |-> 0, is_eof |-> FALSE]
              /\ Step("ctl", "probe")
    /\ UNCHANGED <<items, isStopped, extendedTask, audio_data, decoder, heard,
                   downloadVars, requestVars>>

CtlWoken ==
    /\ At("ctl", "woken")
    /\ Reset("ctl", NewDownload, "top")
    /\ UNCHANGED <<items, taskVars, decoderVars, downloadVars, requestVars>>

\* The polling loops give their thread back on the first turn.
MustPoll(size) == items[task].state = "Downloading" /\ items[task].size < size

CtlPoll ==
    /\ \/ At("ctl", "probe") /\ MustPoll(ProbeSize)
       \/ At("ctl", "feedSize") /\ MustPoll(FeedSize)
    /\ host["ctl"] # "pool"
    /\ Leave("ctl", pc["ctl"])
    /\ UNCHANGED <<items, taskVars, decoderVars, downloadVars, requestVars>>

\* The bytes detect_format sees: audio_data is appended to, and cleared only
\* after a format was found.
ProbedItem == IF audio_data # 0 THEN audio_data
              ELSE IF items[task].size > 0 THEN task ELSE 0
Detected(i) == i # 0 /\ Songs[i].format # "unknown"

CtlProbe ==
    /\ At("ctl", "probe")
    /\ ~MustPoll(ProbeSize)
    /\ Detected(ProbedItem)
    /\ audio_data' = 0
    /\ IF Songs[ProbedItem].format = "mov"
         THEN Await("ctl", DownloadFinished(task), "setup")
         ELSE Step("ctl", "setup")
    /\ UNCHANGED <<items, isStopped, extendedTask, task, decoderVars, downloadVars, requestVars>>

CtlUnknownFormat ==
    /\ At("ctl", "probe")
    /\ ~MustPoll(ProbeSize)
    /\ ~Detected(ProbedItem)
    /\ audio_data' = ProbedItem
    /\ Put(task, "read_error", TRUE)
    /\ Set("ctl", ReadFinished(task), "top")
    /\ UNCHANGED <<isStopped, extendedTask, task, decoderVars, downloadVars, requestVars>>

CtlSetup ==
    /\ At("ctl", "setup")
    /\ decoder' = "open"
    /\ Step("ctl", "feedSize")
    /\ UNCHANGED <<items, taskVars, wrapper, heard, downloadVars, requestVars>>

CtlEnoughToFeed ==
    /\ At("ctl", "feedSize")
    /\ ~MustPoll(FeedSize)
    /\ Step("ctl", "info")
    /\ UNCHANGED <<items, taskVars, decoderVars, downloadVars, requestVars>>

\* getAudioFormat; without an answer ctl tries once more after the download
\* and goes on.
CtlInfo ==
    /\ At("ctl", "info")
    /\ IF Songs[task].format = "broken"
         THEN Await("ctl", DownloadFinished(task), "feed")
         ELSE Step("ctl", "feed")
    /\ UNCHANGED <<items, taskVars, decoderVars, downloadVars, requestVars>>

CtlFeed ==
    /\ At("ctl", "feed")
    /\ Set("ctl", FeedDecoder, "fed")
    /\ UNCHANGED <<items, taskVars, decoderVars, downloadVars, requestVars>>

CtlFedIsEnough ==
    /\ At("ctl", "fed")
    /\ Step("ctl", "eof")
    /\ UNCHANGED <<items, taskVars, decoderVars, downloadVars, requestVars>>

CtlFed ==
    /\ At("ctl", "fed")
    /\ IF items[task].state # "Downloading"
         THEN Step("ctl", "eof")
       ELSE IF Songs[task].use_stream
         THEN Leave("ctl", "tick")
         ELSE Await("ctl", DownloadFinished(task), "refeed")
    /\ UNCHANGED <<items, taskVars, decoderVars, downloadVars, requestVars>>

\* Every two seconds a stream's decoder is fed again.
CtlTick ==
    /\ At("ctl", "tick")
    /\ IF DownloadFinished(task) \in ev
         THEN Step("ctl", "refeed")
         ELSE Set("ctl", FeedDecoder, "ticked")
    /\ UNCHANGED <<items, taskVars, decoderVars, downloadVars, requestVars>>

CtlTicked ==
    /\ At("ctl", "ticked")
    /\ Leave("ctl", "tick")
    /\ UNCHANGED <<items, taskVars, decoderVars, downloadVars, requestVars>>

CtlRefeedDropped ==
    /\ At("ctl", "refeed")
    /\ Step("ctl", "eof")
    /\ UNCHANGED <<items, taskVars, decoderVars, downloadVars, requestVars>>

CtlRefeed ==
    /\ At("ctl", "refeed")
    /\ Set("ctl", FeedDecoder, "eof")
    /\ UNCHANGED <<items, taskVars, decoderVars, downloadVars, requestVars>>

CtlEofWithoutWaiting ==
    /\ At("ctl", "eof")
    /\ wrapper' = [wrapper EXCEPT !.is_eof = TRUE]
    /\ Step("ctl", "finished")
    /\ UNCHANGED <<items, taskVars, decoder, heard, downloadVars, requestVars>>

CtlEof ==
    /\ At("ctl", "eof")
    /\ wrapper' = [wrapper EXCEPT !.is_eof = TRUE]
    /\ Await("ctl", ReadFinshed, "finished")
    /\ UNCHANGED <<items, taskVars, decoder, heard, downloadVars, requestVars>>

CtlFinishedWithoutReset ==
    /\ At("ctl", "finished")
    /\ Step("ctl", "release")
    /\ UNCHANGED <<items, taskVars, decoderVars, downloadVars, requestVars>>

CtlFinished ==
    /\ At("ctl", "finished")
    /\ Reset("ctl", ReadFinshed, "release")
    /\ UNCHANGED <<items, taskVars, decoderVars, downloadVars, requestVars>>

CtlRelease ==
    /\ At("ctl", "release")
    /\ Set("ctl", ReadFinished(task), "drain")
    /\ UNCHANGED <<items, taskVars, decoderVars, downloadVars, requestVars>>

CtlDrain ==
    /\ At("ctl", "drain")
    /\ Put(task, "state", "DrainFinished")
    /\ Step("ctl", "close")
    /\ UNCHANGED <<taskVars, decoderVars, downloadVars, requestVars>>

CtlClose ==
    /\ At("ctl", "close")
    /\ decoder' = "closed"
    /\ Step("ctl", "top")
    /\ UNCHANGED <<items, taskVars, wrapper, heard, downloadVars, requestVars>>

CtlStep ==
    \/ CtlTop \/ CtlWoken \/ CtlPoll \/ CtlProbe \/ CtlUnknownFormat \/ CtlSetup
    \/ CtlEnoughToFeed \/ CtlInfo \/ CtlFeed \/ CtlFed \/ CtlTick \/ CtlTicked
    \/ CtlRefeed \/ CtlEof \/ CtlFinished \/ CtlRelease \/ CtlDrain \/ CtlClose

-----------------------------------------------------------------------------
(* dec: start_consumer.  A read is two steps, so that what ctl does to the *)
(* decoder in the middle of one shows.                                     *)
DecTop ==
    /\ At("dec", "top")
    /\ Leave("dec", "check")
    /\ UNCHANGED <<items, taskVars, decoderVars, downloadVars, requestVars>>

DecCheck ==
    /\ At("dec", "check")
    /\ IF isStopped THEN Leave("dec", "done") ELSE Await("dec", FeedDecoder, "fed")
    /\ UNCHANGED <<items, taskVars, decoderVars, downloadVars, requestVars>>

DecFed ==
    /\ At("dec", "fed")
    /\ IF task = 0 THEN Reset("dec", FeedDecoder, "top") ELSE Step("dec", "read")
    /\ UNCHANGED <<items, taskVars, decoderVars, downloadVars, requestVars>>

Exhausted == wrapper.pos >= items[task].size

\* At the end of its bytes a buffer is at its end, a queue only after is_eof;
\* mpg123 is fed from a queue and asks for more whatever is_eof says.
MayGrow == wrapper.kind = "queue" /\ (Songs[task].format = "mp3" \/ ~wrapper.is_eof)

\* What read() may return; a closed decoder gives an error or the end.
ReadResults ==
    IF decoder = "closed" THEN {"ERR", "DONE"}
    ELSE IF Songs[task].format = "broken" THEN {"ERR"}
    ELSE IF ~Exhausted THEN {"OK"}
    ELSE IF MayGrow THEN {"NEED_MORE"}
    ELSE {"DONE"}

\* The decoder is at the end of the bytes although ctl has not seen the end of
\* a download that nobody cut short.  It decodes in real time, and with
\* DownloadAhead never gets there.
Overtakes ==
    /\ wrapper.kind = "buffer" /\ Exhausted /\ ~wrapper.is_eof
    /\ ~isStopped /\ task \notin skipped /\ ~items[task].should_skip

\* MPG123_OK: the frames go to the encoder and the ring buffer, unless
\* process_audio_frame does not know their encoding.
DecReadOk ==
    /\ At("dec", "read")
    /\ "OK" \in ReadResults
    /\ wrapper' = [wrapper EXCEPT !.pos = @ + 1]
    /\ IF Songs[task].format = "odd"
         THEN /\ Step("dec", "doSkip")
              /\ back' = [back EXCEPT !["dec"] = "oddReset"]
              /\ UNCHANGED heard
         ELSE /\ Step("dec", "top")
              /\ heard' = [heard EXCEPT ![task] = @ + 1]
              /\ UNCHANGED back
    /\ UNCHANGED <<items, taskVars, decoder, downloadVars, skips, skipped>>

DecOddReset ==
    /\ At("dec", "oddReset")
    /\ Reset("dec", FeedDecoder, "top")
    /\ UNCHANGED <<items, taskVars, decoderVars, downloadVars, requestVars>>

DecReadOther ==
    /\ At("dec", "read")
    /\ DownloadAhead => ~Overtakes
    /\ \E r \in ReadResults \ {"OK"} :
          Reset("dec", FeedDecoder,
                CASE r = "DONE" -> "notify" [] r = "ERR" -> "error" [] r = "NEED_MORE" -> "top")
    /\ UNCHANGED <<items, taskVars, decoderVars, downloadVars, requestVars>>

DecNotifyDropped ==
    /\ At("dec", "notify")
    /\ Step("dec", "top")
    /\ UNCHANGED <<items, taskVars, decoderVars, downloadVars, requestVars>>

DecNotify ==
    /\ At("dec", "notify")
    /\ Set("dec", ReadFinshed, "top")
    /\ UNCHANGED <<items, taskVars, decoderVars, downloadVars, requestVars>>

DecError ==
    /\ At("dec", "error")
    /\ Put(task, "read_error", TRUE)
    /\ Set("dec", ReadFinished(task), "top")
    /\ UNCHANGED <<taskVars, decoderVars, downloadVars, requestVars>>

DecStep ==
    \/ DecTop \/ DecCheck \/ DecFed \/ DecReadOk \/ DecOddReset \/ DecReadOther
    \/ DecNotify \/ DecError \/ DoSkip("dec")

-----------------------------------------------------------------------------
(* curl: the worker thread.                                                *)
CurlDataUnbounded ==
    /\ At("curl", "idle")
    /\ curl = "data"
    /\ Put(extendedTask, "size", items[extendedTask].size + 1)
    /\ UNCHANGED <<pc, host, await, ev, taskVars, decoderVars, downloadVars, requestVars>>

CurlData ==
    /\ At("curl", "idle")
    /\ curl = "data"
    /\ items[extendedTask].size < SongSize
    /\ Put(extendedTask, "size", items[extendedTask].size + 1)
    /\ UNCHANGED <<pc, host, await, ev, taskVars, decoderVars, downloadVars, requestVars>>

\* A finished transfer loses its registration, then its callback runs.
CurlTake(ok) ==
    /\ At("curl", "idle")
    /\ curl # "none"
    /\ IF ok THEN curl = "data" => items[extendedTask].size = SongSize ELSE Faults
    /\ curl' = "none"
    /\ result' = ok
    /\ Step("curl", IF curl = "url" THEN "urlCallback" ELSE "dataCallback")
    /\ UNCHANGED <<items, taskVars, decoderVars, errors, requestVars>>

CurlCallback ==
    /\ \/ At("curl", "urlCallback") /\ Callback("curl", "url", "set")
       \/ At("curl", "dataCallback") /\ Callback("curl", "data", "set")
    /\ UNCHANGED <<taskVars, decoderVars, downloadVars, requestVars>>

CurlSet ==
    /\ At("curl", "set")
    /\ Set("curl", CurlFinished(extendedTask), "idle")
    /\ UNCHANGED <<items, taskVars, decoderVars, downloadVars, requestVars>>

CurlStep == CurlData \/ (\E ok \in BOOLEAN : CurlTake(ok)) \/ CurlCallback \/ CurlSet

-----------------------------------------------------------------------------
(* api: the handlers.                                                      *)
\* skipDownload: cancelTask takes the callback and calls it with CURLE_OK;
\* the HTTP code is 200 once the head of the answer has been read.
CancelTask ==
    /\ At("api", "cancel")
    /\ IF curl = "none"
         THEN Step("api", back["api"]) /\ UNCHANGED <<curl, result, skipped>>
         ELSE /\ curl' = "none"
              /\ Hit(extendedTask)
              /\ result' \in IF curl = "data" /\ items[extendedTask].size > 0
                               THEN {TRUE} ELSE BOOLEAN
              /\ Step("api", IF curl = "url" THEN "urlCallback" ELSE "dataCallback")
    /\ UNCHANGED <<items, taskVars, decoderVars, errors, back, skips>>

CancelCallback ==
    /\ \/ At("api", "urlCallback") /\ Callback("api", "url", "set")
       \/ At("api", "dataCallback") /\ Callback("api", "data", "set")
    /\ UNCHANGED <<taskVars, decoderVars, downloadVars, requestVars>>

CancelSet ==
    /\ At("api", "set")
    /\ Set("api", CurlFinished(extendedTask), back["api"])
    /\ UNCHANGED <<items, taskVars, decoderVars, downloadVars, requestVars>>

SkipRequest ==
    /\ At("api", "idle")
    /\ ~isStopped
    /\ skips < MaxSkips
    /\ skips' = skips + 1
    /\ Step("api", "cancel")
    /\ back' = [back EXCEPT !["api"] = "skipSender"]
    /\ UNCHANGED <<items, taskVars, decoderVars, downloadVars, skipped>>

SkipSender ==
    /\ At("api", "skipSender")
    /\ Step("api", "doSkip")
    /\ back' = [back EXCEPT !["api"] = "idle"]
    /\ UNCHANGED <<items, taskVars, decoderVars, downloadVars, skips, skipped>>

\* cleanupJob and AudioSender::clean_up.
StopRequest ==
    /\ At("api", "idle")
    /\ MayStop /\ ~isStopped
    /\ isStopped' = TRUE
    /\ Step("api", "stop")
    /\ UNCHANGED <<items, extendedTask, task, audio_data, decoderVars, downloadVars, requestVars>>

ApiStep ==
    \/ CancelTask \/ CancelCallback \/ CancelSet \/ SkipSender \/ DoSkip("api")
    \/ StopSignal("api") \/ CleanUp("api")

-----------------------------------------------------------------------------
Next == DlStep \/ CtlStep \/ DecStep \/ CurlStep \/ ApiStep \/ SkipRequest \/ StopRequest

Spec == Init /\ [][Next]_vars

(* The pools and threads run what is ready; a transfer makes progress and  *)
(* ends; a request that has begun is carried out, none has to come.        *)
FairSpec ==
    /\ Spec
    /\ WF_vars(DlStep) /\ WF_vars(CtlStep) /\ WF_vars(DecStep)
    /\ WF_vars(CurlStep) /\ WF_vars(ApiStep)

-----------------------------------------------------------------------------
Labels ==
    [dl   |-> {"top", "next", "woken", "getRealUrl", "urlFinished", "urlCheck", "setData",
               "announce", "execute", "addTask", "curlFinished", "schedule", "downloaded",
               "awaitRead", "doSkip", "doSkip.finish", "doSkip.feed", "stop", "cleanUp",
               "cleanUp.new", "cleanUp.feed", "done"},
     ctl  |-> {"top", "woken", "probe", "setup", "feedSize", "info", "feed", "fed", "tick",
               "ticked", "refeed", "eof", "finished", "release", "drain", "close", "done"},
     dec  |-> {"top", "check", "fed", "read", "notify", "error", "doSkip", "doSkip.finish",
               "doSkip.feed", "oddReset", "done"},
     curl |-> {"idle", "urlCallback", "dataCallback", "set"},
     api  |-> {"idle", "cancel", "urlCallback", "dataCallback", "set", "skipSender", "doSkip",
               "doSkip.finish", "doSkip.feed", "stop", "cleanUp", "cleanUp.new",
               "cleanUp.feed"}]

\* Every variable keeps its type; above all no buffer holds more than its song
\* and no decoder reads past it.
TypeOK ==
    /\ pc \in [Processes -> UNION {Labels[p] : p \in Processes}]
    /\ \A p \in Processes : pc[p] \in Labels[p]
    /\ host \in [Coroutines -> Processes \cup {"pool"}]
    /\ await \in [Coroutines -> Events \cup {NoEvent}]
    /\ ev \subseteq Events
    /\ {isStopped, result} \subseteq BOOLEAN
    /\ {extendedTask, task, audio_data} \subseteq {0} \cup Items
    /\ items \in [Items -> [state : {"Downloading", "DownloadAndWriteFinished", "DrainFinished"},
                            should_skip : BOOLEAN, read_error : BOOLEAN,
                            data : {"buffer", "queue"}, size : 0 .. SongSize, url : BOOLEAN]]
    /\ wrapper \in [kind : {"buffer", "queue"}, pos : 0 .. SongSize, is_eof : BOOLEAN]
    /\ decoder \in {"open", "closed"}
    /\ curl \in {"none", "url", "data"}
    /\ errors \in 0 .. MaxErrors + 2
    /\ back \in [{"dl", "dec", "api"} ->
                   {"idle", "top", "schedule", "oddReset", "skipSender", "cleanUp"}]
    /\ skips \in 0 .. MaxSkips
    /\ skipped \subseteq Items
    /\ heard \in [Items -> 0 .. SongSize]

Released(i) == ReadFinished(i) \in ev
Sound(i) == Songs[i].format \in {"mp3", "other", "mov"}
Failed(i) == items[i].should_skip \/ items[i].read_error

\* ctl is in the control cycle of task.
InCycle == pc["ctl"] \notin {"top", "woken", "drain", "close", "done"}

\* Undisturbed, that is without a request or a fault and with the download ahead of
\* the decoder: a song that can be decoded is decoded to its end before its cycle
\* releases the download loop (AudioSender_control.cpp:158-169).
PlayedWhole ==
    \A i \in Items :
        Released(i) /\ Sound(i) /\ ~Failed(i) /\ i \notin skipped /\ ~isStopped
            => heard[i] = SongSize

\* Undisturbed, and without a song that the decoder refuses, the download loop waits
\* until the control cycle of its task has gone to its end before it takes another
\* (DownloadManager.cpp:261-262).
LoopWaitsForCycle == InCycle => extendedTask = task

\* ctl sets the decoder up, asks it for the format or the length, marks its
\* input complete, or resets it.
UsesDecoder == Runs("ctl") /\ pc["ctl"] \in {"setup", "info", "eof", "close"}

\* ctl uses the decoder without the lock that read() is under.  Undisturbed, the two
\* overlap in one place only: where ctl marks the end of the download and asks for
\* the length; then every byte of the song is already there for read() to find
\* (AudioSender_producer.cpp:37-41, AudioSender_control.cpp:102, 120, 159-160, 172).
OverlapOnlyAtEof ==
    At("dec", "read") /\ UsesDecoder => pc["ctl"] = "eof" /\ items[task].size = SongSize

\* Undisturbed, EventReadFinshed, which is one for all songs, is set only in the cycle
\* that consumes it: it never greets the next one (AudioSender_control.cpp:164-165).
NoLeftOverFinish == ReadFinshed \in ev => InCycle

\* Where nothing is skipped and no download fails, the loop gets through every file
\* up to the first that a decoder does not understand, and past none of a list that
\* has a stream before it: such a song has its turn and ends, whatever ctl, dec and
\* the network do first, unless the stream is stopped (DownloadManager.cpp:262).
Orderly(i) ==
    /\ MaxSkips = 0 /\ ~Faults
    /\ \A j \in 1 .. i : ~Songs[j].use_stream
    /\ \A j \in 1 .. i - 1 : Songs[j].format \notin {"broken", "odd"}

AllReleased == \A i \in Items : Orderly(i) => <>(Released(i) \/ isStopped)

\* What has arrived when ctl is in the loop that feeds a stream is decoded: a
\* decoder that asked for more is not left asleep (AudioSender_control.cpp:147-155,
\* AudioSender_producer.cpp:52-57).
ArrivedIsHeard ==
    \A i \in Items, n \in 1 .. SongSize :
        (task = i /\ pc["ctl"] = "tick" /\ items[i].size = n) ~> (heard[i] >= n)

\* ctl waits in its cycle for the end of the download or of the song.
Playing ==
    pc["ctl"] \in {"refeed", "finished"} /\ await["ctl"] # NoEvent /\ extendedTask = task

\* doSkip, of a request or of a failed download, ends the cycle of a song that
\* is being played (AudioSender_control.cpp:176-189).
DoSkipEndsCycle ==
    \A i \in Items :
        (Playing /\ task = i /\ \E p \in {"dl", "api"} : pc[p] = "doSkip") ~> Released(i)

\* A stop during a song ends all three coroutines, so that the manager can be
\* deleted (DownloadManager_utils.cpp:24-31, 35-42).
AllDone == \A c \in Coroutines : pc[c] = "done"
StopWhilePlayingEnds == (pc["api"] = "stop" /\ Playing) ~> AllDone

\* ctl polls for bytes of a task whose download failed before ctl took it: doSkip has
\* been called, of the task before (AudioSender_control.cpp:77, 108, 183).
PollsInVain ==
    /\ pc["ctl"] \in {"probe", "feedSize"}
    /\ items[task].should_skip \/ (Songs[task].cached /\ ~items[task].url)

\* Whenever the stop comes, the two coroutines of the AudioSender end, unless ctl is
\* left polling (AudioSender.cpp clean_up, AudioSender_control.cpp:191-198).
SenderStops ==
    isStopped ~> \/ pc["ctl"] = "done" /\ pc["dec"] = "done"
                 \/ []PollsInVain

\* Whenever the stop comes, the job ends: "等待任务容器里响应 isStopped 自己终结"
\* (DownloadManager_utils.cpp:24).
StopEnds == isStopped ~> AllDone

\* Undisturbed, the pipeline is the Player: songs in order, one at a time, each
\* heard in its turn and whole before the next one begins; files all get
\* their turn and end.
P == INSTANCE Player WITH
        Tasks <- Len(Songs),
        Length <- SongSize,
        Lasting <- {i \in Items : Songs[i].use_stream},
        turn <- IF InCycle THEN task ELSE 0,
        last <- IF InCycle THEN task - 1 ELSE task
PlaysLikePlayer == P!FairPlayerSpec
=============================================================================
