---------------------------- MODULE PlaylistFeed ----------------------------
(***************************************************************************)
(* The play list between its two users: the handlers' thread, which edits  *)
(* it and skips in it, and the download loop (startQueueJob), which takes  *)
(* the current task and sleeps on TaskUpdateEvent when there is none.      *)
(*                                                                         *)
(* coro::event::set resumes the sleeping coroutine at once, on the thread  *)
(* of the setter: here while the handler still holds TaskManager::mtx.     *)
(* inline is TRUE until that coroutine gives the thread back.              *)
(***************************************************************************)
EXTENDS Playlist

CONSTANTS
    MaxRequests,  \* bound on the requests of one behaviour
    NoName        \* not a name

ASSUME FeedAssumption == MaxRequests \in Nat /\ NoName \notin Names

VARIABLES
    pc,         \* where the download loop is
    waiting,    \* it is suspended on TaskUpdateEvent
    inline,     \* it runs on the handler's stack, inside event.set()
    mtx,        \* the handler holds TaskManager::mtx
    stopping,   \* the handler is inside cleanupJob, before the event is set
    isStopped,
    err_count,
    read_error, \* the last task taken was given a read error
    picked,     \* the last task taken by the loop
    wanted,     \* history: target of the last skipTo, if nothing replaced it
    requests

feedVars == <<playlistVars, pc, waiting, inline, mtx, stopping, isStopped,
              err_count, read_error, picked, wanted, requests>>

Labels == {"top", "fetch", "await", "reset", "playing", "ended", "advance",
           "clear", "failed", "exit"}

\* startStreamHandler fills the list before it starts the loop.
FeedInit ==
    /\ taskOrder \in Orders
    /\ taskMap = NamesIn(taskOrder)
    /\ mode = "RoundRobin"
    /\ currentIndex = 0
    /\ hasManualSkip = FALSE
    /\ TaskUpdateEvent = TRUE
    /\ pc = "top"
    /\ waiting = FALSE
    /\ inline = FALSE
    /\ mtx = FALSE
    /\ stopping = FALSE
    /\ isStopped = FALSE
    /\ err_count = 0
    /\ read_error = FALSE
    /\ picked = NoName
    /\ wanted = NoName
    /\ requests = 0

-----------------------------------------------------------------------------
(* The download loop.  Goto leaves the thread untouched, Yield and Suspend *)
(* give it back to the handler if the loop was resumed inside set().       *)
Goto(l) == pc' = l /\ UNCHANGED <<waiting, inline>>
Leave(l) == pc' = l /\ inline' = FALSE /\ UNCHANGED waiting
Suspend(l) == pc' = l /\ inline' = FALSE /\ waiting' = TRUE

handlerVars == <<mtx, stopping, requests>>

TopNeverGivesUp ==
    /\ pc = "top"
    /\ err_count' = IF read_error /\ ~isStopped THEN err_count + 1 ELSE err_count
    /\ Leave(IF isStopped THEN "exit" ELSE "fetch")
    /\ UNCHANGED <<playlistVars, handlerVars, isStopped, read_error, picked, wanted>>

TopWithoutYield ==
    /\ pc = "top"
    /\ Goto(IF isStopped THEN "exit" ELSE "fetch")
    /\ UNCHANGED <<playlistVars, handlerVars, isStopped, err_count, read_error, picked, wanted>>

\* The read error of the last task is counted on every pass, the same task
\* again after a pass that found no task to take.  More than three errors
\* end the loop by cleanupJob.
Top ==
    LET errors == IF read_error /\ ~isStopped THEN err_count + 1 ELSE err_count
        tooMany == ~isStopped /\ errors > 3
    IN  /\ pc = "top"
        /\ err_count' = errors
        /\ isStopped' = (isStopped \/ tooMany)
        /\ TaskUpdateEvent' = (TaskUpdateEvent \/ tooMany)
        /\ Leave(IF isStopped' THEN "exit" ELSE "fetch")
        /\ UNCHANGED <<mode, taskOrder, taskMap, currentIndex, hasManualSkip,
                       handlerVars, read_error, picked, wanted>>

Fetch ==
    /\ pc = "fetch"
    /\ ~mtx
    /\ IF getNextTask = {}
         THEN Goto("await") /\ UNCHANGED <<read_error, picked, wanted>>
         ELSE /\ picked' \in getNextTask
              /\ wanted' = NoName
              /\ read_error' = FALSE
              /\ Goto("playing")
    /\ UNCHANGED <<playlistVars, handlerVars, isStopped, err_count>>

AwaitBlindly ==
    /\ pc = "await"
    /\ Suspend("reset")
    /\ UNCHANGED <<playlistVars, handlerVars, isStopped, err_count, read_error, picked, wanted>>

Await ==
    /\ pc = "await"
    /\ IF TaskUpdateEvent THEN Goto("reset") ELSE Suspend("reset")
    /\ UNCHANGED <<playlistVars, handlerVars, isStopped, err_count, read_error, picked, wanted>>

Reset ==
    /\ pc = "reset"
    /\ ~waiting
    /\ ResetUpdateEvent
    /\ Goto("top")
    /\ UNCHANGED <<handlerVars, isStopped, err_count, read_error, picked, wanted>>

\* The song has run its course, or was skipped or lost: executeDownload.
SongEnds ==
    /\ pc = "playing"
    /\ read_error' \in BOOLEAN
    /\ \/ Goto("ended") /\ err_count' = 0
       \/ Goto("failed") /\ err_count' = err_count + 1
    /\ UNCHANGED <<playlistVars, handlerVars, isStopped, picked, wanted>>

Failed ==
    /\ pc = "failed"
    /\ ~mtx
    /\ autoNext
    /\ Goto("top")
    /\ UNCHANGED <<handlerVars, isStopped, err_count, read_error, picked, wanted>>

\* hasManualSkip is read without the mutex, before autoNext takes it.
CheckManualSkip ==
    /\ pc = "ended"
    /\ Goto(IF hasManualSkip THEN "clear" ELSE "advance")
    /\ UNCHANGED <<playlistVars, handlerVars, isStopped, err_count, read_error, picked, wanted>>

Advance ==
    /\ pc = "advance"
    /\ ~mtx
    /\ autoNext
    /\ Goto("clear")
    /\ UNCHANGED <<handlerVars, isStopped, err_count, read_error, picked, wanted>>

Clear ==
    /\ pc = "clear"
    /\ ClearManualSkip
    /\ Goto("top")
    /\ UNCHANGED <<handlerVars, isStopped, err_count, read_error, picked, wanted>>

LoopStep ==
    \/ Top \/ Fetch \/ Await \/ Reset \/ SongEnds
    \/ Failed \/ CheckManualSkip \/ Advance \/ Clear

-----------------------------------------------------------------------------
(* The handlers' thread.  An edit locks, changes the list and sets the     *)
(* event; if that resumes the loop the lock is held until it comes back.   *)
handlerIdle == ~mtx /\ ~inline /\ ~stopping
loopVars == <<pc, isStopped, err_count, read_error, picked>>

WakeLoop(signalled) ==
    IF waiting /\ signalled
      THEN waiting' = FALSE /\ inline' = TRUE
      ELSE UNCHANGED <<waiting, inline>>

Request == handlerIdle /\ requests < MaxRequests /\ requests' = requests + 1

Edit(operation) ==
    /\ Request
    /\ operation
    /\ mtx' = TRUE
    /\ WakeLoop(TaskUpdateEvent')
    /\ UNCHANGED <<loopVars, stopping>>

UpdatePlayList ==
    \E order \in Orders : Edit(updateTasks(NamesIn(order), order)) /\ wanted' = NoName

SwitchPlayMode ==
    \E m \in ConsumerMode : Edit(setMode(m)) /\ UNCHANGED wanted

SkipToTask ==
    \E n \in Names :
        /\ Edit(skipTo(n))
        /\ wanted' = IF n \in NamesIn(taskOrder) THEN n ELSE wanted

SkipBy ==
    \E k \in Offsets : Edit(skipRelative(k)) /\ wanted' = NoName

Unlock ==
    /\ mtx /\ ~inline
    /\ mtx' = FALSE
    /\ UNCHANGED <<playlistVars, loopVars, waiting, inline, stopping, wanted, requests>>

\* cleanupJob: isStopped first, then TaskUpdateEvent.set() without the mutex.
StopRequest ==
    /\ Request
    /\ ~isStopped
    /\ isStopped' = TRUE
    /\ stopping' = TRUE
    /\ UNCHANGED <<playlistVars, pc, waiting, inline, mtx, err_count, read_error, picked, wanted>>

StopSignalDropped ==
    /\ stopping
    /\ stopping' = FALSE
    /\ UNCHANGED <<playlistVars, loopVars, waiting, inline, mtx, wanted, requests>>

StopSignal ==
    /\ stopping
    /\ stopping' = FALSE
    /\ TaskUpdateEvent' = TRUE
    /\ WakeLoop(TRUE)
    /\ UNCHANGED <<mode, taskOrder, taskMap, currentIndex, hasManualSkip, loopVars,
                   mtx, wanted, requests>>

FeedNext ==
    \/ LoopStep
    \/ UpdatePlayList \/ SwitchPlayMode \/ SkipToTask \/ SkipBy
    \/ Unlock \/ StopRequest \/ StopSignal

FeedSpec == FeedInit /\ [][FeedNext]_feedVars

(* The pool runs a ready coroutine and a handler that has begun finishes;  *)
(* no request is ever assumed to come.  A song ends while nothing is       *)
(* stopped (AllReleased of StreamPipeline).  After a stop the loop may     *)
(* wait in executeDownload for ever (DownloadManager.cpp:262, StopEnds of  *)
(* StreamPipeline), so no fairness is assumed of the end of a song then.   *)
FairLoopStep == LoopStep /\ (pc = "playing" => ~isStopped)

FairFeedSpec == FeedSpec /\ WF_feedVars(FairLoopStep) /\ WF_feedVars(Unlock \/ StopSignal)

-----------------------------------------------------------------------------
\* Every variable keeps its type; err_count never passes the 4 that end the loop
\* by more than the one a failing song adds before it is looked at.
FeedTypeOK ==
    /\ PlaylistTypeOK
    /\ pc \in Labels
    /\ {waiting, inline, mtx, stopping, isStopped, read_error} \subseteq BOOLEAN
    /\ err_count \in 0 .. 5
    /\ {picked, wanted} \subseteq Names \cup {NoName}
    /\ requests \in 0 .. MaxRequests

\* No wake-up is lost between getNextTask, co_await and reset
\* (DownloadManager.cpp:59-65): the loop sleeps only while there is nothing
\* to play, and not beyond a stop that has set the event.
NoLostUpdate ==
    waiting => /\ taskOrder = <<>>
               /\ isStopped => stopping

\* event.set() runs under mtx (TaskManager.cpp:36, 54, 66, 95, 141, 189) and
\* resumes the loop on the same thread: the loop must not reach an operation
\* that locks mtx before it has left that thread.
NoSelfDeadlock == inline => pc \notin {"fetch", "failed", "advance"}

\* The task a client skipped to is the one played next (TaskManager.h:45).
SkipTargetPlayed ==
    [][pc = "fetch" /\ pc' = "playing" /\ wanted # NoName => picked' = wanted]_feedVars

\* In RoundRobin mode every task of a list nobody edits any more is played
\* again and again, whichever skips and failures came before.
RoundRobinPlaysAll ==
    \A n \in Names :
        <>[](~isStopped /\ mode = "RoundRobin" /\ n \in NamesIn(taskOrder))
            => []<>(picked = n)

\* A stop request ends the loop (DownloadManager.cpp:41-44): it does not go to
\* sleep on TaskUpdateEvent or take song after song.  The exception is a song
\* whose executeDownload never returns, which may happen after a stop.
StopEndsLoop == isStopped ~> (pc = "exit" \/ [](pc = "playing"))
=============================================================================
