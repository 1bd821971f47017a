------------------------- MODULE PlaylistFeedProofs -------------------------
(***************************************************************************)
(* The download loop and the handlers on one play list, for every set of   *)
(* names and orders and any number of requests: the types hold, no wake-up *)
(* is lost and the loop never runs into the mutex it is resumed under.     *)
(***************************************************************************)
EXTENDS PlaylistFeed, PlaylistProofs

(* The inductive invariant.  Resumed says where the loop can be while it   *)
(* sleeps or runs on the handler's stack; Heard is why it may sleep: from  *)
(* the moment it found nothing to do, every change and every stop leaves   *)
(* the event set, or is still about to set it.                             *)
Typed ==
    /\ pc \in Labels
    /\ {waiting, inline, mtx, stopping, isStopped, read_error} \subseteq BOOLEAN
    /\ {picked, wanted} \subseteq Names \cup {NoName}
    /\ requests \in 0 .. MaxRequests

Errors ==
    /\ err_count \in 0 .. 5
    /\ pc \in {"top", "failed"} => err_count <= 4
    /\ pc \notin {"top", "failed", "exit"} => err_count <= 3

Resumed ==
    /\ waiting => pc = "reset" /\ ~inline
    /\ inline => pc \in {"reset", "top"}

Heard ==
    /\ pc = "await" => TaskUpdateEvent \/ taskOrder = <<>>
    /\ pc \in {"fetch", "await"} /\ isStopped => stopping \/ TaskUpdateEvent
    /\ waiting => taskOrder = <<>> /\ (isStopped => stopping)

FeedInv == PlaylistInv /\ Typed /\ Errors /\ Resumed /\ Heard

listVars == <<mode, taskOrder, taskMap, currentIndex, hasManualSkip>>

-----------------------------------------------------------------------------
(* What an edit does to the list, whichever it is.                         *)
LEMMA EditsOfTheList ==
    ASSUME UpdatePlayList \/ SwitchPlayMode \/ SkipToTask \/ SkipBy
    PROVE  /\ PlaylistNext
           /\ taskOrder' # taskOrder => TaskUpdateEvent'
           /\ TaskUpdateEvent => TaskUpdateEvent'
<1> USE PlaylistAssumption
<1>1. CASE UpdatePlayList
  <2>1. PICK order \in Orders : updateTasks(NamesIn(order), order)
    BY <1>1, Zenon DEF UpdatePlayList, Edit
  <2>2. NamesIn(order) \in SUBSET Names
    BY DEF NamesIn
  <2>3. PlaylistNext
    BY <2>1, <2>2, Zenon DEF PlaylistNext
  <2>. QED  BY <2>1, <2>3, Zenon DEF updateTasks
<1>2. CASE SwitchPlayMode
  <2>1. PICK m \in ConsumerMode : setMode(m)
    BY <1>2, Zenon DEF SwitchPlayMode, Edit
  <2>. QED  BY <2>1, Zenon DEF setMode, PlaylistNext
<1>3. CASE SkipToTask
  <2>1. PICK n \in Names : skipTo(n)
    BY <1>3, Zenon DEF SkipToTask, Edit
  <2>. QED  BY <2>1, Zenon DEF skipTo, MoveCursor, PlaylistNext, playlistVars
<1>4. CASE SkipBy
  <2>1. PICK k \in Offsets : skipRelative(k)
    BY <1>4, Zenon DEF SkipBy, Edit
  <2>. QED  BY <2>1, Zenon DEF skipRelative, MoveCursor, PlaylistNext, playlistVars
<1>. QED  BY <1>1, <1>2, <1>3, <1>4

(* What an edit does to the rest.                                          *)
LEMMA EditsOfTheFeed ==
    ASSUME UpdatePlayList \/ SwitchPlayMode \/ SkipToTask \/ SkipBy
    PROVE  /\ ~mtx /\ ~inline /\ ~stopping /\ requests < MaxRequests
           /\ requests' = requests + 1 /\ mtx' = TRUE
           /\ WakeLoop(TaskUpdateEvent')
           /\ wanted' \in Names \cup {NoName, wanted}
           /\ UNCHANGED <<loopVars, stopping>>
BY Zenon DEF UpdatePlayList, SwitchPlayMode, SkipToTask, SkipBy, Edit, Request, handlerIdle

(* The list survives every step: the stop and the limit of errors only set *)
(* the event, the rest are operations of the list.                         *)
LEMMA ListStep ==
    ASSUME PlaylistInv, [FeedNext]_feedVars
    PROVE  PlaylistInv'
<1>1. CASE UpdatePlayList \/ SwitchPlayMode \/ SkipToTask \/ SkipBy
  BY <1>1, EditsOfTheList, PlaylistStep
<1>2. CASE Reset \/ Failed \/ Advance \/ Clear
  <2>1. PlaylistNext
    BY <1>2, Zenon DEF Reset, Failed, Advance, Clear, PlaylistNext
  <2>. QED  BY <2>1, PlaylistStep
<1>3. CASE Fetch \/ Await \/ SongEnds \/ CheckManualSkip \/ Unlock \/ StopRequest
  <2>1. UNCHANGED playlistVars
    BY <1>3, Zenon DEF Fetch, Await, SongEnds, CheckManualSkip, Unlock, StopRequest
  <2>. QED  BY <2>1, PlaylistStep
<1>4. CASE Top \/ StopSignal
  <2>1. UNCHANGED listVars /\ TaskUpdateEvent' \in BOOLEAN
    BY <1>4, Zenon DEF Top, StopSignal, listVars
  <2>. QED
    BY <2>1 DEF PlaylistInv, PlaylistTypeOK, CursorInRange, OrderHasEntries, listVars
<1>5. CASE UNCHANGED feedVars
  <2>1. UNCHANGED playlistVars
    BY <1>5, Zenon DEF feedVars
  <2>. QED  BY <2>1, PlaylistStep
<1>. QED  BY <1>1, <1>2, <1>3, <1>4, <1>5 DEF FeedNext, LoopStep

LEMMA TypedStep ==
    ASSUME PlaylistInv, Typed, [FeedNext]_feedVars
    PROVE  Typed'
<1> USE FeedAssumption
<1>1. CASE UpdatePlayList \/ SwitchPlayMode \/ SkipToTask \/ SkipBy
  <2>1. /\ requests < MaxRequests /\ requests' = requests + 1 /\ mtx' = TRUE
        /\ WakeLoop(TaskUpdateEvent') /\ wanted' \in Names \cup {NoName, wanted}
        /\ UNCHANGED <<pc, isStopped, read_error, picked, stopping>>
    BY <1>1, EditsOfTheFeed DEF loopVars
  <2>2. requests' \in 0 .. MaxRequests
    BY <2>1 DEF Typed
  <2>3. {waiting', inline'} \subseteq BOOLEAN
    BY <2>1, Zenon DEF WakeLoop, Typed
  <2>. QED  BY <2>1, <2>2, <2>3, Zenon DEF Typed
<1>2. CASE Fetch
  <2>1. getNextTask \subseteq Names
    BY DEF getNextTask, PlaylistInv, PlaylistTypeOK
  <2>. QED  BY <1>2, <2>1, Zenon DEF Fetch, Typed, Goto, Labels, handlerVars
<1>3. CASE Top \/ Await \/ Reset \/ SongEnds
  BY <1>3, Zenon
  DEF Top, Await, Reset, SongEnds, Typed, Goto, Leave, Suspend, Labels, handlerVars
<1>4. CASE Failed \/ CheckManualSkip \/ Advance \/ Clear
  BY <1>4, Zenon
  DEF Failed, CheckManualSkip, Advance, Clear, Typed, Goto, Labels, handlerVars
<1>5. CASE StopRequest
  <2>1. requests < MaxRequests /\ requests' = requests + 1
    BY <1>5 DEF StopRequest, Request
  <2>2. requests' \in 0 .. MaxRequests
    BY <2>1 DEF Typed
  <2>. QED  BY <1>5, <2>2, Zenon DEF StopRequest, Typed
<1>6. CASE Unlock \/ StopSignal
  BY <1>6, Zenon DEF Unlock, StopSignal, WakeLoop, loopVars, Typed
<1>7. CASE UNCHANGED feedVars
  BY <1>7, Zenon DEF feedVars, Typed
<1>. QED  BY <1>1, <1>2, <1>3, <1>4, <1>5, <1>6, <1>7 DEF FeedNext, LoopStep

-----------------------------------------------------------------------------
LEMMA ErrorsStep ==
    ASSUME Typed, Errors, [FeedNext]_feedVars
    PROVE  Errors'
<1>1. err_count \in 0 .. 5
  BY DEF Errors
<1>2. CASE Top
  <2> DEFINE errors == IF read_error /\ ~isStopped THEN err_count + 1 ELSE err_count
             tooMany == ~isStopped /\ errors > 3
  <2>1. /\ pc = "top" /\ err_count' = errors /\ isStopped' = (isStopped \/ tooMany)
        /\ pc' = IF isStopped' THEN "exit" ELSE "fetch"
    BY <1>2, Zenon DEF Top, Leave
  <2>2. err_count <= 4 /\ errors \in 0 .. 5
    BY <1>1, <2>1 DEF Errors
  <2>3. pc' # "exit" => pc' = "fetch" /\ ~isStopped /\ ~ (errors > 3)
    BY <2>1, Zenon
  <2>4. ~ (errors > 3) => errors <= 3
    BY <2>2
  <2> HIDE DEF errors, tooMany
  <2>5. pc' \in {"exit", "fetch"}
    BY <2>1, Zenon
  <2>. QED  BY <2>1, <2>2, <2>3, <2>4, <2>5 DEF Errors
<1>3. CASE SongEnds
  <2>1. /\ pc = "playing"
        /\ \/ pc' = "ended" /\ err_count' = 0
           \/ pc' = "failed" /\ err_count' = err_count + 1
    BY <1>3, Zenon DEF SongEnds, Goto
  <2>. QED  BY <1>1, <2>1 DEF Errors
<1>4. CASE Fetch \/ Await \/ Reset \/ Failed \/ CheckManualSkip \/ Advance \/ Clear
  <2>1. /\ pc \in {"fetch", "await", "reset", "failed", "ended", "advance", "clear"}
        /\ err_count' = err_count
        /\ pc' \in {"await", "playing", "reset", "top", "clear", "advance"}
        /\ pc = "failed" => pc' = "top"
    BY <1>4, SMT
    DEF Fetch, Await, Reset, Failed, CheckManualSkip, Advance, Clear, Goto, Suspend
  <2>. QED  BY <1>1, <2>1 DEF Errors
<1>5. CASE \/ UpdatePlayList \/ SwitchPlayMode \/ SkipToTask \/ SkipBy
           \/ Unlock \/ StopRequest \/ StopSignal \/ UNCHANGED feedVars
  <2>1. UNCHANGED <<pc, err_count>>
    BY <1>5, Zenon
    DEF UpdatePlayList, SwitchPlayMode, SkipToTask, SkipBy, Edit, Unlock, StopRequest,
        StopSignal, loopVars, feedVars
  <2>. QED  BY <2>1 DEF Errors
<1>. QED  BY <1>2, <1>3, <1>4, <1>5 DEF FeedNext, LoopStep

(* The handler resumes the loop only out of its sleep, at the reset after  *)
(* co_await, and from there the loop comes to the yield at the top before  *)
(* it comes to the mutex (DownloadManager.cpp:57-65).                      *)
LEMMA ResumedStep ==
    ASSUME Typed, Resumed, [FeedNext]_feedVars
    PROVE  Resumed'
<1>1. CASE Top
  <2>1. pc = "top" /\ inline' = FALSE /\ waiting' = waiting
    BY <1>1, Zenon DEF Top, Leave
  <2>. QED  BY <2>1, SMT DEF Resumed
<1>2. CASE Await
  <2>1. /\ pc = "await" /\ pc' = "reset"
        /\ \/ UNCHANGED <<waiting, inline>>
           \/ inline' = FALSE /\ waiting' = TRUE
    BY <1>2, Zenon DEF Await, Goto, Suspend
  <2>. QED  BY <2>1, SMT DEF Resumed
<1>3. CASE Fetch \/ SongEnds \/ Failed \/ CheckManualSkip \/ Advance \/ Clear
  <2>1. /\ pc \in {"fetch", "playing", "failed", "ended", "advance", "clear"}
        /\ UNCHANGED <<waiting, inline>>
    BY <1>3, SMT DEF Fetch, SongEnds, Failed, CheckManualSkip, Advance, Clear, Goto
  <2>. QED  BY <2>1, SMT DEF Resumed
<1>4. CASE Reset
  <2>1. ~waiting /\ pc' = "top" /\ UNCHANGED <<waiting, inline>>
    BY <1>4, Zenon DEF Reset, Goto
  <2>. QED  BY <2>1, SMT DEF Resumed
<1>5. CASE UpdatePlayList \/ SwitchPlayMode \/ SkipToTask \/ SkipBy
  <2>1. WakeLoop(TaskUpdateEvent') /\ pc' = pc
    BY <1>5, EditsOfTheFeed, Zenon DEF loopVars
  <2>. QED  BY <2>1, Zenon DEF WakeLoop, Resumed
<1>6. CASE StopSignal
  BY <1>6, Zenon DEF StopSignal, WakeLoop, loopVars, Resumed
<1>7. CASE Unlock \/ StopRequest \/ UNCHANGED feedVars
  <2>1. UNCHANGED <<pc, waiting, inline>>
    BY <1>7, Zenon DEF Unlock, StopRequest, loopVars, feedVars
  <2>. QED  BY <2>1, Zenon DEF Resumed
<1>. QED  BY <1>1, <1>2, <1>3, <1>4, <1>5, <1>6, <1>7 DEF FeedNext, LoopStep

LEMMA NoTaskMeansEmpty ==
    ASSUME PlaylistInv, getNextTask = {}
    PROVE  taskOrder = <<>>
<1>1. currentIndex >= Len(taskOrder)
  BY Zenon DEF getNextTask
<1>2. Len(taskOrder) = 0 /\ taskOrder \in Seq(Names)
  BY <1>1 DEF PlaylistInv, PlaylistTypeOK, CursorInRange
<1>. QED  BY <1>2

LEMMA HeardStep ==
    ASSUME PlaylistInv, Typed, Resumed, Heard, [FeedNext]_feedVars
    PROVE  Heard'
<1>1. CASE Top
  <2>1. /\ pc = "top" /\ waiting' = waiting
        /\ pc' = IF isStopped' THEN "exit" ELSE "fetch"
    BY <1>1, Zenon DEF Top, Leave
  <2>2. ~waiting'
    BY <2>1, Zenon DEF Resumed
  <2>. QED  BY <2>1, <2>2, Zenon DEF Heard
<1>2. CASE Fetch
  <2>1. /\ pc = "fetch" /\ pc' \in {"await", "playing"}
        /\ pc' = "await" => getNextTask = {}
        /\ UNCHANGED <<taskOrder, TaskUpdateEvent, waiting, isStopped, stopping>>
    BY <1>2, Zenon DEF Fetch, Goto, playlistVars, handlerVars
  <2>2. pc' = "await" => taskOrder = <<>>
    BY <2>1, NoTaskMeansEmpty
  <2>. QED  BY <2>1, <2>2, Zenon DEF Heard, Resumed
<1>3. CASE Await
  <2>1. /\ pc = "await" /\ pc' = "reset"
        /\ waiting' => waiting \/ ~TaskUpdateEvent
        /\ UNCHANGED <<taskOrder, TaskUpdateEvent, isStopped, stopping>>
    BY <1>3, Zenon DEF Await, Goto, Suspend, playlistVars, handlerVars
  <2>. QED  BY <2>1, Zenon DEF Heard
<1>4. CASE Reset \/ SongEnds \/ Failed \/ CheckManualSkip \/ Advance \/ Clear
  <2>1. /\ pc' \notin {"fetch", "await"} /\ waiting' = waiting
        /\ waiting => pc # "reset"
    BY <1>4, SMT
    DEF Reset, SongEnds, Failed, CheckManualSkip, Advance, Clear, Goto
  <2>2. ~waiting'
    BY <2>1, Zenon DEF Resumed
  <2>. QED  BY <2>1, <2>2, Zenon DEF Heard
<1>5. CASE \/ UpdatePlayList \/ SwitchPlayMode \/ SkipToTask \/ SkipBy
  <2>1. /\ WakeLoop(TaskUpdateEvent') /\ UNCHANGED <<pc, isStopped, stopping>>
    BY <1>5, EditsOfTheFeed, Zenon DEF loopVars
  <2>2. /\ TaskUpdateEvent => TaskUpdateEvent'
        /\ taskOrder' # taskOrder => TaskUpdateEvent'
    BY <1>5, EditsOfTheList
  <2>3. waiting' => waiting /\ taskOrder' = taskOrder
    BY <2>1, <2>2, Zenon DEF WakeLoop
  <2>. QED  BY <2>1, <2>2, <2>3, Zenon DEF Heard
<1>6. CASE StopSignal
  <2>1. ~waiting' /\ TaskUpdateEvent'
    BY <1>6, Zenon DEF StopSignal, WakeLoop
  <2>. QED  BY <2>1, Zenon DEF Heard
<1>7. CASE StopRequest
  <2>1. stopping' /\ UNCHANGED <<pc, waiting, taskOrder, TaskUpdateEvent>>
    BY <1>7, Zenon DEF StopRequest, playlistVars
  <2>. QED  BY <2>1, Zenon DEF Heard
<1>8. CASE Unlock \/ UNCHANGED feedVars
  <2>1. UNCHANGED <<pc, waiting, taskOrder, TaskUpdateEvent, isStopped, stopping>>
    BY <1>8, Zenon DEF Unlock, loopVars, playlistVars, feedVars
  <2>. QED  BY <2>1, Zenon DEF Heard
<1>. QED  BY <1>1, <1>2, <1>3, <1>4, <1>5, <1>6, <1>7, <1>8 DEF FeedNext, LoopStep

-----------------------------------------------------------------------------
LEMMA FeedInitially ==
    ASSUME FeedInit
    PROVE  FeedInv
<1> USE PlaylistAssumption, FeedAssumption
<1>1. PlaylistInv
  <2>1. taskOrder \in Seq(Names) /\ NamesIn(taskOrder) \subseteq Names
    BY DEF FeedInit, NamesIn
  <2>2. mode \in ConsumerMode /\ hasManualSkip \in BOOLEAN /\ TaskUpdateEvent \in BOOLEAN
    BY Zenon DEF FeedInit, ConsumerMode
  <2>3. currentIndex = 0 /\ taskMap = NamesIn(taskOrder)
    BY DEF FeedInit
  <2>. QED
    BY <2>1, <2>2, <2>3 DEF PlaylistInv, PlaylistTypeOK, CursorInRange, OrderHasEntries
<1>2. Typed
  <2>1. requests \in 0 .. MaxRequests
    BY DEF FeedInit
  <2>. QED  BY <2>1, Zenon DEF FeedInit, Typed, Labels
<1>3. Errors
  BY DEF FeedInit, Errors
<1>4. Resumed /\ Heard
  BY Zenon DEF FeedInit, Resumed, Heard
<1>. QED  BY <1>1, <1>2, <1>3, <1>4 DEF FeedInv

LEMMA FeedSteps == FeedInv /\ [FeedNext]_feedVars => FeedInv'
BY ListStep, TypedStep, ErrorsStep, ResumedStep, HeardStep DEF FeedInv

(* Whoever edits, skips and stops, at whatever moment: the loop sleeps     *)
(* only beside an empty list and never beyond a stop that has been         *)
(* signalled, it is never resumed into a lock its resumer holds, the list  *)
(* keeps its cursor and entries, and four errors are all it survives       *)
(* (DownloadManager.cpp:38-133, TaskManager.cpp).                          *)
THEOREM FeedSafe == FeedSpec => [](FeedTypeOK /\ NoLostUpdate /\ NoSelfDeadlock)
<1>1. FeedInit => FeedInv
  BY FeedInitially
<1>2. FeedInv /\ [FeedNext]_feedVars => FeedInv'
  BY FeedSteps
<1>3. FeedInv => FeedTypeOK /\ NoLostUpdate /\ NoSelfDeadlock
  <2>1. FeedInv => FeedTypeOK
    BY Zenon DEF FeedInv, PlaylistInv, Typed, Errors, FeedTypeOK
  <2>2. FeedInv => NoLostUpdate /\ NoSelfDeadlock
    BY Zenon DEF FeedInv, Resumed, Heard, NoLostUpdate, NoSelfDeadlock
  <2>. QED  BY <2>1, <2>2
<1>. QED  BY <1>1, <1>2, <1>3, PTL DEF FeedSpec

(* Each of them by itself.  The labels, the flags and the count of errors  *)
(* of the loop keep to their kinds (DownloadManager.cpp:38-133).           *)
THEOREM FeedTypes == FeedSpec => []FeedTypeOK
  BY FeedSafe, PTL

(* A loop that event.set() resumes on the handler's stack never comes to a *)
(* lock the handler still holds (TaskManager.cpp, DownloadManager.cpp:57). *)
THEOREM FeedNeverBlocksItself == FeedSpec => []NoSelfDeadlock
  BY FeedSafe, PTL
=============================================================================
