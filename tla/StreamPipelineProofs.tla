------------------------ MODULE StreamPipelineProofs ------------------------
(***************************************************************************)
(* Proofs about StreamPipeline: that its variables keep their types, for   *)
(* any list of songs and any disturbance; and, for any list of songs that  *)
(* nobody disturbs, that it implements Player and never lets its           *)
(* coroutines overtake one another.                                        *)
(*                                                                         *)
(* TypeInv and PlayInv are the two invariants.  Every action has a lemma   *)
(* that it Keeps both, and that it is a step of Player or none at all.     *)
(***************************************************************************)
EXTENDS StreamPipeline, TLAPS

\* The types are those of control and those of data.
ControlOK ==
    /\ pc \in [Processes -> UNION {Labels[p] : p \in Processes}]
    /\ \A p \in Processes : pc[p] \in Labels[p]
    /\ host \in [Coroutines -> Processes \cup {"pool"}]
    /\ await \in [Coroutines -> Events \cup {NoEvent}]
    /\ ev \subseteq Events

ItemType ==
    [state : {"Downloading", "DownloadAndWriteFinished", "DrainFinished"},
     should_skip : BOOLEAN, read_error : BOOLEAN,
     data : {"buffer", "queue"}, size : 0 .. SongSize, url : BOOLEAN]

DataOK ==
    /\ {isStopped, result} \subseteq BOOLEAN
    /\ {extendedTask, task, audio_data} \subseteq {0} \cup Items
    /\ items \in [Items -> ItemType]
    /\ wrapper \in [kind : {"buffer", "queue"}, pos : 0 .. SongSize, is_eof : BOOLEAN]
    /\ decoder \in {"open", "closed"}
    /\ curl \in {"none", "url", "data"}
    /\ errors \in 0 .. MaxErrors + 2
    /\ back \in [{"dl", "dec", "api"} ->
                   {"idle", "top", "schedule", "oddReset", "skipSender", "cleanUp"}]
    /\ skips \in 0 .. MaxSkips
    /\ skipped \subseteq Items
    /\ heard \in [Items -> 0 .. SongSize]

LEMMA TypeParts == TypeOK <=> ControlOK /\ DataOK
  BY DEF TypeOK, ControlOK, DataOK, ItemType

\* What a suspended coroutine waits for.
Awaits ==
    /\ await["dl"] # NoEvent =>
          \/ pc["dl"] = "woken" /\ await["dl"] = TaskUpdate
          \/ /\ pc["dl"] \in {"urlFinished", "curlFinished"}
             /\ await["dl"] = CurlFinished(extendedTask)
          \/ pc["dl"] = "top" /\ await["dl"] = ReadFinished(extendedTask)
    /\ await["ctl"] # NoEvent =>
          \/ pc["ctl"] = "woken" /\ await["ctl"] = NewDownload
          \/ pc["ctl"] \in {"setup", "feed", "refeed"} /\ await["ctl"] = DownloadFinished(task)
          \/ pc["ctl"] = "finished" /\ await["ctl"] = ReadFinshed
    /\ await["dec"] # NoEvent => pc["dec"] = "fed" /\ await["dec"] = FeedDecoder

SkipLabels == {"doSkip", "doSkip.finish", "doSkip.feed"}
StopLabels == {"stop", "cleanUp", "cleanUp.new", "cleanUp.feed"}

\* Whoever works on an item has one, and whoever calls has a place to go back to.
InHand ==
    /\ \/ pc["dl"] \notin {"top", "next", "woken", "done"} \cup SkipLabels \cup StopLabels
       \/ pc["dl"] \in SkipLabels /\ back["dl"] = "schedule"
       \/ curl # "none" \/ pc["curl"] # "idle"
       \/ pc["api"] \in {"urlCallback", "dataCallback", "set"}
       => extendedTask # 0
    /\ \/ pc["ctl"] \notin {"top", "woken", "done"} \/ pc["dec"] \in {"read", "notify", "error"}
       => task # 0
    /\ pc["dl"] \in SkipLabels => back["dl"] \in {"top", "schedule"}
    /\ pc["dec"] \in SkipLabels => back["dec"] = "oddReset"
    /\ pc["api"] \in {"cancel", "urlCallback", "dataCallback", "set"} =>
          back["api"] \in {"skipSender", "cleanUp"}
    /\ pc["api"] \in SkipLabels => back["api"] = "idle"

\* What is heard of a task is what its decoder has read, if its encoding is known.
Positions ==
    /\ task <= extendedTask
    /\ task # 0 /\ Songs[task].format # "odd" => heard[task] = wrapper.pos
    /\ \A i \in Items : i > task => heard[i] = 0

\* Too many errors are seen at the top of the loop, which then stops.
Counted ==
    /\ errors > MaxErrors => \/ pc["dl"] \in {"top", "done"} \cup StopLabels
                             \/ pc["dl"] \in SkipLabels /\ back["dl"] = "top"
    /\ errors > MaxErrors + 1 => isStopped

\* Holds for any list and any disturbance.
TypeInv == ControlOK /\ DataOK /\ Awaits /\ InHand /\ Positions /\ Counted

-----------------------------------------------------------------------------
(* A list of songs that are played to their ends.                          *)
Undisturbed ==
    /\ MaxSkips = 0 /\ MayStop = FALSE /\ Faults = FALSE /\ DownloadAhead = TRUE
    /\ ProbeSize # 0
    /\ \A i \in Items : Sound(i)

\* Nobody skips or stops, and nothing fails.
Calm ==
    /\ ~isStopped /\ skips = 0 /\ skipped = {} /\ pc["api"] = "idle" /\ audio_data = 0
    /\ errors = 0
    /\ \A i \in Items : ~items[i].should_skip /\ ~items[i].read_error
    /\ pc["dl"] \notin {"schedule", "done"} \cup SkipLabels \cup StopLabels
    /\ pc["ctl"] # "done" /\ pc["dec"] \notin {"error", "oddReset", "done"} \cup SkipLabels

\* The transfer the loop waits for.
Transferring ==
    /\ curl # "none" => pc["curl"] = "idle" /\ await["dl"] # NoEvent
    /\ pc["curl"] # "idle" => await["dl"] # NoEvent
    /\ curl = "url" \/ pc["curl"] = "urlCallback" => pc["dl"] = "urlFinished"
    /\ curl = "data" \/ pc["curl"] = "dataCallback" => pc["dl"] = "curlFinished"
    /\ pc["curl"] \in {"urlCallback", "dataCallback"} => result
    /\ pc["curl"] = "set" => pc["dl"] \in {"urlFinished", "curlFinished"}
    /\ \/ pc["dl"] = "urlFinished" /\ (pc["curl"] = "set" \/ await["dl"] = NoEvent)
       \/ pc["dl"] = "urlCheck"
       => items[extendedTask].url

\* A download that has ended has brought the whole song.
Sizes ==
    /\ \A i \in Items :
          items[i].state # "Downloading" \/ DownloadFinished(i) \in ev => items[i].size = SongSize
    /\ \/ pc["curl"] = "dataCallback"
       \/ pc["dl"] = "curlFinished" /\ (pc["curl"] = "set" \/ await["dl"] = NoEvent)
       \/ pc["dl"] = "downloaded"
       => items[extendedTask].size = SongSize
    /\ \/ pc["ctl"] \in {"eof", "finished", "release", "drain"}
       \/ pc["ctl"] = "refeed" /\ await["ctl"] = NoEvent
       => items[task].size = SongSize

\* ctl has fed the decoder, which has not yet reported the end of the song.
Fed ==
    \/ pc["ctl"] \in {"fed", "tick", "ticked", "refeed", "eof"}
    \/ pc["ctl"] = "finished" /\ await["ctl"] # NoEvent

Feeding ==
    /\ \/ FeedDecoder \in ev \/ pc["dec"] \in {"read", "notify"}
       \/ pc["dec"] = "fed" /\ await["dec"] = NoEvent
       => Fed
    /\ pc["dec"] = "notify" =>
          pc["ctl"] = "finished" /\ FeedDecoder \notin ev /\ heard[task] = SongSize
    /\ ReadFinshed \in ev => pc["ctl"] = "finished" /\ await["ctl"] = NoEvent
    /\ (pc["ctl"] = "finished" /\ await["ctl"] = NoEvent) \/ pc["ctl"] = "release" =>
          heard[task] = SongSize
    /\ InCycle /\ wrapper.is_eof => pc["ctl"] \in {"finished", "release"}
    /\ InCycle /\ pc["ctl"] \notin {"probe", "setup"} => decoder = "open"

\* The loop and ctl take turns.
Turns ==
    /\ extendedTask \in {task, task + 1}
    /\ \A i \in Items : Released(i) => i <= task /\ heard[i] = SongSize
    /\ InCycle => extendedTask = task /\ ~Released(task)
    /\ ~InCycle /\ task # 0 => Released(task)
    /\ pc["dl"] \in {"next", "woken"} \/ (pc["dl"] = "top" /\ await["dl"] = NoEvent) =>
          extendedTask = task /\ ~InCycle

PlayInv == TypeInv /\ Calm /\ Transferring /\ Sizes /\ Feeding /\ Turns

\* A step that keeps the invariant, and is one of Player or none.
Plays == PlayInv' /\ [P!PlayerNext]_(P!playerVars)

Keeps == TypeInv' /\ (Undisturbed /\ PlayInv => Plays)

-----------------------------------------------------------------------------
(* The scheduling operators.                                               *)
\* The events are events, and NoEvent is none.
LEMMA EventsAre ==
    /\ {NewDownload, ReadFinshed, FeedDecoder, TaskUpdate} \subseteq Events
    /\ \A i \in Items : {CurlFinished(i), DownloadFinished(i), ReadFinished(i)} \subseteq Events
    /\ NoEvent \notin Events
  BY DEF Events, NewDownload, ReadFinshed, FeedDecoder, TaskUpdate, CurlFinished,
         DownloadFinished, ReadFinished, NoEvent

\* No two events are the same.
LEMMA EventsDiffer ==
    /\ NewDownload # ReadFinshed /\ NewDownload # FeedDecoder /\ NewDownload # TaskUpdate
    /\ ReadFinshed # FeedDecoder /\ ReadFinshed # TaskUpdate /\ FeedDecoder # TaskUpdate
    /\ \A i : /\ CurlFinished(i) # NewDownload /\ CurlFinished(i) # ReadFinshed
              /\ CurlFinished(i) # FeedDecoder /\ CurlFinished(i) # TaskUpdate
              /\ DownloadFinished(i) # NewDownload /\ DownloadFinished(i) # ReadFinshed
              /\ DownloadFinished(i) # FeedDecoder /\ DownloadFinished(i) # TaskUpdate
              /\ ReadFinished(i) # NewDownload /\ ReadFinished(i) # ReadFinshed
              /\ ReadFinished(i) # FeedDecoder /\ ReadFinished(i) # TaskUpdate
    /\ \A i, j : /\ CurlFinished(i) # DownloadFinished(j) /\ CurlFinished(i) # ReadFinished(j)
                 /\ DownloadFinished(i) # ReadFinished(j)
                 /\ CurlFinished(i) = CurlFinished(j) => i = j
                 /\ DownloadFinished(i) = DownloadFinished(j) => i = j
                 /\ ReadFinished(i) = ReadFinished(j) => i = j
  BY DEF NewDownload, ReadFinshed, FeedDecoder, TaskUpdate, CurlFinished, DownloadFinished,
         ReadFinished

LEMMA NoEventDiffers ==
    /\ NoEvent \notin {NewDownload, ReadFinshed, FeedDecoder, TaskUpdate}
    /\ \A i : /\ NoEvent # CurlFinished(i) /\ NoEvent # DownloadFinished(i)
              /\ NoEvent # ReadFinished(i)
  BY DEF NewDownload, ReadFinshed, FeedDecoder, TaskUpdate, CurlFinished, DownloadFinished,
         ReadFinished, NoEvent

\* p is at a new label, the others stay where they are.
Moves(p, label) ==
    /\ ControlOK'
    /\ pc'[p] = label /\ \A q \in Processes : q # p => pc'[q] = pc[q]

Stepped(p, label) == Moves(p, label) /\ await' = await /\ ev' = ev

Signalled(p, e, label) ==
    /\ Moves(p, label) /\ ev' = ev \cup {e}
    /\ \A c \in Coroutines : await'[c] = IF await[c] = e THEN NoEvent ELSE await[c]

Suspended(p, e, label) ==
    /\ Moves(p, label) /\ ev' = ev
    /\ await'[p] = IF e \in ev THEN await[p] ELSE e
    /\ \A c \in Coroutines : c # p => await'[c] = await[c]

\* addTask and co_await on the event of the new transfer.
Registered(label) ==
    /\ Moves("dl", label) /\ ev' = ev \ {CurlFinished(extendedTask)}
    /\ await'["dl"] = CurlFinished(extendedTask)
    /\ await'["ctl"] = await["ctl"] /\ await'["dec"] = await["dec"]

Cleared(p, e, label) == Moves(p, label) /\ ev' = ev \ {e} /\ await' = await

\* What the operators of StreamPipeline do, one lemma for each.
LEMMA GotoMoves ==
    ASSUME ControlOK, NEW p \in Processes, NEW label \in Labels[p], Goto(p, label)
    PROVE  /\ pc' \in [Processes -> UNION {Labels[q] : q \in Processes}]
           /\ \A q \in Processes : pc'[q] \in Labels[q]
           /\ pc'[p] = label /\ \A q \in Processes : q # p => pc'[q] = pc[q]
<1>1. label \in UNION {Labels[q] : q \in Processes}
  OBVIOUS
<1>2. /\ pc' = [pc EXCEPT ![p] = label]
      /\ pc \in [Processes -> UNION {Labels[q] : q \in Processes}]
  BY DEF ControlOK, Goto
<1>3. \A q \in Processes : pc'[q] = IF q = p THEN label ELSE pc[q]
  BY <1>2
<1> QED  BY <1>1, <1>2, <1>3 DEF ControlOK

LEMMA StepMoves ==
    ASSUME ControlOK, NEW p \in Processes, NEW label \in Labels[p], Step(p, label)
    PROVE  Stepped(p, label)
  BY GotoMoves DEF Step, Moves, Stepped, ControlOK

LEMMA LeaveMoves ==
    ASSUME ControlOK, NEW p \in Coroutines, NEW label \in Labels[p], Leave(p, label)
    PROVE  Stepped(p, label)
<1>1. p \in Processes
  BY DEF Processes
<1>2. host' \in [Coroutines -> Processes \cup {"pool"}]
  BY DEF Leave, ControlOK
<1> QED  BY <1>1, <1>2, GotoMoves DEF Leave, Moves, Stepped, ControlOK

LEMMA SetMoves ==
    ASSUME ControlOK, NEW p \in Processes, NEW e \in Events, NEW label \in Labels[p],
           Set(p, e, label)
    PROVE  Signalled(p, e, label)
<1>1. /\ \A c \in Coroutines : await'[c] = IF await[c] = e THEN NoEvent ELSE await[c]
      /\ await' \in [Coroutines -> Events \cup {NoEvent}]
  BY DEF Set, ControlOK
<1>2. host' \in [Coroutines -> Processes \cup {"pool"}]
  BY DEF Set, ControlOK
<1> QED  BY <1>1, <1>2, GotoMoves DEF Set, Moves, Signalled, ControlOK

LEMMA AwaitMoves ==
    ASSUME ControlOK, NEW p \in Coroutines, NEW e \in Events, NEW label \in Labels[p],
           Await(p, e, label)
    PROVE  Suspended(p, e, label)
<1>1. p \in Processes
  BY DEF Processes
<1>2. CASE e \in ev
  BY <1>1, <1>2, StepMoves DEF Await, Stepped, Suspended
<1>3. CASE e \notin ev
  <2>1. /\ Goto(p, label) /\ await' = [await EXCEPT ![p] = e]
        /\ host' = [host EXCEPT ![p] = "pool"] /\ ev' = ev
    BY <1>3 DEF Await
  <2>2. /\ await' \in [Coroutines -> Events \cup {NoEvent}]
        /\ host' \in [Coroutines -> Processes \cup {"pool"}]
        /\ \A c \in Coroutines : await'[c] = IF c = p THEN e ELSE await[c]
    BY <2>1 DEF ControlOK
  <2> QED  BY <1>1, <1>3, <2>1, <2>2, GotoMoves DEF Moves, Suspended, ControlOK
<1> QED  BY <1>2, <1>3

LEMMA ResetMoves ==
    ASSUME ControlOK, NEW p \in Processes, NEW e, NEW label \in Labels[p], Reset(p, e, label)
    PROVE  Cleared(p, e, label)
  BY GotoMoves DEF Reset, Moves, Cleared, ControlOK

LEMMA RegisterMoves ==
    ASSUME ControlOK, extendedTask \in Items, NEW kind, NEW label \in Labels["dl"],
           Register(kind, label)
    PROVE  Registered(label)
<1>1. /\ Goto("dl", label) /\ await' = [await EXCEPT !["dl"] = CurlFinished(extendedTask)]
      /\ host' = [host EXCEPT !["dl"] = "pool"] /\ ev' = ev \ {CurlFinished(extendedTask)}
  BY DEF Register
<1>2. /\ await' \in [Coroutines -> Events \cup {NoEvent}]
      /\ host' \in [Coroutines -> Processes \cup {"pool"}]
      /\ \A c \in Coroutines :
            await'[c] = IF c = "dl" THEN CurlFinished(extendedTask) ELSE await[c]
  BY <1>1, EventsAre DEF ControlOK, Coroutines
<1> QED  BY <1>1, <1>2, GotoMoves DEF Registered, Moves, ControlOK, Processes, Coroutines

-----------------------------------------------------------------------------
(* What the steps that change no data, and wait for nothing new, preserve. *)
LEMMA QuietTypes ==
    ASSUME TypeInv, UNCHANGED <<items, taskVars, decoderVars, downloadVars, requestVars>>,
           NEW p \in Processes, NEW label, Runs(p), Moves(p, label), InHand', Counted',
           \A c \in Coroutines : await'[c] \in {await[c], NoEvent}
    PROVE  TypeInv'
<1>1. DataOK' /\ Positions'
  BY DEF TypeInv, DataOK, Positions, taskVars, decoderVars, downloadVars, requestVars
<1>2. Awaits'
  BY DEF TypeInv, Awaits, Moves, Runs, Processes, Coroutines, CurlFinished, DownloadFinished,
         ReadFinished, taskVars
<1> QED  BY <1>1, <1>2 DEF TypeInv, Moves

\* An item keeps its type when a field gets a value of the field's type.
LEMMA PutKeeps ==
    ASSUME DataOK, NEW i \in Items, NEW field, NEW value, Put(i, field, value),
           \/ field \in {"should_skip", "read_error", "url"} /\ value \in BOOLEAN
           \/ /\ field = "state"
              /\ value \in {"Downloading", "DownloadAndWriteFinished", "DrainFinished"}
           \/ field = "data" /\ value \in {"buffer", "queue"}
    PROVE  /\ items' \in [Items -> ItemType]
           /\ \A j \in Items : j # i => items'[j] = items[j]
           /\ items'[i] = [items[i] EXCEPT ![field] = value]
  BY DEF Put, DataOK, ItemType

-----------------------------------------------------------------------------
(* What several processes do.                                              *)
LEMMA DoSkipKeeps ==
    ASSUME TypeInv, NEW p \in {"dl", "dec", "api"}, DoSkip(p)
    PROVE  Keeps
<1>1. /\ p \in Processes /\ pc[p] \in SkipLabels /\ Runs(p)
      /\ p = "dl" => back[p] \in {"top", "schedule"}
      /\ p = "dec" => back[p] = "oddReset"
      /\ p = "api" => back[p] = "idle"
      /\ {"doSkip.finish", "doSkip.feed", back[p]} \subseteq Labels[p]
  <2>1. pc[p] \in SkipLabels /\ Runs(p)
    BY DEF DoSkip, DoSkipState, DoSkipFinish, DoSkipFeed, At, SkipLabels
  <2> QED  BY <2>1 DEF TypeInv, InHand, Processes, Coroutines, Labels
<1>2. ~PlayInv
  BY <1>1 DEF PlayInv, Calm, SkipLabels
<1>3. ASSUME NEW l \in {"doSkip.finish", "doSkip.feed", back[p]}, Moves(p, l),
             UNCHANGED <<extendedTask, task, curl, errors, isStopped, back>>
      PROVE  InHand' /\ Counted'
  <2> USE <1>1, <1>3 DEF Moves, TypeInv, Processes, Coroutines, SkipLabels, StopLabels
  <2>1. InHand'  BY DEF InHand
  <2>2. Counted'  BY DEF Counted
  <2> QED  BY <2>1, <2>2
<1>4. CASE DoSkipState(p)
  <2>1. PICK l \in {"doSkip.finish", back[p]} : Stepped(p, l)
    BY <1>1, <1>4, StepMoves DEF DoSkipState, TypeInv
  <2>2. items' \in [Items -> ItemType]
    <3>1. CASE task = 0
      BY <1>4, <3>1 DEF DoSkipState, TypeInv, DataOK
    <3>2. CASE task # 0
      BY <1>4, <3>2, PutKeeps DEF DoSkipState, TypeInv, DataOK
    <3> QED  BY <3>1, <3>2
  <2>3. /\ UNCHANGED <<taskVars, decoderVars, downloadVars, back, skips>>
        /\ skipped' \subseteq Items
    BY <1>4 DEF DoSkipState, Hit, TypeInv, DataOK
  <2>4. DataOK' /\ Positions'
    BY <2>2, <2>3 DEF TypeInv, DataOK, Positions, taskVars, decoderVars, downloadVars
  <2>5. InHand' /\ Counted'
    BY <1>3, <2>1, <2>3 DEF Stepped, taskVars, downloadVars
  <2>6. Awaits'
    BY <1>1, <2>1, <2>3 DEF TypeInv, Awaits, Stepped, Moves, Runs, Processes, Coroutines, taskVars
  <2> QED  BY <2>1, <2>4, <2>5, <2>6, <1>2 DEF Keeps, TypeInv, Stepped, Moves
<1>5. CASE DoSkipFinish(p)
  <2>1. Signalled(p, ReadFinshed, "doSkip.feed")
    BY <1>1, <1>5, SetMoves, EventsAre DEF DoSkipFinish, TypeInv
  <2>2. InHand' /\ Counted'
    BY <1>3, <1>5, <2>1 DEF DoSkipFinish, Signalled, taskVars, downloadVars, requestVars
  <2> QED  BY <1>1, <1>2, <1>5, <2>1, <2>2, QuietTypes DEF Keeps, DoSkipFinish, Signalled
<1>6. CASE DoSkipFeed(p)
  <2>1. Cleared(p, FeedDecoder, back[p])
    BY <1>1, <1>6, ResetMoves DEF DoSkipFeed, TypeInv
  <2>2. InHand' /\ Counted'
    BY <1>3, <1>6, <2>1 DEF DoSkipFeed, Cleared, taskVars, downloadVars, requestVars
  <2> QED  BY <1>1, <1>2, <1>6, <2>1, <2>2, QuietTypes DEF Keeps, DoSkipFeed, Cleared
<1> QED  BY <1>4, <1>5, <1>6 DEF DoSkip

\* A completion callback, run by the worker or by a request that cancels.
LEMMA CallbackTypes ==
    ASSUME TypeInv, NEW p \in {"curl", "api"}, NEW kind \in {"url", "data"}, Runs(p),
           pc[p] = IF kind = "url" THEN "urlCallback" ELSE "dataCallback",
           Callback(p, kind, "set"), UNCHANGED <<taskVars, decoderVars, downloadVars, requestVars>>
    PROVE  /\ TypeInv' /\ Stepped(p, "set")
           /\ items' \in [Items -> ItemType] /\ extendedTask \in Items
<1>1. Stepped(p, "set") /\ p \in Processes /\ p \notin Coroutines
  BY StepMoves DEF Callback, Labels, Processes, Coroutines, TypeInv
<1>2. extendedTask \in Items
  BY DEF TypeInv, InHand, DataOK
<1>3. items' \in [Items -> ItemType]
  BY <1>2, PutKeeps DEF Callback, TypeInv, DataOK
<1>4. DataOK' /\ Positions'
  BY <1>3 DEF TypeInv, DataOK, Positions, taskVars, decoderVars, downloadVars, requestVars
<1>5. Awaits'
  BY <1>1 DEF TypeInv, Awaits, Stepped, Moves, Processes, Coroutines, taskVars
<1>6. InHand' /\ Counted'
  BY <1>1, <1>2 DEF TypeInv, InHand, Counted, Stepped, Moves, Processes, Coroutines, taskVars,
     downloadVars, requestVars, Items, SkipLabels, StopLabels
<1> QED  BY <1>1, <1>2, <1>3, <1>4, <1>5, <1>6 DEF TypeInv, Stepped, Moves

-----------------------------------------------------------------------------
(* dl: startQueueJob.                                                      *)
LEMMA DlTopKeeps ==
    ASSUME TypeInv, DlTop
    PROVE  Keeps
<1>1. CASE isStopped
  <2>1. Stepped("dl", "done")
    BY <1>1, LeaveMoves DEF DlTop, Labels, Processes, Coroutines, TypeInv
  <2>2. UNCHANGED <<items, taskVars, decoderVars, downloadVars, requestVars>>
    BY <1>1 DEF DlTop, taskVars, downloadVars
  <2>3. InHand' /\ Counted'
    BY <1>1, <2>1, <2>2 DEF Stepped, Moves, InHand, Counted, SkipLabels, StopLabels, TypeInv,
       Processes, Coroutines, taskVars, downloadVars, requestVars
  <2>4. TypeInv'
    BY <2>1, <2>2, <2>3, QuietTypes DEF DlTop, At, Stepped, Processes, Coroutines
  <2> QED  BY <1>1, <2>4 DEF Keeps, PlayInv, Calm
<1>2. CASE ~isStopped
  <2>1. errors' = ErrorsNow /\ errors' \in 0 .. MaxErrors + 2
    BY <1>2, PipelineAssumption DEF DlTop, ErrorsNow, TypeInv, DataOK, Counted
  <2>2. CASE errors' > MaxErrors
    <3>1. Stepped("dl", "stop") /\ isStopped' = TRUE
      BY <1>2, <2>2, StepMoves DEF DlTop, Labels, Processes, Coroutines, TypeInv
    <3> USE <2>1, <2>2, <3>1, PipelineAssumption DEF DlTop, Stepped, Moves, TypeInv, At, Runs,
        Processes, Coroutines, decoderVars, requestVars
    <3>2. DataOK'  BY DEF DataOK
    <3>3. Awaits'  BY DEF Awaits
    <3>4. InHand'  BY DEF InHand, SkipLabels, StopLabels
    <3>5. Positions' /\ Counted'  BY DEF Positions, Counted, SkipLabels, StopLabels
    <3>6. ~PlayInv  BY DEF PlayInv, Calm, ErrorsNow, DataOK
    <3> QED  BY <3>2, <3>3, <3>4, <3>5, <3>6 DEF Keeps
  <2>3. CASE ~(errors' > MaxErrors)
    <3>1. Stepped("dl", "next") /\ isStopped' = FALSE
      BY <1>2, <2>3, LeaveMoves DEF DlTop, Labels, Processes, Coroutines, TypeInv, DataOK
    <3> USE <1>2, <2>1, <2>3, <3>1, PipelineAssumption DEF DlTop, Stepped, Moves, TypeInv, At,
        Runs, Processes, Coroutines, decoderVars, requestVars
    <3>2. DataOK'  BY DEF DataOK
    <3>3. Awaits'  BY DEF Awaits
    <3>4. InHand'  BY DEF InHand, SkipLabels, StopLabels
    <3>5. Positions' /\ Counted'  BY DEF Positions, Counted, SkipLabels, StopLabels
    <3>6. ASSUME Undisturbed, PlayInv PROVE Plays
      <4> USE <3>6 DEF PlayInv
      <4>1. Calm'  BY DEF Calm, SkipLabels, StopLabels, ErrorsNow, DataOK
      <4>2. Transferring'  BY DEF Transferring
      <4>3. Sizes'  BY DEF Sizes
      <4>4. Feeding'  BY DEF Feeding, Fed, InCycle
      <4>5. Turns'  BY DEF Turns, InCycle, Released
      <4>6. UNCHANGED P!playerVars  BY DEF P!playerVars, InCycle
      <4> QED  BY <3>2, <3>3, <3>4, <3>5, <4>1, <4>2, <4>3, <4>4, <4>5, <4>6 DEF Plays
    <3> QED  BY <3>2, <3>3, <3>4, <3>5, <3>6 DEF Keeps
  <2> QED  BY <2>2, <2>3
<1> QED  BY <1>1, <1>2

LEMMA DlNextKeeps ==
    ASSUME TypeInv, DlNext
    PROVE  Keeps
<1>1. CASE extendedTask = Len(Songs)
  <2>1. Suspended("dl", TaskUpdate, "woken")
    BY <1>1, AwaitMoves, EventsAre, PipelineAssumption DEF DlNext, Labels, Processes, Coroutines,
       TypeInv
  <2> USE <1>1, <2>1, PipelineAssumption DEF DlNext, Suspended, Moves, TypeInv, At, Runs,
      Processes, Coroutines, taskVars, decoderVars, downloadVars, requestVars, Items
  <2>2. DataOK'  BY DEF DataOK
  <2>3. Awaits'  BY DEF Awaits
  <2>4. InHand'  BY DEF InHand, SkipLabels, StopLabels
  <2>5. Positions' /\ Counted'  BY DEF Positions, Counted, SkipLabels, StopLabels
  <2>6. TypeInv'  BY <2>2, <2>3, <2>4, <2>5
  <2>7. ASSUME Undisturbed, PlayInv PROVE Plays
    <3> USE <2>6, <2>7 DEF PlayInv
    <3>1. Calm'  BY DEF Calm, SkipLabels, StopLabels
    <3>2. Transferring'  BY DEF Transferring
    <3>3. Sizes'  BY DEF Sizes
    <3>4. Feeding'  BY DEF Feeding, Fed, InCycle
    <3>5. Turns'  BY DEF Turns, InCycle, Released
    <3>6. UNCHANGED P!playerVars  BY DEF P!playerVars, InCycle
    <3> QED  BY <3>1, <3>2, <3>3, <3>4, <3>5, <3>6 DEF Plays, PlayInv
  <2> QED  BY <2>6, <2>7 DEF Keeps
<1>2. CASE extendedTask # Len(Songs)
  <2>1. Stepped("dl", IF Songs[extendedTask'].cached THEN "getRealUrl" ELSE "setData")
    BY <1>2, StepMoves, PipelineAssumption DEF DlNext, Labels, Processes, Coroutines, TypeInv
  <2> USE <1>2, <2>1, PipelineAssumption DEF DlNext, Stepped, Moves, TypeInv, At, Runs, Processes,
      Coroutines, taskVars, decoderVars, downloadVars, requestVars, Items
  <2>2. DataOK'  BY DEF DataOK
  <2>3. Awaits'  BY DEF Awaits
  <2>4. InHand'  BY DEF InHand, DataOK, SkipLabels, StopLabels
  <2>5. Positions' /\ Counted'  BY DEF Positions, Counted, SkipLabels, StopLabels, DataOK, InHand
  <2>6. TypeInv'  BY <2>2, <2>3, <2>4, <2>5
  <2>7. ASSUME Undisturbed, PlayInv PROVE Plays
    <3> USE <2>6, <2>7 DEF PlayInv
    <3>1. Calm'  BY DEF Calm, SkipLabels, StopLabels
    <3>2. Transferring'  BY DEF Transferring
    <3>3. Sizes'  BY DEF Sizes, Transferring
    <3>4. Feeding'  BY DEF Feeding, Fed, InCycle
    <3>5. Turns'  BY DEF Turns, InCycle, Released
    <3>6. UNCHANGED P!playerVars  BY DEF P!playerVars, InCycle
    <3> QED  BY <3>1, <3>2, <3>3, <3>4, <3>5, <3>6 DEF Plays, PlayInv
  <2> QED  BY <2>6, <2>7 DEF Keeps
<1> QED  BY <1>1, <1>2

LEMMA DlNoHandleKeeps ==
    ASSUME TypeInv, DlNoHandle
    PROVE  Keeps
<1>1. Stepped("dl", "doSkip")
  BY StepMoves DEF DlNoHandle, Labels, Processes, Coroutines, TypeInv
<1> USE <1>1 DEF DlNoHandle, Stepped, Moves, TypeInv, At, Runs, Processes, Coroutines, taskVars,
    decoderVars, downloadVars, requestVars
<1>2. DataOK'  BY DEF DataOK
<1>3. Awaits'  BY DEF Awaits
<1>4. InHand'  BY DEF InHand, DataOK, SkipLabels, StopLabels
<1>5. Positions' /\ Counted'  BY DEF Positions, Counted, DataOK, SkipLabels, StopLabels
<1> QED  BY <1>2, <1>3, <1>4, <1>5 DEF Keeps, Undisturbed

LEMMA DlWokenKeeps ==
    ASSUME TypeInv, DlWoken
    PROVE  Keeps
<1>1. Cleared("dl", TaskUpdate, "top")
  BY ResetMoves DEF DlWoken, Labels, Processes, Coroutines, TypeInv
<1>2. InHand' /\ Counted'
  BY <1>1 DEF DlWoken, Cleared, Moves, InHand, Counted, SkipLabels,
     StopLabels, TypeInv, At, Processes, Coroutines, taskVars,
     downloadVars, requestVars
<1>3. TypeInv'  BY <1>1, <1>2, QuietTypes DEF DlWoken, At, Cleared, Processes, Coroutines
<1>4. ASSUME Undisturbed, PlayInv PROVE Plays
  <2> USE <1>1, <1>3, <1>4 DEF PlayInv, DlWoken, Cleared, Moves, TypeInv, At, Runs, Processes,
      Coroutines, taskVars, decoderVars, downloadVars, requestVars
  <2>1. Calm'  BY DEF Calm, SkipLabels, StopLabels
  <2>2. Transferring'  BY DEF Transferring
  <2>3. Sizes'  BY DEF Sizes
  <2>4. Feeding'  BY DEF Feeding, Fed, InCycle
  <2>5. Turns'  BY EventsDiffer DEF Turns, InCycle, Released
  <2>6. UNCHANGED P!playerVars  BY DEF P!playerVars, InCycle
  <2> QED  BY <2>1, <2>2, <2>3, <2>4, <2>5, <2>6 DEF Plays, PlayInv
<1> QED  BY <1>3, <1>4 DEF Keeps

LEMMA DlGetRealUrlKeeps ==
    ASSUME TypeInv, DlGetRealUrl
    PROVE  Keeps
<1>1. Registered("urlFinished")
  BY RegisterMoves DEF DlGetRealUrl, Labels, Processes, Coroutines, TypeInv, InHand, DataOK,
     At, SkipLabels, StopLabels
<1> USE <1>1 DEF DlGetRealUrl, Registered, Moves, TypeInv, At, Runs, Processes, Coroutines,
    taskVars, decoderVars, downloadVars, requestVars, Register
<1>2. DataOK'  BY DEF DataOK
<1>3. Awaits'  BY DEF Awaits
<1>4. InHand'  BY DEF InHand, SkipLabels, StopLabels
<1>5. Positions' /\ Counted'  BY DEF Positions, Counted, SkipLabels, StopLabels
<1>6. TypeInv'  BY <1>2, <1>3, <1>4, <1>5
<1>7. ASSUME Undisturbed, PlayInv PROVE Plays
  <2> USE <1>6, <1>7 DEF PlayInv
  <2>1. Calm'  BY DEF Calm, SkipLabels, StopLabels
  <2>2. Transferring'  BY EventsDiffer, NoEventDiffers DEF Transferring
  <2>3. Sizes'  BY DEF Sizes
  <2>4. Feeding'  BY DEF Feeding, Fed, InCycle
  <2>5. Turns'  BY EventsDiffer DEF Turns, InCycle, Released
  <2>6. UNCHANGED P!playerVars  BY DEF P!playerVars, InCycle
  <2> QED  BY <2>1, <2>2, <2>3, <2>4, <2>5, <2>6 DEF Plays, PlayInv
<1> QED  BY <1>6, <1>7 DEF Keeps

LEMMA DlUrlFinishedKeeps ==
    ASSUME TypeInv, DlUrlFinished
    PROVE  Keeps
<1>1. Stepped("dl", "urlCheck")
  BY LeaveMoves DEF DlUrlFinished, Labels, Processes, Coroutines, TypeInv
<1>2. InHand' /\ Counted'
  BY <1>1 DEF DlUrlFinished, Stepped, Moves, InHand, Counted, SkipLabels,
     StopLabels, TypeInv, At, Processes, Coroutines, taskVars,
     downloadVars, requestVars
<1>3. TypeInv'  BY <1>1, <1>2, QuietTypes DEF DlUrlFinished, At, Stepped, Processes, Coroutines
<1>4. ASSUME Undisturbed, PlayInv PROVE Plays
  <2> USE <1>1, <1>3, <1>4 DEF PlayInv, DlUrlFinished, Stepped, Moves, TypeInv, At, Runs,
      Processes, Coroutines, taskVars, decoderVars, downloadVars, requestVars
  <2>1. Calm'  BY DEF Calm, SkipLabels, StopLabels
  <2>2. Transferring'  BY DEF Transferring
  <2>3. Sizes'  BY DEF Sizes
  <2>4. Feeding'  BY DEF Feeding, Fed, InCycle
  <2>5. Turns'  BY DEF Turns, InCycle, Released
  <2>6. UNCHANGED P!playerVars  BY DEF P!playerVars, InCycle
  <2> QED  BY <2>1, <2>2, <2>3, <2>4, <2>5, <2>6 DEF Plays, PlayInv
<1> QED  BY <1>3, <1>4 DEF Keeps

LEMMA DlUrlCheckKeeps ==
    ASSUME TypeInv, DlUrlCheck
    PROVE  Keeps
<1>1. CASE items[extendedTask].url
  <2>1. Stepped("dl", "setData")
    BY <1>1, StepMoves DEF DlUrlCheck, Labels, Processes, Coroutines, TypeInv
  <2> USE <1>1, <2>1 DEF DlUrlCheck, Stepped, Moves, TypeInv, At, Runs, Processes, Coroutines,
      taskVars, decoderVars, downloadVars, requestVars
  <2>2. DataOK'  BY DEF DataOK
  <2>3. Awaits'  BY DEF Awaits
  <2>4. InHand'  BY DEF InHand, SkipLabels, StopLabels
  <2>5. Positions' /\ Counted'  BY DEF Positions, Counted, SkipLabels, StopLabels
  <2>6. TypeInv'  BY <2>2, <2>3, <2>4, <2>5
  <2>7. ASSUME Undisturbed, PlayInv PROVE Plays
    <3> USE <2>6, <2>7 DEF PlayInv
    <3>1. Calm'  BY DEF Calm, SkipLabels, StopLabels
    <3>2. Transferring'  BY DEF Transferring
    <3>3. Sizes'  BY DEF Sizes
    <3>4. Feeding'  BY DEF Feeding, Fed, InCycle
    <3>5. Turns'  BY DEF Turns, InCycle, Released
    <3>6. UNCHANGED P!playerVars  BY DEF P!playerVars, InCycle
    <3> QED  BY <3>1, <3>2, <3>3, <3>4, <3>5, <3>6 DEF Plays, PlayInv
  <2> QED  BY <2>6, <2>7 DEF Keeps
<1>2. CASE ~items[extendedTask].url
  <2>1. Stepped("dl", "doSkip")
    BY <1>2, StepMoves DEF DlUrlCheck, Labels, Processes, Coroutines, TypeInv
  <2> USE <1>2, <2>1 DEF DlUrlCheck, Stepped, Moves, TypeInv, At, Runs, Processes, Coroutines,
      taskVars, decoderVars, downloadVars, requestVars
  <2>2. DataOK'
    BY PipelineAssumption DEF DataOK, Counted, SkipLabels, StopLabels
  <2>3. Awaits'  BY DEF Awaits
  <2>4. InHand'  BY DEF InHand, DataOK, SkipLabels, StopLabels
  <2>5. Positions' /\ Counted'
    BY PipelineAssumption DEF Positions, Counted, DataOK, SkipLabels, StopLabels
  <2>6. ~PlayInv  BY DEF PlayInv, Transferring
  <2> QED  BY <2>2, <2>3, <2>4, <2>5, <2>6 DEF Keeps
<1> QED  BY <1>1, <1>2

LEMMA DlSetDataKeeps ==
    ASSUME TypeInv, DlSetData
    PROVE  Keeps
<1>1. Stepped("dl", "announce")
  BY StepMoves DEF DlSetData, Labels, Processes, Coroutines, TypeInv
<1>2. items' \in [Items -> ItemType]
  BY PutKeeps DEF DlSetData, TypeInv, InHand, DataOK, At, SkipLabels, StopLabels
<1> USE <1>1, <1>2 DEF DlSetData, Stepped, Moves, TypeInv, At, Runs, Processes, Coroutines,
    taskVars, decoderVars, downloadVars, requestVars, Put
<1>3. DataOK'  BY DEF DataOK
<1>4. Awaits'  BY DEF Awaits
<1>5. InHand'  BY DEF InHand, SkipLabels, StopLabels
<1>6. Positions' /\ Counted'  BY DEF Positions, Counted, SkipLabels, StopLabels
<1>7. TypeInv'  BY <1>3, <1>4, <1>5, <1>6
<1>8. ASSUME Undisturbed, PlayInv PROVE Plays
  <2> USE <1>7, <1>8 DEF PlayInv
  <2>1. Calm'  BY DEF Calm, SkipLabels, StopLabels, DataOK, ItemType, InHand
  <2>2. Transferring'  BY DEF Transferring
  <2>3. Sizes'  BY DEF Sizes, DataOK, ItemType, InHand
  <2>4. Feeding'  BY DEF Feeding, Fed, InCycle
  <2>5. Turns'  BY DEF Turns, InCycle, Released
  <2>6. UNCHANGED P!playerVars  BY DEF P!playerVars, InCycle
  <2> QED  BY <2>1, <2>2, <2>3, <2>4, <2>5, <2>6 DEF Plays, PlayInv
<1> QED  BY <1>7, <1>8 DEF Keeps

LEMMA DlAnnounceKeeps ==
    ASSUME TypeInv, DlAnnounce
    PROVE  Keeps
<1>1. Signalled("dl", NewDownload, "execute")
  BY SetMoves, EventsAre DEF DlAnnounce, Labels, Processes, Coroutines, TypeInv
<1>2. InHand' /\ Counted'
  BY <1>1 DEF DlAnnounce, Signalled, Moves, InHand, Counted, SkipLabels,
     StopLabels, TypeInv, At, Processes, Coroutines, taskVars,
     downloadVars, requestVars
<1>3. TypeInv'  BY <1>1, <1>2, QuietTypes DEF DlAnnounce, At, Signalled, Processes, Coroutines
<1>4. ASSUME Undisturbed, PlayInv PROVE Plays
  <2> USE <1>1, <1>3, <1>4 DEF PlayInv, DlAnnounce, Signalled, Moves, TypeInv, At, Runs,
      Processes, Coroutines, taskVars, decoderVars, downloadVars, requestVars
  <2>1. Calm'  BY DEF Calm, SkipLabels, StopLabels
  <2>2. Transferring'  BY DEF Transferring
  <2>3. Sizes'  BY EventsDiffer, NoEventDiffers DEF Sizes, Awaits
  <2>4. Feeding'  BY EventsDiffer, NoEventDiffers DEF Feeding, Fed, InCycle, Awaits
  <2>5. Turns'  BY EventsDiffer DEF Turns, InCycle, Released
  <2>6. UNCHANGED P!playerVars  BY DEF P!playerVars, InCycle
  <2> QED  BY <2>1, <2>2, <2>3, <2>4, <2>5, <2>6 DEF Plays, PlayInv
<1> QED  BY <1>3, <1>4 DEF Keeps

LEMMA DlExecuteKeeps ==
    ASSUME TypeInv, DlExecute
    PROVE  Keeps
<1>1. Stepped("dl", "addTask")  BY StepMoves DEF DlExecute, Labels, Processes, Coroutines, TypeInv
<1>2. items' \in [Items -> ItemType]
  BY PutKeeps DEF DlExecute, TypeInv, InHand, DataOK, At, SkipLabels, StopLabels
<1> USE <1>1, <1>2 DEF DlExecute, Stepped, Moves, TypeInv, At, Runs, Processes, Coroutines,
    taskVars, decoderVars, downloadVars, requestVars, Put
<1>3. DataOK'  BY DEF DataOK
<1>4. Awaits'  BY DEF Awaits
<1>5. InHand'  BY DEF InHand, SkipLabels, StopLabels
<1>6. Positions' /\ Counted'  BY DEF Positions, Counted, SkipLabels, StopLabels
<1>7. TypeInv'  BY <1>3, <1>4, <1>5, <1>6
<1>8. ASSUME Undisturbed, PlayInv PROVE Plays
  <2> USE <1>7, <1>8 DEF PlayInv
  <2>1. Calm'  BY DEF Calm, SkipLabels, StopLabels
  <2>2. Transferring'  BY DEF Transferring
  <2>3. Sizes'  BY DEF Sizes
  <2>4. Feeding'  BY DEF Feeding, Fed, InCycle
  <2>5. Turns'  BY DEF Turns, InCycle, Released
  <2>6. UNCHANGED P!playerVars  BY DEF P!playerVars, InCycle
  <2> QED  BY <2>1, <2>2, <2>3, <2>4, <2>5, <2>6 DEF Plays, PlayInv
<1> QED  BY <1>7, <1>8 DEF Keeps

LEMMA DlAddTaskKeeps ==
    ASSUME TypeInv, DlAddTask
    PROVE  Keeps
<1>1. Registered("curlFinished")
  BY RegisterMoves DEF DlAddTask, Labels, Processes, Coroutines, TypeInv, InHand, DataOK,
     At, SkipLabels, StopLabels
<1> USE <1>1 DEF DlAddTask, Registered, Moves, TypeInv, At, Runs, Processes, Coroutines, taskVars,
    decoderVars, downloadVars, requestVars, Register
<1>2. DataOK'  BY DEF DataOK
<1>3. Awaits'  BY DEF Awaits
<1>4. InHand'  BY DEF InHand, SkipLabels, StopLabels
<1>5. Positions' /\ Counted'  BY DEF Positions, Counted, SkipLabels, StopLabels
<1>6. TypeInv'  BY <1>2, <1>3, <1>4, <1>5
<1>7. ASSUME Undisturbed, PlayInv PROVE Plays
  <2> USE <1>6, <1>7 DEF PlayInv
  <2>1. Calm'  BY DEF Calm, SkipLabels, StopLabels
  <2>2. Transferring'  BY EventsDiffer, NoEventDiffers DEF Transferring
  <2>3. Sizes'  BY EventsDiffer, NoEventDiffers DEF Sizes, Transferring
  <2>4. Feeding'  BY DEF Feeding, Fed, InCycle
  <2>5. Turns'  BY EventsDiffer DEF Turns, InCycle, Released
  <2>6. UNCHANGED P!playerVars  BY DEF P!playerVars, InCycle
  <2> QED  BY <2>1, <2>2, <2>3, <2>4, <2>5, <2>6 DEF Plays, PlayInv
<1> QED  BY <1>6, <1>7 DEF Keeps

LEMMA DlCurlFinishedKeeps ==
    ASSUME TypeInv, DlCurlFinished
    PROVE  Keeps
<1>1. CASE items[extendedTask].should_skip
  <2>1. Stepped("dl", "doSkip")
    BY <1>1, StepMoves DEF DlCurlFinished, Labels, Processes, Coroutines, TypeInv
  <2> USE <1>1, <2>1 DEF DlCurlFinished, Stepped, Moves, TypeInv, At, Runs, Processes, Coroutines,
      taskVars, decoderVars, downloadVars, requestVars
  <2>2. DataOK'  BY DEF DataOK
  <2>3. Awaits'  BY DEF Awaits
  <2>4. InHand'  BY DEF InHand, DataOK, SkipLabels, StopLabels
  <2>5. Positions' /\ Counted'  BY DEF Positions, Counted, SkipLabels, StopLabels
  <2>6. TypeInv'  BY <2>2, <2>3, <2>4, <2>5
  <2>7. ASSUME Undisturbed, PlayInv PROVE Plays
    <3> USE <2>6, <2>7 DEF PlayInv
    <3>1. Calm'  BY DEF Calm, SkipLabels, StopLabels, DataOK, InHand
    <3>2. Transferring'  BY DEF Transferring
    <3>3. Sizes'  BY DEF Sizes
    <3>4. Feeding'  BY DEF Feeding, Fed, InCycle
    <3>5. Turns'  BY DEF Turns, InCycle, Released
    <3>6. UNCHANGED P!playerVars  BY DEF P!playerVars, InCycle
    <3> QED  BY <3>1, <3>2, <3>3, <3>4, <3>5, <3>6 DEF Plays, PlayInv
  <2> QED  BY <2>6, <2>7 DEF Keeps
<1>2. CASE ~items[extendedTask].should_skip
  <2>1. Stepped("dl", "downloaded")
    BY <1>2, LeaveMoves DEF DlCurlFinished, Labels, Processes, Coroutines, TypeInv
  <2> USE <1>2, <2>1 DEF DlCurlFinished, Stepped, Moves, TypeInv, At, Runs, Processes, Coroutines,
      taskVars, decoderVars, downloadVars, requestVars
  <2>2. DataOK'  BY DEF DataOK
  <2>3. Awaits'  BY DEF Awaits
  <2>4. InHand'  BY DEF InHand, SkipLabels, StopLabels
  <2>5. Positions' /\ Counted'  BY DEF Positions, Counted, SkipLabels, StopLabels
  <2>6. TypeInv'  BY <2>2, <2>3, <2>4, <2>5
  <2>7. ASSUME Undisturbed, PlayInv PROVE Plays
    <3> USE <2>6, <2>7 DEF PlayInv
    <3>1. Calm'  BY DEF Calm, SkipLabels, StopLabels
    <3>2. Transferring'  BY DEF Transferring
    <3>3. Sizes'  BY DEF Sizes
    <3>4. Feeding'  BY DEF Feeding, Fed, InCycle
    <3>5. Turns'  BY DEF Turns, InCycle, Released
    <3>6. UNCHANGED P!playerVars  BY DEF P!playerVars, InCycle
    <3> QED  BY <3>1, <3>2, <3>3, <3>4, <3>5, <3>6 DEF Plays, PlayInv
  <2> QED  BY <2>6, <2>7 DEF Keeps
<1> QED  BY <1>1, <1>2

LEMMA DlScheduleKeeps ==
    ASSUME TypeInv, DlSchedule
    PROVE  Keeps
<1>1. Stepped("dl", "downloaded")
  BY LeaveMoves DEF DlSchedule, Labels, Processes, Coroutines, TypeInv
<1>2. InHand' /\ Counted'
  BY <1>1 DEF DlSchedule, Stepped, Moves, InHand, Counted, SkipLabels,
     StopLabels, TypeInv, At, Processes, Coroutines, taskVars,
     downloadVars, requestVars
<1>3. TypeInv'  BY <1>1, <1>2, QuietTypes DEF DlSchedule, At, Stepped, Processes, Coroutines
<1>4. ASSUME Undisturbed, PlayInv PROVE Plays
  <2> USE <1>1, <1>3, <1>4 DEF PlayInv, DlSchedule, Stepped, Moves, TypeInv, At, Runs, Processes,
      Coroutines, taskVars, decoderVars, downloadVars, requestVars
  <2>1. Calm'  BY DEF Calm, SkipLabels, StopLabels
  <2>2. Transferring'  BY DEF Transferring
  <2>3. Sizes'  BY DEF Sizes, Calm
  <2>4. Feeding'  BY DEF Feeding, Fed, InCycle
  <2>5. Turns'  BY DEF Turns, InCycle, Released
  <2>6. UNCHANGED P!playerVars  BY DEF P!playerVars, InCycle
  <2> QED  BY <2>1, <2>2, <2>3, <2>4, <2>5, <2>6 DEF Plays, PlayInv
<1> QED  BY <1>3, <1>4 DEF Keeps

LEMMA DlDownloadedKeeps ==
    ASSUME TypeInv, DlDownloaded
    PROVE  Keeps
<1>1. Signalled("dl", DownloadFinished(extendedTask), "awaitRead")
  BY SetMoves, EventsAre DEF DlDownloaded, Labels, Processes, Coroutines, TypeInv, InHand, DataOK,
     At, SkipLabels, StopLabels
<1>2. InHand' /\ Counted'
  BY <1>1 DEF DlDownloaded, Signalled, Moves, InHand, Counted, SkipLabels,
     StopLabels, TypeInv, At, Processes, Coroutines,
     taskVars, downloadVars, requestVars
<1>3. TypeInv'  BY <1>1, <1>2, QuietTypes DEF DlDownloaded, At, Signalled, Processes, Coroutines
<1>4. ASSUME Undisturbed, PlayInv PROVE Plays
  <2> USE <1>1, <1>3, <1>4 DEF PlayInv, DlDownloaded, Signalled, Moves, TypeInv, At, Runs,
      Processes, Coroutines, taskVars, decoderVars, downloadVars, requestVars
  <2>1. Calm'  BY DEF Calm, SkipLabels, StopLabels
  <2>2. Transferring'  BY DEF Transferring
  <2>3. Sizes'  BY EventsDiffer, NoEventDiffers DEF Sizes, Awaits
  <2>4. Feeding'  BY EventsDiffer, NoEventDiffers DEF Feeding, Fed, InCycle, Awaits
  <2>5. Turns'  BY EventsDiffer DEF Turns, InCycle, Released
  <2>6. UNCHANGED P!playerVars  BY DEF P!playerVars, InCycle
  <2> QED  BY <2>1, <2>2, <2>3, <2>4, <2>5, <2>6 DEF Plays, PlayInv
<1> QED  BY <1>3, <1>4 DEF Keeps

LEMMA DlAwaitReadKeeps ==
    ASSUME TypeInv, DlAwaitRead
    PROVE  Keeps
<1>1. Suspended("dl", ReadFinished(extendedTask), "top") /\ extendedTask \in Items
  BY AwaitMoves, EventsAre DEF DlAwaitRead, Labels, Processes, Coroutines, TypeInv, InHand,
     DataOK, At, SkipLabels, StopLabels
<1> USE <1>1 DEF DlAwaitRead, Suspended, Moves, TypeInv, At, Runs, Processes, Coroutines,
    taskVars, decoderVars, downloadVars, requestVars
<1>2. DataOK'  BY PipelineAssumption DEF DataOK, Counted, SkipLabels, StopLabels
<1>3. Awaits'  BY DEF Awaits
<1>4. InHand'  BY DEF InHand, SkipLabels, StopLabels
<1>5. Positions' /\ Counted'
  BY PipelineAssumption DEF Positions, Counted, DataOK, SkipLabels, StopLabels
<1>6. TypeInv'  BY <1>2, <1>3, <1>4, <1>5
<1>7. ASSUME Undisturbed, PlayInv PROVE Plays
  <2> USE <1>7 DEF PlayInv
  <2>1. Calm'  BY DEF Calm, SkipLabels, StopLabels
  <2>2. Transferring'  BY DEF Transferring
  <2>3. Sizes'  BY DEF Sizes
  <2>4. Feeding'  BY DEF Feeding, Fed, InCycle
  <2>5. Turns'
    <3>1. ReadFinished(extendedTask) \in ev => extendedTask = task /\ ~InCycle
      BY DEF Turns, Released, Positions, DataOK, Items
    <3>2. await'["dl"] = NoEvent => ReadFinished(extendedTask) \in ev  BY NoEventDiffers
    <3> QED  BY <3>1, <3>2 DEF Turns, InCycle, Released
  <2>6. UNCHANGED P!playerVars  BY DEF P!playerVars, InCycle
  <2> QED  BY <1>6, <2>1, <2>2, <2>3, <2>4, <2>5, <2>6 DEF Plays
<1> QED  BY <1>6, <1>7 DEF Keeps

-----------------------------------------------------------------------------
(* ctl: start_producer.                                                    *)
LEMMA CtlTopKeeps ==
    ASSUME TypeInv, CtlTop
    PROVE  Keeps
<1>1. CASE isStopped
  <2>1. Stepped("ctl", "done")
    BY <1>1, LeaveMoves DEF CtlTop, Labels, Processes, Coroutines, TypeInv
  <2> USE <1>1, <2>1 DEF CtlTop, Stepped, Moves, TypeInv, At, Runs, Processes, Coroutines,
      taskVars, decoderVars, downloadVars, requestVars
  <2>2. DataOK'  BY DEF DataOK
  <2>3. Awaits'  BY DEF Awaits
  <2>4. InHand'  BY DEF InHand, SkipLabels, StopLabels
  <2>5. Positions' /\ Counted'  BY DEF Positions, Counted, SkipLabels, StopLabels
  <2>6. ~PlayInv  BY DEF PlayInv, Calm
  <2> QED  BY <2>2, <2>3, <2>4, <2>5, <2>6 DEF Keeps
<1>2. CASE ~isStopped /\ extendedTask \in {0, task}
  <2>1. Suspended("ctl", NewDownload, "woken")
    BY <1>2, AwaitMoves, EventsAre DEF CtlTop, Labels, Processes, Coroutines, TypeInv
  <2> USE <1>2, <2>1 DEF CtlTop, Suspended, Moves, TypeInv, At, Runs, Processes, Coroutines,
      taskVars, decoderVars, downloadVars, requestVars
  <2>2. DataOK'  BY DEF DataOK
  <2>3. Awaits'  BY EventsDiffer, NoEventDiffers DEF Awaits
  <2>4. InHand'  BY DEF InHand, SkipLabels, StopLabels
  <2>5. Positions' /\ Counted'  BY DEF Positions, Counted, SkipLabels, StopLabels
  <2>6. ASSUME Undisturbed, PlayInv PROVE Plays
    <3> USE <2>6 DEF PlayInv
    <3>1. Calm'  BY DEF Calm, SkipLabels, StopLabels
    <3>2. Transferring'  BY DEF Transferring
    <3>3. Sizes'  BY DEF Sizes
    <3>4. Feeding'  BY DEF Feeding, Fed, InCycle
    <3>5. Turns'  BY DEF Turns, InCycle, Released
    <3>6. UNCHANGED P!playerVars  BY DEF P!playerVars, InCycle
    <3> QED  BY <2>2, <2>3, <2>4, <2>5, <3>1, <3>2, <3>3, <3>4, <3>5, <3>6 DEF Plays
  <2> QED  BY <2>2, <2>3, <2>4, <2>5, <2>6 DEF Keeps
<1>3. CASE ~isStopped /\ extendedTask \notin {0, task}
  <2>1. Stepped("ctl", "probe")
    BY <1>3, StepMoves DEF CtlTop, Labels, Processes, Coroutines, TypeInv
  <2>2. /\ task' = extendedTask /\ extendedTask \in Items /\ extendedTask > task
        /\ heard[extendedTask] = 0
    BY <1>3, PipelineAssumption DEF CtlTop, TypeInv, DataOK, Positions, Items
  <2>3. /\ wrapper'.pos = 0 /\ wrapper'.is_eof = FALSE
        /\ wrapper' \in [kind : {"buffer", "queue"}, pos : 0 .. SongSize, is_eof : BOOLEAN]
    <3>1. items[extendedTask].data \in {"buffer", "queue"} /\ 0 \in 0 .. SongSize
      BY <2>2, PipelineAssumption DEF TypeInv, DataOK, ItemType
    <3>2. wrapper' = [kind |-> items[extendedTask].data, pos |-> 0, is_eof |-> FALSE]
      BY <1>3 DEF CtlTop
    <3> QED  BY <3>1, <3>2
  <2> USE <1>3, <2>1, <2>2, <2>3 DEF CtlTop, Stepped, Moves, TypeInv, At, Runs, Processes,
      Coroutines, taskVars, decoderVars, downloadVars, requestVars
  <2>4. DataOK'  BY DEF DataOK
  <2>5. Awaits'  BY DEF Awaits
  <2>6. InHand'  BY DEF InHand, Items, SkipLabels, StopLabels
  <2>7. Positions' /\ Counted'  BY DEF Positions, Counted, SkipLabels, StopLabels, DataOK, Items
  <2>8. ASSUME Undisturbed, PlayInv PROVE Plays
    <3>1. extendedTask = task + 1 /\ ~InCycle /\ InCycle' /\ ~Released(extendedTask)
      BY <2>8, PipelineAssumption DEF PlayInv, Turns, InCycle, Items, DataOK
    <3> USE <2>8 DEF PlayInv
    <3>2. Calm'  BY DEF Calm, SkipLabels, StopLabels
    <3>3. Transferring'  BY DEF Transferring
    <3>4. Sizes'  BY DEF Sizes
    <3>5. Feeding'  BY DEF Feeding, Fed, InCycle
    <3>6. Turns'
      BY <3>1, PipelineAssumption DEF Turns, InCycle, Released, Items, DataOK
    <3>7. P!Begin
      <4>1. task' - 1 = task /\ task < Len(Songs) /\ heard' = heard
        BY <3>1, PipelineAssumption DEF DataOK, Items
      <4> QED  BY <3>1, <4>1 DEF P!Begin
    <3> QED  BY <2>4, <2>5, <2>6, <2>7, <3>2, <3>3, <3>4, <3>5, <3>6, <3>7
             DEF Plays, P!PlayerNext
  <2> QED  BY <2>4, <2>5, <2>6, <2>7, <2>8 DEF Keeps
<1> QED  BY <1>1, <1>2, <1>3

LEMMA CtlWokenKeeps ==
    ASSUME TypeInv, CtlWoken
    PROVE  Keeps
<1>1. Cleared("ctl", NewDownload, "top")
  BY ResetMoves DEF CtlWoken, Labels, Processes, Coroutines, TypeInv
<1>2. InHand' /\ Counted'
  BY <1>1 DEF CtlWoken, Cleared, Moves, InHand, Counted, SkipLabels,
     StopLabels, TypeInv, At, Processes, Coroutines, taskVars,
     downloadVars, requestVars
<1>3. TypeInv'  BY <1>1, <1>2, QuietTypes DEF CtlWoken, At, Cleared, Processes, Coroutines
<1>4. ASSUME Undisturbed, PlayInv PROVE Plays
  <2> USE <1>1, <1>3, <1>4 DEF PlayInv, CtlWoken, Cleared, Moves, TypeInv, At, Runs, Processes,
      Coroutines, taskVars, decoderVars, downloadVars, requestVars
  <2>1. Calm'  BY DEF Calm, SkipLabels, StopLabels
  <2>2. Transferring'  BY DEF Transferring
  <2>3. Sizes'  BY DEF Sizes
  <2>4. Feeding'  BY DEF Feeding, Fed, InCycle
  <2>5. Turns'  BY EventsDiffer DEF Turns, InCycle, Released
  <2>6. UNCHANGED P!playerVars  BY DEF P!playerVars, InCycle
  <2> QED  BY <2>1, <2>2, <2>3, <2>4, <2>5, <2>6 DEF Plays, PlayInv
<1> QED  BY <1>3, <1>4 DEF Keeps

LEMMA CtlPollKeeps ==
    ASSUME TypeInv, CtlPoll
    PROVE  Keeps
<1>1. Stepped("ctl", pc["ctl"])
  BY LeaveMoves DEF CtlPoll, Labels, Processes, Coroutines, TypeInv, ControlOK
<1>2. InHand' /\ Counted'
  BY <1>1 DEF CtlPoll, Stepped, Moves, InHand, Counted, SkipLabels,
     StopLabels, TypeInv, At, Processes, Coroutines, taskVars,
     downloadVars, requestVars
<1>3. TypeInv'  BY <1>1, <1>2, QuietTypes DEF CtlPoll, At, Stepped, Processes, Coroutines
<1>4. ASSUME Undisturbed, PlayInv PROVE Plays
  <2> USE <1>1, <1>3, <1>4 DEF PlayInv, CtlPoll, Stepped, Moves, TypeInv, At, Runs, Processes,
      Coroutines, taskVars, decoderVars, downloadVars, requestVars
  <2>1. Calm'  BY DEF Calm, SkipLabels, StopLabels
  <2>2. Transferring'  BY DEF Transferring
  <2>3. Sizes'  BY DEF Sizes
  <2>4. Feeding'  BY DEF Feeding, Fed, InCycle
  <2>5. Turns'  BY DEF Turns, InCycle, Released
  <2>6. UNCHANGED P!playerVars  BY DEF P!playerVars, InCycle
  <2> QED  BY <2>1, <2>2, <2>3, <2>4, <2>5, <2>6 DEF Plays, PlayInv
<1> QED  BY <1>3, <1>4 DEF Keeps

LEMMA CtlProbeKeeps ==
    ASSUME TypeInv, CtlProbe
    PROVE  Keeps
<1>1. CASE Songs[ProbedItem].format = "mov"
  <2>1. Suspended("ctl", DownloadFinished(task), "setup")
    BY <1>1, AwaitMoves, EventsAre DEF CtlProbe, Labels, Processes, Coroutines, TypeInv, InHand,
       DataOK, At
  <2> USE <1>1, <2>1 DEF CtlProbe, Suspended, Moves, TypeInv, At, Runs, Processes, Coroutines,
      taskVars, decoderVars, downloadVars, requestVars
  <2>2. DataOK'  BY DEF DataOK
  <2>3. Awaits'  BY DEF Awaits
  <2>4. InHand'  BY DEF InHand, SkipLabels, StopLabels
  <2>5. Positions' /\ Counted'  BY DEF Positions, Counted, SkipLabels, StopLabels
  <2>6. TypeInv'  BY <2>2, <2>3, <2>4, <2>5
  <2>7. ASSUME Undisturbed, PlayInv PROVE Plays
    <3> USE <2>6, <2>7 DEF PlayInv
    <3>1. Calm'  BY DEF Calm, SkipLabels, StopLabels
    <3>2. Transferring'  BY DEF Transferring
    <3>3. Sizes'  BY DEF Sizes
    <3>4. Feeding'  BY DEF Feeding, Fed, InCycle
    <3>5. Turns'  BY DEF Turns, InCycle, Released
    <3>6. UNCHANGED P!playerVars  BY DEF P!playerVars, InCycle
    <3> QED  BY <3>1, <3>2, <3>3, <3>4, <3>5, <3>6 DEF Plays, PlayInv
  <2> QED  BY <2>6, <2>7 DEF Keeps
<1>2. CASE Songs[ProbedItem].format # "mov"
  <2>1. Stepped("ctl", "setup")
    BY <1>2, StepMoves DEF CtlProbe, Labels, Processes, Coroutines, TypeInv
  <2> USE <1>2, <2>1 DEF CtlProbe, Stepped, Moves, TypeInv, At, Runs, Processes, Coroutines,
      taskVars, decoderVars, downloadVars, requestVars
  <2>2. DataOK'  BY DEF DataOK
  <2>3. Awaits'  BY DEF Awaits
  <2>4. InHand'  BY DEF InHand, SkipLabels, StopLabels
  <2>5. Positions' /\ Counted'  BY DEF Positions, Counted, SkipLabels, StopLabels
  <2>6. TypeInv'  BY <2>2, <2>3, <2>4, <2>5
  <2>7. ASSUME Undisturbed, PlayInv PROVE Plays
    <3> USE <2>6, <2>7 DEF PlayInv
    <3>1. Calm'  BY DEF Calm, SkipLabels, StopLabels
    <3>2. Transferring'  BY DEF Transferring
    <3>3. Sizes'  BY DEF Sizes
    <3>4. Feeding'  BY DEF Feeding, Fed, InCycle
    <3>5. Turns'  BY DEF Turns, InCycle, Released
    <3>6. UNCHANGED P!playerVars  BY DEF P!playerVars, InCycle
    <3> QED  BY <3>1, <3>2, <3>3, <3>4, <3>5, <3>6 DEF Plays, PlayInv
  <2> QED  BY <2>6, <2>7 DEF Keeps
<1> QED  BY <1>1, <1>2

LEMMA CtlUnknownFormatKeeps ==
    ASSUME TypeInv, CtlUnknownFormat
    PROVE  Keeps
<1>1. Signalled("ctl", ReadFinished(task), "top")
  BY SetMoves, EventsAre DEF CtlUnknownFormat, Labels, Processes, Coroutines, TypeInv, InHand,
     DataOK, At, SkipLabels, StopLabels
<1>2. task \in Items /\ ProbedItem \in {0} \cup Items
  BY DEF CtlUnknownFormat, At, TypeInv, InHand, DataOK, ProbedItem
<1>3. items' \in [Items -> ItemType]  BY <1>2, PutKeeps DEF CtlUnknownFormat, TypeInv
<1> USE <1>1, <1>2, <1>3 DEF CtlUnknownFormat, Signalled, Moves, TypeInv, At, Runs, Processes,
    Coroutines, taskVars, decoderVars, downloadVars, requestVars
<1>4. DataOK'  BY DEF DataOK
<1>5. Awaits'  BY EventsDiffer, NoEventDiffers DEF Awaits
<1>6. InHand'  BY DEF InHand, SkipLabels, StopLabels
<1>7. Positions' /\ Counted'  BY DEF Positions, Counted, SkipLabels, StopLabels
<1>8. TypeInv'  BY <1>4, <1>5, <1>6, <1>7
<1>9. ASSUME Undisturbed, PlayInv PROVE FALSE
  <2>1. items[task].size \in Nat \ {0}
    BY <1>9, PipelineAssumption DEF PlayInv, Undisturbed, Sizes, MustPoll, DataOK, ItemType
  <2>2. ProbedItem = task  BY <1>9, <2>1 DEF PlayInv, Calm, ProbedItem
  <2> QED  BY <1>9, <2>2 DEF Undisturbed, Sound, Detected, Items
<1> QED  BY <1>8, <1>9 DEF Keeps

LEMMA CtlSetupKeeps ==
    ASSUME TypeInv, CtlSetup
    PROVE  Keeps
<1>1. Stepped("ctl", "feedSize")
  BY StepMoves DEF CtlSetup, Labels, Processes, Coroutines, TypeInv
<1> USE <1>1 DEF CtlSetup, Stepped, Moves, TypeInv, At, Runs, Processes, Coroutines, taskVars,
    decoderVars, downloadVars, requestVars
<1>2. DataOK'  BY DEF DataOK
<1>3. Awaits'  BY DEF Awaits
<1>4. InHand'  BY DEF InHand, SkipLabels, StopLabels
<1>5. Positions' /\ Counted'  BY DEF Positions, Counted, SkipLabels, StopLabels
<1>6. TypeInv'  BY <1>2, <1>3, <1>4, <1>5
<1>7. ASSUME Undisturbed, PlayInv PROVE Plays
  <2> USE <1>6, <1>7 DEF PlayInv
  <2>1. Calm'  BY DEF Calm, SkipLabels, StopLabels
  <2>2. Transferring'  BY DEF Transferring
  <2>3. Sizes'  BY DEF Sizes
  <2>4. Feeding'  BY DEF Feeding, Fed, InCycle
  <2>5. Turns'  BY DEF Turns, InCycle, Released
  <2>6. UNCHANGED P!playerVars  BY DEF P!playerVars, InCycle
  <2> QED  BY <2>1, <2>2, <2>3, <2>4, <2>5, <2>6 DEF Plays, PlayInv
<1> QED  BY <1>6, <1>7 DEF Keeps

LEMMA CtlEnoughToFeedKeeps ==
    ASSUME TypeInv, CtlEnoughToFeed
    PROVE  Keeps
<1>1. Stepped("ctl", "info")
  BY StepMoves DEF CtlEnoughToFeed, Labels, Processes, Coroutines, TypeInv
<1>2. InHand' /\ Counted'
  BY <1>1 DEF CtlEnoughToFeed, Stepped, Moves, InHand, Counted, SkipLabels,
     StopLabels, TypeInv, At, Processes, Coroutines,
     taskVars, downloadVars, requestVars
<1>3. TypeInv'  BY <1>1, <1>2, QuietTypes DEF CtlEnoughToFeed, At, Stepped, Processes, Coroutines
<1>4. ASSUME Undisturbed, PlayInv PROVE Plays
  <2> USE <1>1, <1>3, <1>4 DEF PlayInv, CtlEnoughToFeed, Stepped, Moves, TypeInv, At, Runs,
      Processes, Coroutines, taskVars, decoderVars, downloadVars, requestVars
  <2>1. Calm'  BY DEF Calm, SkipLabels, StopLabels
  <2>2. Transferring'  BY DEF Transferring
  <2>3. Sizes'  BY DEF Sizes
  <2>4. Feeding'  BY DEF Feeding, Fed, InCycle
  <2>5. Turns'  BY DEF Turns, InCycle, Released
  <2>6. UNCHANGED P!playerVars  BY DEF P!playerVars, InCycle
  <2> QED  BY <2>1, <2>2, <2>3, <2>4, <2>5, <2>6 DEF Plays, PlayInv
<1> QED  BY <1>3, <1>4 DEF Keeps

LEMMA CtlInfoKeeps ==
    ASSUME TypeInv, CtlInfo
    PROVE  Keeps
<1>1. CASE Songs[task].format = "broken"
  <2>1. Suspended("ctl", DownloadFinished(task), "feed")
    BY <1>1, AwaitMoves, EventsAre DEF CtlInfo, Labels, Processes, Coroutines, TypeInv, InHand,
       DataOK, At
  <2> USE <1>1, <2>1 DEF CtlInfo, Suspended, Moves, TypeInv, At, Runs, Processes, Coroutines,
      taskVars, decoderVars, downloadVars, requestVars
  <2>2. DataOK'  BY DEF DataOK
  <2>3. Awaits'  BY DEF Awaits
  <2>4. InHand'  BY DEF InHand, SkipLabels, StopLabels
  <2>5. Positions' /\ Counted'  BY DEF Positions, Counted, SkipLabels, StopLabels
  <2>6. TypeInv'  BY <2>2, <2>3, <2>4, <2>5
  <2>7. ASSUME Undisturbed, PlayInv PROVE Plays
    <3> USE <2>6, <2>7 DEF PlayInv
    <3>1. Calm'  BY DEF Calm, SkipLabels, StopLabels
    <3>2. Transferring'  BY DEF Transferring
    <3>3. Sizes'  BY DEF Sizes
    <3>4. Feeding'  BY DEF Feeding, Fed, InCycle
    <3>5. Turns'  BY DEF Turns, InCycle, Released
    <3>6. UNCHANGED P!playerVars  BY DEF P!playerVars, InCycle
    <3> QED  BY <3>1, <3>2, <3>3, <3>4, <3>5, <3>6 DEF Plays, PlayInv
  <2> QED  BY <2>6, <2>7 DEF Keeps
<1>2. CASE Songs[task].format # "broken"
  <2>1. Stepped("ctl", "feed")
    BY <1>2, StepMoves DEF CtlInfo, Labels, Processes, Coroutines, TypeInv
  <2> USE <1>2, <2>1 DEF CtlInfo, Stepped, Moves, TypeInv, At, Runs, Processes, Coroutines,
      taskVars, decoderVars, downloadVars, requestVars
  <2>2. DataOK'  BY DEF DataOK
  <2>3. Awaits'  BY DEF Awaits
  <2>4. InHand'  BY DEF InHand, SkipLabels, StopLabels
  <2>5. Positions' /\ Counted'  BY DEF Positions, Counted, SkipLabels, StopLabels
  <2>6. TypeInv'  BY <2>2, <2>3, <2>4, <2>5
  <2>7. ASSUME Undisturbed, PlayInv PROVE Plays
    <3> USE <2>6, <2>7 DEF PlayInv
    <3>1. Calm'  BY DEF Calm, SkipLabels, StopLabels
    <3>2. Transferring'  BY DEF Transferring
    <3>3. Sizes'  BY DEF Sizes
    <3>4. Feeding'  BY DEF Feeding, Fed, InCycle
    <3>5. Turns'  BY DEF Turns, InCycle, Released
    <3>6. UNCHANGED P!playerVars  BY DEF P!playerVars, InCycle
    <3> QED  BY <3>1, <3>2, <3>3, <3>4, <3>5, <3>6 DEF Plays, PlayInv
  <2> QED  BY <2>6, <2>7 DEF Keeps
<1> QED  BY <1>1, <1>2

LEMMA CtlFeedKeeps ==
    ASSUME TypeInv, CtlFeed
    PROVE  Keeps
<1>1. Signalled("ctl", FeedDecoder, "fed")
  BY SetMoves, EventsAre DEF CtlFeed, Labels, Processes, Coroutines, TypeInv
<1>2. InHand' /\ Counted'
  BY <1>1 DEF CtlFeed, Signalled, Moves, InHand, Counted, SkipLabels,
     StopLabels, TypeInv, At, Processes, Coroutines, taskVars,
     downloadVars, requestVars
<1>3. TypeInv'  BY <1>1, <1>2, QuietTypes DEF CtlFeed, At, Signalled, Processes, Coroutines
<1>4. ASSUME Undisturbed, PlayInv PROVE Plays
  <2> USE <1>1, <1>3, <1>4 DEF PlayInv, CtlFeed, Signalled, Moves, TypeInv, At, Runs, Processes,
      Coroutines, taskVars, decoderVars, downloadVars, requestVars
  <2>1. Calm'  BY DEF Calm, SkipLabels, StopLabels
  <2>2. Transferring'  BY EventsDiffer, NoEventDiffers DEF Transferring, Awaits
  <2>3. Sizes'  BY EventsDiffer, NoEventDiffers DEF Sizes, Awaits
  <2>4. Feeding'  BY EventsDiffer DEF Feeding, Fed, InCycle
  <2>5. Turns'  BY EventsDiffer, NoEventDiffers DEF Turns, InCycle, Released, Awaits
  <2>6. UNCHANGED P!playerVars  BY DEF P!playerVars, InCycle
  <2> QED  BY <2>1, <2>2, <2>3, <2>4, <2>5, <2>6 DEF Plays, PlayInv
<1> QED  BY <1>3, <1>4 DEF Keeps

LEMMA CtlFedKeeps ==
    ASSUME TypeInv, CtlFed
    PROVE  Keeps
<1>1. CASE items[task].state # "Downloading"
  <2>1. Stepped("ctl", "eof")
    BY <1>1, StepMoves DEF CtlFed, Labels, Processes, Coroutines, TypeInv
  <2> USE <1>1, <2>1 DEF CtlFed, Stepped, Moves, TypeInv, At, Runs, Processes, Coroutines,
      taskVars, decoderVars, downloadVars, requestVars
  <2>2. DataOK'  BY DEF DataOK
  <2>3. Awaits'  BY DEF Awaits
  <2>4. InHand'  BY DEF InHand, SkipLabels, StopLabels
  <2>5. Positions' /\ Counted'  BY DEF Positions, Counted, SkipLabels, StopLabels
  <2>6. TypeInv'  BY <2>2, <2>3, <2>4, <2>5
  <2>7. ASSUME Undisturbed, PlayInv PROVE Plays
    <3> USE <2>6, <2>7 DEF PlayInv
    <3>1. Calm'  BY DEF Calm, SkipLabels, StopLabels
    <3>2. Transferring'  BY DEF Transferring
    <3>3. Sizes'  BY DEF Sizes, DataOK, InHand
    <3>4. Feeding'  BY DEF Feeding, Fed, InCycle
    <3>5. Turns'  BY DEF Turns, InCycle, Released
    <3>6. UNCHANGED P!playerVars  BY DEF P!playerVars, InCycle
    <3> QED  BY <3>1, <3>2, <3>3, <3>4, <3>5, <3>6 DEF Plays, PlayInv
  <2> QED  BY <2>6, <2>7 DEF Keeps
<1>2. CASE items[task].state = "Downloading" /\ Songs[task].use_stream
  <2>1. Stepped("ctl", "tick")
    BY <1>2, LeaveMoves DEF CtlFed, Labels, Processes, Coroutines, TypeInv
  <2> USE <1>2, <2>1 DEF CtlFed, Stepped, Moves, TypeInv, At, Runs, Processes, Coroutines,
      taskVars, decoderVars, downloadVars, requestVars
  <2>2. DataOK'  BY DEF DataOK
  <2>3. Awaits'  BY DEF Awaits
  <2>4. InHand'  BY DEF InHand, SkipLabels, StopLabels
  <2>5. Positions' /\ Counted'  BY DEF Positions, Counted, SkipLabels, StopLabels
  <2>6. TypeInv'  BY <2>2, <2>3, <2>4, <2>5
  <2>7. ASSUME Undisturbed, PlayInv PROVE Plays
    <3> USE <2>6, <2>7 DEF PlayInv
    <3>1. Calm'  BY DEF Calm, SkipLabels, StopLabels
    <3>2. Transferring'  BY DEF Transferring
    <3>3. Sizes'  BY DEF Sizes
    <3>4. Feeding'  BY DEF Feeding, Fed, InCycle
    <3>5. Turns'  BY DEF Turns, InCycle, Released
    <3>6. UNCHANGED P!playerVars  BY DEF P!playerVars, InCycle
    <3> QED  BY <3>1, <3>2, <3>3, <3>4, <3>5, <3>6 DEF Plays, PlayInv
  <2> QED  BY <2>6, <2>7 DEF Keeps
<1>3. CASE items[task].state = "Downloading" /\ ~Songs[task].use_stream
  <2>1. Suspended("ctl", DownloadFinished(task), "refeed")
    BY <1>3, AwaitMoves, EventsAre DEF CtlFed, Labels, Processes, Coroutines, TypeInv, InHand,
       DataOK, At
  <2> USE <1>3, <2>1 DEF CtlFed, Suspended, Moves, TypeInv, At, Runs, Processes, Coroutines,
      taskVars, decoderVars, downloadVars, requestVars
  <2>2. DataOK'  BY DEF DataOK
  <2>3. Awaits'  BY DEF Awaits
  <2>4. InHand'  BY DEF InHand, SkipLabels, StopLabels
  <2>5. Positions' /\ Counted'  BY DEF Positions, Counted, SkipLabels, StopLabels
  <2>6. TypeInv'  BY <2>2, <2>3, <2>4, <2>5
  <2>7. ASSUME Undisturbed, PlayInv PROVE Plays
    <3> USE <2>6, <2>7 DEF PlayInv
    <3>1. Calm'  BY DEF Calm, SkipLabels, StopLabels
    <3>2. Transferring'  BY DEF Transferring
    <3>3. Sizes'  BY EventsDiffer, NoEventDiffers DEF Sizes, DataOK, InHand
    <3>4. Feeding'  BY DEF Feeding, Fed, InCycle
    <3>5. Turns'  BY DEF Turns, InCycle, Released
    <3>6. UNCHANGED P!playerVars  BY DEF P!playerVars, InCycle
    <3> QED  BY <3>1, <3>2, <3>3, <3>4, <3>5, <3>6 DEF Plays, PlayInv
  <2> QED  BY <2>6, <2>7 DEF Keeps
<1> QED  BY <1>1, <1>2, <1>3

LEMMA CtlTickKeeps ==
    ASSUME TypeInv, CtlTick
    PROVE  Keeps
<1>1. CASE DownloadFinished(task) \in ev
  <2>1. Stepped("ctl", "refeed")
    BY <1>1, StepMoves DEF CtlTick, Labels, Processes, Coroutines, TypeInv
  <2>2. InHand' /\ Counted'
    BY <1>1, <2>1 DEF CtlTick, Stepped, Moves, InHand, Counted, SkipLabels,
     StopLabels, TypeInv, At, Processes, Coroutines,
       taskVars, downloadVars, requestVars
  <2>3. TypeInv'  BY <2>1, <2>2, QuietTypes DEF CtlTick, At, Stepped, Processes, Coroutines
  <2>4. ASSUME Undisturbed, PlayInv PROVE Plays
    <3> USE <1>1, <2>1, <2>3, <2>4 DEF PlayInv, CtlTick, Stepped, Moves, TypeInv, At, Runs,
        Processes, Coroutines, taskVars, decoderVars, downloadVars, requestVars
    <3>1. Calm'  BY DEF Calm, SkipLabels, StopLabels
    <3>2. Transferring'  BY DEF Transferring
    <3>3. Sizes'  BY DEF Sizes, DataOK, InHand
    <3>4. Feeding'  BY DEF Feeding, Fed, InCycle
    <3>5. Turns'  BY DEF Turns, InCycle, Released
    <3>6. UNCHANGED P!playerVars  BY DEF P!playerVars, InCycle
    <3> QED  BY <3>1, <3>2, <3>3, <3>4, <3>5, <3>6 DEF Plays, PlayInv
  <2> QED  BY <2>3, <2>4 DEF Keeps
<1>2. CASE DownloadFinished(task) \notin ev
  <2>1. Signalled("ctl", FeedDecoder, "ticked")
    BY <1>2, SetMoves, EventsAre DEF CtlTick, Labels, Processes, Coroutines, TypeInv
  <2>2. InHand' /\ Counted'
    BY <1>2, <2>1 DEF CtlTick, Signalled, Moves, InHand, Counted, SkipLabels,
     StopLabels, TypeInv, At, Processes, Coroutines,
       taskVars, downloadVars, requestVars
  <2>3. TypeInv'  BY <2>1, <2>2, QuietTypes DEF CtlTick, At, Signalled, Processes, Coroutines
  <2>4. ASSUME Undisturbed, PlayInv PROVE Plays
    <3> USE <1>2, <2>1, <2>3, <2>4 DEF PlayInv, CtlTick, Signalled, Moves, TypeInv, At, Runs,
        Processes, Coroutines, taskVars, decoderVars, downloadVars, requestVars
    <3>1. Calm'  BY DEF Calm, SkipLabels, StopLabels
    <3>2. Transferring'  BY EventsDiffer, NoEventDiffers DEF Transferring, Awaits
    <3>3. Sizes'  BY EventsDiffer, NoEventDiffers DEF Sizes, Awaits
    <3>4. Feeding'  BY EventsDiffer DEF Feeding, Fed, InCycle
    <3>5. Turns'  BY EventsDiffer, NoEventDiffers DEF Turns, InCycle, Released, Awaits
    <3>6. UNCHANGED P!playerVars  BY DEF P!playerVars, InCycle
    <3> QED  BY <3>1, <3>2, <3>3, <3>4, <3>5, <3>6 DEF Plays, PlayInv
  <2> QED  BY <2>3, <2>4 DEF Keeps
<1> QED  BY <1>1, <1>2

LEMMA CtlTickedKeeps ==
    ASSUME TypeInv, CtlTicked
    PROVE  Keeps
<1>1. Stepped("ctl", "tick")  BY LeaveMoves DEF CtlTicked, Labels, Processes, Coroutines, TypeInv
<1>2. InHand' /\ Counted'
  BY <1>1 DEF CtlTicked, Stepped, Moves, InHand, Counted, SkipLabels,
     StopLabels, TypeInv, At, Processes, Coroutines, taskVars,
     downloadVars, requestVars
<1>3. TypeInv'  BY <1>1, <1>2, QuietTypes DEF CtlTicked, At, Stepped, Processes, Coroutines
<1>4. ASSUME Undisturbed, PlayInv PROVE Plays
  <2> USE <1>1, <1>3, <1>4 DEF PlayInv, CtlTicked, Stepped, Moves, TypeInv, At, Runs, Processes,
      Coroutines, taskVars, decoderVars, downloadVars, requestVars
  <2>1. Calm'  BY DEF Calm, SkipLabels, StopLabels
  <2>2. Transferring'  BY DEF Transferring
  <2>3. Sizes'  BY DEF Sizes
  <2>4. Feeding'  BY DEF Feeding, Fed, InCycle
  <2>5. Turns'  BY DEF Turns, InCycle, Released
  <2>6. UNCHANGED P!playerVars  BY DEF P!playerVars, InCycle
  <2> QED  BY <2>1, <2>2, <2>3, <2>4, <2>5, <2>6 DEF Plays, PlayInv
<1> QED  BY <1>3, <1>4 DEF Keeps

LEMMA CtlRefeedKeeps ==
    ASSUME TypeInv, CtlRefeed
    PROVE  Keeps
<1>1. Signalled("ctl", FeedDecoder, "eof")
  BY SetMoves, EventsAre DEF CtlRefeed, Labels, Processes, Coroutines, TypeInv
<1>2. InHand' /\ Counted'
  BY <1>1 DEF CtlRefeed, Signalled, Moves, InHand, Counted, SkipLabels,
     StopLabels, TypeInv, At, Processes, Coroutines, taskVars,
     downloadVars, requestVars
<1>3. TypeInv'  BY <1>1, <1>2, QuietTypes DEF CtlRefeed, At, Signalled, Processes, Coroutines
<1>4. ASSUME Undisturbed, PlayInv PROVE Plays
  <2> USE <1>1, <1>3, <1>4 DEF PlayInv, CtlRefeed, Signalled, Moves, TypeInv, At, Runs, Processes,
      Coroutines, taskVars, decoderVars, downloadVars, requestVars
  <2>1. Calm'  BY DEF Calm, SkipLabels, StopLabels
  <2>2. Transferring'  BY EventsDiffer, NoEventDiffers DEF Transferring, Awaits
  <2>3. Sizes'  BY EventsDiffer, NoEventDiffers DEF Sizes, Awaits
  <2>4. Feeding'  BY EventsDiffer DEF Feeding, Fed, InCycle
  <2>5. Turns'  BY EventsDiffer, NoEventDiffers DEF Turns, InCycle, Released, Awaits
  <2>6. UNCHANGED P!playerVars  BY DEF P!playerVars, InCycle
  <2> QED  BY <2>1, <2>2, <2>3, <2>4, <2>5, <2>6 DEF Plays, PlayInv
<1> QED  BY <1>3, <1>4 DEF Keeps

LEMMA CtlEofKeeps ==
    ASSUME TypeInv, CtlEof
    PROVE  Keeps
<1>1. Suspended("ctl", ReadFinshed, "finished")
  BY AwaitMoves, EventsAre DEF CtlEof, Labels, Processes, Coroutines, TypeInv
<1> USE <1>1 DEF CtlEof, Suspended, Moves, TypeInv, At, Runs, Processes, Coroutines, taskVars,
    decoderVars, downloadVars, requestVars
<1>2. DataOK'  BY DEF DataOK
<1>3. Awaits'  BY DEF Awaits
<1>4. InHand'  BY DEF InHand, SkipLabels, StopLabels
<1>5. Positions' /\ Counted'  BY DEF Positions, Counted, SkipLabels, StopLabels
<1>6. TypeInv'  BY <1>2, <1>3, <1>4, <1>5
<1>7. ASSUME Undisturbed, PlayInv PROVE Plays
  <2> USE <1>6, <1>7 DEF PlayInv
  <2>1. Calm'  BY DEF Calm, SkipLabels, StopLabels
  <2>2. Transferring'  BY DEF Transferring
  <2>3. Sizes'  BY DEF Sizes
  <2>4. Feeding'  BY EventsDiffer, NoEventDiffers DEF Feeding, Fed, InCycle
  <2>5. Turns'  BY DEF Turns, InCycle, Released
  <2>6. UNCHANGED P!playerVars  BY DEF P!playerVars, InCycle
  <2> QED  BY <2>1, <2>2, <2>3, <2>4, <2>5, <2>6 DEF Plays, PlayInv
<1> QED  BY <1>6, <1>7 DEF Keeps

LEMMA CtlFinishedKeeps ==
    ASSUME TypeInv, CtlFinished
    PROVE  Keeps
<1>1. Cleared("ctl", ReadFinshed, "release")
  BY ResetMoves DEF CtlFinished, Labels, Processes, Coroutines, TypeInv
<1>2. InHand' /\ Counted'
  BY <1>1 DEF CtlFinished, Cleared, Moves, InHand, Counted, SkipLabels,
     StopLabels, TypeInv, At, Processes, Coroutines, taskVars,
     downloadVars, requestVars
<1>3. TypeInv'  BY <1>1, <1>2, QuietTypes DEF CtlFinished, At, Cleared, Processes, Coroutines
<1>4. ASSUME Undisturbed, PlayInv PROVE Plays
  <2> USE <1>1, <1>3, <1>4 DEF PlayInv, CtlFinished, Cleared, Moves, TypeInv, At, Runs, Processes,
      Coroutines, taskVars, decoderVars, downloadVars, requestVars
  <2>1. Calm'  BY DEF Calm, SkipLabels, StopLabels
  <2>2. Transferring'  BY DEF Transferring
  <2>3. Sizes'  BY DEF Sizes
  <2>4. Feeding'  BY DEF Feeding, Fed, InCycle
  <2>5. Turns'  BY DEF Turns, InCycle, Released
  <2>6. UNCHANGED P!playerVars  BY DEF P!playerVars, InCycle
  <2> QED  BY <2>1, <2>2, <2>3, <2>4, <2>5, <2>6 DEF Plays, PlayInv
<1> QED  BY <1>3, <1>4 DEF Keeps

LEMMA CtlReleaseKeeps ==
    ASSUME TypeInv, CtlRelease
    PROVE  Keeps
<1>1. Signalled("ctl", ReadFinished(task), "drain") /\ task \in Items
  BY SetMoves, EventsAre DEF CtlRelease, Labels, Processes, Coroutines, TypeInv, InHand, DataOK,
     At, SkipLabels, StopLabels
<1>2. InHand' /\ Counted'
  BY <1>1 DEF CtlRelease, Signalled, Moves, InHand, Counted, SkipLabels,
     StopLabels, TypeInv, At, Processes, Coroutines, taskVars,
     downloadVars, requestVars
<1>3. TypeInv'  BY <1>1, <1>2, QuietTypes DEF CtlRelease, At, Signalled, Processes, Coroutines
<1>4. ASSUME Undisturbed, PlayInv PROVE Plays
  <2> USE <1>1, <1>3, <1>4 DEF PlayInv, CtlRelease, Signalled, Moves, TypeInv, At, Runs,
      Processes, Coroutines, taskVars, decoderVars, downloadVars, requestVars
  <2>1. Calm'  BY DEF Calm, SkipLabels, StopLabels
  <2>2. Transferring'
    <3>1. await["dl"] = ReadFinished(task) => pc["dl"] = "top"
      BY EventsDiffer, NoEventDiffers DEF Awaits
    <3>2. await["dl"] = ReadFinished(task) => curl = "none" /\ pc["curl"] = "idle"
      BY <3>1 DEF Transferring, DataOK, ControlOK, Labels
    <3> QED  BY <3>1, <3>2 DEF Transferring
  <2>3. Sizes'
    <3>1. await["dl"] = ReadFinished(task) => pc["dl"] = "top"
      BY EventsDiffer, NoEventDiffers DEF Awaits
    <3> QED  BY <3>1, EventsDiffer DEF Sizes
  <2>4. Feeding'  BY EventsDiffer, NoEventDiffers DEF Feeding, Fed, InCycle, Awaits
  <2>5. InCycle /\ ~InCycle' /\ heard[task] = SongSize /\ extendedTask = task
    BY DEF InCycle, Feeding, Turns
  <2>6. \A i \in Items : Released(i)' <=> Released(i) \/ i = task  BY EventsDiffer DEF Released
  <2>7. Turns'
    <3>1. await["dl"] # ReadFinished(task) => await'["dl"] = await["dl"]
      OBVIOUS
    <3> QED  BY <2>5, <2>6, PipelineAssumption DEF Turns, DataOK, Items
  <2>8. P!End  BY <2>5 DEF P!End, Items
  <2> QED  BY <2>1, <2>2, <2>3, <2>4, <2>7, <2>8 DEF Plays, P!PlayerNext
<1> QED  BY <1>3, <1>4 DEF Keeps

LEMMA CtlDrainKeeps ==
    ASSUME TypeInv, CtlDrain
    PROVE  Keeps
<1>1. Stepped("ctl", "close")  BY StepMoves DEF CtlDrain, Labels, Processes, Coroutines, TypeInv
<1>2. items' \in [Items -> ItemType]
  BY PutKeeps DEF CtlDrain, TypeInv, InHand, DataOK, At
<1> USE <1>1, <1>2 DEF CtlDrain, Stepped, Moves, TypeInv, At, Runs, Processes, Coroutines,
    taskVars, decoderVars, downloadVars, requestVars, Put
<1>3. DataOK'  BY DEF DataOK
<1>4. Awaits'  BY DEF Awaits
<1>5. InHand'  BY DEF InHand, SkipLabels, StopLabels
<1>6. Positions' /\ Counted'  BY DEF Positions, Counted, SkipLabels, StopLabels
<1>7. TypeInv'  BY <1>3, <1>4, <1>5, <1>6
<1>8. ASSUME Undisturbed, PlayInv PROVE Plays
  <2> USE <1>7, <1>8 DEF PlayInv
  <2>1. Calm'  BY DEF Calm, SkipLabels, StopLabels
  <2>2. Transferring'  BY DEF Transferring
  <2>3. Sizes'  BY DEF Sizes
  <2>4. Feeding'  BY DEF Feeding, Fed, InCycle
  <2>5. Turns'  BY DEF Turns, InCycle, Released
  <2>6. UNCHANGED P!playerVars  BY DEF P!playerVars, InCycle
  <2> QED  BY <2>1, <2>2, <2>3, <2>4, <2>5, <2>6 DEF Plays, PlayInv
<1> QED  BY <1>7, <1>8 DEF Keeps

LEMMA CtlCloseKeeps ==
    ASSUME TypeInv, CtlClose
    PROVE  Keeps
<1>1. Stepped("ctl", "top")  BY StepMoves DEF CtlClose, Labels, Processes, Coroutines, TypeInv
<1> USE <1>1 DEF CtlClose, Stepped, Moves, TypeInv, At, Runs, Processes, Coroutines, taskVars,
    decoderVars, downloadVars, requestVars
<1>2. DataOK'  BY DEF DataOK
<1>3. Awaits'  BY DEF Awaits
<1>4. InHand'  BY DEF InHand, SkipLabels, StopLabels
<1>5. Positions' /\ Counted'  BY DEF Positions, Counted, SkipLabels, StopLabels
<1>6. TypeInv'  BY <1>2, <1>3, <1>4, <1>5
<1>7. ASSUME Undisturbed, PlayInv PROVE Plays
  <2> USE <1>6, <1>7 DEF PlayInv
  <2>1. Calm'  BY DEF Calm, SkipLabels, StopLabels
  <2>2. Transferring'  BY DEF Transferring
  <2>3. Sizes'  BY DEF Sizes
  <2>4. Feeding'  BY DEF Feeding, Fed, InCycle
  <2>5. Turns'  BY DEF Turns, InCycle, Released
  <2>6. UNCHANGED P!playerVars  BY DEF P!playerVars, InCycle
  <2> QED  BY <2>1, <2>2, <2>3, <2>4, <2>5, <2>6 DEF Plays, PlayInv
<1> QED  BY <1>6, <1>7 DEF Keeps

-----------------------------------------------------------------------------
(* dec: start_consumer.                                                    *)
LEMMA DecTopKeeps ==
    ASSUME TypeInv, DecTop
    PROVE  Keeps
<1>1. Stepped("dec", "check")  BY LeaveMoves DEF DecTop, Labels, Processes, Coroutines, TypeInv
<1>2. InHand' /\ Counted'
  BY <1>1 DEF DecTop, Stepped, Moves, InHand, Counted, SkipLabels,
     StopLabels, TypeInv, At, Processes, Coroutines, taskVars,
     downloadVars, requestVars
<1>3. TypeInv'  BY <1>1, <1>2, QuietTypes DEF DecTop, At, Stepped, Processes, Coroutines
<1>4. ASSUME Undisturbed, PlayInv PROVE Plays
  <2> USE <1>1, <1>3, <1>4 DEF PlayInv, DecTop, Stepped, Moves, TypeInv, At, Runs, Processes,
      Coroutines, taskVars, decoderVars, downloadVars, requestVars
  <2>1. Calm'  BY DEF Calm, SkipLabels, StopLabels
  <2>2. Transferring'  BY DEF Transferring
  <2>3. Sizes'  BY DEF Sizes
  <2>4. Feeding'  BY DEF Feeding, Fed, InCycle
  <2>5. Turns'  BY DEF Turns, InCycle, Released
  <2>6. UNCHANGED P!playerVars  BY DEF P!playerVars, InCycle
  <2> QED  BY <2>1, <2>2, <2>3, <2>4, <2>5, <2>6 DEF Plays, PlayInv
<1> QED  BY <1>3, <1>4 DEF Keeps

LEMMA DecCheckKeeps ==
    ASSUME TypeInv, DecCheck
    PROVE  Keeps
<1>1. CASE isStopped
  <2>1. Stepped("dec", "done")
    BY <1>1, LeaveMoves DEF DecCheck, Labels, Processes, Coroutines, TypeInv
  <2> USE <1>1, <2>1 DEF DecCheck, Stepped, Moves, TypeInv, At, Runs, Processes, Coroutines,
      taskVars, decoderVars, downloadVars, requestVars
  <2>2. DataOK'  BY DEF DataOK
  <2>3. Awaits'  BY DEF Awaits
  <2>4. InHand'  BY DEF InHand, SkipLabels, StopLabels
  <2>5. Positions' /\ Counted'  BY DEF Positions, Counted, SkipLabels, StopLabels
  <2>6. TypeInv'  BY <2>2, <2>3, <2>4, <2>5
  <2>7. ASSUME Undisturbed, PlayInv PROVE Plays
    <3> USE <2>6, <2>7 DEF PlayInv
    <3>1. Calm'  BY DEF Calm, SkipLabels, StopLabels
    <3>2. Transferring'  BY DEF Transferring
    <3>3. Sizes'  BY DEF Sizes
    <3>4. Feeding'  BY DEF Feeding, Fed, InCycle
    <3>5. Turns'  BY DEF Turns, InCycle, Released
    <3>6. UNCHANGED P!playerVars  BY DEF P!playerVars, InCycle
    <3> QED  BY <3>1, <3>2, <3>3, <3>4, <3>5, <3>6 DEF Plays, PlayInv
  <2> QED  BY <2>6, <2>7 DEF Keeps
<1>2. CASE ~isStopped
  <2>1. Suspended("dec", FeedDecoder, "fed")
    BY <1>2, AwaitMoves, EventsAre DEF DecCheck, Labels, Processes, Coroutines, TypeInv
  <2> USE <1>2, <2>1 DEF DecCheck, Suspended, Moves, TypeInv, At, Runs, Processes, Coroutines,
      taskVars, decoderVars, downloadVars, requestVars
  <2>2. DataOK'  BY DEF DataOK
  <2>3. Awaits'  BY DEF Awaits
  <2>4. InHand'  BY DEF InHand, SkipLabels, StopLabels
  <2>5. Positions' /\ Counted'  BY DEF Positions, Counted, SkipLabels, StopLabels
  <2>6. TypeInv'  BY <2>2, <2>3, <2>4, <2>5
  <2>7. ASSUME Undisturbed, PlayInv PROVE Plays
    <3> USE <2>6, <2>7 DEF PlayInv
    <3>1. Calm'  BY DEF Calm, SkipLabels, StopLabels
    <3>2. Transferring'  BY DEF Transferring
    <3>3. Sizes'  BY DEF Sizes
    <3>4. Feeding'  BY EventsDiffer, NoEventDiffers DEF Feeding, Fed, InCycle
    <3>5. Turns'  BY DEF Turns, InCycle, Released
    <3>6. UNCHANGED P!playerVars  BY DEF P!playerVars, InCycle
    <3> QED  BY <3>1, <3>2, <3>3, <3>4, <3>5, <3>6 DEF Plays, PlayInv
  <2> QED  BY <2>6, <2>7 DEF Keeps
<1> QED  BY <1>1, <1>2

LEMMA DecFedKeeps ==
    ASSUME TypeInv, DecFed
    PROVE  Keeps
<1>1. CASE task = 0
  <2>1. Cleared("dec", FeedDecoder, "top")
    BY <1>1, ResetMoves DEF DecFed, Labels, Processes, Coroutines, TypeInv
  <2>2. InHand' /\ Counted'
    BY <1>1, <2>1 DEF DecFed, Cleared, Moves, InHand, Counted, SkipLabels,
     StopLabels, TypeInv, At, Processes, Coroutines,
       taskVars, downloadVars, requestVars
  <2>3. TypeInv'  BY <2>1, <2>2, QuietTypes DEF DecFed, At, Cleared, Processes, Coroutines
  <2>4. ASSUME Undisturbed, PlayInv PROVE Plays
    <3> USE <1>1, <2>1, <2>3, <2>4 DEF PlayInv, DecFed, Cleared, Moves, TypeInv, At, Runs,
        Processes, Coroutines, taskVars, decoderVars, downloadVars, requestVars
    <3>1. Calm'  BY DEF Calm, SkipLabels, StopLabels
    <3>2. Transferring'  BY DEF Transferring
    <3>3. Sizes'  BY DEF Sizes
    <3>4. Feeding'  BY DEF Feeding, Fed, InCycle
    <3>5. Turns'  BY DEF Turns, InCycle, Released
    <3>6. UNCHANGED P!playerVars  BY DEF P!playerVars, InCycle
    <3> QED  BY <3>1, <3>2, <3>3, <3>4, <3>5, <3>6 DEF Plays, PlayInv
  <2> QED  BY <2>3, <2>4 DEF Keeps
<1>2. CASE task # 0
  <2>1. Stepped("dec", "read")
    BY <1>2, StepMoves DEF DecFed, Labels, Processes, Coroutines, TypeInv
  <2>2. InHand' /\ Counted'
    BY <1>2, <2>1 DEF DecFed, Stepped, Moves, InHand, Counted, SkipLabels,
     StopLabels, TypeInv, At, Processes, Coroutines,
       taskVars, downloadVars, requestVars
  <2>3. TypeInv'  BY <2>1, <2>2, QuietTypes DEF DecFed, At, Stepped, Processes, Coroutines
  <2>4. ASSUME Undisturbed, PlayInv PROVE Plays
    <3> USE <1>2, <2>1, <2>3, <2>4 DEF PlayInv, DecFed, Stepped, Moves, TypeInv, At, Runs,
        Processes, Coroutines, taskVars, decoderVars, downloadVars, requestVars
    <3>1. Calm'  BY DEF Calm, SkipLabels, StopLabels
    <3>2. Transferring'  BY DEF Transferring
    <3>3. Sizes'  BY DEF Sizes
    <3>4. Feeding'  BY DEF Feeding, Fed, InCycle
    <3>5. Turns'  BY DEF Turns, InCycle, Released
    <3>6. UNCHANGED P!playerVars  BY DEF P!playerVars, InCycle
    <3> QED  BY <3>1, <3>2, <3>3, <3>4, <3>5, <3>6 DEF Plays, PlayInv
  <2> QED  BY <2>3, <2>4 DEF Keeps
<1> QED  BY <1>1, <1>2

LEMMA DecReadOkKeeps ==
    ASSUME TypeInv, DecReadOk
    PROVE  Keeps
<1>1. task \in Items  BY DEF DecReadOk, At, TypeInv, InHand, DataOK
<1>2. wrapper.pos \in Nat /\ items[task].size \in 0 .. SongSize /\ wrapper.pos < items[task].size
  BY <1>1 DEF DecReadOk, ReadResults, Exhausted, TypeInv, DataOK, ItemType
<1>3. /\ wrapper' = [wrapper EXCEPT !.pos = wrapper.pos + 1]
      /\ UNCHANGED <<items, isStopped, extendedTask, task, audio_data, decoder, curl, result,
                     errors, skips, skipped>>
  BY DEF DecReadOk, taskVars, downloadVars
<1>4. /\ wrapper' \in [kind : {"buffer", "queue"}, pos : 0 .. SongSize, is_eof : BOOLEAN]
      /\ wrapper'.pos = wrapper.pos + 1 /\ wrapper'.is_eof = wrapper.is_eof
  <2>1. /\ wrapper \in [kind : {"buffer", "queue"}, pos : 0 .. SongSize, is_eof : BOOLEAN]
        /\ wrapper.pos < SongSize /\ SongSize \in Nat
    BY <1>2, PipelineAssumption DEF TypeInv, DataOK
  <2> QED  BY <1>2, <1>3, <2>1
<1>5. CASE Songs[task].format = "odd"
  <2>1. Stepped("dec", "doSkip") /\ heard' = heard /\ back' = [back EXCEPT !["dec"] = "oddReset"]
    BY <1>5, StepMoves DEF DecReadOk, Labels, Processes, Coroutines, TypeInv
  <2> USE <1>1, <1>3, <1>4, <1>5, <2>1
      DEF Stepped, Moves, TypeInv, Processes, Coroutines, DecReadOk, At, Runs
  <2>2. DataOK'  BY DEF DataOK
  <2>3. Awaits'  BY DEF Awaits
  <2>4. InHand'  BY DEF InHand, DataOK, SkipLabels, StopLabels
  <2>5. Positions' /\ Counted'  BY DEF Positions, Counted, DataOK, SkipLabels, StopLabels
  <2>6. ~Undisturbed  BY DEF Undisturbed, Sound
  <2> QED  BY <2>2, <2>3, <2>4, <2>5, <2>6 DEF Keeps
<1>6. CASE Songs[task].format # "odd"
  <2>1. /\ Stepped("dec", "top") /\ heard' = [heard EXCEPT ![task] = heard[task] + 1]
        /\ back' = back
    BY <1>6, StepMoves DEF DecReadOk, Labels, Processes, Coroutines, TypeInv
  <2>2. heard[task] = wrapper.pos  BY <1>1, <1>6 DEF TypeInv, Positions, Items
  <2>3. heard' \in [Items -> 0 .. SongSize]
    <3>1. heard \in [Items -> 0 .. SongSize] /\ heard[task] \in Nat /\ heard[task] < SongSize
      BY <1>2, <2>2, PipelineAssumption DEF TypeInv, DataOK
    <3> QED  BY <1>1, <2>1, <3>1, PipelineAssumption
  <2>4. \A i \in Items : heard'[i] = IF i = task THEN heard[i] + 1 ELSE heard[i]
    BY <2>1 DEF TypeInv, DataOK
  <2> USE <1>1, <1>2, <1>3, <1>4, <1>6, <2>1, <2>2, <2>3, PipelineAssumption
      DEF Stepped, Moves, TypeInv, Processes, Coroutines
  <2>5. DataOK'  BY DEF DataOK
  <2>6. Awaits'  BY DEF Awaits, DecReadOk, At, Runs
  <2>7. InHand'  BY DEF InHand, SkipLabels, StopLabels
  <2>8. Positions' /\ Counted'
    <3>1. Positions'  BY <2>4 DEF Positions, DataOK, Items
    <3>2. Counted'  BY DEF Counted, SkipLabels, StopLabels
    <3> QED  BY <3>1, <3>2
  <2>9. TypeInv'  BY <2>5, <2>6, <2>7, <2>8
  <2>10. ASSUME Undisturbed, PlayInv PROVE Plays
    <3>1. Fed  BY <2>10 DEF PlayInv, Feeding, DecReadOk, At
    <3>2. InCycle /\ pc["ctl"] # "release" /\ ~(pc["ctl"] = "finished" /\ await["ctl"] = NoEvent)
      BY <3>1 DEF Fed, InCycle
    <3> USE <2>9, <2>10 DEF PlayInv
    <3>3. Calm'  BY DEF Calm, SkipLabels, StopLabels
    <3>4. Transferring'  BY DEF Transferring
    <3>5. Sizes'  BY DEF Sizes
    <3>6. Feeding'  BY <2>4, <3>1, <3>2 DEF Feeding, Fed, InCycle, DecReadOk, At
    <3>7. Turns'  BY <2>4, <3>2 DEF Turns, InCycle, Released
    <3>8. P!Hear
      <4>1. InCycle' /\ task' = task /\ task # 0  BY <3>2 DEF InCycle, Items
      <4>2. heard[task] < SongSize  BY DEF DataOK
      <4> QED  BY <3>2, <4>1, <4>2 DEF P!Hear
    <3> QED  BY <3>3, <3>4, <3>5, <3>6, <3>7, <3>8 DEF Plays, P!PlayerNext
  <2> QED  BY <2>9, <2>10 DEF Keeps
<1> QED  BY <1>5, <1>6

LEMMA DecOddResetKeeps ==
    ASSUME TypeInv, DecOddReset
    PROVE  Keeps
<1>1. Cleared("dec", FeedDecoder, "top")
  BY ResetMoves DEF DecOddReset, Labels, Processes, Coroutines, TypeInv
<1>2. InHand' /\ Counted'
  BY <1>1 DEF DecOddReset, Cleared, Moves, InHand, Counted, SkipLabels, StopLabels, TypeInv, At,
     Processes, Coroutines, taskVars, downloadVars, requestVars
<1>3. TypeInv'  BY <1>1, <1>2, QuietTypes DEF DecOddReset, At, Cleared, Processes, Coroutines
<1> QED  BY <1>3 DEF Keeps, DecOddReset, At, PlayInv, Calm

LEMMA DecReadOtherKeeps ==
    ASSUME TypeInv, DecReadOther
    PROVE  Keeps
<1>1. PICK r \in {"DONE", "ERR", "NEED_MORE"} :
         /\ r \in ReadResults
         /\ Cleared("dec", FeedDecoder,
                    CASE r = "DONE" -> "notify" [] r = "ERR" -> "error" [] r = "NEED_MORE" ->
                        "top")
  <2>1. PICK r \in ReadResults \ {"OK"} :
           Reset("dec", FeedDecoder,
                 CASE r = "DONE" -> "notify" [] r = "ERR" -> "error" [] r = "NEED_MORE" -> "top")
    BY DEF DecReadOther
  <2>2. r \in {"DONE", "ERR", "NEED_MORE"}  BY <2>1 DEF ReadResults
  <2> QED  BY <2>1, <2>2, ResetMoves DEF Labels, Processes, Coroutines, TypeInv
<1>2. InHand' /\ Counted'
  BY <1>1 DEF DecReadOther, Cleared, Moves, InHand, Counted, SkipLabels,
     StopLabels, TypeInv, At, Processes, Coroutines, taskVars,
     downloadVars, requestVars
<1>3. TypeInv'  BY <1>1, <1>2, QuietTypes DEF DecReadOther, At, Cleared, Processes, Coroutines
<1>4. ASSUME Undisturbed, PlayInv PROVE Plays
  <2>1. task \in Items /\ Fed /\ At("dec", "read")
    BY <1>4 DEF PlayInv, Feeding, DecReadOther, At, TypeInv, InHand, DataOK
  <2>2. InCycle /\ decoder = "open" /\ Songs[task].format # "broken"
    BY <1>4, <2>1 DEF PlayInv, Feeding, Fed, InCycle, Undisturbed, Sound
  <2>3. r # "ERR" /\ Exhausted  BY <1>1, <2>2 DEF ReadResults
  <2>4. r = "DONE" => wrapper.is_eof
    <3>1. r = "DONE" => ~MayGrow  BY <1>1, <2>2 DEF ReadResults
    <3>2. ~Overtakes  BY <1>4 DEF DecReadOther, Undisturbed
    <3> QED  BY <1>4, <2>1, <2>3, <3>1, <3>2
    DEF MayGrow, Overtakes, PlayInv, Calm, TypeInv, DataOK
  <2>5. r = "DONE" => pc["ctl"] = "finished" /\ await["ctl"] # NoEvent
    BY <1>4, <2>1, <2>2, <2>4 DEF PlayInv, Feeding, Fed
  <2>6. r = "DONE" => heard[task] = SongSize
    <3>1. heard[task] = wrapper.pos
      BY <1>4, <2>1 DEF TypeInv, Positions, Undisturbed, Sound, Items
    <3> QED  BY <1>4, <2>1, <2>3, <2>5, <3>1, PipelineAssumption
             DEF PlayInv, Sizes, Exhausted, TypeInv, DataOK, Items
  <2> USE <1>1, <1>4 DEF PlayInv, DecReadOther, Cleared, Moves, TypeInv, At, Runs, Processes,
      Coroutines, taskVars, decoderVars, downloadVars, requestVars
  <2>7. Calm'  BY <2>3 DEF Calm, SkipLabels, StopLabels
  <2>8. Transferring'  BY DEF Transferring
  <2>9. Sizes'  BY EventsDiffer DEF Sizes
  <2>10. Feeding'  BY <2>3, <2>5, <2>6, EventsDiffer DEF Feeding, Fed, InCycle
  <2>11. Turns'  BY EventsDiffer DEF Turns, InCycle, Released
  <2>12. UNCHANGED P!playerVars  BY DEF P!playerVars, InCycle
  <2> QED  BY <1>3, <2>7, <2>8, <2>9, <2>10, <2>11, <2>12 DEF Plays
<1> QED  BY <1>3, <1>4 DEF Keeps

LEMMA DecNotifyKeeps ==
    ASSUME TypeInv, DecNotify
    PROVE  Keeps
<1>1. Signalled("dec", ReadFinshed, "top")
  BY SetMoves, EventsAre DEF DecNotify, Labels, Processes, Coroutines, TypeInv
<1>2. InHand' /\ Counted'
  BY <1>1 DEF DecNotify, Signalled, Moves, InHand, Counted, SkipLabels,
     StopLabels, TypeInv, At, Processes, Coroutines, taskVars,
     downloadVars, requestVars
<1>3. TypeInv'  BY <1>1, <1>2, QuietTypes DEF DecNotify, At, Signalled, Processes, Coroutines
<1>4. ASSUME Undisturbed, PlayInv PROVE Plays
  <2> USE <1>1, <1>3, <1>4 DEF PlayInv, DecNotify, Signalled, Moves, TypeInv, At, Runs, Processes,
      Coroutines, taskVars, decoderVars, downloadVars, requestVars
  <2>1. Calm'  BY DEF Calm, SkipLabels, StopLabels
  <2>2. Transferring'  BY EventsDiffer, NoEventDiffers DEF Transferring, Awaits
  <2>3. Sizes'  BY EventsDiffer, NoEventDiffers DEF Sizes, Awaits
  <2>4. Feeding'  BY EventsDiffer, NoEventDiffers DEF Feeding, Fed, InCycle, Awaits
  <2>5. Turns'  BY EventsDiffer, NoEventDiffers DEF Turns, InCycle, Released, Awaits
  <2>6. UNCHANGED P!playerVars  BY DEF P!playerVars, InCycle
  <2> QED  BY <2>1, <2>2, <2>3, <2>4, <2>5, <2>6 DEF Plays, PlayInv
<1> QED  BY <1>3, <1>4 DEF Keeps

LEMMA DecErrorKeeps ==
    ASSUME TypeInv, DecError
    PROVE  Keeps
<1>1. Signalled("dec", ReadFinished(task), "top")
  BY SetMoves, EventsAre DEF DecError, Labels, Processes, Coroutines, TypeInv, InHand, DataOK,
     At, SkipLabels, StopLabels
<1>2. items' \in [Items -> ItemType]
  BY PutKeeps DEF DecError, TypeInv, InHand, DataOK, At
<1> USE <1>1, <1>2 DEF DecError, Signalled, Moves, TypeInv, At, Runs, Processes, Coroutines,
    taskVars, decoderVars, downloadVars, requestVars
<1>3. DataOK'  BY DEF DataOK
<1>4. Awaits'  BY EventsDiffer, NoEventDiffers DEF Awaits
<1>5. InHand'  BY DEF InHand, SkipLabels, StopLabels
<1>6. Positions' /\ Counted'  BY DEF Positions, Counted, SkipLabels, StopLabels
<1>7. TypeInv'  BY <1>3, <1>4, <1>5, <1>6
<1>8. ~PlayInv  BY DEF PlayInv, Calm
<1> QED  BY <1>7, <1>8 DEF Keeps

-----------------------------------------------------------------------------
(* curl: the worker thread.                                                *)
LEMMA CurlDataKeeps ==
    ASSUME TypeInv, CurlData
    PROVE  Keeps
<1> USE DEF CurlData
<1>1. extendedTask \in Items  BY DEF TypeInv, InHand, DataOK
<1> DEFINE n == items[extendedTask].size + 1
<1>2. /\ n \in 1 .. SongSize /\ items[extendedTask].size # SongSize
      /\ items' = [items EXCEPT ![extendedTask]["size"] = n]
  BY <1>1, PipelineAssumption DEF Put, TypeInv, DataOK, ItemType
<1> HIDE DEF n
<1> USE <1>1, <1>2 DEF TypeInv, At, Runs, Processes, Coroutines, taskVars, decoderVars, downloadVars,
    requestVars
<1>3. DataOK'  BY DEF DataOK, ItemType
<1>4. Awaits'  BY DEF Awaits
<1>5. InHand'  BY DEF InHand, SkipLabels, StopLabels
<1>6. Positions' /\ Counted'  BY DEF Positions, Counted, SkipLabels, StopLabels
<1>7. TypeInv'  BY <1>3, <1>4, <1>5, <1>6 DEF ControlOK
<1>8. ASSUME Undisturbed, PlayInv PROVE Plays
  <2> USE <1>7, <1>8 DEF PlayInv
  <2>1. Calm'  BY DEF Calm, SkipLabels, StopLabels, DataOK
  <2>2. Transferring'  BY DEF Transferring, DataOK
  <2>3. Sizes'  BY DEF Sizes, Transferring, Turns
  <2>4. Feeding'  BY DEF Feeding, Fed, InCycle
  <2>5. Turns'  BY DEF Turns, InCycle, Released
  <2>6. UNCHANGED P!playerVars  BY DEF P!playerVars, InCycle
  <2> QED  BY <2>1, <2>2, <2>3, <2>4, <2>5, <2>6 DEF Plays
<1> QED  BY <1>7, <1>8 DEF Keeps

LEMMA CurlTakeKeeps ==
    ASSUME TypeInv, NEW ok \in BOOLEAN, CurlTake(ok)
    PROVE  Keeps
<1>1. Stepped("curl", IF curl = "url" THEN "urlCallback" ELSE "dataCallback")
  BY StepMoves DEF CurlTake, Labels, Processes, Coroutines, TypeInv
<1>2. extendedTask \in Items
  BY DEF CurlTake, TypeInv, InHand, DataOK
<1> USE <1>1, <1>2 DEF CurlTake, Stepped, Moves, TypeInv, At, Processes, Coroutines, taskVars,
        decoderVars, requestVars
<1>3. DataOK'
  BY DEF DataOK
<1>4. Awaits'
  BY DEF Awaits
<1>5. InHand'
  BY DEF InHand, Items, SkipLabels, StopLabels
<1>6. Positions' /\ Counted'
  BY DEF Positions, Counted, SkipLabels, StopLabels
<1>7. ASSUME Undisturbed, PlayInv PROVE Plays
  <2> USE <1>7 DEF PlayInv
  <2>1. ok /\ (curl = "data" => items[extendedTask].size = SongSize)
    BY DEF Undisturbed
  <2>2. Calm'
    BY DEF Calm, SkipLabels, StopLabels
  <2>3. Transferring'
    BY <2>1 DEF Transferring, DataOK
  <2>4. Sizes'
    BY <2>1 DEF Sizes, DataOK
  <2>5. Feeding'
    BY DEF Feeding, Fed, InCycle
  <2>6. Turns'
    BY DEF Turns, InCycle, Released
  <2>7. UNCHANGED P!playerVars
    BY DEF P!playerVars, InCycle
  <2> QED  BY <1>3, <1>4, <1>5, <1>6, <2>2, <2>3, <2>4, <2>5, <2>6, <2>7 DEF Plays
<1> QED  BY <1>3, <1>4, <1>5, <1>6, <1>7 DEF Keeps

LEMMA CurlCallbackKeeps ==
    ASSUME TypeInv, CurlCallback
    PROVE  Keeps
<1>1. PICK kind \in {"url", "data"} :
         /\ Runs("curl") /\ pc["curl"] = IF kind = "url" THEN "urlCallback" ELSE "dataCallback"
         /\ Callback("curl", kind, "set")
         /\ UNCHANGED <<taskVars, decoderVars, downloadVars, requestVars>>
  BY DEF CurlCallback, At
<1>2. /\ TypeInv' /\ Stepped("curl", "set")
      /\ items' \in [Items -> ItemType] /\ extendedTask \in Items
  BY <1>1, CallbackTypes
<1>3. ASSUME Undisturbed, PlayInv PROVE Plays
  <2>1. result
    BY <1>1, <1>3 DEF PlayInv, Transferring
  <2>2. \/ kind = "url" /\ items' = [items EXCEPT ![extendedTask]["url"] = TRUE]
        \/ /\ kind = "data"
           /\ items' = [items EXCEPT ![extendedTask]["state"] = "DownloadAndWriteFinished"]
    BY <1>1, <1>2, <2>1 DEF Callback, Put, TypeInv, DataOK
  <2>3. /\ items[extendedTask] \in ItemType /\ items \in [Items -> ItemType]
        /\ kind = "data" => items[extendedTask].size = SongSize
    BY <1>1, <1>2, <1>3 DEF PlayInv, Sizes, TypeInv, DataOK
  <2>4. \A i \in Items : /\ items'[i].should_skip = items[i].should_skip
                         /\ items'[i].read_error = items[i].read_error
                         /\ items'[i].size = items[i].size
                         /\ items'[i].state = items[i].state \/ items[i].size = SongSize
                         /\ items[i].url => items'[i].url
    BY <2>2, <2>3, <1>2 DEF ItemType
  <2>5. kind = "url" => items'[extendedTask].url
    BY <2>2, <2>3, <1>2 DEF ItemType
  <2> USE <1>1, <1>2, <1>3, <2>4 DEF PlayInv, Stepped, Moves, Processes, Coroutines, taskVars,
      decoderVars,
          downloadVars, requestVars
  <2>6. Calm'
    BY DEF Calm, SkipLabels, StopLabels
  <2>7. Transferring'
    BY <2>1, <2>5 DEF Transferring
  <2>8. Sizes'
    BY <2>3 DEF Sizes, Transferring, TypeInv, DataOK, InHand
  <2>9. Feeding'
    BY DEF Feeding, Fed, InCycle
  <2>10. Turns'
    BY DEF Turns, InCycle, Released
  <2>11. UNCHANGED P!playerVars
    BY DEF P!playerVars, InCycle
  <2> QED  BY <2>6, <2>7, <2>8, <2>9, <2>10, <2>11 DEF Plays
<1> QED  BY <1>2, <1>3 DEF Keeps

LEMMA CurlSetKeeps ==
    ASSUME TypeInv, CurlSet
    PROVE  Keeps
<1>1. Signalled("curl", CurlFinished(extendedTask), "idle")
  BY SetMoves, EventsAre DEF CurlSet, Labels, Processes, Coroutines, TypeInv, InHand, DataOK,
     At, SkipLabels, StopLabels
<1>2. InHand' /\ Counted'
  BY <1>1 DEF CurlSet, Signalled, Moves, InHand, Counted, SkipLabels,
     StopLabels, TypeInv, At, Processes, Coroutines, taskVars,
     downloadVars, requestVars
<1>3. TypeInv'  BY <1>1, <1>2, QuietTypes DEF CurlSet, At, Signalled, Processes, Coroutines
<1>4. ASSUME Undisturbed, PlayInv PROVE Plays
  <2> USE <1>1, <1>3, <1>4 DEF PlayInv, CurlSet, Signalled, Moves, TypeInv, At, Runs, Processes,
      Coroutines, taskVars, decoderVars, downloadVars, requestVars
  <2>1. Calm'  BY DEF Calm, SkipLabels, StopLabels
  <2>2. Transferring'  BY DEF Transferring
  <2>3. Sizes'  BY EventsDiffer, NoEventDiffers DEF Sizes, Awaits
  <2>4. Feeding'  BY EventsDiffer, NoEventDiffers DEF Feeding, Fed, InCycle, Awaits
  <2>5. Turns'  BY EventsDiffer, NoEventDiffers DEF Turns, InCycle, Released, Awaits
  <2>6. UNCHANGED P!playerVars  BY DEF P!playerVars, InCycle
  <2> QED  BY <2>1, <2>2, <2>3, <2>4, <2>5, <2>6 DEF Plays, PlayInv
<1> QED  BY <1>3, <1>4 DEF Keeps

-----------------------------------------------------------------------------
(* api: the handlers.                                                      *)
LEMMA CancelTaskKeeps ==
    ASSUME TypeInv, CancelTask
    PROVE  Keeps
<1>1. PICK l \in {back["api"], "urlCallback", "dataCallback"} :
         /\ Stepped("api", l) /\ back["api"] \in {"skipSender", "cleanUp"}
         /\ l \in {"urlCallback", "dataCallback"} => curl # "none"
  BY StepMoves DEF CancelTask, Labels, Processes, Coroutines, TypeInv, At, InHand
<1> USE <1>1 DEF CancelTask, Hit, Stepped, Moves, TypeInv, At, Processes, Coroutines, taskVars,
        decoderVars, downloadVars
<1>2. DataOK'
  BY DEF DataOK
<1>3. Awaits'
  BY DEF Awaits
<1>4. InHand'
  BY DEF InHand, SkipLabels, StopLabels
<1>5. Positions' /\ Counted'
  BY DEF Positions, Counted, SkipLabels, StopLabels
<1> QED  BY <1>2, <1>3, <1>4, <1>5 DEF Keeps, PlayInv, Calm

LEMMA CancelCallbackKeeps ==
    ASSUME TypeInv, CancelCallback
    PROVE  Keeps
<1>1. PICK kind \in {"url", "data"} :
         /\ Runs("api") /\ pc["api"] = IF kind = "url" THEN "urlCallback" ELSE "dataCallback"
         /\ Callback("api", kind, "set")
         /\ UNCHANGED <<taskVars, decoderVars, downloadVars, requestVars>>
  BY DEF CancelCallback, At
<1> QED  BY <1>1, CallbackTypes DEF Keeps, PlayInv, Calm

LEMMA CancelSetKeeps ==
    ASSUME TypeInv, CancelSet
    PROVE  Keeps
<1>1. Signalled("api", CurlFinished(extendedTask), back["api"])
  BY SetMoves, EventsAre DEF CancelSet, Labels, Processes, Coroutines, TypeInv, InHand, DataOK,
    At, Items
<1>2. InHand' /\ Counted'
  BY <1>1 DEF CancelSet, Signalled, Moves, InHand, Counted, SkipLabels,
     StopLabels, TypeInv, At, Processes, Coroutines, taskVars,
     downloadVars, requestVars
<1>3. TypeInv'  BY <1>1, <1>2, QuietTypes DEF CancelSet, At, Signalled, Processes, Coroutines
<1>4. ~(Undisturbed /\ PlayInv)  BY <1>1 DEF CancelSet, At, Undisturbed, PlayInv, Calm
<1> QED  BY <1>3, <1>4 DEF Keeps

LEMMA SkipRequestKeeps ==
    ASSUME TypeInv, SkipRequest
    PROVE  Keeps
<1>1. Stepped("api", "cancel")
  BY StepMoves, PipelineAssumption DEF SkipRequest, Labels, Processes, Coroutines, TypeInv
<1> USE <1>1, PipelineAssumption DEF SkipRequest, Stepped, Moves, TypeInv, At, Runs, Processes,
    Coroutines, taskVars, decoderVars, downloadVars, requestVars
<1>2. DataOK'  BY DEF DataOK
<1>3. Awaits'  BY DEF Awaits
<1>4. InHand'  BY DEF InHand, DataOK, SkipLabels, StopLabels
<1>5. Positions' /\ Counted'  BY DEF Positions, Counted, SkipLabels, StopLabels
<1>6. TypeInv'  BY <1>2, <1>3, <1>4, <1>5
<1>7. ~(Undisturbed /\ PlayInv)  BY DEF SkipRequest, At, Undisturbed, PlayInv, Calm
<1> QED  BY <1>6, <1>7 DEF Keeps

LEMMA SkipSenderKeeps ==
    ASSUME TypeInv, SkipSender
    PROVE  Keeps
<1>1. Stepped("api", "doSkip")
  BY StepMoves DEF SkipSender, Labels, Processes, Coroutines, TypeInv
<1> USE <1>1 DEF SkipSender, Stepped, Moves, TypeInv, At, Runs, Processes, Coroutines, taskVars,
    decoderVars, downloadVars, requestVars
<1>2. DataOK'  BY DEF DataOK
<1>3. Awaits'  BY DEF Awaits
<1>4. InHand'  BY DEF InHand, DataOK, SkipLabels, StopLabels
<1>5. Positions' /\ Counted'  BY DEF Positions, Counted, SkipLabels, StopLabels
<1>6. TypeInv'  BY <1>2, <1>3, <1>4, <1>5
<1>7. ~(Undisturbed /\ PlayInv)  BY DEF SkipSender, At, Undisturbed, PlayInv, Calm
<1> QED  BY <1>6, <1>7 DEF Keeps

LEMMA StopRequestKeeps ==
    ASSUME TypeInv, StopRequest
    PROVE  Keeps
<1>1. Stepped("api", "stop")  BY StepMoves DEF StopRequest, Labels, Processes, Coroutines, TypeInv
<1> USE <1>1 DEF StopRequest, Stepped, Moves, TypeInv, At, Runs, Processes, Coroutines, taskVars,
    decoderVars, downloadVars, requestVars
<1>2. DataOK'  BY DEF DataOK
<1>3. Awaits'  BY DEF Awaits
<1>4. InHand'  BY DEF InHand, SkipLabels, StopLabels
<1>5. Positions' /\ Counted'  BY DEF Positions, Counted, SkipLabels, StopLabels
<1>6. TypeInv'  BY <1>2, <1>3, <1>4, <1>5
<1>7. ~(Undisturbed /\ PlayInv)  BY DEF StopRequest, At, Undisturbed, PlayInv, Calm
<1> QED  BY <1>6, <1>7 DEF Keeps

LEMMA StopSignalKeeps ==
    ASSUME TypeInv, NEW p \in {"dl", "api"}, StopSignal(p)
    PROVE  Keeps
<1>1. Signalled(p, TaskUpdate, IF p = "dl" THEN "cleanUp" ELSE "cancel") /\ p \in Processes
  BY SetMoves, EventsAre DEF StopSignal, Labels, Processes, Coroutines, TypeInv
<1> USE <1>1 DEF StopSignal, Signalled, Moves, TypeInv, At, Runs, Processes, Coroutines, taskVars,
    decoderVars, downloadVars
<1>2. DataOK'  BY DEF DataOK
<1>3. Awaits'  BY EventsDiffer, NoEventDiffers DEF Awaits
<1>4. InHand'  BY DEF InHand, DataOK, SkipLabels, StopLabels
<1>5. Positions' /\ Counted'  BY DEF Positions, Counted, SkipLabels, StopLabels
<1>6. ~PlayInv  BY DEF PlayInv, Calm, StopLabels
<1> QED  BY <1>2, <1>3, <1>4, <1>5, <1>6 DEF Keeps

LEMMA CleanUpKeeps ==
    ASSUME TypeInv, NEW p \in {"dl", "api"}, CleanUp(p)
    PROVE  Keeps
<1>1. PICK e \in {ReadFinshed, NewDownload, FeedDecoder},
           l \in {"cleanUp.new", "cleanUp.feed", Stopped(p)} :
         Signalled(p, e, l)
  BY SetMoves, EventsAre DEF CleanUp, Stopped, Labels, Processes, Coroutines, TypeInv
<1>2. /\ pc[p] \in {"cleanUp", "cleanUp.new", "cleanUp.feed"} /\ Runs(p) /\ p \in Processes
      /\ UNCHANGED <<items, taskVars, decoderVars, downloadVars, requestVars>>
  BY DEF CleanUp, At, Processes, Coroutines
<1>3. InHand' /\ Counted'
  <2> USE <1>1, <1>2 DEF Signalled, Moves, Stopped, TypeInv, Processes, Coroutines, taskVars,
      downloadVars, requestVars, SkipLabels, StopLabels
  <2>1. InHand'  BY DEF InHand
  <2>2. Counted'  BY DEF Counted
  <2> QED  BY <2>1, <2>2
<1>4. TypeInv'
  BY <1>1, <1>2, <1>3, QuietTypes DEF Signalled
<1> QED  BY <1>2, <1>4 DEF Keeps, PlayInv, Calm, StopLabels

-----------------------------------------------------------------------------
(* The theorems.                                                           *)
LEMMA InitTypes ==
    ASSUME Init
    PROVE  TypeInv
<1> USE PipelineAssumption DEF Init
<1>1. ControlOK
  BY DEF ControlOK, Processes, Coroutines, Labels
<1>2. DataOK
  <2>1. NewItem \in ItemType
    BY DEF NewItem, ItemType
  <2>2. wrapper \in [kind : {"buffer", "queue"}, pos : 0 .. SongSize, is_eof : BOOLEAN]
    OBVIOUS
  <2>3. items \in [Items -> ItemType] /\ heard \in [Items -> 0 .. SongSize]
    BY <2>1
  <2>4. skips \in 0 .. MaxSkips
    OBVIOUS
  <2>5. /\ errors \in 0 .. MaxErrors + 2
        /\ back \in [{"dl", "dec", "api"} ->
                        {"idle", "top", "schedule", "oddReset", "skipSender", "cleanUp"}]
    OBVIOUS
  <2> QED  BY <2>2, <2>3, <2>4, <2>5 DEF DataOK
<1>3. Awaits /\ InHand /\ Positions /\ Counted
  BY DEF Awaits, InHand, Positions, Counted, SkipLabels, StopLabels, Processes, Coroutines, Items
<1> QED  BY <1>1, <1>2, <1>3 DEF TypeInv

LEMMA InitPlays ==
    ASSUME Undisturbed, Init
    PROVE  PlayInv /\ P!PlayerInit
<1> USE PipelineAssumption DEF Init, Processes, Coroutines
<1>1. Calm
  BY DEF Calm, NewItem, SkipLabels, StopLabels
<1>2. Transferring
  BY DEF Transferring
<1>3. Sizes
  BY DEF Sizes, NewItem
<1>4. Feeding
  BY DEF Feeding, Fed, InCycle
<1>5. Turns
  BY DEF Turns, InCycle, Released
<1>6. P!PlayerInit
  BY DEF P!PlayerInit, InCycle, Items
<1> QED  BY <1>1, <1>2, <1>3, <1>4, <1>5, <1>6, InitTypes DEF PlayInv

\* Every step keeps both invariants.
LEMMA NextKeeps ==
    ASSUME TypeInv, [Next]_vars
    PROVE  Keeps
<1>1. CASE DlStep
  BY <1>1, DlTopKeeps, DlNextKeeps, DlNoHandleKeeps, DlWokenKeeps, DlGetRealUrlKeeps,
     DlUrlFinishedKeeps, DlUrlCheckKeeps, DlSetDataKeeps, DlAnnounceKeeps, DlExecuteKeeps,
     DlAddTaskKeeps, DlCurlFinishedKeeps, DlScheduleKeeps, DlDownloadedKeeps, DlAwaitReadKeeps,
     DoSkipKeeps, StopSignalKeeps, CleanUpKeeps
     DEF DlStep
<1>2. CASE CtlStep
  BY <1>2, CtlTopKeeps, CtlWokenKeeps, CtlPollKeeps, CtlProbeKeeps, CtlUnknownFormatKeeps,
     CtlSetupKeeps, CtlEnoughToFeedKeeps, CtlInfoKeeps, CtlFeedKeeps, CtlFedKeeps, CtlTickKeeps,
     CtlTickedKeeps, CtlRefeedKeeps, CtlEofKeeps, CtlFinishedKeeps, CtlReleaseKeeps,
     CtlDrainKeeps, CtlCloseKeeps
     DEF CtlStep
<1>3. CASE DecStep
  BY <1>3, DecTopKeeps, DecCheckKeeps, DecFedKeeps, DecReadOkKeeps, DecOddResetKeeps,
     DecReadOtherKeeps, DecNotifyKeeps, DecErrorKeeps, DoSkipKeeps
     DEF DecStep
<1>4. CASE CurlStep
  BY <1>4, CurlDataKeeps, CurlTakeKeeps, CurlCallbackKeeps, CurlSetKeeps DEF CurlStep
<1>5. CASE ApiStep \/ SkipRequest \/ StopRequest
  BY <1>5, CancelTaskKeeps, CancelCallbackKeeps, CancelSetKeeps, SkipSenderKeeps, DoSkipKeeps,
     StopSignalKeeps, CleanUpKeeps, SkipRequestKeeps, StopRequestKeeps
     DEF ApiStep
<1>6. CASE UNCHANGED vars
  <2> USE <1>6 DEF vars
  <2>1. TypeInv'
    <3>1. ControlOK' /\ DataOK'  BY DEF TypeInv, ControlOK, DataOK
    <3>2. Awaits' /\ InHand' /\ Positions' /\ Counted'
      BY DEF TypeInv, Awaits, InHand, Positions, Counted
    <3> QED  BY <3>1, <3>2 DEF TypeInv
  <2>2. ASSUME PlayInv PROVE Plays
    <3>1. Calm' /\ Transferring'  BY <2>2 DEF PlayInv, Calm, Transferring
    <3>2. Sizes' /\ Feeding' /\ Turns'
      BY <2>2 DEF PlayInv, Sizes, Feeding, Fed, Turns, InCycle, Released
    <3>3. UNCHANGED P!playerVars  BY DEF P!playerVars, InCycle
    <3> QED  BY <2>1, <3>1, <3>2, <3>3 DEF Plays, PlayInv
  <2> QED  BY <2>1, <2>2 DEF Keeps
<1> QED  BY <1>1, <1>2, <1>3, <1>4, <1>5, <1>6 DEF Next

(* Whatever the songs are, and whatever fails, is skipped or stopped, the
   variables keep their types: above all no buffer grows past its song and no
   decoder reads past the end of one.                                       *)
THEOREM PipelineTypes == Spec => []TypeOK
<1>1. Init => TypeInv
  BY InitTypes
<1>2. TypeInv /\ [Next]_vars => TypeInv'
  BY NextKeeps DEF Keeps
<1>3. TypeInv => TypeOK
  BY TypeParts DEF TypeInv
<1> QED  BY <1>1, <1>2, <1>3, PTL DEF Spec

\* The invariant of an undisturbed list.
LEMMA PlayInvHolds ==
    ASSUME Undisturbed
    PROVE  Spec => []PlayInv
<1>1. Init => PlayInv
  BY InitPlays
<1>2. PlayInv /\ [Next]_vars => PlayInv'
  BY NextKeeps DEF Keeps, Plays, PlayInv
<1> QED  BY <1>1, <1>2, PTL DEF Spec

(* Of a list that nobody disturbs, every song is decoded to its end before its
   cycle releases the download loop.                                        *)
THEOREM SongsPlayedWhole ==
    ASSUME Undisturbed
    PROVE  Spec => []PlayedWhole
<1>1. PlayInv => PlayedWhole
  BY DEF PlayInv, Turns, PlayedWhole
<1> QED  BY <1>1, PlayInvHolds, PTL

(* Undisturbed, the download loop waits for the control cycle of its task: it
   never takes another while ctl still works on one.                        *)
THEOREM LoopWaits ==
    ASSUME Undisturbed
    PROVE  Spec => []LoopWaitsForCycle
<1>1. PlayInv => LoopWaitsForCycle
  BY DEF PlayInv, Turns, LoopWaitsForCycle
<1> QED  BY <1>1, PlayInvHolds, PTL

(* Undisturbed, the one step in which ctl uses the decoder while dec is in read()
   is the one that marks the end of the download and asks for the length, and
   the whole song has arrived by then: ctl never sets it up, asks for the format
   or closes it meanwhile.                                                  *)
THEOREM OverlapsOnlyAtEof ==
    ASSUME Undisturbed
    PROVE  Spec => []OverlapOnlyAtEof
<1>1. PlayInv => OverlapOnlyAtEof
  BY DEF PlayInv, Feeding, Fed, Sizes, At, UsesDecoder, OverlapOnlyAtEof
<1> QED  BY <1>1, PlayInvHolds, PTL

(* Undisturbed, EventReadFinshed, which is one for all songs, is set only in the
   cycle that consumes it.                                                  *)
THEOREM FinishNotLeftOver ==
    ASSUME Undisturbed
    PROVE  Spec => []NoLeftOverFinish
<1>1. PlayInv => NoLeftOverFinish
  BY DEF PlayInv, Feeding, InCycle, NoLeftOverFinish
<1> QED  BY <1>1, PlayInvHolds, PTL

(* Undisturbed, every behaviour of the pipeline is one of Player, seen through
   the control cycle: songs in order, one at a time, each heard only in its
   turn, and a turn ends only when the whole song was heard.                *)
THEOREM ImplementsPlayer ==
    ASSUME Undisturbed
    PROVE  Spec => P!PlayerSpec
<1>1. Init => P!PlayerInit
  BY InitPlays
<1>2. PlayInv /\ [Next]_vars => [P!PlayerNext]_(P!playerVars)
  BY NextKeeps DEF Keeps, Plays, PlayInv
<1> QED  BY <1>1, <1>2, PlayInvHolds, PTL DEF Spec, P!PlayerSpec
=============================================================================
