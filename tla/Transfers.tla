----------------------------- MODULE Transfers ------------------------------
(***************************************************************************)
(* CurlMultiManager: one worker thread drives the transfers of all streams *)
(* and calls each one's callback; the handlers' thread cancels transfers;  *)
(* the destructor stops the manager.  Every function's critical section    *)
(* under mutex_ is one action, what it does outside the lock is another.   *)
(*                                                                         *)
(* A job is a stream's download loop: it waits for the callback of its     *)
(* transfer, then starts another one on the same easy handle (getRealUrl,  *)
(* then executeDownload) or on a new one, for which curl_easy_init may     *)
(* return the address of any handle nobody holds any more.                 *)
(***************************************************************************)
EXTENDS Integers

CONSTANTS
    Jobs, Handles,     \* streams and addresses of easy handles
    NoHandle, NoJob,   \* neither of them
    MaxTransfers,      \* bound on the transfers of every job
    MaxCancels,        \* bound on skipDownload calls
    MayStop            \* the manager may be stopped

ASSUME TransfersAssumption ==
    /\ NoHandle \notin Handles /\ NoJob \notin Jobs
    /\ MaxTransfers \in [Jobs -> Nat] /\ MaxCancels \in Nat
    /\ MayStop \in BOOLEAN

\* A transfer, and with it its callback: the n-th one of job j.
Ids == UNION {{j} \X (1 .. MaxTransfers[j]) : j \in Jobs}
None == <<NoJob, 0>>

VARIABLES
    running,      \* running_
    callbacks,    \* callbacks_, and handles_, which has the same keys
    multi,        \* the transfer every handle in multi_handle_ is driven for
    messages,     \* libcurl's messages of ended transfers, in no promised order
    worker,       \* run: label, local easy and cb, the transfer of result
    job,          \* the download loops: label, handle, transfers so far
    api,          \* cancelTask: label, argument, cb
    stopper,      \* stop: label
    cancels,      \* cancelTask calls so far
    calls, told   \* history: calls of every callback; whose end it was told

transferVars == <<running, callbacks, multi, messages, worker, job, api,
                  stopper, cancels, calls, told>>

Current(j) == <<j, job[j].n>>
Registered == {h \in Handles : callbacks[h] # None}
Held(h) == (\E j \in Jobs : job[j].handle = h) \/ callbacks[h] # None

TransfersInit ==
    /\ running = TRUE
    /\ callbacks = [h \in Handles |-> None]
    /\ multi = [h \in Handles |-> None]
    /\ messages = {}
    /\ worker = [pc |-> "run", easy |-> NoHandle, of |-> None, cb |-> None]
    /\ job = [j \in Jobs |-> [pc |-> "idle", handle |-> NoHandle, n |-> 0]]
    /\ api = [pc |-> "idle", handle |-> NoHandle, cb |-> None]
    /\ stopper = "idle"
    /\ cancels = 0
    /\ calls = [t \in Ids |-> 0]
    /\ told = [t \in Ids |-> None]

-----------------------------------------------------------------------------
\* cv_.notify: a sleeping worker looks again.
Notified(w) == IF w.pc = "asleep" THEN [w EXCEPT !.pc = "run"] ELSE w

\* curl_multi_remove_handle: the handle leaves, and its messages with it.
RemoveHandle(h) ==
    /\ multi' = [multi EXCEPT ![h] = None]
    /\ messages' = {m \in messages : m.handle # h}

\* cb(result, ...): the callback sets EventCurlFinished, its job goes on.
Call(t, of) ==
    /\ calls' = [calls EXCEPT ![t] = @ + 1]
    /\ told' = [told EXCEPT ![t] = of]
    /\ job' = [job EXCEPT ![t[1]].pc = "answered"]

-----------------------------------------------------------------------------
(* The jobs.                                                               *)
\* The next song: curl_easy_init, and the old handle is let go.
NewHandle(j, h) ==
    /\ job[j].pc \in {"idle", "answered"}
    /\ job[j].n < MaxTransfers[j]
    /\ ~Held(h)
    /\ job' = [job EXCEPT ![j].pc = "add", ![j].handle = h, ![j].n = @ + 1]
    /\ UNCHANGED <<running, callbacks, multi, messages, worker, api, stopper,
                   cancels, calls, told>>

\* executeDownload after getRealUrl.
SameHandle(j) ==
    /\ job[j].pc = "answered"
    /\ job[j].n < MaxTransfers[j]
    /\ job' = [job EXCEPT ![j].pc = "add", ![j].n = @ + 1]
    /\ UNCHANGED <<running, callbacks, multi, messages, worker, api, stopper,
                   cancels, calls, told>>

AddTaskSilently(j) ==
    /\ job[j].pc = "add"
    /\ multi[job[j].handle] = None
    /\ callbacks' = [callbacks EXCEPT ![job[j].handle] = Current(j)]
    /\ multi' = [multi EXCEPT ![job[j].handle] = Current(j)]
    /\ job' = [job EXCEPT ![j].pc = "waiting"]
    /\ UNCHANGED <<running, messages, worker, api, stopper, cancels, calls, told>>

AddTask(j) ==
    /\ job[j].pc = "add"
    /\ multi[job[j].handle] = None
    /\ callbacks' = [callbacks EXCEPT ![job[j].handle] = Current(j)]
    /\ multi' = [multi EXCEPT ![job[j].handle] = Current(j)]
    /\ job' = [job EXCEPT ![j].pc = "waiting"]
    /\ worker' = Notified(worker)
    /\ UNCHANGED <<running, messages, api, stopper, cancels, calls, told>>

\* add_handle fails, always for a handle that is still in the multi handle:
\* the callback is called before addTask returns, and the worker not notified.
AddTaskFails(j) ==
    /\ job[j].pc = "add"
    /\ Call(Current(j), Current(j))
    /\ UNCHANGED <<running, callbacks, multi, messages, worker, api, stopper, cancels>>

-----------------------------------------------------------------------------
(* The worker.                                                             *)
Worker(pc) == worker' = [worker EXCEPT !.pc = pc]

WorkerLooks ==
    /\ worker.pc = "run"
    /\ Worker(IF Registered # {} THEN "perform"
              ELSE IF running THEN "asleep" ELSE "done")
    /\ UNCHANGED <<running, callbacks, multi, messages, job, api, stopper,
                   cancels, calls, told>>

\* curl_multi_perform: a transfer ends, well or badly.
TransferEnds(h) ==
    /\ worker.pc = "perform"
    /\ multi[h] # None
    /\ \A m \in messages : m.handle # h
    /\ messages' = messages \cup {[handle |-> h, of |-> multi[h]]}
    /\ UNCHANGED <<running, callbacks, multi, worker, job, api, stopper,
                   cancels, calls, told>>

\* perform and wait are done, or one of them failed.
WorkerPerformed ==
    /\ worker.pc = "perform"
    /\ \E pc \in {"read", "run"} : Worker(pc)
    /\ UNCHANGED <<running, callbacks, multi, messages, job, api, stopper,
                   cancels, calls, told>>

\* curl_multi_info_read, before the lock is taken.
WorkerReads ==
    /\ worker.pc = "read"
    /\ \/ messages = {} /\ Worker("run") /\ UNCHANGED messages
       \/ \E m \in messages :
             /\ worker' = [worker EXCEPT !.pc = "lock", !.easy = m.handle, !.of = m.of]
             /\ messages' = messages \ {m}
    /\ UNCHANGED <<running, callbacks, multi, job, api, stopper, cancels, calls, told>>

WorkerTakesKeepingMulti ==
    /\ worker.pc = "lock"
    /\ worker' = [worker EXCEPT !.pc = IF callbacks[worker.easy] = None THEN "read" ELSE "call",
                                !.cb = callbacks[worker.easy]]
    /\ callbacks' = [callbacks EXCEPT ![worker.easy] = None]
    /\ UNCHANGED <<running, multi, messages, job, api, stopper, cancels, calls, told>>

WorkerTakes ==
    /\ worker.pc = "lock"
    /\ RemoveHandle(worker.easy)
    /\ worker' = [worker EXCEPT !.pc = IF callbacks[worker.easy] = None THEN "read" ELSE "call",
                                !.cb = callbacks[worker.easy]]
    /\ callbacks' = [callbacks EXCEPT ![worker.easy] = None]
    /\ UNCHANGED <<running, job, api, stopper, cancels, calls, told>>

WorkerCalls ==
    /\ worker.pc = "call"
    /\ Call(worker.cb, worker.of)
    /\ worker' = [worker EXCEPT !.pc = "read", !.cb = None]
    /\ UNCHANGED <<running, callbacks, multi, messages, api, stopper, cancels>>

WorkerStep ==
    WorkerLooks \/ WorkerPerformed \/ WorkerReads \/ WorkerTakes \/ WorkerCalls

-----------------------------------------------------------------------------
(* cancelTask, called by skipDownload with the address of a job's handle.  *)
SkipDownload(j) ==
    /\ api.pc = "idle"
    /\ cancels < MaxCancels
    /\ job[j].handle # NoHandle
    /\ cancels' = cancels + 1
    /\ api' = [api EXCEPT !.pc = "lock", !.handle = job[j].handle]
    /\ UNCHANGED <<running, callbacks, multi, messages, worker, job, stopper, calls, told>>

CancelTakesKeepingCallback ==
    /\ api.pc = "lock"
    /\ IF callbacks[api.handle] = None
         THEN /\ api' = [api EXCEPT !.pc = "notify"]
              /\ UNCHANGED <<multi, messages>>
         ELSE /\ RemoveHandle(api.handle)
              /\ api' = [api EXCEPT !.pc = "call", !.cb = callbacks[api.handle]]
    /\ UNCHANGED <<running, callbacks, worker, job, stopper, cancels, calls, told>>

CancelTakesKeepingMulti ==
    /\ api.pc = "lock"
    /\ IF callbacks[api.handle] = None
         THEN /\ api' = [api EXCEPT !.pc = "notify"]
              /\ UNCHANGED callbacks
         ELSE /\ api' = [api EXCEPT !.pc = "call", !.cb = callbacks[api.handle]]
              /\ callbacks' = [callbacks EXCEPT ![api.handle] = None]
    /\ UNCHANGED <<running, multi, messages, worker, job, stopper, cancels, calls, told>>

CancelTakes ==
    /\ api.pc = "lock"
    /\ IF callbacks[api.handle] = None
         THEN /\ api' = [api EXCEPT !.pc = "notify"]
              /\ UNCHANGED <<callbacks, multi, messages>>
         ELSE /\ RemoveHandle(api.handle)
              /\ api' = [api EXCEPT !.pc = "call", !.cb = callbacks[api.handle]]
              /\ callbacks' = [callbacks EXCEPT ![api.handle] = None]
    /\ UNCHANGED <<running, worker, job, stopper, cancels, calls, told>>

CancelCalls ==
    /\ api.pc = "call"
    /\ Call(api.cb, api.cb)
    /\ api' = [api EXCEPT !.pc = "notify", !.cb = None]
    /\ UNCHANGED <<running, callbacks, multi, messages, worker, stopper, cancels>>

CancelNotifies ==
    /\ api.pc = "notify"
    /\ api' = [api EXCEPT !.pc = "idle", !.handle = NoHandle]
    /\ worker' = Notified(worker)
    /\ UNCHANGED <<running, callbacks, multi, messages, job, stopper, cancels, calls, told>>

CancelStep == CancelTakes \/ CancelCalls \/ CancelNotifies

-----------------------------------------------------------------------------
(* stop, called by the destructor.                                         *)
Stop ==
    /\ stopper = "idle"
    /\ MayStop
    /\ running' = FALSE
    /\ stopper' = "notify"
    /\ UNCHANGED <<callbacks, multi, messages, worker, job, api, cancels, calls, told>>

StopNotifies ==
    /\ stopper = "notify"
    /\ stopper' = "join"
    /\ worker' = Notified(worker)
    /\ UNCHANGED <<running, callbacks, multi, messages, job, api, cancels, calls, told>>

\* Whatever was added after the worker's last look is aborted.
StopSweeps ==
    /\ stopper = "join"
    /\ worker.pc = "done"
    /\ stopper' = "stopped"
    /\ LET left == {callbacks[h] : h \in Registered} IN
         /\ calls' = [t \in Ids |-> IF t \in left THEN calls[t] + 1 ELSE calls[t]]
         /\ told' = [t \in Ids |-> IF t \in left THEN t ELSE told[t]]
         /\ job' = [j \in Jobs |-> IF Current(j) \in left
                                     THEN [job[j] EXCEPT !.pc = "answered"] ELSE job[j]]
    /\ multi' = [h \in Handles |-> IF h \in Registered THEN None ELSE multi[h]]
    /\ messages' = {m \in messages : m.handle \notin Registered}
    /\ callbacks' = [h \in Handles |-> None]
    /\ UNCHANGED <<running, worker, api, cancels>>

StopStep == StopNotifies \/ StopSweeps

-----------------------------------------------------------------------------
TransfersNext ==
    \/ \E j \in Jobs : \/ \E h \in Handles : NewHandle(j, h)
                       \/ SameHandle(j) \/ AddTask(j) \/ AddTaskFails(j)
                       \/ SkipDownload(j)
    \/ WorkerStep \/ (\E h \in Handles : TransferEnds(h))
    \/ CancelStep
    \/ Stop \/ StopStep

TransfersSpec == TransfersInit /\ [][TransfersNext]_transferVars

(* The threads run, perform and wait do not fail for ever, and a transfer  *)
(* that is driven again and again ends: a file by its length or the        *)
(* low-speed limit.                                                        *)
FairTransfersSpec ==
    /\ TransfersSpec
    /\ WF_transferVars(WorkerStep) /\ WF_transferVars(CancelStep)
    /\ WF_transferVars(StopStep)
    /\ SF_transferVars(worker.pc = "perform" /\ WorkerPerformed /\ worker'.pc = "read")
    /\ \A h \in Handles : SF_transferVars(TransferEnds(h))

-----------------------------------------------------------------------------
TransfersTypeOK ==
    /\ running \in BOOLEAN
    /\ callbacks \in [Handles -> Ids \cup {None}]
    /\ multi \in [Handles -> Ids \cup {None}]
    /\ messages \subseteq [handle : Handles, of : Ids]
    /\ worker \in [pc : {"run", "asleep", "perform", "read", "lock", "call", "done"},
                   easy : Handles \cup {NoHandle}, of : Ids \cup {None}, cb : Ids \cup {None}]
    /\ job \in [Jobs -> [pc : {"idle", "add", "waiting", "answered"},
                         handle : Handles \cup {NoHandle}, n : Nat]]
    /\ \A j \in Jobs : job[j].n <= MaxTransfers[j]
    /\ api \in [pc : {"idle", "lock", "call", "notify"},
                handle : Handles \cup {NoHandle}, cb : Ids \cup {None}]
    /\ stopper \in {"idle", "notify", "join", "stopped"}
    /\ cancels \in 0 .. MaxCancels
    /\ calls \in [Ids -> 0 .. 1]
    /\ told \in [Ids -> Ids \cup {None}]

Waits(t) == job[t[1]].pc = "waiting" /\ job[t[1]].n = t[2]

\* Whoever cancels, completes or sweeps a transfer, in whatever order: a job
\* that waits has its callback in exactly one place, and a callback that was
\* called is in none (CurlMultiManager.cpp:61-71, 158-174, 95-104).
OneAnswer ==
    /\ \A t \in Ids : Waits(t) =>
          /\ calls[t] = 0
          /\ callbacks[job[t[1]].handle] = t \/ worker.cb = t \/ api.cb = t
    /\ \A h \in Registered : Waits(callbacks[h]) /\ job[callbacks[h][1]].handle = h
    /\ worker.cb # None => Waits(worker.cb)
    /\ api.cb # None => Waits(api.cb)
    /\ worker.cb # None => worker.cb # api.cb
    /\ \A h \in Registered : callbacks[h] \notin {worker.cb, api.cb}

\* A callback asks its handle for the HTTP code, and libcurl uses the handles it
\* drives: none of them has been freed (CurlMultiManager.cpp:48-50,
\* DownloadManager.cpp:216-247).  A handle never enters the multi handle twice.
HandlesAlive ==
    /\ \A h \in Handles : multi[h] # None =>
          callbacks[h] = multi[h] /\ Held(h)
    /\ \A t \in {worker.cb, api.cb} \ {None} :
          job[t[1]].handle # NoHandle /\ multi[job[t[1]].handle] = None
    /\ \A j \in Jobs : job[j].pc = "add" => multi[job[j].handle] = None

\* The end of one transfer is reported to the callback of another only when a
\* skip came between curl_multi_info_read and the lock: a message not yet read is
\* of the transfer registered, and what the worker has read is of it or of one
\* whose callback a skip has taken (CurlMultiManager.cpp:151-171).
StaleOnlyAfterCancel ==
    /\ \A m \in messages : callbacks[m.handle] = m.of
    /\ worker.pc = "lock" /\ callbacks[worker.easy] # worker.of =>
          api.cb = worker.of \/ calls[worker.of] = 1
    /\ \A t \in Ids : told[t] \notin {t, None} => cancels > 0

\* Every transfer added before stop has swept the registry is called back: the
\* worker does not sleep through it and does not leave it behind
\* (CurlMultiManager.cpp:110-121, 83-105).
Answered ==
    \A t \in Ids : (stopper # "stopped" /\ Waits(t)) ~> (calls[t] = 1)
=============================================================================
