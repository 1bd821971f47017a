--------------------------- MODULE StreamRegistry ---------------------------
(***************************************************************************)
(* Which streams exist: Handlers::instanceMap, the DownloadManagers in it, *)
(* RTPManager's weak pointers and the RTPInstances the managers share.     *)
(*                                                                         *)
(* The handlers' thread serves one request after the other; a manager ends *)
(* on the thread pool, where it erases its entry and deletes itself.  The  *)
(* k-th start makes manager k, its media stream k and, where no instance   *)
(* of the stream id lives, RTPInstance k.                                  *)
(***************************************************************************)
EXTENDS Integers, FiniteSets

CONSTANTS
    StreamIds,      \* the ids requests name
    NoId,           \* no id
    MaxStarts,      \* bound on start requests
    Polite          \* clients start a stream only when they have stopped it

ASSUME RegistryAssumption ==
    /\ NoId \notin StreamIds
    /\ MaxStarts \in Nat
    /\ Polite \in BOOLEAN

Starts == 1 .. MaxStarts

VARIABLES
    instanceMap,    \* the manager of every id, 0 for no entry
    rtpInstances,   \* the instance of every id, 0 for no entry; a weak pointer
    managers,       \* id, label, rtp_instance_ and the main_stream it sends to
    instances,      \* main_stream_, streams_, stream_timestamps_ and mutex_
    destroyed,      \* how often each media stream was given to destroy_stream
    main,           \* handlers' thread: label, id, manager and instance in hand
    started,        \* start requests so far
    stopped         \* history: managers a stop request was sent to

registryVars ==
    <<instanceMap, rtpInstances, managers, instances, destroyed, main, started, stopped>>

NewManager == [id |-> NoId, pc |-> "none", instance |-> 0, sends |-> 0]
NewInstance == [main |-> 0, streams |-> [i \in StreamIds |-> 0], stamps |-> {},
                locked |-> FALSE]
Idle == [pc |-> "idle", id |-> NoId, manager |-> 0, instance |-> 0]

RegistryInit ==
    /\ instanceMap = [i \in StreamIds |-> 0]
    /\ rtpInstances = [i \in StreamIds |-> 0]
    /\ managers = [k \in Starts |-> NewManager]
    /\ instances = [k \in Starts |-> NewInstance]
    /\ destroyed = [s \in Starts |-> 0]
    /\ main = Idle
    /\ started = 0
    /\ stopped = {}

Lives(k) == managers[k].pc \notin {"none", "deleted"}

\* Somebody has a shared_ptr to the instance: its weak pointer can be locked.
Owned(x) == main.instance = x \/ \E k \in Starts : Lives(k) /\ managers[k].instance = x

\* Who has a shared_ptr to media stream s of instance x.
Referenced(inst, s) ==
    \/ inst.main = s
    \/ s \in inst.stamps
    \/ \E i \in StreamIds : inst.streams[i] = s

-----------------------------------------------------------------------------
(* startStreamHandler.                                                     *)
\* Before a client starts a stream again it has stopped it.
MayStart(id) ==
    Polite => \A k \in Starts : Lives(k) /\ managers[k].id = id => k \in stopped

\* The weak pointer is tested and locked in one call.
ReusableUnlocked(id) == rtpInstances[id] # 0

Reusable(id) == rtpInstances[id] # 0 /\ Owned(rtpInstances[id])

\* getRTPInstance
StartRequest(id) ==
    /\ main.pc = "idle"
    /\ started < MaxStarts
    /\ MayStart(id)
    /\ started' = started + 1
    /\ main' = [pc |-> "create", id |-> id, manager |-> started',
                instance |-> IF Reusable(id) THEN rtpInstances[id] ELSE started']
    /\ rtpInstances' = IF Reusable(id) THEN rtpInstances
                       ELSE [rtpInstances EXCEPT ![id] = started']
    /\ UNCHANGED <<instanceMap, managers, instances, destroyed, stopped>>

\* createStream takes the lock and asks the session for a stream.  The shared_ptr
\* of a stream that could not be made still has its deleter, which runs at the
\* return, before the lock is given back: the thread waits for itself for ever.
CreateStream ==
    /\ main.pc = "create"
    /\ ~instances[main.instance].locked
    /\ instances' = [instances EXCEPT ![main.instance].locked = TRUE]
    /\ \/ main' = [main EXCEPT !.pc = "store"]
       \/ main' = [main EXCEPT !.pc = "noStream"]
    /\ UNCHANGED <<instanceMap, rtpInstances, managers, destroyed, started, stopped>>

\* The new stream in the three places that keep it.
StoredWithoutStamp(inst, id, s) ==
    [inst EXCEPT !.main = IF @ = 0 THEN s ELSE @, !.streams[id] = s]

Stored(inst, id, s) ==
    [inst EXCEPT !.main = IF @ = 0 THEN s ELSE @, !.streams[id] = s,
                 !.stamps = @ \cup {s}]

\* The stream the id had is let go; were that its last reference, its deleter
\* would run here, under the lock that destroyStream takes again.
StoreStream ==
    /\ main.pc = "store"
    /\ LET x   == main.instance
           old == instances[x].streams[main.id]
           new == Stored(instances[x], main.id, main.manager)
           dropped == old # 0 /\ ~Referenced(new, old)
       IN /\ instances' = [instances EXCEPT ![x] = [new EXCEPT !.locked = dropped]]
          /\ main' = [main EXCEPT !.pc = IF dropped THEN "deleter" ELSE "register"]
    /\ UNCHANGED <<instanceMap, rtpInstances, managers, destroyed, started, stopped>>

\* The manager is made, entered and started, and the handler's references end.
Register ==
    /\ main.pc = "register"
    /\ instanceMap' = [instanceMap EXCEPT ![main.id] = main.manager]
    /\ managers' = [managers EXCEPT ![main.manager] =
                        [id |-> main.id, pc |-> "starting",
                         instance |-> main.instance, sends |-> 0]]
    /\ main' = Idle
    /\ UNCHANGED <<rtpInstances, instances, destroyed, started, stopped>>

StartStep == CreateStream \/ StoreStream \/ Register

-----------------------------------------------------------------------------
(* stopStreamHandler.                                                      *)
StopRequest(id) ==
    /\ main.pc = "idle"
    /\ instanceMap[id] # 0
    /\ main' = [main EXCEPT !.pc = "cleanup", !.id = id, !.manager = instanceMap[id]]
    /\ stopped' = stopped \cup {instanceMap[id]}
    /\ UNCHANGED <<instanceMap, rtpInstances, managers, instances, destroyed, started>>

\* cleanupJob.  A manager that is ending by itself is told again; it may be gone
\* by then, and what the call does to it has no effect here.
Cleanup(k) ==
    managers' = [managers EXCEPT ![k].pc =
                     IF @ = "starting" THEN "stopping" ELSE IF @ = "running" THEN "ending" ELSE @]

StopCleanup ==
    /\ main.pc = "cleanup"
    /\ Cleanup(main.manager)
    /\ main' = [main EXCEPT !.pc = "remove"]
    /\ UNCHANGED <<instanceMap, rtpInstances, instances, destroyed, started, stopped>>

StopForgetsInstance ==
    /\ main.pc = "remove"
    /\ main' = Idle
    /\ UNCHANGED <<instanceMap, rtpInstances, managers, instances, destroyed, started, stopped>>

\* removeInstance
StopRemoves ==
    /\ main.pc = "remove"
    /\ rtpInstances' = [rtpInstances EXCEPT ![main.id] = 0]
    /\ main' = Idle
    /\ UNCHANGED <<instanceMap, managers, instances, destroyed, started, stopped>>

StopStep == StopCleanup \/ StopRemoves

-----------------------------------------------------------------------------
(* The managers' coroutines.                                               *)
\* start_sender, after its first second, asks for the main stream.
SenderBegins(k) ==
    /\ managers[k].pc \in {"starting", "stopping"}
    /\ ~instances[managers[k].instance].locked
    /\ managers' = [managers EXCEPT
            ![k].sends = instances[managers[k].instance].main,
            ![k].pc = IF @ = "starting" THEN "running" ELSE "ending"]
    /\ UNCHANGED <<instanceMap, rtpInstances, instances, destroyed, main, started, stopped>>

\* Too many errors: the loop calls cleanupJob by itself.
SelfEnd(k) ==
    /\ managers[k].pc \in {"starting", "running"}
    /\ Cleanup(k)
    /\ UNCHANGED <<instanceMap, rtpInstances, instances, destroyed, main, started, stopped>>

RemoveCallbackSkipped(k) ==
    /\ managers[k].pc = "ending"
    /\ managers' = [managers EXCEPT ![k].pc = "removed"]
    /\ UNCHANGED <<instanceMap, rtpInstances, instances, destroyed, main, started, stopped>>

\* initAndWaitJobs, when the coroutines are gone: the removal callback.
RemoveCallback(k) ==
    /\ managers[k].pc = "ending"
    /\ instanceMap' = [instanceMap EXCEPT ![managers[k].id] = 0]
    /\ managers' = [managers EXCEPT ![k].pc = "removed"]
    /\ UNCHANGED <<rtpInstances, instances, destroyed, main, started, stopped>>

\* What ~RTPInstance gives to destroy_stream: every stream of streams_, then the
\* main stream, which is one of them unless a later start of its id replaced it.
Destructions(inst, s) ==
    (IF \E i \in StreamIds : inst.streams[i] = s THEN 1 ELSE 0)
    + (IF inst.main = s THEN 1 ELSE 0)

\* delete this; the last owner of the RTPInstance destroys it.  Its members go
\* after its body, and the deleters of the streams they held run on members that
\* are gone already: what that does is undefined and not followed further, nobody
\* can reach the instance any more.
DeleteManager(k) ==
    /\ managers[k].pc = "removed"
    /\ managers' = [managers EXCEPT ![k].pc = "deleted"]
    /\ LET x == managers[k].instance
           last == main.instance # x /\ \A m \in Starts \ {k} :
                       Lives(m) => managers[m].instance # x
       IN destroyed' = IF last
                         THEN [s \in Starts |-> destroyed[s] + Destructions(instances[x], s)]
                         ELSE destroyed
    /\ UNCHANGED <<instanceMap, rtpInstances, instances, main, started, stopped>>

ManagerStep(k) == SenderBegins(k) \/ RemoveCallback(k) \/ DeleteManager(k)

-----------------------------------------------------------------------------
RegistryNext ==
    \/ \E id \in StreamIds : StartRequest(id) \/ StopRequest(id)
    \/ StartStep \/ StopStep
    \/ \E k \in Starts : SelfEnd(k) \/ ManagerStep(k)

RegistrySpec == RegistryInit /\ [][RegistryNext]_registryVars

-----------------------------------------------------------------------------
RegistryTypeOK ==
    /\ instanceMap \in [StreamIds -> 0 .. started]
    /\ rtpInstances \in [StreamIds -> 0 .. started]
    /\ managers \in [Starts -> [id : StreamIds \cup {NoId},
                                pc : {"none", "starting", "stopping", "running", "ending",
                                      "removed", "deleted"},
                                instance : 0 .. started, sends : 0 .. started]]
    /\ instances \in [Starts -> [main : 0 .. started, streams : [StreamIds -> 0 .. started],
                                 stamps : SUBSET (1 .. started), locked : BOOLEAN]]
    /\ destroyed \in [Starts -> Nat]
    /\ \A x \in Starts : \A s \in 1 .. started :
          Referenced(instances[x], s) => s \in instances[x].stamps
    /\ main \in [pc : {"idle", "create", "noStream", "store", "deleter", "register", "cleanup",
                       "remove"},
                 id : StreamIds \cup {NoId}, manager : 0 .. started, instance : 0 .. started]
    /\ started \in 0 .. MaxStarts
    /\ stopped \subseteq 1 .. started

\* An entry is of a manager that was started for that id and still exists, after
\* any starts on top of each other, stops and ends: findById returns no manager
\* that is deleted when it looks (DownloadManager_utils.cpp:27-31).
NoDanglingEntry ==
    \A id \in StreamIds : instanceMap[id] # 0 =>
        /\ managers[instanceMap[id]].id = id
        /\ managers[instanceMap[id]].pc \notin {"none", "removed", "deleted"}

\* The deleter of a media stream locks mutex_.  When createStream replaces the
\* stream an id had, under that mutex, somebody else still refers to the old one and
\* its deleter does not run there (RTPInstance.cpp:47-51, 64-70).  This is about
\* streams that were made: a stream that could not be made (label "noStream") has
\* its deleter run under the lock, and the thread waits for itself.
ReplacedIsKept ==
    ~ (main.pc = "deleter" /\ instances[main.instance].locked)

\* A stream sends to the address it was started with, or to that of an earlier
\* start of its id that nobody ever stopped, although a stopped one may still be
\* ending and own its RTPInstance (Handler_StopStream.cpp:18,
\* RTPManager.cpp:3-17, RTPInstance.cpp:64).
SendsWhereAsked ==
    \A k \in Starts : LET m == managers[k].sends IN
        m \notin {0, k} => m < k /\ managers[m].id = managers[k].id /\ m \notin stopped

\* No media stream of an instance that a manager sends through, or that a start is
\* adding a stream to, has been destroyed: a start never joins an instance whose
\* last manager is gone, and a manager that goes leaves the streams of an instance
\* it shared to the others (RTPManager.cpp:5-9, RTPInstance.cpp:14-27).
InUseNotDestroyed ==
    \A x \in Starts : Owned(x) =>
        \A s \in Starts : Referenced(instances[x], s) => destroyed[s] = 0

\* "设置移除自己的回调函数": the removal callback removes its own manager's entry
\* (Handler_StartStream.cpp:55-59).
RemovesOnlyItself ==
    [][\A id \in StreamIds :
          instanceMap[id] # 0 /\ instanceMap'[id] = 0
              => managers[instanceMap[id]].pc = "ending"]_registryVars
=============================================================================
