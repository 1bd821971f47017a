------------------------ MODULE StreamRegistryProofs ------------------------
(***************************************************************************)
(* Proofs about StreamRegistry, for any stream ids and number of starts.   *)
(***************************************************************************)
EXTENDS StreamRegistry, TLAPS

Starting == main.pc \in {"create", "noStream", "store", "deleter", "register"}
Stopping == main.pc \in {"cleanup", "remove"}
Born(k) == managers[k].pc # "none"

(* The parts of the invariant.                                             *)
\* What the handlers' thread has in hand.
Hand ==
    /\ main.pc = "idle" => main = Idle
    /\ Starting => /\ main.id \in StreamIds
                   /\ main.manager = started /\ started \in Starts
                   /\ main.instance \in 1 .. started
    /\ Stopping => /\ main.id \in StreamIds
                   /\ main.manager \in 1 .. started /\ Born(main.manager)
                   /\ main.instance = 0

\* A manager exists from its registration on.
Births ==
    /\ \A k \in Starts : k > started => ~Born(k)
    /\ Starting => ~Born(started)
    /\ \A k \in Starts : Born(k) => managers[k].id \in StreamIds /\ managers[k].instance \in 1 .. k

\* The instance of an id was made by a start of that id, and no stop of that start
\* has removed it.
KnownInstances ==
    \A id \in StreamIds : rtpInstances[id] # 0 =>
        /\ \/ Born(rtpInstances[id]) /\ managers[rtpInstances[id]].id = id
           \/ Starting /\ rtpInstances[id] = started /\ main.id = id
        /\ rtpInstances[id] \in stopped => Stopping /\ main.id = id

\* A start that joins the instance of an earlier one.
Joining ==
    /\ Starting /\ main.instance # started =>
          /\ Born(main.instance)
          /\ managers[main.instance].id = main.id
          /\ main.instance \notin stopped
          /\ instances[main.instance].main = main.instance
    /\ main.pc = "register" => instances[main.instance].main = main.instance

\* The main stream of an instance is that of the start that made it, and is there
\* as long as a manager uses the instance.
MainStreams ==
    /\ \A x \in Starts : instances[x].main \in {0, x}
    /\ \A k \in Starts : Lives(k) => instances[managers[k].instance].main = managers[k].instance
    /\ \A k \in Starts : managers[k].sends # 0 => Born(k) /\ managers[k].sends = managers[k].instance

\* Who made an instance that another start has joined was not stopped.
Sharing ==
    \A k \in Starts : Born(k) /\ managers[k].instance # k =>
        /\ Born(managers[k].instance)
        /\ managers[managers[k].instance].id = managers[k].id
        /\ managers[k].instance \notin stopped

\* An entry is of the last start of its id.
Latest ==
    \A id \in StreamIds : instanceMap[id] # 0 =>
        \A k \in Starts : Born(k) /\ managers[k].id = id => k <= instanceMap[id]

RegistryInv ==
    /\ RegistryTypeOK /\ Hand /\ Births /\ KnownInstances /\ Joining
    /\ MainStreams /\ Sharing /\ Latest /\ NoDanglingEntry


Labels == {"none", "starting", "stopping", "running", "ending", "removed", "deleted"}
\* The sets RegistryTypeOK is written with.
Managers == [id : StreamIds \cup {NoId}, pc : Labels, instance : 0 .. started, sends : 0 .. started]
Instances == [main : 0 .. started, streams : [StreamIds -> 0 .. started],
              stamps : SUBSET (1 .. started), locked : BOOLEAN]
Threads == [pc : {"idle", "create", "noStream", "store", "deleter", "register", "cleanup", "remove"},
            id : StreamIds \cup {NoId}, manager : 0 .. started, instance : 0 .. started]

LEMMA Types ==
    ASSUME RegistryTypeOK
    PROVE  /\ MaxStarts \in Nat /\ Starts = 1 .. MaxStarts
           /\ started \in 0 .. MaxStarts
           /\ managers \in [Starts -> Managers]
           /\ \A k \in Starts :
                 /\ managers[k].id \in StreamIds \cup {NoId}
                 /\ managers[k].pc \in Labels
                 /\ managers[k].instance \in 0 .. started
                 /\ managers[k].sends \in 0 .. started
           /\ \A x \in Starts :
                 /\ instances[x].main \in 0 .. started
                 /\ instances[x].streams \in [StreamIds -> 0 .. started]
                 /\ instances[x].stamps \in SUBSET (1 .. started)
                 /\ instances[x].locked \in BOOLEAN
  BY RegistryAssumption DEF RegistryTypeOK, Starts, Labels, Managers

\* A step that keeps what the managers were made with.
LEMMA KeptManagers ==
    ASSUME RegistryInv,
           UNCHANGED <<rtpInstances, started, stopped>>,
           \A k \in Starts : /\ managers'[k].id = managers[k].id
                             /\ managers'[k].instance = managers[k].instance
                             /\ managers'[k].pc = "none" <=> managers[k].pc = "none",
           \A id \in StreamIds : instanceMap'[id] \in {0, instanceMap[id]},
           main'.id = main.id, Starting' <=> Starting, Stopping' <=> Stopping
    PROVE  Births' /\ KnownInstances' /\ Sharing' /\ Latest'
<1>1. /\ MaxStarts \in Nat /\ Starts = 1 .. MaxStarts /\ started \in 0 .. MaxStarts
      /\ rtpInstances \in [StreamIds -> 0 .. started]
  BY Types DEF RegistryInv, RegistryTypeOK
<1>0. Births /\ KnownInstances /\ Sharing /\ Latest
  BY DEF RegistryInv
<1>2. Births'
  <2>1. \A k \in Starts : k > started => managers'[k].pc = "none"
    BY <1>0 DEF Births, Born
  <2>2. Starting' => managers'[started].pc = "none"
    <3>1. Starting => started \in Starts
      BY DEF RegistryInv, Hand
    <3> QED  BY <1>0, <3>1 DEF Births, Born
  <2>3. \A k \in Starts : managers'[k].pc # "none" =>
            managers'[k].id \in StreamIds /\ managers'[k].instance \in 1 .. k
    BY <1>0 DEF Births, Born
  <2> QED  BY <2>1, <2>2, <2>3 DEF Births, Born
<1>3. KnownInstances'
  <2> SUFFICES ASSUME NEW id \in StreamIds, rtpInstances[id] # 0
               PROVE  /\ \/ managers'[rtpInstances[id]].pc # "none" /\ managers'[rtpInstances[id]].id = id
                         \/ Starting' /\ rtpInstances[id] = started /\ main'.id = id
                      /\ rtpInstances[id] \in stopped => Stopping' /\ main'.id = id
    BY DEF KnownInstances, Born
  <2>1. rtpInstances[id] \in Starts
    BY <1>1
  <2> QED  BY <1>0, <2>1 DEF KnownInstances, Born
<1>4. Sharing'
  <2> SUFFICES ASSUME NEW k \in Starts, managers'[k].pc # "none", managers'[k].instance # k
               PROVE  /\ managers'[managers'[k].instance].pc # "none"
                      /\ managers'[managers'[k].instance].id = managers'[k].id
                      /\ managers'[k].instance \notin stopped
    BY DEF Sharing, Born
  <2>1. managers[k].pc # "none" /\ managers[k].instance \in 1 .. k /\ managers[k].instance # k
    BY <1>0 DEF Births, Born
  <2>2. managers[k].instance \in Starts
    BY <1>1, <2>1
  <2> QED  BY <1>0, <2>1, <2>2 DEF Sharing, Born
<1>5. Latest'
  <2> SUFFICES ASSUME NEW id \in StreamIds, instanceMap'[id] # 0, NEW k \in Starts,
                      managers'[k].pc # "none", managers'[k].id = id
               PROVE  k <= instanceMap'[id]
    BY DEF Latest, Born
  <2>1. instanceMap'[id] = instanceMap[id]
    OBVIOUS
  <2> QED  BY <1>0, <2>1 DEF Latest, Born
<1> QED  BY <1>2, <1>3, <1>4, <1>5

\* A step of a manager that only moves it to another label.
LEMMA MovedManager ==
    ASSUME RegistryTypeOK, NEW k \in Starts, NEW pc \in Labels,
           managers' = [managers EXCEPT ![k].pc = pc]
    PROVE  /\ \A m \in Starts : /\ managers'[m].id = managers[m].id
                                /\ managers'[m].instance = managers[m].instance
                                /\ managers'[m].sends = managers[m].sends
                                /\ managers'[m].pc = IF m = k THEN pc ELSE managers[m].pc
           /\ managers' \in [Starts -> Managers]
<1>1. managers \in [Starts -> Managers]
  BY Types
<1>2. managers[k] \in Managers
  BY <1>1
<1>3. [managers[k] EXCEPT !.pc = pc] \in Managers
  BY <1>2 DEF Managers
<1>4. managers' \in [Starts -> Managers]
  BY <1>1, <1>3
<1>5. \A m \in Starts : managers'[m] = IF m = k THEN [managers[k] EXCEPT !.pc = pc] ELSE managers[m]
  BY <1>1
<1> QED  BY <1>2, <1>4, <1>5 DEF Managers

-----------------------------------------------------------------------------
(* The handlers' thread.                                                   *)
LEMMA StartRequestStep ==
    ASSUME RegistryInv, NEW id \in StreamIds, StartRequest(id)
    PROVE  RegistryInv'
<1> DEFINE known == rtpInstances[id]
           reuse == Reusable(id)
<1>1. /\ MaxStarts \in Nat /\ Starts = 1 .. MaxStarts /\ started \in 0 .. MaxStarts
      /\ started' = started + 1 /\ started' \in Starts
      /\ rtpInstances \in [StreamIds -> 0 .. started]
      /\ instanceMap \in [StreamIds -> 0 .. started]
      /\ stopped \subseteq 1 .. started
      /\ UNCHANGED <<instanceMap, managers, instances, destroyed, stopped>>
      /\ main.pc = "idle"
  BY Types DEF RegistryInv, RegistryTypeOK, StartRequest
<1>2. main = Idle /\ ~Starting /\ ~Stopping
  BY <1>1 DEF RegistryInv, Hand, Starting, Stopping
<1>3. /\ main' = [pc |-> "create", id |-> id, manager |-> started',
                  instance |-> IF reuse THEN known ELSE started']
      /\ rtpInstances' = IF reuse THEN rtpInstances ELSE [rtpInstances EXCEPT ![id] = started']
  BY DEF StartRequest
<1>4. Starting' /\ ~Stopping'
  BY <1>3 DEF Starting, Stopping
<1>5. reuse => /\ known \in 1 .. started /\ known \in Starts
               /\ Born(known) /\ managers[known].id = id /\ known \notin stopped
               /\ instances[known].main = known
  <2> SUFFICES ASSUME reuse
               PROVE  /\ known \in 1 .. started /\ known \in Starts
                      /\ Born(known) /\ managers[known].id = id /\ known \notin stopped
                      /\ instances[known].main = known
    OBVIOUS
  <2>1. known \in 1 .. started /\ known \in Starts
    BY <1>1 DEF Reusable
  <2>2. main.instance = 0
    BY <1>2 DEF Idle
  <2>3. PICK k \in Starts : Lives(k) /\ managers[k].instance = known
    BY <2>1, <2>2 DEF Owned, Reusable
  <2>4. instances[known].main = known
    BY <2>3 DEF RegistryInv, MainStreams
  <2>5. Born(known) /\ managers[known].id = id /\ known \notin stopped
    BY <1>2 DEF RegistryInv, KnownInstances, Reusable
  <2> QED  BY <2>1, <2>4, <2>5
<1>6. RegistryTypeOK'
  <2>1. rtpInstances' \in [StreamIds -> 0 .. started']
    BY <1>1, <1>3
  <2>2. instanceMap' \in [StreamIds -> 0 .. started'] /\ stopped' \subseteq 1 .. started'
    BY <1>1
  <2>3. managers' \in [Starts -> [id : StreamIds \cup {NoId},
                                  pc : {"none", "starting", "stopping", "running", "ending",
                                        "removed", "deleted"},
                                  instance : 0 .. started', sends : 0 .. started']]
    <3>1. 0 .. started \subseteq 0 .. started'
      BY <1>1
    <3> QED  BY <1>1, <3>1 DEF RegistryInv, RegistryTypeOK
  <2>4. instances' \in [Starts -> [main : 0 .. started', streams : [StreamIds -> 0 .. started'],
                                   stamps : SUBSET (1 .. started'), locked : BOOLEAN]]
    <3>1. 0 .. started \subseteq 0 .. started' /\ 1 .. started \subseteq 1 .. started'
      BY <1>1
    <3>2. [StreamIds -> 0 .. started] \subseteq [StreamIds -> 0 .. started']
      BY <3>1
    <3>3. SUBSET (1 .. started) \subseteq SUBSET (1 .. started')
      BY <3>1
    <3>4. Instances \subseteq
          [main : 0 .. started', streams : [StreamIds -> 0 .. started'],
           stamps : SUBSET (1 .. started'), locked : BOOLEAN]
      BY <3>1, <3>2, <3>3 DEF Instances
    <3> QED  BY <1>1, <3>4 DEF RegistryInv, RegistryTypeOK, Instances
  <2>5. \A x \in Starts : \A s \in 1 .. started' :
            Referenced(instances'[x], s) => s \in instances'[x].stamps
    <3> SUFFICES ASSUME NEW x \in Starts, NEW s \in 1 .. started', Referenced(instances[x], s)
                 PROVE  s \in instances[x].stamps
      BY <1>1
    <3>1. /\ instances[x].main \in 0 .. started
          /\ instances[x].streams \in [StreamIds -> 0 .. started]
          /\ instances[x].stamps \in SUBSET (1 .. started)
      BY Types DEF RegistryInv
    <3>2. s \in 1 .. started
      BY <1>1, <3>1 DEF Referenced
    <3> QED  BY <3>2 DEF RegistryInv, RegistryTypeOK
  <2>6. main' \in [pc : {"idle", "create", "noStream", "store", "deleter", "register", "cleanup", "remove"},
                   id : StreamIds \cup {NoId}, manager : 0 .. started', instance : 0 .. started']
    BY <1>1, <1>3, <1>5
  <2>7. started' \in 0 .. MaxStarts
    BY <1>1
  <2>8. destroyed' \in [Starts -> Nat]
    BY <1>1 DEF RegistryInv, RegistryTypeOK
  <2> QED  BY <2>1, <2>2, <2>3, <2>4, <2>5, <2>6, <2>7, <2>8, Zenon DEF RegistryTypeOK, Referenced
<1>7. Hand'
  BY <1>1, <1>3, <1>4, <1>5 DEF Hand
<1>8. Births'
  BY <1>1 DEF RegistryInv, Births, Born
<1>9. KnownInstances'
  <2> SUFFICES ASSUME NEW i \in StreamIds, rtpInstances'[i] # 0
               PROVE  /\ \/ Born(rtpInstances'[i]) /\ managers[rtpInstances'[i]].id = i
                         \/ rtpInstances'[i] = started' /\ main'.id = i
                      /\ rtpInstances'[i] \notin stopped
    BY <1>1, <1>4 DEF KnownInstances, Born
  <2>1. CASE rtpInstances'[i] = rtpInstances[i]
    BY <2>1, <1>2 DEF RegistryInv, KnownInstances
  <2>2. CASE rtpInstances'[i] # rtpInstances[i]
    <3>1. i = id /\ rtpInstances'[i] = started'
      BY <1>1, <1>3, <2>2
    <3> QED  BY <1>1, <1>3, <3>1
  <2> QED  BY <2>1, <2>2
<1>10. Joining'
  BY <1>1, <1>3, <1>5 DEF Joining, Born, Starting
<1>11. MainStreams' /\ Sharing' /\ Latest' /\ NoDanglingEntry'
  BY <1>1 DEF RegistryInv, MainStreams, Sharing, Latest, NoDanglingEntry, Lives, Born
<1> QED  BY <1>6, <1>7, <1>8, <1>9, <1>10, <1>11 DEF RegistryInv

LEMMA StopRequestStep ==
    ASSUME RegistryInv, NEW id \in StreamIds, StopRequest(id)
    PROVE  RegistryInv'
<1> DEFINE m == instanceMap[id]
<1>1. /\ MaxStarts \in Nat /\ Starts = 1 .. MaxStarts /\ started \in 0 .. MaxStarts
      /\ instanceMap \in [StreamIds -> 0 .. started]
      /\ stopped \subseteq 1 .. started /\ stopped' = stopped \cup {m}
      /\ UNCHANGED <<instanceMap, rtpInstances, managers, instances, destroyed, started>>
      /\ main.pc = "idle" /\ m # 0
  BY Types DEF RegistryInv, RegistryTypeOK, StopRequest
<1>2. main = Idle /\ ~Starting /\ ~Stopping
  BY <1>1 DEF RegistryInv, Hand, Starting, Stopping
<1>3. main' = [pc |-> "cleanup", id |-> id, manager |-> m, instance |-> 0]
  BY <1>2 DEF StopRequest, Idle
<1>4. ~Starting' /\ Stopping'
  BY <1>3 DEF Starting, Stopping
<1>5. m \in 1 .. started /\ m \in Starts /\ Born(m) /\ managers[m].id = id
  BY <1>1 DEF RegistryInv, NoDanglingEntry, Born
<1>6. RegistryTypeOK'
  <2>1. stopped' \subseteq 1 .. started
    BY <1>1, <1>5
  <2>2. main' \in Threads
    BY <1>1, <1>3, <1>5 DEF Threads
  <2> QED  BY <1>1, <2>1, <2>2 DEF RegistryInv, RegistryTypeOK, Threads
<1>7. Hand' /\ Births' /\ Joining'
  BY <1>1, <1>3, <1>4, <1>5 DEF RegistryInv, Hand, Births, Joining, Born
<1>8. KnownInstances'
  <2> SUFFICES ASSUME NEW i \in StreamIds, rtpInstances[i] # 0
               PROVE  /\ Born(rtpInstances[i]) /\ managers[rtpInstances[i]].id = i
                      /\ rtpInstances[i] \in stopped' => main'.id = i
    BY <1>1, <1>4 DEF KnownInstances, Born
  <2>1. /\ Born(rtpInstances[i]) /\ managers[rtpInstances[i]].id = i
        /\ rtpInstances[i] \notin stopped
    BY <1>2 DEF RegistryInv, KnownInstances
  <2> QED  BY <1>1, <1>3, <1>5, <2>1
<1>9. Sharing'
  <2> SUFFICES ASSUME NEW k \in Starts, Born(k), managers[k].instance # k
               PROVE  /\ Born(managers[k].instance)
                      /\ managers[managers[k].instance].id = managers[k].id
                      /\ managers[k].instance \notin stopped'
    BY <1>1 DEF Sharing, Born
  <2>1. /\ Born(managers[k].instance)
        /\ managers[managers[k].instance].id = managers[k].id
        /\ managers[k].instance \notin stopped
    BY DEF RegistryInv, Sharing
  <2>2. managers[k].instance \in 1 .. k
    BY DEF RegistryInv, Births
  <2>3. managers[k].id = id => k <= m
    BY <1>1 DEF RegistryInv, Latest
  <2>4. managers[k].instance # m
    BY <1>1, <1>5, <2>1, <2>2, <2>3
  <2> QED  BY <1>1, <2>1, <2>4
<1>10. MainStreams' /\ Latest' /\ NoDanglingEntry'
  BY <1>1 DEF RegistryInv, MainStreams, Latest, NoDanglingEntry, Lives, Born
<1> QED  BY <1>6, <1>7, <1>8, <1>9, <1>10 DEF RegistryInv

LEMMA StopRemovesStep ==
    ASSUME RegistryInv, StopRemoves
    PROVE  RegistryInv'
<1>1. /\ UNCHANGED <<instanceMap, managers, instances, destroyed, started, stopped>>
      /\ rtpInstances \in [StreamIds -> 0 .. started] /\ started \in Nat
      /\ rtpInstances' = [rtpInstances EXCEPT ![main.id] = 0]
      /\ main' = Idle
  BY Types DEF RegistryInv, RegistryTypeOK, StopRemoves
<1>2. ~Starting /\ ~Starting' /\ ~Stopping'
  BY <1>1 DEF StopRemoves, Starting, Stopping, Idle
<1>3. RegistryTypeOK'
  <2>1. rtpInstances' \in [StreamIds -> 0 .. started]
    <3>1. 0 \in 0 .. started
      BY <1>1
    <3>2. rtpInstances \in [StreamIds -> 0 .. started] =>
            [rtpInstances EXCEPT ![main.id] = 0] \in [StreamIds -> 0 .. started]
      BY <3>1, Zenon
    <3> QED  BY <1>1, <3>2
  <2>2. main' \in Threads
    BY <1>1 DEF Idle, Threads
  <2> QED  BY <1>1, <2>1, <2>2 DEF RegistryInv, RegistryTypeOK, Threads
<1>4. Hand' /\ Births' /\ Joining'
  BY <1>1, <1>2 DEF RegistryInv, Hand, Births, Joining, Born, Idle
<1>5. KnownInstances'
  <2> SUFFICES ASSUME NEW i \in StreamIds, rtpInstances'[i] # 0
               PROVE  /\ Born(rtpInstances'[i]) /\ managers[rtpInstances'[i]].id = i
                      /\ rtpInstances'[i] \notin stopped
    BY <1>1 DEF KnownInstances, Born
  <2>1. i # main.id /\ rtpInstances'[i] = rtpInstances[i]
    BY <1>1
  <2> QED  BY <1>2, <2>1 DEF RegistryInv, KnownInstances
<1>6. MainStreams' /\ Sharing' /\ Latest' /\ NoDanglingEntry'
  BY <1>1 DEF RegistryInv, MainStreams, Sharing, Latest, NoDanglingEntry, Lives, Born
<1> QED  BY <1>3, <1>4, <1>5, <1>6 DEF RegistryInv

LEMMA CreateStreamStep ==
    ASSUME RegistryInv, CreateStream
    PROVE  RegistryInv'
<1> DEFINE x == main.instance
<1>1. /\ MaxStarts \in Nat /\ Starts = 1 .. MaxStarts /\ started \in 0 .. MaxStarts
      /\ UNCHANGED <<instanceMap, rtpInstances, managers, destroyed, started, stopped>>
      /\ Starting /\ Starting' /\ ~Stopping /\ ~Stopping'
      /\ main'.pc \in {"store", "noStream"} /\ main'.id = main.id
      /\ main'.manager = main.manager /\ main'.instance = main.instance
      /\ main' \in Threads
  BY Types DEF RegistryInv, RegistryTypeOK, CreateStream, Starting, Stopping, Threads
<1>2. x \in 1 .. started /\ x \in Starts
  BY <1>1 DEF RegistryInv, Hand
<1>3. /\ instances' = [instances EXCEPT ![x].locked = TRUE]
      /\ instances \in [Starts -> Instances]
  BY DEF RegistryInv, RegistryTypeOK, CreateStream, Threads, Instances
<1>4. /\ instances' \in [Starts -> Instances]
      /\ \A y \in Starts : /\ instances'[y].main = instances[y].main
                           /\ instances'[y].streams = instances[y].streams
                           /\ instances'[y].stamps = instances[y].stamps
  BY <1>2, <1>3 DEF Threads, Instances
<1>5. RegistryTypeOK'
  <2>1. \A y \in Starts : \A s \in 1 .. started :
            Referenced(instances'[y], s) => s \in instances'[y].stamps
    BY <1>4 DEF RegistryInv, RegistryTypeOK, Referenced
  <2> QED  BY <1>1, <1>4, <2>1 DEF RegistryInv, RegistryTypeOK, Referenced, Threads, Instances
<1>6. Births' /\ KnownInstances' /\ Sharing' /\ Latest'
  BY <1>1, KeptManagers
<1>7. Hand' /\ Joining'
  BY <1>1, <1>2, <1>4 DEF RegistryInv, Hand, Joining, Born
<1>8. MainStreams'
  <2>1. \A k \in Starts : Lives(k) => managers[k].instance \in Starts
    BY <1>1 DEF RegistryInv, Births, Born, Lives
  <2> QED  BY <1>1, <1>4, <2>1 DEF RegistryInv, MainStreams, Lives, Born
<1>9. NoDanglingEntry'
  BY <1>1 DEF RegistryInv, NoDanglingEntry
<1> QED  BY <1>5, <1>6, <1>7, <1>8, <1>9 DEF RegistryInv

\* An instance as createStream leaves it.
Left(inst, id, s, locked) == [Stored(inst, id, s) EXCEPT !.locked = locked]

\* What createStream stores refers only to streams that have a timestamp.
LEMMA StoredKeepsTypes ==
    ASSUME NEW n \in Nat, NEW s \in 1 .. n, NEW id \in StreamIds, NEW locked \in BOOLEAN,
           NEW inst \in [main : 0 .. n, streams : [StreamIds -> 0 .. n],
                         stamps : SUBSET (1 .. n), locked : BOOLEAN],
           \A t \in 1 .. n : Referenced(inst, t) => t \in inst.stamps
    PROVE  /\ Left(inst, id, s, locked) \in [main : 0 .. n, streams : [StreamIds -> 0 .. n],
                                             stamps : SUBSET (1 .. n), locked : BOOLEAN]
           /\ Left(inst, id, s, locked).main = IF inst.main = 0 THEN s ELSE inst.main
           /\ \A t \in 1 .. n :
                 Referenced(Left(inst, id, s, locked), t) => t \in Left(inst, id, s, locked).stamps
<1> DEFINE new == Left(inst, id, s, locked)
           streams == [inst.streams EXCEPT ![id] = s]
           first == IF inst.main = 0 THEN s ELSE inst.main
<1>1. inst = [main |-> inst.main, streams |-> inst.streams, stamps |-> inst.stamps,
              locked |-> inst.locked]
  OBVIOUS
<1>2. new = [main |-> first, streams |-> streams, stamps |-> inst.stamps \cup {s},
             locked |-> locked]
  <2> SUFFICES ASSUME NEW r, r = Left(inst, id, s, locked)
               PROVE  r = [main |-> first, streams |-> streams,
                           stamps |-> inst.stamps \cup {s}, locked |-> locked]
    OBVIOUS
  <2> QED  BY <1>1 DEF Stored, Left
<1>3. s \in 0 .. n /\ first \in 0 .. n
  OBVIOUS
<1>4. streams \in [StreamIds -> 0 .. n]
  BY <1>3
<1>5. \A t \in 1 .. n : Referenced(new, t) => t \in new.stamps
  <2>1. new.main = first /\ new.streams = streams /\ new.stamps = inst.stamps \cup {s}
    BY <1>2
  <2> QED  BY <1>4, <2>1 DEF Referenced
<1>7. inst.stamps \cup {s} \in SUBSET (1 .. n)
  OBVIOUS
<1> HIDE DEF streams, first, new
<1>6. new \in [main : 0 .. n, streams : [StreamIds -> 0 .. n],
               stamps : SUBSET (1 .. n), locked : BOOLEAN]
  <2>1. [main |-> first, streams |-> streams, stamps |-> inst.stamps \cup {s}, locked |-> locked]
          \in [main : 0 .. n, streams : [StreamIds -> 0 .. n],
              stamps : SUBSET (1 .. n), locked : BOOLEAN]
    BY <1>3, <1>4, <1>7
  <2> QED  BY <1>2, <2>1, Zenon
<1> QED  BY <1>2, <1>5, <1>6 DEF first, new

LEMMA StoreStreamStep ==
    ASSUME RegistryInv, StoreStream
    PROVE  RegistryInv'
<1> DEFINE x   == main.instance
           old == instances[x].streams[main.id]
           new == Stored(instances[x], main.id, main.manager)
           dropped == old # 0 /\ ~Referenced(new, old)
<1>1. /\ MaxStarts \in Nat /\ Starts = 1 .. MaxStarts /\ started \in 0 .. MaxStarts
      /\ UNCHANGED <<instanceMap, rtpInstances, managers, destroyed, started, stopped>>
      /\ Starting /\ Starting' /\ ~Stopping /\ ~Stopping'
      /\ main'.pc \in {"register", "deleter"} /\ main'.id = main.id
      /\ main'.manager = main.manager /\ main'.instance = main.instance
      /\ main' \in Threads
  BY Types DEF RegistryInv, RegistryTypeOK, StoreStream, Starting, Stopping, Threads
<1>2. /\ x \in 1 .. started /\ x \in Starts /\ main.id \in StreamIds
      /\ main.manager = started /\ started \in 1 .. started
  BY <1>1 DEF RegistryInv, Hand
<1>3. /\ instances' = [instances EXCEPT ![x] = [new EXCEPT !.locked = dropped]]
      /\ instances \in [Starts -> Instances]
  BY DEF RegistryInv, RegistryTypeOK, StoreStream, Threads, Instances
<1>4. /\ instances'[x] \in Instances
      /\ instances'[x].main = IF instances[x].main = 0 THEN started ELSE instances[x].main
      /\ \A t \in 1 .. started : Referenced(instances'[x], t) => t \in instances'[x].stamps
  <2>1. \A t \in 1 .. started : Referenced(instances[x], t) => t \in instances[x].stamps
    BY <1>2 DEF RegistryInv, RegistryTypeOK
  <2>2. started \in Nat /\ dropped \in BOOLEAN
    BY <1>1
  <2>3. instances'[x] = [new EXCEPT !.locked = dropped]
    BY <1>2, <1>3
  <2>4. instances[x] \in Instances
    BY <1>2, <1>3
  <2>5. instances'[x] = Left(instances[x], main.id, started, dropped)
    BY <1>2, <2>3 DEF Left
  <2> HIDE DEF x, old, new, dropped
  <2>6. LET l == Left(instances[x], main.id, started, dropped)
        IN  /\ l \in Instances
            /\ l.main = IF instances[x].main = 0 THEN started ELSE instances[x].main
            /\ \A t \in 1 .. started : Referenced(l, t) => t \in l.stamps
    BY <1>2, <2>1, <2>2, <2>4, StoredKeepsTypes DEF Instances
  <2> QED  BY <2>5, <2>6
<1>5. \A y \in Starts : y # x => instances'[y] = instances[y]
  BY <1>3
<1>6. instances' \in [Starts -> Instances]
  BY <1>2, <1>3, <1>4
<1>7. RegistryTypeOK'
  <2>1. \A y \in Starts : \A s \in 1 .. started :
            Referenced(instances'[y], s) => s \in instances'[y].stamps
    BY <1>4, <1>5 DEF RegistryInv, RegistryTypeOK
  <2> QED  BY <1>1, <1>6, <2>1 DEF RegistryInv, RegistryTypeOK, Referenced, Instances, Threads
<1>8. Births' /\ KnownInstances' /\ Sharing' /\ Latest'
  BY <1>1, KeptManagers
<1>9. instances'[x].main = x
  <2>1. instances[x].main \in {0, x}
    BY <1>2 DEF RegistryInv, MainStreams
  <2>2. x # started => instances[x].main = x
    BY <1>1 DEF RegistryInv, Joining
  <2> QED  BY <1>2, <1>4, <2>1, <2>2
<1>10. Hand' /\ Joining'
  BY <1>1, <1>2, <1>9 DEF RegistryInv, Hand, Joining, Born
<1>11. MainStreams'
  <2>1. \A k \in Starts : Lives(k) => managers[k].instance \in Starts
    BY <1>1 DEF RegistryInv, Births, Born, Lives
  <2> QED  BY <1>1, <1>5, <1>9, <2>1 DEF RegistryInv, MainStreams, Lives, Born
<1>12. NoDanglingEntry'
  BY <1>1 DEF RegistryInv, NoDanglingEntry
<1> QED  BY <1>7, <1>8, <1>10, <1>11, <1>12 DEF RegistryInv

LEMMA RegisterStep ==
    ASSUME RegistryInv, Register
    PROVE  RegistryInv'
<1> DEFINE k == started
           new == [id |-> main.id, pc |-> "starting", instance |-> main.instance, sends |-> 0]
<1>1. /\ MaxStarts \in Nat /\ Starts = 1 .. MaxStarts /\ started \in 0 .. MaxStarts
      /\ UNCHANGED <<rtpInstances, instances, destroyed, started, stopped>>
      /\ main' = Idle /\ Starting /\ ~Stopping /\ ~Starting' /\ ~Stopping'
  BY Types DEF RegistryInv, RegistryTypeOK, Register, Starting, Stopping, Idle
<1>2. /\ k \in Starts /\ main.id \in StreamIds /\ main.manager = k
      /\ main.instance \in 1 .. k /\ managers[k].pc = "none"
  BY <1>1 DEF RegistryInv, Hand, Births, Born
<1>3. /\ managers' = [managers EXCEPT ![k] = new] /\ managers \in [Starts -> Managers]
      /\ instanceMap' = [instanceMap EXCEPT ![main.id] = k]
      /\ instanceMap \in [StreamIds -> 0 .. started]
  BY <1>2, Types DEF RegistryInv, RegistryTypeOK, Register
<1>4. new \in Managers
  BY <1>1, <1>2 DEF Managers, Labels
<1>5. /\ managers' \in [Starts -> Managers]
      /\ managers'[k] = new /\ \A m \in Starts : m # k => managers'[m] = managers[m]
  BY <1>2, <1>3, <1>4
<1>6. RegistryTypeOK'
  <2>1. instanceMap' \in [StreamIds -> 0 .. started]
    BY <1>1, <1>2, <1>3
  <2>2. main' \in Threads
    BY <1>1 DEF Idle, Threads
  <2> QED  BY <1>1, <1>5, <2>1, <2>2 DEF RegistryInv, RegistryTypeOK, Managers, Labels, Threads
<1>7. Hand' /\ Joining'
  BY <1>1 DEF Hand, Joining, Idle
<1>8. Births'
  BY <1>1, <1>2, <1>5 DEF RegistryInv, Births, Born
<1>9. KnownInstances'
  <2> SUFFICES ASSUME NEW i \in StreamIds, rtpInstances[i] # 0
               PROVE  /\ managers'[rtpInstances[i]].pc # "none" /\ managers'[rtpInstances[i]].id = i
                      /\ rtpInstances[i] \notin stopped
    BY <1>1 DEF KnownInstances, Born
  <2>1. rtpInstances \in [StreamIds -> 0 .. started]
    BY DEF RegistryInv, RegistryTypeOK
  <2>2. rtpInstances[i] \in Starts
    BY <1>1, <2>1
  <2>3. /\ \/ managers[rtpInstances[i]].pc # "none" /\ managers[rtpInstances[i]].id = i
           \/ rtpInstances[i] = k /\ main.id = i
        /\ rtpInstances[i] \notin stopped
    BY <1>1 DEF RegistryInv, KnownInstances, Born
  <2>4. CASE rtpInstances[i] = k
    BY <1>2, <1>5, <2>3, <2>4
  <2>5. CASE rtpInstances[i] # k
    BY <1>5, <2>2, <2>3, <2>5
  <2> QED  BY <2>4, <2>5
<1>10. MainStreams'
  <2>1. instances[main.instance].main = main.instance
    BY DEF RegistryInv, Joining, Register
  <2> QED  BY <1>1, <1>5, <2>1 DEF RegistryInv, MainStreams, Lives, Born
<1>11. Sharing'
  <2> SUFFICES ASSUME NEW m \in Starts, managers'[m].pc # "none", managers'[m].instance # m
               PROVE  /\ managers'[managers'[m].instance].pc # "none"
                      /\ managers'[managers'[m].instance].id = managers'[m].id
                      /\ managers'[m].instance \notin stopped
    BY <1>1 DEF Sharing, Born
  <2>1. CASE m = k
    <3>1. /\ main.instance # k /\ managers[main.instance].pc # "none"
          /\ managers[main.instance].id = main.id /\ main.instance \notin stopped
      BY <1>1, <1>5, <2>1 DEF RegistryInv, Joining, Born
    <3>2. managers'[main.instance] = managers[main.instance]
      BY <1>1, <1>2, <1>5, <3>1
    <3> QED  BY <1>5, <2>1, <3>1, <3>2
  <2>2. CASE m # k
    <3>1. managers'[m] = managers[m]
      BY <1>5, <2>2
    <3>2. /\ managers[managers[m].instance].pc # "none"
          /\ managers[managers[m].instance].id = managers[m].id
          /\ managers[m].instance \notin stopped /\ managers[m].instance \in 1 .. m
      BY <3>1 DEF RegistryInv, Sharing, Births, Born
    <3>3. managers'[managers[m].instance] = managers[managers[m].instance]
      BY <1>1, <1>2, <1>5, <3>2
    <3> QED  BY <3>1, <3>2, <3>3
  <2> QED  BY <2>1, <2>2
<1>12. Latest'
  <2> SUFFICES ASSUME NEW i \in StreamIds, instanceMap'[i] # 0, NEW m \in Starts,
                      managers'[m].pc # "none", managers'[m].id = i
               PROVE  m <= instanceMap'[i]
    BY DEF Latest, Born
  <2>1. m <= k
    <3>1. m # k => managers[m].pc # "none"
      BY <1>5
    <3> QED  BY <1>1, <3>1 DEF RegistryInv, Births, Born
  <2>2. CASE i = main.id
    BY <1>2, <1>3, <2>1, <2>2
  <2>3. CASE i # main.id
    <3>1. m # k /\ managers'[m] = managers[m] /\ instanceMap'[i] = instanceMap[i]
      BY <1>3, <1>5, <2>3
    <3> QED  BY <3>1 DEF RegistryInv, Latest, Born
  <2> QED  BY <2>2, <2>3
<1>13. NoDanglingEntry'
  <2> SUFFICES ASSUME NEW i \in StreamIds, instanceMap'[i] # 0
               PROVE  /\ managers'[instanceMap'[i]].id = i
                      /\ managers'[instanceMap'[i]].pc \notin {"none", "removed", "deleted"}
    BY DEF NoDanglingEntry
  <2>1. CASE i = main.id
    BY <1>3, <1>5, <2>1
  <2>2. CASE i # main.id
    <3>1. instanceMap'[i] = instanceMap[i] /\ instanceMap[i] \in Starts
      BY <1>1, <1>3, <2>2
    <3>2. /\ managers[instanceMap[i]].id = i
          /\ managers[instanceMap[i]].pc \notin {"none", "removed", "deleted"}
      BY <3>1 DEF RegistryInv, NoDanglingEntry
    <3> QED  BY <1>2, <1>5, <3>1, <3>2
  <2> QED  BY <2>1, <2>2
<1> QED  BY <1>6, <1>7, <1>8, <1>9, <1>10, <1>11, <1>12, <1>13 DEF RegistryInv

-----------------------------------------------------------------------------
(* The managers.                                                           *)
\* Manager k moves to label pc; the stream it sends to is left open.
Moves(k, pc) ==
    /\ managers' \in [Starts -> Managers]
    /\ \A m \in Starts : /\ managers'[m].id = managers[m].id
                         /\ managers'[m].instance = managers[m].instance
                         /\ managers'[m].pc = IF m = k THEN pc ELSE managers[m].pc

SendsOwn ==
    \A m \in Starts : managers'[m].sends # 0 =>
        managers[m].pc # "none" /\ managers'[m].sends = managers[m].instance

EntryErased(k) == instanceMap' = [instanceMap EXCEPT ![managers[k].id] = 0]

\* Its entry is erased before it counts as removed.
LEMMA MovedKeeps ==
    ASSUME RegistryInv, NEW k \in Starts, managers[k].pc # "none",
           NEW pc \in Labels \ {"none"}, Moves(k, pc),
           \/ /\ UNCHANGED instanceMap
              /\ pc \in {"removed", "deleted"} => managers[k].pc \in {"removed", "deleted"}
           \/ EntryErased(k),
           UNCHANGED <<rtpInstances, started, stopped>>,
           main' = main \/ (main.pc = "cleanup" /\ main' = [main EXCEPT !.pc = "remove"])
    PROVE  /\ instanceMap' \in [StreamIds -> 0 .. started] /\ main' \in Threads
           /\ Hand' /\ Births' /\ KnownInstances' /\ Sharing' /\ Latest' /\ NoDanglingEntry'
           /\ (Starting' <=> Starting) /\ main'.instance = main.instance /\ main'.id = main.id
           /\ main'.pc = "register" => main.pc = "register"
<1>1. /\ MaxStarts \in Nat /\ Starts = 1 .. MaxStarts /\ started \in 0 .. MaxStarts
      /\ instanceMap \in [StreamIds -> 0 .. started] /\ main \in Threads
  BY Types DEF RegistryInv, RegistryTypeOK, Threads
<1>2. managers[k].id \in StreamIds
  BY DEF RegistryInv, Births, Born
<1>3. /\ instanceMap' \in [StreamIds -> 0 .. started]
      /\ \A i \in StreamIds : instanceMap'[i] \in {0, instanceMap[i]}
  BY <1>1 DEF EntryErased
<1>4. /\ main' \in Threads
      /\ main'.id = main.id /\ main'.manager = main.manager /\ main'.instance = main.instance
      /\ (Starting' <=> Starting) /\ (Stopping' <=> Stopping)
      /\ main'.pc \in {"idle", "register"} => main' = main
  BY <1>1 DEF Starting, Stopping, Threads
<1>5. Births' /\ KnownInstances' /\ Sharing' /\ Latest'
  <2>1. \A m \in Starts : managers'[m].pc = "none" <=> managers[m].pc = "none"
    BY DEF Moves
  <2> QED  BY <1>3, <1>4, <2>1, KeptManagers DEF Moves
<1>6. Hand'
  <2>1. main'.pc = "idle" => main' = Idle
    BY <1>4 DEF RegistryInv, Hand
  <2>2. Stopping' => /\ main'.id \in StreamIds /\ main'.instance = 0
                     /\ main'.manager \in 1 .. started /\ managers'[main'.manager].pc # "none"
    BY <1>1, <1>4 DEF RegistryInv, Hand, Born, Moves
  <2>3. Starting' => /\ main'.id \in StreamIds
                     /\ main'.manager = started /\ started \in Starts
                     /\ main'.instance \in 1 .. started
    BY <1>4 DEF RegistryInv, Hand
  <2> QED  BY <2>1, <2>2, <2>3 DEF Hand, Born
<1>7. NoDanglingEntry'
  <2> SUFFICES ASSUME NEW i \in StreamIds, instanceMap'[i] # 0
               PROVE  /\ managers'[instanceMap'[i]].id = i
                      /\ managers'[instanceMap'[i]].pc \notin {"none", "removed", "deleted"}
    BY DEF NoDanglingEntry
  <2>1. instanceMap'[i] = instanceMap[i] /\ instanceMap[i] \in Starts
    BY <1>1, <1>3
  <2>2. /\ managers[instanceMap[i]].id = i
        /\ managers[instanceMap[i]].pc \notin {"none", "removed", "deleted"}
    BY <2>1 DEF RegistryInv, NoDanglingEntry
  <2>3. CASE instanceMap[i] = k
    <3>1. ~EntryErased(k)
      BY <1>1, <2>1, <2>2, <2>3 DEF EntryErased
    <3>2. pc \notin {"removed", "deleted"}
      BY <2>2, <2>3, <3>1
    <3> QED  BY <2>1, <2>2, <2>3, <3>2 DEF Moves
  <2>4. CASE instanceMap[i] # k
    BY <2>1, <2>2, <2>4 DEF Moves
  <2> QED  BY <2>3, <2>4
<1> QED  BY <1>3, <1>4, <1>5, <1>6, <1>7

\* A step that moves a manager that goes on living and leaves the instances.
LEMMA MovedStep ==
    ASSUME RegistryInv, NEW k \in Starts, managers[k].pc # "none",
           NEW pc \in Labels \ {"none"}, Moves(k, pc),
           pc = "deleted" <=> managers[k].pc = "deleted",
           \/ UNCHANGED instanceMap /\ (pc = "removed" => managers[k].pc = "removed")
           \/ EntryErased(k),
           SendsOwn,
           UNCHANGED <<rtpInstances, instances, destroyed, started, stopped>>,
           main' = main \/ (main.pc = "cleanup" /\ main' = [main EXCEPT !.pc = "remove"])
    PROVE  RegistryInv'
<1>1. /\ instanceMap' \in [StreamIds -> 0 .. started] /\ main' \in Threads
      /\ Hand' /\ Births' /\ KnownInstances' /\ Sharing' /\ Latest' /\ NoDanglingEntry'
      /\ (Starting' <=> Starting) /\ main'.instance = main.instance /\ main'.id = main.id
      /\ main'.pc = "register" => main.pc = "register"
  BY MovedKeeps
<1>2. RegistryTypeOK'
  BY <1>1 DEF RegistryInv, RegistryTypeOK, Threads, Moves, Managers, Labels
<1>3. Joining'
  <2>1. Starting /\ main.instance # started => main.instance \in Starts
    BY Types DEF RegistryInv, Hand
  <2> QED  BY <1>1, <2>1 DEF RegistryInv, Joining, Born, Moves
<1>4. MainStreams'
  BY DEF RegistryInv, MainStreams, Lives, Moves, SendsOwn, Born
<1> QED  BY <1>1, <1>2, <1>3, <1>4 DEF RegistryInv

\* The label alone changes.
LEMMA OnlyLabel ==
    ASSUME RegistryInv, NEW k \in Starts, NEW pc \in Labels,
           managers' = [managers EXCEPT ![k].pc = pc]
    PROVE  Moves(k, pc) /\ SendsOwn
  BY MovedManager DEF RegistryInv, MainStreams, Moves, SendsOwn, Born

LEMMA CleanupStep ==
    ASSUME RegistryInv, NEW k \in Starts, managers[k].pc # "none", Cleanup(k),
           UNCHANGED <<instanceMap, rtpInstances, instances, destroyed, started, stopped>>,
           main' = main \/ (main.pc = "cleanup" /\ main' = [main EXCEPT !.pc = "remove"])
    PROVE  RegistryInv'
<1> DEFINE pc == IF managers[k].pc = "starting" THEN "stopping"
                 ELSE IF managers[k].pc = "running" THEN "ending" ELSE managers[k].pc
<1>1. /\ pc \in Labels \ {"none"} /\ (pc = "removed" => managers[k].pc = "removed")
      /\ pc = "deleted" <=> managers[k].pc = "deleted"
  BY Types DEF RegistryInv, Labels
<1>2. managers' = [managers EXCEPT ![k].pc = pc]
  BY DEF Cleanup
<1> HIDE DEF pc
<1>3. Moves(k, pc) /\ SendsOwn
  BY <1>1, <1>2, OnlyLabel
<1> QED  BY <1>1, <1>3, MovedStep

LEMMA StopCleanupStep ==
    ASSUME RegistryInv, StopCleanup
    PROVE  RegistryInv'
<1>1. main.manager \in Starts /\ managers[main.manager].pc # "none"
  BY Types DEF RegistryInv, Hand, StopCleanup, Stopping, Born
<1> QED  BY <1>1, CleanupStep DEF StopCleanup

LEMMA SelfEndStep ==
    ASSUME RegistryInv, NEW k \in Starts, SelfEnd(k)
    PROVE  RegistryInv'
  BY CleanupStep DEF SelfEnd

LEMMA SenderBeginsStep ==
    ASSUME RegistryInv, NEW k \in Starts, SenderBegins(k)
    PROVE  RegistryInv'
<1> DEFINE pc == IF managers[k].pc = "starting" THEN "running" ELSE "ending"
           x  == managers[k].instance
           new == [managers[k] EXCEPT !.sends = instances[x].main, !.pc = pc]
<1>1. /\ managers \in [Starts -> Managers] /\ managers[k] \in Managers
      /\ x \in Starts /\ x \in 0 .. started /\ instances[x].main \in 0 .. started
      /\ instances[x].main \in {0, x} /\ managers[k].pc \in {"starting", "stopping"}
  BY Types DEF RegistryInv, Births, Born, MainStreams, SenderBegins
<1>2. pc \in Labels \ {"none", "deleted", "removed"}
  BY DEF Labels
<1>3. managers' = [managers EXCEPT ![k] = new]
  BY DEF SenderBegins
<1>4. /\ new \in Managers /\ new.id = managers[k].id /\ new.instance = x
      /\ new.pc = pc /\ new.sends = instances[x].main
  BY <1>1, <1>2 DEF Managers, Labels
<1>5. /\ managers' \in [Starts -> Managers]
      /\ \A m \in Starts : managers'[m] = IF m = k THEN new ELSE managers[m]
  BY <1>1, <1>3, <1>4
<1> HIDE DEF pc, new
<1>6. Moves(k, pc)
  BY <1>4, <1>5 DEF Moves
<1>7. SendsOwn
  BY <1>1, <1>4, <1>5 DEF RegistryInv, MainStreams, SendsOwn, Born
<1>8. UNCHANGED <<instanceMap, rtpInstances, instances, destroyed, main, started, stopped>>
  BY DEF SenderBegins
<1> QED  BY <1>1, <1>2, <1>6, <1>7, <1>8, MovedStep

LEMMA RemoveCallbackStep ==
    ASSUME RegistryInv, NEW k \in Starts, RemoveCallback(k)
    PROVE  RegistryInv'
<1>1. /\ managers' = [managers EXCEPT ![k].pc = "removed"] /\ EntryErased(k)
      /\ managers[k].pc = "ending"
      /\ UNCHANGED <<rtpInstances, instances, destroyed, main, started, stopped>>
  BY DEF RemoveCallback, EntryErased
<1>2. Moves(k, "removed") /\ SendsOwn
  BY <1>1, OnlyLabel DEF Labels
<1> QED  BY <1>1, <1>2, MovedStep DEF Labels

LEMMA DeleteManagerStep ==
    ASSUME RegistryInv, NEW k \in Starts, DeleteManager(k)
    PROVE  RegistryInv'
<1>1. /\ managers' = [managers EXCEPT ![k].pc = "deleted"] /\ managers[k].pc = "removed"
      /\ UNCHANGED <<instanceMap, rtpInstances, instances, main, started, stopped>>
  BY DEF DeleteManager
<1>2. Moves(k, "deleted") /\ SendsOwn
  BY <1>1, OnlyLabel DEF Labels
<1>3. /\ instanceMap' \in [StreamIds -> 0 .. started] /\ main' \in Threads
      /\ Hand' /\ Births' /\ KnownInstances' /\ Sharing' /\ Latest' /\ NoDanglingEntry'
  <2>1. "deleted" \in Labels \ {"none"}
    BY DEF Labels
  <2> QED  BY <1>1, <1>2, <2>1, MovedKeeps
<1>4. destroyed' \in [Starts -> Nat]
  <2>1. \A s \in Starts : Destructions(instances[managers[k].instance], s) \in Nat
    BY DEF Destructions
  <2>2. destroyed \in [Starts -> Nat]
    BY DEF RegistryInv, RegistryTypeOK
  <2> QED  BY <2>1, <2>2 DEF DeleteManager
<1>5. RegistryTypeOK'
  BY <1>1, <1>2, <1>3, <1>4
     DEF RegistryInv, RegistryTypeOK, Referenced, Threads, Moves, Managers, Labels, Instances
<1>6. Joining'
  <2>1. Starting /\ main.instance # started => main.instance \in Starts
    BY Types DEF RegistryInv, Hand
  <2> QED  BY <1>1, <1>2, <2>1 DEF RegistryInv, Joining, Born, Moves, Starting
<1>7. MainStreams'
  BY <1>1, <1>2 DEF RegistryInv, MainStreams, Lives, Moves, SendsOwn, Born
<1> QED  BY <1>3, <1>5, <1>6, <1>7 DEF RegistryInv

-----------------------------------------------------------------------------
(* Together.                                                               *)
LEMMA RegistryInitially == RegistryInit => RegistryInv
<1> SUFFICES ASSUME RegistryInit PROVE RegistryInv
  OBVIOUS
<1>1. started = 0 /\ stopped = {} /\ main = Idle /\ Starts = 1 .. MaxStarts /\ MaxStarts \in Nat
  BY RegistryAssumption DEF RegistryInit, Starts
<1>2. RegistryTypeOK
  <2>1. NewManager \in [id : StreamIds \cup {NoId},
                        pc : {"none", "starting", "stopping", "running", "ending",
                              "removed", "deleted"},
                        instance : 0 .. started, sends : 0 .. started]
    BY <1>1 DEF NewManager
  <2>2. NewInstance \in Instances
    BY <1>1 DEF NewInstance, Instances
  <2>3. instanceMap \in [StreamIds -> 0 .. started] /\ rtpInstances \in [StreamIds -> 0 .. started]
    BY <1>1 DEF RegistryInit
  <2>4. main \in Threads
    BY <1>1 DEF Idle, Threads, Instances
  <2> QED  BY <1>1, <2>1, <2>2, <2>3, <2>4 DEF RegistryInit, RegistryTypeOK, Threads, Instances
<1>3. \A k \in Starts : managers[k].pc = "none" /\ managers[k].sends = 0 /\ instances[k].main = 0
  BY DEF RegistryInit, NewManager, NewInstance
<1>4. \A id \in StreamIds : instanceMap[id] = 0 /\ rtpInstances[id] = 0
  BY DEF RegistryInit
<1>5. ~Starting /\ ~Stopping
  BY <1>1 DEF Starting, Stopping, Idle
<1> QED  BY <1>1, <1>2, <1>3, <1>4, <1>5 DEF RegistryInv, Hand, Births, KnownInstances, Joining,
            MainStreams, Sharing, Latest, NoDanglingEntry, Lives, Born, Idle

LEMMA RegistryStep == RegistryInv /\ [RegistryNext]_registryVars => RegistryInv'
<1> SUFFICES ASSUME RegistryInv, [RegistryNext]_registryVars PROVE RegistryInv'
  OBVIOUS
<1>1. ASSUME NEW id \in StreamIds, StartRequest(id) PROVE RegistryInv'
  BY <1>1, StartRequestStep
<1>2. ASSUME NEW id \in StreamIds, StopRequest(id) PROVE RegistryInv'
  BY <1>2, StopRequestStep
<1>3. CASE StartStep
  BY <1>3, CreateStreamStep, StoreStreamStep, RegisterStep DEF StartStep
<1>4. CASE StopStep
  BY <1>4, StopCleanupStep, StopRemovesStep DEF StopStep
<1>5. ASSUME NEW k \in Starts, SelfEnd(k) PROVE RegistryInv'
  BY <1>5, SelfEndStep
<1>6. ASSUME NEW k \in Starts, ManagerStep(k) PROVE RegistryInv'
  BY <1>6, SenderBeginsStep, RemoveCallbackStep, DeleteManagerStep DEF ManagerStep
<1>7. CASE UNCHANGED registryVars
  BY <1>7 DEF registryVars, RegistryInv, RegistryTypeOK, Hand, Births, KnownInstances, Joining,
              MainStreams, Sharing, Latest, NoDanglingEntry, Starting, Stopping, Born, Lives,
              Referenced
<1> QED  BY <1>1, <1>2, <1>3, <1>4, <1>5, <1>6, <1>7 DEF RegistryNext

LEMMA RegistryInvariant == RegistrySpec => []RegistryInv
  BY RegistryInitially, RegistryStep, PTL DEF RegistrySpec

\* A manager that sends to the stream of another one shares its instance.
LEMMA SharesKnowingly == RegistryInv => SendsWhereAsked
<1> SUFFICES ASSUME RegistryInv, NEW k \in Starts, managers[k].sends \notin {0, k}
             PROVE  LET m == managers[k].sends IN
                        m < k /\ managers[m].id = managers[k].id /\ m \notin stopped
  BY DEF SendsWhereAsked
<1> DEFINE m == managers[k].instance
<1>1. managers[k].sends = m /\ m # k /\ Born(k)
  BY DEF RegistryInv, MainStreams
<1>2. m \in 1 .. k
  BY <1>1 DEF RegistryInv, Births
<1>3. managers[m].id = managers[k].id /\ m \notin stopped
  BY <1>1 DEF RegistryInv, Sharing
<1>4. k \in Nat
  BY Types DEF RegistryInv
<1> QED  BY <1>1, <1>2, <1>3, <1>4

\* findById returns no deleted manager, whatever is started, stopped and ended in
\* which order, and a stream that was started after the earlier ones of its id were
\* stopped sends where it was asked to (DownloadManager_utils.cpp:27-31,
\* Handler_StopStream.cpp:18, RTPManager.cpp:3-17).
THEOREM RegistrySafe == RegistrySpec => [](RegistryTypeOK /\ NoDanglingEntry /\ SendsWhereAsked)
<1>1. RegistryInv => RegistryTypeOK /\ NoDanglingEntry /\ SendsWhereAsked
  BY SharesKnowingly DEF RegistryInv
<1> QED  BY <1>1, RegistryInvariant, PTL

NoDeleter == main.pc # "deleter"

LEMMA NoDeleterInitially == RegistryInit => NoDeleter
  BY DEF RegistryInit, NoDeleter, Idle

\* Whoever is replaced in streams_ is still in stream_timestamps_.
LEMMA ReplacedStays ==
    ASSUME RegistryInv, NoDeleter, StoreStream
    PROVE  main'.pc # "deleter"
<1> DEFINE x   == main.instance
           old == instances[x].streams[main.id]
           new == Stored(instances[x], main.id, main.manager)
<1>1. /\ x \in Starts /\ main.id \in StreamIds /\ started \in Nat
      /\ instances[x].streams \in [StreamIds -> 0 .. started]
      /\ main \in Threads
  BY Types DEF RegistryInv, RegistryTypeOK, Hand, StoreStream, Starting, Threads
<1>2. old # 0 => old \in instances[x].stamps
  <2> SUFFICES ASSUME old # 0 PROVE old \in instances[x].stamps
    OBVIOUS
  <2>1. old \in 1 .. started
    BY <1>1
  <2>2. Referenced(instances[x], old)
    BY <1>1 DEF Referenced
  <2> QED  BY <1>1, <2>1, <2>2 DEF RegistryInv, RegistryTypeOK
<1>3. new.stamps = instances[x].stamps \cup {main.manager}
  BY DEF Stored
<1>4. old # 0 => Referenced(new, old)
  BY <1>2, <1>3 DEF Referenced
<1>5. main' = [main EXCEPT !.pc = IF old # 0 /\ ~Referenced(new, old) THEN "deleter" ELSE "register"]
  BY DEF StoreStream
<1> QED  BY <1>1, <1>4, <1>5 DEF Threads

LEMMA NoDeleterStep ==
    ASSUME RegistryInv, NoDeleter, [RegistryNext]_registryVars
    PROVE  NoDeleter'
<1>0. main \in Threads
  BY DEF RegistryInv, RegistryTypeOK, Threads
<1>1. ASSUME NEW id \in StreamIds, StartRequest(id) \/ StopRequest(id) PROVE NoDeleter'
  <2>1. StartRequest(id) => main'.pc = "create"
    BY DEF StartRequest
  <2>2. StopRequest(id) => main'.pc = "cleanup"
    BY <1>0 DEF StopRequest, Threads
  <2> QED  BY <1>1, <2>1, <2>2 DEF NoDeleter
<1>2. CASE StartStep
  BY <1>0, <1>2, ReplacedStays DEF StartStep, CreateStream, Register, NoDeleter, Idle, Threads
<1>3. CASE StopStep
  BY <1>0, <1>3 DEF StopStep, StopCleanup, StopRemoves, NoDeleter, Idle, Threads
<1>4. ASSUME NEW k \in Starts, SelfEnd(k) \/ ManagerStep(k) PROVE NoDeleter'
  BY <1>4 DEF SelfEnd, ManagerStep, SenderBegins, RemoveCallback, DeleteManager, NoDeleter
<1>5. CASE UNCHANGED registryVars
  BY <1>5 DEF registryVars, NoDeleter
<1> QED  BY <1>1, <1>2, <1>3, <1>4, <1>5 DEF RegistryNext

\* No stream that createStream replaces has its deleter run while createStream holds
\* the lock that deleter takes, whether or not the session makes every stream it is
\* asked for (RTPInstance.cpp:47-70).
THEOREM RegistryReplacesSafely == RegistrySpec => []ReplacedIsKept
<1>1. RegistryInv /\ NoDeleter /\ [RegistryNext]_registryVars => NoDeleter'
  BY NoDeleterStep
<1>2. NoDeleter => ReplacedIsKept
  BY DEF NoDeleter, ReplacedIsKept
<1> QED  BY <1>1, <1>2, NoDeleterInitially, RegistryInvariant, PTL DEF RegistrySpec

-----------------------------------------------------------------------------
(* The media streams of an instance in use.                                *)
\* A stream is kept by the instance its start was given, and by no other.
Homes ==
    \A x, s \in Starts : Referenced(instances[x], s) =>
        \/ Born(s) /\ managers[s].instance = x
        \/ Starting /\ s = started /\ main.instance = x

DestroyedIsBorn == \A s \in Starts : destroyed[s] # 0 => Born(s)

UseInv == Homes /\ DestroyedIsBorn /\ InUseNotDestroyed

\* A step that adds no stream to an instance and no owner.
LEMMA UseKept ==
    ASSUME UseInv, RegistryAssumption, UNCHANGED <<destroyed, started>>,
           \A x, s \in Starts : Referenced(instances'[x], s) => Referenced(instances[x], s),
           \A k \in Starts : /\ Born(k) => Born(k)'
                             /\ Lives(k)' => Lives(k)
                             /\ managers'[k].instance = managers[k].instance,
           main'.instance \in {0, main.instance},
           Starting => Starting' /\ main'.instance = main.instance
    PROVE  UseInv'
<1>1. Homes' /\ DestroyedIsBorn'
  BY DEF UseInv, Homes, DestroyedIsBorn
<1>2. \A x \in Starts : Owned(x)' => Owned(x)
  BY RegistryAssumption DEF Owned, Starts
<1>3. InUseNotDestroyed'
  BY <1>2 DEF UseInv, InUseNotDestroyed
<1> QED  BY <1>1, <1>3 DEF UseInv

LEMMA StartRequestUse ==
    ASSUME RegistryInv, UseInv, NEW id \in StreamIds, StartRequest(id)
    PROVE  UseInv'
<1>1. /\ MaxStarts \in Nat /\ Starts = 1 .. MaxStarts /\ started \in 0 .. MaxStarts
      /\ started' = started + 1 /\ UNCHANGED <<managers, instances, destroyed>>
      /\ main.pc = "idle" /\ ~Starting /\ main.instance = 0
  BY Types DEF RegistryInv, StartRequest, Hand, Idle, Starting
<1>2. /\ main'.pc = "create" /\ Starting'
      /\ main'.instance = IF Reusable(id) THEN rtpInstances[id] ELSE started'
  BY DEF StartRequest, Starting
<1>3. Homes' /\ DestroyedIsBorn'
  BY <1>1 DEF UseInv, Homes, DestroyedIsBorn, Born
<1>4. InUseNotDestroyed'
  <2> SUFFICES ASSUME NEW x \in Starts, Owned(x)', NEW s \in Starts, Referenced(instances[x], s)
               PROVE  destroyed[s] = 0
    BY <1>1 DEF InUseNotDestroyed
  <2>1. Born(s) /\ managers[s].instance = x
    BY <1>1 DEF UseInv, Homes
  <2>2. x \in 1 .. s /\ s <= started
    BY <1>1, <2>1 DEF RegistryInv, Births
  <2>3. x # started'
    BY <1>1, <2>2
  <2>4. Owned(x)
    BY <1>1, <1>2, <2>3 DEF Owned, Lives, Reusable
  <2> QED  BY <2>4 DEF UseInv, InUseNotDestroyed
<1> QED  BY <1>3, <1>4 DEF UseInv

LEMMA StoreStreamUse ==
    ASSUME RegistryInv, UseInv, StoreStream
    PROVE  UseInv'
<1> DEFINE x == main.instance
<1>1. /\ MaxStarts \in Nat /\ Starts = 1 .. MaxStarts /\ started \in Starts
      /\ UNCHANGED <<managers, destroyed, started>>
      /\ Starting /\ Starting' /\ main'.instance = x /\ x \in Starts
      /\ main.manager = started /\ main.id \in StreamIds /\ ~Born(started)
      /\ instances \in [Starts -> Instances]
  <2>1. main \in Threads /\ instances \in [Starts -> Instances]
    BY DEF RegistryInv, RegistryTypeOK, Threads, Instances
  <2>2. Starting /\ Starting' /\ main'.instance = x
    BY <2>1 DEF StoreStream, Starting, Threads
  <2> QED  BY <2>1, <2>2, Types DEF RegistryInv, StoreStream, Hand, Births
<1>2. \A y, s \in Starts : Referenced(instances'[y], s) =>
          Referenced(instances[y], s) \/ (y = x /\ s = started)
  <2> SUFFICES ASSUME NEW y \in Starts, NEW s \in Starts, Referenced(instances'[y], s),
                      ~Referenced(instances[y], s)
               PROVE  y = x /\ s = started
    OBVIOUS
  <2>1. y = x
    BY <1>1 DEF StoreStream
  <2>2. PICK locked : instances'[x] = [Stored(instances[x], main.id, started) EXCEPT !.locked = locked]
    BY <1>1 DEF StoreStream
  <2>3. instances[x] \in Instances
    BY <1>1
  <2>4. /\ instances'[x].main = IF instances[x].main = 0 THEN started ELSE instances[x].main
        /\ instances'[x].streams = [instances[x].streams EXCEPT ![main.id] = started]
        /\ instances'[x].stamps = instances[x].stamps \cup {started}
    BY <2>2, <2>3 DEF Stored, Instances
  <2>5. instances[x].streams \in [StreamIds -> 0 .. started]
    BY <2>3 DEF Instances
  <2> QED  BY <1>1, <2>1, <2>4, <2>5 DEF Referenced
<1>3. Homes'
  BY <1>1, <1>2 DEF UseInv, Homes, Born
<1>4. DestroyedIsBorn' /\ destroyed[started] = 0
  BY <1>1 DEF UseInv, DestroyedIsBorn, Born
<1>5. InUseNotDestroyed'
  BY <1>1, <1>2, <1>4 DEF UseInv, InUseNotDestroyed, Owned, Lives
<1> QED  BY <1>3, <1>4, <1>5 DEF UseInv

LEMMA RegisterUse ==
    ASSUME RegistryInv, UseInv, Register
    PROVE  UseInv'
<1> DEFINE k == started
           new == [id |-> main.id, pc |-> "starting", instance |-> main.instance, sends |-> 0]
<1>1. /\ MaxStarts \in Nat /\ Starts = 1 .. MaxStarts /\ k \in Starts
      /\ UNCHANGED <<instances, destroyed, started>>
      /\ main' = Idle /\ Starting /\ ~Starting' /\ main.manager = k
      /\ managers \in [Starts -> Managers]
  BY Types DEF RegistryInv, Hand, Register, Starting, Idle
<1>2. managers' = [managers EXCEPT ![k] = new]
  BY <1>1 DEF Register
<1>3. /\ managers'[k].pc = "starting" /\ managers'[k].instance = main.instance
      /\ \A m \in Starts : m # k => managers'[m] = managers[m]
  BY <1>1, <1>2
<1>4. Homes'
  <2> SUFFICES ASSUME NEW x \in Starts, NEW s \in Starts, Referenced(instances[x], s)
               PROVE  managers'[s].pc # "none" /\ managers'[s].instance = x
    BY <1>1 DEF Homes, Born
  <2>1. ~Born(k)
    BY <1>1 DEF RegistryInv, Births
  <2> QED  BY <1>3, <2>1 DEF UseInv, Homes, Born
<1>5. DestroyedIsBorn'
  BY <1>1, <1>3 DEF UseInv, DestroyedIsBorn, Born
<1>6. InUseNotDestroyed'
  <2>1. \A x \in Starts : Owned(x)' => Owned(x)
    BY <1>1, <1>3 DEF Owned, Lives, Idle
  <2> QED  BY <1>1, <2>1 DEF UseInv, InUseNotDestroyed
<1> QED  BY <1>4, <1>5, <1>6 DEF UseInv

\* The last owner destroys streams that no other instance keeps.
LEMMA DeleteManagerUse ==
    ASSUME RegistryInv, UseInv, NEW k \in Starts, DeleteManager(k)
    PROVE  UseInv'
<1> DEFINE x == managers[k].instance
           last == main.instance # x /\ \A m \in Starts \ {k} :
                       Lives(m) => managers[m].instance # x
<1>1. /\ UNCHANGED <<instances, main, started>> /\ managers[k].pc = "removed"
      /\ managers' = [managers EXCEPT ![k].pc = "deleted"]
      /\ destroyed' = IF last
                        THEN [s \in Starts |-> destroyed[s] + Destructions(instances[x], s)]
                        ELSE destroyed
      /\ destroyed \in [Starts -> Nat] /\ (Starting' <=> Starting)
  BY DEF DeleteManager, RegistryInv, RegistryTypeOK, Starting
<1>2. Moves(k, "deleted")
  BY <1>1, OnlyLabel DEF Labels
<1>3. x \in Starts
  BY <1>1, Types DEF RegistryInv, Births, Born
<1>4. \A s \in Starts : /\ Destructions(instances[x], s) \in Nat
                        /\ Destructions(instances[x], s) # 0 => Referenced(instances[x], s)
  BY DEF Destructions, Referenced
<1>5. \A s \in Starts : destroyed'[s] # destroyed[s] => last /\ Referenced(instances[x], s)
  <2> SUFFICES ASSUME NEW s \in Starts, destroyed'[s] # destroyed[s]
               PROVE  last /\ Referenced(instances[x], s)
    OBVIOUS
  <2>1. last /\ destroyed'[s] = destroyed[s] + Destructions(instances[x], s)
    <3>1. last
      BY <1>1, Zenon
    <3>2. destroyed' = [t \in Starts |-> destroyed[t] + Destructions(instances[x], t)]
      BY <1>1, <3>1, Zenon
    <3> QED  BY <3>1, <3>2, Zenon
  <2>2. destroyed[s] \in Nat /\ Destructions(instances[x], s) # 0
    BY <1>1, <1>4, <2>1
  <2>3. Referenced(instances[x], s)
    BY <1>4, <2>2
  <2> QED  BY <2>1, <2>3, Zenon
<1>6. Homes'
  BY <1>1, <1>2 DEF UseInv, Homes, Born, Moves
<1>7. DestroyedIsBorn'
  <2> SUFFICES ASSUME NEW s \in Starts, destroyed'[s] # 0 PROVE Born(s)
    BY <1>2 DEF DestroyedIsBorn, Born, Moves
  <2> QED  BY <1>3, <1>5 DEF UseInv, DestroyedIsBorn, Homes
<1>8. InUseNotDestroyed'
  <2> SUFFICES ASSUME NEW y \in Starts, Owned(y)', NEW s \in Starts, Referenced(instances[y], s)
               PROVE  destroyed'[s] = 0
    BY <1>1 DEF InUseNotDestroyed
  <2>1. Owned(y) /\ (last => y # x)
    BY <1>1, <1>2 DEF Owned, Lives, Moves
  <2>2. destroyed[s] = 0
    BY <2>1 DEF UseInv, InUseNotDestroyed
  <2>3. Starting => ~Born(started)
    BY DEF RegistryInv, Births
  <2>4. Referenced(instances[x], s) => x = y
    BY <1>3, <2>3 DEF UseInv, Homes
  <2> QED  BY <1>5, <2>1, <2>2, <2>4
<1> QED  BY <1>6, <1>7, <1>8 DEF UseInv

LEMMA UseStep == RegistryInv /\ UseInv /\ [RegistryNext]_registryVars => UseInv'
<1> SUFFICES ASSUME RegistryInv, UseInv, [RegistryNext]_registryVars PROVE UseInv'
  OBVIOUS
<1>0. RegistryAssumption /\ main \in Threads
  BY RegistryAssumption DEF RegistryInv, RegistryTypeOK, Threads
<1>1. ASSUME NEW id \in StreamIds, StartRequest(id) PROVE UseInv'
  BY <1>1, StartRequestUse
<1>2. ASSUME NEW id \in StreamIds, StopRequest(id) PROVE UseInv'
  BY <1>0, <1>2, UseKept DEF StopRequest, Born, Lives, Starting, Threads
<1>3. CASE CreateStream
  <2>1. \A y, s \in Starts : Referenced(instances'[y], s) => Referenced(instances[y], s)
    <3>1. instances \in [Starts -> Instances]
      BY DEF RegistryInv, RegistryTypeOK, Instances
    <3> QED  BY <1>3, <3>1 DEF CreateStream, Referenced, Instances
  <2>2. /\ UNCHANGED <<managers, destroyed, started>>
        /\ main'.instance = main.instance /\ Starting'
    BY <1>0, <1>3 DEF CreateStream, Starting, Threads
  <2> QED  BY <1>0, <2>1, <2>2, UseKept DEF Born, Lives
<1>4. CASE StoreStream \/ Register
  BY <1>4, StoreStreamUse, RegisterUse
<1>5. CASE StopCleanup
  <2>1. /\ UNCHANGED <<instances, destroyed, started>> /\ main.manager \in Starts
        /\ main'.instance = main.instance /\ ~Starting
    BY <1>0, <1>5, Types DEF StopCleanup, Starting, Threads, RegistryInv, Hand, Stopping
  <2>2. managers \in [Starts -> Managers]
    BY Types DEF RegistryInv
  <2> QED  BY <1>0, <1>5, <2>1, <2>2, UseKept DEF StopCleanup, Cleanup, Born, Lives, Managers, Starting
<1>6. CASE StopRemoves
  BY <1>0, <1>6, UseKept DEF StopRemoves, Born, Lives, Idle, Starting
<1>7. ASSUME NEW k \in Starts, SelfEnd(k) \/ SenderBegins(k) \/ RemoveCallback(k) PROVE UseInv'
  <2>1. UNCHANGED <<instances, destroyed, started, main>> /\ managers \in [Starts -> Managers]
    BY <1>7, Types DEF SelfEnd, SenderBegins, RemoveCallback, RegistryInv
  <2>2. \A m \in Starts : /\ Born(m) => Born(m)'
                          /\ Lives(m)' => Lives(m)
                          /\ managers'[m].instance = managers[m].instance
    BY <1>7, <2>1 DEF SelfEnd, Cleanup, SenderBegins, RemoveCallback, Born, Lives, Managers
  <2>3. Starting => Starting'
    BY <2>1 DEF Starting
  <2>4. \A x, s \in Starts : Referenced(instances'[x], s) => Referenced(instances[x], s)
    BY <2>1
  <2>5. UNCHANGED <<destroyed, started>> /\ main'.instance = main.instance
    BY <2>1
  <2> QED  BY <1>0, <2>2, <2>3, <2>4, <2>5, UseKept
<1>8. ASSUME NEW k \in Starts, DeleteManager(k) PROVE UseInv'
  BY <1>8, DeleteManagerUse
<1>9. CASE UNCHANGED registryVars
  BY <1>0, <1>9, UseKept DEF registryVars, Born, Lives, Starting
<1> QED  BY <1>1, <1>2, <1>3, <1>4, <1>5, <1>6, <1>7, <1>8, <1>9
         DEF RegistryNext, StartStep, StopStep, ManagerStep

LEMMA UseInitially == RegistryInit => UseInv
<1> SUFFICES ASSUME RegistryInit PROVE UseInv
  OBVIOUS
<1>1. \A x, s \in Starts : ~Referenced(instances[x], s) /\ destroyed[s] = 0
  BY RegistryAssumption DEF RegistryInit, NewInstance, Referenced, Starts
<1> QED  BY <1>1 DEF UseInv, Homes, DestroyedIsBorn, InUseNotDestroyed

\* No stream that a manager may send through or a start is adding to is destroyed,
\* whichever starts share an instance and whichever of them ends when
\* (RTPManager.cpp:5-9, RTPInstance.cpp:14-27).
THEOREM RegistryInUse == RegistrySpec => []InUseNotDestroyed
<1>1. UseInv => InUseNotDestroyed
  BY DEF UseInv
<1> QED  BY <1>1, UseInitially, UseStep, RegistryInvariant, PTL DEF RegistrySpec

\* One of them by itself: who starts a stream again after stopping it is heard at the
\* new address, although the old manager may still own the RTPInstance
\* (Handler_StopStream.cpp:18, RTPManager.cpp:3-17, RTPInstance.cpp:64).
THEOREM RegistrySendsWhereAsked == RegistrySpec => []SendsWhereAsked
  BY RegistrySafe, PTL

\* What the managers, the map and the registry hold keeps to its kinds
\* (Handler_StartStream.cpp:39-60, RTPManager.cpp:3-17).
THEOREM RegistryTypes == RegistrySpec => []RegistryTypeOK
  BY RegistrySafe, PTL
=============================================================================
