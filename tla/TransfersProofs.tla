--------------------------- MODULE TransfersProofs --------------------------
(***************************************************************************)
(* Proofs about Transfers, for any streams, handles and numbers of         *)
(* transfers and cancellations.                                            *)
(***************************************************************************)
EXTENDS Transfers, TLAPS

(* The parts of the invariant, besides the properties themselves.          *)
\* A job that has begun has a handle of its own and counts its transfers.
OwnHandles ==
    /\ \A j \in Jobs : job[j].pc # "idle" =>
          job[j].handle \in Handles /\ job[j].n \in 1 .. MaxTransfers[j]
    /\ \A i, j \in Jobs : job[i].handle = job[j].handle /\ job[i].handle # NoHandle => i = j

\* The transfer a job is adding or waiting for was not called back, nor a later one.
Fresh ==
    \A t \in Ids :
        \/ t[2] > job[t[1]].n
        \/ t[2] = job[t[1]].n /\ job[t[1]].pc \in {"add", "waiting"}
        => calls[t] = 0

\* What the worker and cancelTask have in hand at every label.
InHand ==
    /\ worker.pc \in {"lock", "call"} => worker.easy \in Handles /\ worker.of \in Ids
    /\ worker.cb # None <=> worker.pc = "call"
    /\ api.pc = "lock" => api.handle \in Handles
    /\ api.cb # None <=> api.pc = "call"

\* Only a cancellation parts what was read from what is registered.
Cancelled ==
    /\ api.pc # "idle" => cancels > 0
    /\ worker.pc = "lock" /\ callbacks[worker.easy] # worker.of => cancels > 0
    /\ worker.pc = "call" /\ worker.cb # worker.of => cancels > 0

\* Waits in the next state.
WaitsNext(t) == job'[t[1]].pc = "waiting" /\ job'[t[1]].n = t[2]

\* The sets TransfersTypeOK is written with.
JobStates == [pc : {"idle", "add", "waiting", "answered"}, handle : Handles \cup {NoHandle},
              n : Nat]
Workers == [pc : {"run", "asleep", "perform", "read", "lock", "call", "done"},
            easy : Handles \cup {NoHandle}, of : Ids \cup {None}, cb : Ids \cup {None}]
Cancellers == [pc : {"idle", "lock", "call", "notify"},
               handle : Handles \cup {NoHandle}, cb : Ids \cup {None}]

TransfersInv ==
    /\ TransfersTypeOK /\ OwnHandles /\ Fresh /\ InHand /\ Cancelled
    /\ OneAnswer /\ HandlesAlive /\ StaleOnlyAfterCancel


-----------------------------------------------------------------------------
(* Transfers and their names.                                              *)
LEMMA IdsAre ==
    /\ \A t \in Ids : t[1] \in Jobs /\ t[2] \in 1 .. MaxTransfers[t[1]] /\ t = <<t[1], t[2]>>
    /\ \A j \in Jobs : \A n \in 1 .. MaxTransfers[j] : <<j, n>> \in Ids
    /\ None \notin Ids
    /\ MaxTransfers \in [Jobs -> Nat] /\ MaxCancels \in Nat
    /\ NoHandle \notin Handles
<1>1. \A t : t \in Ids <=> \E j \in Jobs : t \in {j} \X (1 .. MaxTransfers[j])
  BY DEF Ids
<1>2. \A t \in Ids : t[1] \in Jobs /\ t[2] \in 1 .. MaxTransfers[t[1]] /\ t = <<t[1], t[2]>>
  <2> SUFFICES ASSUME NEW t \in Ids
               PROVE  t[1] \in Jobs /\ t[2] \in 1 .. MaxTransfers[t[1]] /\ t = <<t[1], t[2]>>
    OBVIOUS
  <2>1. PICK j \in Jobs : t \in {j} \X (1 .. MaxTransfers[j])
    BY <1>1
  <2> QED  BY <2>1
<1>3. \A j \in Jobs : \A n \in 1 .. MaxTransfers[j] : <<j, n>> \in Ids
  <2> SUFFICES ASSUME NEW j \in Jobs, NEW n \in 1 .. MaxTransfers[j] PROVE <<j, n>> \in Ids
    OBVIOUS
  <2>1. <<j, n>> \in {j} \X (1 .. MaxTransfers[j])
    OBVIOUS
  <2> QED  BY <1>1, <2>1
<1>4. None \notin Ids
  <2>1. None[1] = NoJob
    BY DEF None
  <2> QED  BY <1>2, <2>1, TransfersAssumption
<1> QED  BY <1>2, <1>3, <1>4, TransfersAssumption

\* What the call of a callback changes.
LEMMA CallEffect ==
    ASSUME TransfersTypeOK, NEW t \in Ids, NEW of \in Ids, calls[t] = 0, Call(t, of),
           job[t[1]].n = t[2]
    PROVE  /\ calls' \in [Ids -> 0 .. 1] /\ told' \in [Ids -> Ids \cup {None}]
           /\ job' \in [Jobs -> JobStates]
           /\ \A u \in Ids : /\ calls'[u] = IF u = t THEN 1 ELSE calls[u]
                             /\ told'[u] = IF u = t THEN of ELSE told[u]
                             /\ WaitsNext(u) <=> Waits(u) /\ u # t
           /\ \A j \in Jobs : /\ job'[j].handle = job[j].handle /\ job'[j].n = job[j].n
                              /\ job'[j].pc = IF j = t[1] THEN "answered" ELSE job[j].pc
<1>1. calls' \in [Ids -> 0 .. 1] /\ \A u \in Ids : calls'[u] = IF u = t THEN 1 ELSE calls[u]
  <2>1. calls' = [calls EXCEPT ![t] = 1]
    BY DEF TransfersTypeOK, Call
  <2> QED  BY <2>1 DEF TransfersTypeOK
<1>2. /\ told' \in [Ids -> Ids \cup {None}]
      /\ \A u \in Ids : told'[u] = IF u = t THEN of ELSE told[u]
  BY DEF TransfersTypeOK, Call
<1>3. /\ job' \in [Jobs -> JobStates]
      /\ \A j \in Jobs : /\ job'[j].handle = job[j].handle /\ job'[j].n = job[j].n
                         /\ job'[j].pc = IF j = t[1] THEN "answered" ELSE job[j].pc
  <2> DEFINE new == [job[t[1]] EXCEPT !.pc = "answered"]
  <2>1. job \in [Jobs -> JobStates] /\ t[1] \in Jobs
    BY IdsAre DEF TransfersTypeOK, JobStates
  <2>2. job[t[1]] \in JobStates
    BY <2>1
  <2>3. /\ new \in JobStates /\ new.pc = "answered"
        /\ new.handle = job[t[1]].handle /\ new.n = job[t[1]].n
    BY <2>2 DEF JobStates
  <2>4. job' = [job EXCEPT ![t[1]] = new]
    BY DEF Call
  <2> HIDE DEF new
  <2>5. \A j \in Jobs : job'[j] = IF j = t[1] THEN new ELSE job[j]
    BY <2>1, <2>4
  <2> QED  BY <2>1, <2>3, <2>4, <2>5
<1>4. \A u \in Ids : WaitsNext(u) <=> Waits(u) /\ u # t
  <2> SUFFICES ASSUME NEW u \in Ids PROVE WaitsNext(u) <=> Waits(u) /\ u # t
    OBVIOUS
  <2>1. u[1] \in Jobs /\ (u = t <=> u[1] = t[1] /\ u[2] = t[2])
    BY IdsAre
  <2> QED  BY <1>3, <2>1 DEF Waits, WaitsNext
<1> QED  BY <1>1, <1>2, <1>3, <1>4

LEMMA NotifiedKeeps ==
    ASSUME NEW w \in Workers, NEW v, v = Notified(w)
    PROVE  /\ v \in Workers /\ v.easy = w.easy /\ v.of = w.of /\ v.cb = w.cb
           /\ v.pc = w.pc \/ (w.pc = "asleep" /\ v.pc = "run")
<1>1. CASE w.pc = "asleep"
  BY <1>1 DEF Notified, Workers
<1>2. CASE w.pc # "asleep"
  <2>1. v = w
    BY <1>2, Zenon DEF Notified
  <2> QED  BY <2>1
<1> QED  BY <1>1, <1>2

\* A callback is called that is not registered.
LEMMA CallKeeps ==
    ASSUME TransfersInv, NEW t \in Ids, NEW of \in Ids, Call(t, of), calls[t] = 0,
           job[t[1]].n = t[2], job[t[1]].pc \in {"add", "waiting"},
           \A h \in Handles : callbacks[h] # t,
           of # t => cancels > 0,
           \/ worker' = worker
           \/ worker.cb = t /\ worker' = [worker EXCEPT !.pc = "read", !.cb = None],
           \/ api' = api
           \/ api.cb = t /\ api' = [api EXCEPT !.pc = "notify", !.cb = None],
           t \notin {worker'.cb, api'.cb},
           UNCHANGED <<running, callbacks, multi, messages, stopper, cancels>>
    PROVE  TransfersInv'
<1>1. /\ calls' \in [Ids -> 0 .. 1] /\ told' \in [Ids -> Ids \cup {None}]
      /\ job' \in [Jobs -> JobStates]
      /\ \A u \in Ids : /\ calls'[u] = IF u = t THEN 1 ELSE calls[u]
                        /\ told'[u] = IF u = t THEN of ELSE told[u]
                        /\ WaitsNext(u) <=> Waits(u) /\ u # t
      /\ \A j \in Jobs : /\ job'[j].handle = job[j].handle /\ job'[j].n = job[j].n
                         /\ job'[j].pc = IF j = t[1] THEN "answered" ELSE job[j].pc
  BY CallEffect DEF TransfersInv
<1>2. /\ worker' \in Workers
      /\ worker'.cb \in {worker.cb, None} /\ (worker'.cb # None <=> worker'.pc = "call")
      /\ worker'.cb # None \/ worker'.pc # "read" => worker' = worker
      /\ worker'.cb # worker.cb => worker.cb = t
  <2>1. worker \in Workers
    BY DEF TransfersInv, TransfersTypeOK, Workers
  <2>2. [worker EXCEPT !.pc = "read", !.cb = None] \in Workers
    BY <2>1 DEF Workers
  <2> QED  BY <2>1, <2>2 DEF TransfersInv, InHand, Workers
<1>3. /\ api' \in Cancellers
      /\ api'.cb \in {api.cb, None} /\ (api'.cb # None <=> api'.pc = "call")
      /\ api'.cb # None \/ api'.pc # "notify" => api' = api
      /\ api'.cb # api.cb => api.cb = t
      /\ api'.pc # "idle" => api.pc # "idle"
  <2>1. api \in Cancellers
    BY DEF TransfersInv, TransfersTypeOK, Cancellers
  <2>2. [api EXCEPT !.pc = "notify", !.cb = None] \in Cancellers
    BY <2>1 DEF Cancellers
  <2> QED  BY <2>1, <2>2, IdsAre DEF TransfersInv, InHand, Cancellers
<1>4. UNCHANGED <<running, callbacks, multi, messages, stopper, cancels>>
  OBVIOUS
<1>5. TransfersTypeOK'
  BY <1>1, <1>2, <1>3 DEF TransfersInv, TransfersTypeOK, JobStates, Workers, Cancellers
<1>6. OwnHandles'
  BY <1>1 DEF TransfersInv, OwnHandles
<1>7. Fresh'
  BY <1>1, IdsAre DEF TransfersInv, Fresh
<1>8. InHand' /\ Cancelled'
  BY <1>2, <1>3, <1>4 DEF TransfersInv, InHand, Cancelled
<1>9. OneAnswer'
  <2>1. \A u \in Ids : WaitsNext(u) =>
            /\ calls'[u] = 0
            /\ callbacks[job'[u[1]].handle] = u \/ worker'.cb = u \/ api'.cb = u
    <3> SUFFICES ASSUME NEW u \in Ids, WaitsNext(u)
                 PROVE  /\ calls'[u] = 0
                        /\ callbacks[job'[u[1]].handle] = u \/ worker'.cb = u \/ api'.cb = u
      OBVIOUS
    <3>1. u # t /\ Waits(u) /\ u[1] \in Jobs
      BY <1>1, IdsAre
    <3> QED  BY <1>1, <1>2, <1>3, <3>1 DEF TransfersInv, OneAnswer
  <2>2. \A k \in Handles : callbacks[k] # None =>
            /\ WaitsNext(callbacks[k]) /\ job'[callbacks[k][1]].handle = k
            /\ callbacks[k] \notin {worker'.cb, api'.cb}
    <3> SUFFICES ASSUME NEW k \in Handles, callbacks[k] # None
                 PROVE  /\ WaitsNext(callbacks[k]) /\ job'[callbacks[k][1]].handle = k
                        /\ callbacks[k] \notin {worker'.cb, api'.cb}
      OBVIOUS
    <3>1. callbacks[k] \in Ids /\ callbacks[k][1] \in Jobs
      BY IdsAre DEF TransfersInv, TransfersTypeOK
    <3>2. /\ Waits(callbacks[k]) /\ job[callbacks[k][1]].handle = k
          /\ callbacks[k] \notin {worker.cb, api.cb}
      BY DEF TransfersInv, OneAnswer, Registered
    <3> QED  BY <1>1, <1>2, <1>3, <3>1, <3>2
  <2>3. /\ worker'.cb # None => WaitsNext(worker'.cb)
        /\ api'.cb # None => WaitsNext(api'.cb)
        /\ worker'.cb # None => worker'.cb # api'.cb
    <3>1. worker.cb \in Ids \cup {None} /\ api.cb \in Ids \cup {None}
      BY DEF TransfersInv, TransfersTypeOK
    <3> QED  BY <1>1, <1>2, <1>3, <3>1 DEF TransfersInv, OneAnswer
  <2> QED  BY <1>4, <2>1, <2>2, <2>3 DEF OneAnswer, Registered, Waits, WaitsNext
<1>10. HandlesAlive'
  <2>1. \A u \in {worker'.cb, api'.cb} \ {None} :
            job'[u[1]].handle # NoHandle /\ multi[job'[u[1]].handle] = None
    <3> SUFFICES ASSUME NEW u \in {worker'.cb, api'.cb} \ {None}
                 PROVE  job'[u[1]].handle # NoHandle /\ multi[job'[u[1]].handle] = None
      OBVIOUS
    <3>1. u \in {worker.cb, api.cb} \ {None}
      BY <1>2, <1>3
    <3>2. u[1] \in Jobs
      BY <3>1, IdsAre DEF TransfersInv, TransfersTypeOK
    <3> QED  BY <1>1, <3>1, <3>2 DEF TransfersInv, HandlesAlive
  <2>2. \A k \in Handles : multi[k] # None => callbacks[k] = multi[k]
    BY DEF TransfersInv, HandlesAlive
  <2>3. \A j \in Jobs : job'[j].pc = "add" => multi[job'[j].handle] = None
    BY <1>1 DEF TransfersInv, HandlesAlive
  <2> QED  BY <1>4, <2>1, <2>2, <2>3 DEF HandlesAlive, Held
<1>11. StaleOnlyAfterCancel'
  <2>1. worker'.pc = "lock" /\ callbacks[worker'.easy] # worker'.of =>
            api'.cb = worker'.of \/ calls'[worker'.of] = 1
    BY <1>1, <1>2, <1>3, IdsAre DEF TransfersInv, InHand, StaleOnlyAfterCancel
  <2>2. \A u \in Ids : told'[u] \notin {u, None} => cancels > 0
    BY <1>1 DEF TransfersInv, StaleOnlyAfterCancel
  <2> QED  BY <1>4, <2>1, <2>2 DEF TransfersInv, StaleOnlyAfterCancel
<1> QED  BY <1>5, <1>6, <1>7, <1>8, <1>9, <1>10, <1>11 DEF TransfersInv

LEMMA NewHandleStep ==
    ASSUME TransfersInv, NEW j \in Jobs, NEW h \in Handles, NewHandle(j, h)
    PROVE  TransfersInv'
<1>1. TransfersTypeOK'
  BY DEF NewHandle, TransfersInv, TransfersTypeOK
<1>2. OwnHandles'
  BY DEF NewHandle, TransfersInv, TransfersTypeOK
<1>3. Fresh'
  BY DEF NewHandle, TransfersInv, TransfersTypeOK
<1>4. InHand'
  BY DEF NewHandle, TransfersInv, TransfersTypeOK
<1>5. Cancelled'
  BY DEF NewHandle, TransfersInv, Cancelled
<1>6. OneAnswer'
  BY DEF NewHandle, TransfersInv, TransfersTypeOK, Registered
<1>7. HandlesAlive'
  BY DEF NewHandle, TransfersInv, TransfersTypeOK, OwnHandles, StaleOnlyAfterCancel
<1>8. StaleOnlyAfterCancel'
  BY DEF NewHandle, TransfersInv, StaleOnlyAfterCancel
<1> QED  BY <1>1, <1>2, <1>3, <1>4, <1>5, <1>6, <1>7, <1>8 DEF TransfersInv

LEMMA SameHandleStep ==
    ASSUME TransfersInv, NEW j \in Jobs, SameHandle(j)
    PROVE  TransfersInv'
<1>1. TransfersTypeOK'
  BY DEF SameHandle, TransfersInv, TransfersTypeOK
<1>2. OwnHandles'
  BY DEF SameHandle, TransfersInv, TransfersTypeOK
<1>3. Fresh'
  BY DEF SameHandle, TransfersInv, TransfersTypeOK
<1>4. InHand'
  BY DEF SameHandle, TransfersInv, TransfersTypeOK
<1>5. Cancelled'
  BY DEF SameHandle, TransfersInv, Cancelled
<1>6. OneAnswer'
  BY DEF SameHandle, TransfersInv, TransfersTypeOK
<1>7. HandlesAlive'
  BY DEF SameHandle, TransfersInv, TransfersTypeOK
<1>8. StaleOnlyAfterCancel'
  BY DEF SameHandle, TransfersInv, StaleOnlyAfterCancel
<1> QED  BY <1>1, <1>2, <1>3, <1>4, <1>5, <1>6, <1>7, <1>8 DEF TransfersInv

LEMMA AddTaskStep ==
    ASSUME TransfersInv, NEW j \in Jobs, AddTask(j)
    PROVE  TransfersInv'
<1> DEFINE h == job[j].handle
           t == Current(j)
<1>1. /\ h \in Handles /\ t \in Ids /\ t[1] = j /\ t[2] = job[j].n
      /\ job[j].pc = "add" /\ multi[h] = None
      /\ callbacks' = [callbacks EXCEPT ![h] = t] /\ multi' = [multi EXCEPT ![h] = t]
      /\ job' = [job EXCEPT ![j].pc = "waiting"] /\ worker' = Notified(worker)
      /\ UNCHANGED <<running, messages, api, stopper, cancels, calls, told>>
  BY IdsAre DEF AddTask, TransfersInv, OwnHandles, Current
<1> HIDE DEF h, t
<1>2. callbacks[h] = None
  <2> SUFFICES ASSUME callbacks[h] # None PROVE FALSE
    OBVIOUS
  <2>1. Waits(callbacks[h]) /\ job[callbacks[h][1]].handle = h /\ callbacks[h][1] \in Jobs
    BY <1>1, IdsAre DEF TransfersInv, TransfersTypeOK, OneAnswer, Registered
  <2>2. callbacks[h][1] = j
    BY <1>1, <2>1, IdsAre DEF TransfersInv, OwnHandles, h
  <2> QED  BY <1>1, <2>1, <2>2 DEF Waits
<1>3. /\ job' \in [Jobs -> JobStates]
      /\ \A i \in Jobs : /\ job'[i].handle = job[i].handle /\ job'[i].n = job[i].n
                         /\ job'[i].pc = IF i = j THEN "waiting" ELSE job[i].pc
  <2> DEFINE new == [job[j] EXCEPT !.pc = "waiting"]
  <2>1. job \in [Jobs -> JobStates] /\ job[j] \in JobStates
    BY DEF TransfersInv, TransfersTypeOK, JobStates
  <2>2. new \in JobStates /\ new.pc = "waiting" /\ new.handle = job[j].handle /\ new.n = job[j].n
    BY <2>1 DEF JobStates
  <2>3. job' = [job EXCEPT ![j] = new]
    BY <1>1
  <2> HIDE DEF new
  <2>4. \A i \in Jobs : job'[i] = IF i = j THEN new ELSE job[i]
    BY <2>1, <2>3
  <2> QED  BY <2>1, <2>2, <2>3, <2>4
<1>4. /\ callbacks' \in [Handles -> Ids \cup {None}] /\ multi' \in [Handles -> Ids \cup {None}]
      /\ \A k \in Handles : /\ callbacks'[k] = IF k = h THEN t ELSE callbacks[k]
                            /\ multi'[k] = IF k = h THEN t ELSE multi[k]
  BY <1>1 DEF TransfersInv, TransfersTypeOK
<1>5. /\ worker' \in Workers /\ worker'.easy = worker.easy /\ worker'.of = worker.of
      /\ worker'.cb = worker.cb
      /\ worker'.pc = worker.pc \/ (worker.pc = "asleep" /\ worker'.pc = "run")
  <2>1. worker \in Workers
    BY DEF TransfersInv, TransfersTypeOK, Workers
  <2> QED  BY <1>1, <2>1, NotifiedKeeps
<1>6. \A u \in Ids : WaitsNext(u) <=> Waits(u) \/ u = t
  <2> SUFFICES ASSUME NEW u \in Ids PROVE WaitsNext(u) <=> Waits(u) \/ u = t
    OBVIOUS
  <2>1. u[1] \in Jobs /\ (u = t <=> u[1] = t[1] /\ u[2] = t[2])
    BY <1>1, IdsAre
  <2> QED  BY <1>1, <1>3, <2>1 DEF Waits, WaitsNext
<1>7. ~Waits(t) /\ t \notin {worker.cb, api.cb}
  BY <1>1, IdsAre DEF TransfersInv, OneAnswer, Waits
<1>8. TransfersTypeOK'
  BY <1>1, <1>3, <1>4, <1>5 DEF TransfersInv, TransfersTypeOK, JobStates, Workers
<1>9. OwnHandles'
  BY <1>1, <1>3 DEF TransfersInv, OwnHandles
<1>10. Fresh' /\ InHand'
  <2>1. Fresh'
    BY <1>1, <1>3, IdsAre DEF TransfersInv, Fresh
  <2> QED  BY <1>1, <1>5, <2>1 DEF TransfersInv, InHand
<1>11. Cancelled'
  BY <1>1, <1>2, <1>4, <1>5, IdsAre DEF TransfersInv, Cancelled, InHand
<1>12. OneAnswer'
  <2>1. \A u \in Ids : WaitsNext(u) =>
            calls[u] = 0 /\ (callbacks'[job'[u[1]].handle] = u \/ worker'.cb = u \/ api.cb = u)
    <3> SUFFICES ASSUME NEW u \in Ids, WaitsNext(u)
                 PROVE  calls[u] = 0
                        /\ (callbacks'[job'[u[1]].handle] = u \/ worker'.cb = u \/ api.cb = u)
      OBVIOUS
    <3>1. CASE u = t
      BY <1>1, <1>3, <1>4, <3>1 DEF TransfersInv, Fresh, h
    <3>2. CASE u # t
      <4>1. Waits(u) /\ u[1] \in Jobs
        BY <1>6, <3>2, IdsAre
      <4>2. calls[u] = 0 /\ (callbacks[job[u[1]].handle] = u \/ worker.cb = u \/ api.cb = u)
        BY <4>1 DEF TransfersInv, OneAnswer
      <4>3. job[u[1]].handle \in Handles
        BY <4>1 DEF TransfersInv, OwnHandles, Waits
      <4> QED  BY <1>2, <1>3, <1>4, <1>5, <4>1, <4>2, <4>3, IdsAre
    <3> QED  BY <3>1, <3>2
  <2>2. \A k \in Handles : callbacks'[k] # None =>
            /\ WaitsNext(callbacks'[k]) /\ job'[callbacks'[k][1]].handle = k
            /\ callbacks'[k] \notin {worker.cb, api.cb}
    <3> SUFFICES ASSUME NEW k \in Handles, callbacks'[k] # None
                 PROVE  /\ WaitsNext(callbacks'[k]) /\ job'[callbacks'[k][1]].handle = k
                        /\ callbacks'[k] \notin {worker.cb, api.cb}
      OBVIOUS
    <3>1. CASE k = h
      BY <1>1, <1>3, <1>4, <1>6, <1>7, <3>1 DEF h
    <3>2. CASE k # h
      <4>1. /\ callbacks'[k] = callbacks[k] /\ callbacks[k] \in Ids
            /\ callbacks[k][1] \in Jobs
        BY <1>4, <3>2, IdsAre
      <4>2. /\ Waits(callbacks[k]) /\ job[callbacks[k][1]].handle = k
            /\ callbacks[k] \notin {worker.cb, api.cb}
        BY <4>1 DEF TransfersInv, OneAnswer, Registered
      <4> QED  BY <1>3, <1>6, <4>1, <4>2
    <3> QED  BY <3>1, <3>2
  <2>3. /\ worker.cb # None => WaitsNext(worker.cb)
        /\ api.cb # None => WaitsNext(api.cb)
        /\ worker.cb # None => worker.cb # api.cb
    <3>1. worker.cb \in Ids \cup {None} /\ api.cb \in Ids \cup {None}
      BY DEF TransfersInv, TransfersTypeOK
    <3> QED  BY <1>6, <3>1 DEF TransfersInv, OneAnswer
  <2> QED  BY <1>1, <1>5, <2>1, <2>2, <2>3 DEF OneAnswer, Registered, Waits, WaitsNext
<1>13. HandlesAlive'
  <2>1. \A k \in Handles : multi'[k] # None => callbacks'[k] = multi'[k]
    BY <1>4 DEF TransfersInv, HandlesAlive
  <2>2. \A u \in {worker.cb, api.cb} \ {None} :
            job'[u[1]].handle # NoHandle /\ multi'[job'[u[1]].handle] = None
    <3> SUFFICES ASSUME NEW u \in {worker.cb, api.cb} \ {None}
                 PROVE  job'[u[1]].handle # NoHandle /\ multi'[job'[u[1]].handle] = None
      OBVIOUS
    <3>1. u \in Ids /\ u[1] \in Jobs /\ Waits(u)
      BY IdsAre DEF TransfersInv, TransfersTypeOK, OneAnswer
    <3>2. /\ job[u[1]].handle # NoHandle /\ multi[job[u[1]].handle] = None
          /\ job[u[1]].handle \in Handles
      BY <3>1 DEF TransfersInv, HandlesAlive, OwnHandles, Waits
    <3>3. u[1] # j /\ job[u[1]].handle # h
      BY <1>1, <3>1, <3>2 DEF TransfersInv, OwnHandles, Waits, h
    <3> QED  BY <1>3, <1>4, <3>1, <3>2, <3>3
  <2>3. \A i \in Jobs : job'[i].pc = "add" => multi'[job'[i].handle] = None
    <3> SUFFICES ASSUME NEW i \in Jobs, job'[i].pc = "add"
                 PROVE  multi'[job[i].handle] = None
      BY <1>3
    <3>1. i # j /\ job[i].pc = "add"
      BY <1>3
    <3>2. job[i].handle \in Handles /\ job[i].handle # h
      BY <1>1, <3>1, IdsAre DEF TransfersInv, OwnHandles, h
    <3> QED  BY <1>4, <3>1, <3>2 DEF TransfersInv, HandlesAlive
  <2> QED  BY <1>1, <1>4, <1>5, <2>1, <2>2, <2>3 DEF HandlesAlive, Held
<1>14. StaleOnlyAfterCancel'
  <2>1. \A m \in messages : callbacks'[m.handle] = m.of
    BY <1>2, <1>4, IdsAre DEF TransfersInv, TransfersTypeOK, StaleOnlyAfterCancel
  <2>2. worker'.pc = "lock" /\ callbacks'[worker.easy] # worker.of =>
            api.cb = worker.of \/ calls[worker.of] = 1
    BY <1>2, <1>4, <1>5, IdsAre DEF TransfersInv, InHand, StaleOnlyAfterCancel
  <2>3. \A u \in Ids : told[u] \notin {u, None} => cancels > 0
    BY DEF TransfersInv, StaleOnlyAfterCancel
  <2> QED  BY <1>1, <1>5, <2>1, <2>2, <2>3 DEF StaleOnlyAfterCancel
<1> QED  BY <1>8, <1>9, <1>10, <1>11, <1>12, <1>13, <1>14 DEF TransfersInv

LEMMA AddTaskFailsStep ==
    ASSUME TransfersInv, NEW j \in Jobs, AddTaskFails(j)
    PROVE  TransfersInv'
<1> DEFINE t == Current(j)
<1>1. /\ t \in Ids /\ t[1] = j /\ t[2] = job[j].n /\ job[j].pc = "add" /\ Call(t, t)
      /\ UNCHANGED <<running, callbacks, multi, messages, worker, api, stopper, cancels>>
  BY IdsAre DEF AddTaskFails, TransfersInv, OwnHandles, Current
<1> HIDE DEF t
<1>2. calls[t] = 0 /\ ~Waits(t)
  BY <1>1 DEF TransfersInv, Fresh, Waits
<1>3. t \notin {worker.cb, api.cb} /\ \A h \in Handles : callbacks[h] # t
  BY <1>1, <1>2, IdsAre DEF TransfersInv, OneAnswer, Registered
<1> QED  BY <1>1, <1>2, <1>3, CallKeeps

LEMMA WorkerLooksStep ==
    ASSUME TransfersInv, WorkerLooks
    PROVE  TransfersInv'
<1>1. TransfersTypeOK'
  BY DEF WorkerLooks, TransfersInv, TransfersTypeOK, Worker
<1>2. OwnHandles'
  BY DEF WorkerLooks, TransfersInv, OwnHandles
<1>3. Fresh'
  BY DEF WorkerLooks, TransfersInv, Fresh
<1>4. InHand'
  BY DEF WorkerLooks, TransfersInv, InHand, Worker
<1>5. Cancelled'
  BY DEF WorkerLooks, TransfersInv, Cancelled, Worker
<1>6. OneAnswer'
  BY DEF WorkerLooks, TransfersInv, OneAnswer, Registered, Waits, Worker
<1>7. HandlesAlive'
  BY DEF WorkerLooks, TransfersInv, HandlesAlive, Held, Worker
<1>8. StaleOnlyAfterCancel'
  BY DEF WorkerLooks, TransfersInv, StaleOnlyAfterCancel, Worker
<1> QED  BY <1>1, <1>2, <1>3, <1>4, <1>5, <1>6, <1>7, <1>8 DEF TransfersInv

LEMMA TransferEndsStep ==
    ASSUME TransfersInv, NEW h \in Handles, TransferEnds(h)
    PROVE  TransfersInv'
<1>1. TransfersTypeOK'
  BY DEF TransferEnds, TransfersInv, TransfersTypeOK
<1>2. OwnHandles'
  BY DEF TransferEnds, TransfersInv, OwnHandles
<1>3. Fresh'
  BY DEF TransferEnds, TransfersInv, Fresh
<1>4. InHand'
  BY DEF TransferEnds, TransfersInv, InHand
<1>5. Cancelled'
  BY DEF TransferEnds, TransfersInv, Cancelled
<1>6. OneAnswer'
  BY DEF TransferEnds, TransfersInv, OneAnswer, Registered, Waits
<1>7. HandlesAlive'
  BY DEF TransferEnds, TransfersInv, HandlesAlive, Held
<1>8. StaleOnlyAfterCancel'
  BY DEF TransferEnds, TransfersInv, HandlesAlive, StaleOnlyAfterCancel
<1> QED  BY <1>1, <1>2, <1>3, <1>4, <1>5, <1>6, <1>7, <1>8 DEF TransfersInv

LEMMA WorkerPerformedStep ==
    ASSUME TransfersInv, WorkerPerformed
    PROVE  TransfersInv'
<1>1. TransfersTypeOK'
  BY DEF WorkerPerformed, TransfersInv, TransfersTypeOK, Worker
<1>2. OwnHandles'
  BY DEF WorkerPerformed, TransfersInv, OwnHandles
<1>3. Fresh'
  BY DEF WorkerPerformed, TransfersInv, Fresh
<1>4. InHand'
  BY DEF WorkerPerformed, TransfersInv, InHand, Worker
<1>5. Cancelled'
  BY DEF WorkerPerformed, TransfersInv, Cancelled, Worker
<1>6. OneAnswer'
  BY DEF WorkerPerformed, TransfersInv, OneAnswer, Registered, Waits, Worker
<1>7. HandlesAlive'
  BY DEF WorkerPerformed, TransfersInv, HandlesAlive, Held, Worker
<1>8. StaleOnlyAfterCancel'
  BY DEF WorkerPerformed, TransfersInv, StaleOnlyAfterCancel, Worker
<1> QED  BY <1>1, <1>2, <1>3, <1>4, <1>5, <1>6, <1>7, <1>8 DEF TransfersInv

LEMMA WorkerReadsStep ==
    ASSUME TransfersInv, WorkerReads
    PROVE  TransfersInv'
<1>1. /\ messages' \subseteq messages /\ worker \in Workers /\ worker.pc = "read"
      /\ messages \subseteq [handle : Handles, of : Ids]
      /\ UNCHANGED <<running, callbacks, multi, job, api, stopper, cancels, calls, told>>
      /\ \/ worker' = [worker EXCEPT !.pc = "run"]
         \/ \E m \in messages : worker' = [worker EXCEPT !.pc = "lock", !.easy = m.handle, !.of = m.of]
  BY DEF WorkerReads, Worker, TransfersInv, TransfersTypeOK, Workers
<1>2. /\ worker' \in Workers /\ worker'.cb = worker.cb /\ worker'.pc \in {"run", "lock"}
      /\ worker'.pc = "lock" => /\ worker'.easy \in Handles /\ worker'.of \in Ids
                                /\ callbacks[worker'.easy] = worker'.of
  <2>1. CASE worker' = [worker EXCEPT !.pc = "run"]
    BY <1>1, <2>1 DEF Workers
  <2>2. ASSUME NEW m \in messages,
               worker' = [worker EXCEPT !.pc = "lock", !.easy = m.handle, !.of = m.of]
        PROVE  /\ worker' \in Workers /\ worker'.cb = worker.cb /\ worker'.pc = "lock"
               /\ worker'.easy \in Handles /\ worker'.of \in Ids
               /\ callbacks[worker'.easy] = worker'.of
    <3>1. m.handle \in Handles /\ m.of \in Ids /\ callbacks[m.handle] = m.of
      BY <1>1 DEF TransfersInv, StaleOnlyAfterCancel
    <3> QED  BY <1>1, <2>2, <3>1 DEF Workers
  <2> QED  BY <1>1, <2>1, <2>2
<1>3. TransfersTypeOK'
  BY <1>1, <1>2 DEF TransfersInv, TransfersTypeOK, Workers
<1>4. OwnHandles' /\ Fresh' /\ InHand' /\ Cancelled'
  BY <1>1, <1>2 DEF TransfersInv, OwnHandles, Fresh, InHand, Cancelled
<1>5. OneAnswer' /\ HandlesAlive'
  BY <1>1, <1>2 DEF TransfersInv, OneAnswer, HandlesAlive, Registered, Waits, Held
<1>6. StaleOnlyAfterCancel'
  BY <1>1, <1>2 DEF TransfersInv, StaleOnlyAfterCancel
<1> QED  BY <1>3, <1>4, <1>5, <1>6 DEF TransfersInv

LEMMA WorkerTakesStep ==
    ASSUME TransfersInv, WorkerTakes
    PROVE  TransfersInv'
<1>1. TransfersTypeOK'
  BY DEF WorkerTakes, TransfersInv, TransfersTypeOK, InHand, RemoveHandle
<1>2. OwnHandles'
  BY DEF WorkerTakes, TransfersInv, OwnHandles
<1>3. Fresh'
  BY DEF WorkerTakes, TransfersInv, Fresh
<1>4. InHand'
  BY DEF WorkerTakes, TransfersInv, InHand
<1>5. Cancelled'
  BY DEF WorkerTakes, TransfersInv, Cancelled
<1>6. OneAnswer'
  BY IdsAre DEF WorkerTakes, TransfersInv, TransfersTypeOK, InHand, OneAnswer, Registered, Waits
<1>7. HandlesAlive'
  BY IdsAre DEF WorkerTakes, TransfersInv, TransfersTypeOK, InHand, OneAnswer, HandlesAlive, Registered, Held, RemoveHandle
<1>8. StaleOnlyAfterCancel'
  BY DEF WorkerTakes, TransfersInv, StaleOnlyAfterCancel, RemoveHandle
<1> QED  BY <1>1, <1>2, <1>3, <1>4, <1>5, <1>6, <1>7, <1>8 DEF TransfersInv

LEMMA WorkerCallsStep ==
    ASSUME TransfersInv, WorkerCalls
    PROVE  TransfersInv'
<1> DEFINE t == worker.cb
<1>1. /\ worker.pc = "call" /\ t \in Ids /\ worker.of \in Ids /\ Call(t, worker.of)
      /\ worker' = [worker EXCEPT !.pc = "read", !.cb = None] /\ worker'.cb = None
      /\ UNCHANGED <<running, callbacks, multi, messages, api, stopper, cancels>>
  BY DEF WorkerCalls, TransfersInv, TransfersTypeOK, InHand
<1>2. /\ Waits(t) /\ calls[t] = 0 /\ t # api.cb /\ \A h \in Handles : callbacks[h] # t
      /\ worker.of # t => cancels > 0
  BY <1>1, IdsAre DEF TransfersInv, OneAnswer, Registered, Cancelled
<1> QED  BY <1>1, <1>2, IdsAre, CallKeeps DEF Waits

LEMMA SkipDownloadStep ==
    ASSUME TransfersInv, NEW j \in Jobs, SkipDownload(j)
    PROVE  TransfersInv'
<1>1. /\ UNCHANGED <<running, callbacks, multi, messages, worker, job, stopper, calls, told>>
      /\ cancels' = cancels + 1 /\ cancels' \in 0 .. MaxCancels /\ cancels' > 0 /\ cancels \in Nat
      /\ api.pc = "idle" /\ api \in Cancellers
      /\ job[j].handle \in Handles
      /\ api' = [api EXCEPT !.pc = "lock", !.handle = job[j].handle]
  BY IdsAre DEF SkipDownload, TransfersInv, TransfersTypeOK, Cancellers
<1>2. /\ api' \in Cancellers /\ api'.pc = "lock" /\ api'.handle \in Handles
      /\ api'.cb = api.cb /\ api.cb = None
  BY <1>1 DEF Cancellers, TransfersInv, InHand
<1>3. TransfersTypeOK'
  BY <1>1, <1>2 DEF TransfersInv, TransfersTypeOK, Cancellers
<1>4. OwnHandles' /\ Fresh' /\ InHand' /\ Cancelled'
  BY <1>1, <1>2 DEF TransfersInv, OwnHandles, Fresh, InHand, Cancelled
<1>5. OneAnswer' /\ HandlesAlive'
  BY <1>1, <1>2 DEF TransfersInv, OneAnswer, HandlesAlive, Registered, Waits, Held
<1>6. StaleOnlyAfterCancel'
  BY <1>1, <1>2 DEF TransfersInv, StaleOnlyAfterCancel
<1> QED  BY <1>3, <1>4, <1>5, <1>6 DEF TransfersInv

LEMMA CancelTakesStep ==
    ASSUME TransfersInv, CancelTakes
    PROVE  TransfersInv'
<1> DEFINE h == api.handle
           t == callbacks[h]
<1>1. /\ h \in Handles /\ api.pc = "lock" /\ api.cb = None /\ api \in Cancellers
      /\ t \in Ids \cup {None} /\ cancels > 0 /\ worker \in Workers
      /\ UNCHANGED <<running, worker, job, stopper, cancels, calls, told>>
  BY DEF CancelTakes, TransfersInv, TransfersTypeOK, InHand, Cancelled, Cancellers, Workers
<1>2. CASE t = None
  <2>1. api' = [api EXCEPT !.pc = "notify"] /\ UNCHANGED <<callbacks, multi, messages>>
    BY <1>2 DEF CancelTakes
  <2>2. api' \in Cancellers /\ api'.pc = "notify" /\ api'.cb = None
    BY <1>1, <2>1 DEF Cancellers
  <2>3. TransfersTypeOK'
    BY <1>1, <2>1, <2>2 DEF TransfersInv, TransfersTypeOK, Cancellers
  <2>4. OwnHandles' /\ Fresh' /\ InHand' /\ Cancelled'
    BY <1>1, <2>1, <2>2 DEF TransfersInv, OwnHandles, Fresh, InHand, Cancelled
  <2>5. OneAnswer' /\ HandlesAlive'
    BY <1>1, <2>1, <2>2 DEF TransfersInv, OneAnswer, HandlesAlive, Registered, Waits, Held
  <2>6. StaleOnlyAfterCancel'
    BY <1>1, <2>1, <2>2, IdsAre DEF TransfersInv, StaleOnlyAfterCancel, InHand
  <2> QED  BY <2>3, <2>4, <2>5, <2>6 DEF TransfersInv
<1>3. CASE t # None
  <2>1. /\ api' = [api EXCEPT !.pc = "call", !.cb = t]
        /\ callbacks' = [callbacks EXCEPT ![h] = None] /\ multi' = [multi EXCEPT ![h] = None]
        /\ messages' = {m \in messages : m.handle # h}
    BY <1>3 DEF CancelTakes, RemoveHandle
  <2>2. /\ t \in Ids /\ t[1] \in Jobs /\ Waits(t) /\ job[t[1]].handle = h
        /\ t # worker.cb /\ t # api.cb
    BY <1>1, <1>3, IdsAre DEF TransfersInv, OneAnswer, Registered
  <2> HIDE DEF t, h
  <2>3. api' \in Cancellers /\ api'.pc = "call" /\ api'.cb = t
    BY <1>1, <2>1, <2>2 DEF Cancellers
  <2>4. /\ callbacks' \in [Handles -> Ids \cup {None}] /\ multi' \in [Handles -> Ids \cup {None}]
        /\ \A k \in Handles : /\ callbacks'[k] = IF k = h THEN None ELSE callbacks[k]
                              /\ multi'[k] = IF k = h THEN None ELSE multi[k]
    BY <1>1, <2>1 DEF TransfersInv, TransfersTypeOK
  <2>5. TransfersTypeOK'
    BY <1>1, <2>1, <2>3, <2>4 DEF TransfersInv, TransfersTypeOK, Cancellers
  <2>6. OwnHandles' /\ Fresh' /\ InHand' /\ Cancelled'
    <3>1. OwnHandles' /\ Fresh'
      BY <1>1 DEF TransfersInv, OwnHandles, Fresh
    <3> QED  BY <1>1, <2>2, <2>3, <3>1, IdsAre DEF TransfersInv, InHand, Cancelled
  <2>7. OneAnswer'
    <3>1. \A u \in Ids : Waits(u) =>
              calls[u] = 0 /\ (callbacks'[job[u[1]].handle] = u \/ worker.cb = u \/ t = u)
      <4> SUFFICES ASSUME NEW u \in Ids, Waits(u)
                   PROVE  calls[u] = 0 /\ (callbacks'[job[u[1]].handle] = u \/ worker.cb = u \/ t = u)
        OBVIOUS
      <4>1. calls[u] = 0 /\ (callbacks[job[u[1]].handle] = u \/ worker.cb = u)
        BY <1>1, IdsAre DEF TransfersInv, OneAnswer
      <4>2. job[u[1]].handle \in Handles
        BY IdsAre DEF TransfersInv, OwnHandles, Waits
      <4> QED  BY <2>4, <4>1, <4>2 DEF t
    <3>2. \A k \in Handles : callbacks'[k] # None =>
              /\ callbacks[k] = callbacks'[k] /\ callbacks[k] \notin {worker.cb, t}
              /\ Waits(callbacks[k]) /\ job[callbacks[k][1]].handle = k
      BY <2>2, <2>4 DEF TransfersInv, OneAnswer, Registered
    <3>3. worker.cb # None => Waits(worker.cb)
      BY DEF TransfersInv, OneAnswer
    <3> QED  BY <1>1, <2>2, <2>3, <3>1, <3>2, <3>3 DEF OneAnswer, Registered, Waits
  <2>8. HandlesAlive'
    <3>1. \A k \in Handles : multi'[k] # None => callbacks'[k] = multi'[k]
      BY <2>4 DEF TransfersInv, HandlesAlive
    <3>2. \A u \in {worker.cb, t} \ {None} :
              job[u[1]].handle # NoHandle /\ multi'[job[u[1]].handle] = None
      <4> SUFFICES ASSUME NEW u \in {worker.cb, t} \ {None}
                   PROVE  job[u[1]].handle # NoHandle /\ multi'[job[u[1]].handle] = None
        OBVIOUS
      <4>1. CASE u = t
        BY <1>1, <2>2, <2>4, <4>1, IdsAre DEF h
      <4>2. CASE u # t
        <5>1. job[u[1]].handle # NoHandle /\ multi[job[u[1]].handle] = None
          BY <4>2 DEF TransfersInv, HandlesAlive
        <5>2. job[u[1]].handle \in Handles
          BY <4>2, <5>1, IdsAre DEF TransfersInv, TransfersTypeOK
        <5> QED  BY <2>4, <5>1, <5>2
      <4> QED  BY <4>1, <4>2
    <3>3. \A j \in Jobs : job[j].pc = "add" => multi'[job[j].handle] = None
      BY <2>4, IdsAre DEF TransfersInv, HandlesAlive, OwnHandles
    <3> QED  BY <1>1, <2>3, <2>4, <3>1, <3>2, <3>3 DEF HandlesAlive, Held
  <2>9. StaleOnlyAfterCancel'
    <3>1. \A m \in messages' : callbacks'[m.handle] = m.of
      BY <2>1, <2>4 DEF TransfersInv, TransfersTypeOK, StaleOnlyAfterCancel
    <3>2. worker.pc = "lock" /\ callbacks'[worker.easy] # worker.of =>
              t = worker.of \/ calls[worker.of] = 1
      BY <1>1, <2>2, <2>4, IdsAre DEF TransfersInv, StaleOnlyAfterCancel, InHand, t
    <3>3. \A u \in Ids : told[u] \notin {u, None} => cancels > 0
      BY <1>1
    <3> QED  BY <1>1, <2>3, <3>1, <3>2, <3>3 DEF StaleOnlyAfterCancel
  <2> QED  BY <2>5, <2>6, <2>7, <2>8, <2>9 DEF TransfersInv
<1> QED  BY <1>2, <1>3

LEMMA CancelCallsStep ==
    ASSUME TransfersInv, CancelCalls
    PROVE  TransfersInv'
<1> DEFINE t == api.cb
<1>1. /\ api.pc = "call" /\ t \in Ids /\ Call(t, t)
      /\ api' = [api EXCEPT !.pc = "notify", !.cb = None] /\ api'.cb = None
      /\ UNCHANGED <<running, callbacks, multi, messages, worker, stopper, cancels>>
  BY DEF CancelCalls, TransfersInv, TransfersTypeOK, InHand
<1>2. Waits(t) /\ calls[t] = 0 /\ t # worker.cb /\ \A h \in Handles : callbacks[h] # t
  BY <1>1, IdsAre DEF TransfersInv, OneAnswer, Registered
<1> QED  BY <1>1, <1>2, IdsAre, CallKeeps DEF Waits

LEMMA CancelNotifiesStep ==
    ASSUME TransfersInv, CancelNotifies
    PROVE  TransfersInv'
<1>1. TransfersTypeOK'
  BY DEF CancelNotifies, TransfersInv, TransfersTypeOK, Notified
<1>2. OwnHandles'
  BY DEF CancelNotifies, TransfersInv, OwnHandles
<1>3. Fresh'
  BY DEF CancelNotifies, TransfersInv, Fresh
<1>4. InHand'
  BY DEF CancelNotifies, TransfersInv, InHand, Notified
<1>5. Cancelled'
  BY DEF CancelNotifies, TransfersInv, Cancelled
<1>6. OneAnswer'
  BY DEF CancelNotifies, TransfersInv, OneAnswer, Registered, Waits, Notified
<1>7. HandlesAlive'
  BY DEF CancelNotifies, TransfersInv, HandlesAlive, Held, Notified
<1>8. StaleOnlyAfterCancel'
  BY DEF CancelNotifies, TransfersInv, StaleOnlyAfterCancel, Notified
<1> QED  BY <1>1, <1>2, <1>3, <1>4, <1>5, <1>6, <1>7, <1>8 DEF TransfersInv

LEMMA StopStepKeeps ==
    ASSUME TransfersInv, Stop
    PROVE  TransfersInv'
<1>1. TransfersTypeOK'
  BY DEF Stop, TransfersInv, TransfersTypeOK
<1>2. OwnHandles'
  BY DEF Stop, TransfersInv, OwnHandles
<1>3. Fresh'
  BY DEF Stop, TransfersInv, Fresh
<1>4. InHand'
  BY DEF Stop, TransfersInv, InHand
<1>5. Cancelled'
  BY DEF Stop, TransfersInv, Cancelled
<1>6. OneAnswer'
  BY DEF Stop, TransfersInv, OneAnswer, Registered, Waits
<1>7. HandlesAlive'
  BY DEF Stop, TransfersInv, HandlesAlive, Held
<1>8. StaleOnlyAfterCancel'
  BY DEF Stop, TransfersInv, StaleOnlyAfterCancel
<1> QED  BY <1>1, <1>2, <1>3, <1>4, <1>5, <1>6, <1>7, <1>8 DEF TransfersInv

LEMMA StopNotifiesStep ==
    ASSUME TransfersInv, StopNotifies
    PROVE  TransfersInv'
<1>1. TransfersTypeOK'
  BY DEF StopNotifies, TransfersInv, TransfersTypeOK, Notified
<1>2. OwnHandles'
  BY DEF StopNotifies, TransfersInv, OwnHandles
<1>3. Fresh'
  BY DEF StopNotifies, TransfersInv, Fresh
<1>4. InHand'
  BY DEF StopNotifies, TransfersInv, InHand, Notified
<1>5. Cancelled'
  BY DEF StopNotifies, TransfersInv, Cancelled, Notified
<1>6. OneAnswer'
  BY DEF StopNotifies, TransfersInv, OneAnswer, Registered, Waits, Notified
<1>7. HandlesAlive'
  BY DEF StopNotifies, TransfersInv, HandlesAlive, Held, Notified
<1>8. StaleOnlyAfterCancel'
  BY DEF StopNotifies, TransfersInv, StaleOnlyAfterCancel, Notified
<1> QED  BY <1>1, <1>2, <1>3, <1>4, <1>5, <1>6, <1>7, <1>8 DEF TransfersInv

LEMMA StopSweepsStep ==
    ASSUME TransfersInv, StopSweeps
    PROVE  TransfersInv'
<1> DEFINE left == {callbacks[h] : h \in Registered}
<1>1. /\ worker.pc = "done" /\ stopper' = "stopped"
      /\ calls' = [t \in Ids |-> IF t \in left THEN calls[t] + 1 ELSE calls[t]]
      /\ told' = [t \in Ids |-> IF t \in left THEN t ELSE told[t]]
      /\ job' = [j \in Jobs |-> IF Current(j) \in left
                                  THEN [job[j] EXCEPT !.pc = "answered"] ELSE job[j]]
      /\ multi' = [h \in Handles |-> IF h \in Registered THEN None ELSE multi[h]]
      /\ messages' \subseteq messages
      /\ callbacks' = [h \in Handles |-> None]
      /\ UNCHANGED <<running, worker, api, cancels>>
  BY DEF StopSweeps
<1>2. \A t \in left : /\ t \in Ids /\ Waits(t) /\ calls[t] = 0 /\ t \notin {worker.cb, api.cb}
                      /\ t = Current(t[1])
  <2> SUFFICES ASSUME NEW h \in Registered
               PROVE  LET t == callbacks[h]
                      IN  /\ t \in Ids /\ Waits(t) /\ calls[t] = 0 /\ t \notin {worker.cb, api.cb}
                          /\ t = Current(t[1])
    OBVIOUS
  <2>1. callbacks[h] \in Ids /\ Waits(callbacks[h]) /\ callbacks[h] \notin {worker.cb, api.cb}
    BY DEF Registered, TransfersInv, TransfersTypeOK, OneAnswer
  <2>2. calls[callbacks[h]] = 0
    BY <2>1 DEF TransfersInv, OneAnswer
  <2> QED  BY <2>1, <2>2, IdsAre DEF Waits, Current
<1>3. \A h \in Handles : multi'[h] = None /\ callbacks'[h] = None
  BY <1>1 DEF TransfersInv, HandlesAlive, Registered
<1>4. messages' = {}
  BY <1>1, IdsAre DEF StopSweeps, TransfersInv, TransfersTypeOK, StaleOnlyAfterCancel, Registered
<1> HIDE DEF left
<1>5. /\ job' \in [Jobs -> JobStates]
      /\ \A j \in Jobs : /\ job'[j].handle = job[j].handle /\ job'[j].n = job[j].n
                         /\ job'[j].pc = IF Current(j) \in left THEN "answered" ELSE job[j].pc
  <2>1. \A j \in Jobs : job[j] \in JobStates
    BY DEF TransfersInv, TransfersTypeOK, JobStates
  <2>2. \A j \in Jobs : [job[j] EXCEPT !.pc = "answered"] \in JobStates
    BY <2>1 DEF JobStates
  <2> QED  BY <1>1, <2>1, <2>2 DEF JobStates
<1>6. calls' \in [Ids -> 0 .. 1] /\ told' \in [Ids -> Ids \cup {None}]
  BY <1>1, <1>2 DEF TransfersInv, TransfersTypeOK
<1>7. \A t \in Ids : WaitsNext(t) <=> Waits(t) /\ t \notin left
  <2> SUFFICES ASSUME NEW t \in Ids PROVE WaitsNext(t) <=> Waits(t) /\ t \notin left
    OBVIOUS
  <2>1. t[1] \in Jobs /\ (job[t[1]].n = t[2] <=> Current(t[1]) = t)
    BY IdsAre DEF Current
  <2> QED  BY <1>5, <2>1 DEF Waits, WaitsNext
<1>8. TransfersTypeOK'
  <2>1. \A j \in Jobs : job'[j].n <= MaxTransfers[j]
    BY <1>5 DEF TransfersInv, TransfersTypeOK
  <2>2. /\ callbacks' \in [Handles -> Ids \cup {None}]
        /\ multi' \in [Handles -> Ids \cup {None}]
    BY <1>1 DEF TransfersInv, TransfersTypeOK
  <2> QED  BY <1>1, <1>4, <1>5, <1>6, <2>1, <2>2 DEF TransfersInv, TransfersTypeOK, JobStates
<1>9. OwnHandles'
  <2>1. \A j \in Jobs : Current(j) \in left => job[j].pc = "waiting"
    BY <1>2 DEF Waits, Current
  <2> QED  BY <1>5, <2>1 DEF TransfersInv, OwnHandles
<1>10. Fresh'
  <2> SUFFICES ASSUME NEW t \in Ids,
                      \/ t[2] > job'[t[1]].n
                      \/ t[2] = job'[t[1]].n /\ job'[t[1]].pc \in {"add", "waiting"}
               PROVE  calls'[t] = 0
    BY DEF Fresh
  <2>1. t[1] \in Jobs /\ (job[t[1]].n = t[2] <=> Current(t[1]) = t)
    BY IdsAre DEF Current
  <2>2. t \notin left
    <3>1. t \in left => job[t[1]].n = t[2] /\ Current(t[1]) = t
      BY <1>2 DEF Waits
    <3>2. job[t[1]].n \in Nat /\ t[2] \in Nat
      BY <2>1, IdsAre DEF TransfersInv, TransfersTypeOK
    <3> QED  BY <1>5, <2>1, <3>1, <3>2
  <2>3. \/ t[2] > job[t[1]].n
        \/ t[2] = job[t[1]].n /\ job[t[1]].pc \in {"add", "waiting"}
    BY <1>5, <2>1
  <2> QED  BY <1>1, <2>2, <2>3 DEF TransfersInv, Fresh
<1>11. InHand' /\ Cancelled'
  BY <1>1 DEF TransfersInv, InHand, Cancelled
<1>12. OneAnswer'
  <2>1. \A t \in Ids : WaitsNext(t) => calls'[t] = 0 /\ (worker.cb = t \/ api.cb = t)
    <3> SUFFICES ASSUME NEW t \in Ids, WaitsNext(t)
                 PROVE  calls'[t] = 0 /\ (worker.cb = t \/ api.cb = t)
      OBVIOUS
    <3>1. Waits(t) /\ t \notin left /\ job[t[1]].handle \in Handles
      BY <1>7, IdsAre DEF TransfersInv, OwnHandles, Waits
    <3>2. calls[t] = 0 /\ (callbacks[job[t[1]].handle] = t \/ worker.cb = t \/ api.cb = t)
      BY <3>1 DEF TransfersInv, OneAnswer
    <3>3. callbacks[job[t[1]].handle] # t
      BY <3>1, IdsAre DEF left, Registered
    <3> QED  BY <1>1, <3>1, <3>2, <3>3
  <2>2. /\ worker.cb # None => WaitsNext(worker.cb)
        /\ api.cb # None => WaitsNext(api.cb)
        /\ worker.cb # None => worker.cb # api.cb
    <3>1. worker.cb \in Ids \cup {None} /\ api.cb \in Ids \cup {None}
      BY DEF TransfersInv, TransfersTypeOK
    <3> QED  BY <1>2, <1>7, <3>1 DEF TransfersInv, OneAnswer
  <2> QED  BY <1>1, <1>3, <2>1, <2>2 DEF OneAnswer, Registered, Waits, WaitsNext
<1>13. HandlesAlive'
  <2>1. \A t \in {worker.cb, api.cb} \ {None} :
            job'[t[1]].handle # NoHandle /\ multi'[job'[t[1]].handle] = None
    <3> SUFFICES ASSUME NEW t \in {worker.cb, api.cb} \ {None}
                 PROVE  job'[t[1]].handle # NoHandle /\ multi'[job'[t[1]].handle] = None
      OBVIOUS
    <3>1. t \in Ids /\ t[1] \in Jobs
      BY IdsAre DEF TransfersInv, TransfersTypeOK
    <3>2. job[t[1]].handle # NoHandle /\ job[t[1]].handle \in Handles
      BY <3>1 DEF TransfersInv, TransfersTypeOK, HandlesAlive
    <3> QED  BY <1>3, <1>5, <3>1, <3>2
  <2>2. \A j \in Jobs : job'[j].pc = "add" => multi'[job'[j].handle] = None
    BY <1>3, <1>5 DEF TransfersInv, OwnHandles
  <2> QED  BY <1>1, <1>3, <2>1, <2>2 DEF HandlesAlive, Held
<1>14. StaleOnlyAfterCancel'
  BY <1>1, <1>4 DEF TransfersInv, StaleOnlyAfterCancel
<1> QED  BY <1>8, <1>9, <1>10, <1>11, <1>12, <1>13, <1>14 DEF TransfersInv

-----------------------------------------------------------------------------
(* Together.                                                               *)
LEMMA TransfersInitially == TransfersInit => TransfersInv
<1> SUFFICES ASSUME TransfersInit PROVE TransfersInv
  OBVIOUS
<1>1. /\ worker = [pc |-> "run", easy |-> NoHandle, of |-> None, cb |-> None]
      /\ api = [pc |-> "idle", handle |-> NoHandle, cb |-> None]
      /\ job = [j \in Jobs |-> [pc |-> "idle", handle |-> NoHandle, n |-> 0]]
      /\ messages = {} /\ cancels = 0 /\ stopper = "idle" /\ running = TRUE
      /\ callbacks = [h \in Handles |-> None] /\ multi = [h \in Handles |-> None]
      /\ calls = [t \in Ids |-> 0] /\ told = [t \in Ids |-> None]
  BY DEF TransfersInit
<1>2. TransfersTypeOK
  <2>1. ASSUME NEW j \in Jobs PROVE job[j].n <= MaxTransfers[j]
    <3>1. job[j].n = 0
      BY <1>1
    <3>2. MaxTransfers[j] \in Nat
      BY TransfersAssumption
    <3> QED  BY <3>1, <3>2
  <2>2. job \in [Jobs -> JobStates]
    BY <1>1 DEF JobStates
  <2> QED  BY <1>1, <2>1, <2>2, IdsAre DEF TransfersTypeOK, JobStates
<1>3. \A t \in Ids : ~Waits(t) /\ calls[t] = 0 /\ told[t] = None
  BY <1>1, IdsAre DEF Waits
<1>4. OwnHandles /\ Fresh /\ InHand /\ Cancelled
  BY <1>1, <1>3, IdsAre DEF OwnHandles, Fresh, InHand, Cancelled
<1>5. OneAnswer /\ HandlesAlive /\ StaleOnlyAfterCancel
  BY <1>1, <1>3 DEF OneAnswer, HandlesAlive, StaleOnlyAfterCancel, Registered
<1> QED  BY <1>2, <1>4, <1>5 DEF TransfersInv

LEMMA TransfersStep == TransfersInv /\ [TransfersNext]_transferVars => TransfersInv'
<1> SUFFICES ASSUME TransfersInv, [TransfersNext]_transferVars PROVE TransfersInv'
  OBVIOUS
<1>1. ASSUME NEW j \in Jobs, NEW h \in Handles, NewHandle(j, h) PROVE TransfersInv'
  BY <1>1, NewHandleStep
<1>2. ASSUME NEW j \in Jobs,
             SameHandle(j) \/ AddTask(j) \/ AddTaskFails(j) \/ SkipDownload(j)
      PROVE  TransfersInv'
  BY <1>2, SameHandleStep, AddTaskStep, AddTaskFailsStep, SkipDownloadStep
<1>3. CASE WorkerStep
  BY <1>3, WorkerLooksStep, WorkerPerformedStep, WorkerReadsStep, WorkerTakesStep,
     WorkerCallsStep DEF WorkerStep
<1>4. ASSUME NEW h \in Handles, TransferEnds(h) PROVE TransfersInv'
  BY <1>4, TransferEndsStep
<1>5. CASE CancelStep
  BY <1>5, CancelTakesStep, CancelCallsStep, CancelNotifiesStep DEF CancelStep
<1>6. CASE Stop \/ StopStep
  BY <1>6, StopStepKeeps, StopNotifiesStep, StopSweepsStep DEF StopStep
<1>7. CASE UNCHANGED transferVars
  BY <1>7 DEF transferVars, TransfersInv, TransfersTypeOK, OwnHandles, Fresh, InHand, Cancelled,
              OneAnswer, HandlesAlive, StaleOnlyAfterCancel, Registered, Waits, Held
<1> QED  BY <1>1, <1>2, <1>3, <1>4, <1>5, <1>6, <1>7 DEF TransfersNext

\* Whoever adds, ends, cancels and sweeps transfers, on whatever thread: no
\* callback is called twice or lost, none is called for a handle that was freed, and
\* only a skip can make it hear of another transfer's end
\* (CurlMultiManager.cpp:43-174).
THEOREM TransfersSafe ==
    TransfersSpec => [](TransfersTypeOK /\ OneAnswer /\ HandlesAlive /\ StaleOnlyAfterCancel)
<1>1. TransfersInv => TransfersTypeOK /\ OneAnswer /\ HandlesAlive /\ StaleOnlyAfterCancel
  BY DEF TransfersInv
<1> QED  BY <1>1, TransfersInitially, TransfersStep, PTL DEF TransfersSpec

\* Each of them by itself.  What the threads have in hand and what is counted keep
\* to their kinds, and no callback is called twice (CurlMultiManager.cpp:43-174).
THEOREM TransfersTypes == TransfersSpec => []TransfersTypeOK
  BY TransfersSafe, PTL

\* A callback that asks its handle for the HTTP code finds one that was not freed
\* (CurlMultiManager.cpp:158-174, DownloadManager.cpp:216-247).
THEOREM TransfersHandles == TransfersSpec => []HandlesAlive
  BY TransfersSafe, PTL

\* Where no one skips, a callback is told the end of its own transfer
\* (CurlMultiManager.cpp:151-171).
THEOREM TransfersStale == TransfersSpec => []StaleOnlyAfterCancel
  BY TransfersSafe, PTL
=============================================================================
