------------------------------ MODULE Playlist ------------------------------
(***************************************************************************)
(* TaskManager (src/DownloadManager/TaskManager.cpp): the play list of one *)
(* stream.  taskOrder is the play order, taskMap the set of task names     *)
(* that have an entry, currentIndex the 0-based cursor into taskOrder.     *)
(* Every operation runs under TaskManager::mtx, hence one action each; who *)
(* holds the mutex and who waits for TaskUpdateEvent is in PlaylistFeed.   *)
(***************************************************************************)
EXTENDS Integers, Sequences, FiniteSets

CONSTANTS
    Names,    \* names a task can have
    Orders,   \* the orders a client may send to updateTasks
    Offsets,  \* the offsets a client may send to skipRelative
    IntMax    \* INT_MAX of the build

ASSUME PlaylistAssumption ==
    /\ Orders \subseteq Seq(Names)
    /\ Offsets \subseteq Int
    /\ IntMax \in Nat

VARIABLES mode, taskOrder, taskMap, currentIndex, hasManualSkip, TaskUpdateEvent

playlistVars ==
    <<mode, taskOrder, taskMap, currentIndex, hasManualSkip, TaskUpdateEvent>>

ConsumerMode == {"FIFO", "LIFO", "RoundRobin", "Random", "SingleLoop"}

NamesIn(seq) == {seq[i] : i \in DOMAIN seq}

-----------------------------------------------------------------------------
(* A DownloadManager starts in RoundRobin mode with an empty list.         *)
PlaylistInit ==
    /\ mode = "RoundRobin"
    /\ taskOrder = <<>>
    /\ taskMap = {}
    /\ currentIndex = 0
    /\ hasManualSkip = FALSE
    /\ TaskUpdateEvent = FALSE

setMode(newMode) ==
    /\ mode' = newMode
    /\ TaskUpdateEvent' = (TaskUpdateEvent \/ mode # newMode)
    /\ UNCHANGED <<taskOrder, taskMap, currentIndex, hasManualSkip>>

\* A name that has an entry is refused.
addTask(name) ==
    /\ IF name \in taskMap
         THEN UNCHANGED <<taskMap, taskOrder, TaskUpdateEvent>>
         ELSE /\ taskMap' = taskMap \cup {name}
              /\ taskOrder' = Append(taskOrder, name)
              /\ TaskUpdateEvent' = TRUE
    /\ UNCHANGED <<mode, currentIndex, hasManualSkip>>

KeepAllButTheFirst(seq, name) ==
    {i \in DOMAIN seq : seq[i] # name \/ \E j \in DOMAIN seq : j < i /\ seq[j] = name}

\* std::remove + erase: the other names, in their order.
Keep(seq, name) == {i \in DOMAIN seq : seq[i] # name}
Rank(S, i) == Cardinality({j \in S : j < i})
Without(seq, name) ==
    LET kept == Keep(seq, name)
    IN  [k \in 1 .. Cardinality(kept) |->
            seq[CHOOSE i \in kept : Rank(kept, i) = k - 1]]

CursorForAnyOrder(order) == currentIndex

CursorFor(order) == IF currentIndex >= Len(order) THEN 0 ELSE currentIndex

removeTask(name) ==
    /\ IF name \in taskMap
         THEN LET order == Without(taskOrder, name)
              IN  /\ taskOrder' = order
                  /\ taskMap' = taskMap \ {name}
                  /\ currentIndex' = CursorFor(order)
                  /\ TaskUpdateEvent' = TRUE
         ELSE UNCHANGED <<taskOrder, taskMap, currentIndex, TaskUpdateEvent>>
    /\ UNCHANGED <<mode, hasManualSkip>>

\* std::find: the first place the name has in the order.
FirstPlace(name) ==
    CHOOSE i \in DOMAIN taskOrder :
        /\ taskOrder[i] = name
        /\ \A j \in DOMAIN taskOrder : taskOrder[j] = name => i <= j

MoveCursorSilently(index) ==
    /\ currentIndex' = index
    /\ hasManualSkip' = TRUE
    /\ UNCHANGED <<mode, taskOrder, taskMap, TaskUpdateEvent>>

MoveCursor(index) ==
    /\ currentIndex' = index
    /\ hasManualSkip' = TRUE
    /\ TaskUpdateEvent' = TRUE
    /\ UNCHANGED <<mode, taskOrder, taskMap>>

skipTo(name) ==
    IF name \in NamesIn(taskOrder)
      THEN MoveCursor(FirstPlace(name) - 1)
      ELSE UNCHANGED playlistVars

\* int arithmetic of the build: two's complement, wrapping at IntMax.
WrapInt(n) == ((n + IntMax + 1) % (2 * (IntMax + 1))) - (IntMax + 1)
\* C++ % truncates towards zero.
RemInt(n, d) == IF n >= 0 THEN n % d ELSE -((-n) % d)

RelativeIndexTruncated(offset) ==
    LET size == Len(taskOrder)
        new == WrapInt(currentIndex + offset)
    IN  IF mode = "RoundRobin" THEN RemInt(new, size)
        ELSE IF new < 0 THEN 0
        ELSE IF new >= size THEN size - 1 ELSE new

RelativeIndex(offset) ==
    LET size == Len(taskOrder)
        new == WrapInt(currentIndex + offset)
        rem == RemInt(new, size)
    IN  IF mode = "RoundRobin"
          THEN IF rem < 0 THEN rem + size ELSE rem
          ELSE IF new < 0 THEN 0
               ELSE IF new >= size THEN size - 1 ELSE new

skipRelative(offset) ==
    IF taskOrder = <<>>
      THEN UNCHANGED playlistVars
      ELSE MoveCursor(RelativeIndex(offset))

NextIndexesByTwo ==
    LET last == Len(taskOrder) - 1
    IN  CASE mode = "FIFO"       -> {IF currentIndex < last THEN currentIndex + 1 ELSE last}
          [] mode = "LIFO"       -> {IF currentIndex > 0 THEN currentIndex - 1 ELSE 0}
          [] mode = "RoundRobin" -> {(currentIndex + 2) % Len(taskOrder)}
          [] mode = "Random"     -> 0 .. last
          [] mode = "SingleLoop" -> {currentIndex}

\* Where the mode takes the cursor after a song; Random may pick any place.
NextIndexes ==
    LET last == Len(taskOrder) - 1
    IN  CASE mode = "FIFO"       -> {IF currentIndex < last THEN currentIndex + 1 ELSE last}
          [] mode = "LIFO"       -> {IF currentIndex > 0 THEN currentIndex - 1 ELSE 0}
          [] mode = "RoundRobin" -> {(currentIndex + 1) % Len(taskOrder)}
          [] mode = "Random"     -> 0 .. last
          [] mode = "SingleLoop" -> {currentIndex}

autoNext ==
    IF taskOrder = <<>>
      THEN UNCHANGED playlistVars
      ELSE /\ currentIndex' \in NextIndexes
           /\ TaskUpdateEvent' = TRUE
           /\ UNCHANGED <<mode, taskOrder, taskMap, hasManualSkip>>

clearTasks ==
    /\ taskMap' = {}
    /\ taskOrder' = <<>>
    /\ currentIndex' = 0
    /\ TaskUpdateEvent' = TRUE
    /\ UNCHANGED <<mode, hasManualSkip>>

\* The new entries are stored before the order is checked against them.
updateTasks(tasks, order) ==
    LET entries == taskMap \cup tasks
    IN  /\ IF NamesIn(order) \subseteq entries
             THEN /\ taskMap' = entries \cap NamesIn(order)
                  /\ taskOrder' = order
                  /\ currentIndex' = CursorFor(order)
                  /\ TaskUpdateEvent' = TRUE
             ELSE /\ taskMap' = entries
                  /\ UNCHANGED <<taskOrder, currentIndex, TaskUpdateEvent>>
        /\ UNCHANGED <<mode, hasManualSkip>>

\* getNextTask: the names it may return, none when the cursor is outside.
getNextTask ==
    IF currentIndex >= Len(taskOrder) THEN {} ELSE {taskOrder[currentIndex + 1]}

\* The waiting coroutine clears the event, the download loop the skip flag.
ResetUpdateEvent ==
    /\ TaskUpdateEvent' = FALSE
    /\ UNCHANGED <<mode, taskOrder, taskMap, currentIndex, hasManualSkip>>

ClearManualSkip ==
    /\ hasManualSkip' = FALSE
    /\ UNCHANGED <<mode, taskOrder, taskMap, currentIndex, TaskUpdateEvent>>

PlaylistNext ==
    \/ \E m \in ConsumerMode : setMode(m)
    \/ \E n \in Names : addTask(n)
    \/ \E n \in Names : removeTask(n)
    \/ \E n \in Names : skipTo(n)
    \/ \E k \in Offsets : skipRelative(k)
    \/ autoNext
    \/ clearTasks
    \/ \E tasks \in SUBSET Names, order \in Orders : updateTasks(tasks, order)
    \/ ResetUpdateEvent
    \/ ClearManualSkip

PlaylistSpec == PlaylistInit /\ [][PlaylistNext]_playlistVars

-----------------------------------------------------------------------------
\* Every variable keeps its type; above all the cursor, a size_t in the code, is
\* never computed below zero by the arithmetic of skipRelative.
PlaylistTypeOK ==
    /\ mode \in ConsumerMode
    /\ taskOrder \in Seq(Names)
    /\ taskMap \subseteq Names
    /\ currentIndex \in Nat
    /\ hasManualSkip \in BOOLEAN
    /\ TaskUpdateEvent \in BOOLEAN

\* The cursor is on a place of the order, whatever mixture of removals,
\* updates, wrapping offsets and modes came before; 0 for an empty order.
CursorInRange == currentIndex < Len(taskOrder) \/ currentIndex = 0

\* Every name in the order has an entry, so that taskMap.at in getNextTask
\* (TaskManager.cpp:200) never throws inside the download coroutine.
OrderHasEntries == NamesIn(taskOrder) \subseteq taskMap

\* A call that changes the order or moves the cursor leaves TaskUpdateEvent set
\* (TaskManager.cpp:36, 54, 66, 95, 141, 150, 189): the download loop that sleeps
\* on it is told of every change it could act on.
ChangesAreSignalled ==
    [][taskOrder' # taskOrder \/ currentIndex' # currentIndex => TaskUpdateEvent']_playlistVars
=============================================================================
