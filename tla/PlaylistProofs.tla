--------------------------- MODULE PlaylistProofs ---------------------------
(***************************************************************************)
(* What the play list keeps true for every set of names, every order a     *)
(* client may send, every offset and every width of int.                   *)
(***************************************************************************)
EXTENDS Playlist, FiniteSetTheorems, TLAPS

(* The inductive invariant: OrderHasEntries is what keeps names of removed *)
(* tasks out of the order, CursorInRange needs the type of the order.      *)
PlaylistInv == PlaylistTypeOK /\ CursorInRange /\ OrderHasEntries

-----------------------------------------------------------------------------
(* The rank of a position among the kept ones takes every value below      *)
(* their number, so the k-th kept position exists (std::remove, 47-48).    *)
LEMMA RankIsOnto ==
    ASSUME NEW n \in Nat, NEW S, S \subseteq 1 .. n,
           NEW k \in 1 .. Cardinality(S)
    PROVE  \E i \in S : Rank(S, i) = k - 1
<1> DEFINE c == Cardinality(S)
           T == 0 .. c - 1
           rank == [i \in S |-> Rank(S, i)]
<1>1. IsFiniteSet(S) /\ c \in Nat
  <2>1. IsFiniteSet(1 .. n)
    BY FS_Interval
  <2>2. IsFiniteSet(S)
    BY <2>1, FS_Subset
  <2>. QED  BY <2>2, FS_CardinalityType
<1>2. IsFiniteSet(T) /\ Cardinality(T) = c
  <2>1. 0 \in Int /\ c - 1 \in Int
    BY <1>1
  <2> HIDE DEF c
  <2>2. /\ IsFiniteSet(0 .. c - 1)
        /\ Cardinality(0 .. c - 1) = IF 0 > c - 1 THEN 0 ELSE c - 1 - 0 + 1
    BY <2>1, FS_Interval
  <2>. QED  BY <2>2, <1>1
<1>3. ASSUME NEW i \in S
      PROVE  /\ IsFiniteSet({j \in S : j < i})
             /\ Rank(S, i) \in T
  <2>1. {j \in S : j < i} \subseteq S \ {i}
    OBVIOUS
  <2>2. IsFiniteSet(S \ {i}) /\ Cardinality(S \ {i}) = c - 1
    BY <1>1, FS_RemoveElement
  <2>3. /\ IsFiniteSet({j \in S : j < i})
        /\ Cardinality({j \in S : j < i}) <= c - 1
    BY <2>1, <2>2, FS_Subset
  <2>4. Cardinality({j \in S : j < i}) \in Nat
    BY <2>3, FS_CardinalityType
  <2>. QED  BY <1>1, <2>3, <2>4 DEF Rank
<1>4. ASSUME NEW i \in S, NEW j \in S, i < j
      PROVE  Rank(S, i) < Rank(S, j)
  <2> DEFINE below == {m \in S : m < i}
  <2>1. IsFiniteSet(below \cup {i}) /\ Cardinality(below \cup {i}) = Cardinality(below) + 1
    BY <1>3, FS_AddElement
  <2>2. below \cup {i} \subseteq {m \in S : m < j}
    <3>1. \A m \in S : m \in Int
      OBVIOUS
    <3>2. \A m \in below : m < j
      BY <1>4, <3>1
    <3>. QED  BY <1>4, <3>2
  <2>3. Cardinality(below \cup {i}) <= Cardinality({m \in S : m < j})
    BY <2>2, <1>3, FS_Subset
  <2>4. Cardinality(below) \in Nat /\ Cardinality({m \in S : m < j}) \in Nat
    BY <1>3, FS_CardinalityType
  <2>. QED  BY <2>1, <2>3, <2>4 DEF Rank
<1>5. \A i, j \in S : Rank(S, i) = Rank(S, j) => i = j
  <2>1. SUFFICES ASSUME NEW i \in S, NEW j \in S, Rank(S, i) = Rank(S, j), i # j
                 PROVE  FALSE
    OBVIOUS
  <2>2. Rank(S, i) \in Int /\ Rank(S, j) \in Int
    <3>1. \A m \in T : m \in Int
      BY <1>1
    <3>. QED  BY <3>1, <1>3
  <2>3. i < j \/ j < i
    BY <2>1
  <2>. QED  BY <2>1, <2>2, <2>3, <1>4
<1>6. rank \in Injection(S, T)
  BY <1>3, <1>5 DEF Injection, IsInjective
<1>7. rank \in Surjection(S, T)
  BY <1>6, <1>1, <1>2, FS_Injection
<1>8. k - 1 \in T
  BY <1>1
<1>. QED  BY <1>7, <1>8 DEF Surjection

(* Removing a name leaves a sequence of the other names, no longer than    *)
(* the order it came from.                                                 *)
LEMMA WithoutProperties ==
    ASSUME NEW seq \in Seq(Names), NEW name
    PROVE  /\ Without(seq, name) \in Seq(Names)
           /\ NamesIn(Without(seq, name)) \subseteq NamesIn(seq) \ {name}
<1> DEFINE kept == Keep(seq, name)
           c == Cardinality(kept)
           at(k) == CHOOSE i \in kept : Rank(kept, i) = k - 1
<1>1. kept \subseteq 1 .. Len(seq) /\ Len(seq) \in Nat
  BY DEF Keep
<1>2. c \in Nat
  <2>1. IsFiniteSet(1 .. Len(seq))
    BY FS_Interval
  <2>2. IsFiniteSet(kept)
    BY <1>1, <2>1, FS_Subset
  <2>. QED  BY <2>2, FS_CardinalityType
<1>3. ASSUME NEW k \in 1 .. c
      PROVE  at(k) \in kept
  <2> HIDE DEF kept
  <2>1. \E i \in kept : Rank(kept, i) = k - 1
    BY <1>1, RankIsOnto
  <2>. QED  BY <2>1
<1>4. \A k \in 1 .. c : seq[at(k)] \in Names \ {name} /\ at(k) \in DOMAIN seq
  <2>1. \A i \in kept : seq[i] \in Names \ {name} /\ i \in DOMAIN seq
    BY DEF Keep
  <2> HIDE DEF kept, at, c
  <2>. QED  BY <1>3, <2>1
<1>5. Without(seq, name) = [k \in 1 .. c |-> seq[at(k)]]
  BY DEF Without
<1> HIDE DEF kept, at, c
<1>6. Without(seq, name) \in Seq(Names)
  BY <1>2, <1>4, <1>5
<1>7. NamesIn(Without(seq, name)) \subseteq NamesIn(seq) \ {name}
  BY <1>4, <1>5 DEF NamesIn
<1>. QED  BY <1>6, <1>7

(* Whatever the offset and however the int addition wraps, a relative skip *)
(* lands on a place of the order (skipRelative, TaskManager.cpp:78-92).    *)
LEMMA RelativeIndexInRange ==
    ASSUME PlaylistTypeOK, taskOrder # <<>>, NEW offset \in Int, IntMax \in Nat
    PROVE  RelativeIndex(offset) \in 0 .. Len(taskOrder) - 1
<1> DEFINE size == Len(taskOrder)
           new == WrapInt(currentIndex + offset)
<1>1. size \in Nat /\ size > 0
  BY DEF PlaylistTypeOK
<1>2. new \in Int
  <2>1. currentIndex + offset + IntMax + 1 \in Int
    BY DEF PlaylistTypeOK
  <2>2. 2 * (IntMax + 1) \in Nat /\ 2 * (IntMax + 1) > 0
    OBVIOUS
  <2>3. (currentIndex + offset + IntMax + 1) % (2 * (IntMax + 1)) \in Int
    BY <2>1, <2>2
  <2>. QED  BY <2>3 DEF WrapInt
<1> HIDE DEF size, new
<1>3. RemInt(new, size) \in -(size - 1) .. size - 1
  <2>1. CASE new >= 0
    BY <2>1, <1>1, <1>2 DEF RemInt
  <2>2. CASE new < 0
    <3>1. (-new) % size \in 0 .. size - 1
      BY <1>1, <1>2
    <3>. QED  BY <2>2, <3>1, <1>1, <1>2 DEF RemInt
  <2>. QED  BY <2>1, <2>2, <1>2
<1>. QED  BY <1>1, <1>2, <1>3 DEF RelativeIndex, size, new

(* Every mode moves the cursor to a place of the order (autoNext, 102-140) *)
LEMMA NextIndexesInRange ==
    ASSUME PlaylistTypeOK, CursorInRange, taskOrder # <<>>
    PROVE  NextIndexes \subseteq 0 .. Len(taskOrder) - 1
<1>1. Len(taskOrder) \in Nat /\ Len(taskOrder) > 0
  BY DEF PlaylistTypeOK
<1>2. currentIndex \in 0 .. Len(taskOrder) - 1
  BY <1>1 DEF CursorInRange, PlaylistTypeOK
<1>. QED  BY <1>1, <1>2 DEF NextIndexes, PlaylistTypeOK, ConsumerMode

LEMMA FirstPlaceInRange ==
    ASSUME PlaylistTypeOK, NEW name \in NamesIn(taskOrder)
    PROVE  FirstPlace(name) \in 1 .. Len(taskOrder)
<1> DEFINE places == {i \in DOMAIN taskOrder : taskOrder[i] = name}
<1>1. DOMAIN taskOrder = 1 .. Len(taskOrder) /\ Len(taskOrder) \in Nat
  BY DEF PlaylistTypeOK
<1>2. places # {} /\ places \subseteq Nat
  BY <1>1 DEF NamesIn
<1>3. PICK i \in places : \A j \in places : i <= j
  <2> DEFINE R == OpToRel(<, Nat)
  <2>1. \E x \in places : \A y \in places : ~ (<<y, x>> \in R)
    BY <1>2, NatLessThanWellFounded, WFMin
  <2>2. PICK x \in places : \A y \in places : ~ (<<y, x>> \in R)
    BY <2>1
  <2>3. ASSUME NEW y \in places PROVE x <= y
    <3>1. x \in Nat /\ y \in Nat
      BY <1>2
    <3>2. ~ (y < x)
      BY <2>2, <3>1 DEF OpToRel
    <3>. QED  BY <3>1, <3>2
  <2>. QED  BY <2>3
<1>. QED  BY <1>1, <1>3 DEF FirstPlace

-----------------------------------------------------------------------------
LEMMA MoveCursorKeepsInv ==
    ASSUME PlaylistInv, taskOrder # <<>>,
           NEW index \in 0 .. Len(taskOrder) - 1, MoveCursor(index)
    PROVE  PlaylistInv'
BY DEF PlaylistInv, PlaylistTypeOK, CursorInRange, OrderHasEntries, MoveCursor

(* A new order takes the cursor along only if the cursor is still on it.   *)
LEMMA NewOrderKeepsInv ==
    ASSUME PlaylistInv, taskOrder' \in Seq(Names), taskMap' \subseteq Names,
           NamesIn(taskOrder') \subseteq taskMap',
           currentIndex' = CursorFor(taskOrder'),
           TaskUpdateEvent' = TRUE, UNCHANGED <<mode, hasManualSkip>>
    PROVE  PlaylistInv'
<1>1. Len(taskOrder') \in Nat /\ currentIndex \in Nat
  BY DEF PlaylistInv, PlaylistTypeOK
<1>2. /\ currentIndex' \in Nat
      /\ currentIndex' < Len(taskOrder') \/ currentIndex' = 0
  BY <1>1 DEF CursorFor
<1>. QED
  BY <1>2 DEF PlaylistInv, PlaylistTypeOK, CursorInRange, OrderHasEntries

LEMMA PlaylistStep ==
    ASSUME PlaylistInv, [PlaylistNext]_playlistVars
    PROVE  PlaylistInv'
<1> USE PlaylistAssumption
<1>1. CASE UNCHANGED playlistVars
  BY <1>1 DEF PlaylistInv, PlaylistTypeOK, CursorInRange, OrderHasEntries, playlistVars
<1>2. ASSUME NEW m \in ConsumerMode, setMode(m)
      PROVE  PlaylistInv'
  BY <1>2, Zenon DEF setMode, PlaylistInv, PlaylistTypeOK, CursorInRange, OrderHasEntries
<1>3. ASSUME NEW n \in Names, addTask(n)
      PROVE  PlaylistInv'
  <2>1. CASE n \in taskMap
    BY <1>3, <2>1 DEF addTask, PlaylistInv, PlaylistTypeOK, CursorInRange, OrderHasEntries
  <2>2. CASE n \notin taskMap
    <3>1. /\ taskOrder' \in Seq(Names)
          /\ Len(taskOrder') = Len(taskOrder) + 1
          /\ NamesIn(taskOrder') \subseteq NamesIn(taskOrder) \cup {n}
      BY <1>3, <2>2 DEF addTask, PlaylistInv, PlaylistTypeOK, NamesIn
    <3>2. currentIndex' < Len(taskOrder') \/ currentIndex' = 0
      BY <1>3, <2>2, <3>1 DEF addTask, PlaylistInv, PlaylistTypeOK, CursorInRange
    <3>3. NamesIn(taskOrder') \subseteq taskMap'
      BY <1>3, <2>2, <3>1 DEF addTask, PlaylistInv, OrderHasEntries
    <3>. QED
      BY <1>3, <2>2, <3>1, <3>2, <3>3
      DEF addTask, PlaylistInv, PlaylistTypeOK, CursorInRange, OrderHasEntries
  <2>. QED  BY <2>1, <2>2
<1>4. ASSUME NEW n \in Names, removeTask(n)
      PROVE  PlaylistInv'
  <2>1. CASE n \in taskMap
    <3> DEFINE order == Without(taskOrder, n)
    <3>1. /\ taskOrder' = order /\ taskMap' = taskMap \ {n}
          /\ currentIndex' = CursorFor(order) /\ TaskUpdateEvent' = TRUE
          /\ UNCHANGED <<mode, hasManualSkip>>
      BY <1>4, <2>1 DEF removeTask
    <3>2. order \in Seq(Names) /\ NamesIn(order) \subseteq NamesIn(taskOrder) \ {n}
      BY WithoutProperties DEF PlaylistInv, PlaylistTypeOK
    <3> HIDE DEF order
    <3>3. NamesIn(order) \subseteq taskMap \ {n} /\ taskMap \ {n} \subseteq Names
      BY <3>2 DEF PlaylistInv, PlaylistTypeOK, OrderHasEntries
    <3>. QED  BY <3>1, <3>2, <3>3, NewOrderKeepsInv
  <2>2. CASE n \notin taskMap
    BY <1>4, <2>2 DEF removeTask, PlaylistInv, PlaylistTypeOK, CursorInRange, OrderHasEntries
  <2>. QED  BY <2>1, <2>2
<1>5. ASSUME NEW n \in Names, skipTo(n)
      PROVE  PlaylistInv'
  <2>1. CASE n \in NamesIn(taskOrder)
    <3>1. FirstPlace(n) \in 1 .. Len(taskOrder)
      BY <2>1, FirstPlaceInRange DEF PlaylistInv
    <3>2. FirstPlace(n) - 1 \in 0 .. Len(taskOrder) - 1 /\ taskOrder # <<>>
      BY <3>1, <2>1 DEF PlaylistInv, PlaylistTypeOK, NamesIn
    <3>3. MoveCursor(FirstPlace(n) - 1)
      BY <1>5, <2>1 DEF skipTo
    <3>. QED  BY <3>2, <3>3, MoveCursorKeepsInv
  <2>2. CASE n \notin NamesIn(taskOrder)
    BY <1>5, <2>2, <1>1 DEF skipTo
  <2>. QED  BY <2>1, <2>2
<1>6. ASSUME NEW k \in Offsets, skipRelative(k)
      PROVE  PlaylistInv'
  <2>1. CASE taskOrder = <<>>
    BY <1>6, <2>1, <1>1 DEF skipRelative
  <2>2. CASE taskOrder # <<>>
    <3>1. RelativeIndex(k) \in 0 .. Len(taskOrder) - 1
      BY <2>2, RelativeIndexInRange DEF PlaylistInv
    <3>2. MoveCursor(RelativeIndex(k))
      BY <1>6, <2>2 DEF skipRelative
    <3>. QED  BY <2>2, <3>1, <3>2, MoveCursorKeepsInv
  <2>. QED  BY <2>1, <2>2
<1>7. CASE autoNext
  <2>1. CASE taskOrder = <<>>
    BY <1>7, <2>1, <1>1 DEF autoNext
  <2>2. CASE taskOrder # <<>>
    <3>1. currentIndex' \in 0 .. Len(taskOrder) - 1
      BY <1>7, <2>2, NextIndexesInRange DEF autoNext, PlaylistInv
    <3>2. TaskUpdateEvent' = TRUE /\ UNCHANGED <<mode, taskOrder, taskMap, hasManualSkip>>
      BY <1>7, <2>2 DEF autoNext
    <3>. QED
      BY <3>1, <3>2 DEF PlaylistInv, PlaylistTypeOK, CursorInRange, OrderHasEntries
  <2>. QED  BY <2>1, <2>2
<1>8. CASE clearTasks
  BY <1>8 DEF clearTasks, PlaylistInv, PlaylistTypeOK, CursorInRange, OrderHasEntries, NamesIn
<1>9. ASSUME NEW tasks \in SUBSET Names, NEW order \in Orders, updateTasks(tasks, order)
      PROVE  PlaylistInv'
  <2>1. CASE NamesIn(order) \subseteq taskMap \cup tasks
    <3>1. /\ taskOrder' = order /\ taskMap' = (taskMap \cup tasks) \cap NamesIn(order)
          /\ currentIndex' = CursorFor(order) /\ TaskUpdateEvent' = TRUE
          /\ UNCHANGED <<mode, hasManualSkip>>
      BY <1>9, <2>1 DEF updateTasks
    <3>2. order \in Seq(Names) /\ taskMap' \subseteq Names
      BY <3>1 DEF PlaylistInv, PlaylistTypeOK
    <3>3. NamesIn(order) \subseteq taskMap'
      BY <3>1, <2>1
    <3>. QED  BY <3>1, <3>2, <3>3, NewOrderKeepsInv
  <2>2. CASE ~ (NamesIn(order) \subseteq taskMap \cup tasks)
    <3>1. taskMap' = taskMap \cup tasks
          /\ UNCHANGED <<mode, taskOrder, currentIndex, hasManualSkip, TaskUpdateEvent>>
      BY <1>9, <2>2 DEF updateTasks
    <3>. QED
      BY <3>1 DEF PlaylistInv, PlaylistTypeOK, CursorInRange, OrderHasEntries
  <2>. QED  BY <2>1, <2>2
<1>10. CASE ResetUpdateEvent
  BY <1>10 DEF ResetUpdateEvent, PlaylistInv, PlaylistTypeOK, CursorInRange, OrderHasEntries
<1>11. CASE ClearManualSkip
  BY <1>11 DEF ClearManualSkip, PlaylistInv, PlaylistTypeOK, CursorInRange, OrderHasEntries
<1>. QED
  BY <1>1, <1>2, <1>3, <1>4, <1>5, <1>6, <1>7, <1>8, <1>9, <1>10, <1>11 DEF PlaylistNext

(* For every set of names and every request, the cursor stays on the order *)
(* and every name in the order has an entry: getNextTask neither reads     *)
(* past taskOrder nor throws from taskMap.at (TaskManager.cpp:195-201).    *)
THEOREM PlaylistSafe == PlaylistSpec => [](PlaylistTypeOK /\ CursorInRange /\ OrderHasEntries)
<1>1. PlaylistInit => PlaylistInv
  <2>1. NamesIn(<<>>) = {}
    BY DEF NamesIn
  <2>2. PlaylistInit => CursorInRange /\ OrderHasEntries
    BY <2>1 DEF PlaylistInit, CursorInRange, OrderHasEntries
  <2>3. PlaylistInit => PlaylistTypeOK
    <3>1. <<>> \in Seq(Names)
      OBVIOUS
    <3>2. PlaylistInit => taskOrder \in Seq(Names)
      BY <3>1, Zenon DEF PlaylistInit
    <3>3. PlaylistInit => mode \in ConsumerMode /\ taskMap \subseteq Names /\ currentIndex \in Nat
      BY SMT DEF PlaylistInit, ConsumerMode
    <3>4. PlaylistInit => hasManualSkip \in BOOLEAN /\ TaskUpdateEvent \in BOOLEAN
      BY Zenon DEF PlaylistInit
    <3>. QED  BY <3>2, <3>3, <3>4 DEF PlaylistTypeOK
  <2>. QED  BY <2>2, <2>3 DEF PlaylistInv
<1>2. PlaylistInv /\ [PlaylistNext]_playlistVars => PlaylistInv'
  BY PlaylistStep
<1>3. PlaylistInv => PlaylistTypeOK /\ CursorInRange /\ OrderHasEntries
  BY DEF PlaylistInv
<1>. QED  BY <1>1, <1>2, <1>3, PTL DEF PlaylistSpec

(* No operation moves the order or the cursor without leaving the event    *)
(* set: the download loop that sleeps on TaskUpdateEvent hears of it.      *)
THEOREM PlaylistSignals == PlaylistSpec => ChangesAreSignalled
<1> DEFINE Signalled ==
             taskOrder' # taskOrder \/ currentIndex' # currentIndex => TaskUpdateEvent'
<1>1. ASSUME PlaylistNext PROVE [Signalled]_playlistVars
  BY <1>1, Zenon
  DEF PlaylistNext, setMode, addTask, removeTask, skipTo, skipRelative, MoveCursor,
      autoNext, clearTasks, updateTasks, ResetUpdateEvent, ClearManualSkip, playlistVars
<1>. QED  BY <1>1, PTL DEF PlaylistSpec, ChangesAreSignalled

(* Each of them by itself.  Names, modes and flags are of their kinds,     *)
(* after any operations (TaskManager.cpp).                                 *)
THEOREM PlaylistTypes == PlaylistSpec => []PlaylistTypeOK
  BY PlaylistSafe, PTL

(* taskMap has an entry for every name of taskOrder, so that getNextTask's *)
(* taskMap.at does not throw, also when updateTasks has stored entries and *)
(* refused the order (TaskManager.cpp:124-201).                            *)
THEOREM PlaylistEntries == PlaylistSpec => []OrderHasEntries
  BY PlaylistSafe, PTL
=============================================================================
