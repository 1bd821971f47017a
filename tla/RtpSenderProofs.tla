-------------------------- MODULE RtpSenderProofs --------------------------
(***************************************************************************)
(* What the sender keeps true for every size of the ring buffer, every     *)
(* window, every timestamp range and every number of frames and requests.  *)
(***************************************************************************)
EXTENDS RtpSender, SequenceTheorems, TLAPS

(* The inductive invariant.  The types come in four groups, one per kind   *)
(* of data; Window says how far ahead the sender is at each place of its   *)
(* loop, Ordered where the frames between decoder and network are.         *)
Flags == {waiting, EventStateUpdate, do_empty_ring_buffer, rbClosed, isStopped} \subseteq BOOLEAN

Control ==
    /\ pc \in Labels
    /\ play_state \in {"PLAYING", "PAUSE"}
    /\ handler \in {"idle", "switch", "clean_up", "signal", "notify"}
    /\ requests \in 0 .. MaxRequests

Numbers ==
    /\ clock \in Nat /\ frame_index \in Nat
    /\ timestamp \in 0 .. TimestampRange - 1
    /\ current_advance_frames \in MinAdvance .. MaxAdvance

Queues ==
    /\ rb \in Seq(1 .. MaxFrames) /\ Len(rb) <= Capacity
    /\ frames_to_send \in Seq(1 .. MaxFrames) /\ Len(frames_to_send) <= MaxAdvance
    /\ made \in 0 .. MaxFrames
    /\ last \in Packet

Window ==
    /\ frame_index <= clock + 2 * MaxAdvance
    /\ pc \in {"fill", "consume"} => frame_index <= clock + MaxAdvance
    /\ pc = "send" => frame_index + Len(frames_to_send) <= clock + 2 * MaxAdvance

Increasing(s) == \A i, j \in 1 .. Len(s) : i < j => s[i] < s[j]
Between(low, s, high) == \A i \in 1 .. Len(s) : low < s[i] /\ s[i] <= high

\* The last frame sent, a batch, the ring and the last frame made.
InLine(low, batch, ring, high) ==
    /\ low <= high
    /\ Increasing(batch) /\ Increasing(ring)
    /\ Between(low, batch, high) /\ Between(low, ring, high)
    /\ \A i \in 1 .. Len(batch), j \in 1 .. Len(ring) : batch[i] < ring[j]

Ordered ==
    /\ InLine(last.frame, frames_to_send, rb, made)
    /\ last.index < frame_index
    /\ pc # "send" => frames_to_send = <<>>

Typed == Flags /\ Control /\ Numbers /\ Queues
SenderInv == Typed /\ Window /\ TimestampFollowsIndex /\ Ordered

-----------------------------------------------------------------------------
(* Arithmetic of the timestamp field.                                      *)
LEMMA ModIsUnique ==
    ASSUME NEW R \in Nat \ {0}, NEW a \in Int, NEW b \in Int,
           NEW m \in 0 .. R - 1, NEW n \in 0 .. R - 1, R * a + m = R * b + n
    PROVE  m = n
<1>1. R * (a - b) = n - m
  OBVIOUS
<1>2. CASE a = b
  BY <1>2
<1>3. CASE a > b
  <2>1. R * (a - b) >= R
    BY <1>3
  <2>. QED  BY <1>1, <2>1
<1>4. CASE a < b
  <2>1. R * (b - a) >= R
    BY <1>4
  <2>2. R * (b - a) = m - n
    OBVIOUS
  <2>. QED  BY <2>1, <2>2
<1>. QED  BY <1>2, <1>3, <1>4

LEMMA ModOfSum ==
    ASSUME NEW R \in Nat \ {0}, NEW x \in Nat, NEW y \in Nat
    PROVE  ((x % R) + y) % R = (x + y) % R
<1> DEFINE m == x % R
           n == (m + y) % R
           k == (x + y) % R
           p == x \div R
           q == (m + y) \div R
           r == (x + y) \div R
<1>1. m \in 0 .. R - 1 /\ p \in Int /\ x = R * p + m
  OBVIOUS
<1>2. n \in 0 .. R - 1 /\ q \in Int /\ m + y = R * q + n
  BY <1>1
<1>3. k \in 0 .. R - 1 /\ r \in Int /\ x + y = R * r + k
  OBVIOUS
<1> HIDE DEF m, n, k, p, q, r
<1>4. p + q \in Int /\ R * (p + q) + n = R * r + k
  BY <1>1, <1>2, <1>3
<1>5. n = k
  <2> DEFINE d == p + q
  <2>1. d \in Int /\ R * d + n = R * r + k
    BY <1>4
  <2> HIDE DEF d
  <2>. QED  BY <1>2, <1>3, <2>1, ModIsUnique
<1>. QED  BY <1>5 DEF n, m, k

(* Stamping in two steps is stamping in one; a stamp fits its field.       *)
LEMMA StampedInRange ==
    ASSUME SenderAssumption, NEW stamp \in Nat, NEW frames \in Nat
    PROVE  Stamped(stamp, frames) \in 0 .. TimestampRange - 1
<1>1. frames * FrameSize \in Nat
  BY DEF SenderAssumption
<1>. QED  BY <1>1 DEF Stamped, SenderAssumption

LEMMA StampedTwice ==
    ASSUME SenderAssumption, NEW index \in Nat, NEW frames \in Nat
    PROVE  Stamped(Stamped(FirstTimestamp, index), frames)
             = Stamped(FirstTimestamp, index + frames)
<1> DEFINE x == FirstTimestamp + index * FrameSize
           y == frames * FrameSize
<1>1. FrameSize \in Nat /\ TimestampRange \in Nat \ {0} /\ FirstTimestamp \in Nat
  BY DEF SenderAssumption
<1>2. x \in Nat /\ y \in Nat
  BY <1>1
<1>3. FirstTimestamp + (index + frames) * FrameSize = x + y
  BY <1>1
<1> HIDE DEF x, y
<1>4. ((x % TimestampRange) + y) % TimestampRange = (x + y) % TimestampRange
  BY <1>1, <1>2, ModOfSum
<1>. QED  BY <1>3, <1>4 DEF Stamped, x, y

-----------------------------------------------------------------------------
(* Which actions touch what: all the others leave the group as it is.      *)
LEMMA WhoMovesNumbers ==
    ASSUME [Next]_senderVars
    PROVE  \/ Pace \/ ConsumeOne \/ Send \/ Sent \/ Tick
           \/ UNCHANGED <<clock, frame_index, timestamp, current_advance_frames>>
<1>1. CASE SenderStep
  BY <1>1, Zenon
  DEF SenderStep, CheckPause, AwaitState, Woken, CheckFlush, Flush, Flushed, Wake, Fill,
      ConsumeClosed, streamVars
<1>2. CASE HandlerStep \/ Produce \/ switchPlayState \/ seekSecond \/ cleanupJob
  BY <1>2, Zenon
  DEF HandlerStep, clean_up, Signal, notify_waiters, Produce, switchPlayState, seekSecond,
      cleanupJob, Request, otherVars, streamVars
<1>3. CASE UNCHANGED senderVars
  BY <1>3, Zenon DEF senderVars, streamVars
<1>. QED  BY <1>1, <1>2, <1>3 DEF Next

LEMMA WhoMovesFrames ==
    ASSUME [Next]_senderVars
    PROVE  \/ Flush \/ Fill \/ ConsumeOne \/ Send \/ Produce
           \/ UNCHANGED <<rb, frames_to_send, made, last>>
<1>1. CASE SenderStep
  BY <1>1, Zenon
  DEF SenderStep, CheckPause, AwaitState, Woken, CheckFlush, Flushed, Pace, Wake,
      ConsumeClosed, Sent, ringVars
<1>2. CASE HandlerStep \/ Tick \/ switchPlayState \/ seekSecond \/ cleanupJob
  BY <1>2, Zenon
  DEF HandlerStep, clean_up, Signal, notify_waiters, Tick, switchPlayState, seekSecond,
      cleanupJob, Request, otherVars, ringVars
<1>3. CASE UNCHANGED senderVars
  BY <1>3, Zenon DEF senderVars, ringVars
<1>. QED  BY <1>1, <1>2, <1>3 DEF Next

(* Only the sender moves pc, and only these steps enter the places that    *)
(* Window and Ordered speak of.                                            *)
LEMMA WhoMovesPc ==
    ASSUME [Next]_senderVars
    PROVE  /\ pc' = "fill" => pc = "fill" \/ Pace \/ Wake
           /\ pc' = "consume" => pc = "consume" \/ Fill
           /\ pc' = "send" => pc = "send" \/ Fill
           /\ pc = "send" => pc' = "send" \/ Sent
<1>1. CASE SenderStep
  BY <1>1, SMT
  DEF SenderStep, CheckPause, AwaitState, Woken, CheckFlush, Flush, Flushed, Pace, Wake,
      Fill, ConsumeOne, ConsumeClosed, Send, Sent, Goto
<1>2. CASE HandlerStep \/ Produce \/ Tick \/ switchPlayState \/ seekSecond \/ cleanupJob
  BY <1>2, Zenon
  DEF HandlerStep, clean_up, Signal, notify_waiters, Produce, Tick, switchPlayState,
      seekSecond, cleanupJob, Request, otherVars
<1>3. CASE UNCHANGED senderVars
  BY <1>3, Zenon DEF senderVars
<1>. QED  BY <1>1, <1>2, <1>3 DEF Next

-----------------------------------------------------------------------------
(* Types.                                                                  *)
LEMMA FlagsStep ==
    ASSUME Flags, [Next]_senderVars
    PROVE  Flags'
<1>1. CASE SenderStep
  BY <1>1, Zenon
  DEF Flags, SenderStep, CheckPause, AwaitState, Woken, CheckFlush, Flush, Flushed, Pace,
      Wake, Fill, ConsumeOne, ConsumeClosed, Send, Sent, stateVars, ringVars, handlerVars
<1>2. CASE HandlerStep \/ Produce \/ Tick \/ switchPlayState \/ seekSecond \/ cleanupJob
  BY <1>2, Zenon
  DEF Flags, HandlerStep, clean_up, Signal, notify_waiters, Produce, Tick, switchPlayState,
      seekSecond, cleanupJob, Request, otherVars, stateVars, ringVars, handlerVars
<1>3. CASE UNCHANGED senderVars
  BY <1>3, Zenon DEF Flags, senderVars, stateVars, ringVars, handlerVars
<1>. QED  BY <1>1, <1>2, <1>3 DEF Next

LEMMA ControlStep ==
    ASSUME SenderAssumption, Control, [Next]_senderVars
    PROVE  Control'
<1>1. CASE SenderStep
  BY <1>1, SMT
  DEF Control, SenderStep, CheckPause, AwaitState, Woken, CheckFlush, Flush, Flushed, Pace,
      Wake, Fill, ConsumeOne, ConsumeClosed, Send, Sent, stateVars, handlerVars, Goto, Labels
<1>2. CASE HandlerStep \/ Produce \/ Tick
  BY <1>2, SMT
  DEF Control, HandlerStep, clean_up, Signal, notify_waiters, Produce, Tick,
      otherVars, stateVars, handlerVars
<1>3. CASE switchPlayState \/ seekSecond \/ cleanupJob
  BY <1>3, SMT
  DEF Control, switchPlayState, seekSecond, cleanupJob, Request, otherVars, stateVars,
      SenderAssumption
<1>4. CASE UNCHANGED senderVars
  BY <1>4, SMT DEF Control, senderVars, stateVars, handlerVars
<1>. QED  BY <1>1, <1>2, <1>3, <1>4 DEF Next

(* What Pace finds when it is not ahead of the clock.                      *)
LEMMA LateFrames ==
    ASSUME SenderAssumption, Numbers, ~ (clock < expected_send_time)
    PROVE  /\ clock - expected_send_time \in Nat
           /\ frame_index + (clock - expected_send_time) = clock + current_advance_frames
BY DEF SenderAssumption, Numbers, expected_send_time

LEMMA AdjustedInRange ==
    ASSUME SenderAssumption, NEW advance \in MinAdvance .. MaxAdvance
    PROVE  Adjusted(advance) \subseteq MinAdvance .. MaxAdvance
BY DEF SenderAssumption, Adjusted

LEMMA NumbersStep ==
    ASSUME SenderAssumption, Numbers, [Next]_senderVars
    PROVE  Numbers'
<1>1. \A frames \in Nat : Stamped(timestamp, frames) \in 0 .. TimestampRange - 1
  <2>1. timestamp \in Nat
    BY DEF Numbers, SenderAssumption
  <2>. QED  BY <2>1, StampedInRange
<1>2. Adjusted(current_advance_frames) \subseteq MinAdvance .. MaxAdvance
  BY AdjustedInRange DEF Numbers
<1>3. CASE Pace
  <2>1. CASE clock < expected_send_time
    BY <1>3, <2>1 DEF Pace, Numbers
  <2>2. CASE ~ (clock < expected_send_time)
    <3> DEFINE late == clock - expected_send_time
    <3>1. late \in Nat
      BY <2>2, LateFrames
    <3>2. /\ frame_index' = frame_index + late /\ timestamp' = Stamped(timestamp, late)
          /\ UNCHANGED <<clock, current_advance_frames>>
      BY <1>3, <2>2 DEF Pace, Advanced
    <3> HIDE DEF late
    <3>. QED  BY <1>1, <3>1, <3>2 DEF Numbers
  <2>. QED  BY <2>1, <2>2
<1>4. CASE ConsumeOne \/ Send
  <2>1. /\ timestamp' \in {timestamp, Stamped(timestamp, 1)}
        /\ frame_index' \in {frame_index, frame_index + 1}
        /\ current_advance_frames' \in {current_advance_frames} \cup Adjusted(current_advance_frames)
        /\ clock' = clock
    BY <1>4 DEF ConsumeOne, Send, Advanced, streamVars
  <2>. QED  BY <1>1, <1>2, <2>1 DEF Numbers
<1>5. CASE Sent \/ Tick
  BY <1>2, <1>5 DEF Sent, Tick, Numbers, streamVars
<1>6. CASE UNCHANGED <<clock, frame_index, timestamp, current_advance_frames>>
  BY <1>6 DEF Numbers
<1>. QED  BY <1>3, <1>4, <1>5, <1>6, WhoMovesNumbers

(* A batch is a part of the ring and leaves the rest of it behind.         *)
LEMMA BatchSplitsRing ==
    ASSUME NEW F, NEW s \in Seq(F), NEW b \in 0 .. Len(s)
    PROVE  /\ SubSeq(s, 1, b) \in Seq(F) /\ Len(SubSeq(s, 1, b)) = b
           /\ \A i \in 1 .. b : SubSeq(s, 1, b)[i] = s[i]
           /\ SubSeq(s, b + 1, Len(s)) \in Seq(F)
           /\ Len(SubSeq(s, b + 1, Len(s))) = Len(s) - b
           /\ \A i \in 1 .. Len(s) - b : SubSeq(s, b + 1, Len(s))[i] = s[b + i]
<1>1. Len(s) \in Nat /\ b \in Int /\ b + 1 \in Int /\ \A i \in 1 .. Len(s) : s[i] \in F
  OBVIOUS
<1>2. /\ SubSeq(s, 1, b) \in Seq(F)
      /\ Len(SubSeq(s, 1, b)) = IF 1 <= b THEN b - 1 + 1 ELSE 0
      /\ \A i \in 1 .. b - 1 + 1 : SubSeq(s, 1, b)[i] = s[1 + i - 1]
  <2>1. \A i \in 1 .. b : s[i] \in F
    BY <1>1
  <2>. QED  BY <1>1, <2>1, SubSeqProperties
<1>3. /\ SubSeq(s, b + 1, Len(s)) \in Seq(F)
      /\ Len(SubSeq(s, b + 1, Len(s))) = IF b + 1 <= Len(s) THEN Len(s) - (b + 1) + 1 ELSE 0
      /\ \A i \in 1 .. Len(s) - (b + 1) + 1 :
             SubSeq(s, b + 1, Len(s))[i] = s[b + 1 + i - 1]
  <2>1. \A i \in b + 1 .. Len(s) : s[i] \in F
    BY <1>1
  <2>. QED  BY <1>1, <2>1, SubSeqProperties
<1>. QED  BY <1>1, <1>2, <1>3

LEMMA BatchSizeInRange ==
    ASSUME SenderAssumption, Numbers, Queues
    PROVE  BatchSize \in 0 .. Len(rb) /\ BatchSize <= MaxAdvance
BY DEF SenderAssumption, Numbers, Queues, BatchSize

LEMMA QueuesStep ==
    ASSUME SenderAssumption, Numbers, Queues, [Next]_senderVars
    PROVE  Queues'
<1>1. \A s \in Seq(1 .. MaxFrames) : s # <<>> =>
          /\ Head(s) \in 1 .. MaxFrames /\ Tail(s) \in Seq(1 .. MaxFrames)
          /\ Len(Tail(s)) = Len(s) - 1
  OBVIOUS
<1>2. Len(rb) \in Nat /\ Len(frames_to_send) \in Nat
  BY DEF Queues
<1>3. \A f \in 1 .. MaxFrames : [frame |-> f, index |-> frame_index] \in Packet
  BY DEF Packet, Numbers
<1>4. CASE Flush
  <2>1. /\ rb' = rb \/ (rb # <<>> /\ rb' = Tail(rb))
        /\ UNCHANGED <<frames_to_send, made, last>>
    BY <1>4, Zenon DEF Flush
  <2>2. rb' \in Seq(1 .. MaxFrames) /\ Len(rb') <= Len(rb) /\ Len(rb') \in Nat
    <3>1. CASE rb' = rb
      BY <1>2, <3>1 DEF Queues
    <3>2. CASE rb # <<>> /\ rb' = Tail(rb)
      BY <1>1, <1>2, <3>2 DEF Queues
    <3>. QED  BY <2>1, <3>1, <3>2
  <2>3. Len(rb') <= Capacity
    BY <1>2, <2>2 DEF Queues, SenderAssumption
  <2>. QED  BY <2>1, <2>2, <2>3 DEF Queues
<1>5. CASE Fill
  <2>1. CASE rb = <<>>
    BY <1>5, <2>1 DEF Fill, Queues
  <2>2. CASE rb # <<>>
    <3>1. /\ frames_to_send' = SubSeq(rb, 1, BatchSize)
          /\ rb' = SubSeq(rb, BatchSize + 1, Len(rb))
          /\ UNCHANGED <<made, last>>
      BY <1>5, <2>2, Zenon DEF Fill
    <3>2. rb \in Seq(1 .. MaxFrames)
      BY DEF Queues
    <3>3. /\ frames_to_send' \in Seq(1 .. MaxFrames) /\ Len(frames_to_send') = BatchSize
          /\ rb' \in Seq(1 .. MaxFrames) /\ Len(rb') = Len(rb) - BatchSize
      BY <3>1, <3>2, BatchSizeInRange, BatchSplitsRing
    <3>4. BatchSize \in 0 .. Len(rb) /\ BatchSize <= MaxAdvance
      BY BatchSizeInRange
    <3>5. Len(rb') <= Capacity /\ Len(frames_to_send') <= MaxAdvance
      BY <1>2, <3>3, <3>4 DEF Queues, SenderAssumption
    <3>. QED  BY <3>1, <3>3, <3>5 DEF Queues
  <2>. QED  BY <2>1, <2>2
<1>6. CASE ConsumeOne
  <2>1. /\ rb # <<>> /\ rb' = Tail(rb) /\ UNCHANGED <<frames_to_send, made>>
        /\ last' = last \/ last' = [frame |-> Head(rb), index |-> frame_index]
    BY <1>6, Zenon DEF ConsumeOne, Push
  <2>2. /\ Head(rb) \in 1 .. MaxFrames /\ rb' \in Seq(1 .. MaxFrames)
        /\ Len(rb') = Len(rb) - 1
    BY <1>1, <2>1 DEF Queues
  <2>3. last' \in Packet
    BY <1>3, <2>1, <2>2, Zenon DEF Queues
  <2>4. Len(rb') <= Capacity
    BY <1>2, <2>2 DEF Queues, SenderAssumption
  <2>. QED  BY <2>1, <2>2, <2>3, <2>4 DEF Queues
<1>7. CASE Send
  <2>1. /\ frames_to_send # <<>> /\ frames_to_send' = Tail(frames_to_send)
        /\ UNCHANGED <<rb, made>>
        /\ last' = last \/ last' = [frame |-> Head(frames_to_send), index |-> frame_index]
    BY <1>7, Zenon DEF Send, Push, ringVars
  <2>2. /\ Head(frames_to_send) \in 1 .. MaxFrames /\ frames_to_send' \in Seq(1 .. MaxFrames)
        /\ Len(frames_to_send') = Len(frames_to_send) - 1
    BY <1>1, <2>1 DEF Queues
  <2>3. last' \in Packet
    BY <1>3, <2>1, <2>2, Zenon DEF Queues
  <2>4. Len(frames_to_send') <= MaxAdvance
    BY <1>2, <2>2 DEF Queues, SenderAssumption
  <2>. QED  BY <2>1, <2>2, <2>3, <2>4 DEF Queues
<1>8. CASE Produce
  <2>1. /\ made < MaxFrames /\ Len(rb) < Capacity /\ made' = made + 1
        /\ rb' = Append(rb, made + 1) /\ UNCHANGED <<frames_to_send, last>>
    BY <1>8, Zenon DEF Produce
  <2>2. made + 1 \in 1 .. MaxFrames /\ Capacity \in Nat /\ MaxFrames \in Nat
    BY <2>1 DEF Queues, SenderAssumption
  <2>3. rb' \in Seq(1 .. MaxFrames) /\ Len(rb') = Len(rb) + 1
    BY <2>1, <2>2 DEF Queues
  <2>. QED  BY <1>2, <2>1, <2>2, <2>3 DEF Queues
<1>9. CASE UNCHANGED <<rb, frames_to_send, made, last>>
  BY <1>9 DEF Queues
<1>. QED  BY <1>4, <1>5, <1>6, <1>7, <1>8, <1>9, WhoMovesFrames

LEMMA TypedStep ==
    ASSUME SenderAssumption, Typed, [Next]_senderVars
    PROVE  Typed'
BY FlagsStep, ControlStep, NumbersStep, QueuesStep DEF Typed

-----------------------------------------------------------------------------
(* Window: Pace and Wake let the sender through only one window ahead of   *)
(* the clock, and one more window is all it sends before it comes back.    *)
LEMMA WindowStep ==
    ASSUME SenderAssumption, Typed, Window, [Next]_senderVars
    PROVE  Window'
<1> DEFINE batch == Len(frames_to_send)
<1>1. /\ clock \in Nat /\ frame_index \in Nat /\ batch \in Nat
      /\ current_advance_frames \in MinAdvance .. MaxAdvance
      /\ MinAdvance \in Nat /\ MaxAdvance \in Nat /\ 1 <= MaxAdvance
  BY DEF Typed, Numbers, Queues, SenderAssumption
<1>2. CASE Pace
  <2>1. CASE clock < expected_send_time
    BY <1>1, <1>2, <2>1 DEF Pace, Window, Goto
  <2>2. CASE ~ (clock < expected_send_time)
    <3>1. frame_index' = clock + current_advance_frames /\ clock' = clock /\ pc' = "fill"
      BY <1>2, <2>2, LateFrames DEF Pace, Goto, Advanced, Typed
    <3>. QED  BY <1>1, <3>1 DEF Window
  <2>. QED  BY <2>1, <2>2
<1>3. CASE Wake
  BY <1>1, <1>3 DEF Wake, Goto, Window, expected_send_time, streamVars
<1>4. CASE Fill
  <2>1. /\ pc = "fill" /\ UNCHANGED <<clock, frame_index>> /\ pc' \in {"consume", "send"}
        /\ pc' = "send" => frames_to_send' = SubSeq(rb, 1, BatchSize)
    BY <1>4, SMT DEF Fill, Goto, streamVars
  <2>2. rb \in Seq(1 .. MaxFrames) /\ BatchSize \in 0 .. Len(rb) /\ BatchSize <= MaxAdvance
    BY BatchSizeInRange DEF Typed, Queues
  <2>3. Len(SubSeq(rb, 1, BatchSize)) = BatchSize /\ BatchSize \in Nat
    BY <2>2, BatchSplitsRing
  <2>. QED  BY <1>1, <2>1, <2>2, <2>3 DEF Window
<1>5. CASE ConsumeOne
  <2>1. /\ pc = "consume" /\ clock' = clock /\ pc' \in {"top", "exit"}
        /\ frame_index' \in {frame_index, frame_index + 1}
    BY <1>5, SMT DEF ConsumeOne, Goto, Advanced, streamVars
  <2>. QED  BY <1>1, <2>1 DEF Window
<1>6. CASE Send
  <2>1. /\ pc = "send" /\ pc' = pc /\ clock' = clock
        /\ frames_to_send # <<>> /\ frames_to_send' = Tail(frames_to_send)
        /\ frame_index' \in {frame_index, frame_index + 1}
    BY <1>6, SMT DEF Send, Advanced
  <2>2. Len(frames_to_send') = batch - 1 /\ batch >= 1
    BY <2>1 DEF Typed, Queues
  <2>. QED  BY <1>1, <2>1, <2>2 DEF Window
<1>7. CASE Sent
  BY <1>7 DEF Sent, Goto, Window
<1>8. CASE Tick
  BY <1>1, <1>8 DEF Tick, Window, streamVars
<1>9. CASE /\ ~ (Pace \/ Wake \/ Fill \/ ConsumeOne \/ Send \/ Sent \/ Tick)
  <2>1. UNCHANGED <<clock, frame_index>>
    BY <1>9, WhoMovesNumbers
  <2>2. /\ pc' = "fill" => pc = "fill"
        /\ pc' = "consume" => pc = "consume"
        /\ pc' = "send" => pc = "send"
    BY <1>9, WhoMovesPc
  <2>3. pc = "send" => UNCHANGED frames_to_send
    BY <1>9, WhoMovesFrames DEF Flush, Produce
  <2>. QED  BY <1>1, <2>1, <2>2, <2>3 DEF Window
<1>. QED  BY <1>2, <1>3, <1>4, <1>5, <1>6, <1>7, <1>8, <1>9

LEMMA TimestampStep ==
    ASSUME SenderAssumption, Typed, TimestampFollowsIndex, [Next]_senderVars
    PROVE  TimestampFollowsIndex'
<1>1. \A frames \in Nat :
          Stamped(timestamp, frames) = Stamped(FirstTimestamp, frame_index + frames)
  BY StampedTwice DEF TimestampFollowsIndex, Typed, Numbers
<1>2. CASE Pace
  <2>1. CASE clock < expected_send_time
    BY <1>2, <2>1 DEF Pace, TimestampFollowsIndex
  <2>2. CASE ~ (clock < expected_send_time)
    <3> DEFINE late == clock - expected_send_time
    <3>1. late \in Nat
      BY <2>2, LateFrames DEF Typed
    <3>2. frame_index' = frame_index + late /\ timestamp' = Stamped(timestamp, late)
      BY <1>2, <2>2 DEF Pace, Advanced
    <3> HIDE DEF late
    <3>. QED  BY <1>1, <3>1, <3>2 DEF TimestampFollowsIndex
  <2>. QED  BY <2>1, <2>2
<1>3. CASE ConsumeOne \/ Send
  <2>1. \/ UNCHANGED <<frame_index, timestamp>>
        \/ timestamp' = Stamped(timestamp, 1) /\ frame_index' = frame_index + 1
    BY <1>3, Zenon DEF ConsumeOne, Send, Advanced, streamVars
  <2>. QED  BY <1>1, <2>1 DEF TimestampFollowsIndex
<1>4. CASE Sent \/ Tick \/ UNCHANGED <<clock, frame_index, timestamp, current_advance_frames>>
  <2>1. UNCHANGED <<frame_index, timestamp>>
    BY <1>4, Zenon DEF Sent, Tick, streamVars
  <2>. QED  BY <2>1 DEF TimestampFollowsIndex
<1>. QED  BY <1>2, <1>3, <1>4, WhoMovesNumbers

-----------------------------------------------------------------------------
(* Order: the frames from the last packet through the batch and the ring   *)
(* to the decoder have increasing numbers, so that a packet is always of a *)
(* later frame than the one before it.                                     *)
LEMMA InLineAfterBatch ==
    ASSUME NEW low \in Nat, NEW high \in Nat, NEW s \in Seq(Nat), NEW t \in Seq(Nat),
           s # <<>>, InLine(low, s, t, high)
    PROVE  /\ Head(s) \in Nat /\ low < Head(s)
           /\ InLine(low, Tail(s), t, high) /\ InLine(Head(s), Tail(s), t, high)
<1>1. /\ Len(s) \in Nat /\ Len(s) >= 1 /\ Head(s) = s[1]
      /\ Len(Tail(s)) = Len(s) - 1 /\ \A i \in 1 .. Len(Tail(s)) : Tail(s)[i] = s[i + 1]
      /\ \A i \in 1 .. Len(s) : s[i] \in Nat
  BY HeadTailProperties
<1>2. Len(t) \in Nat /\ \A j \in 1 .. Len(t) : t[j] \in Nat
  OBVIOUS
<1> DEFINE r == Tail(s)
<1>3. Len(r) \in Nat /\ \A i \in 1 .. Len(r) : r[i] = s[i + 1] /\ i + 1 \in 1 .. Len(s)
  BY <1>1
<1>4. low < s[1] /\ s[1] <= high
  BY <1>1 DEF InLine, Between
<1>5. \A i \in 1 .. Len(r) : s[1] < r[i]
  BY <1>1, <1>3 DEF InLine, Increasing
<1> HIDE DEF r
<1>6. Increasing(r)
  <2>1. ASSUME NEW i \in 1 .. Len(r), NEW j \in 1 .. Len(r), i < j
        PROVE  r[i] < r[j]
    <3>1. s[i + 1] < s[j + 1]
      BY <1>3, <2>1 DEF InLine, Increasing
    <3>. QED  BY <1>3, <3>1
  <2>. QED  BY <2>1 DEF Increasing
<1>7. Between(low, r, high) /\ Between(s[1], r, high)
  <2>1. ASSUME NEW i \in 1 .. Len(r)
        PROVE  low < r[i] /\ r[i] <= high /\ s[1] < r[i]
    <3>1. low < s[i + 1] /\ s[i + 1] <= high
      BY <1>3 DEF InLine, Between
    <3>. QED  BY <1>3, <1>5, <3>1
  <2>. QED  BY <2>1 DEF Between
<1>8. \A i \in 1 .. Len(s), j \in 1 .. Len(t) : s[i] < t[j]
  BY DEF InLine
<1>9. \A i \in 1 .. Len(r), j \in 1 .. Len(t) : r[i] < t[j]
  BY <1>3, <1>8
<1>10. Between(s[1], t, high)
  <2>1. \A j \in 1 .. Len(t) : s[1] < t[j]
    BY <1>1, <1>8
  <2>. QED  BY <2>1 DEF InLine, Between
<1>11. InLine(low, r, t, high) /\ InLine(s[1], r, t, high)
  <2>1. low <= high /\ Increasing(t) /\ Between(low, t, high)
    BY DEF InLine
  <2>. QED  BY <1>4, <1>6, <1>7, <1>9, <1>10, <2>1 DEF InLine
<1>. QED  BY <1>1, <1>4, <1>11 DEF r

LEMMA InLineSwap ==
    ASSUME NEW low, NEW high, NEW t, InLine(low, <<>>, t, high)
    PROVE  InLine(low, t, <<>>, high)
BY DEF InLine, Increasing, Between

LEMMA InLineSwapBack ==
    ASSUME NEW low, NEW high, NEW t, InLine(low, t, <<>>, high)
    PROVE  InLine(low, <<>>, t, high)
BY DEF InLine, Increasing, Between

LEMMA InLineAfterRing ==
    ASSUME NEW low \in Nat, NEW high \in Nat, NEW t \in Seq(Nat),
           t # <<>>, InLine(low, <<>>, t, high)
    PROVE  /\ Head(t) \in Nat /\ low < Head(t)
           /\ InLine(low, <<>>, Tail(t), high) /\ InLine(Head(t), <<>>, Tail(t), high)
<1>1. <<>> \in Seq(Nat)
  OBVIOUS
<1>2. InLine(low, t, <<>>, high)
  BY InLineSwap
<1>3. /\ Head(t) \in Nat /\ low < Head(t)
      /\ InLine(low, Tail(t), <<>>, high) /\ InLine(Head(t), Tail(t), <<>>, high)
  BY <1>1, <1>2, InLineAfterBatch
<1>. QED  BY <1>3, InLineSwapBack

LEMMA InLineInBatch ==
    ASSUME NEW low \in Nat, NEW high \in Nat, NEW t \in Seq(Nat), NEW b \in 0 .. Len(t),
           InLine(low, <<>>, t, high)
    PROVE  InLine(low, SubSeq(t, 1, b), SubSeq(t, b + 1, Len(t)), high)
<1> DEFINE u == SubSeq(t, 1, b)
           v == SubSeq(t, b + 1, Len(t))
<1>1. /\ Len(u) = b /\ \A i \in 1 .. b : u[i] = t[i]
      /\ Len(v) = Len(t) - b /\ \A i \in 1 .. Len(t) - b : v[i] = t[b + i]
  BY BatchSplitsRing
<1>2. Len(t) \in Nat /\ b \in Nat /\ b <= Len(t)
  OBVIOUS
<1>3. /\ \A i \in 1 .. b : i \in 1 .. Len(t)
      /\ \A i \in 1 .. Len(t) - b : b + i \in 1 .. Len(t) /\ i \in Nat
  BY <1>2
<1> HIDE DEF u, v
<1>4. Increasing(u) /\ Between(low, u, high)
  BY <1>1, <1>3 DEF InLine, Increasing, Between
<1>5. Increasing(v) /\ Between(low, v, high)
  <2>1. ASSUME NEW i \in 1 .. Len(t) - b, NEW j \in 1 .. Len(t) - b, i < j
        PROVE  t[b + i] < t[b + j]
    BY <1>2, <1>3, <2>1 DEF InLine, Increasing
  <2>2. ASSUME NEW i \in 1 .. Len(t) - b
        PROVE  low < t[b + i] /\ t[b + i] <= high
    BY <1>3 DEF InLine, Between
  <2>3. 1 .. Len(v) = 1 .. Len(t) - b
    BY <1>1
  <2>4. Increasing(v)
    BY <1>1, <2>1, <2>3 DEF Increasing
  <2>5. Between(low, v, high)
    BY <1>1, <2>2, <2>3 DEF Between
  <2>. QED  BY <2>4, <2>5
<1>6. \A i \in 1 .. Len(u), j \in 1 .. Len(v) : u[i] < v[j]
  <2>1. ASSUME NEW i \in 1 .. b, NEW j \in 1 .. Len(t) - b
        PROVE  t[i] < t[b + j]
    BY <1>2, <1>3 DEF InLine, Increasing
  <2>. QED  BY <1>1, <2>1
<1>. QED  BY <1>4, <1>5, <1>6 DEF InLine, u, v

LEMMA InLineWithOneMore ==
    ASSUME NEW low \in Nat, NEW high \in Nat, NEW s \in Seq(Nat), NEW t \in Seq(Nat),
           InLine(low, s, t, high)
    PROVE  InLine(low, s, Append(t, high + 1), high + 1)
<1> DEFINE u == Append(t, high + 1)
           n == Len(t)
<1>1. /\ n \in Nat /\ Len(u) = n + 1 /\ u[n + 1] = high + 1
      /\ \A i \in 1 .. n : u[i] = t[i] /\ t[i] \in Nat
  OBVIOUS
<1>2. Len(s) \in Nat /\ \A i \in 1 .. Len(s) : s[i] \in Nat
  OBVIOUS
<1>3. \A i \in 1 .. n : t[i] <= high /\ low < t[i]
  BY DEF InLine, Between
<1>4. \A i \in 1 .. Len(s) : s[i] <= high /\ low < s[i]
  BY DEF InLine, Between
<1>5. \A i, j \in 1 .. n : i < j => t[i] < t[j]
  BY DEF InLine, Increasing
<1>6. \A i \in 1 .. Len(s), j \in 1 .. n : s[i] < t[j]
  BY DEF InLine
<1> HIDE DEF u, n
<1>7. \A i \in 1 .. Len(u) : i \in 1 .. n \/ i = n + 1
  BY <1>1
<1>8. Increasing(u)
  <2>1. ASSUME NEW i \in 1 .. Len(u), NEW j \in 1 .. Len(u), i < j
        PROVE  u[i] < u[j]
    <3>1. i \in 1 .. n
      BY <1>1, <2>1
    <3>2. CASE j \in 1 .. n
      <4>1. u[i] = t[i] /\ u[j] = t[j]
        BY <1>1, <3>1, <3>2
      <4>2. t[i] < t[j]
        BY <1>5, <2>1, <3>1, <3>2
      <4>. QED  BY <4>1, <4>2
    <3>3. CASE j = n + 1
      <4>1. u[i] = t[i] /\ t[i] \in Nat
        BY <1>1, <3>1
      <4>2. t[i] <= high
        BY <1>3, <3>1
      <4>3. u[j] = high + 1
        BY <1>1, <3>3
      <4>4. \A x \in Nat : x <= high => x < high + 1
        OBVIOUS
      <4>. QED  BY <4>1, <4>2, <4>3, <4>4
    <3>. QED  BY <1>7, <3>2, <3>3
  <2>. QED  BY <2>1 DEF Increasing
<1>9. Between(low, u, high + 1)
  <2>1. ASSUME NEW i \in 1 .. Len(u) PROVE low < u[i] /\ u[i] <= high + 1
    <3>1. CASE i \in 1 .. n
      <4>1. u[i] = t[i] /\ t[i] \in Nat
        BY <1>1, <3>1
      <4>2. t[i] <= high /\ low < t[i]
        BY <1>3, <3>1
      <4>3. \A x \in Nat : x <= high => x <= high + 1
        OBVIOUS
      <4>. QED  BY <4>1, <4>2, <4>3
    <3>2. CASE i = n + 1
      <4>1. low <= high
        BY DEF InLine
      <4>. QED  BY <1>1, <3>2, <4>1
    <3>. QED  BY <1>7, <3>1, <3>2
  <2>. QED  BY <2>1 DEF Between
<1>10. \A i \in 1 .. Len(s), j \in 1 .. Len(u) : s[i] < u[j]
  <2>1. ASSUME NEW i \in 1 .. Len(s), NEW j \in 1 .. Len(u) PROVE s[i] < u[j]
    <3>1. CASE j \in 1 .. n
      BY <1>1, <1>6, <3>1
    <3>2. CASE j = n + 1
      <4>1. s[i] \in Nat /\ s[i] <= high
        BY <1>2, <1>4
      <4>2. u[j] = high + 1
        BY <1>1, <3>2
      <4>. QED  BY <4>1, <4>2
    <3>. QED  BY <1>7, <3>1, <3>2
  <2>. QED  BY <2>1
<1>11. Between(low, s, high + 1)
  BY <1>2, <1>4 DEF Between
<1>. QED  BY <1>8, <1>9, <1>10, <1>11 DEF InLine, u

LEMMA OrderedTypes ==
    ASSUME SenderAssumption, Typed
    PROVE  /\ last.frame \in Nat /\ last.index \in Int /\ frame_index \in Nat /\ made \in Nat
           /\ rb \in Seq(Nat) /\ frames_to_send \in Seq(Nat) /\ rb \in Seq(1 .. MaxFrames)
<1>1. MaxFrames \in Nat
  BY DEF SenderAssumption
<1>2. last \in [frame : 0 .. MaxFrames, index : Int] /\ frame_index \in Nat /\ made \in Nat
  BY <1>1 DEF Typed, Numbers, Queues, Packet
<1>3. last.frame \in Nat /\ last.index \in Int
  BY <1>1, <1>2
<1>4. rb \in Seq(1 .. MaxFrames) /\ frames_to_send \in Seq(1 .. MaxFrames)
  BY DEF Typed, Queues
<1>5. rb \in Seq(Nat) /\ frames_to_send \in Seq(Nat)
  BY <1>4
<1>. QED  BY <1>2, <1>3, <1>4, <1>5

(* A packet of frame f was pushed, or push_frame failed.                   *)
Pushed(f) == last' = last \/ last' = [frame |-> f, index |-> frame_index]

LEMMA FrameIndexGrows ==
    ASSUME SenderAssumption, Typed, [Next]_senderVars
    PROVE  frame_index' \in Nat /\ frame_index' >= frame_index
<1>1. frame_index \in Nat
  BY DEF Typed, Numbers
<1>2. CASE Pace
  <2>1. CASE clock < expected_send_time
    BY <1>1, <1>2, <2>1 DEF Pace
  <2>2. CASE ~ (clock < expected_send_time)
    <3> DEFINE late == clock - expected_send_time
    <3>1. late \in Nat
      BY <2>2, LateFrames DEF Typed
    <3>2. frame_index' = frame_index + late
      BY <1>2, <2>2 DEF Pace, Advanced
    <3> HIDE DEF late
    <3>. QED  BY <1>1, <3>1, <3>2
  <2>. QED  BY <2>1, <2>2
<1>3. CASE ConsumeOne \/ Send
  <2>1. frame_index' = frame_index \/ frame_index' = frame_index + 1
    BY <1>3, Zenon DEF ConsumeOne, Send, Advanced, streamVars
  <2>. QED  BY <1>1, <2>1
<1>4. CASE Sent \/ Tick \/ UNCHANGED <<clock, frame_index, timestamp, current_advance_frames>>
  <2>1. frame_index' = frame_index
    BY <1>4, Zenon DEF Sent, Tick, streamVars
  <2>. QED  BY <1>1, <2>1
<1>. QED  BY <1>2, <1>3, <1>4, WhoMovesNumbers

LEMMA OrderedStep ==
    ASSUME SenderAssumption, Typed, Ordered, [Next]_senderVars
    PROVE  Ordered' /\ (last' # last => last'.frame > last.frame /\ last'.index > last.index)
<1> DEFINE Later == last' # last => last'.frame > last.frame /\ last'.index > last.index
<1>0. /\ last.frame \in Nat /\ last.index \in Int /\ frame_index \in Nat /\ made \in Nat
      /\ rb \in Seq(Nat) /\ frames_to_send \in Seq(Nat) /\ rb \in Seq(1 .. MaxFrames)
  BY OrderedTypes
<1>1. CASE Flush
  <2>1. /\ rb' = rb \/ (rb # <<>> /\ rb' = Tail(rb))
        /\ pc = "flush" /\ UNCHANGED <<frames_to_send, made, last, frame_index>>
    BY <1>1, Zenon DEF Flush, Goto, streamVars
  <2>2. frames_to_send = <<>>
    BY <2>1 DEF Ordered
  <2>3. InLine(last.frame, <<>>, rb, made)
    BY <2>2 DEF Ordered
  <2>4. InLine(last.frame, <<>>, rb', made)
    <3>1. CASE rb' = rb
      BY <2>3, <3>1
    <3>2. CASE rb # <<>> /\ rb' = Tail(rb)
      BY <1>0, <2>3, <3>2, InLineAfterRing
    <3>. QED  BY <2>1, <3>1, <3>2
  <2>. QED  BY <2>1, <2>2, <2>4 DEF Ordered
<1>2. CASE Fill
  <2>1. pc = "fill" /\ frames_to_send = <<>> /\ UNCHANGED <<made, last, frame_index>>
    BY <1>2, Zenon DEF Fill, Ordered, streamVars
  <2>2. CASE rb = <<>>
    BY <1>2, <2>1, <2>2, Zenon DEF Fill, Ordered
  <2>3. CASE rb # <<>>
    <3>1. /\ pc' = "send" /\ frames_to_send' = SubSeq(rb, 1, BatchSize)
          /\ rb' = SubSeq(rb, BatchSize + 1, Len(rb))
      BY <1>2, <2>3, Zenon DEF Fill, Goto
    <3>2. BatchSize \in 0 .. Len(rb)
      BY BatchSizeInRange DEF Typed
    <3>3. InLine(last.frame, <<>>, rb, made)
      BY <2>1 DEF Ordered
    <3>4. InLine(last.frame, frames_to_send', rb', made)
      BY <1>0, <3>1, <3>2, <3>3, InLineInBatch
    <3>. QED  BY <2>1, <3>1, <3>4 DEF Ordered
  <2>. QED  BY <2>2, <2>3
<1>3. CASE ConsumeOne
  <2>1. /\ pc = "consume" /\ rb # <<>> /\ rb' = Tail(rb)
        /\ UNCHANGED <<frames_to_send, made>>
        /\ \/ last' = last /\ frame_index' = frame_index
           \/ Pushed(Head(rb)) /\ frame_index' = frame_index + 1
    BY <1>3, Zenon DEF ConsumeOne, streamVars, Push, Pushed, Advanced
  <2>2. frames_to_send = <<>> /\ InLine(last.frame, <<>>, rb, made)
    BY <2>1 DEF Ordered
  <2>3. /\ Head(rb) \in Nat /\ last.frame < Head(rb)
        /\ InLine(last.frame, <<>>, Tail(rb), made) /\ InLine(Head(rb), <<>>, Tail(rb), made)
    BY <1>0, <2>1, <2>2, InLineAfterRing
  <2>4. CASE last' = last
    <3>1. InLine(last'.frame, frames_to_send', rb', made')
      BY <2>1, <2>2, <2>3, <2>4, Zenon
    <3>2. last'.index < frame_index'
      BY <1>0, <2>1, <2>4 DEF Ordered
    <3>. QED  BY <2>1, <2>2, <2>4, <3>1, <3>2, Zenon DEF Ordered
  <2>5. CASE last' = [frame |-> Head(rb), index |-> frame_index] /\ frame_index' = frame_index + 1
    <3>1. last'.frame = Head(rb) /\ last'.index = frame_index
      BY <2>5
    <3>2. InLine(last'.frame, frames_to_send', rb', made')
      BY <2>1, <2>2, <2>3, <3>1, Zenon
    <3>3. last'.index < frame_index' /\ last'.frame > last.frame /\ last'.index > last.index
      BY <1>0, <2>3, <2>5, <3>1 DEF Ordered
    <3>. QED  BY <2>1, <2>2, <3>2, <3>3, Zenon DEF Ordered
  <2>. QED  BY <2>1, <2>4, <2>5 DEF Pushed
<1>4. CASE Send
  <2>1. /\ pc = "send" /\ pc' = pc /\ UNCHANGED <<rb, made>>
        /\ frames_to_send # <<>> /\ frames_to_send' = Tail(frames_to_send)
        /\ \/ last' = last /\ frame_index' = frame_index
           \/ Pushed(Head(frames_to_send)) /\ frame_index' = frame_index + 1
    BY <1>4, Zenon DEF Send, ringVars, Push, Pushed, Advanced
  <2>2. /\ Head(frames_to_send) \in Nat /\ last.frame < Head(frames_to_send)
        /\ InLine(last.frame, Tail(frames_to_send), rb, made)
        /\ InLine(Head(frames_to_send), Tail(frames_to_send), rb, made)
    BY <1>0, <2>1, InLineAfterBatch DEF Ordered
  <2>3. CASE last' = last
    <3>1. InLine(last'.frame, frames_to_send', rb', made')
      BY <2>1, <2>2, <2>3, Zenon
    <3>2. last'.index < frame_index'
      BY <1>0, <2>1, <2>3 DEF Ordered
    <3>. QED  BY <2>1, <2>3, <3>1, <3>2, Zenon DEF Ordered
  <2>4. CASE /\ last' = [frame |-> Head(frames_to_send), index |-> frame_index]
             /\ frame_index' = frame_index + 1
    <3>1. last'.frame = Head(frames_to_send) /\ last'.index = frame_index
      BY <2>4
    <3>2. InLine(last'.frame, frames_to_send', rb', made')
      BY <2>1, <2>2, <3>1, Zenon
    <3>3. last'.index < frame_index' /\ last'.frame > last.frame /\ last'.index > last.index
      BY <1>0, <2>2, <2>4, <3>1 DEF Ordered
    <3>. QED  BY <2>1, <3>2, <3>3, Zenon DEF Ordered
  <2>. QED  BY <2>1, <2>3, <2>4 DEF Pushed
<1>5. CASE Produce
  <2>1. /\ made' = made + 1 /\ rb' = Append(rb, made + 1)
        /\ UNCHANGED <<pc, frames_to_send, last, frame_index>>
    BY <1>5, Zenon DEF Produce, streamVars
  <2>2. InLine(last.frame, frames_to_send, rb', made')
    BY <1>0, <2>1, InLineWithOneMore DEF Ordered
  <2>. QED  BY <2>1, <2>2 DEF Ordered
<1>6. CASE UNCHANGED <<rb, frames_to_send, made, last>>
  <2>1. frame_index' \in Nat /\ frame_index' >= frame_index
    BY FrameIndexGrows
  <2>2. last'.index < frame_index'
    BY <1>0, <1>6, <2>1 DEF Ordered
  <2>3. pc' # "send" => frames_to_send' = <<>>
    BY <1>6, WhoMovesPc DEF Ordered, Sent
  <2>. QED  BY <1>6, <2>2, <2>3 DEF Ordered
<1>. QED  BY <1>1, <1>2, <1>3, <1>4, <1>5, <1>6, WhoMovesFrames

-----------------------------------------------------------------------------
LEMMA SenderInitially ==
    ASSUME SenderAssumption, Init
    PROVE  SenderInv
<1>1. Flags
  BY Zenon DEF Init, Flags
<1>2. Control
  BY DEF Init, Control, Labels, SenderAssumption
<1>3. Numbers
  BY DEF Init, Numbers, SenderAssumption
<1>4. Queues
  <2>1. <<>> \in Seq(1 .. MaxFrames) /\ Len(<<>>) = 0
    OBVIOUS
  <2>2. [frame |-> 0, index |-> -1] \in Packet
    BY DEF Packet, SenderAssumption
  <2>. QED  BY <2>1, <2>2 DEF Init, Queues, SenderAssumption
<1>5. Window
  BY DEF Init, Window, SenderAssumption
<1>6. TimestampFollowsIndex
  <2>1. FirstTimestamp % TimestampRange = FirstTimestamp
    BY DEF SenderAssumption
  <2>2. FirstTimestamp + 0 * FrameSize = FirstTimestamp
    BY DEF SenderAssumption
  <2>. QED  BY <2>1, <2>2 DEF Init, TimestampFollowsIndex, Stamped
<1>7. Ordered
  <2>1. last.frame = 0 /\ last.index = -1
    BY DEF Init
  <2>. QED  BY <2>1 DEF Init, Ordered, InLine, Increasing, Between
<1>. QED  BY <1>1, <1>2, <1>3, <1>4, <1>5, <1>6, <1>7 DEF SenderInv, Typed

LEMMA SenderSteps ==
    ASSUME SenderAssumption, SenderInv, [Next]_senderVars
    PROVE  /\ SenderInv'
           /\ last' # last => last'.frame > last.frame /\ last'.index > last.index
BY TypedStep, WindowStep, TimestampStep, OrderedStep DEF SenderInv

LEMMA SenderInvImplies ==
    ASSUME SenderAssumption, SenderInv
    PROVE  SenderTypeOK /\ LeadIsBounded /\ TimestampFollowsIndex
<1>1. LeadIsBounded /\ TimestampFollowsIndex
  BY DEF SenderInv, Window, LeadIsBounded
<1>2. SenderTypeOK
  BY Zenon DEF SenderInv, Typed, Flags, Control, Numbers, Queues, SenderTypeOK
<1>. QED  BY <1>1, <1>2

(* For every ring, window, frame size and timestamp range: the types hold, *)
(* the stream is at most two windows ahead of the clock, and the timestamp *)
(* is the first one plus the frames of the index, modulo its field         *)
(* (AudioSender_sender.cpp:62-279).                                        *)
THEOREM SenderSafe == Spec => [](SenderTypeOK /\ LeadIsBounded /\ TimestampFollowsIndex)
<1>1. Init => SenderInv
  BY SenderInitially, SenderAssumption
<1>2. SenderInv /\ [Next]_senderVars => SenderInv'
  BY SenderSteps, SenderAssumption
<1>3. SenderInv => SenderTypeOK /\ LeadIsBounded /\ TimestampFollowsIndex
  BY SenderInvImplies, SenderAssumption
<1>. QED  BY <1>1, <1>2, <1>3, PTL DEF Spec

(* Whatever is flushed, left out or fails, every packet that leaves is of  *)
(* a later frame and a later index than the packet before it.              *)
THEOREM SenderKeepsOrder == Spec => SentInOrder
<1> DEFINE Later == last' # last => last'.frame > last.frame /\ last'.index > last.index
<1>1. Init => SenderInv
  BY SenderInitially, SenderAssumption
<1>2. SenderInv /\ [Next]_senderVars => SenderInv'
  BY SenderSteps, SenderAssumption
<1>3. SenderInv /\ [Next]_senderVars => [Later]_senderVars
  BY SenderSteps, SenderAssumption
<1>. QED  BY <1>1, <1>2, <1>3, PTL DEF Spec, SentInOrder

(* Two of them by themselves.  Frame counts, times and labels keep to      *)
(* their kinds and bounds (AudioSender_sender.cpp:22-279).                 *)
THEOREM SenderTypes == Spec => []SenderTypeOK
  BY SenderSafe, PTL

(* After any frames, failures, pauses and flushes the RTP timestamp is the *)
(* one the frame index stands for (AudioSender_sender.cpp:120-279).        *)
THEOREM SenderTimestamps == Spec => []TimestampFollowsIndex
  BY SenderSafe, PTL
=============================================================================
