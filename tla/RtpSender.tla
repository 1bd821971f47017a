----------------------------- MODULE RtpSender -----------------------------
(***************************************************************************)
(* AudioSender::start_sender: it takes the encoded frames the decoder puts *)
(* into the ring buffer and sends them over RTP, ahead of the clock by a   *)
(* few frames, while the handlers pause, seek and stop.                    *)
(*                                                                         *)
(* Time is counted in frames of 40 ms: expected_send_time is always a      *)
(* whole number of frames after start_time, so that only the number of     *)
(* whole frames that have passed matters.                                  *)
(***************************************************************************)
EXTENDS Integers, Sequences

CONSTANTS
    Capacity,        \* of the ring buffer, 25 in the code
    MinAdvance,      \* MIN_ADVANCE_FRAMES
    MaxAdvance,      \* MAX_ADVANCE_FRAMES
    FrameSize,       \* OPUS_RTP_FRAMESIZE
    TimestampRange,  \* 2^32 in the code
    FirstTimestamp,  \* main_stream_timestamp_
    MaxFrames,       \* bound on the frames the decoder makes
    MaxTime,         \* bound on the time that passes while nobody waits for it
    MaxRequests      \* bound on the requests

ASSUME SenderAssumption ==
    /\ {Capacity, FrameSize, TimestampRange} \subseteq Nat \ {0}
    /\ {MaxFrames, MaxTime, MaxRequests} \subseteq Nat
    /\ MinAdvance \in Nat /\ MaxAdvance \in Nat /\ 1 <= MinAdvance /\ MinAdvance <= MaxAdvance
    /\ FirstTimestamp \in 0 .. TimestampRange - 1

VARIABLES
    pc,                    \* where the sender is
    waiting,               \* it is suspended on EventStateUpdate
    EventStateUpdate,
    play_state,
    do_empty_ring_buffer,
    rb, rbClosed,          \* the ring buffer; notify_waiters was called
    frames_to_send,
    clock,                 \* frames since start_time
    frame_index, timestamp, current_advance_frames,
    isStopped,
    handler,               \* where the handler is in its request
    made, requests,        \* frames and requests so far
    last                   \* history: the last packet sent, its frame and index

streamVars  == <<frame_index, timestamp, current_advance_frames>>
ringVars    == <<rb, rbClosed, made>>
stateVars   == <<waiting, EventStateUpdate, play_state, do_empty_ring_buffer>>
handlerVars == <<isStopped, handler, requests>>
senderVars  == <<pc, stateVars, ringVars, frames_to_send, clock, streamVars, handlerVars, last>>

Init ==
    /\ pc = "top"
    /\ waiting = FALSE
    /\ EventStateUpdate = FALSE
    /\ play_state = "PLAYING"
    /\ do_empty_ring_buffer = FALSE
    /\ rb = <<>>
    /\ rbClosed = FALSE
    /\ frames_to_send = <<>>
    /\ clock = 0
    /\ frame_index = 0
    /\ timestamp = FirstTimestamp
    /\ current_advance_frames = MinAdvance
    /\ isStopped = FALSE
    /\ handler = "idle"
    /\ made = 0
    /\ requests = 0
    /\ last = [frame |-> 0, index |-> -1]

-----------------------------------------------------------------------------
(* The sender: pause, flush, pace, then one frame or a batch of them.      *)
Goto(label) == pc' = label

CheckPause ==
    /\ pc = "top"
    /\ Goto(IF play_state = "PAUSE" THEN "pause" ELSE "flush?")
    /\ UNCHANGED <<stateVars, ringVars, frames_to_send, clock, streamVars, handlerVars, last>>

AwaitStateBlindly ==
    /\ pc = "pause"
    /\ waiting' = TRUE
    /\ Goto("woken")
    /\ UNCHANGED <<EventStateUpdate, play_state, do_empty_ring_buffer, ringVars,
                   frames_to_send, clock, streamVars, handlerVars, last>>

AwaitState ==
    /\ pc = "pause"
    /\ waiting' = ~EventStateUpdate
    /\ Goto("woken")
    /\ UNCHANGED <<EventStateUpdate, play_state, do_empty_ring_buffer, ringVars,
                   frames_to_send, clock, streamVars, handlerVars, last>>

Woken ==
    /\ pc = "woken"
    /\ ~waiting
    /\ EventStateUpdate' = FALSE
    /\ Goto("top")
    /\ UNCHANGED <<waiting, play_state, do_empty_ring_buffer, ringVars, frames_to_send,
                   clock, streamVars, handlerVars, last>>

CheckFlush ==
    /\ pc = "flush?"
    /\ Goto(IF do_empty_ring_buffer THEN "flush" ELSE "pace")
    /\ UNCHANGED <<stateVars, ringVars, frames_to_send, clock, streamVars, handlerVars, last>>

Flush ==
    /\ pc = "flush"
    /\ IF rb = <<>>
         THEN Goto("flushed") /\ UNCHANGED rb
         ELSE rb' = Tail(rb) /\ UNCHANGED pc
    /\ UNCHANGED <<stateVars, rbClosed, made, frames_to_send, clock, streamVars,
                   handlerVars, last>>

Flushed ==
    /\ pc = "flushed"
    /\ do_empty_ring_buffer' = FALSE
    /\ Goto("pace")
    /\ UNCHANGED <<waiting, EventStateUpdate, play_state, ringVars, frames_to_send, clock,
                   streamVars, handlerVars, last>>

StampedUnwrapped(stamp, frames) == stamp + frames * FrameSize

expected_send_time == frame_index - current_advance_frames
Advanced(index, frames) == index + frames
Stamped(stamp, frames) == (stamp + frames * FrameSize) % TimestampRange

PaceWithoutTimestamp ==
    /\ pc = "pace"
    /\ IF clock < expected_send_time
         THEN Goto("sleep") /\ UNCHANGED frame_index
         ELSE Goto("fill") /\ frame_index' = clock + current_advance_frames
    /\ UNCHANGED <<stateVars, ringVars, frames_to_send, clock, timestamp,
                   current_advance_frames, handlerVars, last>>

\* Ahead of time the sender sleeps; behind it, it leaves out the frames it
\* should have sent.
Pace ==
    /\ pc = "pace"
    /\ IF clock < expected_send_time
         THEN Goto("sleep") /\ UNCHANGED <<frame_index, timestamp>>
         ELSE LET frames_late == clock - expected_send_time
              IN  /\ frame_index' = Advanced(frame_index, frames_late)
                  /\ timestamp' = Stamped(timestamp, frames_late)
                  /\ Goto("fill")
    /\ UNCHANGED <<stateVars, ringVars, frames_to_send, clock, current_advance_frames,
                   handlerVars, last>>

WakeAtOnce ==
    /\ pc = "sleep"
    /\ Goto("fill")
    /\ UNCHANGED <<stateVars, ringVars, frames_to_send, clock, streamVars, handlerVars, last>>

Wake ==
    /\ pc = "sleep"
    /\ clock >= expected_send_time
    /\ Goto("fill")
    /\ UNCHANGED <<stateVars, ringVars, frames_to_send, clock, streamVars, handlerVars, last>>

\* Nobody else consumes: the frames that are there when the batch is measured
\* are there when it is taken.
BatchSize == IF Len(rb) < current_advance_frames THEN Len(rb) ELSE current_advance_frames

FillLeavesLastFrame ==
    /\ pc = "fill"
    /\ IF rb = <<>>
         THEN Goto("consume") /\ UNCHANGED <<rb, frames_to_send>>
         ELSE /\ frames_to_send' = SubSeq(rb, 1, BatchSize)
              /\ rb' = SubSeq(rb, BatchSize, Len(rb))
              /\ Goto("send")
    /\ UNCHANGED <<stateVars, rbClosed, made, clock, streamVars, handlerVars, last>>

Fill ==
    /\ pc = "fill"
    /\ IF rb = <<>>
         THEN Goto("consume") /\ UNCHANGED <<rb, frames_to_send>>
         ELSE /\ frames_to_send' = SubSeq(rb, 1, BatchSize)
              /\ rb' = SubSeq(rb, BatchSize + 1, Len(rb))
              /\ Goto("send")
    /\ UNCHANGED <<stateVars, rbClosed, made, clock, streamVars, handlerVars, last>>

\* The moving average of the time sending took: too long, short enough, or
\* neither.
Adjusted(advance) ==
    {IF advance > MinAdvance THEN advance - 1 ELSE MinAdvance,
     advance,
     IF advance < MaxAdvance THEN advance + 1 ELSE MaxAdvance}

\* push_frame may fail; a failed packet was not sent.
Push(frame) == last' \in {last, [frame |-> frame, index |-> frame_index]}

\* An empty ring: wait for one frame and send it, whatever push_frame returns;
\* a closed ring, or the last frame after a stop, ends the sender.
ConsumeOne ==
    /\ pc = "consume"
    /\ rb # <<>>
    /\ rb' = Tail(rb)
    /\ IF isStopped /\ rb' = <<>>
         THEN Goto("exit") /\ UNCHANGED <<streamVars, last>>
         ELSE /\ Push(Head(rb))
              /\ timestamp' = Stamped(timestamp, 1)
              /\ frame_index' = Advanced(frame_index, 1)
              /\ current_advance_frames' \in Adjusted(current_advance_frames)
              /\ Goto("top")
    /\ UNCHANGED <<stateVars, rbClosed, made, frames_to_send, clock, handlerVars>>

ConsumeClosed ==
    /\ pc = "consume"
    /\ rb = <<>> /\ rbClosed
    /\ Goto("exit")
    /\ UNCHANGED <<stateVars, ringVars, frames_to_send, clock, streamVars, handlerVars, last>>

\* In a batch a failed packet leaves its timestamp to the next one.
Send ==
    /\ pc = "send"
    /\ frames_to_send # <<>>
    /\ frames_to_send' = Tail(frames_to_send)
    /\ Push(Head(frames_to_send))
    /\ IF last' = last
         THEN UNCHANGED <<frame_index, timestamp>>
         ELSE /\ timestamp' = Stamped(timestamp, 1)
              /\ frame_index' = Advanced(frame_index, 1)
    /\ UNCHANGED <<pc, stateVars, ringVars, clock, current_advance_frames, handlerVars>>

Sent ==
    /\ pc = "send"
    /\ frames_to_send = <<>>
    /\ current_advance_frames' \in Adjusted(current_advance_frames)
    /\ Goto("top")
    /\ UNCHANGED <<stateVars, ringVars, frames_to_send, clock, frame_index, timestamp,
                   handlerVars, last>>

SenderStep ==
    \/ CheckPause \/ AwaitState \/ Woken \/ CheckFlush \/ Flush \/ Flushed \/ Pace \/ Wake \/ Fill
    \/ ConsumeOne \/ ConsumeClosed \/ Send \/ Sent

-----------------------------------------------------------------------------
(* The world around it.                                                    *)
\* encode_opus_frame: rb.produce, which waits while the ring is full.
Produce ==
    /\ made < MaxFrames
    /\ Len(rb) < Capacity
    /\ made' = made + 1
    /\ rb' = Append(rb, made')
    /\ UNCHANGED <<pc, stateVars, rbClosed, frames_to_send, clock, streamVars, handlerVars, last>>

Tick ==
    /\ clock < MaxTime \/ (pc = "sleep" /\ clock < expected_send_time)
    /\ clock' = clock + 1
    /\ UNCHANGED <<pc, stateVars, ringVars, frames_to_send, streamVars, handlerVars, last>>

otherVars == <<pc, ringVars, frames_to_send, clock, streamVars, last>>

Request(label) ==
    /\ handler = "idle"
    /\ requests < MaxRequests
    /\ requests' = requests + 1
    /\ handler' = label

\* switchPlayState: the state, then the event.
switchPlayState ==
    /\ Request("switch")
    /\ play_state' \in {"PLAYING", "PAUSE"}
    /\ UNCHANGED <<waiting, EventStateUpdate, do_empty_ring_buffer, isStopped, otherVars>>

seekSecond ==
    /\ Request("idle")
    /\ do_empty_ring_buffer' = TRUE
    /\ UNCHANGED <<waiting, EventStateUpdate, play_state, isStopped, otherVars>>

\* cleanupJob sets isStopped, clean_up then the state, the event and the ring.
cleanupJob ==
    /\ Request("clean_up")
    /\ ~isStopped
    /\ isStopped' = TRUE
    /\ UNCHANGED <<stateVars, otherVars>>

clean_upKeepsPause ==
    /\ handler = "clean_up"
    /\ handler' = "signal"
    /\ UNCHANGED <<stateVars, isStopped, requests, otherVars>>

clean_up ==
    /\ handler = "clean_up"
    /\ play_state' = "PLAYING"
    /\ handler' = "signal"
    /\ UNCHANGED <<waiting, EventStateUpdate, do_empty_ring_buffer, isStopped, requests, otherVars>>

\* EventStateUpdate.set(): a waiting sender is resumed.
Signal ==
    /\ handler \in {"switch", "signal"}
    /\ EventStateUpdate' = TRUE
    /\ waiting' = FALSE
    /\ handler' = IF handler = "signal" THEN "notify" ELSE "idle"
    /\ UNCHANGED <<play_state, do_empty_ring_buffer, isStopped, requests, otherVars>>

notify_waiters ==
    /\ handler = "notify"
    /\ rbClosed' = TRUE
    /\ handler' = "idle"
    /\ UNCHANGED <<pc, stateVars, rb, made, frames_to_send, clock, streamVars, isStopped,
                   requests, last>>

HandlerStep == clean_up \/ Signal \/ notify_waiters

Next == SenderStep \/ HandlerStep \/ Produce \/ Tick \/ switchPlayState \/ seekSecond \/ cleanupJob

Spec == Init /\ [][Next]_senderVars

(* The scheduler runs the sender when it can go on, time passes, a request *)
(* that has begun is carried out.  No frame and no request has to come.    *)
FairSpec ==
    /\ Spec
    /\ WF_senderVars(SenderStep) /\ WF_senderVars(HandlerStep) /\ WF_senderVars(Tick)
-----------------------------------------------------------------------------
Labels == {"top", "pause", "woken", "flush?", "flush", "flushed", "pace", "sleep", "fill",
           "consume", "send", "exit"}
Packet == [frame : 0 .. MaxFrames, index : Int]

\* Every variable keeps its type; above all the timestamp fits its field and
\* the window its limits.
SenderTypeOK ==
    /\ pc \in Labels
    /\ {waiting, EventStateUpdate, do_empty_ring_buffer, rbClosed, isStopped} \subseteq BOOLEAN
    /\ play_state \in {"PLAYING", "PAUSE"}
    /\ rb \in Seq(1 .. MaxFrames) /\ Len(rb) <= Capacity
    /\ frames_to_send \in Seq(1 .. MaxFrames) /\ Len(frames_to_send) <= MaxAdvance
    /\ {clock, frame_index} \subseteq Nat
    /\ timestamp \in 0 .. TimestampRange - 1
    /\ current_advance_frames \in MinAdvance .. MaxAdvance
    /\ handler \in {"idle", "switch", "clean_up", "signal", "notify"}
    /\ made \in 0 .. MaxFrames
    /\ requests \in 0 .. MaxRequests
    /\ last \in Packet

\* Whatever pauses, gaps and adjustments came before, the stream is never ahead
\* of the clock by more than two windows, the one granted by
\* expected_send_time and the batch sent in it (AudioSender_sender.cpp:78-100,
\* 184): what a receiver has to buffer is bounded.
LeadIsBounded == frame_index <= clock + 2 * MaxAdvance

\* Timestamp and frame index move together, also over frames left out and
\* packets that failed (AudioSender_sender.cpp:97-98, 134-135, 220-221).
TimestampFollowsIndex == timestamp = Stamped(FirstTimestamp, frame_index)

\* Packets leave in the order their frames were made, none twice, each with a
\* later timestamp than the one before it.
SentInOrder ==
    [][last' # last => last'.frame > last.frame /\ last'.index > last.index]_senderVars

\* Once the stream is left playing the ring is emptied: no wake-up is
\* lost between the test of play_state, co_await EventStateUpdate and reset
\* (AudioSender_sender.cpp:64-68, AudioSender_control.cpp:205-206).
RingDrains ==
    <>[](play_state = "PLAYING") => []<>(rb = <<>> \/ pc = "exit")

\* A stop ends the sender wherever it is, paused, waiting for a frame or in a
\* batch, unless a pause is requested after the stop
\* (AudioSender_control.cpp:191-198, DownloadManager_utils.cpp:24).
PausedAfterStop == isStopped /\ handler = "switch" /\ play_state = "PAUSE"
StopEndsSender == <>isStopped => <>(pc = "exit" \/ PausedAfterStop)
=============================================================================
