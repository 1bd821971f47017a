----------------------------- MODULE AudioPath -----------------------------
(***************************************************************************)
(* The way of the sound: from curl's write callback through the task's     *)
(* buffer, the readers under the decoders, a decoder, the conversion of    *)
(* samples and the framing for opus.                                       *)
(*                                                                         *)
(* A song is the units 1 .. SongSize of compressed data; a unit decodes to *)
(* one sample of every channel.  ctl appears with the events that feed the *)
(* decoder; what the coroutines wait for is the matter of StreamPipeline.  *)
(* While a song is downloaded, a fixed buffer is read no faster than it is *)
(* filled.  A song has one channel or two.                                 *)
(*                                                                         *)
(* Behind three steps nothing is said any more, and the stage is "astray": *)
(* a song that starts with the decoder still fed or opened by the one      *)
(* before it, samples read while their format is not known, and a frame of *)
(* fewer samples than are kept back for it.                                *)
(***************************************************************************)
EXTENDS AudioUtils, FiniteSets, SequencesExt

CONSTANTS
    Formats,        \* the songs: how they are kept, what decodes them, and their sound
    SongSize,       \* units of a song
    MaxSongs,       \* bound on songs
    MaxChunk,       \* FIXED_CHUNK_SIZE
    FlushSize,      \* 32 KB: more is moved to the decoder's queue
    QueueLimit,     \* 5 MB: a longer queue takes no more
    OpenSize,       \* 16384 * 30: so much is there before the format is asked for
    AvioSize,       \* what a decoder takes from its reader at a time
    ReadSize,       \* MAX_DECODE_SIZE, in units
    OpusFrame,      \* OPUS_FRAMESIZE
    EncodedSizes,   \* sizes of an encoded frame
    Volumes,        \* what clients set the volume to
    MaxDisturbances,    \* bound on requests and on failures of ffmpeg and opus
    Stale           \* what lies in memory behind the samples

ASSUME AudioPathAssumption ==
    /\ {SongSize, MaxSongs, MaxChunk, FlushSize, QueueLimit, OpenSize, AvioSize, ReadSize,
        OpusFrame, MaxDisturbances} \subseteq Nat
    /\ 0 \notin {AvioSize, ReadSize, OpusFrame}
    /\ EncodedSizes \subseteq Nat /\ Volumes \subseteq Nat
    /\ Formats \subseteq [wrapper : {"Buffer", "IOBuf"}, container : {"mp3", "mov", "other"},
                          packet : Nat \ {0}, encoding : {"S16", "S32", "FLT", "other"},
                          channels : {1, 2}, rate : Nat \ {0}, capacity : Nat]

\* A song's samples are numbered apart; the decoders deliver samples of 16 bits, so the numbers
\* must be such samples too.
ASSUME SamplesFit == \A f \in Formats : f.channels * SongSize <= MaxSample - MinSample

VARIABLES
    stage,      \* where start_producer is
    format,     \* of the task in hand
    item,       \* ExtendedTaskItem: data, iobuf_write_queue, state; curl's side of it
    wrapper,    \* data_wrapper: pos_ and is_eof
    decoder,    \* is it open; has ffmpeg ever known a format; has ctl this song's; err_count
    fed,        \* units the decoder has taken and not decoded
    events,     \* EventFeedDecoder, EventReadFinshed
    pcm,        \* samples of the read in hand that are not encoded
    encoder,    \* encode_opus_frame: running, wantedSamples, temp_buffer, encoded_frame's
                \* size; does this song have samples of one channel
    volume,
    frames,     \* the packets of this song, with the samples they hold
    decoded,    \* history: the samples that were to be heard
    heard,      \* history: units of this song decoded since the last seek
    count       \* songs and disturbances so far; a skip that has still to call doSkip

audioVars == <<stage, format, item, wrapper, decoder, fed, events, pcm, encoder, volume,
               frames, decoded, heard, count>>

NewItem == [arrived |-> 0, data |-> <<>>, write_queue |-> <<>>, paused |-> FALSE,
            cut |-> FALSE, finished |-> FALSE, skipped |-> FALSE]
NoEvents == [feed |-> FALSE, readFinshed |-> FALSE]

AudioInit ==
    /\ stage = "idle"
    /\ format \in Formats
    /\ item = NewItem
    /\ wrapper = [pos |-> 0, is_eof |-> FALSE]
    /\ decoder = [open |-> FALSE, known |-> FALSE, found |-> FALSE, err_count |-> 0]
    /\ fed = <<>> /\ pcm = <<>> /\ frames = <<>> /\ decoded = <<>> /\ heard = <<>>
    /\ events = NoEvents
    /\ encoder = [runs |-> FALSE, wanted |-> 2 * OpusFrame, temp |-> <<>>, size |-> 0,
                  mono |-> FALSE]
    /\ volume = One
    /\ count = [songs |-> 0, disturbances |-> 0, skipping |-> FALSE]

IsStream == format.wrapper = "IOBuf"
IsMpg123 == format.container = "mp3"
Bytes == FlattenSeq(item.data)
Size == Len(Bytes)
HasTask == count.songs > 0 /\ stage # "astray"
Disturbance ==
    /\ count.disturbances < MaxDisturbances
    /\ count' = [count EXCEPT !.disturbances = @ + 1]

Interval(a, b) == [i \in 1 .. b - a + 1 |-> a + i - 1]

-----------------------------------------------------------------------------
(* The download: write_callback and the end of the transfer.               *)
\* insert refuses what does not fit, and nobody looks at its answer.
Inserted(units) ==
    IF Size + Len(units) <= format.capacity THEN <<Bytes \o units>> ELSE item.data

WriteBuffer(units) ==
    /\ ~IsStream
    /\ item' = [item EXCEPT !.arrived = @ + Len(units), !.data = Inserted(units)]

\* The chunks collect in the write queue; then a queue that is too long loses them
\* and pauses the transfer.
WriteStreamUnbounded(units) ==
    LET collected == item.write_queue \o units
    IN /\ IsStream
       /\ item' = [item EXCEPT
            !.arrived = @ + Len(units),
            !.write_queue = IF Len(collected) > FlushSize THEN <<>> ELSE collected,
            !.data = IF Len(collected) > FlushSize THEN Append(@, collected) ELSE @]

WriteStream(units) ==
    LET collected == item.write_queue \o units
        flush == Len(collected) > FlushSize
        full == Size > QueueLimit
    IN /\ IsStream
       /\ item' = [item EXCEPT
            !.arrived = @ + Len(units),
            !.write_queue = IF flush THEN <<>> ELSE collected,
            !.data = IF flush /\ ~full THEN Append(@, collected) ELSE @,
            !.paused = flush /\ full]

write_callback ==
    /\ HasTask /\ ~item.paused /\ ~item.cut /\ ~item.finished
    /\ \E n \in 1 .. MaxChunk :
          /\ item.arrived + n <= SongSize
          /\ LET units == Interval(item.arrived + 1, item.arrived + n)
             IN WriteBuffer(units) \/ WriteStream(units)
    /\ UNCHANGED <<stage, format, wrapper, decoder, fed, events, pcm, encoder, volume, frames,
                   decoded, heard, count>>

\* EventDownloadFinished: all of it has arrived, or the transfer was cancelled.
DownloadFinished ==
    /\ HasTask /\ ~item.finished
    /\ item.cut \/ (item.arrived = SongSize /\ ~item.paused)
    /\ item' = [item EXCEPT !.finished = TRUE]
    /\ UNCHANGED <<stage, format, wrapper, decoder, fed, events, pcm, encoder, volume, frames,
                   decoded, heard, count>>

-----------------------------------------------------------------------------
(* The readers under the decoders.                                         *)
\* What a reader has still to give: a buffer keeps what was read, a queue does not.
Unread == IF IsStream THEN Bytes ELSE SubSeq(Bytes, wrapper.pos + 1, Size)

\* The reader is asked for blocks until the decoder has n units.
Asked(n) ==
    LET missing == IF n > Len(fed) THEN n - Len(fed) ELSE 0
    IN Min({((missing + AvioSize - 1) \div AvioSize) * AvioSize, Len(Unread)})

\* mpg123 on a queue takes no reader, but the first buffer of the queue.
Popped == IsStream /\ IsMpg123

\* What the decoder has for a read of n units.
Input(n) ==
    fed \o IF ~Popped THEN SubSeq(Unread, 1, Asked(n))
           ELSE IF item.data = <<>> THEN <<>> ELSE Head(item.data)

\* The queue and the reader when the decoder has taken it.
Remaining(n) ==
    IF ~IsStream \/ item.data = <<>> THEN item.data
    ELSE IF IsMpg123 THEN Tail(item.data)
    ELSE <<SubSeq(Bytes, Asked(n) + 1, Size)>>

KeepReader(n) == wrapper

MoveReader(n) == [wrapper EXCEPT !.pos = @ + IF Popped THEN 0 ELSE Asked(n)]

Take(n) ==
    /\ item' = [item EXCEPT !.data = Remaining(n)]
    /\ wrapper' = MoveReader(n)

-----------------------------------------------------------------------------
(* The control coroutine.                                                  *)
\* The next task and its data_wrapper.  Samples left over in temp_buffer, and those still
\* being encoded, are played with it.
StartSong ==
    /\ stage = "idle" /\ count.songs < MaxSongs
    /\ format' \in Formats
    /\ stage' = IF events.feed \/ decoder.open THEN "astray" ELSE "probing"
    /\ count' = [count EXCEPT !.songs = @ + 1]
    /\ item' = NewItem
    /\ wrapper' = [pos |-> 0, is_eof |-> FALSE]
    /\ fed' = <<>> /\ heard' = <<>> /\ frames' = <<>>
    /\ decoded' = encoder.temp \o pcm
    /\ encoder' = [encoder EXCEPT !.mono = @ /\ encoder.runs]
    /\ UNCHANGED <<decoder, events, pcm, volume>>

\* The state is no longer Downloading.
Settled == item.finished \/ item.skipped

\* The format is detected; a file of the mov family must be there to its end.  mpg123 is
\* opened, ffmpeg when it is first asked for something.
Setup ==
    /\ stage = "probing"
    /\ Settled \/ Size > 0
    /\ format.container = "mov" => item.finished
    /\ decoder' = [decoder EXCEPT !.open = IsMpg123]
    /\ stage' = "opening"
    /\ UNCHANGED <<format, item, wrapper, fed, events, pcm, encoder, volume, frames, decoded,
                   heard, count>>

\* So much is there that the format can be asked for.
Enough ==
    /\ stage = "opening"
    /\ Settled \/ Size >= OpenSize
    /\ stage' = "asking"
    /\ UNCHANGED <<format, item, wrapper, decoder, fed, events, pcm, encoder, volume, frames,
                   decoded, heard, count>>

\* max_err_count: so many attempts are made before the download has ended.
EarlyAttempts == 3

StartFeeding ==
    /\ events' = [events EXCEPT !.feed = TRUE]
    /\ stage' = IF Settled THEN "eof" ELSE "ticking"

\* getAudioFormat: the decoder reads the head of the song.
OpenSucceeds ==
    /\ fed' = Input(1)
    /\ decoder' = [open |-> TRUE, known |-> decoder.known \/ ~IsMpg123, found |-> TRUE,
                   err_count |-> 0]
    /\ StartFeeding

\* When ffmpeg's initialize_decoder fails it throws away what it has read, and tries again
\* from where the reader stands.
OpenFails == fed' = IF IsMpg123 THEN Input(1) ELSE <<>>

OpenAgain ==
    /\ OpenFails
    /\ decoder.err_count < EarlyAttempts /\ (decoder.known => IsMpg123)
    /\ decoder' = [decoder EXCEPT !.err_count = @ + 1]
    /\ UNCHANGED <<stage, events>>

\* A format ffmpeg has of an earlier song is taken for this one's, and after the last attempt
\* the decoder is fed all the same.
FeedUnopened ==
    /\ OpenFails
    /\ decoder.err_count = EarlyAttempts \/ (decoder.known /\ ~IsMpg123)
    /\ decoder' = [decoder EXCEPT !.err_count = 0]
    /\ StartFeeding

Open ==
    /\ stage = "asking"
    /\ decoder.err_count = EarlyAttempts => item.finished
    /\ Take(1)
    /\ OpenSucceeds \/ OpenAgain \/ FeedUnopened
    /\ UNCHANGED <<format, pcm, encoder, volume, frames, decoded, heard, count>>

\* A stream is fed every two seconds, and once more when its download has ended.
FeedDecoder ==
    /\ stage = "ticking"
    /\ IsStream \/ item.finished
    /\ events' = [events EXCEPT !.feed = TRUE]
    /\ stage' = IF item.finished THEN "eof" ELSE stage
    /\ UNCHANGED <<format, item, wrapper, decoder, fed, pcm, encoder, volume, frames, decoded,
                   heard, count>>

SetEof ==
    /\ stage = "eof"
    /\ wrapper' = [wrapper EXCEPT !.is_eof = TRUE]
    /\ stage' = "playing"
    /\ UNCHANGED <<format, item, decoder, fed, events, pcm, encoder, volume, frames, decoded,
                   heard, count>>

\* The song was read; the decoder is reset.
EndSong ==
    /\ stage = "playing" /\ events.readFinshed
    /\ events' = [events EXCEPT !.readFinshed = FALSE]
    /\ stage' = "idle"
    /\ decoder' = [decoder EXCEPT !.open = FALSE, !.found = FALSE]
    /\ fed' = <<>>
    /\ UNCHANGED <<format, item, wrapper, pcm, encoder, volume, frames, decoded, heard, count>>

ControlStep == Setup \/ Enough \/ Open \/ FeedDecoder \/ SetEof \/ EndSong

-----------------------------------------------------------------------------
(* The decoder coroutine: read, process_audio_frame, encode_opus_frame.    *)
\* While it is downloaded a fixed buffer is read no faster than it is filled.
Ready ==
    IsStream \/ item.cut \/ item.finished \/ wrapper.is_eof \/ Len(fed) + Len(Unread) >= ReadSize

\* Whole packets that are there for this read, and that fit in its output.
Whole(n) == n - (n % format.packet)
Available == Whole(Len(Input(ReadSize)))
Fitting == Whole(ReadSize)

Raw(u, c) == format.channels * (u - 1) + c + MinSample

\* The samples of a unit, as they are in the song.
Values(units) ==
    [k \in 1 .. format.channels * Len(units) |->
        Raw(units[((k - 1) \div format.channels) + 1], ((k - 1) % format.channels) + 1)]

\* What a sample of 16 bits is in the encoding: a 32-bit sample is worth more than one of 16
\* bits, in small; and a float of a song, times 32767, is counted in halves.
Wide == 2
Worth == IF format.encoding = "S32" THEN Wide ELSE IF format.encoding = "FLT" THEN One ELSE 1

\* What the decoder of the encoding gives.
RawSamples(units) == [k \in DOMAIN Values(units) |-> Worth * Values(units)[k]]

\* src_simple: a rate of 1 / format.rate of the target's.  The k-th sample it gives is that of
\* its origin.
Origin(k) ==
    format.channels * (((k - 1) \div format.channels) \div format.rate)
    + ((k - 1) % format.channels) + 1

Resampled(f) == [k \in 1 .. format.rate * Len(f) |-> f[Origin(k)]]

resample_audio(f) == float_to_int16(Resampled(f), volume)

process_audio_frame(raw) ==
    LET f == IF format.encoding = "S16" THEN int16_to_float(raw, One)
             ELSE IF format.encoding = "S32" THEN int32_to_float(raw, One)
             ELSE raw
    IN IF format.rate # 1 THEN resample_audio(f)
       ELSE IF format.encoding # "S16" THEN float_to_int16(f, volume)
       ELSE IF volume # One THEN adjust_int16_volume(raw, volume)
       ELSE raw

\* What the listener is to hear of the units: every sample of the song at its volume.
Reference(units) ==
    LET song == Resampled(Values(units))
    IN [k \in DOMAIN song |-> Scaled(One * song[k], volume)]

Leave(n) == fed' = SubSeq(Input(ReadSize), n + 1, Len(Input(ReadSize)))

\* MPG123_OK: the output is full, with these units.
Full == Available >= ReadSize /\ Fitting = ReadSize
Decoded == SubSeq(Input(ReadSize), 1, ReadSize)

\* Its samples go to the encoder, which asks once how many make a frame.
ReadOk ==
    /\ decoder.found /\ format.encoding # "other" /\ Full
    /\ Take(ReadSize) /\ Leave(ReadSize)
    /\ heard' = heard \o Decoded
    /\ pcm' = process_audio_frame(RawSamples(Decoded))
    /\ decoded' = decoded \o Reference(Decoded)
    /\ encoder' = [encoder EXCEPT !.runs = TRUE, !.size = ReadSize,
                                  !.wanted = OpusFrame * format.channels,
                                  !.mono = @ \/ format.channels = 1]
    /\ UNCHANGED <<stage, events, count>>

\* src_simple fails: the frame is skipped.
ResampleFails ==
    /\ Disturbance
    /\ decoder.found /\ format.encoding # "other" /\ format.rate # 1 /\ Full
    /\ Take(ReadSize) /\ Leave(ReadSize)
    /\ heard' = heard \o Decoded
    /\ UNCHANGED <<stage, events, pcm, encoder, decoded>>

\* Samples nobody can convert: doSkip.
ReadUnsupported ==
    /\ decoder.found /\ format.encoding = "other" /\ Full
    /\ Leave(ReadSize)
    /\ item' = [item EXCEPT !.data = Remaining(ReadSize), !.skipped = TRUE]
    /\ wrapper' = MoveReader(ReadSize)
    /\ events' = [feed |-> FALSE, readFinshed |-> TRUE]
    /\ UNCHANGED <<stage, pcm, encoder, decoded, heard, count>>

\* The format of what was read is not known.
ReadUnknown ==
    /\ ~decoder.found /\ Full
    /\ Take(ReadSize) /\ Leave(ReadSize)
    /\ heard' = heard \o Decoded
    /\ stage' = "astray"
    /\ UNCHANGED <<events, pcm, encoder, decoded, count>>

\* MPG123_ERR: the next packet does not fit in the rest of the output, and is lost.
ReadError ==
    /\ Fitting < ReadSize /\ Available > Fitting
    /\ Take(ReadSize) /\ Leave(Fitting + format.packet)
    /\ events' = [events EXCEPT !.feed = FALSE]
    /\ UNCHANGED <<stage, pcm, encoder, decoded, heard, count>>

\* The input ends first: what this call has decoded so far is lost.
ReadTooLittle ==
    /\ Available <= Fitting /\ Available < ReadSize
    /\ Leave(Available)
    /\ wrapper' = MoveReader(ReadSize)
    /\ UNCHANGED <<stage, pcm, encoder, decoded, heard, count>>

\* A queue is at its end when ctl says so; mpg123 that is fed never learns of it.
AtEnd == ~IsStream \/ (~IsMpg123 /\ wrapper.is_eof)

ReadDone ==
    /\ AtEnd /\ ReadTooLittle
    /\ item' = [item EXCEPT !.data = Remaining(ReadSize)]
    /\ events' = [feed |-> FALSE, readFinshed |-> TRUE]

\* MPG123_NEED_MORE: the transfer is resumed.
ReadNeedMoreOnly ==
    /\ ~AtEnd /\ ReadTooLittle
    /\ item' = [item EXCEPT !.data = Remaining(ReadSize)]
    /\ events' = [events EXCEPT !.feed = FALSE]

ReadNeedMore ==
    /\ ~AtEnd /\ ReadTooLittle
    /\ item' = [item EXCEPT !.data = Remaining(ReadSize), !.paused = FALSE]
    /\ events' = [events EXCEPT !.feed = FALSE]

\* A decoder that is closed: ffmpeg opens what follows in the reader.
Decode ==
    /\ decoder.open \/ ~IsMpg123
    /\ decoder' = [decoder EXCEPT !.open = TRUE, !.known = @ \/ ~IsMpg123]
    /\ \/ ReadOk \/ ResampleFails \/ ReadUnsupported \/ ReadUnknown
       \/ ReadError \/ ReadDone \/ ReadNeedMore

\* MPG123_ERR: mpg123 is closed, and has taken what it was to be fed; or ffmpeg does not open.
ReadClosed ==
    /\ ~decoder.open
    /\ Take(IF IsMpg123 THEN 0 ELSE 1) /\ fed' = <<>>
    /\ events' = [events EXCEPT !.feed = FALSE]
    /\ UNCHANGED <<stage, decoder, pcm, encoder, decoded, heard, count>>

start_consumer ==
    /\ HasTask /\ events.feed /\ ~encoder.runs /\ Ready
    /\ UNCHANGED <<format, volume, frames>>
    /\ Decode \/ ReadClosed

\* opus_encode takes a frame of two channels from where it is pointed to; what it
\* writes is whole when encoded_frame is still that large, and is cut to size then.
Frame(samples, size) ==
    [samples |-> [k \in 1 .. 2 * OpusFrame |-> IF k <= Len(samples) THEN samples[k] ELSE Stale],
     whole |-> size <= encoder.size]

EncodeKeepingTemp(size) ==
    LET needed == encoder.wanted - Len(encoder.temp)
    IN /\ frames' = Append(frames, Frame(encoder.temp \o SubSeq(pcm, 1, needed), size))
       /\ pcm' = SubSeq(pcm, needed + 1, Len(pcm))
       /\ encoder' = [encoder EXCEPT !.size = size]

EncodeWithTemp(size) ==
    LET needed == encoder.wanted - Len(encoder.temp)
    IN /\ frames' = Append(frames, Frame(encoder.temp \o SubSeq(pcm, 1, needed), size))
       /\ pcm' = SubSeq(pcm, needed + 1, Len(pcm))
       /\ encoder' = [encoder EXCEPT !.temp = <<>>, !.size = size]

EncodeDirectly(size) ==
    /\ frames' = Append(frames, Frame(pcm, size))
    /\ pcm' = SubSeq(pcm, encoder.wanted + 1, Len(pcm))
    /\ encoder' = [encoder EXCEPT !.size = size]

EncodeFrame ==
    /\ Len(pcm) + Len(encoder.temp) >= encoder.wanted
    /\ Len(encoder.temp) <= encoder.wanted
    /\ \E size \in EncodedSizes :
          IF encoder.temp # <<>> THEN EncodeWithTemp(size) ELSE EncodeDirectly(size)
    /\ UNCHANGED <<stage, decoded, count>>

\* More is kept back, of a song of two channels, than makes a frame of one: the number of
\* samples to be copied is negative.
EncodeOverrun ==
    /\ Len(encoder.temp) > encoder.wanted
    /\ stage' = "astray"
    /\ UNCHANGED <<pcm, encoder, frames, decoded, count>>

\* opus_encode fails: the samples that are left of this read are lost.
EncodeFails ==
    /\ Len(pcm) + Len(encoder.temp) >= encoder.wanted
    /\ Len(encoder.temp) <= encoder.wanted
    /\ Disturbance
    /\ pcm' = <<>>
    /\ decoded' = SubSeq(decoded, 1, Len(decoded) - Len(pcm))
    /\ encoder' = [encoder EXCEPT !.runs = FALSE]
    /\ UNCHANGED <<stage, frames>>

KeepRest ==
    /\ Len(pcm) + Len(encoder.temp) < encoder.wanted
    /\ encoder' = [encoder EXCEPT !.runs = FALSE, !.temp = @ \o pcm]
    /\ pcm' = <<>>
    /\ UNCHANGED <<stage, frames, decoded, count>>

encode_opus_frame ==
    /\ encoder.runs /\ stage # "astray"
    /\ EncodeFrame \/ EncodeOverrun \/ EncodeFails \/ KeepRest
    /\ UNCHANGED <<format, item, wrapper, decoder, fed, events, volume, heard>>

-----------------------------------------------------------------------------
(* Requests.                                                               *)
Request == HasTask /\ Disturbance

setVolume ==
    /\ Request
    /\ volume' \in Volumes \ {volume}
    /\ UNCHANGED <<stage, format, item, wrapper, decoder, fed, events, pcm, encoder, frames,
                   decoded, heard>>

\* custom_mpg123_lseek, custom_seek: to a place in what has arrived.
MoveTo(place) ==
    /\ wrapper' = [wrapper EXCEPT !.pos = place]
    /\ fed' = <<>> /\ heard' = <<>>

\* ffmpeg decodes a packet behind that place, which it does not give away.
Landed(place) == IF IsMpg123 THEN place ELSE Min({place + format.packet, Size})

\* The reader of a buffer is moved; a queue's cannot be, and a closed decoder refuses.
seekSecond ==
    /\ Request
    /\ decoder.open /\ ~IsStream
    /\ \E place \in 0 .. Size : MoveTo(Landed(place))
    /\ UNCHANGED <<stage, format, item, decoder, events, pcm, encoder, volume, frames, decoded>>

\* A client skips the song, or its transfer fails: there comes no more of it, and doSkip follows.
cancelTask ==
    /\ HasTask /\ ~count.skipping
    /\ count.disturbances < MaxDisturbances
    /\ count' = [count EXCEPT !.disturbances = @ + 1, !.skipping = TRUE]
    /\ item' = [item EXCEPT !.cut = TRUE]
    /\ UNCHANGED <<stage, format, wrapper, decoder, fed, events, pcm, encoder, volume, frames,
                   decoded, heard>>

doSkip ==
    /\ HasTask /\ count.skipping
    /\ count' = [count EXCEPT !.skipping = FALSE]
    /\ item' = [item EXCEPT !.skipped = TRUE]
    /\ events' = [feed |-> FALSE, readFinshed |-> TRUE]
    /\ UNCHANGED <<stage, format, wrapper, decoder, fed, pcm, encoder, volume, frames, decoded,
                   heard>>

-----------------------------------------------------------------------------
CoroutineStep == ControlStep \/ start_consumer \/ encode_opus_frame

AudioNext ==
    \/ StartSong \/ write_callback \/ DownloadFinished
    \/ CoroutineStep
    \/ setVolume \/ seekSecond \/ cancelTask \/ doSkip

AudioSpec == AudioInit /\ [][AudioNext]_audioVars

(* A thread of the pool runs one of the coroutines that can run, and       *)
(* nothing is asked of the server or of clients.                           *)
FairAudioSpec == AudioSpec /\ WF_audioVars(CoroutineStep)

-----------------------------------------------------------------------------
Units == 1 .. SongSize
Samples == MinSample .. MaxSample

\* The types, with the bounds of the queue, of the buffer and of what is kept back for a frame.
AudioTypeOK ==
    /\ stage \in {"idle", "probing", "opening", "asking", "ticking", "eof", "playing", "astray"}
    /\ format \in Formats
    /\ item \in [arrived : 0 .. SongSize, data : Seq(Seq(Units)), write_queue : Seq(Units),
                 paused : BOOLEAN, cut : BOOLEAN, finished : BOOLEAN, skipped : BOOLEAN]
    /\ Len(item.write_queue) <= FlushSize
    /\ Size <= IF IsStream THEN QueueLimit + FlushSize + MaxChunk ELSE format.capacity
    /\ wrapper \in [pos : 0 .. SongSize, is_eof : BOOLEAN]
    /\ decoder \in [open : BOOLEAN, known : BOOLEAN, found : BOOLEAN,
                    err_count : 0 .. EarlyAttempts]
    /\ fed \in Seq(Units)
    /\ events \in [feed : BOOLEAN, readFinshed : BOOLEAN]
    /\ pcm \in Seq(Samples) /\ encoder.temp \in Seq(Samples)
    /\ Len(encoder.temp) < 2 * OpusFrame
    /\ ~encoder.runs => pcm = <<>>
    /\ volume \in Volumes \cup {One}

\* What the packets hold, with what is kept back for the next one, is what the song holds at its
\* volume, sample by sample, over reads, volumes and songs: in a build without AVX2, as the
\* Release one is, of a song whose samples are not of 32 bits, as long as no read of one channel
\* has been encoded with it (AudioSender_encoder.cpp:11-61, AudioUtils.h:218-335,
\* cmake/ReleaseOptimizations.cmake:22).
HeardAsDecoded ==
    Packs = 1 /\ format.encoding # "S32" /\ ~encoder.mono =>
        FlattenSeq([i \in DOMAIN frames |-> frames[i].samples]) \o encoder.temp \o pcm = decoded

Rises(s) == \A i \in 1 .. Len(s) - 1 : s[i] < s[i + 1]

\* Units are decoded in their order and none twice, wherever they wait; of a file that fits in
\* its buffer no unit is left out in between, at whatever size the reads, the packets and the
\* chunks are cut, also after ffmpeg failed to open it, but for a read that went astray: dec may
\* open a song again, where the reader stands, when its control cycle is over
\* (IO_Mpg123.cpp:8-18, IO_FFmpeg.cpp:11-23, IOBuf_FFmpeg.cpp:31-48, AudioDataBuffer.cpp:8-15).
DecodedInOrder ==
    /\ Rises(heard \o fed \o Unread \o item.write_queue)
    /\ ~IsStream /\ SongSize <= format.capacity /\ stage # "astray" /\ heard # <<>> =>
          Last(heard) - Head(heard) + 1 = Len(heard)

\* A transfer that was paused because the queue was full is resumed, once ctl has the decoder
\* fed, unless the song ends before: a decoder that could not be opened asks for nothing
\* (DownloadManager.cpp:312-313, AudioSender_producer.cpp:52-56).
Played == decoder.open /\ stage \in {"ticking", "eof", "playing"}
PauseEnds == item.paused /\ Played ~> (~item.paused \/ item.finished \/ ~Played)

\* "启用变码率" (variable bit rate, AudioSender.cpp:48): a packet may be larger than
\* the one before it.  What is sent is what opus has written.
PacketsAreWhole == \A i \in DOMAIN frames : frames[i].whole
=============================================================================
