---------------------------- MODULE MCAudioPath ----------------------------
(* Songs for AudioPath.                                                    *)
EXTENDS AudioPath

Lowest == -6

Song(reader, container, packet, encoding, rate) ==
    [wrapper |-> reader, container |-> container, packet |-> packet, encoding |-> encoding,
     channels |-> 2, rate |-> rate, capacity |-> SongSize]
File(container, packet, encoding, rate) == Song("Buffer", container, packet, encoding, rate)
Stream(container, encoding) == Song("IOBuf", container, 1, encoding, 1)
Mono(song) == [song EXCEPT !.channels = 1]
Short(song) == [song EXCEPT !.capacity = SongSize - 2]

AllSongs == {Mono(File("mp3", 1, "S16", 1)), File("other", 2, "FLT", 2),
             Short(File("mov", 3, "FLT", 1)), Stream("mp3", "S16"), Stream("other", "S32"),
             Stream("mov", "other")}
OneSong == {File("other", 1, "FLT", 2)}
=============================================================================
