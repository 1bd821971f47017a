-------------------------- MODULE MCStreamPipeline --------------------------
(* Play lists for StreamPipeline.                                          *)
EXTENDS StreamPipeline

Song(format) == [format |-> format, use_stream |-> FALSE, cached |-> FALSE]
Cached(song) == [song EXCEPT !.cached = TRUE]
Streamed(song) == [song EXCEPT !.use_stream = TRUE]

OneCached   == <<Cached(Song("mp3"))>>
OddFirst    == <<Song("odd"), Song("mp3")>>
OddLast     == <<Song("mp3"), Song("odd")>>
OneSong     == <<Song("mp3")>>
TwoSongs    == <<Song("mp3"), Song("other")>>
OneStream   == <<Streamed(Song("other"))>>
FileSongs   == <<Song("mp3"), Cached(Song("mov")), Song("other")>>
StreamSongs == <<Streamed(Song("other")), Streamed(Song("mp3"))>>
MixedSongs  == FileSongs \o StreamSongs
BrokenFirst == <<Song("broken"), Song("mp3")>>
=============================================================================
