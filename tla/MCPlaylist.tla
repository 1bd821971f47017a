----------------------------- MODULE MCPlaylist -----------------------------
(* Small instance of Playlist: three names, every order of at most three.  *)
EXTENDS Playlist

MCOrders == UNION {[1 .. n -> Names] : n \in 0 .. 3}
\* Past both ends of a list of three, and at the edge of an int of +-7.
MCOffsets == {-7, -4, -1, 1, 3, 7}
=============================================================================
