--------------------------- MODULE MCPlaylistFeed ---------------------------
(* Two names, orders of at most two, one forward and one backward offset.  *)
EXTENDS PlaylistFeed

MCOrders == UNION {[1 .. n -> Names] : n \in 0 .. 2}
MCOffsets == {-1, 1}
=============================================================================
