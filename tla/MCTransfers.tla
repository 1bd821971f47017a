---------------------------- MODULE MCTransfers -----------------------------
(* Two streams: one looks up an address and downloads, the other downloads. *)
EXTENDS Transfers, TLC

CONSTANTS j1, j2
MCTransfersOf == (j1 :> 2) @@ (j2 :> 1)
=============================================================================
