---------------------------- MODULE MCBatchReceive ---------------------------
(* BatchReceive and BatchDecode for TLC: the constants are given in the .cfg file. *)
EXTENDS BatchDecode
=============================================================================
