------------------------------ MODULE MCRxRawBuf -----------------------------
(* RxRawBuf for TLC: the constants are given in the .cfg files. *)
EXTENDS RxRawBuf
=============================================================================
