----------------------------- MODULE MCRxDataBuf -----------------------------
(***************************************************************************)
(* RxDataBuf for TLC.  The .cfg files give the constants: rings of two or  *)
(* three slots and sequence numbers into the second lap of them.           *)
(***************************************************************************)
EXTENDS RxDataBufLive
=============================================================================
