------------------------------ MODULE BatchInfo ------------------------------
(***************************************************************************)
(* The BatchInfo object of one radio: what RxRcvAth, the writer, tells     *)
(* RxCreateDataAck, the reader, about the batch being received.  Every     *)
(* method takes the object's own lock for its whole body, so each is one   *)
(* step.  The clock is abstracted to one bit: whether IsTimeOut() would    *)
(* answer true now.                                                        *)
(***************************************************************************)
EXTENDS Naturals

VARIABLES
    batch_id,              \* batch_id_
    highest_decoded_seq,   \* highest_decoded_seq_: last seq of the previous batch
    decoding_done,         \* decoding_done_
    time_out               \* end_time - cur_recv_time_ > time_left_

batchVars == <<batch_id, highest_decoded_seq, decoding_done, time_out>>

BatchTypeOK ==
    /\ batch_id \in Nat
    /\ highest_decoded_seq \in Nat
    /\ decoding_done \in BOOLEAN
    /\ time_out \in BOOLEAN

\* The constructor leaves cur_recv_time_ and time_left_ unset: until the first
\* SetBatchInfo a comparison of the two may come out either way.
BatchInit ==
    /\ batch_id = 0
    /\ highest_decoded_seq = 0
    /\ decoding_done = FALSE
    /\ time_out \in BOOLEAN

\* A new batch: its id, the last sequence number before it, and a fresh
\* estimate of the time its remaining packets take to arrive.
SetBatchInfo(b, seq) ==
    /\ batch_id' = b
    /\ highest_decoded_seq' = seq
    /\ decoding_done' = FALSE
    /\ time_out' = FALSE

\* Each packet of the batch restarts the estimate.
UpdateTimeLeft ==
    /\ time_out' = FALSE
    /\ UNCHANGED <<batch_id, highest_decoded_seq, decoding_done>>

SetDecodingDone ==
    /\ decoding_done' = TRUE
    /\ UNCHANGED <<batch_id, highest_decoded_seq, time_out>>

\* The estimated time runs out.
TimeOut ==
    /\ ~time_out
    /\ ~decoding_done
    /\ time_out' = TRUE
    /\ UNCHANGED <<batch_id, highest_decoded_seq, decoding_done>>

\* The answer of decoding_done(): a batch whose time is up counts as decoded.
DecodingDone == decoding_done \/ time_out

\* GetBatchInfo records that answer in the object.
GetBatchInfo ==
    /\ decoding_done' = DecodingDone
    /\ UNCHANGED <<batch_id, highest_decoded_seq, time_out>>
=============================================================================
