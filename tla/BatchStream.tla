----------------------------- MODULE BatchStream -----------------------------
(***************************************************************************)
(* What RxRcvAth promises to the rest of a radio, whatever the air does to *)
(* the packets: batches have increasing ids and the sequence numbers below *)
(* them never go back, and every packet it hands to EnqueuePkt belongs to  *)
(* a batch announced before and lies within a batch of what went before.   *)
(* RxDataBuf is driven by just this.                                       *)
(***************************************************************************)
EXTENDS BatchInfo

CONSTANT MAX_BATCH_SIZE   \* native packets in a batch, at most

VARIABLE last_seq         \* the last sequence number given to EnqueuePkt

streamVars == <<batchVars, last_seq>>

StreamInit == BatchInit /\ last_seq = 0

AnnounceBatch ==
    /\ batch_id' > batch_id
    /\ highest_decoded_seq' >= highest_decoded_seq
    /\ SetBatchInfo(batch_id', highest_decoded_seq')
    /\ UNCHANGED last_seq

ReceivePacket == batch_id > 0 /\ UpdateTimeLeft /\ UNCHANGED last_seq

HandOver ==
    /\ batch_id > 0
    /\ last_seq' \in 1 .. highest_decoded_seq + MAX_BATCH_SIZE
    /\ UNCHANGED batchVars

FinishBatch == batch_id > 0 /\ SetDecodingDone /\ UNCHANGED last_seq

\* The clock, and RxCreateDataAck.
Clock == (TimeOut \/ GetBatchInfo) /\ UNCHANGED last_seq

StreamNext == AnnounceBatch \/ ReceivePacket \/ HandOver \/ FinishBatch \/ Clock

StreamSpec == StreamInit /\ [][StreamNext]_streamVars
=============================================================================
