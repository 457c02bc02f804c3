-------------------------- MODULE RxDataBufDelivery --------------------------
(***************************************************************************)
(* RxDataBuf as an InOrderDelivery, for a sender that stays within         *)
(* BUF_SIZE packets of head_pt and loses fewer packets than an             *)
(* acknowledgement has room for: neither a wrap-around nor too many nacks  *)
(* then throw away packets that have arrived.                              *)
(***************************************************************************)
EXTENDS RxDataBuf

\* The packets in the ring that were not handed out.
Pending == {seqnum[i] : i \in {j \in Slots : status[j] = "kOccupiedNew"}}

Delivery == INSTANCE InOrderDelivery
    WITH CAPACITY <- BUF_SIZE, settled <- head, pending <- Pending, last <- last_out

\* RxDataBuf implements InOrderDelivery: whatever EnqueuePkt has stored, DequeuePkt
\* hands out in its turn, and it gives up a packet only if that one is missing and
\* a later one is there, although FindNackSeqNum marks slots behind its back.
DeliverySpec == Delivery!DeliverySpec
=============================================================================
