------------------------------- MODULE Radios --------------------------------
(***************************************************************************)
(* The radios of one client and what they share: OriginalSeqContext, which *)
(* RxWriteTun of every radio asks before it writes to the TUN device, and  *)
(* batch_id_prev, which is static in FindNackSeqNum and so belongs to the  *)
(* RxDataBufs of all radios together, guarded by the lock of none.         *)
(*                                                                         *)
(* Of each RxDataBuf only what RxDataBuf promises is left: packets come    *)
(* out one by one, and whoever sleeps on fill_cond_ is woken by a packet.  *)
(* A packet is its original sequence number, and NotForTun when it is of   *)
(* another type or for another client.  The base stations number their     *)
(* batches independently, and the controller may send a packet by several  *)
(* of them.                                                                *)
(***************************************************************************)
EXTENDS Integers, Sequences, FiniteSets

CONSTANTS
    RadioIds,    \* the keys of radio_context_tbl_
    MaxQueue,    \* bound: packets waiting in one buffer
    MaxOSeq,     \* bound: original sequence numbers
    MaxBatch     \* bound: batches of one radio

ASSUME RadiosAssumption ==
    /\ MaxQueue \in Nat \ {0}
    /\ MaxOSeq \in Nat
    /\ MaxBatch \in Nat

None == -1
NotForTun == 0
Packets == 1 .. MaxOSeq \cup {NotForTun}

VARIABLES
    queue,          \* per radio: the packets DequeuePkt will return, in that order
    batch_id,       \* per radio: batch_id_ of its BatchInfo
    decoding_done,  \* per radio: what decoding_done() answers
    tunPc, tunPkt,  \* per radio: where RxWriteTun is, and its packet
    max_seq,        \* max_seq_ of OriginalSeqContext
    ackPc, ackBatch,\* per radio: where FindNackSeqNum is, and its batch_id
    batch_id_prev,  \* its static variable
    written,        \* history: what was written to the TUN device, and by whom
    acked           \* history: per radio, the last batch acknowledged as a whole

airVars == <<queue, batch_id, decoding_done>>
tunVars == <<tunPc, tunPkt, max_seq, written>>
ackVars == <<ackPc, ackBatch, batch_id_prev, acked>>
radiosVars == <<airVars, tunVars, ackVars>>

RadiosInit ==
    /\ queue = [r \in RadioIds |-> <<>>]
    /\ batch_id = [r \in RadioIds |-> 0]
    /\ decoding_done = [r \in RadioIds |-> FALSE]
    /\ tunPc = [r \in RadioIds |-> "dequeue"]
    /\ tunPkt = [r \in RadioIds |-> NotForTun]
    /\ max_seq = 0
    /\ ackPc = [r \in RadioIds |-> "start"]
    /\ ackBatch = [r \in RadioIds |-> 0]
    /\ batch_id_prev = 0
    /\ written = <<>>
    /\ acked = [r \in RadioIds |-> None]

-----------------------------------------------------------------------------
(* RxRcvAth and RxRcvCell *)

NewBatch(r) ==
    /\ batch_id[r] < MaxBatch
    /\ batch_id' = [batch_id EXCEPT ![r] = @ + 1]
    /\ decoding_done' = [decoding_done EXCEPT ![r] = FALSE]
    /\ UNCHANGED <<queue, tunVars, ackVars>>

\* The batch is decoded, or its time is over; the times are not initialised, so that
\* this may be so before the first one.
BatchOver(r) ==
    /\ decoding_done' = [decoding_done EXCEPT ![r] = TRUE]
    /\ UNCHANGED <<queue, batch_id, tunVars, ackVars>>

\* A packet comes into the buffer and wakes RxCreateDataAck.
Awake(pc) == IF pc = "sleep" THEN "info" ELSE pc

Enqueue(r) ==
    /\ Len(queue[r]) < MaxQueue
    /\ \E p \in Packets : queue' = [queue EXCEPT ![r] = Append(@, p)]
    /\ ackPc' = [ackPc EXCEPT ![r] = Awake(@)]
    /\ UNCHANGED <<batch_id, decoding_done, tunVars, ackBatch, batch_id_prev, acked>>

-----------------------------------------------------------------------------
(* RxWriteTun *)

Bug_IsForTun(p) == TRUE
IsForTun(p) == p # NotForTun

Dequeue(r) ==
    /\ tunPc[r] = "dequeue"
    /\ queue[r] # <<>>
    /\ queue' = [queue EXCEPT ![r] = Tail(@)]
    /\ IF IsForTun(Head(queue[r]))
       THEN /\ tunPkt' = [tunPkt EXCEPT ![r] = Head(queue[r])]
            /\ tunPc' = [tunPc EXCEPT ![r] = "ask"]
       ELSE UNCHANGED <<tunPkt, tunPc>>
    /\ UNCHANGED <<batch_id, decoding_done, max_seq, written, ackVars>>

\* need_update takes the first of a number's packets, unless a later number went first.
Bug_IsNew(p) == p >= max_seq
IsNew(p) == p > max_seq
Bug_MaxAfter(p) == p
MaxAfter(p) == IF IsNew(p) THEN p ELSE max_seq

\* The packet is cleared before the next call of DequeuePkt.
TunNext(r) ==
    /\ tunPc' = [tunPc EXCEPT ![r] = "dequeue"]
    /\ tunPkt' = [tunPkt EXCEPT ![r] = NotForTun]

NeedUpdate(r) ==
    /\ tunPc[r] = "ask"
    /\ max_seq' = MaxAfter(tunPkt[r])
    /\ IF IsNew(tunPkt[r])
       THEN tunPc' = [tunPc EXCEPT ![r] = "write"] /\ UNCHANGED tunPkt
       ELSE TunNext(r)
    /\ UNCHANGED <<airVars, written, ackVars>>

\* The write comes after the lock of OriginalSeqContext is released.
WriteTun(r) ==
    /\ tunPc[r] = "write"
    /\ written' = Append(written, [seq |-> tunPkt[r], radio |-> r])
    /\ TunNext(r)
    /\ UNCHANGED <<airVars, max_seq, ackVars>>

-----------------------------------------------------------------------------
(* RxCreateDataAck, as far as FindNackSeqNum uses batch_id_prev *)

\* The thread goes to pc, with what its call has read of the batch id so far.
AckGoto(r, pc, batch) ==
    /\ ackPc' = [ackPc EXCEPT ![r] = pc]
    /\ ackBatch' = [ackBatch EXCEPT ![r] = batch]

AckGetBatchID(r) ==
    /\ ackPc[r] = "start"
    /\ AckGoto(r, "test", batch_id[r])
    /\ UNCHANGED <<airVars, tunVars, batch_id_prev, acked>>

\* "Wait for new packets available in the buffer", or "a new batch that we should ack".
Bug_MustWait(r) == queue[r] = <<>>
MustWait(r) == ackBatch[r] <= batch_id_prev /\ queue[r] = <<>>

AckTest(r) ==
    /\ ackPc[r] = "test"
    /\ AckGoto(r, IF MustWait(r) THEN "sleep" ELSE "info", ackBatch[r])
    /\ UNCHANGED <<airVars, tunVars, batch_id_prev, acked>>

\* Only the end of the previous batch is acknowledged while this one is not done.
AckInfo(r) ==
    /\ ackPc[r] = "info"
    /\ AckGoto(r, IF decoding_done[r] THEN "again" ELSE "start", 0)
    /\ acked' = [acked EXCEPT ![r] = IF decoding_done[r] THEN batch_id[r] ELSE @]
    /\ UNCHANGED <<airVars, tunVars, batch_id_prev>>

\* The id is read once more, and may be that of a newer batch by now.
AckStartBatch(r) ==
    /\ ackPc[r] = "again"
    /\ IF batch_id[r] > batch_id_prev THEN AckGoto(r, "store", batch_id[r])
                                      ELSE AckGoto(r, "start", 0)
    /\ UNCHANGED <<airVars, tunVars, batch_id_prev, acked>>

AckStore(r) ==
    /\ ackPc[r] = "store"
    /\ batch_id_prev' = ackBatch[r]
    /\ AckGoto(r, "start", 0)
    /\ UNCHANGED <<airVars, tunVars, acked>>

-----------------------------------------------------------------------------
TunStep(r) == Dequeue(r) \/ NeedUpdate(r) \/ WriteTun(r)
AckStep(r) ==
    AckGetBatchID(r) \/ AckTest(r) \/ AckInfo(r) \/ AckStartBatch(r) \/ AckStore(r)

RadiosNext ==
    \E r \in RadioIds :
        NewBatch(r) \/ BatchOver(r) \/ Enqueue(r) \/ TunStep(r) \/ AckStep(r)

RadiosSpec == RadiosInit /\ [][RadiosNext]_radiosVars

-----------------------------------------------------------------------------
(* Properties *)

\* Types; a packet for somebody else is never about to be written.
RadiosTypeOK ==
    /\ queue \in [RadioIds -> Seq(Packets)]
    /\ batch_id \in [RadioIds -> Nat]
    /\ decoding_done \in [RadioIds -> BOOLEAN]
    /\ tunPc \in [RadioIds -> {"dequeue", "ask", "write"}]
    /\ tunPkt \in [RadioIds -> Packets]
    /\ \A r \in RadioIds : tunPc[r] # "dequeue" => tunPkt[r] # NotForTun
    /\ max_seq \in 0 .. MaxOSeq
    /\ ackPc \in [RadioIds -> {"start", "test", "sleep", "info", "again", "store"}]
    /\ ackBatch \in [RadioIds -> Nat]
    /\ batch_id_prev \in Nat
    /\ written \in Seq([seq : 1 .. MaxOSeq, radio : RadioIds])
    /\ acked \in [RadioIds -> Nat \cup {None}]

\* No original packet reaches the TUN device twice, by whichever radios its copies
\* came: it was written at most once, or one thread is about to.
WrittenOnce ==
    /\ \A a, b \in DOMAIN written : written[a].seq = written[b].seq => a = b
    /\ \A r \in RadioIds : tunPc[r] = "write" =>
          /\ \A a \in DOMAIN written : written[a].seq # tunPkt[r]
          /\ \A q \in RadioIds : tunPc[q] = "write" /\ tunPkt[q] = tunPkt[r] => q = r

\* The packets of one radio reach the TUN device in the order of their original
\* numbers, although two radios write without a common lock.
RadioInOrder ==
    \A a, b \in DOMAIN written :
        a < b /\ written[a].radio = written[b].radio => written[a].seq < written[b].seq

\* RxCreateDataAck goes to sleep on a batch only when one with no smaller id was
\* announced, by whichever radio, and that radio has sent an acknowledgement of a whole
\* batch: the first batches are never waited for.
SleepsAfterAck ==
    \A r \in RadioIds : ackPc[r] = "sleep" /\ ackBatch[r] > 0 =>
        \E q \in RadioIds : acked[q] # None /\ batch_id[q] >= ackBatch[r]

\* "Else a new batch that we should ack": RxCreateDataAck does not go to sleep with a
\* batch it has not acknowledged.  (FindNackSeqNum)
NewBatchAcked ==
    \A r \in RadioIds : ackPc[r] = "sleep" /\ ackBatch[r] > 0 => acked[r] >= ackBatch[r]
=============================================================================
