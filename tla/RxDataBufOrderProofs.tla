------------------------ MODULE RxDataBufOrderProofs -------------------------
(***************************************************************************)
(* What RxDataBuf promises to RxWriteTun, for every BUF_SIZE, ACK_WINDOW,  *)
(* MAX_BATCH_SIZE, MAX_AHEAD, every set of producers, and any number of    *)
(* packets and batches: every variable keeps its type, the window of the   *)
(* ring stays well formed, no packet of an earlier lap stands in for one   *)
(* of the window, packets leave the buffer in increasing order of sequence *)
(* number, each at most once, the signal that there is one is not lost on  *)
(* RxCreateDataAck, and the only slot that is blocked is the one           *)
(* RxWriteTun waits for.                                                   *)
(***************************************************************************)
EXTENDS RxDataBuf, TLAPS

\* A remainder is below the ring size.
LEMMA ModRange ==
    ASSUME NEW n \in Nat \ {0}, NEW a \in Int
    PROVE  a % n \in 0 .. n - 1
OBVIOUS

\* The places where the code takes a number modulo the ring size are slots.
LEMMA SlotOf ==
    ASSUME NEW a \in Int
    PROVE  a % BUF_SIZE \in Slots
BY RingAssumption, ModRange DEF Slots

\* A signal puts nobody to sleep.
LEMMA WokenSubset ==
    ASSUME NEW W, NEW V, V \in Woken(W)
    PROVE  V \subseteq W
BY DEF Woken

-----------------------------------------------------------------------------
(* Type correctness, one conjunct at a time *)

EnqTypeOK == enq \in [Producers -> EnqLocals]
DeqTypeOK == deq \in DeqLocals
AckTypeOK == ack \in AckLocals
RingTypeOK ==
    /\ head \in Nat /\ tail \in Nat
    /\ status \in [Slots -> Status]
    /\ seqnum \in [Slots -> Nat]
LockTypeOK ==
    /\ qlock \in Threads \cup {Free}
    /\ elock \in [Slots -> {WriteTun, CreateAck, Free}]
WaitTypeOK ==
    /\ fillWait \subseteq Threads
    /\ emptyWait \subseteq Threads
    /\ availWait \subseteq Threads
OtherTypeOK ==
    /\ BatchTypeOK
    /\ batch_id_prev \in Nat
    /\ due \in BOOLEAN
    /\ aborted \in BOOLEAN
    /\ last_out \in Nat

\* The locals of EnqueuePkt keep their types.
LEMMA EnqType ==
    ASSUME TypeOK, [Next]_vars
    PROVE  EnqTypeOK'
<1> USE RingAssumption DEF TypeOK, EnqTypeOK, EnqLocals
<1>1. ASSUME NEW p \in Producers, Enqueue(p)
      PROVE  EnqTypeOK'
  <2>1. CASE EnqueueCall(p)
    BY <2>1 DEF EnqueueCall, Sent
  <2>2. CASE EnqueueLock(p)
    BY <2>2 DEF EnqueueLock, EnqueueReturn, IdleEnq
  <2>3. CASE EnqueueFull(p)
    BY <2>3 DEF EnqueueFull
  <2>4. CASE EnqueueStore(p)
    BY <2>4 DEF EnqueueStore, EnqueueReturn, IdleEnq
  <2>5. CASE EnqueueReset(p)
    BY <2>5 DEF EnqueueReset, EnqueueReturn, IdleEnq
  <2>6. CASE EnqueueClear(p)
    BY <2>6 DEF EnqueueClear, EnqueueReturn, IdleEnq
  <2> QED
    BY <1>1, <2>1, <2>2, <2>3, <2>4, <2>5, <2>6 DEF Enqueue
<1>2. CASE Receive
  BY <1>2 DEF Receive, NewBatch, PacketOfBatch, BatchDecoded, BatchTimeOut
<1>3. CASE Dequeue
  BY <1>3 DEF Dequeue, DequeueLock, DequeueElement, DequeueBlock, DequeueWait,
     DequeueAwake, DequeueRelock, DequeueDeliver, DequeueDrop, DequeueReturn
<1>4. CASE FindNack
  BY <1>4 DEF FindNack, AckGetBatchID, AckLock, AckWoken, AckInfo, AckStartBatch,
     AckAssert, AckVisit, AckDrop, AckLabel, Label, AckExtra, AckOverflow, AckGiveUp,
     SendDataAck
<1>5. CASE SpuriousWakeup
  BY <1>5 DEF SpuriousWakeup
<1>6. CASE UNCHANGED vars
  BY <1>6 DEF vars
<1> QED
  BY <1>1, <1>2, <1>3, <1>4, <1>5, <1>6 DEF Next, Aborted

\* The locals of DequeuePkt keep their types.
LEMMA DeqType ==
    ASSUME TypeOK, [Next]_vars
    PROVE  DeqTypeOK'
<1> USE RingAssumption DEF TypeOK, DeqTypeOK, DeqLocals
<1>1. ASSUME NEW p \in Producers, Enqueue(p)
      PROVE  DeqTypeOK'
  BY <1>1 DEF Enqueue, EnqueueCall, EnqueueLock, EnqueueFull, EnqueueStore,
     EnqueueReset, EnqueueClear
<1>2. CASE Receive
  BY <1>2 DEF Receive, NewBatch, PacketOfBatch, BatchDecoded, BatchTimeOut
<1>3. CASE Dequeue
  <2>1. CASE DequeueLock
    <3>1. head % BUF_SIZE \in Slots
      BY DEF Slots
    <3> QED
      BY <2>1, <3>1 DEF DequeueLock
  <2>2. CASE DequeueElement \/ DequeueBlock \/ DequeueWait \/ DequeueAwake
    BY <2>2 DEF DequeueElement, DequeueBlock, DequeueWait, DequeueAwake
  <2>3. CASE DequeueRelock
    <3>1. head % BUF_SIZE \in Slots
      BY DEF Slots
    <3> QED
      BY <2>3, <3>1 DEF DequeueRelock
  <2>4. CASE DequeueDeliver \/ DequeueDrop
    BY <2>4 DEF DequeueDeliver, DequeueDrop, DequeueReturn, Slots
  <2> QED
    BY <1>3, <2>1, <2>2, <2>3, <2>4 DEF Dequeue
<1>4. CASE FindNack
  BY <1>4 DEF FindNack, AckGetBatchID, AckLock, AckWoken, AckInfo, AckStartBatch,
     AckAssert, AckVisit, AckDrop, AckLabel, Label, AckExtra, AckOverflow, AckGiveUp,
     SendDataAck
<1>5. CASE SpuriousWakeup
  BY <1>5 DEF SpuriousWakeup
<1>6. CASE UNCHANGED vars
  BY <1>6 DEF vars
<1> QED
  BY <1>1, <1>2, <1>3, <1>4, <1>5, <1>6 DEF Next, Aborted

\* The locals of FindNackSeqNum keep their types.
LEMMA AckType ==
    ASSUME TypeOK, [Next]_vars
    PROVE  AckTypeOK'
<1> USE RingAssumption DEF TypeOK, BatchTypeOK, AckTypeOK, AckLocals
<1>1. ASSUME NEW p \in Producers, Enqueue(p)
      PROVE  AckTypeOK'
  BY <1>1 DEF Enqueue, EnqueueCall, EnqueueLock, EnqueueFull, EnqueueStore,
     EnqueueReset, EnqueueClear, ackVars
<1>2. CASE Receive
  BY <1>2 DEF Receive, NewBatch, PacketOfBatch, BatchDecoded, BatchTimeOut, ackVars
<1>3. CASE Dequeue
  BY <1>3 DEF Dequeue, DequeueLock, DequeueElement, DequeueBlock, DequeueWait,
     DequeueAwake, DequeueRelock, DequeueDeliver, DequeueDrop, DequeueReturn, ackVars
<1>4. CASE FindNack
  <2>1. CASE AckGetBatchID
    BY <2>1 DEF AckGetBatchID
  <2>2. CASE AckLock
    <3>1. \/ ack' = [ack EXCEPT !.pc = "woken"]
          \/ ack' = [ack EXCEPT !.pc = "info", !.batch = 0, !.idx = head, !.tail = tail]
      BY <2>2 DEF AckLock, AckSnapshot
    <3>2. CASE ack' = [ack EXCEPT !.pc = "woken"]
      BY <3>2
    <3>3. CASE ack' = [ack EXCEPT !.pc = "info", !.batch = 0, !.idx = head, !.tail = tail]
      BY <3>3
    <3> QED
      BY <3>1, <3>2, <3>3
  <2>3. CASE AckWoken
    BY <2>3 DEF AckWoken, AckSnapshot
  <2>4. CASE AckInfo
    <3>1. /\ Larger(highest_decoded_seq, ack.tail) \in Nat
          /\ Minus1(ack.tail) \in Nat
          /\ highest_decoded_seq > 0 => highest_decoded_seq - 1 \in Nat
      BY DEF Larger, Minus1
    <3>2. \E pc \in {"batch", "emit", "assert"}, end_seq \in Nat, end_pt \in Nat :
             ack' = [ack EXCEPT !.pc = pc, !.end_seq = end_seq, !.end_pt = end_pt]
      BY <2>4, <3>1 DEF AckInfo
    <3> QED
      BY <3>2
  <2>5. CASE AckStartBatch
    BY <2>5 DEF AckStartBatch
  <2>6. CASE AckAssert
    BY <2>6 DEF AckAssert
  <2>7. CASE AckVisit
    <3>1. ack.idx \in Nat /\ ack.idx + 1 \in Nat
      OBVIOUS
    <3> QED
      <4> DEFINE n == IF status[ack.idx % BUF_SIZE] \in {"kEmpty", "kBlock"}
                        THEN ack.nacks \cup {ack.idx + 1} ELSE ack.nacks
      <4>1. n \subseteq Nat
        BY <3>1
      <4>2. \/ ack' = [ack EXCEPT !.pc = "drop"]
            \/ ack' = [ack EXCEPT !.idx = ack.idx + 1, !.nacks = n]
        BY <2>7 DEF AckVisit
      <4> HIDE DEF n
      <4> QED
        BY <3>1, <4>1, <4>2
  <2>8. CASE AckDrop
    BY <2>8 DEF AckDrop
  <2>9. CASE AckLabel
    <3>1. ack.idx \in Nat /\ ack.idx + 1 \in Nat
      OBVIOUS
    <3> QED
      BY <2>9, <3>1 DEF AckLabel
  <2>10. CASE AckExtra
    <3>1. ack.nacks \cup Extras \subseteq Nat
      BY DEF Extras
    <3> QED
      BY <2>10, <3>1 DEF AckExtra
  <2>11. CASE AckOverflow
    BY <2>11 DEF AckOverflow
  <2>12. CASE AckGiveUp
    <3>1. PICK seq \in ack.nacks :
              ack' = [ack EXCEPT !.pc = IF ack.nacks \ {seq} = {} THEN "emit"
                                                                 ELSE "overflow",
                                 !.nacks = ack.nacks \ {seq}]
      BY <2>12 DEF AckGiveUp
    <3> DEFINE pc == IF ack.nacks \ {seq} = {} THEN "emit" ELSE "overflow"
               rest == ack.nacks \ {seq}
    <3>2. ack' = [ack EXCEPT !.pc = pc, !.nacks = rest]
      BY <3>1
    <3>3. pc \in {"emit", "overflow"} /\ rest \in SUBSET Nat
      OBVIOUS
    <3> HIDE DEF pc, rest
    <3> QED
      BY <3>2, <3>3
  <2>13. CASE SendDataAck
    BY <2>13 DEF SendDataAck, IdleAck
  <2> QED
    BY <1>4, <2>1, <2>2, <2>3, <2>4, <2>5, <2>6, <2>7, <2>8, <2>9, <2>10, <2>11, <2>12, <2>13
     DEF FindNack
<1>5. CASE SpuriousWakeup
  BY <1>5 DEF SpuriousWakeup, ackVars
<1>6. CASE UNCHANGED vars
  BY <1>6 DEF vars, ackVars
<1> QED
  BY <1>1, <1>2, <1>3, <1>4, <1>5, <1>6 DEF Next, Aborted

\* The pointers and the slots keep their types.
LEMMA RingType ==
    ASSUME TypeOK, [Next]_vars
    PROVE  RingTypeOK'
<1> USE RingAssumption DEF TypeOK, RingTypeOK, ringVars, Status, EnqLocals
<1>1. CASE Receive
  <2>1. CASE NewBatch \/ PacketOfBatch \/ BatchDecoded \/ BatchTimeOut
    BY <2>1 DEF NewBatch, PacketOfBatch, BatchDecoded, BatchTimeOut
  <2> QED
    BY <1>1, <2>1 DEF Receive
<1>2. ASSUME NEW p \in Producers, Enqueue(p)
      PROVE  RingTypeOK'
  <2>1. CASE EnqueueCall(p) \/ EnqueueLock(p)
    BY <2>1 DEF EnqueueCall, EnqueueLock
  <2>2. CASE EnqueueFull(p)
    BY <2>2 DEF EnqueueFull, FullDrop
  <2>3. CASE EnqueueStore(p)
    BY <2>3 DEF EnqueueStore, StoreElement, IsWrap, WrapPointers
  <2>4. CASE EnqueueReset(p)
    BY <2>4 DEF EnqueueReset, ResetOthers, ResetElement
  <2>5. CASE EnqueueClear(p)
    BY <2>5 DEF EnqueueClear, ClearElement, ResetElement
  <2> QED
    BY <1>2, <2>1, <2>2, <2>3, <2>4, <2>5 DEF Enqueue
<1>3. CASE Dequeue
  <2>1. CASE DequeueLock \/ DequeueElement \/ DequeueWait \/ DequeueAwake \/ DequeueRelock
    BY <2>1 DEF DequeueLock, DequeueElement, DequeueWait, DequeueAwake, DequeueRelock
  <2>2. CASE DequeueBlock
    BY <2>2 DEF DequeueBlock
  <2>3. CASE DequeueDeliver
    <3>1. head' = head + 1 /\ UNCHANGED <<tail, seqnum>>
      BY <2>3 DEF DequeueDeliver, DequeueReturn
    <3>2. status' = [status EXCEPT ![deq.idx] = "kRead"]
      BY <2>3 DEF DequeueDeliver
    <3>3. head' \in Nat /\ tail' \in Nat
      BY <3>1
    <3>4. status' \in [Slots -> Status]
      BY <3>2
    <3>5. seqnum' \in [Slots -> Nat]
      BY <3>1
    <3> QED
      BY <3>3, <3>4, <3>5
  <2>4. CASE DequeueDrop
    <3>1. head' = head + 1 /\ UNCHANGED tail
      BY <2>4 DEF DequeueDrop, DequeueReturn
    <3>2. /\ status' = [status EXCEPT ![deq.idx] = "kEmpty"]
          /\ seqnum' = [seqnum EXCEPT ![deq.idx] = 0]
      BY <2>4 DEF DequeueDrop, ResetElement
    <3>3. head' \in Nat /\ tail' \in Nat
      BY <3>1
    <3>4. status' \in [Slots -> Status] /\ seqnum' \in [Slots -> Nat]
      BY <3>2
    <3> QED
      BY <3>3, <3>4
  <2> QED
    BY <1>3, <2>1, <2>2, <2>3, <2>4 DEF Dequeue
<1>4. CASE FindNack
  <2>1. CASE AckGetBatchID \/ AckLock \/ AckWoken \/ AckInfo \/ AckStartBatch \/ AckAssert \/ AckVisit \/ AckExtra \/ SendDataAck
    BY <2>1 DEF AckGetBatchID, AckLock, AckWoken, AckInfo, AckStartBatch, AckAssert, AckVisit, AckExtra, SendDataAck
  <2>2. CASE AckDrop
    BY <2>2 DEF AckDrop, AckLocals
  <2>3. CASE AckLabel
    <3>1. seqnum' = [seqnum EXCEPT ![ack.idx % BUF_SIZE] = ack.idx + 1]
      BY <2>3 DEF AckLabel, Label
    <3>2. UNCHANGED <<head, tail, status>> /\ ack.idx + 1 \in Nat
      BY <2>3 DEF AckLabel, Label, AckLocals
    <3> QED
      BY <3>1, <3>2
  <2>4. CASE AckOverflow
    BY <2>4 DEF AckOverflow
  <2>5. CASE AckGiveUp
    <3>1. PICK seq \in ack.nacks : seqnum' = [seqnum EXCEPT ![Seq2Ind(seq)] = seq]
      BY <2>5 DEF AckGiveUp, Label
    <3>2. UNCHANGED <<head, tail, status>> /\ seq \in Nat
      BY <2>5 DEF AckGiveUp, Label, AckLocals
    <3> QED
      BY <3>1, <3>2
  <2> QED
    BY <1>4, <2>1, <2>2, <2>3, <2>4, <2>5 DEF FindNack
<1>5. CASE SpuriousWakeup
  BY <1>5 DEF SpuriousWakeup
<1>6. CASE UNCHANGED vars
  BY <1>6 DEF vars
<1> QED
  BY <1>1, <1>2, <1>3, <1>4, <1>5, <1>6 DEF Next, Aborted

\* The locks keep their types.
LEMMA LockType ==
    ASSUME TypeOK, [Next]_vars
    PROVE  LockTypeOK'
<1> USE RingAssumption DEF TypeOK, LockTypeOK, Threads
<1>1. CASE Receive
  <2>1. CASE NewBatch \/ PacketOfBatch \/ BatchDecoded \/ BatchTimeOut
    BY <2>1 DEF NewBatch, PacketOfBatch, BatchDecoded, BatchTimeOut
  <2> QED
    BY <1>1, <2>1 DEF Receive
<1>2. ASSUME NEW p \in Producers, Enqueue(p)
      PROVE  LockTypeOK'
  <2>1. CASE EnqueueCall(p) \/ EnqueueFull(p)
    BY <2>1 DEF EnqueueCall, EnqueueFull
  <2>2. CASE EnqueueLock(p)
    BY <2>2 DEF EnqueueLock, EnqueueReturn
  <2>3. CASE EnqueueStore(p)
    BY <2>3 DEF EnqueueStore, EnqueueReturn
  <2>4. CASE EnqueueReset(p)
    BY <2>4 DEF EnqueueReset, EnqueueReturn
  <2>5. CASE EnqueueClear(p)
    BY <2>5 DEF EnqueueClear, EnqueueReturn
  <2> QED
    BY <1>2, <2>1, <2>2, <2>3, <2>4, <2>5 DEF Enqueue
<1>3. CASE Dequeue
  <2>1. CASE DequeueLock \/ DequeueElement \/ DequeueBlock \/ DequeueWait \/ DequeueAwake \/ DequeueRelock
    BY <2>1 DEF DequeueLock, DequeueElement, DequeueBlock, DequeueWait, DequeueAwake, DequeueRelock
  <2>2. CASE DequeueDeliver
    BY <2>2 DEF DequeueDeliver, DequeueReturn
  <2>3. CASE DequeueDrop
    BY <2>3 DEF DequeueDrop, DequeueReturn
  <2> QED
    BY <1>3, <2>1, <2>2, <2>3 DEF Dequeue
<1>4. CASE FindNack
  <2>1. CASE AckGetBatchID \/ AckLock \/ AckWoken \/ AckInfo \/ AckStartBatch \/ AckAssert \/ AckVisit \/ AckDrop \/ AckExtra \/ AckOverflow \/ SendDataAck
    BY <2>1 DEF AckGetBatchID, AckLock, AckWoken, AckInfo, AckStartBatch, AckAssert, AckVisit, AckDrop, AckExtra, AckOverflow, SendDataAck
  <2>2. CASE AckLabel
    BY <2>2 DEF AckLabel, Label
  <2>3. CASE AckGiveUp
    BY <2>3 DEF AckGiveUp, Label
  <2> QED
    BY <1>4, <2>1, <2>2, <2>3 DEF FindNack
<1>5. CASE SpuriousWakeup
  BY <1>5 DEF SpuriousWakeup
<1>6. CASE UNCHANGED vars
  BY <1>6 DEF vars
<1> QED
  BY <1>1, <1>2, <1>3, <1>4, <1>5, <1>6 DEF Next, Aborted

\* The sets of waiting threads keep their types.
LEMMA WaitType ==
    ASSUME TypeOK, [Next]_vars
    PROVE  WaitTypeOK'
<1> USE RingAssumption DEF TypeOK, WaitTypeOK, Threads, condVars, SignalFill, SignalEmpty, SignalElementAvail
<1>1. CASE Receive
  <2>1. CASE NewBatch \/ PacketOfBatch \/ BatchDecoded \/ BatchTimeOut
    BY <2>1 DEF NewBatch, PacketOfBatch, BatchDecoded, BatchTimeOut
  <2> QED
    BY <1>1, <2>1 DEF Receive
<1>2. ASSUME NEW p \in Producers, Enqueue(p)
      PROVE  WaitTypeOK'
  <2>1. CASE EnqueueCall(p) \/ EnqueueLock(p)
    BY <2>1 DEF EnqueueCall, EnqueueLock
  <2>2. CASE EnqueueFull(p)
    BY <2>2, WokenSubset DEF EnqueueFull
  <2>3. CASE EnqueueStore(p)
    BY <2>3, WokenSubset DEF EnqueueStore, StoreElement
  <2>4. CASE EnqueueReset(p)
    BY <2>4, WokenSubset DEF EnqueueReset, EnqueueReturn
  <2>5. CASE EnqueueClear(p)
    BY <2>5, WokenSubset DEF EnqueueClear, EnqueueReturn
  <2> QED
    BY <1>2, <2>1, <2>2, <2>3, <2>4, <2>5 DEF Enqueue
<1>3. CASE Dequeue
  <2>1. CASE DequeueElement \/ DequeueBlock \/ DequeueWait \/ DequeueAwake \/ DequeueRelock
    BY <2>1 DEF DequeueElement, DequeueBlock, DequeueWait, DequeueAwake, DequeueRelock
  <2>2. CASE DequeueLock
    BY <2>2, WokenSubset DEF DequeueLock
  <2>3. CASE DequeueDeliver
    BY <2>3, WokenSubset DEF DequeueDeliver, DequeueReturn
  <2>4. CASE DequeueDrop
    BY <2>4, WokenSubset DEF DequeueDrop, DequeueReturn
  <2> QED
    BY <1>3, <2>1, <2>2, <2>3, <2>4 DEF Dequeue
<1>4. CASE FindNack
  <2>1. CASE AckGetBatchID \/ AckInfo \/ AckStartBatch \/ AckAssert \/ AckVisit \/ AckDrop \/ AckExtra \/ AckOverflow \/ SendDataAck
    BY <2>1 DEF AckGetBatchID, AckInfo, AckStartBatch, AckAssert, AckVisit, AckDrop, AckExtra, AckOverflow, SendDataAck
  <2>5. CASE AckLock
    BY <2>5 DEF AckLock
  <2>2. CASE AckWoken
    BY <2>2, WokenSubset DEF AckWoken, PassOnFill
  <2>3. CASE AckLabel
    BY <2>3, WokenSubset DEF AckLabel, Label
  <2>4. CASE AckGiveUp
    BY <2>4, WokenSubset DEF AckGiveUp, Label
  <2> QED
    BY <1>4, <2>1, <2>2, <2>3, <2>4, <2>5 DEF FindNack
<1>5. CASE SpuriousWakeup
  BY <1>5 DEF SpuriousWakeup
<1>6. CASE UNCHANGED vars
  BY <1>6 DEF vars
<1> QED
  BY <1>1, <1>2, <1>3, <1>4, <1>5, <1>6 DEF Next, Aborted

\* The remaining variables keep their types.
LEMMA OtherType ==
    ASSUME TypeOK, [Next]_vars
    PROVE  OtherTypeOK'
<1> USE RingAssumption DEF TypeOK, OtherTypeOK, BatchTypeOK, batchVars, ackVars
<1>1. CASE Receive
  <2>1. CASE NewBatch
    <3>1. Smaller(MaxSeq, head + MAX_AHEAD) \in Nat
      BY DEF Smaller
    <3>2. PICK seq \in highest_decoded_seq .. Smaller(MaxSeq, head + MAX_AHEAD) :
              SetBatchInfo(batch_id + 1, seq)
      BY <2>1 DEF NewBatch
    <3>3. seq \in Nat
      BY <3>1, <3>2
    <3>4. BatchTypeOK'
      <4>1. /\ batch_id' = batch_id + 1 /\ highest_decoded_seq' = seq
            /\ decoding_done' = FALSE /\ time_out' = FALSE
        BY <3>2 DEF SetBatchInfo
      <4>2. batch_id' \in Nat /\ highest_decoded_seq' \in Nat
        BY <3>3, <4>1
      <4> QED
        BY <4>1, <4>2
    <3>5. UNCHANGED <<batch_id_prev, due, aborted, last_out>>
      BY <2>1 DEF NewBatch
    <3> QED
      BY <3>4, <3>5
  <2>2. CASE PacketOfBatch
    BY <2>2 DEF PacketOfBatch, UpdateTimeLeft
  <2>3. CASE BatchDecoded
    BY <2>3 DEF BatchDecoded, SetDecodingDone
  <2>4. CASE BatchTimeOut
    BY <2>4 DEF BatchTimeOut, TimeOut
  <2> QED
    BY <1>1, <2>1, <2>2, <2>3, <2>4 DEF Receive
<1>2. ASSUME NEW p \in Producers, Enqueue(p)
      PROVE  OtherTypeOK'
  <2>1. CASE EnqueueCall(p) \/ EnqueueLock(p) \/ EnqueueFull(p) \/ EnqueueStore(p) \/ EnqueueReset(p) \/ EnqueueClear(p)
    BY <2>1 DEF EnqueueCall, EnqueueLock, EnqueueFull, EnqueueStore, EnqueueReset, EnqueueClear
  <2> QED
    BY <1>2, <2>1 DEF Enqueue
<1>3. CASE Dequeue
  <2>1. CASE DequeueLock \/ DequeueElement \/ DequeueBlock \/ DequeueWait \/ DequeueAwake \/ DequeueRelock
    BY <2>1 DEF DequeueLock, DequeueElement, DequeueBlock, DequeueWait, DequeueAwake, DequeueRelock
  <2>2. CASE DequeueDeliver
    BY <2>2 DEF DequeueDeliver, DequeueReturn, DeqLocals
  <2>3. CASE DequeueDrop
    BY <2>3 DEF DequeueDrop, DequeueReturn
  <2> QED
    BY <1>3, <2>1, <2>2, <2>3 DEF Dequeue
<1>4. CASE FindNack
  <2>1. CASE AckGetBatchID \/ AckLock \/ AckWoken \/ AckAssert \/ AckVisit \/ AckDrop \/ AckExtra \/ AckOverflow \/ SendDataAck
    BY <2>1 DEF AckGetBatchID, AckLock, AckWoken, AckAssert, AckVisit, AckDrop, AckExtra, AckOverflow, SendDataAck
  <2>2. CASE AckInfo
    BY <2>2 DEF AckInfo, GetBatchInfo, DecodingDone
  <2>3. CASE AckStartBatch
    BY <2>3 DEF AckStartBatch, Larger
  <2>4. CASE AckLabel
    BY <2>4 DEF AckLabel, Label
  <2>5. CASE AckGiveUp
    BY <2>5 DEF AckGiveUp, Label
  <2> QED
    BY <1>4, <2>1, <2>2, <2>3, <2>4, <2>5 DEF FindNack
<1>5. CASE SpuriousWakeup
  BY <1>5 DEF SpuriousWakeup
<1>6. CASE UNCHANGED vars
  BY <1>6 DEF vars
<1> QED
  BY <1>1, <1>2, <1>3, <1>4, <1>5, <1>6 DEF Next, Aborted

\* The types of the initial state.
LEMMA TypeInit == Init => TypeOK
<1> SUFFICES ASSUME Init PROVE TypeOK
  OBVIOUS
<1> USE RingAssumption DEF Init
<1>1. BatchTypeOK
  BY DEF BatchInit, BatchTypeOK
<1>2. enq \in [Producers -> EnqLocals]
  BY DEF IdleEnq, EnqLocals
<1>3. deq \in DeqLocals /\ ack \in AckLocals
  BY DEF DeqLocals, IdleAck, AckLocals, Slots
<1>4. status \in [Slots -> Status] /\ seqnum \in [Slots -> Nat]
  BY DEF Status
<1>5. elock \in [Slots -> {WriteTun, CreateAck, Free}]
  OBVIOUS
<1> QED
  BY <1>1, <1>2, <1>3, <1>4, <1>5 DEF TypeOK

\* Every step keeps every type.
LEMMA TypeStep == TypeOK /\ [Next]_vars => TypeOK'
BY EnqType, DeqType, AckType, RingType, LockType, WaitType, OtherType
   DEF TypeOK, EnqTypeOK, DeqTypeOK, AckTypeOK, RingTypeOK, LockTypeOK, WaitTypeOK,
       OtherTypeOK

\* Every variable keeps its type.
THEOREM TypeCorrect == Spec => []TypeOK
BY TypeInit, TypeStep, PTL DEF Spec

-----------------------------------------------------------------------------
(* The window *)

\* Who is inside the critical section of the queue lock.
QLockInv ==
    /\ \A p \in Producers :
          enq[p].pc \in {"full", "store", "reset", "clear"} <=> qlock = p
    /\ deq.pc \in {"element", "switch"} <=> qlock = WriteTun

\* What EnqueuePkt knows in there.
EnqInv ==
    \A p \in Producers :
        /\ enq[p].pc = "store" => enq[p].seq > head
        /\ enq[p].pc = "clear" => /\ tail <= enq[p].idx
                                  /\ enq[p].idx < enq[p].seq
                                  /\ enq[p].seq <= head + BUF_SIZE

WindowPart == QLockInv /\ EnqInv /\ WindowInv /\ DequeueNotEmpty
WIInv == TypeOK /\ WindowPart

\* The threads of the queue lock are different threads.
LEMMA ThreadsDiffer ==
    /\ WriteTun \notin Producers /\ Free \notin Producers
    /\ WriteTun # Free /\ CreateAck # Free /\ CreateAck # WriteTun
BY ThreadAssumption DEF WriteTun, CreateAck, Free

\* A step that moves no pointer and lets no thread in or out keeps the window.
LEMMA WindowFrame ==
    ASSUME WindowPart, UNCHANGED <<head, tail, qlock, enq, deq>>
    PROVE  WindowPart'
BY DEF WindowPart, QLockInv, EnqInv, WindowInv, DequeueNotEmpty

\* What a step of producer p leaves to the others: it is alone in there.
LEMMA EnqueueWindow ==
    ASSUME WIInv, NEW p \in Producers, Enqueue(p)
    PROVE  WindowPart'
<1> USE RingAssumption, ThreadsDiffer
    DEF WIInv, WindowPart, TypeOK, EnqLocals, QLockInv, EnqInv, WindowInv,
        DequeueNotEmpty, EnqAt
<1>1. CASE EnqueueCall(p)
  BY <1>1 DEF EnqueueCall, ringVars
<1>2. CASE EnqueueLock(p)
  BY <1>2 DEF EnqueueLock, EnqueueReturn, IdleEnq, IsStale, ringVars
<1>3. CASE EnqueueFull(p)
  BY <1>3 DEF EnqueueFull
<1>4. CASE EnqueueStore(p)
  BY <1>4 DEF EnqueueStore, EnqueueReturn, IdleEnq, IsWrap, WrapPointers
<1>5. CASE EnqueueReset(p)
  BY <1>5 DEF EnqueueReset, EnqueueReturn, IdleEnq
<1>6. CASE EnqueueClear(p)
  BY <1>6 DEF EnqueueClear, EnqueueReturn, IdleEnq
<1> QED
  BY <1>1, <1>2, <1>3, <1>4, <1>5, <1>6 DEF Enqueue

\* The steps of RxWriteTun keep the window: it is alone when it moves head_pt.
LEMMA DequeueWindow ==
    ASSUME WIInv, Dequeue
    PROVE  WindowPart'
<1> USE RingAssumption, ThreadsDiffer
    DEF WIInv, WindowPart, TypeOK, DeqLocals, QLockInv, EnqInv, WindowInv,
        DequeueNotEmpty, DeqAt
<1>1. CASE DequeueLock
  BY <1>1 DEF DequeueLock, IsEmpty, ringVars
<1>2. CASE DequeueElement
  BY <1>2 DEF DequeueElement, ringVars
<1>3. CASE DequeueBlock
  BY <1>3 DEF DequeueBlock
<1>4. CASE DequeueWait
  BY <1>4 DEF DequeueWait, ringVars
<1>5. CASE DequeueAwake
  BY <1>5 DEF DequeueAwake, ringVars
<1>6. CASE DequeueRelock
  BY <1>6 DEF DequeueRelock, ringVars
<1>7. CASE DequeueDeliver \/ DequeueDrop
  BY <1>7 DEF DequeueDeliver, DequeueDrop, DequeueReturn
<1> QED
  BY <1>1, <1>2, <1>3, <1>4, <1>5, <1>6, <1>7 DEF Dequeue

\* Every step keeps the window.
LEMMA WindowStep == WIInv /\ [Next]_vars => WIInv'
<1> SUFFICES ASSUME WIInv, [Next]_vars PROVE WindowPart'
  BY TypeStep DEF WIInv
<1>1. CASE Receive
  BY <1>1, WindowFrame DEF WIInv, Receive, NewBatch, PacketOfBatch, BatchDecoded,
     BatchTimeOut, ringVars
<1>2. ASSUME NEW p \in Producers, Enqueue(p)
      PROVE  WindowPart'
  BY <1>2, EnqueueWindow
<1>3. CASE Dequeue
  BY <1>3, DequeueWindow
<1>4. CASE FindNack
  BY <1>4, WindowFrame DEF WIInv, FindNack, AckGetBatchID, AckLock, AckWoken, AckInfo,
     AckStartBatch, AckAssert, AckVisit, AckDrop, AckLabel, Label, AckExtra,
     AckOverflow, AckGiveUp, SendDataAck, ringVars
<1>5. CASE SpuriousWakeup
  BY <1>5, WindowFrame DEF WIInv, SpuriousWakeup, ringVars
<1>6. CASE UNCHANGED vars
  BY <1>6, WindowFrame DEF WIInv, vars, ringVars
<1> QED
  BY <1>1, <1>2, <1>3, <1>4, <1>5, <1>6 DEF Next, Aborted

\* The window of the empty queue.
LEMMA WindowInit == Init => WIInv
<1> SUFFICES ASSUME Init PROVE WindowPart
  BY TypeInit DEF WIInv
<1> QED
  BY RingAssumption, ThreadsDiffer DEF Init, WindowPart, QLockInv, EnqInv, WindowInv,
     DequeueNotEmpty, IdleEnq

\* The inductive invariant behind the window: who holds the queue lock, where each
\* producer is in its call, and the order of head_pt and tail_pt.
THEOREM WindowInvariant == Spec => []WIInv
BY WindowInit, WindowStep, PTL DEF Spec

\* head_pt never passes tail_pt and the two are at most BUF_SIZE apart.
THEOREM WindowCorrect == Spec => []WindowInv
BY WindowInvariant, PTL DEF WIInv, WindowPart

\* RxWriteTun never finds the queue empty again in the middle of a call.
THEOREM DequeueFindsPacket == Spec => []DequeueNotEmpty
BY WindowInvariant, PTL DEF WIInv, WindowPart

-----------------------------------------------------------------------------
\* Who owns a slot.
ELockInv ==
    /\ deq.pc \in {"switch", "gap"} => elock[deq.idx] = WriteTun
    /\ ack.pc \in {"drop", "label"} => elock[ack.idx % BUF_SIZE] = CreateAck
    /\ ack.pc = "giveup" => \A s \in ack.nacks :
          IsFirstNack(s) => elock[Seq2Ind(s)] = CreateAck

\* Between the two writes that give a packet up, nothing is stored in its slot.
GiveUpInv ==
    /\ ack.pc = "label" => status[ack.idx % BUF_SIZE] \in {"kDrop", "kEmpty"}
    /\ ack.pc = "giveup" => \A s \in ack.nacks :
          IsFirstNack(s) => status[Seq2Ind(s)] \in {"kDrop", "kEmpty"}

\* A slot is labelled with a sequence number of its own.
SeqnumOwn == \A i \in Slots : seqnum[i] # 0 => Seq2Ind(seqnum[i]) = i

\* RxWriteTun goes to the slot of head_pt + 1: directly, or because the slot it
\* slept on is labelled with that number.
HeadSlot == deq.pc \in {"element", "switch"} => deq.idx = head % BUF_SIZE

\* The slots a wrap-around has not reset yet.
Unreset(i) ==
    \E p \in Producers :
        enq[p].pc = "reset" /\ enq[p].idx <= i /\ i # Seq2Ind(enq[p].seq)

\* An undelivered packet lies ahead of head_pt, or it is a survivor of a
\* wrap-around, which is next and newer than anything delivered.
OccupiedInv ==
    /\ last_out <= head
    /\ \A i \in Slots : status[i] = "kOccupiedNew" =>
          /\ seqnum[i] # 0
          /\ seqnum[i] <= head + BUF_SIZE
          /\ ~Unreset(i) => \/ seqnum[i] > head
                            \/ i = head % BUF_SIZE /\ seqnum[i] > last_out

\* No delivered packet of the lap before in the window, nor in the part of it
\* that is being added.
ReadInv ==
    /\ NoStaleRead
    /\ \A p \in Producers : enq[p].pc = "clear" =>
          \A s \in tail + 1 .. enq[p].idx : status[Seq2Ind(s)] # "kRead"

-----------------------------------------------------------------------------
(* Sequence numbers and slots *)

\* Division with remainder.
LEMMA ModDiv ==
    ASSUME NEW n \in Nat \ {0}, NEW a \in Int
    PROVE  a = n * (a \div n) + (a % n) /\ a \div n \in Int
OBVIOUS

\* A positive multiple of the ring size is at least the ring size.
LEMMA PositiveMultiple ==
    ASSUME NEW n \in Nat \ {0}, NEW d \in Int, n * d > 0
    PROVE  n * d >= n
<1>1. d >= 1
  OBVIOUS
<1> QED
  BY <1>1

\* Numbers less than a ring size apart have different remainders.
LEMMA ModDiffer ==
    ASSUME NEW n \in Nat \ {0}, NEW a \in Int, NEW b \in Int, a < b, b < a + n
    PROVE  a % n # b % n
<1> DEFINE q == a \div n
           r == b \div n
<1>1. a = n * q + (a % n) /\ q \in Int
  BY ModDiv
<1>2. b = n * r + (b % n) /\ r \in Int
  BY ModDiv
<1>3. a % n \in Nat /\ b % n \in Nat
  BY ModRange
<1> HIDE DEF q, r
<1>4. SUFFICES ASSUME a % n = b % n PROVE FALSE
  OBVIOUS
<1>5. b - a = n * r - n * q
  BY <1>1, <1>2, <1>3, <1>4
<1>6. n * r - n * q = n * (r - q) /\ r - q \in Int
  BY <1>1, <1>2
<1>7. n * (r - q) > 0 /\ n * (r - q) < n
  BY <1>5, <1>6
<1>8. n * (r - q) >= n /\ n * (r - q) \in Int
  BY <1>6, <1>7, PositiveMultiple
<1> QED
  BY <1>7, <1>8

\* Seq2Ind yields a slot.
LEMMA Seq2IndSlot ==
    ASSUME NEW s \in Int
    PROVE  Seq2Ind(s) \in Slots
BY RingAssumption, ModRange DEF Seq2Ind, Slots

\* The slot at head_pt is the slot of the packet that comes next.
LEMMA Seq2IndNext ==
    ASSUME NEW n \in Nat
    PROVE  Seq2Ind(n + 1) = n % BUF_SIZE /\ n % BUF_SIZE \in Slots
<1>1. n + 1 - 1 = n
  OBVIOUS
<1> QED
  BY <1>1, Seq2IndSlot DEF Seq2Ind

\* Sequence numbers less than a lap apart have different slots.
LEMMA Seq2IndDiffer ==
    ASSUME NEW s \in Int, NEW t \in Int, s < t, t < s + BUF_SIZE
    PROVE  Seq2Ind(s) # Seq2Ind(t)
<1> DEFINE a == s - 1
           b == t - 1
<1>1. a \in Int /\ b \in Int /\ a < b /\ b < a + BUF_SIZE /\ BUF_SIZE \in Nat \ {0}
  BY RingAssumption
<1>2. Seq2Ind(s) = a % BUF_SIZE /\ Seq2Ind(t) = b % BUF_SIZE
  BY DEF Seq2Ind
<1> HIDE DEF a, b
<1>3. a % BUF_SIZE # b % BUF_SIZE
  BY <1>1, ModDiffer
<1> QED
  BY <1>2, <1>3

-----------------------------------------------------------------------------
(* The locks of the slots *)

\* EnqueuePkt writes only to slots nobody has locked, but for the resets.
LEMMA EnqueueWrites ==
    ASSUME WIInv, NEW p \in Producers, Enqueue(p), NEW i \in Slots
    PROVE  /\ UNCHANGED <<elock, ack, deq>>
           /\ status'[i] = status[i] \/ elock[i] = Free \/ status'[i] = "kEmpty"
<1> USE DEF WIInv, TypeOK, ringVars, ackVars
<1>1. CASE EnqueueCall(p) \/ EnqueueLock(p)
  BY <1>1 DEF EnqueueCall, EnqueueLock
<1>2. CASE EnqueueFull(p)
  BY <1>2 DEF EnqueueFull, FullDrop
<1>3. CASE EnqueueStore(p)
  BY <1>3 DEF EnqueueStore, StoreElement
<1>4. CASE EnqueueReset(p)
  BY <1>4 DEF EnqueueReset, ResetOthers, ResetElement
<1>5. CASE EnqueueClear(p)
  BY <1>5 DEF EnqueueClear, ClearElement, ResetElement
<1> QED
  BY <1>1, <1>2, <1>3, <1>4, <1>5 DEF Enqueue

\* RxWriteTun writes only to the slot it has locked.
LEMMA DequeueWrites ==
    ASSUME WIInv, ELockInv, Dequeue, NEW i \in Slots
    PROVE  /\ UNCHANGED ack
           /\ elock[i] = CreateAck => elock'[i] = CreateAck /\ status'[i] = status[i]
           /\ deq'.pc \in {"switch", "gap"} => elock'[deq'.idx] = WriteTun
<1> USE ThreadsDiffer DEF WIInv, TypeOK, ELockInv, DeqLocals, ringVars, ackVars, DeqAt
<1>1. CASE DequeueLock
  BY <1>1 DEF DequeueLock
<1>2. CASE DequeueElement
  BY <1>2 DEF DequeueElement
<1>3. CASE DequeueBlock
  BY <1>3 DEF DequeueBlock
<1>4. CASE DequeueWait
  BY <1>4 DEF DequeueWait
<1>5. CASE DequeueAwake
  BY <1>5 DEF DequeueAwake
<1>6. CASE DequeueRelock
  BY <1>6 DEF DequeueRelock
<1>7. CASE DequeueDeliver
  BY <1>7 DEF DequeueDeliver, DequeueReturn
<1>8. CASE DequeueDrop
  BY <1>8 DEF DequeueDrop, DequeueReturn, ResetElement
<1> QED
  BY <1>1, <1>2, <1>3, <1>4, <1>5, <1>6, <1>7, <1>8 DEF Dequeue

\* A slot is locked by the thread that is at work on it, after every step.
LEMMA ELockStep ==
    ASSUME WIInv, ELockInv, GiveUpInv, [Next]_vars
    PROVE  ELockInv' /\ GiveUpInv'
<1> USE DEF WIInv, TypeOK
<1>0. /\ ack.idx % BUF_SIZE \in Slots
      /\ \A s \in ack.nacks : s \in Int /\ Seq2Ind(s) \in Slots
  <2>1. ack.idx \in Nat /\ ack.nacks \subseteq Nat
    BY DEF AckLocals
  <2> QED
    BY <2>1, Seq2IndNext, Seq2IndSlot
<1>1. CASE UNCHANGED <<deq, ack, elock, status>>
  BY <1>1 DEF ELockInv, GiveUpInv, IsFirstNack
<1>2. ASSUME NEW p \in Producers, Enqueue(p)
      PROVE  ELockInv' /\ GiveUpInv'
  <2>1. UNCHANGED <<elock, ack, deq>>
    BY <1>0, <1>2, EnqueueWrites
  <2>2. \A i \in Slots :
            status'[i] = status[i] \/ elock[i] = Free \/ status'[i] = "kEmpty"
    BY <1>2, EnqueueWrites
  <2>3. ELockInv'
    BY <2>1 DEF ELockInv, IsFirstNack
  <2>4. GiveUpInv'
    BY <1>0, <2>1, <2>2, ThreadsDiffer DEF ELockInv, GiveUpInv, IsFirstNack
  <2> QED
    BY <2>3, <2>4
<1>3. CASE Dequeue
  <2>1. UNCHANGED ack /\ (deq'.pc \in {"switch", "gap"} => elock'[deq'.idx] = WriteTun)
    BY <1>0, <1>3, DequeueWrites
  <2>2. \A i \in Slots :
            elock[i] = CreateAck => elock'[i] = CreateAck /\ status'[i] = status[i]
    BY <1>3, DequeueWrites
  <2> QED
    BY <1>0, <2>1, <2>2 DEF ELockInv, GiveUpInv, IsFirstNack
<1>4. CASE FindNack
  <2> USE ThreadsDiffer DEF AckLocals, DeqLocals, AckAt, ringVars
  <2>1. CASE AckGetBatchID \/ AckLock \/ AckWoken \/ AckInfo \/ AckStartBatch \/ AckAssert
    <3>1. UNCHANGED <<deq, elock>>
      BY <2>1 DEF AckGetBatchID, AckLock, AckWoken, AckInfo, AckStartBatch, AckAssert
    <3>2. ack'.pc \notin {"drop", "label", "giveup"}
      <4>1. CASE AckGetBatchID \/ AckLock \/ AckWoken
        BY <4>1 DEF AckGetBatchID, AckLock, AckWoken, AckSnapshot
      <4>2. CASE AckInfo
        BY <4>2 DEF AckInfo
      <4>3. CASE AckStartBatch \/ AckAssert
        BY <4>3 DEF AckStartBatch, AckAssert
      <4> QED
        BY <2>1, <4>1, <4>2, <4>3
    <3> QED
      BY <3>1, <3>2 DEF ELockInv, GiveUpInv
  <2>2. CASE AckVisit
    <3>1. \/ ack'.pc = "visit" /\ UNCHANGED elock
          \/ /\ ack'.pc = "drop" /\ ack'.idx = ack.idx
             /\ elock[ack.idx % BUF_SIZE] = Free
             /\ elock' = [elock EXCEPT ![ack.idx % BUF_SIZE] = CreateAck]
      BY <2>2 DEF AckVisit
    <3>2. UNCHANGED deq
      BY <2>2 DEF AckVisit
    <3>3. CASE ack'.pc = "visit" /\ UNCHANGED elock
      BY <3>2, <3>3 DEF ELockInv, GiveUpInv
    <3>4. CASE /\ ack'.pc = "drop" /\ ack'.idx = ack.idx
               /\ elock[ack.idx % BUF_SIZE] = Free
               /\ elock' = [elock EXCEPT ![ack.idx % BUF_SIZE] = CreateAck]
      <4>1. elock'[ack'.idx % BUF_SIZE] = CreateAck
        BY <1>0, <3>4
      <4>2. deq'.pc \in {"switch", "gap"} => elock'[deq'.idx] = WriteTun
        BY <3>2, <3>4 DEF ELockInv
      <4> QED
        BY <3>4, <4>1, <4>2 DEF ELockInv, GiveUpInv
    <3> QED
      BY <3>1, <3>3, <3>4
  <2>3. CASE AckDrop
    BY <1>0, <2>3 DEF AckDrop, ELockInv, GiveUpInv
  <2>4. CASE AckLabel
    BY <1>0, <2>4 DEF AckLabel, Label, ELockInv, GiveUpInv
  <2>5. CASE AckExtra
    BY <2>5 DEF AckExtra, ELockInv, GiveUpInv
  <2>6. CASE AckOverflow
    BY <1>0, <2>6 DEF AckOverflow, ELockInv, GiveUpInv, IsFirstNack
  <2>7. CASE AckGiveUp
    BY <1>0, <2>7 DEF AckGiveUp, Label, ELockInv, GiveUpInv
  <2>8. CASE SendDataAck
    BY <2>8 DEF SendDataAck, IdleAck, ELockInv, GiveUpInv
  <2> QED
    BY <1>4, <2>1, <2>2, <2>3, <2>4, <2>5, <2>6, <2>7, <2>8 DEF FindNack
<1>5. CASE Receive \/ SpuriousWakeup \/ UNCHANGED vars
  BY <1>1, <1>5 DEF Receive, NewBatch, PacketOfBatch, BatchDecoded, BatchTimeOut,
     SpuriousWakeup, vars, ringVars, ackVars
<1> QED
  BY <1>2, <1>3, <1>4, <1>5 DEF Next, Aborted

-----------------------------------------------------------------------------
(* The labels of the slots *)

\* A slot gets a number of its own, or none.
LEMMA OwnLabel ==
    ASSUME TypeOK, SeqnumOwn, NEW s \in Nat,
           seqnum' = [seqnum EXCEPT ![Seq2Ind(s)] = s]
    PROVE  SeqnumOwn'
BY DEF TypeOK, SeqnumOwn, Seq2Ind

\* Clearing a number keeps every slot with a number of its own.
LEMMA NoLabel ==
    ASSUME TypeOK, SeqnumOwn, NEW i, seqnum' = [seqnum EXCEPT ![i] = 0]
    PROVE  SeqnumOwn'
BY DEF TypeOK, SeqnumOwn, Seq2Ind

\* So does leaving the numbers alone.
LEMMA SameLabel ==
    ASSUME SeqnumOwn, UNCHANGED seqnum
    PROVE  SeqnumOwn'
BY DEF SeqnumOwn, Seq2Ind

\* A slot is only ever labelled with a number that belongs there.
LEMMA SeqnumStep ==
    ASSUME TypeOK, SeqnumOwn, [Next]_vars
    PROVE  SeqnumOwn'
<1>1. ASSUME NEW p \in Producers, Enqueue(p)
      PROVE  SeqnumOwn'
  <2>1. CASE EnqueueCall(p) \/ EnqueueLock(p) \/ EnqueueFull(p)
    BY <2>1, SameLabel DEF EnqueueCall, EnqueueLock, EnqueueFull, ringVars
  <2>2. CASE EnqueueStore(p)
    <3>1. \/ UNCHANGED seqnum
          \/ seqnum' = [seqnum EXCEPT ![Seq2Ind(enq[p].seq)] = enq[p].seq]
      BY <2>2 DEF EnqueueStore, StoreElement
    <3>2. enq[p].seq \in Nat
      BY DEF TypeOK, EnqLocals
    <3> QED
      BY <3>1, <3>2, SameLabel, OwnLabel
  <2>3. CASE EnqueueReset(p)
    BY <2>3, SameLabel, NoLabel DEF EnqueueReset, ResetOthers, ResetElement
  <2>4. CASE EnqueueClear(p)
    BY <2>4, SameLabel, NoLabel DEF EnqueueClear, ClearElement, ResetElement
  <2> QED
    BY <1>1, <2>1, <2>2, <2>3, <2>4 DEF Enqueue
<1>2. CASE Dequeue
  <2>1. CASE DequeueDrop
    BY <2>1, NoLabel DEF DequeueDrop, ResetElement
  <2>2. CASE ~DequeueDrop
    BY <1>2, <2>2, SameLabel DEF Dequeue, DequeueLock, DequeueElement, DequeueBlock,
       DequeueWait, DequeueAwake, DequeueRelock, DequeueDeliver, ringVars
  <2> QED
    BY <2>1, <2>2
<1>3. CASE FindNack
  <2>1. CASE AckLabel
    <3> DEFINE n == ack.idx + 1
    <3>1. ack.idx \in Nat /\ n \in Nat
      BY DEF TypeOK, AckLocals
    <3>2. seqnum' = [seqnum EXCEPT ![Seq2Ind(n)] = n]
      BY <2>1, <3>1, Seq2IndNext DEF AckLabel, Label
    <3> HIDE DEF n
    <3> QED
      BY <3>1, <3>2, OwnLabel
  <2>2. CASE AckGiveUp
    <3>1. ack.nacks \subseteq Nat
      BY DEF TypeOK, AckLocals
    <3> QED
      BY <2>2, <3>1, OwnLabel DEF AckGiveUp, Label
  <2>3. CASE ~AckLabel /\ ~AckGiveUp
    BY <1>3, <2>3, SameLabel DEF FindNack, AckGetBatchID, AckLock, AckWoken, AckInfo,
       AckStartBatch, AckAssert, AckVisit, AckDrop, AckExtra, AckOverflow, SendDataAck,
       ringVars
  <2> QED
    BY <2>1, <2>2, <2>3
<1>4. CASE Receive \/ SpuriousWakeup \/ UNCHANGED vars
  BY <1>4, SameLabel DEF Receive, NewBatch, PacketOfBatch, BatchDecoded, BatchTimeOut,
     SpuriousWakeup, vars, ringVars
<1> QED
  BY <1>1, <1>2, <1>3, <1>4 DEF Next, Aborted

\* RxWriteTun, inside the queue, works on the slot at head_pt.
LEMMA HeadSlotStep ==
    ASSUME WIInv, SeqnumOwn, HeadSlot, [Next]_vars
    PROVE  HeadSlot'
<1> USE ThreadsDiffer DEF WIInv, TypeOK, DeqLocals, HeadSlot
<1>1. CASE UNCHANGED <<head, deq>>
  BY <1>1
<1>2. ASSUME NEW p \in Producers, Enqueue(p)
      PROVE  HeadSlot'
  <2>1. UNCHANGED deq /\ (UNCHANGED head \/ qlock = p)
    BY <1>2 DEF Enqueue, EnqueueCall, EnqueueLock, EnqueueFull, EnqueueStore,
       EnqueueReset, EnqueueClear, EnqAt, WindowPart, QLockInv, ringVars
  <2> QED
    BY <2>1 DEF WindowPart, QLockInv
<1>3. CASE Dequeue
  <2>1. CASE DequeueLock \/ DequeueElement \/ DequeueBlock \/ DequeueWait \/ DequeueAwake
    BY <2>1 DEF DequeueLock, DequeueElement, DequeueBlock, DequeueWait, DequeueAwake,
       DeqAt, ringVars
  <2>2. CASE DequeueRelock
    <3>1. CASE seqnum[deq.idx] # head + 1
      BY <2>2, <3>1 DEF DequeueRelock, ringVars
    <3>2. CASE seqnum[deq.idx] = head + 1
      <4>1. seqnum[deq.idx] # 0
        BY <3>2
      <4>2. Seq2Ind(head + 1) = deq.idx
        BY <3>2, <4>1 DEF SeqnumOwn
      <4>3. deq.idx = head % BUF_SIZE
        BY <4>2, Seq2IndNext
      <4> QED
        BY <2>2, <3>2, <4>3 DEF DequeueRelock, ringVars
    <3> QED
      BY <3>1, <3>2
  <2>3. CASE DequeueDeliver \/ DequeueDrop
    BY <2>3 DEF DequeueDeliver, DequeueDrop, DequeueReturn
  <2> QED
    BY <1>3, <2>1, <2>2, <2>3 DEF Dequeue
<1>4. CASE FindNack
  BY <1>1, <1>4 DEF FindNack, AckGetBatchID, AckLock, AckWoken, AckInfo, AckStartBatch,
     AckAssert, AckVisit, AckDrop, AckLabel, Label, AckExtra, AckOverflow, AckGiveUp,
     SendDataAck, ringVars
<1>5. CASE Receive \/ SpuriousWakeup \/ UNCHANGED vars
  BY <1>1, <1>5 DEF Receive, NewBatch, PacketOfBatch, BatchDecoded, BatchTimeOut,
     SpuriousWakeup, vars, ringVars
<1> QED
  BY <1>2, <1>3, <1>4, <1>5 DEF Next, Aborted

-----------------------------------------------------------------------------
(* The packets in the buffer *)

OrderInv == WIInv /\ ELockInv /\ GiveUpInv /\ SeqnumOwn /\ HeadSlot /\ OccupiedInv

\* A step that moves nothing and stores nothing.
LEMMA OccupiedFrame ==
    ASSUME OccupiedInv, UNCHANGED <<head, last_out>>,
           \A i \in Slots : Unreset(i) => Unreset(i)',
           \A i \in Slots : status'[i] = "kOccupiedNew" =>
               status[i] = "kOccupiedNew" /\ seqnum'[i] = seqnum[i]
    PROVE  OccupiedInv'
BY DEF OccupiedInv

\* The slots still to be reset depend on the producers only.
LEMMA SameUnreset ==
    ASSUME UNCHANGED enq
    PROVE  \A i \in Slots : Unreset(i) => Unreset(i)'
BY DEF Unreset, Seq2Ind

\* Only the owner of the queue lock resets.
LEMMA OnlyOwnerResets ==
    ASSUME WIInv, NEW i \in Slots, Unreset(i)
    PROVE  \E p \in Producers : qlock = p /\ enq[p].pc = "reset"
BY DEF WIInv, WindowPart, QLockInv, Unreset

\* Storing a packet keeps what is known of the occupied slots.
LEMMA StoreOccupied ==
    ASSUME OrderInv, NEW p \in Producers, EnqueueStore(p)
    PROVE  OccupiedInv'
<1> USE RingAssumption DEF OrderInv, WIInv
<1> DEFINE seq == enq[p].seq
           j   == Seq2Ind(seq)
<1>1. seq \in Nat /\ seq > head /\ head \in Nat /\ last_out \in Nat /\ j \in Slots
  <2>1. seq \in Nat /\ head \in Nat /\ last_out \in Nat
    BY DEF TypeOK, EnqLocals
  <2> QED
    BY <2>1, Seq2IndSlot DEF EnqueueStore, EnqAt, WindowPart, EnqInv
<1>2. qlock = p /\ enq[p].pc = "store"
  BY DEF EnqueueStore, EnqAt, WindowPart, QLockInv
<1>3. \A i \in Slots : ~Unreset(i)
  BY <1>2, OnlyOwnerResets
<1>4. /\ UNCHANGED last_out
      /\ \A i \in Slots : i # j => status'[i] = status[i] /\ seqnum'[i] = seqnum[i]
      /\ status[j] = "kOccupiedNew" => seqnum'[j] = seqnum[j]
      /\ status[j] # "kOccupiedNew" => seqnum'[j] = seq
  BY <1>1 DEF EnqueueStore, StoreElement, TypeOK
<1>5. \A i \in Slots : status[i] = "kOccupiedNew" =>
          /\ seqnum[i] \in Nat /\ seqnum[i] # 0 /\ seqnum[i] <= head + BUF_SIZE
          /\ seqnum[i] > head \/ (i = head % BUF_SIZE /\ seqnum[i] > last_out)
  BY <1>3 DEF OccupiedInv, TypeOK
<1>6. last_out <= head
  BY DEF OccupiedInv
<1>7. CASE ~IsWrap(p)
  <2>1. UNCHANGED head /\ seq <= head + BUF_SIZE
    BY <1>1, <1>7 DEF EnqueueStore, IsWrap
  <2>2. ASSUME NEW i \in Slots, status'[i] = "kOccupiedNew"
        PROVE  /\ seqnum'[i] # 0 /\ seqnum'[i] <= head + BUF_SIZE
               /\ seqnum'[i] > head \/ (i = head % BUF_SIZE /\ seqnum'[i] > last_out)
    <3>1. CASE status[i] = "kOccupiedNew"
      BY <1>4, <1>5, <3>1
    <3>2. CASE status[i] # "kOccupiedNew"
      BY <1>1, <1>4, <2>1, <2>2, <3>2
    <3> QED
      BY <3>1, <3>2
  <2> QED
    BY <1>4, <1>6, <2>1, <2>2 DEF OccupiedInv
<1>8. CASE IsWrap(p)
  <2>1. head' = seq - 1 /\ seq > head + BUF_SIZE
    BY <1>8 DEF EnqueueStore, IsWrap, WrapPointers
  <2>2. enq' = [enq EXCEPT ![p].pc = "reset", ![p].idx = 0]
    BY <1>8 DEF EnqueueStore
  <2>3. \A i \in Slots : i # j => Unreset(i)'
    <3>1. enq'[p].pc = "reset" /\ enq'[p].idx = 0 /\ enq'[p].seq = seq
      BY <2>2 DEF TypeOK, EnqLocals
    <3> QED
      BY <3>1 DEF Unreset, Slots, Seq2Ind
  <2>4. j = head' % BUF_SIZE
    <3>1. head' \in Nat /\ seq = head' + 1
      BY <1>1, <2>1
    <3> QED
      BY <3>1, Seq2IndNext
  <2>5. ASSUME NEW i \in Slots, status'[i] = "kOccupiedNew"
        PROVE  /\ seqnum'[i] # 0 /\ seqnum'[i] <= head' + BUF_SIZE
               /\ i = j => seqnum'[i] > head' \/ seqnum'[i] > last_out
    <3>1. CASE status[i] = "kOccupiedNew"
      <4>1. seqnum'[i] = seqnum[i] /\ seqnum[i] \in Nat /\ seqnum[i] # 0
        BY <1>4, <1>5, <3>1
      <4>2. seqnum[i] > last_out /\ seqnum[i] <= head' + BUF_SIZE
        BY <1>1, <1>5, <1>6, <2>1, <3>1
      <4> QED
        BY <4>1, <4>2
    <3>2. CASE status[i] # "kOccupiedNew"
      <4>1. i = j /\ seqnum'[i] = seq
        BY <1>4, <2>5, <3>2
      <4> QED
        BY <1>1, <2>1, <4>1
    <3> QED
      BY <3>1, <3>2
  <2>6. last_out' <= head'
    BY <1>1, <1>4, <1>6, <2>1
  <2> QED
    BY <1>4, <2>3, <2>4, <2>5, <2>6 DEF OccupiedInv
<1> QED
  BY <1>7, <1>8

\* A reset goes on with the next slot.
LEMMA ResetLater ==
    ASSUME WIInv, NEW p \in Producers, EnqueueReset(p), NEW i \in Slots, Unreset(i),
           i = enq[p].idx => i = Seq2Ind(enq[p].seq)
    PROVE  Unreset(i)'
<1> USE RingAssumption DEF WIInv, TypeOK, EnqLocals
<1>1. enq[p].pc = "reset" /\ enq[p].idx \in Nat
  BY DEF EnqueueReset, EnqAt
<1>2. PICK q \in Producers :
          enq[q].pc = "reset" /\ enq[q].idx <= i /\ i # Seq2Ind(enq[q].seq)
  BY DEF Unreset
<1>3. q = p
  BY <1>1, <1>2 DEF WindowPart, QLockInv
<1>4. enq[p].idx < i /\ enq[p].idx < BUF_SIZE - 1
  BY <1>1, <1>2, <1>3 DEF Slots
<1>5. enq' = [enq EXCEPT ![p].idx = enq[p].idx + 1]
  BY <1>4 DEF EnqueueReset
<1>6. enq'[p].pc = "reset" /\ enq'[p].idx = enq[p].idx + 1 /\ enq'[p].seq = enq[p].seq
  BY <1>1, <1>5
<1>7. enq'[p].idx <= i
  BY <1>1, <1>4, <1>6 DEF Slots
<1> QED
  BY <1>2, <1>3, <1>6, <1>7 DEF Unreset, Seq2Ind

\* So does each reset of a wrap-around.
LEMMA ResetOccupied ==
    ASSUME OrderInv, NEW p \in Producers, EnqueueReset(p)
    PROVE  OccupiedInv'
<1> USE RingAssumption DEF OrderInv, WIInv, TypeOK, EnqLocals
<1> DEFINE j == Seq2Ind(enq[p].seq)
<1>1. UNCHANGED <<head, last_out>>
  BY DEF EnqueueReset
<1>2. enq[p].pc = "reset" /\ enq[p].idx \in Nat
  BY DEF EnqueueReset, EnqAt
<1>3. ASSUME NEW i \in Slots, status'[i] = "kOccupiedNew"
      PROVE  /\ status[i] = "kOccupiedNew" /\ seqnum'[i] = seqnum[i]
             /\ i = enq[p].idx => i = j
  BY <1>3 DEF EnqueueReset, ResetOthers, ResetElement
<1>4. ASSUME NEW i \in Slots, status'[i] = "kOccupiedNew", Unreset(i)
      PROVE  Unreset(i)'
  BY <1>3, <1>4, ResetLater
<1> QED
  BY <1>1, <1>3, <1>4 DEF OccupiedInv

\* So does every step of EnqueuePkt.
LEMMA EnqueueOccupied ==
    ASSUME OrderInv, NEW p \in Producers, Enqueue(p)
    PROVE  OccupiedInv'
<1> USE DEF OrderInv
<1>1. CASE EnqueueCall(p) \/ EnqueueLock(p) \/ EnqueueFull(p) \/ EnqueueClear(p)
  <2>1. UNCHANGED <<head, last_out>>
    BY <1>1 DEF EnqueueCall, EnqueueLock, EnqueueFull, EnqueueClear, ringVars
  <2>2. \A i \in Slots : status'[i] = "kOccupiedNew" =>
            status[i] = "kOccupiedNew" /\ seqnum'[i] = seqnum[i]
    BY <1>1 DEF EnqueueCall, EnqueueLock, EnqueueFull, EnqueueClear, FullDrop,
       ClearElement, ResetElement, ringVars, WIInv, TypeOK
  <2>3. enq[p].pc # "reset" /\ \A q \in Producers : q # p => enq'[q] = enq[q]
    BY <1>1 DEF EnqueueCall, EnqueueLock, EnqueueFull, EnqueueClear, EnqueueReturn,
       EnqAt, WIInv, TypeOK
  <2>4. \A i \in Slots : Unreset(i) => Unreset(i)'
    BY <2>3 DEF Unreset, Seq2Ind
  <2> QED
    BY <2>1, <2>2, <2>4, OccupiedFrame
<1>2. CASE EnqueueStore(p)
  BY <1>2, StoreOccupied
<1>3. CASE EnqueueReset(p)
  BY <1>3, ResetOccupied
<1> QED
  BY <1>1, <1>2, <1>3 DEF Enqueue

\* What RxWriteTun finds at the head, and what is left when it has moved on.
LEMMA HeadPacket ==
    ASSUME OrderInv, DeqAt("switch")
    PROVE  /\ deq.idx \in Slots /\ qlock = WriteTun
           /\ status[deq.idx] = "kOccupiedNew" =>
                 seqnum[deq.idx] > last_out /\ seqnum[deq.idx] <= head + 1
           /\ \A i \in Slots : status[i] = "kOccupiedNew" /\ i # deq.idx =>
                 seqnum[i] > head + 1
<1> USE RingAssumption DEF OrderInv, WIInv, TypeOK
<1>1. /\ deq.idx \in Slots /\ qlock = WriteTun
      /\ deq.idx = head % BUF_SIZE /\ Seq2Ind(head + 1) = deq.idx
  <2>1. deq.idx \in Slots /\ qlock = WriteTun /\ deq.idx = head % BUF_SIZE
    BY DEF DeqAt, DeqLocals, WindowPart, QLockInv, HeadSlot
  <2> QED
    BY <2>1, Seq2IndNext
<1>2. \A i \in Slots : ~Unreset(i)
  BY <1>1, OnlyOwnerResets, ThreadsDiffer
<1>3. \A i \in Slots : status[i] = "kOccupiedNew" =>
          /\ seqnum[i] \in Nat /\ seqnum[i] # 0 /\ seqnum[i] <= head + BUF_SIZE
          /\ Seq2Ind(seqnum[i]) = i
          /\ seqnum[i] > head \/ (i = deq.idx /\ seqnum[i] > last_out)
  BY <1>1, <1>2 DEF OccupiedInv, SeqnumOwn
<1>4. last_out <= head /\ last_out \in Nat /\ head \in Nat
  BY DEF OccupiedInv
<1>5. ASSUME status[deq.idx] = "kOccupiedNew"
      PROVE  seqnum[deq.idx] > last_out /\ seqnum[deq.idx] <= head + 1
  <2> DEFINE q == seqnum[deq.idx]
  <2>1. q \in Nat /\ q <= head + BUF_SIZE /\ Seq2Ind(q) = deq.idx
        /\ (q > head \/ q > last_out)
    BY <1>1, <1>3, <1>5
  <2> HIDE DEF q
  <2>2. ~(q > head + 1)
    <3>1. SUFFICES ASSUME q > head + 1 PROVE FALSE
      OBVIOUS
    <3>2. head + 1 \in Int /\ q \in Int /\ head + 1 < q /\ q < head + 1 + BUF_SIZE
      BY <1>4, <2>1, <3>1
    <3>3. Seq2Ind(head + 1) # Seq2Ind(q)
      BY <3>2, Seq2IndDiffer
    <3> QED
      BY <1>1, <2>1, <3>3
  <2>3. q > last_out /\ q <= head + 1
    BY <1>4, <2>1, <2>2
  <2> QED
    BY <2>3 DEF q
<1>6. ASSUME NEW i \in Slots, status[i] = "kOccupiedNew", i # deq.idx
      PROVE  seqnum[i] > head + 1
  <2>1. seqnum[i] > head /\ seqnum[i] \in Nat /\ Seq2Ind(seqnum[i]) = i
    BY <1>3, <1>6
  <2>2. seqnum[i] # head + 1
    BY <1>1, <1>6, <2>1
  <2> QED
    BY <1>4, <2>1, <2>2
<1> QED
  BY <1>1, <1>5, <1>6

\* So does every step of DequeuePkt.
LEMMA DequeueOccupied ==
    ASSUME OrderInv, Dequeue
    PROVE  OccupiedInv'
<1> USE RingAssumption DEF OrderInv, WIInv, TypeOK
<1>1. CASE DequeueLock \/ DequeueElement \/ DequeueBlock \/ DequeueWait
           \/ DequeueAwake \/ DequeueRelock
  <2>1. UNCHANGED <<head, last_out, enq, seqnum>>
    BY <1>1 DEF DequeueLock, DequeueElement, DequeueBlock, DequeueWait, DequeueAwake,
       DequeueRelock, ringVars
  <2>2. \A i \in Slots : status'[i] = "kOccupiedNew" => status[i] = "kOccupiedNew"
    BY <1>1 DEF DequeueLock, DequeueElement, DequeueBlock, DequeueWait, DequeueAwake,
       DequeueRelock, ringVars
  <2> QED
    BY <2>1, <2>2, OccupiedFrame, SameUnreset
<1>2. CASE DequeueDeliver \/ DequeueDrop
  <2>1. DeqAt("switch") /\ head' = head + 1
    BY <1>2 DEF DequeueDeliver, DequeueDrop, DequeueReturn
  <2>2. \A i \in Slots : status'[i] = "kOccupiedNew" =>
            i # deq.idx /\ status[i] = "kOccupiedNew" /\ seqnum'[i] = seqnum[i]
    BY <1>2 DEF DequeueDeliver, DequeueDrop, ResetElement
  <2>3. last_out' <= head'
    <3>1. CASE DequeueDeliver
      BY <2>1, <3>1, HeadPacket DEF DequeueDeliver
    <3>2. CASE DequeueDrop
      BY <2>1, <3>2 DEF DequeueDrop, OccupiedInv
    <3> QED
      BY <1>2, <3>1, <3>2
  <2>4. ASSUME NEW i \in Slots, status'[i] = "kOccupiedNew"
        PROVE  seqnum'[i] # 0 /\ seqnum'[i] <= head' + BUF_SIZE /\ seqnum'[i] > head'
    <3>1. seqnum'[i] = seqnum[i] /\ seqnum[i] > head + 1
      BY <2>1, <2>2, <2>4, HeadPacket
    <3>2. seqnum[i] <= head + BUF_SIZE /\ seqnum[i] # 0 /\ seqnum[i] \in Nat
      BY <2>2, <2>4 DEF OccupiedInv
    <3> QED
      BY <2>1, <3>1, <3>2
  <2> QED
    BY <2>3, <2>4 DEF OccupiedInv
<1> QED
  BY <1>1, <1>2 DEF Dequeue

\* So does every step of FindNackSeqNum, which never stores a packet.
LEMMA FindNackOccupied ==
    ASSUME OrderInv, FindNack
    PROVE  OccupiedInv'
<1> USE DEF OrderInv, WIInv, TypeOK
<1>1. UNCHANGED <<head, last_out, enq>>
  BY DEF FindNack, AckGetBatchID, AckLock, AckWoken, AckInfo, AckStartBatch, AckAssert,
     AckVisit, AckDrop, AckLabel, Label, AckExtra, AckOverflow, AckGiveUp, SendDataAck,
     ringVars
<1>2. ASSUME NEW i \in Slots, status'[i] = "kOccupiedNew"
      PROVE  status[i] = "kOccupiedNew" /\ seqnum'[i] = seqnum[i]
  <2>1. CASE AckDrop \/ AckOverflow
    BY <1>2, <2>1 DEF AckDrop, AckOverflow
  <2>2. CASE AckLabel
    BY <1>2, <2>2 DEF AckLabel, Label, AckAt, GiveUpInv
  <2>3. CASE AckGiveUp
    BY <1>2, <2>3 DEF AckGiveUp, Label, AckAt, GiveUpInv
  <2>4. CASE ~AckDrop /\ ~AckOverflow /\ ~AckLabel /\ ~AckGiveUp
    BY <1>2, <2>4 DEF FindNack, AckGetBatchID, AckLock, AckWoken, AckInfo,
       AckStartBatch, AckAssert, AckVisit, AckExtra, SendDataAck, ringVars
  <2> QED
    BY <2>1, <2>2, <2>3, <2>4
<1> QED
  BY <1>1, <1>2, OccupiedFrame, SameUnreset

\* Every step keeps the order invariant.
LEMMA OrderStep == OrderInv /\ [Next]_vars => OrderInv'
<1> SUFFICES ASSUME OrderInv, [Next]_vars PROVE OccupiedInv'
  BY WindowStep, ELockStep, SeqnumStep, HeadSlotStep DEF OrderInv, WIInv
<1>1. CASE Receive \/ SpuriousWakeup \/ UNCHANGED vars
  <2>1. UNCHANGED <<ringVars, enq, last_out>>
    BY <1>1 DEF Receive, NewBatch, PacketOfBatch, BatchDecoded, BatchTimeOut,
       SpuriousWakeup, vars
  <2> QED
    BY <2>1, OccupiedFrame, SameUnreset DEF OrderInv, ringVars
<1> QED
  BY <1>1, EnqueueOccupied, DequeueOccupied, FindNackOccupied DEF Next, Aborted

\* The order invariant of the empty queue.
LEMMA OrderInit == Init => OrderInv
<1> SUFFICES ASSUME Init PROVE OrderInv
  OBVIOUS
<1>1. WIInv
  BY WindowInit
<1>2. ELockInv /\ GiveUpInv
  BY DEF Init, IdleAck, ELockInv, GiveUpInv
<1>3. SeqnumOwn /\ HeadSlot /\ OccupiedInv
  BY DEF Init, SeqnumOwn, HeadSlot, OccupiedInv
<1> QED
  BY <1>1, <1>2, <1>3 DEF OrderInv

\* The inductive invariant behind the order of delivery: what the slots of the
\* window can hold.
THEOREM OrderInvariant == Spec => []OrderInv
BY OrderInit, OrderStep, PTL DEF Spec

\* Every step that marks a packet delivered has delivered a newer one than all
\* before: DequeuePkt hands out each packet at most once and in order.
THEOREM DeliveredInOrder == Spec => DeliverInOrder
<1>1. ASSUME OrderInv, [Next]_vars, NEW i \in Slots,
             status[i] # "kRead", status'[i] = "kRead"
      PROVE  last_out' > last_out
  <2> USE DEF OrderInv, WIInv, TypeOK
  <2>1. CASE DequeueDeliver
    <3>1. DeqAt("switch") /\ status[deq.idx] = "kOccupiedNew" /\ last_out' = seqnum[deq.idx]
      BY <2>1 DEF DequeueDeliver
    <3> QED
      BY <1>1, <3>1, HeadPacket
  <2>2. CASE Dequeue /\ ~DequeueDeliver
    BY <1>1, <2>2 DEF Dequeue, DequeueLock, DequeueElement, DequeueBlock, DequeueWait,
       DequeueAwake, DequeueRelock, DequeueDrop, ResetElement, ringVars
  <2>3. ASSUME NEW p \in Producers, Enqueue(p)
        PROVE  FALSE
    BY <1>1, <2>3 DEF Enqueue, EnqueueCall, EnqueueLock, EnqueueFull, FullDrop,
       EnqueueStore, StoreElement, EnqueueReset, ResetOthers, EnqueueClear,
       ClearElement, ResetElement, ringVars
  <2>4. CASE FindNack
    BY <1>1, <2>4 DEF FindNack, AckGetBatchID, AckLock, AckWoken, AckInfo,
       AckStartBatch, AckAssert, AckVisit, AckDrop, AckLabel, Label, AckExtra,
       AckOverflow, AckGiveUp, SendDataAck, ringVars
  <2>5. CASE Receive \/ SpuriousWakeup \/ UNCHANGED vars
    BY <1>1, <2>5 DEF Receive, NewBatch, PacketOfBatch, BatchDecoded, BatchTimeOut,
       SpuriousWakeup, vars, ringVars
  <2> QED
    BY <1>1, <2>1, <2>2, <2>3, <2>4, <2>5 DEF Next, Aborted
<1>2. OrderInv /\ [Next]_vars =>
          [\A i \in Slots :
              status[i] # "kRead" /\ status'[i] = "kRead" => last_out' > last_out]_vars
  BY <1>1
<1> QED
  BY OrderInvariant, <1>2, PTL DEF Spec, DeliverInOrder

-----------------------------------------------------------------------------
(* The packets of the lap before *)

\* A step that adds nothing to the window and delivers nothing.
LEMMA ReadFrame ==
    ASSUME ReadInv, UNCHANGED <<head, tail>>,
           \A p \in Producers : enq'[p].pc = "clear" => enq'[p] = enq[p],
           \A i \in Slots : status'[i] = "kRead" => status[i] = "kRead",
           TypeOK
    PROVE  ReadInv'
<1>1. \A s \in Int : Seq2Ind(s) \in Slots
  BY Seq2IndSlot
<1>2. \A s \in head + 1 .. tail : status'[Seq2Ind(s)] # "kRead"
  BY <1>1 DEF ReadInv, NoStaleRead, TypeOK
<1>3. \A p \in Producers : enq[p].pc = "clear" =>
          \A s \in tail + 1 .. enq[p].idx : status'[Seq2Ind(s)] # "kRead"
  <2>1. \A p \in Producers : enq[p].idx \in Nat
    BY DEF TypeOK, EnqLocals
  <2> QED
    BY <1>1, <2>1 DEF ReadInv, TypeOK
<1> QED
  BY <1>2, <1>3 DEF ReadInv, NoStaleRead, Seq2Ind

\* Storing a packet leaves no delivered slot in the window.
LEMMA StoreRead ==
    ASSUME WIInv, ReadInv, NEW p \in Producers, EnqueueStore(p)
    PROVE  ReadInv'
<1> USE RingAssumption DEF WIInv, TypeOK
<1> DEFINE seq == enq[p].seq
           j   == Seq2Ind(seq)
<1>1. seq \in Nat /\ seq > head /\ j \in Slots /\ qlock = p
  <2>1. seq \in Nat
    BY DEF EnqLocals
  <2> QED
    BY <2>1, Seq2IndSlot DEF EnqueueStore, EnqAt, WindowPart, QLockInv, EnqInv
<1>2. /\ \A i \in Slots : status'[i] = "kRead" => status[i] = "kRead"
      /\ status'[j] = "kOccupiedNew"
  BY <1>1 DEF EnqueueStore, StoreElement
<1>3. \A s \in Int : Seq2Ind(s) \in Slots
  BY Seq2IndSlot
<1>4. NoStaleRead'
  <2>1. CASE IsWrap(p)
    <3>1. head' = seq - 1 /\ tail' = seq
      BY <2>1 DEF EnqueueStore, WrapPointers
    <3>2. \A s \in head' + 1 .. tail' : s = seq
      BY <1>1, <3>1
    <3> QED
      BY <1>2, <3>2 DEF NoStaleRead, Seq2Ind
  <2>2. CASE ~IsWrap(p)
    <3>1. UNCHANGED <<head, tail>>
      BY <2>2 DEF EnqueueStore
    <3>2. \A s \in head + 1 .. tail : status'[Seq2Ind(s)] # "kRead"
      BY <1>2, <1>3 DEF ReadInv, NoStaleRead
    <3> QED
      BY <3>1, <3>2 DEF NoStaleRead, Seq2Ind
  <2> QED
    BY <2>1, <2>2
<1>5. ASSUME NEW q \in Producers, enq'[q].pc = "clear"
      PROVE  enq'[q].idx = tail /\ UNCHANGED tail
  <2>1. q = p
    BY <1>1, <1>5 DEF EnqueueStore, EnqueueReturn, WindowPart, QLockInv
  <2> QED
    BY <1>5, <2>1 DEF EnqueueStore, EnqueueReturn, IdleEnq, EnqLocals
<1> QED
  BY <1>4, <1>5 DEF ReadInv

\* Clearing delivered slots one by one lets the window grow over them.
LEMMA ClearRead ==
    ASSUME WIInv, ReadInv, NEW p \in Producers, EnqueueClear(p)
    PROVE  ReadInv'
<1> USE RingAssumption DEF WIInv, TypeOK
<1> DEFINE n == enq[p].idx
<1>1. /\ n \in Nat /\ tail <= n /\ n < enq[p].seq /\ enq[p].seq \in Nat
      /\ enq[p].pc = "clear" /\ qlock = p /\ UNCHANGED head
  BY DEF EnqueueClear, EnqAt, EnqLocals, WindowPart, QLockInv, EnqInv
<1>2. /\ \A i \in Slots : status'[i] = "kRead" => status[i] = "kRead"
      /\ status'[Seq2Ind(n + 1)] # "kRead"
  <2>1. Seq2Ind(n + 1) = n % BUF_SIZE /\ n % BUF_SIZE \in Slots
    BY <1>1, Seq2IndNext
  <2> QED
    BY <2>1 DEF EnqueueClear, ClearElement, ResetElement
<1>3. \A s \in head + 1 .. n + 1 : status'[Seq2Ind(s)] # "kRead"
  <2>1. SUFFICES ASSUME NEW s \in head + 1 .. n + 1, s # n + 1
                 PROVE  status'[Seq2Ind(s)] # "kRead"
    BY <1>2
  <2>2. s \in head + 1 .. tail \/ s \in tail + 1 .. n
    BY <1>1, <2>1
  <2>3. status[Seq2Ind(s)] # "kRead"
    BY <1>1, <2>2 DEF ReadInv, NoStaleRead
  <2> QED
    BY <1>2, <2>3, Seq2IndSlot
<1>4. \/ n < enq[p].seq - 1 /\ UNCHANGED tail /\ enq' = [enq EXCEPT ![p].idx = n + 1]
      \/ tail' = n + 1 /\ enq' = [enq EXCEPT ![p] = IdleEnq]
  BY <1>1 DEF EnqueueClear, EnqueueReturn
<1>5. NoStaleRead'
  <2>1. tail' <= n + 1 /\ tail' \in Nat /\ head' = head
    BY <1>1, <1>4
  <2>2. ASSUME NEW s \in head' + 1 .. tail'
        PROVE  status'[Seq2Ind(s)] # "kRead"
    <3>1. s \in head + 1 .. n + 1
      BY <1>1, <2>1
    <3> QED
      BY <1>3, <3>1
  <2> QED
    BY <2>2 DEF NoStaleRead, Seq2Ind
<1>6. ASSUME NEW q \in Producers, enq'[q].pc = "clear"
      PROVE  q = p /\ enq'[q].idx = n + 1 /\ UNCHANGED tail
  <2>1. q = p
    BY <1>1, <1>4, <1>6 DEF WindowPart, QLockInv
  <2> QED
    BY <1>1, <1>4, <1>6, <2>1 DEF IdleEnq, EnqLocals
<1>7. \A s \in tail + 1 .. n + 1 : status'[Seq2Ind(s)] # "kRead"
  BY <1>1, <1>3 DEF WindowPart, WindowInv
<1> QED
  BY <1>5, <1>6, <1>7 DEF ReadInv, Seq2Ind

\* A slot becomes kRead as it leaves the window.
LEMMA DeliverRead ==
    ASSUME OrderInv, ReadInv, DequeueDeliver \/ DequeueDrop
    PROVE  ReadInv'
<1> USE RingAssumption DEF OrderInv, WIInv, TypeOK
<1>1. /\ DeqAt("switch") /\ head' = head + 1 /\ UNCHANGED <<tail, enq>>
      /\ \A i \in Slots : i # deq.idx => status'[i] = status[i]
  BY DEF DequeueDeliver, DequeueDrop, DequeueReturn, ResetElement
<1>2. qlock = WriteTun /\ deq.idx = head % BUF_SIZE
  BY <1>1 DEF DeqAt, WindowPart, QLockInv, HeadSlot
<1>3. deq.idx = Seq2Ind(head + 1)
  BY <1>2, Seq2IndNext
<1>4. NoStaleRead'
  <2>1. SUFFICES ASSUME NEW s \in head + 2 .. tail
                 PROVE  status'[Seq2Ind(s)] # "kRead"
    BY <1>1 DEF NoStaleRead, Seq2Ind
  <2>2. head + 1 < s /\ s < head + 1 + BUF_SIZE /\ s \in Int /\ head + 1 \in Int
    BY <2>1 DEF WindowPart, WindowInv
  <2>3. Seq2Ind(s) # deq.idx /\ Seq2Ind(s) \in Slots
    BY <1>3, <2>2, Seq2IndDiffer, Seq2IndSlot
  <2>4. status[Seq2Ind(s)] # "kRead"
    BY <2>1, <2>2 DEF ReadInv, NoStaleRead
  <2> QED
    BY <1>1, <2>3, <2>4
<1>5. \A p \in Producers : enq[p].pc # "clear"
  BY <1>2, ThreadsDiffer DEF WindowPart, QLockInv
<1> QED
  BY <1>1, <1>4, <1>5 DEF ReadInv

\* Every step keeps the window free of delivered slots.
LEMMA ReadStep ==
    ASSUME OrderInv, ReadInv, [Next]_vars
    PROVE  ReadInv'
<1> USE DEF OrderInv, WIInv
<1>1. CASE Receive \/ SpuriousWakeup \/ UNCHANGED vars
  <2>1. UNCHANGED <<ringVars, enq>>
    BY <1>1 DEF Receive, NewBatch, PacketOfBatch, BatchDecoded, BatchTimeOut,
       SpuriousWakeup, vars
  <2> QED
    BY <2>1, ReadFrame DEF ringVars
<1>2. ASSUME NEW p \in Producers, Enqueue(p)
      PROVE  ReadInv'
  <2>1. CASE EnqueueCall(p) \/ EnqueueLock(p) \/ EnqueueFull(p) \/ EnqueueReset(p)
    <3>1. UNCHANGED <<head, tail>>
      BY <2>1 DEF EnqueueCall, EnqueueLock, EnqueueFull, EnqueueReset, ringVars
    <3>2. \A i \in Slots : status'[i] = "kRead" => status[i] = "kRead"
      BY <2>1 DEF EnqueueCall, EnqueueLock, EnqueueFull, FullDrop, EnqueueReset,
         ResetOthers, ResetElement, ringVars, TypeOK
    <3>3. \A q \in Producers : enq'[q].pc = "clear" => enq'[q] = enq[q]
      BY <2>1 DEF EnqueueCall, EnqueueLock, EnqueueFull, EnqueueReset, EnqueueReturn,
         IdleEnq, EnqAt, TypeOK, EnqLocals
    <3> QED
      BY <3>1, <3>2, <3>3, ReadFrame
  <2>2. CASE EnqueueStore(p)
    BY <2>2, StoreRead
  <2>3. CASE EnqueueClear(p)
    BY <2>3, ClearRead
  <2> QED
    BY <1>2, <2>1, <2>2, <2>3 DEF Enqueue
<1>3. CASE Dequeue
  <2>1. CASE DequeueDeliver \/ DequeueDrop
    BY <2>1, DeliverRead
  <2>2. CASE ~DequeueDeliver /\ ~DequeueDrop
    <3>1. UNCHANGED <<head, tail, enq>>
      BY <1>3, <2>2 DEF Dequeue, DequeueLock, DequeueElement, DequeueBlock,
         DequeueWait, DequeueAwake, DequeueRelock, ringVars
    <3>2. \A i \in Slots : status'[i] = "kRead" => status[i] = "kRead"
      BY <1>3, <2>2 DEF Dequeue, DequeueLock, DequeueElement, DequeueBlock,
         DequeueWait, DequeueAwake, DequeueRelock, ringVars, TypeOK
    <3> QED
      BY <3>1, <3>2, ReadFrame
  <2> QED
    BY <2>1, <2>2
<1>4. CASE FindNack
  <2>1. UNCHANGED <<head, tail, enq>>
    BY <1>4 DEF FindNack, AckGetBatchID, AckLock, AckWoken, AckInfo, AckStartBatch,
       AckAssert, AckVisit, AckDrop, AckLabel, Label, AckExtra, AckOverflow, AckGiveUp,
       SendDataAck, ringVars
  <2>2. \A i \in Slots : status'[i] = "kRead" => status[i] = "kRead"
    BY <1>4 DEF FindNack, AckGetBatchID, AckLock, AckWoken, AckInfo, AckStartBatch,
       AckAssert, AckVisit, AckDrop, AckLabel, Label, AckExtra, AckOverflow, AckGiveUp,
       SendDataAck, ringVars, TypeOK
  <2> QED
    BY <2>1, <2>2, ReadFrame
<1> QED
  BY <1>1, <1>2, <1>3, <1>4 DEF Next, Aborted

\* No slot of the window holds a packet that was delivered one lap ago.
THEOREM NoStaleSlot == Spec => []NoStaleRead
<1>1. Init => ReadInv
  BY RingAssumption DEF Init, ReadInv, NoStaleRead, IdleEnq
<1>2. OrderInv /\ ReadInv /\ [Next]_vars => ReadInv'
  BY ReadStep
<1>3. ReadInv => NoStaleRead
  BY DEF ReadInv
<1> QED
  BY OrderInvariant, <1>1, <1>2, <1>3, PTL DEF Spec

-----------------------------------------------------------------------------
(* Waiting for a packet to arrive *)

\* While RxWriteTun sleeps on fill_cond_ although the queue is not empty, the signal
\* is on its way: FindNackSeqNum has it and will pass it on, or a wrap-around has
\* not come to its end yet.
FillInv ==
    /\ fillWait \subseteq {WriteTun, CreateAck}
    /\ CreateAck \in fillWait => ack.pc = "woken"
    /\ WriteTun \in fillWait => deq.pc = "start"
    /\ WriteTun \in fillWait /\ ~IsEmpty =>
          \/ ack.pc = "woken" /\ CreateAck \notin fillWait
          \/ \E p \in Producers : enq[p].pc = "reset"

\* What a signal leaves of the two sleepers.
LEMMA SignalTwo ==
    ASSUME FillInv, SignalFill
    PROVE  /\ fillWait' \subseteq fillWait
           /\ WriteTun \in fillWait' => CreateAck \notin fillWait' /\ CreateAck \in fillWait
<1>1. fillWait' \subseteq fillWait
  BY WokenSubset DEF SignalFill
<1>2. fillWait # {} => \E t \in fillWait : fillWait' = fillWait \ {t}
  BY DEF SignalFill, Woken
<1> QED
  BY <1>1, <1>2, ThreadsDiffer DEF FillInv

\* A step that signals nobody, adds no packet and leaves the two threads alone.
LEMMA FillFrame ==
    ASSUME FillInv, fillWait' \subseteq fillWait, ~IsEmpty' => ~IsEmpty,
           WriteTun \in fillWait => UNCHANGED deq,
           UNCHANGED ack,
           \A p \in Producers : enq[p].pc = "reset" => enq'[p].pc = "reset"
    PROVE  FillInv'
BY DEF FillInv

\* EnqueuePkt signals when it has moved tail_pt.
LEMMA EnqueueFill ==
    ASSUME WIInv, FillInv, NEW p \in Producers, Enqueue(p)
    PROVE  FillInv'
<1> USE DEF WIInv, TypeOK, EnqLocals, ackVars
<1>1. CASE EnqueueCall(p) \/ EnqueueLock(p) \/ EnqueueFull(p)
  <2>1. UNCHANGED <<head, tail, fillWait, deq, ack>>
    BY <1>1 DEF EnqueueCall, EnqueueLock, EnqueueFull, ringVars, condVars
  <2>2. \A q \in Producers : enq[q].pc = "reset" => enq'[q].pc = "reset"
    BY <1>1 DEF EnqueueCall, EnqueueLock, EnqueueFull, EnqueueReturn, EnqAt
  <2> QED
    BY <2>1, <2>2, FillFrame DEF IsEmpty
<1>2. CASE EnqueueStore(p)
  <2>1. UNCHANGED <<fillWait, deq, ack>> /\ enq[p].pc = "store"
    BY <1>2 DEF EnqueueStore, EnqAt
  <2>2. CASE IsWrap(p)
    <3>1. enq'[p].pc = "reset"
      BY <1>2, <2>2 DEF EnqueueStore
    <3> QED
      BY <2>1, <3>1 DEF FillInv
  <2>3. CASE ~IsWrap(p)
    <3>1. UNCHANGED <<head, tail>>
      BY <1>2, <2>3 DEF EnqueueStore
    <3>2. \A q \in Producers : enq[q].pc = "reset" => enq'[q].pc = "reset"
      BY <1>2, <2>1 DEF EnqueueStore, EnqueueReturn
    <3> QED
      BY <2>1, <3>1, <3>2, FillFrame DEF IsEmpty
  <2> QED
    BY <2>2, <2>3
<1>3. CASE EnqueueReset(p) /\ fillWait' = fillWait /\ enq'[p].pc = "reset"
  <2>1. UNCHANGED <<head, tail, deq, ack>>
    BY <1>3 DEF EnqueueReset
  <2> QED
    BY <1>3, <2>1 DEF FillInv, IsEmpty
<1>4. CASE EnqueueClear(p) /\ fillWait' = fillWait /\ tail' = tail
  <2>1. UNCHANGED <<head, deq, ack>>
    BY <1>4 DEF EnqueueClear
  <2>2. \A q \in Producers : enq[q].pc = "reset" => enq'[q].pc = "reset"
    BY <1>4 DEF EnqueueClear, EnqueueReturn, EnqAt
  <2> QED
    BY <1>4, <2>1, <2>2, FillFrame DEF IsEmpty
<1>5. CASE SignalFill /\ UNCHANGED <<deq, ack>>
  BY <1>5, SignalTwo DEF FillInv
<1>6. \/ EnqueueReset(p) => (fillWait' = fillWait /\ enq'[p].pc = "reset")
      \/ EnqueueReset(p) => SignalFill /\ UNCHANGED <<deq, ack>>
  BY DEF EnqueueReset, EnqAt, condVars
<1>7. \/ EnqueueClear(p) => (fillWait' = fillWait /\ tail' = tail)
      \/ EnqueueClear(p) => SignalFill /\ UNCHANGED <<deq, ack>>
  BY DEF EnqueueClear
<1> QED
  BY <1>1, <1>2, <1>3, <1>4, <1>5, <1>6, <1>7 DEF Enqueue

\* RxWriteTun sleeps on fill_cond_ only when it has seen the queue empty.
LEMMA DequeueFill ==
    ASSUME WIInv, FillInv, Dequeue
    PROVE  FillInv'
<1> USE ThreadsDiffer DEF WIInv, TypeOK, DeqLocals, ackVars
<1>1. CASE DequeueLock
  <2>1. UNCHANGED <<head, tail, enq, ack>> /\ deq.pc = "start" /\ WriteTun \notin fillWait
    BY <1>1 DEF DequeueLock, DeqAt, ringVars
  <2>2. CASE IsEmpty
    <3>1. fillWait' = fillWait \cup {WriteTun} /\ UNCHANGED deq
      BY <1>1, <2>2 DEF DequeueLock
    <3> QED
      BY <2>1, <2>2, <3>1 DEF FillInv, IsEmpty
  <2>3. CASE ~IsEmpty
    <3>1. SignalFill
      BY <1>1, <2>3 DEF DequeueLock
    <3>2. fillWait' \subseteq fillWait
      BY <3>1, WokenSubset DEF SignalFill
    <3> QED
      BY <2>1, <3>2 DEF FillInv
  <2> QED
    BY <2>2, <2>3
<1>2. CASE ~DequeueLock
  <2>1. UNCHANGED <<fillWait, enq, ack>> /\ deq.pc # "start"
    BY <1>2 DEF Dequeue, DequeueElement, DequeueBlock, DequeueWait, DequeueAwake,
       DequeueRelock, DequeueDeliver, DequeueDrop, DequeueReturn, DeqAt, condVars
  <2> QED
    BY <2>1 DEF FillInv
<1> QED
  BY <1>1, <1>2

\* FindNackSeqNum passes the signal on when it wakes up.
LEMMA FindNackFill ==
    ASSUME WIInv, FillInv, FindNack
    PROVE  FillInv'
<1> USE ThreadsDiffer DEF WIInv, TypeOK, AckLocals
<1>0. UNCHANGED <<head, tail, enq, deq>>
  BY DEF FindNack, AckGetBatchID, AckLock, AckWoken, AckInfo, AckStartBatch, AckAssert,
     AckVisit, AckDrop, AckLabel, Label, AckExtra, AckOverflow, AckGiveUp, SendDataAck,
     ringVars
<1>1. CASE AckLock
  <2>1. ack.pc = "lock" /\ CreateAck \notin fillWait
    BY <1>1 DEF AckLock, AckAt, FillInv
  <2>2. CASE IsEmpty /\ fillWait' = fillWait \cup {CreateAck}
    <3>1. ack' = [ack EXCEPT !.pc = "woken"]
      BY <1>1, <2>1, <2>2 DEF AckLock
    <3> QED
      BY <1>0, <2>2, <3>1 DEF FillInv, IsEmpty
  <2>3. CASE UNCHANGED fillWait
    BY <1>0, <2>1, <2>3 DEF FillInv, IsEmpty
  <2> QED
    BY <1>1, <2>2, <2>3 DEF AckLock
<1>2. CASE AckWoken
  <2>1. ack.pc = "woken" /\ CreateAck \notin fillWait /\ SignalFill
    BY <1>2 DEF AckWoken, AckAt, PassOnFill
  <2>2. WriteTun \notin fillWait' /\ fillWait' \subseteq fillWait
    BY <2>1, SignalTwo
  <2> QED
    BY <1>0, <2>1, <2>2 DEF FillInv
<1>3. CASE ~AckLock /\ ~AckWoken
  <2>1. UNCHANGED fillWait /\ ack.pc # "woken"
    BY <1>3 DEF FindNack, AckGetBatchID, AckInfo, AckStartBatch, AckAssert, AckVisit,
       AckDrop, AckLabel, Label, AckExtra, AckOverflow, AckGiveUp, SendDataAck, AckAt,
       condVars
  <2> QED
    BY <1>0, <2>1 DEF FillInv, IsEmpty
<1> QED
  BY <1>1, <1>2, <1>3

\* Every step keeps the signal on its way.
LEMMA FillStep == WIInv /\ FillInv /\ [Next]_vars => FillInv'
<1> SUFFICES ASSUME WIInv, FillInv, [Next]_vars PROVE FillInv'
  OBVIOUS
<1>1. CASE Receive \/ SpuriousWakeup \/ UNCHANGED vars
  <2>1. UNCHANGED <<head, tail, enq, deq, ack>> /\ fillWait' \subseteq fillWait
    BY <1>1 DEF Receive, NewBatch, PacketOfBatch, BatchDecoded, BatchTimeOut,
       SpuriousWakeup, vars, ringVars, condVars, ackVars
  <2> QED
    BY <2>1, FillFrame DEF IsEmpty
<1> QED
  BY <1>1, EnqueueFill, DequeueFill, FindNackFill DEF Next, Aborted

\* Of the two threads that sleep on fill_cond_ the one that needs the signal gets it,
\* although pthread_cond_signal may wake the other one.
THEOREM FillNotLost == Spec => []NoLostFill
<1>1. Init => FillInv
  BY DEF Init, FillInv, IdleAck
<1>2. WIInv /\ FillInv => NoLostFill
  <2> SUFFICES ASSUME WIInv, FillInv, ~IsEmpty, qlock = Free, WriteTun \in fillWait
               PROVE  ack.pc = "woken" /\ CreateAck \notin fillWait
    BY DEF NoLostFill
  <2>1. \A p \in Producers : enq[p].pc # "reset"
    BY ThreadsDiffer DEF WIInv, WindowPart, QLockInv
  <2> QED
    BY <2>1 DEF FillInv
<1> QED
  BY WindowInvariant, FillStep, <1>1, <1>2, PTL DEF Spec

-----------------------------------------------------------------------------
(* The blocked slot *)

\* The only slot that is marked kBlock and is not about to be reset is the one at
\* head_pt, and RxWriteTun is at work on it.
BlockInv ==
    \A i \in Slots : status[i] = "kBlock" =>
        Unreset(i) \/ (i = head % BUF_SIZE /\ deq.pc # "start")

\* A step that marks no slot and neither resets nor moves on.
LEMMA BlockFrame ==
    ASSUME BlockInv, UNCHANGED head, deq.pc # "start" => deq'.pc # "start",
           \A i \in Slots : Unreset(i) => Unreset(i)',
           \A i \in Slots : status'[i] = "kBlock" => status[i] = "kBlock"
    PROVE  BlockInv'
BY DEF BlockInv

\* A wrap-around leaves a blocked slot behind, but only until it resets it.
LEMMA EnqueueBlock ==
    ASSUME OrderInv, BlockInv, NEW p \in Producers, Enqueue(p)
    PROVE  BlockInv'
<1> USE RingAssumption DEF OrderInv, WIInv, TypeOK, EnqLocals
<1>1. CASE EnqueueCall(p) \/ EnqueueLock(p) \/ EnqueueFull(p) \/ EnqueueClear(p)
  <2>1. UNCHANGED <<head, deq>>
    BY <1>1 DEF EnqueueCall, EnqueueLock, EnqueueFull, EnqueueClear, ringVars
  <2>2. \A i \in Slots : status'[i] = "kBlock" => status[i] = "kBlock"
    BY <1>1 DEF EnqueueCall, EnqueueLock, EnqueueFull, EnqueueClear, FullDrop,
       ClearElement, ResetElement, ringVars
  <2>3. enq[p].pc # "reset" /\ \A q \in Producers : q # p => enq'[q] = enq[q]
    BY <1>1 DEF EnqueueCall, EnqueueLock, EnqueueFull, EnqueueClear, EnqueueReturn,
       EnqAt
  <2>4. \A i \in Slots : Unreset(i) => Unreset(i)'
    BY <2>3 DEF Unreset, Seq2Ind
  <2> QED
    BY <2>1, <2>2, <2>4, BlockFrame
<1>2. CASE EnqueueStore(p)
  <2> DEFINE seq == enq[p].seq
             j   == Seq2Ind(seq)
  <2>1. j \in Slots /\ UNCHANGED deq
    BY <1>2, Seq2IndSlot DEF EnqueueStore
  <2>2. status'[j] = "kOccupiedNew" /\ \A i \in Slots : i # j => status'[i] = status[i]
    BY <1>2, <2>1 DEF EnqueueStore, StoreElement
  <2>3. \A i \in Slots : ~Unreset(i)
    BY <1>2, OnlyOwnerResets DEF EnqueueStore, EnqAt, WindowPart, QLockInv
  <2>4. CASE IsWrap(p)
    <3>1. enq' = [enq EXCEPT ![p].pc = "reset", ![p].idx = 0]
      BY <1>2, <2>4 DEF EnqueueStore
    <3>2. enq'[p].pc = "reset" /\ enq'[p].idx = 0 /\ enq'[p].seq = seq
      BY <3>1
    <3>3. \A i \in Slots : i # j => Unreset(i)'
      <4> SUFFICES ASSUME NEW i \in Slots, i # j PROVE Unreset(i)'
        OBVIOUS
      <4>1. 0 <= i /\ i # Seq2Ind(enq'[p].seq)
        BY <3>2 DEF Slots
      <4> HIDE DEF TypeOK, EnqLocals, seq, j
      <4> QED
        BY <3>2, <4>1 DEF Unreset, Seq2Ind
    <3> QED
      BY <2>2, <3>3 DEF BlockInv
  <2>5. CASE ~IsWrap(p)
    <3>1. UNCHANGED head
      BY <1>2, <2>5 DEF EnqueueStore
    <3> QED
      BY <2>1, <2>2, <2>3, <3>1, BlockFrame
  <2> QED
    BY <2>4, <2>5
<1>3. CASE EnqueueReset(p)
  <2>1. UNCHANGED <<head, deq>> /\ enq[p].pc = "reset"
    BY <1>3 DEF EnqueueReset, EnqAt
  <2>2. ASSUME NEW i \in Slots, status'[i] = "kBlock"
        PROVE  status[i] = "kBlock" /\ (i = enq[p].idx => i = Seq2Ind(enq[p].seq))
    BY <1>3, <2>2 DEF EnqueueReset, ResetOthers, ResetElement
  <2>3. ASSUME NEW i \in Slots, status'[i] = "kBlock", Unreset(i)
        PROVE  Unreset(i)'
    BY <1>3, <2>2, <2>3, ResetLater
  <2> QED
    BY <2>1, <2>2, <2>3 DEF BlockInv
<1> QED
  BY <1>1, <1>2, <1>3 DEF Enqueue

\* RxWriteTun marks the slot of the next packet and moves on when it is not blocked.
LEMMA DequeueBlocks ==
    ASSUME OrderInv, BlockInv, Dequeue
    PROVE  BlockInv'
<1> USE DEF OrderInv, WIInv, TypeOK, DeqLocals
<1>1. CASE DequeueBlock
  <2>1. UNCHANGED <<head, enq>> /\ deq'.pc = "gap" /\ deq.idx = head % BUF_SIZE
    BY <1>1 DEF DequeueBlock, DeqAt, HeadSlot
  <2>2. \A i \in Slots : i # deq.idx => status'[i] = status[i]
    BY <1>1 DEF DequeueBlock
  <2> QED
    BY <2>1, <2>2, SameUnreset DEF BlockInv
<1>2. CASE DequeueLock \/ DequeueElement \/ DequeueWait \/ DequeueAwake \/ DequeueRelock
  <2>1. UNCHANGED <<head, enq, status>> /\ (deq'.pc # "start" \/ UNCHANGED deq)
    BY <1>2 DEF DequeueLock, DequeueElement, DequeueWait, DequeueAwake, DequeueRelock,
       ringVars
  <2> QED
    BY <2>1, SameUnreset, BlockFrame
<1>3. CASE DequeueDeliver \/ DequeueDrop
  <2>1. /\ DeqAt("switch") /\ status[deq.idx] # "kBlock" /\ status'[deq.idx] # "kBlock"
        /\ \A i \in Slots : i # deq.idx => status'[i] = status[i]
    BY <1>3 DEF DequeueDeliver, DequeueDrop, ResetElement
  <2>2. deq.idx = head % BUF_SIZE /\ \A i \in Slots : ~Unreset(i)
    BY <2>1, HeadPacket, OnlyOwnerResets, ThreadsDiffer DEF DeqAt, HeadSlot
  <2>3. \A i \in Slots : status'[i] # "kBlock"
    BY <2>1, <2>2 DEF BlockInv
  <2> QED
    BY <2>3 DEF BlockInv
<1> QED
  BY <1>1, <1>2, <1>3 DEF Dequeue

\* Every step keeps the blocked slot at the head.
LEMMA BlockStep == OrderInv /\ BlockInv /\ [Next]_vars => BlockInv'
<1> SUFFICES ASSUME OrderInv, BlockInv, [Next]_vars PROVE BlockInv'
  OBVIOUS
<1>1. CASE Receive \/ SpuriousWakeup \/ UNCHANGED vars
  <2>1. UNCHANGED <<head, status, enq, deq>>
    BY <1>1 DEF Receive, NewBatch, PacketOfBatch, BatchDecoded, BatchTimeOut,
       SpuriousWakeup, vars, ringVars
  <2> QED
    BY <2>1, SameUnreset, BlockFrame
<1>2. CASE FindNack
  <2>1. UNCHANGED <<head, enq, deq>>
    BY <1>2 DEF FindNack, AckGetBatchID, AckLock, AckWoken, AckInfo, AckStartBatch,
       AckAssert, AckVisit, AckDrop, AckLabel, Label, AckExtra, AckOverflow, AckGiveUp,
       SendDataAck, ringVars
  <2>2. \A i \in Slots : status'[i] = "kBlock" => status[i] = "kBlock"
    BY <1>2 DEF FindNack, AckGetBatchID, AckLock, AckWoken, AckInfo, AckStartBatch,
       AckAssert, AckVisit, AckDrop, AckLabel, Label, AckExtra, AckOverflow, AckGiveUp,
       SendDataAck, ringVars, OrderInv, WIInv, TypeOK
  <2> QED
    BY <2>1, <2>2, SameUnreset, BlockFrame
<1> QED
  BY <1>1, <1>2, EnqueueBlock, DequeueBlocks DEF Next, Aborted

\* The empty queue has no blocked slot.
LEMMA BlockInit == Init => BlockInv
BY DEF Init, BlockInv

\* Whenever the queue is unlocked, a slot marked kBlock is the one of the packet that
\* RxWriteTun waits for, although its index was computed before it slept and the queue
\* may have wrapped around since.
THEOREM BlockedSlot == Spec => []BlockedIsHead
<1>1. OrderInv /\ BlockInv => BlockedIsHead
  <2> SUFFICES ASSUME OrderInv, BlockInv, qlock = Free,
                      NEW i \in Slots, status[i] = "kBlock"
               PROVE  i = head % BUF_SIZE /\ deq.pc \in {"gap", "wait", "relock"}
    BY DEF BlockedIsHead
  <2> USE DEF OrderInv, WIInv
  <2>1. ~Unreset(i)
    BY OnlyOwnerResets, ThreadsDiffer
  <2>2. deq.pc \notin {"element", "switch"}
    BY ThreadsDiffer DEF WindowPart, QLockInv
  <2> QED
    BY <2>1, <2>2 DEF BlockInv, TypeOK, DeqLocals
<1> QED
  BY OrderInvariant, BlockInit, BlockStep, <1>1, PTL DEF Spec
=============================================================================
