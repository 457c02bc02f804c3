----------------------- MODULE RxDataBufDeliveryProofs -----------------------
(***************************************************************************)
(* What RxDataBuf promises at its two ends, for every ring size, any set   *)
(* of producers and any number of packets: RxWriteTun gets an              *)
(* InOrderDelivery, and the sender gets acknowledgements it can read and   *)
(* believe.  But for the reading, the sender stays within BUF_SIZE packets *)
(* of head_pt, and FindNackSeqNum never has too many nacks.                *)
(***************************************************************************)
EXTENDS RxDataBufDelivery, RxDataBufOrderProofs, AckPktProofs

\* What holds in addition to OrderInv when no packet wraps around: nobody is at
\* the reset loop, the packets in the ring are ahead of head_pt, the last one is
\* there, and the slot FindNackSeqNum is about to give up is still blocked.
Near == \A p \in Producers :
            enq[p].pc # "reset" /\ (enq[p].pc # "idle" => enq[p].seq <= head + BUF_SIZE)
Ahead == \A i \in Slots : status[i] = "kOccupiedNew" => seqnum[i] > head
TailHere == head < tail => status[Seq2Ind(tail)] = "kOccupiedNew"
NewTailHere == \A p \in Producers :
                   enq[p].pc = "clear" => status[Seq2Ind(enq[p].seq)] = "kOccupiedNew"
DropBlocked == ack.pc = "drop" => status[ack.idx % BUF_SIZE] = "kBlock"

NearInv == Near /\ Ahead /\ TailHere /\ NewTailHere /\ DropBlocked

\* The packets of a ring that keeps what it holds stay pending.
LEMMA PendingSame ==
    ASSUME \A i \in Slots : status'[i] = "kOccupiedNew" <=> status[i] = "kOccupiedNew",
           \A i \in Slots : status[i] = "kOccupiedNew" => seqnum'[i] = seqnum[i]
    PROVE  Pending' = Pending
BY DEF Pending

\* Without a wrap-around a stored packet goes to its slot, or is there already.
LEMMA StoreNear ==
    ASSUME OrderInv, NearInv, NEW p \in Producers, EnqueueStore(p)
    PROVE  /\ Seq2Ind(enq[p].seq) \in Slots
           /\ enq[p].seq \in head + 1 .. head + BUF_SIZE
           /\ UNCHANGED <<head, tail, last_out, ack>>
           /\ status'[Seq2Ind(enq[p].seq)] = "kOccupiedNew"
           /\ seqnum'[Seq2Ind(enq[p].seq)] = enq[p].seq
              \/ (status[Seq2Ind(enq[p].seq)] = "kOccupiedNew"
                  /\ UNCHANGED <<status, seqnum>>)
           /\ \A i \in Slots : i # Seq2Ind(enq[p].seq) =>
                 status'[i] = status[i] /\ seqnum'[i] = seqnum[i]
           /\ elock[Seq2Ind(enq[p].seq)] = Free
<1> USE RingAssumption DEF OrderInv, WIInv, TypeOK, EnqLocals, ackVars
<1>1. ~IsWrap(p) /\ enq[p].seq \in head + 1 .. head + BUF_SIZE
  BY DEF EnqueueStore, EnqAt, IsWrap, NearInv, Near, WindowPart, EnqInv
<1>2. Seq2Ind(enq[p].seq) \in Slots
  BY <1>1, Seq2IndSlot
<1>3. UNCHANGED <<head, tail, last_out, ack>>
  BY <1>1 DEF EnqueueStore
<1>4. StoreElement(p)
  BY DEF EnqueueStore
<1> DEFINE j == Seq2Ind(enq[p].seq)
<1>5. /\ elock[j] = Free
      /\ \/ status[j] = "kOccupiedNew" /\ UNCHANGED <<status, seqnum>>
         \/ /\ status' = [status EXCEPT ![j] = "kOccupiedNew"]
            /\ seqnum' = [seqnum EXCEPT ![j] = enq[p].seq]
  BY <1>4 DEF StoreElement
<1> HIDE DEF j
<1>6. CASE status[j] = "kOccupiedNew" /\ UNCHANGED <<status, seqnum>>
  BY <1>1, <1>2, <1>3, <1>5, <1>6 DEF j
<1>7. CASE /\ status' = [status EXCEPT ![j] = "kOccupiedNew"]
           /\ seqnum' = [seqnum EXCEPT ![j] = enq[p].seq]
  <2>1. j \in Slots
    BY <1>2 DEF j
  <2>2. /\ status'[j] = "kOccupiedNew" /\ seqnum'[j] = enq[p].seq
        /\ \A i \in Slots : i # j => status'[i] = status[i] /\ seqnum'[i] = seqnum[i]
    BY <1>7, <2>1
  <2> QED
    BY <1>1, <1>2, <1>3, <1>5, <2>2 DEF j
<1> QED
  BY <1>5, <1>6, <1>7

\* EnqueuePkt keeps it.
LEMMA EnqueueNear ==
    ASSUME OrderInv, NearInv, MAX_AHEAD <= BUF_SIZE, NEW p \in Producers, Enqueue(p)
    PROVE  NearInv'
<1> USE RingAssumption DEF OrderInv, WIInv, TypeOK, EnqLocals, ackVars
<1>1. CASE EnqueueCall(p) \/ EnqueueLock(p)
  <2>1. UNCHANGED <<head, tail, status, seqnum, ack>>
    BY <1>1 DEF EnqueueCall, EnqueueLock, ringVars
  <2>2. \A q \in Producers : /\ enq'[q].pc \notin {"reset", "clear"} \/ enq'[q] = enq[q]
                             /\ enq'[q].pc # "idle" => enq'[q].seq <= head + BUF_SIZE
    BY <1>1 DEF EnqueueCall, EnqueueLock, EnqueueReturn, IdleEnq, Sent, EnqAt, NearInv, Near
  <2> QED
    BY <2>1, <2>2 DEF NearInv, Near, Ahead, TailHere, NewTailHere, DropBlocked, Seq2Ind
<1>2. CASE EnqueueFull(p)
  <2>1. UNCHANGED <<head, tail, seqnum, ack>>
    BY <1>2 DEF EnqueueFull, ringVars
  <2>2. \A q \in Producers :
            enq'[q] = enq[q] \/ (/\ enq[q].pc = "full" /\ enq'[q].pc = "lock"
                                 /\ enq'[q].seq = enq[q].seq)
    <3>1. enq' = [enq EXCEPT ![p].pc = "lock"] /\ enq[p].pc = "full"
      BY <1>2 DEF EnqueueFull, EnqAt
    <3>2. enq'[p].pc = "lock" /\ enq'[p].seq = enq[p].seq
      BY <3>1
    <3>3. \A q \in Producers : q # p => enq'[q] = enq[q]
      BY <3>1
    <3> QED
      BY <3>1, <3>2, <3>3
  <2>3. \A i \in Slots : /\ status'[i] = "kOccupiedNew" <=> status[i] = "kOccupiedNew"
                         /\ elock[i] # Free => status'[i] = status[i]
    BY <1>2 DEF EnqueueFull, FullDrop
  <2>4. \A s \in Nat : Seq2Ind(s) \in Slots
    BY Seq2IndSlot
  <2>5. ack.pc = "drop" => elock[ack.idx % BUF_SIZE] # Free /\ ack.idx % BUF_SIZE \in Slots
    BY ThreadsDiffer, SlotOf DEF ELockInv, AckLocals
  <2>6. Near' /\ Ahead'
    BY <2>1, <2>2, <2>3 DEF NearInv, Near, Ahead
  <2>7. TailHere' /\ NewTailHere'
    BY <2>1, <2>2, <2>3, <2>4 DEF NearInv, TailHere, NewTailHere, Seq2Ind
  <2>8. DropBlocked'
    BY <2>1, <2>3, <2>5 DEF NearInv, DropBlocked
  <2> QED
    BY <2>6, <2>7, <2>8 DEF NearInv
<1>3. CASE EnqueueStore(p)
  <2> DEFINE j == Seq2Ind(enq[p].seq)
  <2>1. /\ j \in Slots /\ UNCHANGED <<head, tail, last_out, ack>>
        /\ status'[j] = "kOccupiedNew"
        /\ seqnum'[j] = enq[p].seq \/ (status[j] = "kOccupiedNew" /\ UNCHANGED seqnum)
        /\ \A i \in Slots : i # j => status'[i] = status[i] /\ seqnum'[i] = seqnum[i]
        /\ elock[j] = Free /\ enq[p].seq > head
    BY <1>3, StoreNear
  <2>2. \A q \in Producers : enq'[q] = enq[q] \/
            /\ q = p /\ enq'[q].pc \in {"idle", "clear"}
            /\ enq'[q].pc = "clear" => enq'[q].seq = enq[q].seq
    <3>1. ~IsWrap(p)
      BY <1>3 DEF EnqueueStore, EnqAt, IsWrap, NearInv, Near
    <3> QED
      BY <1>3, <3>1 DEF EnqueueStore, EnqueueReturn, IdleEnq
  <2>3. \A q \in Producers : enq[q].pc # "idle" => enq[q].seq <= head + BUF_SIZE
    BY DEF NearInv, Near
  <2>4. enq[p].pc = "store"
    BY <1>3 DEF EnqueueStore, EnqAt
  <2>5. \A s \in Nat : Seq2Ind(s) \in Slots
    BY Seq2IndSlot
  <2>6. ack.pc = "drop" => elock[ack.idx % BUF_SIZE] # Free /\ ack.idx % BUF_SIZE \in Slots
    BY ThreadsDiffer, SlotOf DEF ELockInv, AckLocals
  <2>7. \A i \in Slots : status[i] = "kOccupiedNew" => status'[i] = "kOccupiedNew"
    BY <2>1
  <2> HIDE DEF j
  <2>8. Near'
    BY <2>1, <2>2, <2>3, <2>4 DEF NearInv, Near
  <2>9. Ahead'
    BY <2>1 DEF NearInv, Ahead
  <2>10. TailHere'
    BY <2>1, <2>5, <2>7 DEF NearInv, TailHere, Seq2Ind
  <2>11. NewTailHere'
    <3>1. \A q \in Producers : enq'[q].pc = "clear" => enq'[q].seq = enq[q].seq
                                   /\ (enq[q].pc = "clear" \/ q = p)
      BY <2>2
    <3> QED
      BY <2>1, <2>5, <2>7, <3>1 DEF NearInv, NewTailHere, Seq2Ind, j
  <2>12. DropBlocked'
    BY <2>1, <2>6 DEF NearInv, DropBlocked
  <2> QED
    BY <2>8, <2>9, <2>10, <2>11, <2>12 DEF NearInv
<1>4. CASE EnqueueReset(p)
  BY <1>4 DEF EnqueueReset, EnqAt, NearInv, Near
<1>5. CASE EnqueueClear(p)
  <2>1. UNCHANGED <<head, ack>>
    BY <1>5 DEF EnqueueClear
  <2>2. \A i \in Slots : /\ status'[i] = "kOccupiedNew" <=> status[i] = "kOccupiedNew"
                         /\ status[i] = "kOccupiedNew" => seqnum'[i] = seqnum[i]
                         /\ status[i] = "kBlock" => status'[i] = "kBlock"
    BY <1>5 DEF EnqueueClear, ClearElement, ResetElement
  <2>3. \A q \in Producers : enq'[q] = enq[q] \/
            /\ q = p /\ enq'[q].pc \in {"idle", "clear"}
            /\ enq'[q].pc = "clear" => enq'[q].seq = enq[q].seq
    BY <1>5 DEF EnqueueClear, EnqueueReturn, IdleEnq, EnqAt
  <2>4. enq[p].pc = "clear" /\ tail' \in {tail, enq[p].seq}
    BY <1>5 DEF EnqueueClear, EnqAt
  <2>5. \A s \in Nat : Seq2Ind(s) \in Slots
    BY Seq2IndSlot
  <2>6. Near'
    BY <2>1, <2>3, <2>4 DEF NearInv, Near
  <2>7. Ahead'
    BY <2>1, <2>2 DEF NearInv, Ahead
  <2>8. TailHere'
    <3>1. status[Seq2Ind(enq[p].seq)] = "kOccupiedNew"
      BY <2>4 DEF NearInv, NewTailHere
    <3>2. CASE tail' = tail
      BY <2>1, <2>2, <2>5, <3>2 DEF NearInv, TailHere, Seq2Ind
    <3>3. CASE tail' = enq[p].seq
      BY <2>1, <2>2, <2>5, <3>1, <3>3 DEF TailHere, Seq2Ind
    <3> QED
      BY <2>4, <3>2, <3>3
  <2>9. NewTailHere'
    BY <2>2, <2>3, <2>4, <2>5 DEF NearInv, NewTailHere, Seq2Ind
  <2>10. DropBlocked'
    BY <2>1, <2>2, SlotOf DEF NearInv, DropBlocked, AckLocals
  <2> QED
    BY <2>6, <2>7, <2>8, <2>9, <2>10 DEF NearInv
<1> QED
  BY <1>1, <1>2, <1>3, <1>4, <1>5 DEF Enqueue

\* DequeuePkt keeps it.
LEMMA DequeueNear ==
    ASSUME OrderInv, NearInv, Dequeue
    PROVE  NearInv'
<1> USE RingAssumption DEF OrderInv, WIInv, TypeOK, ackVars
<1>0. UNCHANGED <<ack, enq, tail>> /\ ack.idx \in Nat
  BY DEF Dequeue, DequeueLock, DequeueElement, DequeueBlock, DequeueWait, DequeueAwake,
     DequeueRelock, DequeueDeliver, DequeueDrop, DequeueReturn, ringVars, AckLocals
<1>1. DropBlocked'
  <2>1. ack.pc = "drop" => /\ ack.idx % BUF_SIZE \in Slots
                           /\ elock[ack.idx % BUF_SIZE] = CreateAck
    BY <1>0, SlotOf DEF ELockInv
  <2>2. \A i \in Slots : elock[i] = CreateAck => status'[i] = status[i]
    BY DequeueWrites
  <2> QED
    BY <1>0, <2>1, <2>2 DEF NearInv, DropBlocked
<1>2. CASE ~DequeueDeliver /\ ~DequeueDrop
  <2>1. UNCHANGED <<head, seqnum>>
    BY <1>2 DEF Dequeue, DequeueLock, DequeueElement, DequeueBlock, DequeueWait,
       DequeueAwake, DequeueRelock, ringVars
  <2>2. \A i \in Slots : status'[i] = "kOccupiedNew" <=> status[i] = "kOccupiedNew"
    BY <1>2 DEF Dequeue, DequeueLock, DequeueElement, DequeueBlock, DequeueWait,
       DequeueAwake, DequeueRelock, ringVars
  <2>3. \A s \in Nat : Seq2Ind(s) \in Slots
    BY Seq2IndSlot
  <2> QED
    BY <1>0, <1>1, <2>1, <2>2, <2>3
    DEF NearInv, Near, Ahead, TailHere, NewTailHere, Seq2Ind, EnqLocals
<1>3. CASE DequeueDeliver \/ DequeueDrop
  <2>1. DeqAt("switch") /\ head' = head + 1
    BY <1>3 DEF DequeueDeliver, DequeueDrop, DequeueReturn
  <2>2. deq.idx \in Slots /\ qlock = WriteTun /\ deq.idx = Seq2Ind(head + 1)
    BY <2>1, HeadPacket, Seq2IndNext DEF DeqAt, HeadSlot
  <2>3. \A i \in Slots :
            /\ i # deq.idx => status'[i] = status[i] /\ seqnum'[i] = seqnum[i]
            /\ status'[deq.idx] # "kOccupiedNew"
    BY <1>3, <2>2 DEF DequeueDeliver, DequeueDrop, ResetElement
  <2>4. \A p \in Producers : enq[p].pc \notin {"reset", "clear"}
    BY <2>2, ThreadsDiffer DEF WindowPart, QLockInv
  <2>5. Near'
    BY <1>0, <2>1 DEF NearInv, Near, EnqLocals
  <2>6. Ahead'
    BY <2>1, <2>3, HeadPacket DEF Ahead
  <2>7. TailHere'
    <3>1. SUFFICES ASSUME head + 1 < tail
                   PROVE  status'[Seq2Ind(tail)] = "kOccupiedNew"
      BY <1>0, <2>1 DEF TailHere, Seq2Ind
    <3>2. tail < head + 1 + BUF_SIZE
      BY DEF WindowPart, WindowInv
    <3>3. Seq2Ind(head + 1) # Seq2Ind(tail) /\ Seq2Ind(tail) \in Slots
      BY <3>1, <3>2, Seq2IndDiffer, Seq2IndSlot
    <3>4. status[Seq2Ind(tail)] = "kOccupiedNew"
      BY <3>1 DEF NearInv, TailHere
    <3> QED
      BY <2>2, <2>3, <3>3, <3>4
  <2>8. NewTailHere'
    BY <1>0, <2>4 DEF NewTailHere
  <2> QED
    BY <1>1, <2>5, <2>6, <2>7, <2>8 DEF NearInv
<1> QED
  BY <1>2, <1>3

\* FindNackSeqNum stores nothing and gives up the blocked packet only.
LEMMA FindNackKeeps ==
    ASSUME OrderInv, NearInv, FindNack, ~AckOverflow
    PROVE  /\ UNCHANGED <<head, tail, enq, last_out>>
           /\ \A i \in Slots :
                 /\ status'[i] = "kOccupiedNew" <=> status[i] = "kOccupiedNew"
                 /\ status[i] = "kOccupiedNew" => seqnum'[i] = seqnum[i]
                 /\ status'[i] = "kDrop" /\ status[i] # "kDrop" => status[i] = "kBlock"
<1> USE DEF OrderInv, WIInv, TypeOK
<1>1. UNCHANGED <<head, tail, enq, last_out>>
  BY DEF FindNack, AckGetBatchID, AckLock, AckWoken, AckInfo, AckStartBatch, AckAssert,
     AckVisit, AckDrop, AckLabel, Label, AckExtra, AckOverflow, AckGiveUp, SendDataAck,
     ringVars
<1>2. CASE AckDrop
  BY <1>1, <1>2 DEF AckDrop, AckAt, NearInv, DropBlocked
<1>3. CASE AckLabel
  BY <1>1, <1>3 DEF AckLabel, Label, AckAt, GiveUpInv
<1>4. CASE AckGiveUp
  BY <1>1, <1>4 DEF AckGiveUp, Label, AckAt, GiveUpInv
<1>5. CASE ~AckDrop /\ ~AckLabel /\ ~AckGiveUp
  <2>1. UNCHANGED <<status, seqnum>>
    BY <1>5 DEF FindNack, AckGetBatchID, AckLock, AckWoken, AckInfo, AckStartBatch,
       AckAssert, AckVisit, AckExtra, SendDataAck, ringVars
  <2> QED
    BY <1>1, <2>1
<1> QED
  BY <1>2, <1>3, <1>4, <1>5

\* FindNackSeqNum keeps it.
LEMMA FindNackNear ==
    ASSUME OrderInv, NearInv, FindNack, ~AckOverflow
    PROVE  NearInv'
<1> USE DEF OrderInv, WIInv, TypeOK
<1>1. UNCHANGED <<head, tail, enq>>
  BY FindNackKeeps
<1>2. \A i \in Slots : /\ status'[i] = "kOccupiedNew" <=> status[i] = "kOccupiedNew"
                       /\ status[i] = "kOccupiedNew" => seqnum'[i] = seqnum[i]
  BY FindNackKeeps
<1>3. \A s \in Nat : Seq2Ind(s) \in Slots
  BY Seq2IndSlot
<1>4. DropBlocked'
  <2>1. CASE AckVisit
    BY <2>1 DEF AckVisit, AckAt, GivesUp, ringVars, NearInv, DropBlocked, AckLocals
  <2>2. CASE ~AckVisit
    <3>1. CASE AckGetBatchID \/ AckLock \/ AckWoken \/ AckInfo \/ AckStartBatch
               \/ AckAssert \/ AckDrop \/ AckLabel
      <4>1. ASSUME AckGetBatchID PROVE ack'.pc # "drop"
        BY <4>1 DEF AckGetBatchID, AckLocals
      <4>2. ASSUME AckLock PROVE ack'.pc # "drop"
        BY <4>2 DEF AckLock, AckSnapshot, AckLocals
      <4>3. ASSUME AckWoken PROVE ack'.pc # "drop"
        BY <4>3 DEF AckWoken, AckSnapshot, AckLocals
      <4>4. ASSUME AckInfo PROVE ack'.pc # "drop"
        BY <4>4 DEF AckInfo, AckLocals
      <4>5. ASSUME AckStartBatch PROVE ack'.pc # "drop"
        BY <4>5 DEF AckStartBatch, AckLocals
      <4>6. ASSUME AckAssert PROVE ack'.pc # "drop"
        BY <4>6 DEF AckAssert, AckAt, AckLocals
      <4>7. ASSUME AckDrop \/ AckLabel PROVE ack'.pc # "drop"
        BY <4>7 DEF AckDrop, AckLabel, AckLocals
      <4> QED
        BY <3>1, <4>1, <4>2, <4>3, <4>4, <4>5, <4>6, <4>7 DEF DropBlocked
    <3>2. CASE AckExtra
      BY <3>2 DEF AckExtra, AckLocals, DropBlocked
    <3>3. CASE AckGiveUp
      BY <3>3 DEF AckGiveUp, AckLocals, DropBlocked
    <3>4. CASE SendDataAck
      BY <3>4 DEF SendDataAck, IdleAck, DropBlocked
    <3> QED
      BY <2>2, <3>1, <3>2, <3>3, <3>4 DEF FindNack
  <2> QED
    BY <2>1, <2>2
<1> QED
  BY <1>1, <1>2, <1>3, <1>4 DEF NearInv, Near, Ahead, TailHere, NewTailHere, Seq2Ind,
     EnqLocals

\* The remaining steps touch nothing of it.
LEMMA NearStep ==
    ASSUME OrderInv, NearInv, MAX_AHEAD <= BUF_SIZE, [Next]_vars, [~AckOverflow]_vars
    PROVE  NearInv'
<1>1. CASE Receive \/ SpuriousWakeup \/ UNCHANGED vars
  BY <1>1 DEF Receive, NewBatch, PacketOfBatch, BatchDecoded, BatchTimeOut,
     SpuriousWakeup, vars, ringVars, ackVars, NearInv, Near, Ahead, TailHere,
     NewTailHere, DropBlocked, Seq2Ind
<1>2. CASE FindNack
  <2>1. CASE AckOverflow
    BY <1>1, <2>1
  <2>2. CASE ~AckOverflow
    BY <1>2, <2>2, FindNackNear
  <2> QED
    BY <2>1, <2>2
<1> QED
  BY <1>1, <1>2, EnqueueNear, DequeueNear DEF Next, Aborted

\* It holds at first: the ring is empty.
LEMMA NearInit == Init => NearInv
BY DEF Init, IdleEnq, IdleAck, NearInv, Near, Ahead, TailHere, NewTailHere, DropBlocked

-----------------------------------------------------------------------------
(* The refinement *)

\* A packet is accepted when its slot is written, and only then.
LEMMA EnqueueAccepts ==
    ASSUME OrderInv, NearInv, NEW p \in Producers, Enqueue(p)
    PROVE  Delivery!Accept \/ UNCHANGED <<head, Pending, last_out>>
<1> USE RingAssumption DEF OrderInv, WIInv, TypeOK
<1>1. CASE EnqueueStore(p)
  <2> DEFINE j == Seq2Ind(enq[p].seq)
             s == enq[p].seq
  <2>1. /\ j \in Slots /\ s \in head + 1 .. head + BUF_SIZE
        /\ UNCHANGED <<head, last_out>>
        /\ status'[j] = "kOccupiedNew"
        /\ seqnum'[j] = s \/ (status[j] = "kOccupiedNew" /\ UNCHANGED <<status, seqnum>>)
        /\ \A i \in Slots : i # j => status'[i] = status[i] /\ seqnum'[i] = seqnum[i]
    BY <1>1, StoreNear
  <2>2. CASE UNCHANGED <<status, seqnum>>
    BY <2>1, <2>2 DEF Pending
  <2>3. CASE ~UNCHANGED <<status, seqnum>>
    <3>1. status[j] # "kOccupiedNew"
      BY <1>1, <2>3 DEF EnqueueStore, StoreElement
    <3>2. Pending' = Pending \cup {s}
      <4> HIDE DEF j, s
      <4>1. ASSUME NEW x \in Pending PROVE x \in Pending'
        BY <2>1, <3>1, <4>1 DEF Pending
      <4>2. s \in Pending'
        BY <2>1, <2>3 DEF Pending
      <4>3. ASSUME NEW x \in Pending' PROVE x \in Pending \/ x = s
        BY <2>1, <2>3, <4>3 DEF Pending
      <4> QED
        BY <4>1, <4>2, <4>3
    <3> QED
      BY <2>1, <3>2 DEF Delivery!Accept
  <2> QED
    BY <2>2, <2>3
<1>2. CASE ~EnqueueStore(p)
  <2>1. ~EnqueueReset(p)
    BY DEF EnqueueReset, EnqAt, NearInv, Near
  <2>2. UNCHANGED <<head, last_out>>
    BY <1>2, <2>1 DEF Enqueue, EnqueueCall, EnqueueLock, EnqueueFull, EnqueueClear, ringVars
  <2>3. \A i \in Slots : /\ status'[i] = "kOccupiedNew" <=> status[i] = "kOccupiedNew"
                         /\ status[i] = "kOccupiedNew" => seqnum'[i] = seqnum[i]
    BY <1>2, <2>1 DEF Enqueue, EnqueueCall, EnqueueLock, EnqueueFull, FullDrop,
       EnqueueClear, ClearElement, ResetElement, ringVars
  <2> QED
    BY <2>2, <2>3, PendingSame
<1> QED
  BY <1>1, <1>2

\* RxWriteTun takes the next packet if it is there; if not, a later one is.
LEMMA DequeueDelivers ==
    ASSUME OrderInv, NearInv, Dequeue
    PROVE  Delivery!Deliver \/ Delivery!Skip \/ UNCHANGED <<head, Pending, last_out>>
<1> USE RingAssumption DEF OrderInv, WIInv, TypeOK
<1>1. CASE DequeueDeliver \/ DequeueDrop
  <2>1. DeqAt("switch") /\ head' = head + 1
    BY <1>1 DEF DequeueDeliver, DequeueDrop, DequeueReturn
  <2>2. deq.idx \in Slots /\ deq.idx = Seq2Ind(head + 1)
    BY <2>1, HeadPacket, Seq2IndNext DEF DeqAt, HeadSlot
  <2>3. \A i \in Slots : i # deq.idx => status'[i] = status[i] /\ seqnum'[i] = seqnum[i]
    BY <1>1, <2>2 DEF DequeueDeliver, DequeueDrop, ResetElement
  <2>4. \A i \in Slots : status[i] = "kOccupiedNew" /\ i # deq.idx => seqnum[i] # head + 1
    BY <2>1, HeadPacket
  <2>5. CASE DequeueDeliver
    <3>1. status[deq.idx] = "kOccupiedNew" /\ status'[deq.idx] = "kRead"
          /\ last_out' = seqnum[deq.idx]
      BY <2>2, <2>5 DEF DequeueDeliver
    <3>2. seqnum[deq.idx] = head + 1
      BY <2>1, <2>2, <3>1, HeadPacket DEF NearInv, Ahead
    <3>3. Pending' = Pending \ {head + 1} /\ head + 1 \in Pending
      <4>1. ASSUME NEW x \in Pending' PROVE x \in Pending /\ x # head + 1
        BY <2>3, <2>4, <3>1, <4>1 DEF Pending
      <4>2. ASSUME NEW x \in Pending, x # head + 1 PROVE x \in Pending'
        <5>1. PICK i \in Slots : status[i] = "kOccupiedNew" /\ x = seqnum[i]
          BY <4>2 DEF Pending
        <5>2. i # deq.idx
          BY <3>2, <4>2, <5>1
        <5> QED
          BY <2>3, <5>1, <5>2 DEF Pending
      <4>3. head + 1 \in Pending
        BY <2>2, <3>1, <3>2 DEF Pending
      <4> QED
        BY <4>1, <4>2, <4>3
    <3> QED
      BY <2>1, <3>1, <3>2, <3>3 DEF Delivery!Deliver
  <2>6. CASE DequeueDrop
    <3>1. status[deq.idx] # "kOccupiedNew" /\ status'[deq.idx] # "kOccupiedNew"
          /\ UNCHANGED last_out
      BY <2>2, <2>6 DEF DequeueDrop, ResetElement
    <3>2. Pending' = Pending
      BY <2>3, <3>1, PendingSame
    <3>3. head + 1 \notin Pending
      BY <2>4, <3>1 DEF Pending
    <3>4. Pending # {}
      <4>1. head < tail
        BY <2>1 DEF DeqAt, WindowPart, DequeueNotEmpty
      <4>2. Seq2Ind(tail) \in Slots /\ status[Seq2Ind(tail)] = "kOccupiedNew"
        BY <4>1, Seq2IndSlot DEF NearInv, TailHere
      <4> QED
        BY <4>2 DEF Pending
    <3> QED
      BY <2>1, <3>1, <3>2, <3>3, <3>4 DEF Delivery!Skip
  <2> QED
    BY <1>1, <2>5, <2>6
<1>2. CASE ~DequeueDeliver /\ ~DequeueDrop
  <2>1. UNCHANGED <<head, seqnum, last_out>>
    BY <1>2 DEF Dequeue, DequeueLock, DequeueElement, DequeueBlock, DequeueWait,
       DequeueAwake, DequeueRelock, ringVars
  <2>2. \A i \in Slots : status'[i] = "kOccupiedNew" <=> status[i] = "kOccupiedNew"
    BY <1>2 DEF Dequeue, DequeueLock, DequeueElement, DequeueBlock, DequeueWait,
       DequeueAwake, DequeueRelock, ringVars
  <2> QED
    BY <2>1, <2>2, PendingSame
<1> QED
  BY <1>1, <1>2

\* RxDataBuf implements InOrderDelivery: every packet stored is handed out in its
\* turn, and RxWriteTun skips a packet only if it is missing and a later one waits.
\* The sender stays within BUF_SIZE packets of head_pt, and no acknowledgement
\* overflows: EnqueuePkt and FindNackSeqNum throw packets away otherwise.
THEOREM ImplementsDelivery ==
    ASSUME MAX_AHEAD <= BUF_SIZE
    PROVE  Spec /\ [][~AckOverflow]_vars => DeliverySpec
<1>1. Init => Delivery!DeliveryInit
  BY DEF Init, Delivery!DeliveryInit, Pending
<1>2. OrderInv /\ NearInv /\ [Next]_vars /\ [~AckOverflow]_vars => NearInv'
  BY NearStep
<1>3. ASSUME OrderInv, NearInv, [Next]_vars, [~AckOverflow]_vars
      PROVE  [Delivery!DeliveryNext]_(Delivery!deliveryVars)
  <2> USE DEF Delivery!DeliveryNext, Delivery!deliveryVars
  <2>1. CASE Receive \/ SpuriousWakeup \/ UNCHANGED vars
    BY <2>1 DEF Receive, NewBatch, PacketOfBatch, BatchDecoded, BatchTimeOut,
       SpuriousWakeup, vars, ringVars, Pending
  <2>2. ASSUME NEW p \in Producers, Enqueue(p)
        PROVE  [Delivery!DeliveryNext]_(Delivery!deliveryVars)
    BY <1>3, <2>2, EnqueueAccepts
  <2>3. CASE Dequeue
    BY <1>3, <2>3, DequeueDelivers
  <2>4. CASE FindNack
    <3>1. CASE AckOverflow
      BY <1>3, <2>1, <3>1
    <3>2. CASE ~AckOverflow
      BY <1>3, <2>4, <3>2, FindNackKeeps, PendingSame
    <3> QED
      BY <3>1, <3>2
  <2> QED
    BY <1>3, <2>1, <2>2, <2>3, <2>4 DEF Next, Aborted
<1> QED
  BY OrderInvariant, NearInit, <1>1, <1>2, <1>3, PTL DEF Spec, DeliverySpec,
     Delivery!DeliverySpec

\* EnqueuePkt leaves a slot alone only because it holds the same packet.
THEOREM DuplicatesIgnored ==
    ASSUME MAX_AHEAD <= BUF_SIZE
    PROVE  Spec /\ [][~AckOverflow]_vars => []OnlyDuplicatesIgnored
<1>1. OrderInv /\ NearInv => OnlyDuplicatesIgnored
  <2> SUFFICES ASSUME OrderInv, NearInv, NEW p \in Producers, enq[p].pc = "store",
                      status[Seq2Ind(enq[p].seq)] = "kOccupiedNew"
               PROVE  seqnum[Seq2Ind(enq[p].seq)] = enq[p].seq
    BY DEF OnlyDuplicatesIgnored
  <2> USE RingAssumption DEF OrderInv, WIInv, TypeOK, EnqLocals
  <2> DEFINE s == enq[p].seq
             t == seqnum[Seq2Ind(enq[p].seq)]
  <2>1. s \in head + 1 .. head + BUF_SIZE
    BY DEF NearInv, Near, WindowPart, EnqInv
  <2>2. Seq2Ind(s) \in Slots
    BY <2>1, Seq2IndSlot
  <2>3. t \in head + 1 .. head + BUF_SIZE
    BY <2>2 DEF NearInv, Ahead, OccupiedInv
  <2>4. Seq2Ind(t) = Seq2Ind(s)
    BY <2>2, <2>3 DEF SeqnumOwn
  <2> HIDE DEF s, t
  <2>5. ~(s < t) /\ ~(t < s)
    BY <2>1, <2>3, <2>4, Seq2IndDiffer
  <2>6. s = t
    BY <2>1, <2>3, <2>5
  <2> QED
    BY <2>6 DEF s, t
<1>2. OrderInv /\ NearInv /\ [Next]_vars /\ [~AckOverflow]_vars => NearInv'
  BY NearStep
<1> QED
  BY OrderInvariant, NearInit, <1>1, <1>2, PTL DEF Spec

\* Only the packet RxWriteTun is blocked on is given up: the slot FindNackSeqNum saw
\* blocked is still blocked when it comes to write to it.
THEOREM BlockedDropped ==
    ASSUME MAX_AHEAD <= BUF_SIZE
    PROVE  Spec /\ [][~AckOverflow]_vars => OnlyBlockedDropped
<1>1. ASSUME OrderInv, NearInv, [Next]_vars, [~AckOverflow]_vars, NEW i \in Slots,
             status'[i] = "kDrop", status[i] # "kDrop"
      PROVE  status[i] = "kBlock"
  <2> USE DEF OrderInv, WIInv, TypeOK
  <2>1. CASE Receive \/ SpuriousWakeup \/ UNCHANGED vars
    BY <1>1, <2>1 DEF Receive, NewBatch, PacketOfBatch, BatchDecoded, BatchTimeOut,
       SpuriousWakeup, vars, ringVars
  <2>2. ASSUME NEW p \in Producers, Enqueue(p) PROVE status[i] = "kBlock"
    BY <1>1, <2>2 DEF Enqueue, EnqueueCall, EnqueueLock, EnqueueFull, FullDrop,
       EnqueueStore, StoreElement, EnqueueReset, ResetOthers, EnqueueClear,
       ClearElement, ResetElement, ringVars
  <2>3. CASE Dequeue
    BY <1>1, <2>3 DEF Dequeue, DequeueLock, DequeueElement, DequeueBlock, DequeueWait,
       DequeueAwake, DequeueRelock, DequeueDeliver, DequeueDrop, ResetElement, ringVars
  <2>4. CASE FindNack
    <3>1. CASE AckOverflow
      BY <1>1, <2>1, <3>1
    <3>2. CASE ~AckOverflow
      BY <1>1, <2>4, <3>2, FindNackKeeps
    <3> QED
      BY <3>1, <3>2
  <2> QED
    BY <1>1, <2>1, <2>2, <2>3, <2>4 DEF Next, Aborted
<1>2. OrderInv /\ NearInv /\ [Next]_vars /\ [~AckOverflow]_vars =>
          /\ NearInv'
          /\ [\A i \in Slots : status'[i] = "kDrop" /\ status[i] # "kDrop" =>
                 status[i] = "kBlock"]_vars
  BY NearStep, <1>1
<1> QED
  BY OrderInvariant, NearInit, <1>2, PTL DEF Spec, OnlyBlockedDropped

-----------------------------------------------------------------------------
(* The wait of RxWriteTun for a missing packet *)

\* RxWriteTun lets go of the queue before it sleeps, but of the slot only as it does:
\* the slot is still blocked when it falls asleep, and who unblocks it signals,
\* FindNackSeqNum in a second step under the slot's lock.
AvailInv ==
    /\ availWait \subseteq {WriteTun}
    /\ deq.pc = "gap" => status[deq.idx] = "kBlock"
    /\ deq.pc = "wait" /\ WriteTun \in availWait =>
          \/ status[deq.idx] = "kBlock"
          \/ ack.pc = "label" /\ deq.idx = ack.idx % BUF_SIZE

\* A signal leaves nobody asleep.
LEMMA SignalOne ==
    ASSUME availWait \subseteq {WriteTun}, SignalElementAvail
    PROVE  availWait' = {}
BY DEF SignalElementAvail, Woken

\* A step that unblocks no slot and puts nobody to sleep.
LEMMA AvailFrame ==
    ASSUME AvailInv, TypeOK, UNCHANGED <<deq, ack>>, availWait' \subseteq availWait,
           \A i \in Slots : status[i] = "kBlock" => status'[i] = "kBlock"
    PROVE  AvailInv'
BY DEF AvailInv, TypeOK, DeqLocals

\* EnqueuePkt signals whenever it unblocks a slot, and it does so under the slot's lock.
LEMMA EnqueueAvail ==
    ASSUME OrderInv, NearInv, AvailInv, NEW p \in Producers, Enqueue(p)
    PROVE  AvailInv'
<1> USE RingAssumption DEF OrderInv, WIInv, TypeOK, EnqLocals, ackVars
<1>0. /\ UNCHANGED <<deq, ack, elock>> /\ deq.idx \in Slots
      /\ deq.pc = "gap" => elock[deq.idx] # Free
  BY EnqueueWrites, ThreadsDiffer DEF ELockInv, DeqLocals
<1>1. CASE EnqueueCall(p) \/ EnqueueLock(p) \/ EnqueueClear(p)
  <2>1. UNCHANGED availWait
    BY <1>1 DEF EnqueueCall, EnqueueLock, EnqueueClear, condVars
  <2>2. \A i \in Slots : status[i] = "kBlock" => status'[i] = "kBlock"
    BY <1>1 DEF EnqueueCall, EnqueueLock, EnqueueClear, ClearElement, ResetElement,
       ringVars
  <2> QED
    BY <1>0, <2>1, <2>2, AvailFrame
<1>2. CASE EnqueueFull(p)
  <2>1. availWait' = {}
    BY <1>2, SignalOne DEF EnqueueFull, AvailInv
  <2>2. \A i \in Slots : elock[i] # Free => status'[i] = status[i]
    BY <1>2 DEF EnqueueFull, FullDrop
  <2> QED
    BY <1>0, <2>1, <2>2 DEF AvailInv
<1>3. CASE EnqueueStore(p)
  <2> DEFINE j == Seq2Ind(enq[p].seq)
  <2>1. /\ j \in Slots /\ elock[j] = Free
        /\ \A i \in Slots : i # j => status'[i] = status[i]
    BY <1>3, StoreNear
  <2>2. ~IsWrap(p)
    BY <1>3 DEF EnqueueStore, EnqAt, IsWrap, NearInv, Near
  <2>3. CASE WakesWriteTun(status[j])
    <3>1. availWait' = {}
      BY <1>3, <2>2, <2>3, SignalOne DEF EnqueueStore, StoreElement, AvailInv
    <3> QED
      BY <1>0, <2>1, <3>1 DEF AvailInv
  <2>4. CASE ~WakesWriteTun(status[j])
    <3>1. UNCHANGED availWait
      BY <1>3, <2>4 DEF EnqueueStore, StoreElement
    <3>2. status[j] # "kBlock"
      BY <2>4 DEF WakesWriteTun
    <3> QED
      BY <1>0, <2>1, <3>1, <3>2, AvailFrame
  <2> QED
    BY <2>3, <2>4
<1>4. CASE EnqueueReset(p)
  BY <1>4 DEF EnqueueReset, EnqAt, NearInv, Near
<1> QED
  BY <1>1, <1>2, <1>3, <1>4 DEF Enqueue

\* RxWriteTun falls asleep on a blocked slot.
LEMMA DequeueAvail ==
    ASSUME OrderInv, AvailInv, Dequeue
    PROVE  AvailInv'
<1> USE DEF OrderInv, WIInv, TypeOK, DeqLocals, AvailInv, DeqAt
<1>1. CASE DequeueLock
  BY <1>1 DEF DequeueLock
<1>2. CASE DequeueElement
  BY <1>2 DEF DequeueElement, condVars
<1>3. CASE DequeueBlock
  BY <1>3 DEF DequeueBlock, condVars
<1>4. CASE DequeueWait
  BY <1>4 DEF DequeueWait, ringVars
<1>5. CASE DequeueAwake
  BY <1>5 DEF DequeueAwake, condVars
<1>6. CASE DequeueRelock
  BY <1>6 DEF DequeueRelock, condVars
<1>7. CASE DequeueDeliver \/ DequeueDrop
  BY <1>7 DEF DequeueDeliver, DequeueDrop, DequeueReturn
<1> QED
  BY <1>1, <1>2, <1>3, <1>4, <1>5, <1>6, <1>7 DEF Dequeue

\* FindNackSeqNum unblocks a slot in one step and signals in the next.
LEMMA FindNackAvail ==
    ASSUME OrderInv, NearInv, AvailInv, FindNack, ~AckOverflow
    PROVE  AvailInv'
<1> USE DEF OrderInv, WIInv, TypeOK, AckLocals
<1>0. UNCHANGED deq /\ deq.idx \in Slots /\ ack.idx % BUF_SIZE \in Slots
  <2>1. UNCHANGED deq
    BY DEF FindNack, AckGetBatchID, AckLock, AckWoken, AckInfo, AckStartBatch,
       AckAssert, AckVisit, AckDrop, AckLabel, Label, AckExtra, AckGiveUp, SendDataAck
  <2>2. ack.idx \in Int
    OBVIOUS
  <2> QED
    BY <2>1, <2>2, SlotOf DEF DeqLocals
<1>1. CASE AckDrop
  <2>1. ack.pc = "drop" /\ ack'.pc = "label" /\ ack'.idx = ack.idx /\ UNCHANGED availWait
    BY <1>1 DEF AckDrop, AckAt, condVars
  <2>2. \A i \in Slots : i # ack.idx % BUF_SIZE => status'[i] = status[i]
    BY <1>1 DEF AckDrop
  <2>3. deq.pc = "gap" => deq.idx # ack.idx % BUF_SIZE
    BY <2>1, ThreadsDiffer DEF ELockInv
  <2> QED
    BY <1>0, <2>1, <2>2, <2>3 DEF AvailInv
<1>2. CASE AckLabel \/ AckGiveUp
  <2>1. SignalElementAvail /\ UNCHANGED status
    BY <1>2 DEF AckLabel, AckGiveUp, Label
  <2>2. availWait' = {}
    BY <2>1, SignalOne DEF AvailInv
  <2> QED
    BY <1>0, <2>1, <2>2 DEF AvailInv
<1>3. CASE ~AckDrop /\ ~AckLabel /\ ~AckGiveUp
  <2>1. UNCHANGED <<status, availWait>> /\ ack.pc # "label"
    BY <1>3 DEF FindNack, AckGetBatchID, AckLock, AckWoken, AckInfo, AckStartBatch,
       AckAssert, AckVisit, AckExtra, SendDataAck, ringVars, condVars, AckAt
  <2> QED
    BY <1>0, <2>1 DEF AvailInv
<1> QED
  BY <1>1, <1>2, <1>3

\* Every step keeps the signal of a packet that has arrived.
LEMMA AvailStep ==
    ASSUME OrderInv, NearInv, AvailInv, [Next]_vars, [~AckOverflow]_vars
    PROVE  AvailInv'
<1>1. CASE Receive \/ SpuriousWakeup \/ UNCHANGED vars
  <2>1. UNCHANGED <<deq, ack, status>> /\ availWait' \subseteq availWait
    BY <1>1 DEF Receive, NewBatch, PacketOfBatch, BatchDecoded, BatchTimeOut,
       SpuriousWakeup, vars, ringVars, condVars, ackVars
  <2> QED
    BY <2>1, AvailFrame DEF OrderInv, WIInv
<1>2. CASE AckOverflow
  BY <1>1, <1>2
<1> QED
  BY <1>1, <1>2, EnqueueAvail, DequeueAvail, FindNackAvail DEF Next, Aborted

\* RxWriteTun sleeps only while its packet is missing: the signal of a packet that
\* arrives, or is given up, between DequeuePkt's look at the slot and its sleep is not
\* lost.  (A wrap-around resets slots without their locks, and loses it.)
THEOREM AvailNotLost ==
    ASSUME MAX_AHEAD <= BUF_SIZE
    PROVE  Spec /\ [][~AckOverflow]_vars => []NoLostAvail
<1>1. Init => AvailInv
  BY DEF Init, AvailInv
<1>2. OrderInv /\ AvailInv => NoLostAvail
  BY ThreadsDiffer DEF OrderInv, ELockInv, AvailInv, NoLostAvail
<1>3. OrderInv /\ NearInv /\ [Next]_vars /\ [~AckOverflow]_vars => NearInv'
  BY NearStep
<1>4. OrderInv /\ NearInv /\ AvailInv /\ [Next]_vars /\ [~AckOverflow]_vars => AvailInv'
  BY AvailStep
<1> QED
  BY OrderInvariant, NearInit, <1>1, <1>2, <1>3, <1>4, PTL DEF Spec

-----------------------------------------------------------------------------
(***************************************************************************)
(* The data acknowledgement, for every ring size, number of nacks and      *)
(* width of a relative number, and whatever the sender does:               *)
(* FindNackSeqNum, which copies head_pt and tail_pt and walks from the one *)
(* to the other while both move on, returns nacks that lie close enough    *)
(* together to be read back.                                               *)
(***************************************************************************)

\* The nacks within the copied window, and those that fit in past its end: the more of
\* them lie past it, the fewer lie within.
InWindow == \A s \in ack.nacks : s + BUF_SIZE > ack.tail /\ s <= ack.tail
InReach  ==
    /\ \A s \in ack.nacks : s + BUF_SIZE > ack.tail /\ s < ack.tail + ACK_WINDOW
    /\ \A s, t \in ack.nacks : s - t + 2 < BUF_SIZE + ACK_WINDOW

\* What the walk knows.  The loop test (idx <= end_pt < tail) keeps the nacks
\* below the copied tail, the window invariant at the time of the copy keeps
\* them above tail - BUF_SIZE, and the test against max_num_nacks bounds those
\* that follow the tail.
AckInv ==
    /\ ack.pc \in {"start", "lock", "woken", "info", "batch", "assert"} => ack.nacks = {}
    /\ ack.pc \in {"info", "batch", "assert", "visit", "drop", "label"} =>
          ack.tail <= ack.idx + BUF_SIZE
    /\ ack.pc \in {"visit", "drop", "label"} => ack.end_pt < ack.tail /\ InWindow
    /\ ack.pc = "emit" => InReach

\* A set of fewer than ACK_WINDOW numbers has no interval of as many.
LEMMA FewFollow ==
    ASSUME NEW a \in Nat, NEW b \in Nat, NEW n \in Nat, NEW all,
           IsFiniteSet(all), Cardinality(all) < n, a + 1 .. b \subseteq all
    PROVE  \A s \in a + 1 .. b : s < a + n
<1>1. Cardinality(a + 1 .. b) <= Cardinality(all)
  BY FS_Subset
<1>2. Cardinality(a + 1 .. b) = IF a + 1 > b THEN 0 ELSE b - (a + 1) + 1
  BY FS_Interval
<1>3. Cardinality(all) \in Nat
  BY FS_CardinalityType
<1> QED
  BY <1>1, <1>2, <1>3

\* Numbers below a bound are finitely many.
LEMMA BoundedFinite ==
    ASSUME NEW S \in SUBSET Nat, NEW n \in Nat, \A s \in S : s <= n
    PROVE  IsFiniteSet(S)
<1>1. IsFiniteSet(0 .. n)
  BY FS_Interval
<1>2. S \subseteq 0 .. n
  OBVIOUS
<1> QED
  BY <1>1, <1>2, FS_Subset

\* The end of the walk.
LEMMA ExtraReach ==
    ASSUME TypeOK, AckInv, AckExtra
    PROVE  AckInv'
<1> USE DEF TypeOK, AckLocals
<1> DEFINE all == ack.nacks \cup Extras
<1>1. ack'.pc = IF Cardinality(all) >= ACK_WINDOW THEN "overflow" ELSE "emit"
  BY DEF AckExtra, TooMany
<1>2. ack'.nacks = all /\ ack'.tail = ack.tail
  BY DEF AckExtra
<1>3. InWindow
  BY DEF AckInv, AckExtra, AckAt
<1>4. IsFiniteSet(all)
  <2>1. \A s \in all : s <= Larger(ack.tail, ack.end_seq)
    BY <1>3 DEF InWindow, Extras, Larger
  <2>2. all \in SUBSET Nat /\ Larger(ack.tail, ack.end_seq) \in Nat
    BY DEF Extras, Larger
  <2> HIDE DEF all
  <2> QED
    BY <2>1, <2>2, BoundedFinite
<1>5. ASSUME Cardinality(all) < ACK_WINDOW
      PROVE  /\ \A s \in all : s + BUF_SIZE > ack.tail /\ s < ack.tail + ACK_WINDOW
             /\ \A s, t \in all : s - t + 2 < BUF_SIZE + ACK_WINDOW
  <2>1. \A s \in ack.tail + 1 .. ack.end_seq : s < ack.tail + ACK_WINDOW
    BY <1>4, <1>5, FewFollow, AckPktAssumption DEF Extras
  <2>2. \A s \in all : s + BUF_SIZE > ack.tail /\ s < ack.tail + ACK_WINDOW
    BY <1>3, <2>1, RingAssumption, AckPktAssumption DEF InWindow, Extras
  <2>3. /\ ack.tail \in Nat /\ ack.end_seq \in Nat /\ all \in SUBSET Nat
        /\ BUF_SIZE \in Nat \ {0} /\ ACK_WINDOW \in Nat \ {0}
    BY RingAssumption, AckPktAssumption DEF Extras
  <2>4. \A s \in all : s <= ack.tail \/ s \in ack.tail + 1 .. ack.end_seq
    BY <1>3 DEF InWindow, Extras
  <2>5. ack.tail + 1 .. ack.end_seq \subseteq all
    BY DEF Extras
  <2> HIDE DEF all
  <2>6. ASSUME NEW s \in all, NEW t \in all
        PROVE  s - t + 2 < BUF_SIZE + ACK_WINDOW
    <3>0. s \in Nat /\ t \in Nat
      BY <2>3
    <3>1. Cardinality(all \ {t}) = Cardinality(all) - 1 /\ IsFiniteSet(all \ {t})
      BY <1>4, FS_RemoveElement
    <3>2. Cardinality(all) \in Nat /\ Cardinality(all \ {t}) \in Nat
      BY <1>4, <3>1, FS_CardinalityType
    <3>3. ACK_WINDOW >= 2 /\ Cardinality(all \ {t}) < ACK_WINDOW - 1
      BY <1>5, <2>3, <3>1, <3>2
    <3>4. CASE s <= ack.tail
      BY <2>2, <2>3, <3>0, <3>3, <3>4
    <3>5. CASE s > ack.tail /\ t > ack.tail
      BY <2>2, <2>3, <3>0, <3>5
    <3>6. CASE s > ack.tail /\ t <= ack.tail
      <4>1. ack.tail + 1 .. ack.end_seq \subseteq all \ {t}
        BY <2>3, <2>5, <3>0, <3>6
      <4>2. s \in ack.tail + 1 .. ack.end_seq
        BY <2>3, <2>4, <3>0, <3>6
      <4>3. ACK_WINDOW - 1 \in Nat
        BY <2>3
      <4>4. s < ack.tail + (ACK_WINDOW - 1)
        BY <2>3, <3>1, <3>3, <4>1, <4>2, <4>3, FewFollow
      <4>5. t + BUF_SIZE > ack.tail
        BY <2>2
      <4> QED
        BY <2>3, <3>0, <4>4, <4>5
    <3> QED
      BY <2>3, <3>0, <3>4, <3>5, <3>6
  <2> QED
    BY <2>2, <2>6 DEF all
<1>6. Cardinality(all) \in Nat
  BY <1>4, FS_CardinalityType
<1>7. CASE Cardinality(all) >= ACK_WINDOW
  BY <1>1, <1>7 DEF AckInv
<1>8. CASE Cardinality(all) < ACK_WINDOW
  <2>1. ack'.pc = "emit"
    BY <1>1, <1>6, <1>8, AckPktAssumption
  <2>2. InReach'
    BY <1>2, <1>5, <1>8 DEF InReach
  <2> QED
    BY <2>1, <2>2 DEF AckInv
<1> QED
  BY <1>6, <1>7, <1>8, AckPktAssumption

\* Only FindNackSeqNum writes its locals.
LEMMA OthersKeepAck ==
    ASSUME [Next]_vars, ~FindNack
    PROVE  UNCHANGED ack
<1>1. ASSUME NEW p \in Producers, Enqueue(p) PROVE UNCHANGED ack
  BY <1>1 DEF Enqueue, EnqueueCall, EnqueueLock, EnqueueFull, EnqueueStore,
     EnqueueReset, EnqueueClear, ackVars
<1>2. CASE Dequeue
  BY <1>2 DEF Dequeue, DequeueLock, DequeueElement, DequeueBlock, DequeueWait,
     DequeueAwake, DequeueRelock, DequeueDeliver, DequeueDrop, DequeueReturn, ackVars
<1>3. CASE Receive \/ SpuriousWakeup \/ Aborted \/ UNCHANGED vars
  BY <1>3 DEF Receive, NewBatch, PacketOfBatch, BatchDecoded, BatchTimeOut,
     SpuriousWakeup, Aborted, vars, ackVars
<1> QED
  BY <1>1, <1>2, <1>3 DEF Next

\* Every step of the thread keeps it.
LEMMA AckStep == WIInv /\ AckInv /\ [Next]_vars => AckInv'
<1> SUFFICES ASSUME WIInv, AckInv, [Next]_vars PROVE AckInv'
  OBVIOUS
<1> USE RingAssumption, AckPktAssumption DEF WIInv, TypeOK, AckLocals
<1>1. CASE UNCHANGED ack
  BY <1>1 DEF AckInv, InWindow, InReach
<1>2. CASE FindNack
  <2> USE DEF AckInv, InWindow, InReach, AckAt
  <2>1. CASE AckGetBatchID
    BY <2>1 DEF AckGetBatchID
  <2>2. CASE AckLock \/ AckWoken
    <3>1. \/ ack' = [ack EXCEPT !.pc = "woken"]
          \/ ack' = [ack EXCEPT !.pc = "info", !.batch = 0, !.idx = head, !.tail = tail]
      BY <2>2 DEF AckLock, AckWoken, AckSnapshot
    <3>2. ack.nacks = {} /\ tail <= head + BUF_SIZE
      BY <2>2 DEF AckLock, AckWoken, WindowPart, WindowInv
    <3>3. /\ ack'.nacks = {} /\ ack'.pc \in {"woken", "info"}
          /\ ack'.pc = "info" => ack'.idx = head /\ ack'.tail = tail
      BY <3>1, <3>2
    <3> QED
      BY <3>2, <3>3
  <2>3. CASE AckInfo \/ AckStartBatch \/ AckAssert
    <3>1. ack.nacks = {} /\ ack'.nacks = {} /\ ack'.tail = ack.tail /\ ack'.idx = ack.idx
      <4>1. ack.pc \in {"info", "batch", "assert"}
        BY <2>3 DEF AckInfo, AckStartBatch, AckAssert
      <4>2. CASE AckInfo
        <5>1. ack'.nacks = ack.nacks /\ ack'.tail = ack.tail /\ ack'.idx = ack.idx
          <6> HIDE DEF AckInv
          <6> QED
            BY <4>2 DEF AckInfo
        <5> QED
          BY <4>1, <5>1
      <4>3. CASE AckStartBatch
        BY <4>1, <4>3 DEF AckStartBatch
      <4>4. CASE AckAssert
        BY <4>1, <4>4 DEF AckAssert
      <4> QED
        BY <2>3, <4>2, <4>3, <4>4
    <3>2. ack'.pc \in {"batch", "emit", "assert", "visit"}
      BY <2>3 DEF AckInfo, AckStartBatch, AckAssert
    <3>3. ack'.pc = "visit" => ack'.end_pt < ack'.tail
      BY <2>3 DEF AckInfo, AckStartBatch, AckAssert
    <3>4. ack.tail <= ack.idx + BUF_SIZE
      <4>1. ack.pc \in {"info", "batch", "assert"}
        BY <2>3 DEF AckInfo, AckStartBatch, AckAssert
      <4> QED
        BY <4>1
    <3> QED
      BY <3>1, <3>2, <3>3, <3>4
  <2>4. CASE AckVisit \/ AckDrop \/ AckLabel
    <3>1. /\ ack.tail <= ack.idx + BUF_SIZE
          /\ ack.end_pt < ack.tail
          /\ InWindow
      BY <2>4 DEF AckVisit, AckDrop, AckLabel
    <3>2. /\ ack'.tail = ack.tail /\ ack'.end_pt = ack.end_pt
          /\ ack'.idx \in {ack.idx, ack.idx + 1}
          /\ ack'.pc \in {"visit", "drop", "label"}
      <4> HIDE DEF AckInv
      <4>1. CASE AckVisit
        BY <4>1 DEF AckVisit
      <4>2. CASE AckDrop
        BY <4>2 DEF AckDrop
      <4>3. CASE AckLabel
        BY <4>3 DEF AckLabel
      <4> QED
        BY <2>4, <4>1, <4>2, <4>3
    <3>3. \/ ack'.nacks = ack.nacks
          \/ /\ ack'.nacks = ack.nacks \cup {ack.idx + 1}
             /\ ack.idx <= ack.end_pt
      BY <2>4 DEF AckVisit, AckDrop, AckLabel
    <3>4. InWindow'
      <4>1. ack.idx + 1 + BUF_SIZE > ack.tail /\ (ack.idx <= ack.end_pt => ack.idx + 1 <= ack.tail)
        BY <3>1
      <4>2. \A s \in ack.nacks : s + BUF_SIZE > ack.tail /\ s <= ack.tail
        BY <3>1
      <4>3. \A s \in ack'.nacks :
                s \in ack.nacks \/ (s = ack.idx + 1 /\ ack.idx <= ack.end_pt)
        BY <3>3
      <4> QED
        BY <3>2, <4>1, <4>2, <4>3
    <3>5. ack'.tail <= ack'.idx + BUF_SIZE /\ ack'.end_pt < ack'.tail
      BY <3>1, <3>2
    <3> HIDE DEF InWindow
    <3> QED
      BY <3>2, <3>4, <3>5
  <2>5. CASE AckExtra
    BY <2>5, ExtraReach
  <2>6. CASE AckOverflow \/ AckGiveUp \/ SendDataAck
    <3>1. CASE AckOverflow
      BY <3>1 DEF AckOverflow
    <3>2. CASE AckGiveUp
      <4>1. PICK seq \in ack.nacks :
                ack' = [ack EXCEPT !.pc = IF ack.nacks \ {seq} = {} THEN "emit"
                                                                   ELSE "overflow",
                                   !.nacks = ack.nacks \ {seq}]
        BY <3>2 DEF AckGiveUp
      <4> DEFINE rest == ack.nacks \ {seq}
      <4>2. ack' = [ack EXCEPT !.pc = IF rest = {} THEN "emit" ELSE "overflow",
                               !.nacks = rest]
        BY <4>1
      <4> HIDE DEF rest
      <4>3. ack'.pc = (IF rest = {} THEN "emit" ELSE "overflow") /\ ack'.nacks = rest
        BY <4>2
      <4>4. CASE rest = {}
        BY <4>3, <4>4
      <4>5. CASE rest # {}
        BY <4>3, <4>5
      <4> QED
        BY <4>4, <4>5
    <3>3. CASE SendDataAck
      BY <3>3 DEF SendDataAck, IdleAck
    <3> QED
      BY <2>6, <3>1, <3>2, <3>3
  <2> QED
    BY <1>2, <2>1, <2>2, <2>3, <2>4, <2>5, <2>6 DEF FindNack
<1>3. CASE ~FindNack
  BY <1>1, <1>3, OthersKeepAck
<1> QED
  BY <1>2, <1>3

\* The packet of RxCreateDataAck is read back as it was filled: the distances
\* from the first nack fit in their width if BUF_SIZE + ACK_WINDOW - 3 does.
THEOREM DataNacksAreRead == Spec => []DataNacksParse
<1>1. Init => AckInv
  BY DEF Init, IdleAck, AckInv
<1>2. WIInv /\ AckInv => DataNacksParse
  <2> SUFFICES ASSUME WIInv, AckInv, ack.pc = "emit",
                      REL_SIZE >= BUF_SIZE + ACK_WINDOW - 2
               PROVE  ParseNack(PushNacks(ack.nacks)) = ack.nacks
    BY DEF DataNacksParse
  <2> USE RingAssumption, AckPktAssumption DEF WIInv, TypeOK, AckLocals
  <2>1. ack.nacks \in SUBSET Nat /\ InReach
    BY DEF AckInv
  <2>2. IsFiniteSet(ack.nacks)
    <3>1. \A s \in ack.nacks : s <= ack.tail + ACK_WINDOW
      BY <2>1 DEF InReach
    <3>2. ack.tail + ACK_WINDOW \in Nat
      OBVIOUS
    <3> QED
      BY <2>1, <3>1, <3>2, BoundedFinite
  <2>3. \A s, t \in ack.nacks : s - t < REL_SIZE
    BY <2>1 DEF InReach
  <2> QED
    BY <2>1, <2>2, <2>3, ParsePushed
<1> QED
  BY WindowInvariant, AckStep, <1>1, <1>2, PTL DEF Spec

-----------------------------------------------------------------------------
(***************************************************************************)
(* What an acknowledgement covers, again for a sender within the ring: the *)
(* packets it does not nack are settled, whatever EnqueuePkt and           *)
(* DequeuePkt did to the slots after they were visited.                    *)
(***************************************************************************)

\* A packet the sender need not send again.
Settled(s) ==
    \/ s <= head
    \/ status[Seq2Ind(s)] = "kOccupiedNew" /\ seqnum[Seq2Ind(s)] = s
    \/ status[Seq2Ind(s)] = "kDrop" /\ s = head + 1

Covered(n) == \A s \in 1 .. n : s \in ack.nacks \/ Settled(s)

\* Only the next packet is ever given up.
DropIsHead == \A i \in Slots : status[i] = "kDrop" => i = head % BUF_SIZE

RingInv == OrderInv /\ NearInv /\ BlockInv /\ ReadInv /\ DropIsHead

\* How far the walk has come: it started at or below head_pt, everything behind it is
\* nacked or settled, and it ends at the copied tail or where the acknowledgement ends.
CoverInv ==
    /\ ack.pc # "giveup"
    /\ ack.pc \in {"info", "batch", "assert", "visit", "drop", "label"} => ack.tail <= tail
    /\ ack.pc \in {"info", "batch", "assert"} => ack.idx <= head
    /\ ack.pc \in {"batch", "assert", "visit", "drop", "label"} =>
          ack.end_pt + 1 >= ack.tail \/ ack.end_pt + 1 >= ack.end_seq
    /\ ack.pc \in {"visit", "drop", "label"} => ack.end_pt < ack.tail /\ Covered(ack.idx)
    /\ ack.pc \in {"drop", "label"} => ack.idx <= ack.end_pt
    /\ ack.pc = "label" => Settled(ack.idx + 1)
    /\ ack.pc = "emit" => Covered(ack.end_seq)

\* A slot that is blocked or given up is the slot of the next packet and of no other
\* one in the window.
LEMMA HeadOnly ==
    ASSUME TypeOK, NEW n \in Nat, head <= n, n < head + BUF_SIZE,
           n % BUF_SIZE = head % BUF_SIZE
    PROVE  n = head
<1> USE RingAssumption DEF TypeOK
<1>1. BUF_SIZE \in Nat \ {0} /\ head \in Int /\ n \in Int
  OBVIOUS
<1>2. ~(head < n)
  BY <1>1, ModDiffer
<1> QED
  BY <1>1, <1>2

\* Without a wrap-around a blocked slot is the head's.
LEMMA BlockedHead ==
    ASSUME NearInv, BlockInv, NEW i \in Slots, status[i] = "kBlock"
    PROVE  i = head % BUF_SIZE
BY DEF NearInv, Near, BlockInv, Unreset

\* Packets of the ring that have the same slot are the same.
LEMMA SameSlot ==
    ASSUME TypeOK, NEW s \in Nat, NEW t \in Nat, Seq2Ind(s) = Seq2Ind(t),
           s > head, t > head, s <= head + BUF_SIZE, t <= head + BUF_SIZE
    PROVE  s = t
<1> USE RingAssumption DEF TypeOK
<1>1. ~(s < t) /\ ~(t < s)
  BY Seq2IndDiffer
<1> QED
  BY <1>1

\* Only the next packet is given up, after every step.
LEMMA DropStep ==
    ASSUME RingInv, MAX_AHEAD <= BUF_SIZE, [Next]_vars, [~AckOverflow]_vars
    PROVE  DropIsHead'
<1> USE RingAssumption DEF RingInv, OrderInv, WIInv, TypeOK
<1>1. ASSUME UNCHANGED head,
             \A i \in Slots : status'[i] = "kDrop" => status[i] = "kDrop" \/ i = head % BUF_SIZE
      PROVE  DropIsHead'
  BY <1>1 DEF DropIsHead
<1>2. CASE Receive \/ SpuriousWakeup \/ UNCHANGED vars
  BY <1>1, <1>2 DEF Receive, NewBatch, PacketOfBatch, BatchDecoded, BatchTimeOut,
     SpuriousWakeup, vars, ringVars
<1>3. ASSUME NEW p \in Producers, Enqueue(p)
      PROVE  DropIsHead'
  <2>1. UNCHANGED head
    <3>1. CASE EnqueueStore(p)
      BY <3>1, StoreNear
    <3> QED
      BY <1>3, <3>1 DEF Enqueue, EnqueueCall, EnqueueLock, EnqueueFull, EnqueueReset,
         EnqueueClear, ringVars
  <2>2. \A i \in Slots : status'[i] = "kDrop" => status[i] = "kDrop" \/ i = head % BUF_SIZE
    BY <1>3 DEF Enqueue, EnqueueCall, EnqueueLock, EnqueueFull, FullDrop, EnqueueStore,
       StoreElement, EnqueueReset, ResetOthers, EnqueueClear, ClearElement,
       ResetElement, ringVars
  <2> QED
    BY <1>1, <2>1, <2>2
<1>4. CASE Dequeue
  <2>1. CASE DequeueDeliver \/ DequeueDrop
    <3>1. /\ DeqAt("switch") /\ status'[deq.idx] # "kDrop"
          /\ \A i \in Slots : i # deq.idx => status'[i] = status[i]
      BY <2>1, HeadPacket DEF DequeueDeliver, DequeueDrop, ResetElement
    <3>2. deq.idx = head % BUF_SIZE
      BY <3>1 DEF DeqAt, HeadSlot
    <3>3. \A i \in Slots : status'[i] # "kDrop"
      BY <3>1, <3>2 DEF DropIsHead
    <3> QED
      BY <3>3 DEF DropIsHead
  <2>2. CASE ~DequeueDeliver /\ ~DequeueDrop
    BY <1>1, <1>4, <2>2 DEF Dequeue, DequeueLock, DequeueElement, DequeueBlock,
       DequeueWait, DequeueAwake, DequeueRelock, ringVars
  <2> QED
    BY <2>1, <2>2
<1>5. CASE FindNack /\ ~AckOverflow
  <2>1. UNCHANGED head
    BY <1>5, FindNackKeeps
  <2>2. \A i \in Slots : status'[i] = "kDrop" => status[i] = "kDrop" \/ i = head % BUF_SIZE
    BY <1>5, FindNackKeeps, BlockedHead
  <2> QED
    BY <1>1, <2>1, <2>2
<1> QED
  BY <1>2, <1>3, <1>4, <1>5 DEF Next, Aborted

\* A settled packet stays settled: it is delivered, dropped, or arrives late.
LEMMA SettledStep ==
    ASSUME RingInv, MAX_AHEAD <= BUF_SIZE, [Next]_vars, [~AckOverflow]_vars,
           NEW s \in Nat \ {0}, Settled(s)
    PROVE  Settled(s)'
<1> USE RingAssumption DEF RingInv, OrderInv, WIInv, TypeOK
<1> DEFINE k == Seq2Ind(s)
<1>0. k \in Slots
  BY Seq2IndSlot
<1>1. ASSUME UNCHANGED head,
             status[k] = "kOccupiedNew" => status'[k] = "kOccupiedNew" /\ seqnum'[k] = seqnum[k],
             status[k] = "kDrop" => status'[k] = "kDrop"
      PROVE  Settled(s)'
  BY <1>1 DEF Settled, Seq2Ind
<1>2. CASE Receive \/ SpuriousWakeup \/ UNCHANGED vars
  BY <1>1, <1>2 DEF Receive, NewBatch, PacketOfBatch, BatchDecoded, BatchTimeOut,
     SpuriousWakeup, vars, ringVars
<1>3. ASSUME NEW p \in Producers, Enqueue(p)
      PROVE  Settled(s)'
  <2>1. CASE EnqueueStore(p)
    <3> DEFINE t == enq[p].seq
    <3>1. /\ t \in head + 1 .. head + BUF_SIZE /\ UNCHANGED head
          /\ status'[Seq2Ind(t)] = "kOccupiedNew" /\ Seq2Ind(t) \in Slots
          /\ \A i \in Slots : i # Seq2Ind(t) => status'[i] = status[i] /\ seqnum'[i] = seqnum[i]
      BY <2>1, StoreNear
    <3>2. /\ status[Seq2Ind(t)] = "kOccupiedNew" => UNCHANGED <<status, seqnum>>
          /\ status[Seq2Ind(t)] # "kOccupiedNew" => seqnum'[Seq2Ind(t)] = t
      BY <2>1, <3>1 DEF EnqueueStore, StoreElement
    <3>3. CASE s <= head
      BY <3>1, <3>3 DEF Settled
    <3>4. CASE status[k] = "kOccupiedNew" /\ seqnum[k] = s
      BY <1>0, <1>1, <3>1, <3>2, <3>4
    <3>5. CASE status[k] = "kDrop" /\ s = head + 1
      <4>1. CASE Seq2Ind(t) = k
        <5>1. t = s
          BY <3>1, <3>5, <4>1, SameSlot
        <5> QED
          BY <3>1, <3>2, <3>5, <4>1, <5>1 DEF Settled, Seq2Ind
      <4>2. CASE Seq2Ind(t) # k
        BY <1>0, <1>1, <3>1, <4>2
      <4> QED
        BY <4>1, <4>2
    <3> QED
      BY <3>3, <3>4, <3>5 DEF Settled
  <2>2. CASE EnqueueReset(p)
    BY <2>2 DEF EnqueueReset, EnqAt, NearInv, Near
  <2>3. CASE EnqueueCall(p) \/ EnqueueLock(p) \/ EnqueueFull(p) \/ EnqueueClear(p)
    BY <1>0, <1>1, <2>3 DEF EnqueueCall, EnqueueLock, EnqueueFull, FullDrop,
       EnqueueClear, ClearElement, ResetElement, ringVars
  <2> QED
    BY <1>3, <2>1, <2>2, <2>3 DEF Enqueue
<1>4. CASE Dequeue
  <2>1. CASE DequeueDeliver \/ DequeueDrop
    <3>1. /\ DeqAt("switch") /\ head' = head + 1
          /\ \A i \in Slots : i # deq.idx => status'[i] = status[i] /\ seqnum'[i] = seqnum[i]
      BY <2>1 DEF DequeueDeliver, DequeueDrop, DequeueReturn, ResetElement
    <3>2. CASE s <= head + 1
      BY <3>1, <3>2 DEF Settled
    <3>3. CASE s > head + 1
      <4>1. status[k] = "kOccupiedNew" /\ seqnum[k] = s
        BY <3>3 DEF Settled
      <4>2. k # deq.idx
        BY <3>1, <3>3, <4>1, HeadPacket
      <4> QED
        BY <1>0, <3>1, <4>1, <4>2 DEF Settled, Seq2Ind
    <3> QED
      BY <3>2, <3>3
  <2>2. CASE ~DequeueDeliver /\ ~DequeueDrop
    BY <1>0, <1>1, <1>4, <2>2 DEF Dequeue, DequeueLock, DequeueElement, DequeueBlock,
       DequeueWait, DequeueAwake, DequeueRelock, ringVars
  <2> QED
    BY <2>1, <2>2
<1>5. CASE FindNack /\ ~AckOverflow
  <2>1. UNCHANGED head /\ (status[k] = "kOccupiedNew" => status'[k] = "kOccupiedNew"
                                                        /\ seqnum'[k] = seqnum[k])
    BY <1>0, <1>5, FindNackKeeps
  <2>2. status[k] = "kDrop" => status'[k] = "kDrop"
    BY <1>0, <1>5 DEF FindNack, AckGetBatchID, AckLock, AckWoken, AckInfo, AckStartBatch,
       AckAssert, AckVisit, AckDrop, AckLabel, Label, AckExtra, AckGiveUp, SendDataAck,
       ringVars
  <2> QED
    BY <1>1, <2>1, <2>2
<1> QED
  BY <1>2, <1>3, <1>4, <1>5 DEF Next, Aborted

\* A slot that the walk passes without a nack belongs to a settled packet.
LEMMA VisitSettled ==
    ASSUME RingInv, NEW n \in Nat, n < tail,
           status[n % BUF_SIZE] \notin {"kEmpty", "kBlock"}
    PROVE  Settled(n + 1)
<1> USE RingAssumption DEF RingInv, OrderInv, WIInv, TypeOK
<1> DEFINE k == n % BUF_SIZE
<1>1. k \in Slots /\ Seq2Ind(n + 1) = k
  BY Seq2IndNext
<1>2. SUFFICES ASSUME n + 1 > head PROVE Settled(n + 1)
  BY DEF Settled
<1>3. n + 1 \in head + 1 .. tail /\ tail <= head + BUF_SIZE
  BY <1>2 DEF WindowPart, WindowInv
<1>4. status[k] \in {"kOccupiedNew", "kDrop"}
  <2>1. status[k] # "kRead"
    BY <1>1, <1>3 DEF ReadInv, NoStaleRead
  <2>2. status[k] \in Status
    BY <1>1
  <2> QED
    BY <2>1, <2>2 DEF Status
<1>5. CASE status[k] = "kOccupiedNew"
  <2>1. /\ seqnum[k] \in Nat /\ seqnum[k] > head /\ seqnum[k] <= head + BUF_SIZE
        /\ Seq2Ind(seqnum[k]) = k
    BY <1>1, <1>5 DEF NearInv, Ahead, OccupiedInv, SeqnumOwn
  <2>2. seqnum[k] = n + 1
    BY <1>1, <1>3, <2>1, SameSlot
  <2> QED
    BY <1>1, <1>5, <2>2 DEF Settled
<1>6. CASE status[k] = "kDrop"
  <2>1. k = head % BUF_SIZE
    BY <1>1, <1>6 DEF DropIsHead
  <2>2. n = head
    BY <1>3, <2>1, HeadOnly
  <2> QED
    BY <1>1, <1>6, <2>2 DEF Settled
<1> QED
  BY <1>4, <1>5, <1>6

\* Without a wrap-around no pointer moves back.
LEMMA Forward ==
    ASSUME OrderInv, NearInv, [Next]_vars
    PROVE  head' >= head /\ tail' >= tail
<1> USE RingAssumption DEF OrderInv, WIInv, TypeOK, EnqLocals
<1>1. ASSUME NEW p \in Producers, Enqueue(p) PROVE head' >= head /\ tail' >= tail
  <2>1. CASE EnqueueStore(p)
    BY <2>1, StoreNear
  <2>2. CASE EnqueueClear(p)
    <3>1. tail <= enq[p].seq
      BY <2>2 DEF EnqueueClear, EnqAt, WindowPart, EnqInv
    <3>2. UNCHANGED head /\ tail' \in {tail, enq[p].seq}
      BY <2>2 DEF EnqueueClear
    <3> QED
      BY <3>1, <3>2
  <2> QED
    BY <1>1, <2>1, <2>2 DEF Enqueue, EnqueueCall, EnqueueLock, EnqueueFull,
       EnqueueReset, ringVars
<1>2. CASE Dequeue
  BY <1>2 DEF Dequeue, DequeueLock, DequeueElement, DequeueBlock, DequeueWait,
     DequeueAwake, DequeueRelock, DequeueDeliver, DequeueDrop, DequeueReturn, ringVars
<1>3. CASE Receive \/ FindNack \/ SpuriousWakeup \/ UNCHANGED vars
  <2>1. UNCHANGED <<head, tail>>
    BY <1>3 DEF Receive, NewBatch, PacketOfBatch, BatchDecoded, BatchTimeOut,
       FindNack, AckGetBatchID, AckLock, AckWoken, AckInfo, AckStartBatch, AckAssert,
       AckVisit, AckDrop, AckLabel, Label, AckExtra, AckOverflow, AckGiveUp, SendDataAck,
       SpuriousWakeup, vars, ringVars
  <2> QED
    BY <2>1
<1> QED
  BY <1>1, <1>2, <1>3 DEF Next, Aborted

\* One step of the walk, or of the calls around it.
LEMMA CoverWalk ==
    ASSUME RingInv, CoverInv, FindNack, ~AckOverflow, UNCHANGED <<head, tail>>,
           \A s \in Nat \ {0} : Settled(s) => Settled(s)'
    PROVE  CoverInv'
<1> USE RingAssumption DEF RingInv, OrderInv, WIInv, TypeOK, BatchTypeOK, AckLocals, AckAt
<1>1. CASE AckGetBatchID
  <2>1. ack'.pc = "lock"
    BY <1>1 DEF AckGetBatchID
  <2> QED
    BY <2>1 DEF CoverInv
<1>2. CASE AckLock \/ AckWoken
  <2>1. ack'.pc = "woken" \/ (ack'.pc = "info" /\ ack'.idx = head /\ ack'.tail = tail)
    BY <1>2 DEF AckLock, AckWoken, AckSnapshot
  <2> QED
    BY <2>1 DEF CoverInv
<1>3. CASE AckInfo
  <2> DEFINE high == highest_decoded_seq
  <2>0. Minus1(ack.tail) \in Nat /\ Minus1(ack.tail) + 1 >= ack.tail
    BY DEF Minus1
  <2>1. /\ ack.pc = "info" /\ ack.idx <= head /\ ack.tail <= tail
        /\ ack'.idx = ack.idx /\ ack'.tail = ack.tail
    BY <1>3 DEF AckInfo, CoverInv
  <2>2. \/ ack'.pc \in {"batch", "assert"} /\ ack'.end_pt = Minus1(ack.tail)
        \/ ack'.pc = "emit" /\ ack'.end_seq = 0
        \/ ack'.pc = "emit" /\ ack'.end_seq = high /\ ack.idx > high - 1
        \/ ack'.pc = "assert" /\ ack'.end_seq = high /\ ack'.end_pt = high - 1
    BY <1>3 DEF AckInfo
  <2>3. CASE ack'.pc = "emit"
    <3>1. ack'.end_seq \in Nat /\ ack'.end_seq <= head'
      BY <2>1, <2>2, <2>3
    <3> QED
      BY <2>3, <3>1 DEF CoverInv, Covered, Settled
  <2>4. CASE ack'.pc # "emit"
    <3>1. /\ ack'.pc \in {"batch", "assert"}
          /\ ack'.end_pt + 1 >= ack'.tail \/ ack'.end_pt + 1 >= ack'.end_seq
      BY <2>0, <2>1, <2>2, <2>4
    <3> QED
      BY <2>1, <3>1 DEF CoverInv
  <2> QED
    BY <2>3, <2>4
<1>4. CASE AckStartBatch
  <2>1. /\ ack.pc = "batch" /\ ack'.pc = "assert" /\ ack'.tail = ack.tail
        /\ ack'.idx = ack.idx /\ ack'.end_pt = ack.end_pt /\ ack'.end_seq = ack.end_seq
    BY <1>4 DEF AckStartBatch
  <2> QED
    BY <2>1 DEF CoverInv
<1>5. CASE AckAssert
  <2>1. /\ ack.pc = "assert" /\ ack.idx <= head /\ ack.tail <= tail
        /\ ack.end_pt + 1 >= ack.tail \/ ack.end_pt + 1 >= ack.end_seq
    BY <1>5 DEF AckAssert, CoverInv
  <2>2. CASE UNCHANGED ack
    BY <2>1, <2>2 DEF CoverInv
  <2>3. CASE ack.end_pt < ack.tail /\ ack' = [ack EXCEPT !.pc = "visit"]
    <3>1. /\ ack'.pc = "visit" /\ ack'.tail = ack.tail /\ ack'.idx = ack.idx
          /\ ack'.end_pt = ack.end_pt /\ ack'.end_seq = ack.end_seq
      BY <2>3
    <3>2. Covered(ack.idx)'
      BY <2>1, <3>1 DEF Covered, Settled
    <3> QED
      BY <2>1, <2>3, <3>1, <3>2 DEF CoverInv
  <2> QED
    BY <1>5, <2>2, <2>3 DEF AckAssert
<1>6. CASE AckVisit
  <2>1. /\ ack.pc = "visit" /\ ack.idx <= ack.end_pt /\ ack.end_pt < ack.tail
        /\ ack.tail <= tail /\ Covered(ack.idx)
        /\ ack.end_pt + 1 >= ack.tail \/ ack.end_pt + 1 >= ack.end_seq
    BY <1>6 DEF AckVisit, CoverInv
  <2>2. /\ ack'.tail = ack.tail /\ ack'.end_pt = ack.end_pt /\ ack'.end_seq = ack.end_seq
        /\ \/ ack'.pc = "drop" /\ ack'.idx = ack.idx /\ ack'.nacks = ack.nacks
           \/ /\ ack'.pc = "visit" /\ ack'.idx = ack.idx + 1
              /\ ack'.nacks = IF status[ack.idx % BUF_SIZE] \in {"kEmpty", "kBlock"}
                                THEN ack.nacks \cup {ack.idx + 1} ELSE ack.nacks
    BY <1>6 DEF AckVisit
  <2>3. ack.idx + 1 \in ack'.nacks \/ Settled(ack.idx + 1) \/ ack'.pc = "drop"
    <3>1. ack.idx \in Nat /\ ack.idx < tail
      BY <2>1
    <3> QED
      BY <2>2, <3>1, VisitSettled
  <2>4. \A s \in 1 .. ack.idx : s \in ack'.nacks \/ Settled(s)'
    BY <2>1, <2>2 DEF Covered
  <2>5. Covered(ack.idx)'
    <3>1. CASE ack'.pc = "drop"
      BY <2>2, <2>4, <3>1 DEF Covered
    <3>2. CASE ack'.pc # "drop"
      <4>1. PICK n \in Nat \ {0} : n = ack.idx + 1
        OBVIOUS
      <4>2. n \in ack'.nacks \/ Settled(n)'
        BY <2>3, <3>2, <4>1
      <4>3. ack'.idx = n /\ \A s \in 1 .. n : s \in 1 .. ack.idx \/ s = n
        BY <2>2, <3>2, <4>1
      <4> QED
        BY <2>4, <4>2, <4>3 DEF Covered
    <3> QED
      BY <3>1, <3>2
  <2> QED
    BY <2>1, <2>2, <2>5 DEF CoverInv
<1>7. CASE AckDrop
  <2> DEFINE k == ack.idx % BUF_SIZE
  <2>1. /\ ack.pc = "drop" /\ ack.idx <= ack.end_pt /\ ack.end_pt < ack.tail
        /\ ack.tail <= tail /\ Covered(ack.idx)
        /\ ack.end_pt + 1 >= ack.tail \/ ack.end_pt + 1 >= ack.end_seq
    BY <1>7 DEF AckDrop, CoverInv
  <2>2. /\ ack'.pc = "label" /\ ack'.tail = ack.tail /\ ack'.end_pt = ack.end_pt
        /\ ack'.end_seq = ack.end_seq /\ ack'.idx = ack.idx /\ ack'.nacks = ack.nacks
    BY <1>7 DEF AckDrop
  <2>3. k \in Slots /\ Seq2Ind(ack.idx + 1) = k /\ status'[k] = "kDrop"
    BY <1>7, Seq2IndNext DEF AckDrop
  <2>4. ack.idx + 1 <= head \/ ack.idx = head
    <3>1. SUFFICES ASSUME ack.idx + 1 > head PROVE ack.idx = head
      OBVIOUS
    <3>2. status[k] = "kBlock"
      BY <2>1 DEF NearInv, DropBlocked
    <3>3. k = head % BUF_SIZE
      BY <2>3, <3>2, BlockedHead
    <3>4. ack.idx \in Nat /\ head <= ack.idx /\ ack.idx < head + BUF_SIZE
      BY <2>1, <3>1 DEF WindowPart, WindowInv
    <3> QED
      BY <3>3, <3>4, HeadOnly
  <2>5. Settled(ack.idx + 1)'
    BY <2>2, <2>3, <2>4 DEF Settled, Seq2Ind
  <2>6. Covered(ack.idx)'
    BY <2>1, <2>2 DEF Covered
  <2> QED
    BY <2>1, <2>2, <2>5, <2>6 DEF CoverInv
<1>8. CASE AckLabel
  <2>1. /\ ack.pc = "label" /\ ack.idx <= ack.end_pt /\ ack.end_pt < ack.tail
        /\ ack.tail <= tail /\ Covered(ack.idx) /\ Settled(ack.idx + 1)
        /\ ack.end_pt + 1 >= ack.tail \/ ack.end_pt + 1 >= ack.end_seq
    BY <1>8 DEF AckLabel, CoverInv
  <2>2. /\ ack'.pc = "visit" /\ ack'.tail = ack.tail /\ ack'.end_pt = ack.end_pt
        /\ ack'.end_seq = ack.end_seq /\ ack'.idx = ack.idx + 1 /\ ack'.nacks = ack.nacks
    BY <1>8 DEF AckLabel
  <2>3. PICK n \in Nat \ {0} : n = ack.idx + 1
    OBVIOUS
  <2>4. Settled(n)' /\ ack'.idx = n /\ \A s \in 1 .. n : s \in 1 .. ack.idx \/ s = n
    BY <2>1, <2>2, <2>3
  <2>5. Covered(ack.idx)'
    BY <2>1, <2>2, <2>4 DEF Covered
  <2> QED
    BY <2>1, <2>2, <2>5 DEF CoverInv
<1>9. CASE AckExtra
  <2>1. /\ ack.pc = "visit" /\ ack.idx > ack.end_pt /\ Covered(ack.idx)
        /\ ack.end_pt + 1 >= ack.tail \/ ack.end_pt + 1 >= ack.end_seq
    BY <1>9 DEF AckExtra, CoverInv
  <2>2. /\ ack'.pc \in {"emit", "overflow"} /\ ack'.end_seq = ack.end_seq
        /\ ack'.nacks = ack.nacks \cup Extras
    BY <1>9 DEF AckExtra
  <2>3. ASSUME NEW s \in 1 .. ack.end_seq PROVE s \in ack'.nacks \/ Settled(s)'
    <3>1. CASE s <= ack.idx
      <4>1. s \in ack.nacks \/ Settled(s)
        BY <2>1, <3>1 DEF Covered
      <4> QED
        BY <2>2, <4>1
    <3>2. CASE s > ack.idx
      <4>1. s \in Extras
        BY <2>1, <3>2 DEF Extras
      <4> QED
        BY <2>2, <4>1
    <3> QED
      BY <3>1, <3>2
  <2> QED
    BY <2>2, <2>3 DEF CoverInv, Covered
<1>10. CASE AckGiveUp
  BY <1>10 DEF AckGiveUp, CoverInv
<1>11. CASE SendDataAck
  BY <1>11 DEF SendDataAck, IdleAck, CoverInv
<1> QED
  BY <1>1, <1>2, <1>3, <1>4, <1>5, <1>6, <1>7, <1>8, <1>9, <1>10, <1>11 DEF FindNack

\* Every step keeps what the walk has covered.
LEMMA CoverStep ==
    ASSUME RingInv, CoverInv, MAX_AHEAD <= BUF_SIZE, [Next]_vars, [~AckOverflow]_vars
    PROVE  CoverInv'
<1>1. \A s \in Nat \ {0} : Settled(s) => Settled(s)'
  BY SettledStep
<1>2. CASE UNCHANGED ack
  <2>1. head' >= head /\ tail' >= tail
    BY Forward DEF RingInv
  <2>2. \A n \in Nat : Covered(n) => (\A s \in 1 .. n : s \in ack'.nacks \/ Settled(s)')
    BY <1>1, <1>2 DEF Covered
  <2>3. TypeOK /\ TypeOK'
    BY TypeStep DEF RingInv, OrderInv, WIInv
  <2> QED
    BY <1>1, <1>2, <2>1, <2>2, <2>3 DEF CoverInv, Covered, TypeOK, AckLocals
<1>3. CASE FindNack /\ ~AckOverflow
  BY <1>1, <1>3, FindNackKeeps, CoverWalk DEF RingInv
<1>4. CASE AckOverflow
  <2>1. UNCHANGED vars
    BY <1>4
  <2> QED
    BY <1>2, <2>1 DEF vars, ackVars
<1> QED
  BY <1>2, <1>3, <1>4, OthersKeepAck

\* An acknowledgement covers a packet without a nack only if the packet was delivered,
\* is in the ring, or was given up as the next one: head_pt and tail_pt were copied,
\* and the slots looked at, while EnqueuePkt and DequeuePkt were changing them.
THEOREM AckIsSound ==
    ASSUME MAX_AHEAD <= BUF_SIZE
    PROVE  Spec /\ [][~AckOverflow]_vars => []AckSound
<1>1. Init => ReadInv /\ DropIsHead /\ CoverInv
  BY RingAssumption DEF Init, ReadInv, NoStaleRead, IdleEnq, DropIsHead, CoverInv, IdleAck
<1>2. RingInv /\ [Next]_vars /\ [~AckOverflow]_vars => RingInv'
  BY OrderStep, NearStep, BlockStep, ReadStep, DropStep DEF RingInv
<1>3. RingInv /\ CoverInv /\ [Next]_vars /\ [~AckOverflow]_vars => CoverInv'
  BY CoverStep
<1>4. RingInv /\ CoverInv => AckSound
  BY DEF CoverInv, Covered, Settled, AckSound
<1>5. Init => RingInv
  BY OrderInit, NearInit, BlockInit, <1>1 DEF RingInv
<1> QED
  BY <1>1, <1>2, <1>3, <1>4, <1>5, PTL DEF Spec
=============================================================================
