------------------------------ MODULE RxDataBuf ------------------------------
(***************************************************************************)
(* RxDataBuf, the reordering buffer of one radio, with the threads that    *)
(* share it.  RxRcvAth and RxRcvCell call EnqueuePkt, RxWriteTun calls     *)
(* DequeuePkt, RxCreateDataAck calls FindNackSeqNum.                       *)
(*                                                                         *)
(* A step is what a thread does between two points where another thread    *)
(* can see the difference: taking the queue lock, taking a slot's lock,    *)
(* and each write that is made outside the lock that guards the slot.      *)
(* The packet is represented by its sequence number.                       *)
(*                                                                         *)
(* A definition named Bug_... is a seeded fault: it stands before the      *)
(* definition it would replace, and no property survives all of them.      *)
(***************************************************************************)
EXTENDS BatchInfo, AckPkt

CONSTANTS
    BUF_SIZE,        \* slots of the ring
    MAX_BATCH_SIZE,  \* packets of a batch at most
    UINT_MAX,        \* the largest uint32: what 0 - 1 evaluates to
    Producers,       \* which of "RcvAth" and "RcvCell" run
    SPURIOUS,        \* may pthread_cond_wait return without a signal?
    MAX_AHEAD,       \* how far past head_pt the sender's packets may be
    MaxSeq,          \* bound: largest sequence number sent
    MaxBatch         \* bound: number of batches sent

WriteTun  == "WriteTun"
CreateAck == "CreateAck"
Threads   == Producers \cup {WriteTun, CreateAck}
Free      == "free"

ASSUME RingAssumption ==
    /\ BUF_SIZE \in Nat \ {0}
    /\ MAX_BATCH_SIZE \in Nat \ {0}
    /\ MAX_AHEAD \in Nat \ {0}
    /\ MaxSeq \in Nat
    /\ MaxBatch \in Nat
    /\ UINT_MAX \in Nat
    /\ MaxSeq + BUF_SIZE <= UINT_MAX

ASSUME ThreadAssumption ==
    /\ Producers \subseteq {"RcvAth", "RcvCell"}
    /\ SPURIOUS \in BOOLEAN

Slots == 0 .. BUF_SIZE - 1
Status == {"kEmpty", "kOccupiedNew", "kBlock", "kDrop", "kRead"}

VARIABLES
    head, tail,      \* head_pt_ and tail_pt_
    status, seqnum,  \* book_keep_arr_[i].status and .seq_num
    qlock, elock,    \* owners of qlock_ and of lock_arr_[i]
    fillWait,        \* threads asleep on fill_cond_
    emptyWait,       \* threads asleep on empty_cond_
    availWait,       \* threads asleep on element_avail_cond_
    enq,             \* locals of EnqueuePkt, per producer
    deq,             \* locals of DequeuePkt
    ack,             \* locals of FindNackSeqNum
    batch_id_prev,   \* its static variable
    due,             \* when it read the clock, had the kBlock slot waited block_time?
    aborted,         \* an assert() of the program failed
    last_out         \* history: sequence number of the last packet delivered

ringVars == <<head, tail, status, seqnum>>
condVars == <<fillWait, emptyWait, availWait>>
ackVars  == <<ack, batch_id_prev>>
vars     == <<batchVars, ringVars, qlock, elock, condVars, enq, deq, ackVars,
              due, aborted, last_out>>

Bug_Seq2Ind(s) == s % BUF_SIZE
Seq2Ind(s) == (s - 1) % BUF_SIZE
IsFull  == head + BUF_SIZE = tail
IsEmpty == tail = head
Bug_Minus1(x) == x - 1
Minus1(x) == IF x = 0 THEN UINT_MAX ELSE x - 1
Smaller(x, y) == IF x < y THEN x ELSE y
Larger(x, y) == IF x > y THEN x ELSE y

\* pthread_cond_signal: some sleeping thread, if there is one, stops sleeping.
Woken(W) == IF W = {} THEN {{}} ELSE {W \ {t} : t \in W}

Bug_SignalFill == UNCHANGED fillWait
SignalFill  == fillWait' \in Woken(fillWait)
SignalEmpty == emptyWait' \in Woken(emptyWait)
Bug_SignalElementAvail == UNCHANGED availWait
SignalElementAvail == availWait' \in Woken(availWait)

EnqLocals == [pc : {"idle", "lock", "full", "store", "reset", "clear"},
              seq : Nat, idx : Nat]
DeqLocals == [pc : {"start", "element", "switch", "gap", "wait", "relock"},
              idx : Slots]
AckLocals == [pc : {"start", "lock", "woken", "info", "batch", "assert", "visit",
                    "drop", "label", "overflow", "giveup", "emit"},
              batch : Nat, tail : Nat, idx : Nat, end_pt : Nat, end_seq : Nat,
              nacks : SUBSET Nat]

IdleEnq == [pc |-> "idle", seq |-> 0, idx |-> 0]
IdleAck == [pc |-> "start", batch |-> 0, tail |-> 0, idx |-> 0, end_pt |-> 0,
            end_seq |-> 0, nacks |-> {}]

Init ==
    /\ BatchInit
    /\ head = 0 /\ tail = 0
    /\ status = [i \in Slots |-> "kEmpty"]
    /\ seqnum = [i \in Slots |-> 0]
    /\ qlock = Free
    /\ elock = [i \in Slots |-> Free]
    /\ fillWait = {} /\ emptyWait = {} /\ availWait = {}
    /\ enq = [p \in Producers |-> IdleEnq]
    /\ deq = [pc |-> "start", idx |-> 0]
    /\ ack = IdleAck
    /\ batch_id_prev = 0
    /\ due = FALSE
    /\ aborted = FALSE
    /\ last_out = 0

\* Where a thread is, while the process runs.
EnqAt(p, label) == ~aborted /\ enq[p].pc = label
DeqAt(label) == ~aborted /\ deq.pc = label
AckAt(label) == ~aborted /\ ack.pc = label

-----------------------------------------------------------------------------
(***************************************************************************)
(* What RxRcvAth does between two calls of EnqueuePkt: it announces a new  *)
(* batch, restarts the clock at a packet of the current one, or reports    *)
(* that the batch is decoded.                                              *)
(***************************************************************************)
AthIdle == "RcvAth" \in Producers /\ EnqAt("RcvAth", "idle")

NewBatch ==
    /\ AthIdle
    /\ batch_id < MaxBatch
    /\ \E seq \in highest_decoded_seq .. Smaller(MaxSeq, head + MAX_AHEAD) :
          SetBatchInfo(batch_id + 1, seq)
    /\ UNCHANGED <<ringVars, qlock, elock, condVars, enq, deq, ackVars, due,
                   aborted, last_out>>

\* RxRcvAth stops doing so once it has decoded the batch itself; from then on
\* decoding_done() no longer depends on the clock, so the guard is left out.
PacketOfBatch ==
    /\ AthIdle
    /\ batch_id > 0
    /\ UpdateTimeLeft
    /\ UNCHANGED <<ringVars, qlock, elock, condVars, enq, deq, ackVars, due,
                   aborted, last_out>>

BatchDecoded ==
    /\ AthIdle
    /\ batch_id > 0
    /\ SetDecodingDone
    /\ UNCHANGED <<ringVars, qlock, elock, condVars, enq, deq, ackVars, due,
                   aborted, last_out>>

BatchTimeOut ==
    /\ ~aborted
    /\ TimeOut
    /\ UNCHANGED <<ringVars, qlock, elock, condVars, enq, deq, ackVars, due,
                   aborted, last_out>>

\* The packets the threads hand over.  RxRcvAth's belong to a batch already
\* announced, or are retransmissions; the cellular copies may be of any packet.
Sent(p) ==
    {s \in 1 .. MaxSeq :
        /\ s <= head + MAX_AHEAD
        /\ p = "RcvAth" => batch_id > 0 /\ s <= highest_decoded_seq + MAX_BATCH_SIZE}

EnqueueCall(p) ==
    /\ EnqAt(p, "idle")
    /\ \E s \in Sent(p) : enq' = [enq EXCEPT ![p] = [pc |-> "lock", seq |-> s, idx |-> 0]]
    /\ UNCHANGED <<batchVars, ringVars, qlock, elock, condVars, deq, ackVars, due,
                   aborted, last_out>>

-----------------------------------------------------------------------------
(* EnqueuePkt *)

EnqueueReturn(p) ==
    /\ enq' = [enq EXCEPT ![p] = IdleEnq]
    /\ qlock' = Free

\* Was the packet delivered or given up already?
Bug_IsStale(seq) == seq < head
IsStale(seq) == seq <= head

\* LockQueue, or the return from WaitEmpty.  A packet at or below head_pt was
\* delivered or given up already and is ignored.
EnqueueLock(p) ==
    /\ EnqAt(p, "lock")
    /\ p \notin emptyWait
    /\ qlock = Free
    /\ \/ /\ IsFull
          /\ qlock' = p
          /\ enq' = [enq EXCEPT ![p].pc = "full"]
       \/ /\ ~IsFull
          /\ ~IsStale(enq[p].seq)
          /\ qlock' = p
          /\ enq' = [enq EXCEPT ![p].pc = "store"]
       \/ /\ ~IsFull
          /\ IsStale(enq[p].seq)
          /\ EnqueueReturn(p)
    /\ UNCHANGED <<batchVars, ringVars, elock, condVars, deq, ackVars, due, aborted,
                   last_out>>

Bug_FullDrop(i) == status' = [status EXCEPT ![i] = "kDrop"]
FullDrop(i) ==
    status' = IF status[i] = "kBlock" THEN [status EXCEPT ![i] = "kDrop"] ELSE status

\* The buffer is full: give up the packet RxWriteTun waits for, if it waits,
\* and sleep until it has moved on.
EnqueueFull(p) ==
    LET i == head % BUF_SIZE IN
    /\ EnqAt(p, "full")
    /\ elock[i] = Free
    /\ FullDrop(i)
    /\ SignalElementAvail
    /\ emptyWait' = emptyWait \cup {p}
    /\ qlock' = Free
    /\ enq' = [enq EXCEPT ![p].pc = "lock"]
    /\ UNCHANGED <<batchVars, head, tail, seqnum, elock, fillWait, deq, ackVars, due,
                   aborted, last_out>>

\* The packet is more than a lap ahead of head_pt.
Bug_IsWrap(p) == enq[p].seq > head + BUF_SIZE + 1
IsWrap(p) == enq[p].seq > head + BUF_SIZE

Bug_WakesWriteTun(old) == old = "kDrop"
WakesWriteTun(old) == old \in {"kBlock", "kDrop"}

\* The slot's critical section: store the packet unless an undelivered one is
\* there, and wake RxWriteTun if it was waiting for this slot.
StoreElement(p) ==
    LET i == Seq2Ind(enq[p].seq) IN
    /\ elock[i] = Free
    /\ IF status[i] = "kOccupiedNew"
         THEN UNCHANGED <<status, seqnum>>
         ELSE /\ status' = [status EXCEPT ![i] = "kOccupiedNew"]
              /\ seqnum' = [seqnum EXCEPT ![i] = enq[p].seq]
    /\ IF WakesWriteTun(status[i]) /\ ~IsWrap(p)
         THEN SignalElementAvail
         ELSE UNCHANGED availWait

\* A wrap-around makes the packet the only one in the window.
Bug_WrapPointers(seq) == head' = seq /\ tail' = seq
WrapPointers(seq) == head' = seq - 1 /\ tail' = seq

\* Storing, and what the rest of the call will be.
EnqueueStore(p) ==
    /\ EnqAt(p, "store")
    /\ StoreElement(p)
    /\ \/ /\ IsWrap(p)
          /\ WrapPointers(enq[p].seq)
          /\ enq' = [enq EXCEPT ![p].pc = "reset", ![p].idx = 0]
          /\ UNCHANGED qlock
       \/ /\ ~IsWrap(p)
          /\ enq[p].seq > tail
          /\ enq' = [enq EXCEPT ![p].pc = "clear", ![p].idx = tail]
          /\ UNCHANGED <<head, tail, qlock>>
       \/ /\ ~IsWrap(p)
          /\ enq[p].seq <= tail
          /\ EnqueueReturn(p)
          /\ UNCHANGED <<head, tail>>
    /\ UNCHANGED <<batchVars, elock, fillWait, emptyWait, deq, ackVars, due, aborted,
                   last_out>>

\* UpdateBookKeeping(i, 0, kEmpty, ...)
ResetElement(i) ==
    /\ status' = [status EXCEPT ![i] = "kEmpty"]
    /\ seqnum' = [seqnum EXCEPT ![i] = 0]

Bug_ResetOthers(p, i) ==
    IF status[i] # "kRead" THEN UNCHANGED <<status, seqnum>> ELSE ResetElement(i)
ResetOthers(p, i) ==
    IF i = Seq2Ind(enq[p].seq) THEN UNCHANGED <<status, seqnum>> ELSE ResetElement(i)

\* Wrap-around: every other slot is reset, without taking its lock; after the
\* last one every waiting party is signalled.
EnqueueReset(p) ==
    LET i == enq[p].idx IN
    /\ EnqAt(p, "reset")
    /\ ResetOthers(p, i)
    /\ IF i < BUF_SIZE - 1
         THEN /\ enq' = [enq EXCEPT ![p].idx = i + 1]
              /\ UNCHANGED <<qlock, condVars>>
         ELSE /\ EnqueueReturn(p)
              /\ SignalElementAvail
              /\ SignalFill
              /\ SignalEmpty
    /\ UNCHANGED <<batchVars, head, tail, elock, deq, ackVars, due, aborted, last_out>>

Bug_ClearElement(i) == UNCHANGED <<status, seqnum>>
ClearElement(i) ==
    IF status[i] = "kRead" THEN ResetElement(i) ELSE UNCHANGED <<status, seqnum>>

\* The tail advances: slots between the old and the new tail that still hold a
\* packet delivered one lap ago are cleared, each under its lock.
EnqueueClear(p) ==
    LET i == enq[p].idx % BUF_SIZE IN
    /\ EnqAt(p, "clear")
    /\ elock[i] = Free
    /\ ClearElement(i)
    /\ IF enq[p].idx < enq[p].seq - 1
         THEN /\ enq' = [enq EXCEPT ![p].idx = @ + 1]
              /\ UNCHANGED <<tail, qlock, fillWait>>
         ELSE /\ EnqueueReturn(p)
              /\ tail' = enq[p].seq
              /\ SignalFill
    /\ UNCHANGED <<batchVars, head, elock, emptyWait, availWait, deq, ackVars, due,
                   aborted, last_out>>

Enqueue(p) ==
    \/ EnqueueCall(p) \/ EnqueueLock(p) \/ EnqueueFull(p)
    \/ EnqueueStore(p) \/ EnqueueReset(p) \/ EnqueueClear(p)

-----------------------------------------------------------------------------
(* DequeuePkt *)

\* LockQueue, or the return from WaitFill.
DequeueLock ==
    /\ DeqAt("start")
    /\ WriteTun \notin fillWait
    /\ qlock = Free
    /\ \/ /\ IsEmpty
          /\ fillWait' = fillWait \cup {WriteTun}
          /\ UNCHANGED <<qlock, deq>>
       \/ /\ ~IsEmpty
          /\ SignalFill
          /\ qlock' = WriteTun
          /\ deq' = [pc |-> "element", idx |-> head % BUF_SIZE]
    /\ UNCHANGED <<batchVars, ringVars, elock, emptyWait, availWait, enq, ackVars, due,
                   aborted, last_out>>

DequeueElement ==
    /\ DeqAt("element")
    /\ elock[deq.idx] = Free
    /\ elock' = [elock EXCEPT ![deq.idx] = WriteTun]
    /\ deq' = [deq EXCEPT !.pc = "switch"]
    /\ UNCHANGED <<batchVars, ringVars, qlock, condVars, enq, ackVars, due, aborted,
                   last_out>>

\* The next packet has not arrived: mark its slot and let go of the queue, but
\* not yet of the slot.
DequeueBlock ==
    /\ DeqAt("switch")
    /\ status[deq.idx] \in {"kEmpty", "kBlock"}
    /\ status' = [status EXCEPT ![deq.idx] = "kBlock"]
    /\ due' = (due /\ status[deq.idx] = "kBlock")
    /\ qlock' = Free
    /\ deq' = [deq EXCEPT !.pc = "gap"]
    /\ UNCHANGED <<batchVars, head, tail, seqnum, elock, condVars, enq, ackVars,
                   aborted, last_out>>

\* WaitElementAvail: sleeping releases the slot.
DequeueWait ==
    /\ DeqAt("gap")
    /\ availWait' = availWait \cup {WriteTun}
    /\ elock' = [elock EXCEPT ![deq.idx] = Free]
    /\ deq' = [deq EXCEPT !.pc = "wait"]
    /\ UNCHANGED <<batchVars, ringVars, qlock, fillWait, emptyWait, enq, ackVars, due,
                   aborted, last_out>>

\* Waking up takes the slot's lock again, only to release it.
DequeueAwake ==
    /\ DeqAt("wait")
    /\ WriteTun \notin availWait
    /\ elock[deq.idx] = Free
    /\ deq' = [deq EXCEPT !.pc = "relock"]
    /\ UNCHANGED <<batchVars, ringVars, qlock, elock, condVars, enq, ackVars, due,
                   aborted, last_out>>

\* The queue may have moved while it slept: look at the head again.
DequeueRelock ==
    /\ DeqAt("relock")
    /\ qlock = Free
    /\ qlock' = WriteTun
    /\ deq' = [pc |-> "element",
               idx |-> IF seqnum[deq.idx] # head + 1 THEN head % BUF_SIZE ELSE deq.idx]
    /\ UNCHANGED <<batchVars, ringVars, elock, condVars, enq, ackVars, due, aborted,
                   last_out>>

DequeueReturn ==
    /\ elock' = [elock EXCEPT ![deq.idx] = Free]
    /\ head' = head + 1
    /\ SignalEmpty
    /\ qlock' = Free
    /\ deq' = [pc |-> "start", idx |-> 0]
    /\ UNCHANGED <<batchVars, tail, fillWait, availWait, enq, ackVars, due, aborted>>

DequeueDeliver ==
    /\ DeqAt("switch")
    /\ status[deq.idx] = "kOccupiedNew"
    /\ status' = [status EXCEPT ![deq.idx] = "kRead"]
    /\ last_out' = seqnum[deq.idx]
    /\ DequeueReturn
    /\ UNCHANGED seqnum

DequeueDrop ==
    /\ DeqAt("switch")
    /\ status[deq.idx] \in {"kRead", "kDrop"}
    /\ ResetElement(deq.idx)
    /\ DequeueReturn
    /\ UNCHANGED last_out

Dequeue ==
    \/ DequeueLock \/ DequeueElement \/ DequeueBlock \/ DequeueWait
    \/ DequeueAwake \/ DequeueRelock \/ DequeueDeliver \/ DequeueDrop

-----------------------------------------------------------------------------
(* FindNackSeqNum, and the acknowledgement RxCreateDataAck sends after it *)

AckGetBatchID ==
    /\ AckAt("start")
    /\ ack' = [ack EXCEPT !.pc = "lock", !.batch = batch_id]
    /\ UNCHANGED <<batchVars, ringVars, qlock, elock, condVars, enq, deq, batch_id_prev,
                   due, aborted, last_out>>

\* head_pt and tail_pt are copied under the queue lock and used after it.
AckSnapshot ==
    ack' = [ack EXCEPT !.pc = "info", !.batch = 0, !.idx = head, !.tail = tail]

\* Without a new batch and without packets, sleep until something is filled.
AckLock ==
    /\ AckAt("lock")
    /\ qlock = Free
    /\ IF ack.batch <= batch_id_prev /\ IsEmpty
         THEN /\ fillWait' = fillWait \cup {CreateAck}
              /\ ack' = [ack EXCEPT !.pc = "woken"]
         ELSE /\ AckSnapshot
              /\ UNCHANGED fillWait
    /\ UNCHANGED <<batchVars, ringVars, qlock, elock, emptyWait, availWait, enq, deq,
                   batch_id_prev, due, aborted, last_out>>

Bug_PassOnFill == UNCHANGED fillWait
PassOnFill == SignalFill

\* Awake: pass the signal on, for it may have been RxWriteTun's.
AckWoken ==
    /\ AckAt("woken")
    /\ CreateAck \notin fillWait
    /\ qlock = Free
    /\ PassOnFill
    /\ AckSnapshot
    /\ UNCHANGED <<batchVars, ringVars, qlock, elock, emptyWait, availWait, enq, deq,
                   batch_id_prev, due, aborted, last_out>>

\* How far this acknowledgement reaches.  While the batch is being received
\* only the batches before it are acknowledged; once it is decoded, all.
AckInfo ==
    LET high == highest_decoded_seq
        upTo(pc, end_seq, end_pt) ==
            ack' = [ack EXCEPT !.pc = pc, !.end_seq = end_seq, !.end_pt = end_pt]
    IN
    /\ AckAt("info")
    /\ GetBatchInfo
    /\ \/ DecodingDone /\ upTo("batch", Larger(high, ack.tail), Minus1(ack.tail))
       \/ ~DecodingDone /\ high = 0 /\ upTo("emit", 0, 0)
       \/ /\ ~DecodingDone /\ high > 0
          /\ \/ high >= ack.tail /\ upTo("assert", high, Minus1(ack.tail))
             \/ high < ack.tail /\ ack.idx > high - 1 /\ upTo("emit", high, 0)
             \/ high < ack.tail /\ ack.idx <= high - 1 /\ upTo("assert", high, high - 1)
    /\ UNCHANGED <<ringVars, qlock, elock, condVars, enq, deq, batch_id_prev, due,
                   aborted, last_out>>

\* The batch id is read a second time: the batch may have changed since.
AckStartBatch ==
    /\ AckAt("batch")
    /\ batch_id_prev' = Larger(batch_id, batch_id_prev)
    /\ ack' = [ack EXCEPT !.pc = "assert"]
    /\ UNCHANGED <<batchVars, ringVars, qlock, elock, condVars, enq, deq, due, aborted,
                   last_out>>

\* assert(end_pt < tail_pt), and the one reading of the clock.
AckAssert ==
    /\ AckAt("assert")
    /\ IF ack.end_pt < ack.tail
         THEN /\ due' \in {FALSE, \E i \in Slots : status[i] = "kBlock"}
              /\ ack' = [ack EXCEPT !.pc = "visit"]
              /\ UNCHANGED aborted
         ELSE /\ aborted' = TRUE
              /\ UNCHANGED <<ack, due>>
    /\ UNCHANGED <<batchVars, ringVars, qlock, elock, condVars, enq, deq, batch_id_prev,
                   last_out>>

\* Has RxWriteTun waited for this slot for more than block_time?
GivesUp(st) == st = "kBlock" /\ due

\* One slot of the window, under its lock: a hole is nacked, unless it is the
\* one RxWriteTun has waited for long enough.
AckVisit ==
    LET i == ack.idx % BUF_SIZE IN
    /\ AckAt("visit")
    /\ ack.idx <= ack.end_pt
    /\ elock[i] = Free
    /\ IF GivesUp(status[i])
         THEN /\ elock' = [elock EXCEPT ![i] = CreateAck]
              /\ ack' = [ack EXCEPT !.pc = "drop"]
         ELSE /\ ack' = [ack EXCEPT !.idx = @ + 1,
                             !.nacks = IF status[i] \in {"kEmpty", "kBlock"}
                                         THEN @ \cup {ack.idx + 1} ELSE @]
              /\ UNCHANGED elock
    /\ UNCHANGED <<batchVars, ringVars, qlock, condVars, enq, deq, batch_id_prev, due,
                   aborted, last_out>>

\* Giving up that packet is two writes, under the slot's lock only.
AckDrop ==
    /\ AckAt("drop")
    /\ status' = [status EXCEPT ![ack.idx % BUF_SIZE] = "kDrop"]
    /\ ack' = [ack EXCEPT !.pc = "label"]
    /\ UNCHANGED <<batchVars, head, tail, seqnum, qlock, elock, condVars, enq, deq,
                   batch_id_prev, due, aborted, last_out>>

\* The second write, the signal and the unlock.
Label(seq, i) ==
    /\ seqnum' = [seqnum EXCEPT ![i] = seq]
    /\ SignalElementAvail
    /\ elock' = [elock EXCEPT ![i] = Free]
    /\ UNCHANGED <<batchVars, head, tail, status, qlock, fillWait, emptyWait, enq, deq,
                   batch_id_prev, due, aborted, last_out>>

AckLabel ==
    /\ AckAt("label")
    /\ Label(ack.idx + 1, ack.idx % BUF_SIZE)
    /\ ack' = [ack EXCEPT !.pc = "visit", !.idx = @ + 1]

\* The packets of earlier batches past the tail that was copied.
Bug_Extras == ack.tail + 1 .. ack.end_seq - 1
Extras == ack.tail + 1 .. ack.end_seq

\* No packet is sent with as many nacks as it has room for.
Bug_TooMany(nacks) == Cardinality(nacks) > ACK_WINDOW
TooMany(nacks) == Cardinality(nacks) >= ACK_WINDOW

\* The holes past the tail.  Too many nacks: give up every one of them.
AckExtra ==
    LET all == ack.nacks \cup Extras IN
    /\ AckAt("visit")
    /\ ack.idx > ack.end_pt
    /\ ack' = [ack EXCEPT !.pc = IF TooMany(all) THEN "overflow" ELSE "emit",
                          !.nacks = all]
    /\ due' = FALSE
    /\ UNCHANGED <<batchVars, ringVars, qlock, elock, condVars, enq, deq, batch_id_prev,
                   aborted, last_out>>

IsFirstNack(seq) == \A s \in ack.nacks : seq <= s

AckOverflow == \E seq \in ack.nacks :
    /\ AckAt("overflow")
    /\ IsFirstNack(seq)
    /\ elock[Seq2Ind(seq)] = Free
    /\ elock' = [elock EXCEPT ![Seq2Ind(seq)] = CreateAck]
    /\ status' = [status EXCEPT ![Seq2Ind(seq)] = "kDrop"]
    /\ ack' = [ack EXCEPT !.pc = "giveup"]
    /\ UNCHANGED <<batchVars, head, tail, seqnum, qlock, condVars, enq, deq,
                   batch_id_prev, due, aborted, last_out>>

AckGiveUp == \E seq \in ack.nacks :
    LET rest == ack.nacks \ {seq} IN
    /\ AckAt("giveup")
    /\ IsFirstNack(seq)
    /\ Label(seq, Seq2Ind(seq))
    /\ ack' = [ack EXCEPT !.pc = IF rest = {} THEN "emit" ELSE "overflow", !.nacks = rest]

\* RxCreateDataAck puts nacks and end_seq in a packet for the controller, as
\* PushNacks of AckPkt lays them out.
SendDataAck ==
    /\ AckAt("emit")
    /\ ack' = IdleAck
    /\ UNCHANGED <<batchVars, ringVars, qlock, elock, condVars, enq, deq, batch_id_prev,
                   due, aborted, last_out>>

FindNack ==
    \/ AckGetBatchID \/ AckLock \/ AckWoken \/ AckInfo \/ AckStartBatch \/ AckAssert
    \/ AckVisit \/ AckDrop \/ AckLabel \/ AckExtra \/ AckOverflow \/ AckGiveUp \/ SendDataAck

-----------------------------------------------------------------------------
SpuriousWakeup ==
    /\ SPURIOUS /\ ~aborted
    /\ \/ \E t \in fillWait : fillWait' = fillWait \ {t} /\ UNCHANGED <<emptyWait, availWait>>
       \/ \E t \in emptyWait : emptyWait' = emptyWait \ {t} /\ UNCHANGED <<fillWait, availWait>>
       \/ \E t \in availWait : availWait' = availWait \ {t} /\ UNCHANGED <<fillWait, emptyWait>>
    /\ UNCHANGED <<batchVars, ringVars, qlock, elock, enq, deq, ackVars, due, aborted,
                   last_out>>

\* A failed assert() ends the process.
Aborted == aborted /\ UNCHANGED vars

Receive == NewBatch \/ PacketOfBatch \/ BatchDecoded \/ BatchTimeOut

Next ==
    \/ Receive
    \/ \E p \in Producers : Enqueue(p)
    \/ Dequeue
    \/ FindNack
    \/ SpuriousWakeup
    \/ Aborted

Spec == Init /\ [][Next]_vars
-----------------------------------------------------------------------------
(* Properties *)

\* Types: pointers, statuses, lock owners, wait sets and the locals of each call.
TypeOK ==
    /\ BatchTypeOK
    /\ head \in Nat /\ tail \in Nat
    /\ status \in [Slots -> Status]
    /\ seqnum \in [Slots -> Nat]
    /\ qlock \in Threads \cup {Free}
    /\ elock \in [Slots -> {WriteTun, CreateAck, Free}]
    /\ fillWait \subseteq Threads
    /\ emptyWait \subseteq Threads
    /\ availWait \subseteq Threads
    /\ enq \in [Producers -> EnqLocals]
    /\ deq \in DeqLocals
    /\ ack \in AckLocals
    /\ batch_id_prev \in Nat
    /\ due \in BOOLEAN
    /\ aborted \in BOOLEAN
    /\ last_out \in Nat

\* The window of EnqueuePkt and DequeuePkt: head_pt never passes tail_pt, and
\* the two are at most BUF_SIZE apart, so that no two sequence numbers between
\* them share a slot.
WindowInv == head <= tail /\ tail <= head + BUF_SIZE

\* RxWriteTun, once past its IsEmpty test, never finds the queue empty again
\* although it lets go of the queue lock while it waits for a packet.
DequeueNotEmpty == deq.pc # "start" => head < tail

\* No slot of the window still holds a packet delivered one lap ago: it would
\* be thrown away as kRead in place of the packet it stands for.
NoStaleRead == \A s \in head + 1 .. tail : status[Seq2Ind(s)] # "kRead"

\* kBlock means that RxWriteTun waits for that very packet, the next one:
\* only FindNackSeqNum's block_time rule and EnqueuePkt's full rule rely on it.
BlockedIsHead ==
    qlock = Free => \A i \in Slots :
        status[i] = "kBlock" => /\ i = head % BUF_SIZE
                                /\ deq.pc \in {"gap", "wait", "relock"}

\* A packet is written to the TUN device at most once and in sequence.
DeliverInOrder ==
    [][\A i \in Slots :
          status[i] # "kRead" /\ status'[i] = "kRead" => last_out' > last_out]_vars

\* An acknowledgement covers a packet only if it was delivered, is in the
\* buffer, or was given up: the sender will not send it again.
AckSound ==
    ack.pc = "emit" => \A s \in 1 .. ack.end_seq :
        \/ s \in ack.nacks
        \/ s <= head
        \/ status[Seq2Ind(s)] = "kOccupiedNew" /\ seqnum[Seq2Ind(s)] = s
        \/ status[Seq2Ind(s)] = "kDrop" /\ (seqnum[Seq2Ind(s)] = s \/ s = head + 1)

\* A signal of fill_cond_ is not lost on the wrong one of its two waiters.
NoLostFill ==
    fillWait # {} /\ ~IsEmpty /\ qlock = Free =>
        \/ deq.pc # "start"
        \/ WriteTun \notin fillWait
        \/ ack.pc = "woken" /\ CreateAck \notin fillWait

\* The assertion of FindNackSeqNum.
AssertEndPt == ~aborted

\* EnqueuePkt leaves an occupied slot alone because it holds the same packet.
OnlyDuplicatesIgnored ==
    \A p \in Producers :
        LET i == Seq2Ind(enq[p].seq) IN
        enq[p].pc = "store" /\ status[i] = "kOccupiedNew" => seqnum[i] = enq[p].seq

\* A packet is given up, by a full buffer or by FindNackSeqNum, only while RxWriteTun
\* waits for it: never one further on, nor one that came in time.  (It does not hold
\* of a sender that loses more packets than an acknowledgement has room for.)
OnlyBlockedDropped ==
    [][\A i \in Slots :
          status'[i] = "kDrop" /\ status[i] # "kDrop" => status[i] = "kBlock"]_vars

\* The controller reads from a data acknowledgement the nacks that were put into it, if
\* a relative number has room for the distance of any two of them.  At most ACK_WINDOW - 1
\* are sent, and the walk starts at most BUF_SIZE before the tail: with one of them within
\* the window and all others past it, the distance is BUF_SIZE + ACK_WINDOW - 3.
DataNacksParse ==
    ack.pc = "emit" /\ REL_SIZE >= BUF_SIZE + ACK_WINDOW - 2 =>
        ParseNack(PushNacks(ack.nacks)) = ack.nacks

\* RxWriteTun sleeps only while the packet it waits for is missing.
NoLostAvail ==
    deq.pc = "wait" /\ WriteTun \in availWait /\ qlock = Free /\ elock[deq.idx] = Free
        => status[deq.idx] = "kBlock"
=============================================================================
