----------------------------- MODULE RadiosProofs ----------------------------
(***************************************************************************)
(* What the shared OriginalSeqContext and batch_id_prev guarantee for any  *)
(* number of radios, packets and batches.                                  *)
(***************************************************************************)
EXTENDS Radios, SequenceTheorems, TLAPS

\* The variables that the TUN side depends on.
TunTypes ==
    /\ queue \in [RadioIds -> Seq(Packets)]
    /\ tunPc \in [RadioIds -> {"dequeue", "ask", "write"}]
    /\ tunPkt \in [RadioIds -> Nat]
    /\ max_seq \in Nat
    /\ written \in Seq([seq : Nat, radio : RadioIds])

\* max_seq bounds what was written or is about to be, and what a thread is about to
\* write is newer than all its radio has written.
Claimed ==
    /\ \A a \in DOMAIN written : written[a].seq <= max_seq
    /\ \A r \in RadioIds : tunPc[r] = "write" =>
          /\ tunPkt[r] <= max_seq
          /\ \A a \in DOMAIN written :
                written[a].radio = r => written[a].seq < tunPkt[r]

TunInv == TunTypes /\ Claimed /\ WrittenOnce /\ RadioInOrder

\* What has been written are packets, each of a radio.
LEMMA WrittenElements ==
    ASSUME TunTypes
    PROVE  \A a \in DOMAIN written :
              /\ written[a] \in [seq : Nat, radio : RadioIds]
              /\ written[a].seq \in Nat /\ written[a].radio \in RadioIds
<1>1. written \in Seq([seq : Nat, radio : RadioIds])
  BY DEF TunTypes
<1>2. \A a \in DOMAIN written : written[a] \in [seq : Nat, radio : RadioIds]
  BY <1>1, ElementOfSeq, LenProperties
<1> QED
  BY <1>2

\* The invariant of the TUN side at the start.
LEMMA TunInit == RadiosInit => TunInv
<1> SUFFICES ASSUME RadiosInit PROVE TunInv
  OBVIOUS
<1>1. written = <<>> /\ max_seq = 0 /\ \A r \in RadioIds : tunPc[r] = "dequeue"
  BY DEF RadiosInit
<1>2. DOMAIN written = {} /\ written \in Seq([seq : Nat, radio : RadioIds])
  BY <1>1
<1>3. \A r \in RadioIds : <<>> \in Seq(Packets)
  OBVIOUS
<1>4. TunTypes
  BY <1>1, <1>2, <1>3 DEF RadiosInit, TunTypes, NotForTun
<1>5. Claimed /\ WrittenOnce /\ RadioInOrder
  BY <1>1, <1>2 DEF Claimed, WrittenOnce, RadioInOrder
<1> QED
  BY <1>4, <1>5 DEF TunInv

\* DequeuePkt hands a packet to a thread that had none.
LEMMA TunDequeue ==
    ASSUME TunInv, NEW r \in RadioIds, Dequeue(r)
    PROVE  TunInv'
<1> USE DEF TunInv, TunTypes
<1>1. queue[r] \in Seq(Packets) /\ queue[r] # <<>>
  BY DEF Dequeue
<1>2. Head(queue[r]) \in Packets /\ Tail(queue[r]) \in Seq(Packets)
  BY <1>1, HeadTailProperties
<1>3. Packets \subseteq Nat
  BY RadiosAssumption DEF Packets, NotForTun
<1>4. UNCHANGED <<max_seq, written>>
  BY DEF Dequeue
<1>5. \A q \in RadioIds : tunPc'[q] = "write" => tunPc[q] = "write" /\ tunPkt'[q] = tunPkt[q]
  BY DEF Dequeue
<1>6. TunTypes'
  BY <1>2, <1>3, <1>4 DEF Dequeue
<1>7. Claimed' /\ WrittenOnce' /\ RadioInOrder'
  BY <1>4, <1>5 DEF Claimed, WrittenOnce, RadioInOrder
<1> QED
  BY <1>6, <1>7

\* need_update lets a packet through that is newer than all written or about to be.
LEMMA TunNeedUpdate ==
    ASSUME TunInv, NEW r \in RadioIds, NeedUpdate(r)
    PROVE  TunInv'
<1> USE DEF TunInv, TunTypes
<1>1. UNCHANGED <<queue, written>>
  BY DEF NeedUpdate, airVars
<1>2. CASE IsNew(tunPkt[r])
  <2>1. /\ max_seq' = tunPkt[r] /\ max_seq' > max_seq
        /\ tunPc' = [tunPc EXCEPT ![r] = "write"] /\ tunPkt' = tunPkt
    BY <1>2 DEF NeedUpdate, MaxAfter, IsNew
  <2>2. TunTypes'
    BY <1>1, <2>1
  <2>3. \A a \in DOMAIN written : written[a].seq \in Nat /\ written[a].seq < tunPkt[r]
    BY <2>1, WrittenElements DEF Claimed
  <2>4. Claimed'
    <3>1. max_seq' \in Nat /\ max_seq \in Nat /\ max_seq < max_seq' /\ tunPkt[r] = max_seq'
      BY <2>1
    <3>2. \A a \in DOMAIN written' : written'[a].seq <= max_seq'
      BY <1>1, <2>3, <3>1
    <3>3. ASSUME NEW q \in RadioIds, tunPc'[q] = "write"
          PROVE  /\ tunPkt'[q] <= max_seq'
                 /\ \A a \in DOMAIN written' :
                       written'[a].radio = q => written'[a].seq < tunPkt'[q]
      <4>1. CASE q = r
        BY <1>1, <2>1, <2>3, <3>1, <4>1
      <4>2. CASE q # r
        <5>1. tunPc[q] = "write" /\ tunPkt'[q] = tunPkt[q] /\ tunPkt[q] \in Nat
          BY <2>1, <3>3, <4>2
        <5> QED
          BY <1>1, <3>1, <5>1 DEF Claimed
      <4> QED
        BY <4>1, <4>2
    <3> QED
      BY <3>2, <3>3 DEF Claimed
  <2>5. WrittenOnce'
    BY <1>1, <2>1, <2>3 DEF Claimed, WrittenOnce
  <2>6. RadioInOrder'
    BY <1>1 DEF RadioInOrder
  <2> QED
    BY <2>2, <2>4, <2>5, <2>6
<1>3. CASE ~IsNew(tunPkt[r])
  <2>1. /\ max_seq' = max_seq
        /\ tunPc' = [tunPc EXCEPT ![r] = "dequeue"]
        /\ tunPkt' = [tunPkt EXCEPT ![r] = NotForTun]
    BY <1>3 DEF NeedUpdate, MaxAfter, TunNext
  <2>2. TunTypes'
    BY <1>1, <2>1 DEF NotForTun
  <2>3. \A q \in RadioIds : tunPc'[q] = "write" => tunPc[q] = "write" /\ tunPkt'[q] = tunPkt[q]
    BY <2>1
  <2>4. Claimed' /\ WrittenOnce' /\ RadioInOrder'
    BY <1>1, <2>1, <2>3 DEF Claimed, WrittenOnce, RadioInOrder
  <2> QED
    BY <2>2, <2>4
<1> QED
  BY <1>2, <1>3

\* The write adds a number that was not there.
LEMMA TunWrite ==
    ASSUME TunInv, NEW r \in RadioIds, WriteTun(r)
    PROVE  TunInv'
<1> USE DEF TunInv, TunTypes
<1> DEFINE e == [seq |-> tunPkt[r], radio |-> r]
<1>1. /\ tunPc[r] = "write" /\ written' = Append(written, e)
      /\ tunPc' = [tunPc EXCEPT ![r] = "dequeue"]
      /\ tunPkt' = [tunPkt EXCEPT ![r] = NotForTun]
      /\ UNCHANGED <<queue, max_seq>>
  BY DEF WriteTun, TunNext, airVars
<1>2. e \in [seq : Nat, radio : RadioIds] /\ e.seq = tunPkt[r] /\ e.radio = r
  OBVIOUS
<1> HIDE DEF e
<1>3. /\ written' \in Seq([seq : Nat, radio : RadioIds]) /\ Len(written') = Len(written) + 1
      /\ \A a \in 1 .. Len(written) : written'[a] = written[a]
      /\ written'[Len(written) + 1] = e
  BY <1>1, <1>2, AppendProperties
<1> DEFINE n == Len(written)
<1>4. /\ n \in Nat /\ DOMAIN written = 1 .. n /\ DOMAIN written' = 1 .. (n + 1)
      /\ \A a \in 1 .. n : written'[a] = written[a]
      /\ written'[n + 1] = e
  BY <1>3
<1> HIDE DEF n
<1>dom. \A c \in DOMAIN written' : c \in DOMAIN written \/ c = n + 1
  <2>1. \A c \in 1 .. (n + 1) : c \in 1 .. n \/ c = n + 1
    <3> HIDE DEF TunInv, TunTypes
    <3> QED
      BY <1>4
  <2> QED
    BY <2>1, <1>4, Zenon
<1>5. \A q \in RadioIds : tunPc'[q] = "write" =>
          q # r /\ tunPc[q] = "write" /\ tunPkt'[q] = tunPkt[q]
  BY <1>1
<1>6. TunTypes'
  BY <1>1, <1>3 DEF NotForTun
<1>7. Claimed'
  <2>1. \A a \in DOMAIN written' : written'[a].seq <= max_seq
    BY <1>1, <1>2, <1>4 DEF Claimed
  <2>2. ASSUME NEW q \in RadioIds, tunPc'[q] = "write"
        PROVE  /\ tunPkt'[q] <= max_seq
               /\ \A a \in DOMAIN written' :
                     written'[a].radio = q => written'[a].seq < tunPkt'[q]
    <3>1. /\ q # r /\ tunPkt'[q] = tunPkt[q] /\ tunPkt[q] <= max_seq
          /\ \A a \in DOMAIN written : written[a].radio = q => written[a].seq < tunPkt[q]
      BY <1>5, <2>2 DEF Claimed
    <3>2. ASSUME NEW a \in DOMAIN written', written'[a].radio = q
          PROVE  a \in DOMAIN written /\ written'[a] = written[a]
      BY <1>2, <1>4, <3>1, <3>2
    <3> QED
      BY <3>1, <3>2
  <2> QED
    BY <1>1, <2>1, <2>2 DEF Claimed
<1>8. WrittenOnce'
  <2>1. \A a \in DOMAIN written : written[a].seq # tunPkt[r]
    BY <1>1 DEF WrittenOnce
  <2>2. \A a, b \in DOMAIN written' : written'[a].seq = written'[b].seq => a = b
    <3>1. SUFFICES ASSUME NEW a \in DOMAIN written', NEW b \in DOMAIN written',
                          written'[a].seq = written'[b].seq
                   PROVE  a = b
      OBVIOUS
    <3>3. \A c \in DOMAIN written : written'[c] = written[c]
      BY <1>4
    <3>4. CASE a \in DOMAIN written /\ b \in DOMAIN written
      BY <3>1, <3>3, <3>4 DEF WrittenOnce
    <3>5. CASE a = n + 1 /\ b = n + 1
      BY <3>5
    <3>6. CASE a \in DOMAIN written /\ b = n + 1
      BY <1>2, <1>4, <2>1, <3>1, <3>3, <3>6
    <3>7. CASE b \in DOMAIN written /\ a = n + 1
      BY <1>2, <1>4, <2>1, <3>1, <3>3, <3>7
    <3> QED
      BY <1>dom, <3>4, <3>5, <3>6, <3>7
  <2>3. ASSUME NEW q \in RadioIds, tunPc'[q] = "write"
        PROVE  \A a \in DOMAIN written' : written'[a].seq # tunPkt'[q]
    BY <1>1, <1>2, <1>4, <1>5, <2>3 DEF WrittenOnce
  <2>4. \A p, q \in RadioIds :
            tunPc'[p] = "write" /\ tunPc'[q] = "write" /\ tunPkt'[q] = tunPkt'[p] => q = p
    BY <1>5 DEF WrittenOnce
  <2> QED
    BY <2>2, <2>3, <2>4 DEF WrittenOnce
<1>9. RadioInOrder'
  <2>1. \A a \in DOMAIN written : written[a].radio = r => written[a].seq < tunPkt[r]
    BY <1>1 DEF Claimed
  <2>2. SUFFICES ASSUME NEW a \in DOMAIN written', NEW b \in DOMAIN written', a < b,
                        written'[a].radio = written'[b].radio
                 PROVE  written'[a].seq < written'[b].seq
    BY DEF RadioInOrder
  <2>3. a \in DOMAIN written /\ written'[a] = written[a]
    BY <1>4, <2>2
  <2>4. CASE b \in DOMAIN written
    BY <1>4, <2>2, <2>3, <2>4 DEF RadioInOrder
  <2>5. CASE b = n + 1
    BY <1>2, <1>4, <2>1, <2>2, <2>3, <2>5
  <2> QED
    BY <1>dom, <2>4, <2>5
<1> QED
  BY <1>6, <1>7, <1>8, <1>9

\* The producers only add packets to the buffers.
LEMMA TunEnqueue ==
    ASSUME TunInv, NEW r \in RadioIds, Enqueue(r)
    PROVE  TunInv'
<1>1. PICK p \in Packets : queue' = [queue EXCEPT ![r] = Append(@, p)]
  BY DEF Enqueue
<1>2. UNCHANGED tunVars
  BY DEF Enqueue
<1>3. queue' \in [RadioIds -> Seq(Packets)]
  <2>1. Append(queue[r], p) \in Seq(Packets)
    BY DEF TunInv, TunTypes
  <2> QED
    BY <1>1, <2>1 DEF TunInv, TunTypes
<1> QED
  BY <1>2, <1>3 DEF tunVars, TunInv, TunTypes, Claimed, WrittenOnce, RadioInOrder

\* Every step keeps the invariant of the TUN side.
LEMMA TunSteps == TunInv /\ [RadiosNext]_radiosVars => TunInv'
<1> SUFFICES ASSUME TunInv, [RadiosNext]_radiosVars PROVE TunInv'
  OBVIOUS
<1>1. ASSUME NEW r \in RadioIds, NewBatch(r) \/ BatchOver(r) \/ AckStep(r)
      PROVE  UNCHANGED <<queue, tunVars>>
  BY <1>1 DEF NewBatch, BatchOver, AckStep, AckGetBatchID, AckTest, AckInfo,
     AckStartBatch, AckStore, airVars
<1>2. ASSUME UNCHANGED <<queue, tunVars>> PROVE TunInv'
  BY <1>2 DEF tunVars, TunInv, TunTypes, Claimed, WrittenOnce, RadioInOrder
<1>3. CASE UNCHANGED radiosVars
  BY <1>2, <1>3 DEF radiosVars, airVars
<1>4. CASE RadiosNext
  BY <1>1, <1>2, <1>4, TunEnqueue, TunDequeue, TunNeedUpdate, TunWrite
     DEF RadiosNext, TunStep
<1> QED
  BY <1>3, <1>4

\* No original packet reaches the TUN device twice, however many radios bring it.
THEOREM RadiosWrittenOnce == RadiosSpec => []WrittenOnce
<1>1. TunInv => WrittenOnce
  BY DEF TunInv
<1> QED
  BY TunInit, TunSteps, <1>1, PTL DEF RadiosSpec

\* The packets of one radio reach the TUN device in their original order.
THEOREM RadiosInOrder == RadiosSpec => []RadioInOrder
<1>1. TunInv => RadioInOrder
  BY DEF TunInv
<1> QED
  BY TunInit, TunSteps, <1>1, PTL DEF RadiosSpec

-----------------------------------------------------------------------------
\* The variables that the acknowledging side depends on.
AckTypes ==
    /\ batch_id \in [RadioIds -> Nat]
    /\ ackPc \in [RadioIds -> {"start", "test", "sleep", "info", "again", "store"}]
    /\ ackBatch \in [RadioIds -> Nat]
    /\ batch_id_prev \in Nat
    /\ acked \in [RadioIds -> Nat \cup {None}]

\* Some radio is at batch b or later, and has acknowledged a whole batch.
Vouched(b) == \E q \in RadioIds : acked[q] # None /\ batch_id[q] >= b

\* What is remembered of a batch id was announced, and stored only by a radio that has
\* acknowledged.
PrevVouched ==
    /\ \A r \in RadioIds : ackBatch[r] <= batch_id[r]
    /\ \A r \in RadioIds : ackPc[r] \in {"again", "store"} => acked[r] # None
    /\ batch_id_prev > 0 => Vouched(batch_id_prev)

AckInv == AckTypes /\ PrevVouched /\ SleepsAfterAck

\* The invariant of the acknowledging side at the start.
LEMMA AckInit == RadiosInit => AckInv
  BY DEF RadiosInit, AckInv, AckTypes, PrevVouched, SleepsAfterAck

\* Whoever vouches for a batch still does when nothing is taken back.
LEMMA StillVouched ==
    ASSUME AckTypes, AckTypes',
           \A q \in RadioIds : batch_id[q] <= batch_id'[q],
           \A q \in RadioIds : acked[q] # None => acked'[q] # None
    PROVE  \A b \in Nat : Vouched(b) => Vouched(b)'
  BY DEF Vouched, AckTypes

\* A step that remembers no other batch id, and puts nobody to sleep, keeps the invariant.
LEMMA AckKept ==
    ASSUME AckInv, AckTypes',
           \A q \in RadioIds : batch_id[q] <= batch_id'[q],
           \A q \in RadioIds : acked[q] # None => acked'[q] # None,
           batch_id_prev' = batch_id_prev,
           \A q \in RadioIds : ackBatch'[q] = ackBatch[q] \/ ackBatch'[q] = 0
                                                          \/ ackBatch'[q] = batch_id'[q],
           \A q \in RadioIds : ackPc'[q] \in {"again", "store"} =>
               ackPc[q] \in {"again", "store"} \/ acked'[q] # None,
           \A q \in RadioIds : ackPc'[q] = "sleep" =>
               ackPc[q] = "sleep" /\ ackBatch'[q] = ackBatch[q]
    PROVE  AckInv'
<1> USE DEF AckInv, AckTypes
<1>1. \A b \in Nat : Vouched(b) => Vouched(b)'
  BY StillVouched
<1>2. PrevVouched'
  BY <1>1 DEF PrevVouched
<1>3. SleepsAfterAck'
  <2>1. ASSUME NEW q \in RadioIds, ackPc'[q] = "sleep", ackBatch'[q] > 0
        PROVE  \E p \in RadioIds : acked'[p] # None /\ batch_id'[p] >= ackBatch'[q]
    <3>1. ackBatch'[q] = ackBatch[q] /\ ackBatch[q] \in Nat
      BY <2>1
    <3>2. Vouched(ackBatch[q])
      BY <2>1, <3>1 DEF SleepsAfterAck, Vouched
    <3>3. PICK p \in RadioIds : acked[p] # None /\ batch_id[p] >= ackBatch[q]
      BY <3>2 DEF Vouched
    <3>4. acked'[p] # None /\ batch_id'[p] >= ackBatch[q]
      BY <3>1, <3>3
    <3> QED
      BY <3>1, <3>4
  <2> QED
    BY <2>1 DEF SleepsAfterAck
<1> QED
  BY <1>2, <1>3

\* RxCreateDataAck goes to sleep when its batch is not above batch_id_prev, and somebody
\* vouches for that one.
LEMMA AckTestInv ==
    ASSUME AckInv, NEW r \in RadioIds, AckTest(r)
    PROVE  AckInv'
<1> USE DEF AckInv, AckTypes
<1>1. /\ ackPc' = [ackPc EXCEPT ![r] = IF MustWait(r) THEN "sleep" ELSE "info"]
      /\ UNCHANGED <<ackBatch, batch_id, batch_id_prev, acked>>
  BY DEF AckTest, AckGoto, airVars
<1>2. CASE MustWait(r)
  <2>1. ackPc' = [ackPc EXCEPT ![r] = "sleep"]
    BY <1>1, <1>2
  <2>2. AckTypes' /\ PrevVouched'
    BY <1>1, <2>1 DEF PrevVouched, Vouched
  <2>3. ackBatch[r] > 0 => \E q \in RadioIds : acked[q] # None /\ batch_id[q] >= ackBatch[r]
    BY <1>2 DEF PrevVouched, Vouched, MustWait
  <2>4. \A q \in RadioIds : q # r => ackPc'[q] = ackPc[q]
    BY <2>1
  <2>5. SleepsAfterAck'
    BY <1>1, <2>3, <2>4 DEF SleepsAfterAck
  <2> QED
    BY <2>2, <2>5
<1>3. CASE ~MustWait(r)
  <2>1. ackPc' = [ackPc EXCEPT ![r] = "info"]
    BY <1>1, <1>3
  <2> QED
    BY <1>1, <2>1, AckKept
<1> QED
  BY <1>2, <1>3

\* batch_id_prev is stored by a radio that vouches for it.
LEMMA AckStoreInv ==
    ASSUME AckInv, NEW r \in RadioIds, AckStore(r)
    PROVE  AckInv'
<1> USE DEF AckInv, AckTypes
<1>1. /\ ackPc[r] = "store" /\ batch_id_prev' = ackBatch[r]
      /\ ackPc' = [ackPc EXCEPT ![r] = "start"]
      /\ ackBatch' = [ackBatch EXCEPT ![r] = 0]
      /\ UNCHANGED <<batch_id, acked>>
  BY DEF AckStore, AckGoto, airVars
<1>2. AckTypes'
  BY <1>1
<1>3. Vouched(ackBatch[r])
  BY <1>1 DEF PrevVouched, Vouched
<1>4. PrevVouched'
  BY <1>1, <1>3 DEF PrevVouched, Vouched
<1>5. SleepsAfterAck'
  BY <1>1 DEF SleepsAfterAck
<1> QED
  BY <1>2, <1>4, <1>5

\* Every step keeps the invariant of the acknowledging side.
LEMMA AckSteps == AckInv /\ [RadiosNext]_radiosVars => AckInv'
<1> SUFFICES ASSUME AckInv, [RadiosNext]_radiosVars PROVE AckInv'
  OBVIOUS
<1> USE DEF AckInv, AckTypes
<1>1. ASSUME UNCHANGED <<batch_id, ackVars>> PROVE AckInv'
  BY <1>1, AckKept DEF ackVars
<1>2. CASE UNCHANGED radiosVars
  BY <1>1, <1>2 DEF radiosVars, airVars
<1>3. ASSUME NEW r \in RadioIds, NewBatch(r) PROVE AckInv'
  <2>1. batch_id' = [batch_id EXCEPT ![r] = @ + 1] /\ UNCHANGED ackVars
    BY <1>3 DEF NewBatch
  <2> QED
    BY <2>1, AckKept DEF ackVars
<1>4. ASSUME NEW r \in RadioIds, BatchOver(r) \/ TunStep(r) PROVE AckInv'
  BY <1>1, <1>4 DEF BatchOver, TunStep, Dequeue, NeedUpdate, WriteTun, airVars
<1>5. ASSUME NEW r \in RadioIds, Enqueue(r) PROVE AckInv'
  <2>1. /\ ackPc' = [ackPc EXCEPT ![r] = Awake(@)]
        /\ UNCHANGED <<batch_id, ackBatch, batch_id_prev, acked>>
    BY <1>5 DEF Enqueue
  <2>2. Awake(ackPc[r]) = ackPc[r] \/ Awake(ackPc[r]) = "info"
    BY DEF Awake
  <2> QED
    BY <2>1, <2>2, AckKept
<1>6. ASSUME NEW r \in RadioIds, AckGetBatchID(r) PROVE AckInv'
  <2>1. /\ ackPc' = [ackPc EXCEPT ![r] = "test"]
        /\ ackBatch' = [ackBatch EXCEPT ![r] = batch_id[r]]
        /\ UNCHANGED <<batch_id, batch_id_prev, acked>>
    BY <1>6 DEF AckGetBatchID, AckGoto, airVars
  <2> QED
    BY <2>1, AckKept
<1>7. ASSUME NEW r \in RadioIds, AckInfo(r) PROVE AckInv'
  <2>1. /\ ackBatch' = [ackBatch EXCEPT ![r] = 0]
        /\ UNCHANGED <<batch_id, batch_id_prev>>
    BY <1>7 DEF AckInfo, AckGoto, airVars
  <2>2. \/ /\ ackPc' = [ackPc EXCEPT ![r] = "start"] /\ acked' = acked
        \/ /\ ackPc' = [ackPc EXCEPT ![r] = "again"]
           /\ acked' = [acked EXCEPT ![r] = batch_id[r]]
    BY <1>7 DEF AckInfo, AckGoto
  <2> QED
    BY <2>1, <2>2, AckKept DEF None
<1>8. ASSUME NEW r \in RadioIds, AckStartBatch(r) PROVE AckInv'
  <2>1. ackPc[r] = "again" /\ UNCHANGED <<batch_id, batch_id_prev, acked>>
    BY <1>8 DEF AckStartBatch, airVars
  <2>2. \/ /\ ackPc' = [ackPc EXCEPT ![r] = "store"]
           /\ ackBatch' = [ackBatch EXCEPT ![r] = batch_id[r]]
        \/ /\ ackPc' = [ackPc EXCEPT ![r] = "start"]
           /\ ackBatch' = [ackBatch EXCEPT ![r] = 0]
    BY <1>8 DEF AckStartBatch, AckGoto
  <2> QED
    BY <2>1, <2>2, AckKept
<1>9. CASE RadiosNext
  BY <1>3, <1>4, <1>5, <1>6, <1>7, <1>8, <1>9, AckTestInv, AckStoreInv
     DEF RadiosNext, AckStep
<1> QED
  BY <1>2, <1>9

\* Nobody waits for packets of a batch that no acknowledging radio has reached.
THEOREM RadiosSleepAfterAck == RadiosSpec => []SleepsAfterAck
<1>1. AckInv => SleepsAfterAck
  BY DEF AckInv
<1> QED
  BY AckInit, AckSteps, <1>1, PTL DEF RadiosSpec

-----------------------------------------------------------------------------
\* Every step keeps every type, and with it that only packets for this client's TUN
\* device are asked about and written.
LEMMA RadiosTypeStep == RadiosTypeOK /\ [RadiosNext]_radiosVars => RadiosTypeOK'
<1> SUFFICES ASSUME RadiosTypeOK, [RadiosNext]_radiosVars PROVE RadiosTypeOK'
  OBVIOUS
<1> USE RadiosAssumption DEF RadiosTypeOK
<1>1. CASE UNCHANGED radiosVars
  BY <1>1 DEF radiosVars, airVars, tunVars, ackVars
<1>2. ASSUME NEW r \in RadioIds, NewBatch(r) \/ BatchOver(r)
      PROVE  RadiosTypeOK'
  <2>1. UNCHANGED <<queue, tunVars, ackVars>>
    BY <1>2 DEF NewBatch, BatchOver
  <2>2. \/ /\ batch_id' = [batch_id EXCEPT ![r] = @ + 1]
           /\ decoding_done' = [decoding_done EXCEPT ![r] = FALSE]
        \/ /\ decoding_done' = [decoding_done EXCEPT ![r] = TRUE]
           /\ UNCHANGED batch_id
    BY <1>2 DEF NewBatch, BatchOver
  <2>3. batch_id' \in [RadioIds -> Nat]
    <3>1. batch_id[r] + 1 \in Nat
      OBVIOUS
    <3>2. batch_id' = [batch_id EXCEPT ![r] = batch_id[r] + 1] \/ batch_id' = batch_id
      BY <2>2
    <3> QED
      BY <3>1, <3>2
  <2>4. decoding_done' \in [RadioIds -> BOOLEAN]
    BY <2>2
  <2> QED
    BY <2>1, <2>3, <2>4 DEF tunVars, ackVars
<1>3. ASSUME NEW r \in RadioIds, Enqueue(r)
      PROVE  RadiosTypeOK'
  <2>1. PICK p \in Packets : queue' = [queue EXCEPT ![r] = Append(@, p)]
    BY <1>3 DEF Enqueue
  <2>2. Append(queue[r], p) \in Seq(Packets)
    OBVIOUS
  <2>3. queue' \in [RadioIds -> Seq(Packets)]
    BY <2>1, <2>2
  <2>4. ackPc' \in [RadioIds -> {"start", "test", "sleep", "info", "again", "store"}]
    BY <1>3 DEF Enqueue, Awake
  <2> QED
    BY <1>3, <2>3, <2>4 DEF Enqueue, tunVars
<1>4. ASSUME NEW r \in RadioIds, Dequeue(r)
      PROVE  RadiosTypeOK'
  <2>1. queue[r] \in Seq(Packets) /\ queue[r] # <<>>
    BY <1>4 DEF Dequeue
  <2>2. Head(queue[r]) \in Packets /\ Tail(queue[r]) \in Seq(Packets)
    BY <2>1, HeadTailProperties
  <2>3. queue' \in [RadioIds -> Seq(Packets)]
    BY <1>4, <2>2 DEF Dequeue
  <2>4. \/ UNCHANGED <<tunPkt, tunPc>>
        \/ /\ Head(queue[r]) # NotForTun
           /\ tunPkt' = [tunPkt EXCEPT ![r] = Head(queue[r])]
           /\ tunPc' = [tunPc EXCEPT ![r] = "ask"]
    BY <1>4 DEF Dequeue, IsForTun
  <2>5. /\ tunPkt' \in [RadioIds -> Packets]
        /\ tunPc' \in [RadioIds -> {"dequeue", "ask", "write"}]
        /\ \A q \in RadioIds : tunPc'[q] # "dequeue" => tunPkt'[q] # NotForTun
    BY <2>2, <2>4
  <2> QED
    BY <1>4, <2>3, <2>5 DEF Dequeue, ackVars
<1>5. ASSUME NEW r \in RadioIds, NeedUpdate(r) \/ WriteTun(r)
      PROVE  RadiosTypeOK'
  <2>1. tunPkt[r] \in 1 .. MaxOSeq
    BY <1>5 DEF NeedUpdate, WriteTun, Packets
  <2>2. \/ tunPc' = [tunPc EXCEPT ![r] = "write"] /\ UNCHANGED tunPkt /\ tunPc[r] # "dequeue"
        \/ /\ tunPc' = [tunPc EXCEPT ![r] = "dequeue"]
           /\ tunPkt' = [tunPkt EXCEPT ![r] = NotForTun]
    BY <1>5 DEF NeedUpdate, WriteTun, TunNext
  <2>3. /\ tunPkt' \in [RadioIds -> Packets]
        /\ tunPc' \in [RadioIds -> {"dequeue", "ask", "write"}]
        /\ \A q \in RadioIds : tunPc'[q] # "dequeue" => tunPkt'[q] # NotForTun
    BY <2>2 DEF Packets
  <2>4. max_seq' \in 0 .. MaxOSeq
    BY <1>5, <2>1 DEF NeedUpdate, WriteTun, MaxAfter
  <2>5. written' \in Seq([seq : 1 .. MaxOSeq, radio : RadioIds])
    <3> DEFINE w == [seq |-> tunPkt[r], radio |-> r]
    <3>1. w \in [seq : 1 .. MaxOSeq, radio : RadioIds]
      BY <2>1
    <3>2. Append(written, w) \in Seq([seq : 1 .. MaxOSeq, radio : RadioIds])
      BY <3>1, AppendProperties
    <3> QED
      BY <1>5, <3>2 DEF NeedUpdate, WriteTun
  <2>6. UNCHANGED <<airVars, ackVars>>
    BY <1>5 DEF NeedUpdate, WriteTun
  <2> QED
    BY <2>3, <2>4, <2>5, <2>6 DEF airVars, ackVars
<1>6. ASSUME NEW r \in RadioIds, AckStep(r)
      PROVE  RadiosTypeOK'
  <2>1. UNCHANGED <<airVars, tunVars>>
    BY <1>6 DEF AckStep, AckGetBatchID, AckTest, AckInfo, AckStartBatch, AckStore
  <2>2. ackPc' \in [RadioIds -> {"start", "test", "sleep", "info", "again", "store"}]
    BY <1>6 DEF AckStep, AckGetBatchID, AckTest, AckInfo, AckStartBatch, AckStore, AckGoto
  <2>3. ackBatch' \in [RadioIds -> Nat]
    <3>1. \E b \in {0, ackBatch[r], batch_id[r]} : ackBatch' = [ackBatch EXCEPT ![r] = b]
      BY <1>6 DEF AckStep, AckGetBatchID, AckTest, AckInfo, AckStartBatch, AckStore,
         AckGoto
    <3> QED
      BY <3>1
  <2>5. batch_id_prev' \in Nat
    BY <1>6 DEF AckStep, AckGetBatchID, AckTest, AckInfo, AckStartBatch, AckStore
  <2>4. acked' \in [RadioIds -> Nat \cup {None}]
    BY <1>6 DEF AckStep, AckGetBatchID, AckTest, AckInfo, AckStartBatch, AckStore
  <2> QED
    BY <2>1, <2>2, <2>3, <2>4, <2>5 DEF airVars, tunVars
<1> QED
  BY <1>1, <1>2, <1>3, <1>4, <1>5, <1>6 DEF RadiosNext, TunStep

\* Every variable keeps its type, and a packet for somebody else is never about to be
\* written.
THEOREM RadiosTypes == RadiosSpec => []RadiosTypeOK
<1>1. RadiosInit => RadiosTypeOK
  <2> SUFFICES ASSUME RadiosInit PROVE RadiosTypeOK
    OBVIOUS
  <2>1. <<>> \in Seq(Packets) /\ <<>> \in Seq([seq : 1 .. MaxOSeq, radio : RadioIds])
    OBVIOUS
  <2>2. 0 \in 0 .. MaxOSeq /\ NotForTun \in Packets
    BY RadiosAssumption DEF Packets
  <2> QED
    BY <2>1, <2>2 DEF RadiosInit, RadiosTypeOK
<1> QED
  BY RadiosTypeStep, <1>1, PTL DEF RadiosSpec
=============================================================================
