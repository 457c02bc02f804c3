---------------------------- MODULE RxRawBufProofs ---------------------------
(***************************************************************************)
(* RxRawBuf for every ACK_WINDOW, REL_SIZE, MAX_SEND_CNT, MIN_PKT_CNT and  *)
(* MaxSeq, and every max_send_cnt_ up to MAX_SEND_CNT.                     *)
(***************************************************************************)
EXTENDS RxRawBuf, AckPktProofs

\* The log, between two calls: it counts no packet from before the last
\* acknowledgement, and it accounts for every packet it counts.
LogInv ==
    /\ pkt_cnt <= end_seq
    /\ raw_ack.end_seq <= end_seq - pkt_cnt
    /\ \A s \in Window(end_seq, pkt_cnt) : s \in DOMAIN nack_deq \/ s \in arrived

\* Older holes have been reported at least as often as newer ones.
DequeInv ==
    /\ \A s \in DOMAIN nack_deq : s <= end_seq
    /\ \A s, t \in DOMAIN nack_deq : s < t => nack_deq[t] <= nack_deq[s]

RawIInv == RawTypeOK /\ LogInv /\ DequeInv /\ RawAckSound /\ RawAckNoOverlap

\* The inductive invariant of the empty log.
LEMMA RawInitInv == RawInit => RawIInv
<1> SUFFICES ASSUME RawInit PROVE RawIInv
  OBVIOUS
<1>1. DOMAIN nack_deq = {} /\ nack_deq \in [DOMAIN nack_deq -> 0 .. max_send_cnt - 1]
  BY DEF RawInit
<1>2. RawTypeOK
  <2>1. pkt_cnt \in 0 .. ACK_WINDOW
    BY AckPktAssumption DEF RawInit
  <2>2. end_seq \in Nat /\ acked \in Nat /\ raw_ack \in [end_seq : Nat, num_pkts : Nat, nacks : SUBSET Nat]
    BY DEF RawInit
  <2> QED
    BY <1>1, <2>1, <2>2 DEF RawInit, RawTypeOK
<1>3. LogInv /\ RawAckSound /\ RawAckNoOverlap
  BY RawAssumption, AckPktAssumption DEF RawInit, LogInv, RawAckSound, RawAckNoOverlap, Window
<1>4. DequeInv
  BY <1>1 DEF DequeInv
<1> QED
  BY <1>2, <1>3, <1>4 DEF RawIInv

\* A packet that fits is counted with the holes before it.
LEMMA PushFitsInv ==
    ASSUME RawIInv, NEW seq \in Nat, PushFits(seq), arrived' = arrived \cup {seq},
           UNCHANGED <<max_send_cnt, raw_ack, exited, acked>>
    PROVE  RawIInv'
<1> USE RawAssumption, AckPktAssumption DEF RawIInv, RawTypeOK
<1> DEFINE holes == end_seq + 1 .. seq - 1
<1>1. /\ seq > end_seq
      /\ seq - end_seq <= ACK_WINDOW - pkt_cnt
      /\ end_seq' = seq
      /\ pkt_cnt' = pkt_cnt + (seq - end_seq)
      /\ popper' = IF popper = "sleep" THEN "pop" ELSE popper
      /\ nack_deq' = [s \in DOMAIN nack_deq \cup holes |->
                         IF s \in DOMAIN nack_deq THEN nack_deq[s] ELSE 0]
  BY DEF PushFits, NumPkts, Room, SignalFill
<1>2. DOMAIN nack_deq' = DOMAIN nack_deq \cup holes
  BY <1>1
<1>3. holes \subseteq Nat
  BY <1>1
<1>4. \A s \in DOMAIN nack_deq' :
          nack_deq'[s] = IF s \in DOMAIN nack_deq THEN nack_deq[s] ELSE 0
  BY <1>1, <1>2
<1> HIDE DEF holes
<1>5. RawTypeOK'
  <2>1. nack_deq' \in [DOMAIN nack_deq' -> 0 .. max_send_cnt' - 1]
    BY <1>1, <1>2
  <2>2. DOMAIN nack_deq' \in SUBSET Nat
    BY <1>2, <1>3
  <2> QED
    BY <1>1, <2>1, <2>2
<1>6. LogInv'
  <2>1. /\ pkt_cnt' <= end_seq'
        /\ raw_ack'.end_seq <= end_seq' - pkt_cnt'
    BY <1>1 DEF LogInv
  <2>2. ASSUME NEW s \in Window(end_seq', pkt_cnt')
        PROVE  s \in DOMAIN nack_deq' \/ s \in arrived'
    <3>1. s \in Window(end_seq, pkt_cnt) \/ s \in holes \/ s = seq
      BY <1>1 DEF Window, holes
    <3> QED
      BY <3>1, <1>2 DEF LogInv
  <2> QED
    BY <2>1, <2>2 DEF LogInv
<1>7. DequeInv'
  <2>1. \A s \in DOMAIN nack_deq : s <= end_seq
    BY DEF DequeInv
  <2>2. \A s \in holes : end_seq < s /\ s < seq
    BY DEF holes
  <2>3. ASSUME NEW s \in DOMAIN nack_deq' PROVE s <= end_seq'
    BY <1>1, <1>2, <1>3, <1>4, <2>1, <2>2
  <2>4. ASSUME NEW s \in DOMAIN nack_deq', NEW t \in DOMAIN nack_deq', s < t
        PROVE  nack_deq'[t] <= nack_deq'[s]
    <3>1. CASE s \in DOMAIN nack_deq /\ t \in DOMAIN nack_deq
      BY <3>1, <1>4, <2>4 DEF DequeInv
    <3>2. CASE t \notin DOMAIN nack_deq
      <4>1. nack_deq'[t] = 0 /\ nack_deq'[s] \in Nat
        BY <3>2, <1>4, <1>5
      <4> QED
        BY <4>1
    <3>3. CASE s \notin DOMAIN nack_deq /\ t \in DOMAIN nack_deq
      BY <3>3, <1>2, <1>3, <2>1, <2>2, <2>4
    <3> QED
      BY <3>1, <3>2, <3>3
  <2> QED
    BY <2>3, <2>4 DEF DequeInv
<1>8. RawAckSound' /\ RawAckNoOverlap'
  BY DEF RawAckSound, RawAckNoOverlap, Window
<1> QED
  BY <1>5, <1>6, <1>7, <1>8

\* A report accounts for what was counted, and a new count starts after it.
LEMMA PopInv ==
    ASSUME RawIInv, PopPktStatus
    PROVE  RawIInv'
<1> USE RawAssumption, AckPktAssumption DEF RawIInv, RawTypeOK
<1>1. /\ raw_ack' = [end_seq |-> end_seq, num_pkts |-> pkt_cnt, nacks |-> DOMAIN nack_deq]
      /\ acked' = raw_ack.end_seq
      /\ nack_deq' = [s \in DOMAIN nack_deq \ Done |-> Reported[s]]
      /\ pkt_cnt' = 0 /\ popper' = "send"
      /\ UNCHANGED <<max_send_cnt, end_seq, exited, arrived>>
  BY DEF PopPktStatus, ResetCount
<1>2. DOMAIN nack_deq' = DOMAIN nack_deq \ Done
  BY <1>1
<1>3. \A s \in DOMAIN nack_deq' : nack_deq'[s] = nack_deq[s] + 1
  BY <1>1, <1>2 DEF Reported, Done
<1>4. RawTypeOK'
  <2>1. DOMAIN nack_deq' \in SUBSET Nat
    BY <1>2 DEF Done
  <2>2. ASSUME NEW s \in DOMAIN nack_deq' PROVE nack_deq'[s] \in 0 .. max_send_cnt - 1
    <3>1. s \in DOMAIN nack_deq /\ s \notin Done
      BY <1>2
    <3>2. PICK t \in DOMAIN nack_deq : t <= s /\ Reported[t] # max_send_cnt
      BY <3>1 DEF Done
    <3>3. /\ Reported[t] = nack_deq[t] + 1
          /\ nack_deq[t] \in 0 .. max_send_cnt - 1 /\ nack_deq[s] \in 0 .. max_send_cnt - 1
      BY <3>1 DEF Reported
    <3>4. nack_deq[s] <= nack_deq[t]
      BY <3>1, <3>2, <3>3 DEF DequeInv
    <3> QED
      BY <1>3, <3>2, <3>3, <3>4
  <2>3. nack_deq' \in [DOMAIN nack_deq' -> 0 .. max_send_cnt - 1]
    BY <1>1, <1>2, <2>2
  <2> QED
    BY <1>1, <2>1, <2>3
<1>5. LogInv'
  BY <1>1 DEF LogInv, Window
<1>6. DequeInv'
  <2>1. ASSUME NEW s \in DOMAIN nack_deq' PROVE s <= end_seq'
    BY <1>1, <1>2 DEF DequeInv
  <2>2. ASSUME NEW s \in DOMAIN nack_deq', NEW t \in DOMAIN nack_deq', s < t
        PROVE  nack_deq'[t] <= nack_deq'[s]
    <3>1. nack_deq[t] <= nack_deq[s] /\ nack_deq[s] \in Nat /\ nack_deq[t] \in Nat
      BY <1>2, <2>2 DEF DequeInv
    <3> QED
      BY <1>3, <3>1
  <2> QED
    BY <1>1, <2>1, <2>2 DEF DequeInv
<1>7. RawAckSound' /\ RawAckNoOverlap'
  BY <1>1 DEF LogInv, RawAckSound, RawAckNoOverlap
<1> QED
  BY <1>4, <1>5, <1>6, <1>7

\* Every step keeps the inductive invariant.
LEMMA RawStepInv == RawIInv /\ [RawNext]_rawVars => RawIInv'
<1> SUFFICES ASSUME RawIInv, [RawNext]_rawVars PROVE RawIInv'
  OBVIOUS
<1> USE RawAssumption, AckPktAssumption
<1>1. ASSUME NEW seq \in 1 .. MaxSeq, PushStale(seq), arrived' = arrived \cup {seq},
             UNCHANGED <<max_send_cnt, raw_ack, exited, acked>>
      PROVE  RawIInv'
  BY <1>1 DEF RawIInv, RawTypeOK, LogInv, DequeInv, RawAckSound, RawAckNoOverlap,
     Window, PushStale
<1>2. ASSUME NEW seq \in 1 .. MaxSeq, PushOverflow(seq), arrived' = arrived \cup {seq},
             UNCHANGED <<max_send_cnt, raw_ack, exited, acked>>
      PROVE  RawIInv'
  <2>1. /\ seq \in Nat /\ seq > end_seq
        /\ nack_deq' = [s \in {} |-> 0] /\ pkt_cnt' = 1 /\ end_seq' = seq
        /\ popper' = IF popper = "sleep" THEN "pop" ELSE popper
    BY <1>2 DEF PushOverflow, Restart, SignalFill
  <2>2. DOMAIN nack_deq' = {}
    BY <2>1
  <2>3. RawTypeOK'
    BY <1>2, <2>1, <2>2 DEF RawIInv, RawTypeOK
  <2>4. LogInv'
    BY <1>2, <2>1 DEF RawIInv, RawTypeOK, LogInv, Window
  <2>5. DequeInv'
    BY <2>2 DEF DequeInv
  <2>6. RawAckSound' /\ RawAckNoOverlap'
    BY <1>2 DEF RawIInv, RawAckSound, RawAckNoOverlap
  <2> QED
    BY <2>3, <2>4, <2>5, <2>6 DEF RawIInv
<1>3. CASE PushPkts
  BY <1>1, <1>2, <1>3, PushFitsInv DEF PushPkts
<1>4. CASE PopSleep
  BY <1>4 DEF RawIInv, RawTypeOK, LogInv, DequeInv, RawAckSound, RawAckNoOverlap,
     Window, PopSleep
<1>5. CASE PopPktStatus
  BY <1>5, PopInv
<1>6. CASE SendRawAck
  BY <1>6 DEF RawIInv, RawTypeOK, LogInv, DequeInv, RawAckSound, RawAckNoOverlap,
     Window, SendRawAck, IsAckFull
<1>7. CASE UNCHANGED rawVars
  BY <1>7 DEF RawIInv, RawTypeOK, LogInv, DequeInv, RawAckSound, RawAckNoOverlap,
     Window, rawVars
<1> QED
  BY <1>3, <1>4, <1>5, <1>6, <1>7 DEF RawNext, Exited

\* The inductive invariant of the log of raw packets holds in every state.
THEOREM RawInvariant == RawSpec => []RawIInv
BY RawInitInv, RawStepInv, PTL DEF RawSpec

\* Every variable keeps its type: the subtractions of PushPkts, unsigned in the code,
\* yield natural numbers, and no loss is reported more than max_send_cnt_ times.
THEOREM RawTypes == RawSpec => []RawTypeOK
BY RawInvariant, PTL DEF RawIInv

\* Every raw acknowledgement is true: PopPktStatus reports as lost, or has seen
\* arrive, each of the num_pkts packets it speaks about.
THEOREM RawAckSoundness == RawSpec => []RawAckSound
BY RawInvariant, PTL DEF RawIInv

\* No raw packet is counted by two acknowledgements.
THEOREM RawAckDisjoint == RawSpec => []RawAckNoOverlap
BY RawInvariant, PTL DEF RawIInv

-----------------------------------------------------------------------------
(***************************************************************************)
(* With the default of one report per hole the queue is empty after every  *)
(* acknowledgement, so that the next one has at most as many nacks as      *)
(* packets it counts, less the last of them, which arrived.                *)
(***************************************************************************)
OnceInv ==
    /\ \A s \in DOMAIN nack_deq : end_seq - pkt_cnt < s /\ s < end_seq
    /\ popper = "send" => Cardinality(raw_ack.nacks) \in 0 .. ACK_WINDOW - 1
    /\ ~exited

\* With one report per loss, the queue holds losses of the current count only.
LEMMA OnceStep ==
    ASSUME max_send_cnt = 1, RawIInv, OnceInv, [RawNext]_rawVars
    PROVE  OnceInv'
<1> USE RawAssumption, AckPktAssumption DEF RawIInv, RawTypeOK
<1>1. CASE PushPkts
  <2>1. PICK seq \in 1 .. MaxSeq :
            /\ PushStale(seq) \/ PushFits(seq) \/ PushOverflow(seq)
            /\ arrived' = arrived \cup {seq}
    BY <1>1 DEF PushPkts
  <2>2. UNCHANGED <<raw_ack, exited>> /\ (popper' = "send" => popper = "send")
    BY <1>1, <2>1 DEF PushPkts, PushStale, PushFits, PushOverflow, SignalFill
  <2>3. ASSUME NEW s \in DOMAIN nack_deq'
        PROVE  end_seq' - pkt_cnt' < s /\ s < end_seq'
    <3>1. CASE PushStale(seq)
      BY <3>1, <2>3 DEF PushStale, OnceInv
    <3>2. CASE PushFits(seq)
      <4>1. DOMAIN nack_deq' = DOMAIN nack_deq \cup (end_seq + 1 .. seq - 1)
        BY <3>2 DEF PushFits
      <4>2. end_seq' = seq /\ pkt_cnt' = pkt_cnt + (seq - end_seq) /\ seq > end_seq
        BY <3>2 DEF PushFits, NumPkts
      <4> QED
        BY <4>1, <4>2, <2>3 DEF OnceInv
    <3>3. CASE PushOverflow(seq)
      BY <3>3, <2>3 DEF PushOverflow, Restart
    <3> QED
      BY <2>1, <3>1, <3>2, <3>3
  <2> QED
    BY <2>2, <2>3 DEF OnceInv
<1>2. CASE PopSleep
  BY <1>2 DEF PopSleep, OnceInv
<1>3. CASE PopPktStatus
  <2>1. DOMAIN nack_deq \subseteq end_seq - pkt_cnt + 1 .. end_seq - 1
    BY DEF OnceInv
  <2>2. Cardinality(DOMAIN nack_deq) \in 0 .. ACK_WINDOW - 1
    <3> DEFINE lo == end_seq - pkt_cnt + 1
               hi == end_seq - 1
    <3>0. lo \in Int /\ hi \in Int
      OBVIOUS
    <3>1. /\ IsFiniteSet(lo .. hi)
          /\ Cardinality(lo .. hi) = IF lo > hi THEN 0 ELSE hi - lo + 1
      BY <3>0, FS_Interval
    <3>2. Cardinality(lo .. hi) < ACK_WINDOW
      BY <3>1 DEF LogInv
    <3>3. Cardinality(DOMAIN nack_deq) <= Cardinality(lo .. hi)
      BY <2>1, <3>1, FS_Subset
    <3>4. Cardinality(DOMAIN nack_deq) \in Nat /\ Cardinality(lo .. hi) \in Nat
      BY <2>1, <3>1, FS_Subset, FS_CardinalityType
    <3> QED
      BY <3>2, <3>3, <3>4
  <2>3. \A s \in DOMAIN nack_deq : nack_deq[s] + 1 = 1
    BY DEF DequeInv
  <2>4. DOMAIN nack_deq' = {}
    BY <1>3, <2>3 DEF PopPktStatus, Done, Reported
  <2>5. raw_ack'.nacks = DOMAIN nack_deq /\ UNCHANGED exited
    BY <1>3 DEF PopPktStatus
  <2> QED
    BY <2>2, <2>4, <2>5 DEF OnceInv
<1>4. CASE SendRawAck
  <2>1. /\ UNCHANGED <<end_seq, pkt_cnt, nack_deq>>
        /\ popper = "send" /\ popper' = "pop"
        /\ exited' = (Cardinality(raw_ack.nacks) >= ACK_WINDOW)
    BY <1>4 DEF SendRawAck, IsAckFull, PushNacks
  <2>2. ~ (Cardinality(raw_ack.nacks) >= ACK_WINDOW)
    BY <2>1 DEF OnceInv
  <2>3. ~exited'
    BY <2>1, <2>2
  <2> QED
    BY <2>1, <2>3 DEF OnceInv
<1>5. CASE UNCHANGED rawVars
  BY <1>5 DEF OnceInv, rawVars
<1> QED
  BY <1>1, <1>2, <1>3, <1>4, <1>5 DEF RawNext, Exited

\* max_send_cnt_ is set once.
LEMMA OptionConstant == [RawNext]_rawVars => UNCHANGED max_send_cnt
BY DEF RawNext, PushPkts, PopSleep, PopPktStatus, SendRawAck, Exited, rawVars

\* With the default max_send_cnt_ of 1, RxCreateRawAck always finds room in the
\* acknowledgement for the nacks that PopPktStatus returns.
THEOREM RawNacksFit == RawSpec => []RawNackFits
<1> DEFINE I == max_send_cnt = 1 => OnceInv
<1>1. RawInit => I
  BY DEF RawInit, OnceInv
<1>2. RawIInv /\ I /\ [RawNext]_rawVars => I'
  BY OnceStep, OptionConstant
<1>3. I => RawNackFits
  BY DEF OnceInv, RawNackFits
<1> QED
  BY RawInvariant, <1>1, <1>2, <1>3, PTL DEF RawSpec

-----------------------------------------------------------------------------
(***************************************************************************)
(* A hole that was reported n times lies within n + 1 windows of the last  *)
(* packet, which bounds the distances an acknowledgement must hold.        *)
(***************************************************************************)
SpanInv ==
    /\ IsFiniteSet(DOMAIN nack_deq)
    /\ \A s \in DOMAIN nack_deq :
           end_seq - pkt_cnt - nack_deq[s] * ACK_WINDOW < s /\ s < end_seq
    /\ IsFiniteSet(raw_ack.nacks)
    /\ \A s \in raw_ack.nacks :
           raw_ack.end_seq - max_send_cnt * ACK_WINDOW < s /\ s < raw_ack.end_seq

\* No step leaves an old hole in the queue without a report having counted it.
LEMMA SpanStep ==
    ASSUME RawIInv, SpanInv, [RawNext]_rawVars
    PROVE  SpanInv'
<1> USE RawAssumption, AckPktAssumption DEF RawIInv, RawTypeOK
<1>1. CASE PushPkts
  <2>1. PICK seq \in 1 .. MaxSeq : PushStale(seq) \/ PushFits(seq) \/ PushOverflow(seq)
    BY <1>1 DEF PushPkts
  <2>2. UNCHANGED <<max_send_cnt, raw_ack>>
    BY <1>1 DEF PushPkts
  <2>3. CASE PushStale(seq)
    BY <2>2, <2>3 DEF PushStale, SpanInv
  <2>4. CASE PushFits(seq)
    <3> DEFINE holes == end_seq + 1 .. seq - 1
    <3>1. /\ nack_deq' = [s \in DOMAIN nack_deq \cup holes |->
                             IF s \in DOMAIN nack_deq THEN nack_deq[s] ELSE 0]
          /\ end_seq' = seq /\ seq > end_seq /\ end_seq' - pkt_cnt' = end_seq - pkt_cnt
      BY <2>4 DEF PushFits, NumPkts
    <3>2. IsFiniteSet(holes)
      <4>1. end_seq + 1 \in Int /\ seq - 1 \in Int
        OBVIOUS
      <4> QED
        BY <4>1, FS_Interval
    <3>3. \A s \in holes : s \in Nat /\ end_seq < s /\ s < seq
      OBVIOUS
    <3> HIDE DEF holes
    <3>4. DOMAIN nack_deq' = DOMAIN nack_deq \cup holes
      BY <3>1
    <3>5. IsFiniteSet(DOMAIN nack_deq')
      <4>1. IsFiniteSet(DOMAIN nack_deq)
        BY DEF SpanInv
      <4>2. IsFiniteSet(DOMAIN nack_deq \cup holes)
        BY <3>2, <4>1, FS_Union
      <4> QED
        BY <3>4, <4>2
    <3>6. ASSUME NEW s \in DOMAIN nack_deq'
          PROVE  end_seq' - pkt_cnt' - nack_deq'[s] * ACK_WINDOW < s /\ s < end_seq'
      <4>1. CASE s \in DOMAIN nack_deq
        <5>1. nack_deq'[s] = nack_deq[s]
          BY <4>1, <3>1
        <5>2. end_seq - pkt_cnt - nack_deq[s] * ACK_WINDOW < s /\ s < end_seq
          BY <4>1 DEF SpanInv
        <5>3. nack_deq[s] * ACK_WINDOW \in Nat
          BY <4>1
        <5> QED
          BY <4>1, <5>1, <5>2, <5>3, <3>1
      <4>2. CASE s \notin DOMAIN nack_deq
        <5>1. nack_deq'[s] = 0 /\ 0 * ACK_WINDOW = 0
          BY <4>2, <3>1, <3>4
        <5>2. s \in holes
          BY <4>2, <3>4
        <5> QED
          BY <5>1, <5>2, <3>1, <3>3
      <4> QED
        BY <4>1, <4>2
    <3> QED
      BY <2>2, <3>5, <3>6 DEF SpanInv
  <2>5. CASE PushOverflow(seq)
    <3>1. DOMAIN nack_deq' = {}
      BY <2>5 DEF PushOverflow, Restart
    <3> QED
      BY <2>2, <3>1, FS_EmptySet DEF SpanInv
  <2> QED
    BY <2>1, <2>3, <2>4, <2>5
<1>2. CASE PopSleep
  BY <1>2 DEF PopSleep, SpanInv
<1>3. CASE PopPktStatus
  <2>1. /\ raw_ack'.nacks = DOMAIN nack_deq /\ raw_ack'.end_seq = end_seq
        /\ nack_deq' = [s \in DOMAIN nack_deq \ Done |-> Reported[s]]
        /\ UNCHANGED <<max_send_cnt, end_seq>> /\ pkt_cnt' = 0
    BY <1>3 DEF PopPktStatus, ResetCount
  <2>2. ASSUME NEW s \in DOMAIN nack_deq
        PROVE  /\ end_seq - (nack_deq[s] + 1) * ACK_WINDOW < s
               /\ end_seq - max_send_cnt * ACK_WINDOW < s
    <3>1. /\ nack_deq[s] \in Nat /\ nack_deq[s] < max_send_cnt
          /\ pkt_cnt <= ACK_WINDOW
          /\ end_seq - pkt_cnt - nack_deq[s] * ACK_WINDOW < s
      BY DEF SpanInv, DequeInv, LogInv
    <3>2. (nack_deq[s] + 1) * ACK_WINDOW = nack_deq[s] * ACK_WINDOW + ACK_WINDOW
      BY <3>1
    <3>3. (nack_deq[s] + 1) * ACK_WINDOW <= max_send_cnt * ACK_WINDOW
      BY <3>1
    <3>4. /\ nack_deq[s] * ACK_WINDOW \in Nat /\ max_send_cnt * ACK_WINDOW \in Nat
          /\ (nack_deq[s] + 1) * ACK_WINDOW \in Nat
      BY <3>1
    <3> DEFINE x == nack_deq[s] * ACK_WINDOW
               y == (nack_deq[s] + 1) * ACK_WINDOW
               z == max_send_cnt * ACK_WINDOW
    <3>5. x \in Nat /\ y = x + ACK_WINDOW /\ y \in Nat /\ y <= z /\ z \in Nat
      BY <3>2, <3>3, <3>4
    <3>6. end_seq - pkt_cnt - x < s
      BY <3>1
    <3> HIDE DEF x, y, z
    <3>7. end_seq - y < s /\ end_seq - z < s
      BY <3>1, <3>5, <3>6
    <3> QED
      BY <3>7 DEF y, z
  <2>3. IsFiniteSet(DOMAIN nack_deq')
    BY <2>1, FS_Subset DEF SpanInv
  <2>4. ASSUME NEW s \in DOMAIN nack_deq'
        PROVE  end_seq' - pkt_cnt' - nack_deq'[s] * ACK_WINDOW < s /\ s < end_seq'
    <3>1. s \in DOMAIN nack_deq /\ nack_deq'[s] = nack_deq[s] + 1
      BY <2>1 DEF Reported
    <3>2. s < end_seq
      BY <3>1 DEF SpanInv
    <3> QED
      BY <2>1, <2>2, <3>1, <3>2
  <2>5. \A s \in DOMAIN nack_deq : s < end_seq
    BY DEF SpanInv
  <2> QED
    BY <2>1, <2>2, <2>3, <2>4, <2>5 DEF SpanInv
<1>4. CASE SendRawAck
  BY <1>4 DEF SendRawAck, SpanInv
<1>5. CASE UNCHANGED rawVars
  BY <1>5 DEF rawVars, SpanInv
<1> QED
  BY <1>1, <1>2, <1>3, <1>4, <1>5 DEF RawNext, Exited

\* Whatever -A says, the controller reads from a raw acknowledgement the losses
\* that RxCreateRawAck put into it, as long as max_send_cnt_ windows fit in the
\* 16 bits of a relative sequence number.
THEOREM RawNacksParse == RawSpec => []RawNackParses
<1>1. RawInit => SpanInv
  <2>1. RawInit => DOMAIN nack_deq = {} /\ raw_ack.nacks = {}
    BY DEF RawInit
  <2> QED
    BY <2>1, FS_EmptySet DEF SpanInv
<1>2. RawIInv /\ SpanInv /\ [RawNext]_rawVars => SpanInv'
  BY SpanStep
<1>3. RawIInv /\ SpanInv => RawNackParses
  <2> SUFFICES ASSUME RawIInv, SpanInv, max_send_cnt * ACK_WINDOW <= REL_SIZE + 1
               PROVE  ParseNack(PushNacks(raw_ack.nacks)) = raw_ack.nacks
    BY DEF RawNackParses
  <2> USE RawAssumption, AckPktAssumption DEF RawIInv, RawTypeOK
  <2> DEFINE span == max_send_cnt * ACK_WINDOW
  <2>1. span \in Nat /\ raw_ack.end_seq \in Nat /\ raw_ack.nacks \in SUBSET Nat
    OBVIOUS
  <2>2. \A s \in raw_ack.nacks : raw_ack.end_seq - span < s /\ s < raw_ack.end_seq
    BY DEF SpanInv
  <2> HIDE DEF span
  <2>3. \A s, t \in raw_ack.nacks : s - t < REL_SIZE
    <3>1. span <= REL_SIZE + 1
      BY DEF span
    <3> QED
      BY <2>1, <2>2, <3>1
  <2> QED
    BY <2>1, <2>3, ParsePushed DEF SpanInv
<1> QED
  BY RawInvariant, <1>1, <1>2, <1>3, PTL DEF RawSpec
=============================================================================
