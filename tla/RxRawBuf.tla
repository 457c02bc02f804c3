------------------------------- MODULE RxRawBuf ------------------------------
(***************************************************************************)
(* RxRawBuf, the log of the raw packets of one radio, between RxRcvAth,    *)
(* which calls PushPkts for every good packet, and RxCreateRawAck, which   *)
(* calls PopPktStatus and sends what it returns to the controller.  Both   *)
(* methods hold the buffer's lock for their whole body, except while       *)
(* PopPktStatus sleeps, so each is one step.                               *)
(*                                                                         *)
(* nack_deq_ is filled in increasing order of sequence number, one entry   *)
(* per number: it is the function from those numbers to their send_cnt_.   *)
(***************************************************************************)
EXTENDS AckPkt

CONSTANTS
    MAX_SEND_CNT,   \* bound: option -A at most
    MIN_PKT_CNT,    \* min_pkt_cnt_: option -n, 30 by default
    MaxSeq          \* bound: largest raw sequence number sent

ASSUME RawAssumption ==
    /\ MAX_SEND_CNT \in 1 .. 255
    /\ MIN_PKT_CNT \in Nat \ {0}
    /\ MaxSeq \in Nat

VARIABLES
    max_send_cnt,\* max_send_cnt_: option -A, 1 by default
    end_seq,     \* end_seq_
    pkt_cnt,     \* pkt_cnt_
    nack_deq,    \* nack_deq_
    popper,      \* where RxCreateRawAck is: "pop", "sleep" or "send"
    raw_ack,     \* what the last PopPktStatus returned
    exited,      \* Perror() ended the process
    arrived,     \* history: raw packets that reached RxRcvAth
    acked        \* history: end_seq of the last acknowledgement before raw_ack

rawVars == <<max_send_cnt, end_seq, pkt_cnt, nack_deq, popper, raw_ack, exited, arrived,
             acked>>

\* The packets an acknowledgement with this end and this count speaks about.
Window(end, cnt) == end - cnt + 1 .. end

\* The option is set once, before the threads start.
RawInit ==
    /\ max_send_cnt \in 1 .. MAX_SEND_CNT
    /\ end_seq = 0
    /\ pkt_cnt = 0
    /\ nack_deq = [s \in {} |-> 0]
    /\ popper = "pop"
    /\ raw_ack = [end_seq |-> 0, num_pkts |-> 0, nacks |-> {}]
    /\ exited = FALSE
    /\ arrived = {}
    /\ acked = 0

Bug_SignalFill == UNCHANGED popper
SignalFill == popper' = IF popper = "sleep" THEN "pop" ELSE popper

\* A packet that is not ahead of the last one is ignored.
PushStale(seq) ==
    /\ seq <= end_seq
    /\ UNCHANGED <<end_seq, pkt_cnt, nack_deq, popper>>

\* How far ahead the packet is, and how far ahead it may be.
Bug_NumPkts(seq) == end_seq - seq
NumPkts(seq) == seq - end_seq
Bug_Room == ACK_WINDOW - pkt_cnt + 1
Room == ACK_WINDOW - pkt_cnt

\* The numbers skipped are holes.
PushFits(seq) ==
    /\ seq > end_seq
    /\ NumPkts(seq) <= Room
    /\ nack_deq' = [s \in DOMAIN nack_deq \cup (end_seq + 1 .. seq - 1) |->
                       IF s \in DOMAIN nack_deq THEN nack_deq[s] ELSE 0]
    /\ pkt_cnt' = pkt_cnt + NumPkts(seq)
    /\ end_seq' = seq
    /\ SignalFill

\* No room: the log starts again with this packet.
Bug_Restart == nack_deq' = [s \in {} |-> 0] /\ pkt_cnt' = ACK_WINDOW
Restart == nack_deq' = [s \in {} |-> 0] /\ pkt_cnt' = 1

PushOverflow(seq) ==
    /\ seq > end_seq
    /\ NumPkts(seq) > Room
    /\ Restart
    /\ end_seq' = seq
    /\ SignalFill

\* RxRcvAth got a packet of this radio for this client; is_cur_good is true.
PushPkts ==
    /\ ~exited
    /\ \E seq \in 1 .. MaxSeq :
        /\ PushStale(seq) \/ PushFits(seq) \/ PushOverflow(seq)
        /\ arrived' = arrived \cup {seq}
    /\ UNCHANGED <<max_send_cnt, raw_ack, exited, acked>>

PopSleep ==
    /\ ~exited
    /\ popper = "pop"
    /\ pkt_cnt < MIN_PKT_CNT
    /\ popper' = "sleep"
    /\ UNCHANGED <<max_send_cnt, end_seq, pkt_cnt, nack_deq, raw_ack, exited, arrived,
                   acked>>

\* How often each hole has been reported once this report is made, and the
\* leading entries of the queue that have been reported often enough.
Reported == [s \in DOMAIN nack_deq |-> nack_deq[s] + 1]
Done == {s \in DOMAIN nack_deq :
            \A t \in DOMAIN nack_deq : t <= s => Reported[t] = max_send_cnt}

Bug_ResetCount == UNCHANGED pkt_cnt
ResetCount == pkt_cnt' = 0

\* Report every hole, forget those that are done, and start a new count.
PopPktStatus ==
    /\ ~exited
    /\ popper = "pop"
    /\ pkt_cnt >= MIN_PKT_CNT
    /\ raw_ack' = [end_seq |-> end_seq, num_pkts |-> pkt_cnt, nacks |-> DOMAIN nack_deq]
    /\ acked' = raw_ack.end_seq
    /\ nack_deq' = [s \in DOMAIN nack_deq \ Done |-> Reported[s]]
    /\ ResetCount
    /\ popper' = "send"
    /\ UNCHANGED <<max_send_cnt, end_seq, exited, arrived>>

\* RxCreateRawAck copies the nacks into an AckPkt and exits when it is full.
SendRawAck ==
    /\ ~exited
    /\ popper = "send"
    /\ popper' = "pop"
    /\ exited' = IsAckFull(PushNacks(raw_ack.nacks))
    /\ UNCHANGED <<max_send_cnt, end_seq, pkt_cnt, nack_deq, raw_ack, arrived, acked>>

Exited == exited /\ UNCHANGED rawVars

RawNext == PushPkts \/ PopSleep \/ PopPktStatus \/ SendRawAck \/ Exited

RawSpec == RawInit /\ [][RawNext]_rawVars

\* RxCreateRawAck is scheduled; nothing obliges the base station to send.
RawFairSpec == RawSpec /\ WF_rawVars(PopSleep \/ PopPktStatus \/ SendRawAck)

-----------------------------------------------------------------------------
(* Properties *)

\* Types: in particular pkt_cnt_ stays within the room, so that kMaxBufSize - pkt_cnt_
\* in PushPkts, unsigned in the code, does not wrap; and no loss stays in the queue once
\* it was reported max_send_cnt_ times (the assertion of RxRawBuf::Print).
RawTypeOK ==
    /\ max_send_cnt \in 1 .. MAX_SEND_CNT
    /\ end_seq \in Nat
    /\ pkt_cnt \in 0 .. ACK_WINDOW
    /\ DOMAIN nack_deq \in SUBSET Nat
    /\ nack_deq \in [DOMAIN nack_deq -> 0 .. max_send_cnt - 1]
    /\ popper \in {"pop", "sleep", "send"}
    /\ raw_ack \in [end_seq : Nat, num_pkts : Nat, nacks : SUBSET Nat]
    /\ exited \in BOOLEAN
    /\ arrived \in SUBSET Nat
    /\ acked \in Nat

\* What PopPktStatus reports is true: of the num_pkts packets up to end_seq,
\* each one that is not nacked was received, whatever was lost, overflowed or
\* reported in between.
RawAckSound ==
    \A s \in Window(raw_ack.end_seq, raw_ack.num_pkts) :
        s \in raw_ack.nacks \/ s \in arrived

\* No packet is counted by two acknowledgements: the controller's loss ratio is
\* computed from num_pkts and the number of nacks.
RawAckNoOverlap == acked + raw_ack.num_pkts <= raw_ack.end_seq

\* With the default of one report per loss, RxCreateRawAck never meets
\* "Error: Raw nack full!".
RawNackFits == max_send_cnt = 1 => ~exited

\* The controller reads from the acknowledgement the losses that were put into
\* it, provided that the reports that mention a loss, less their last packet (which
\* arrived) and the first loss, span no more packets than a relative number counts.
RawNackParses ==
    max_send_cnt * ACK_WINDOW <= REL_SIZE + 1 =>
        ParseNack(PushNacks(raw_ack.nacks)) = raw_ack.nacks

\* RxCreateRawAck does not sleep on packets it should report: their count does not
\* stay at min_pkt_cnt_ for ever.  It may fall without a report, when a burst of
\* losses overflows the log before the thread has taken it.
RawReports == []<>(pkt_cnt < MIN_PKT_CNT \/ exited)
=============================================================================
