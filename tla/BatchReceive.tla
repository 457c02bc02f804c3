----------------------------- MODULE BatchReceive ----------------------------
(***************************************************************************)
(* RxRcvAth of one radio: coded packets arrive, in any order, twice or     *)
(* never; the native ones are handed to EnqueuePkt at once, the missing    *)
(* ones after k different packets have arrived and been decoded.           *)
(* RxCreateDataAck reads the BatchInfo at any time.                        *)
(*                                                                         *)
(* All packets of a batch carry the same k, n and start sequence number:   *)
(* the base station sets them once per batch, and ParseHeader asserts what *)
(* SetHeader does.  The thread's own batch_id equals that of the BatchInfo *)
(* and its start_seq is highest_decoded_seq + 1, once there is a batch.    *)
(***************************************************************************)
EXTENDS BatchInfo, CodeInfo, Sequences, FiniteSets

CONSTANTS
    MAX_BATCH_SIZE,   \* native packets in a batch, at most
    MaxBatch,         \* bound: batches sent
    MaxStart          \* bound: start_seq of a batch at most

ASSUME BatchAssumption ==
    /\ MAX_BATCH_SIZE \in 1 .. MAX_CODED
    /\ MaxBatch \in Nat
    /\ MaxStart \in Nat

VARIABLES
    pc,       \* where the thread is
    decoder,  \* decoder_ of the RadioContext
    ind,      \* coding_index_parse
    early,    \* early_decoding_inds, the first early_decoding_cnt of them
    i,        \* i, of the loop after decoding
    decoded,  \* decoding_done, the thread's own
    aborted,  \* an assertion failed
    arrived,  \* history: indices of the packets of this batch that arrived
    handed,   \* history: calls of EnqueuePkt for this batch
    last_seq  \* history: the sequence number of the last call

rcvVars == <<pc, decoder, ind, early, i, decoded, aborted, arrived, handed, last_seq>>
allVars == <<batchVars, rcvVars>>

ReceiveInit ==
    /\ BatchInit
    /\ pc = "receive"
    /\ decoder = NewDecoder
    /\ ind = 0
    /\ early = <<>>
    /\ i = 0
    /\ decoded = FALSE
    /\ aborted = FALSE
    /\ arrived = {}
    /\ handed = <<>>
    /\ last_seq = 0

At(label) == ~aborted /\ pc = label

\* PushPkt must succeed; a native packet is then handed over early.
Push(d, x) ==
    /\ ind' = x
    /\ decoder' = IF CanPush(d, x) THEN PushPkt(d, x) ELSE d
    /\ aborted' = ~CanPush(d, x)
    /\ pc' = IF x < d.k THEN "early" ELSE "check"

\* A retransmitted batch may start below the one before.
Bug_StartSeq(start) == start
StartSeq(start) == IF start > highest_decoded_seq THEN start ELSE highest_decoded_seq + 1

\* The first packet of a new batch.
NewBatch ==
    /\ At("receive")
    /\ \E b \in batch_id + 1 .. MaxBatch, k \in 1 .. MAX_BATCH_SIZE, n \in 1 .. MAX_CODED,
          start \in 1 .. MaxStart :
        /\ k <= n
        /\ SetBatchInfo(b, StartSeq(start) - 1)
        /\ \E x \in 0 .. n - 1 :
            /\ Push(SetCodeInfo(ClearInfo(decoder), k, n, start), x)
            /\ arrived' = {x}
    /\ decoded' = FALSE
    /\ early' = <<>>
    /\ handed' = <<>>
    /\ UNCHANGED <<i, last_seq>>

\* Is another packet of this batch of use?
Bug_IsUseful(x) == ~decoded
IsUseful(x) == ~decoded /\ ~IsIndExist(decoder, x)

UsefulPkt ==
    /\ At("receive")
    /\ batch_id > 0
    /\ UpdateTimeLeft
    /\ \E x \in 0 .. decoder.n - 1 :
        /\ IsUseful(x)
        /\ Push(decoder, x)
        /\ arrived' = arrived \cup {x}
    /\ UNCHANGED <<early, i, decoded, handed, last_seq>>

\* One that came before still says how much of the batch is left to come.
RepeatedPkt ==
    /\ At("receive")
    /\ batch_id > 0
    /\ ~decoded
    /\ \E x \in 0 .. decoder.n - 1 : ~IsUseful(x)
    /\ UpdateTimeLeft
    /\ UNCHANGED rcvVars

\* Packets of an older batch, or of one that is decoded, change nothing.
IgnoredPkt ==
    /\ At("receive")
    /\ batch_id > 1 \/ decoded
    /\ UNCHANGED allVars

\* The call of EnqueuePkt with packet pkt of the batch and the length of packet len.
EnqueuePkt(x, pkt, len) ==
    /\ handed' = Append(handed, [seq |-> decoder.start_seq + x, pkt |-> pkt, len |-> len])
    /\ last_seq' = decoder.start_seq + x

EarlyEnqueue ==
    /\ At("early")
    /\ EnqueuePkt(ind, ind, ind)
    /\ early' = Append(early, ind)
    /\ pc' = "check"
    /\ UNCHANGED <<batchVars, decoder, ind, i, decoded, aborted, arrived>>

\* Have k different packets arrived, and are they all native?
Bug_HaveEnough == decoder.cur_ind > decoder.k
HaveEnough == decoder.cur_ind >= decoder.k
AllNative == Len(early) = decoder.k

NotYet ==
    /\ At("check")
    /\ ~HaveEnough
    /\ pc' = "receive"
    /\ UNCHANGED <<batchVars, decoder, ind, early, i, decoded, aborted, arrived,
                   handed, last_seq>>

NothingToDecode ==
    /\ At("check")
    /\ HaveEnough
    /\ AllNative
    /\ pc' = "finish"
    /\ UNCHANGED <<batchVars, decoder, ind, early, i, decoded, aborted, arrived,
                   handed, last_seq>>

Decode ==
    /\ At("check")
    /\ HaveEnough
    /\ ~AllNative
    /\ decoder' = DecodeBatch(decoder)
    /\ i' = 0
    /\ pc' = "late"
    /\ UNCHANGED <<batchVars, ind, early, decoded, aborted, arrived, handed, last_seq>>

\* Was native packet x handed over early?
Bug_IsEarly(x) == x < Len(early)
IsEarly(x) == \E j \in DOMAIN early : early[j] = x

\* The loop over the native packets has more to do.
Bug_InLoop == i <= decoder.k
InLoop == i < decoder.k

LateEnqueue ==
    /\ At("late")
    /\ InLoop
    /\ ~IsEarly(i)
    /\ IF CanPop(decoder)
       THEN LET p == PopPkt(decoder) IN
            /\ EnqueuePkt(i, p.pkt, p.len)
            /\ decoder' = MoveToNextPkt(decoder)
            /\ UNCHANGED aborted
       ELSE aborted' = TRUE /\ UNCHANGED <<handed, last_seq, decoder>>
    /\ i' = i + 1
    /\ UNCHANGED <<batchVars, pc, ind, early, decoded, arrived>>

LateSkip ==
    /\ At("late")
    /\ InLoop
    /\ IsEarly(i)
    /\ decoder' = MoveToNextPkt(decoder)
    /\ i' = i + 1
    /\ UNCHANGED <<batchVars, pc, ind, early, decoded, aborted, arrived,
                   handed, last_seq>>

LateEnd ==
    /\ At("late")
    /\ ~InLoop
    /\ pc' = "finish"
    /\ UNCHANGED <<batchVars, decoder, ind, early, i, decoded, aborted, arrived,
                   handed, last_seq>>

Finish ==
    /\ At("finish")
    /\ decoded' = TRUE
    /\ SetDecodingDone
    /\ pc' = "receive"
    /\ UNCHANGED <<decoder, ind, early, i, aborted, arrived, handed, last_seq>>

\* The clock, and RxCreateDataAck.
OthersStep == (TimeOut \/ GetBatchInfo) /\ UNCHANGED rcvVars

ReceiveNext ==
    \/ NewBatch \/ UsefulPkt \/ RepeatedPkt \/ IgnoredPkt
    \/ EarlyEnqueue \/ NotYet \/ NothingToDecode \/ Decode
    \/ LateEnqueue \/ LateSkip \/ LateEnd \/ Finish
    \/ OthersStep

ReceiveSpec == ReceiveInit /\ [][ReceiveNext]_allVars

-----------------------------------------------------------------------------
(* Properties *)

\* Types: the counters of the decoder and of the loop stay within their arrays.
ReceiveTypeOK ==
    /\ BatchTypeOK
    /\ pc \in {"receive", "early", "check", "late", "finish"}
    /\ decoder \in [k : 0 .. MAX_BATCH_SIZE, n : 0 .. MAX_CODED, start_seq : Nat,
                    cur_ind : 0 .. MAX_CODED,
                    inds : [Rows -> Rows], pkts : [Rows -> Rows \cup {NoPkt}]]
    /\ ind \in Rows
    /\ early \in Seq(Rows) /\ Len(early) <= MAX_BATCH_SIZE
    /\ i \in 0 .. MAX_BATCH_SIZE
    /\ decoded \in BOOLEAN
    /\ aborted \in BOOLEAN
    /\ arrived \subseteq Rows
    /\ handed \in Seq([seq : Nat, pkt : Rows \cup {NoPkt}, len : Nat])
    /\ last_seq \in Nat

\* The assertions on PushPkt and PopPkt hold, in whatever order, however often
\* and however few of the packets of a batch arrive.
AssertsHold == ~aborted

\* Every packet handed to EnqueuePkt, early or after decoding, is the native
\* packet of its sequence number, with that packet's length, and none is handed
\* over twice.
HandedRight ==
    /\ \A a \in DOMAIN handed :
          /\ handed[a].pkt \in 0 .. decoder.k - 1
          /\ handed[a].seq = decoder.start_seq + handed[a].pkt
          /\ handed[a].len = handed[a].pkt
    /\ \A a, b \in DOMAIN handed : handed[a].seq = handed[b].seq => a = b

\* Any k different packets of a batch are enough to declare it decoded, and before
\* that a native packet never waits for the others ("It benefits most under
\* partial decoding failure").
AnyKSuffice ==
    pc = "receive" /\ ~aborted =>
        IF Cardinality(arrived) >= decoder.k /\ batch_id > 0
        THEN decoded
        ELSE \A x \in arrived : x < decoder.k => \E a \in DOMAIN handed : handed[a].pkt = x

\* The batch is declared decoded only when every sequence number of it has been
\* handed over: from then on RxCreateDataAck takes what is missing for lost.
DecodedIsHanded ==
    decoded => \A x \in 0 .. decoder.k - 1 :
                   \E a \in DOMAIN handed : handed[a].seq = decoder.start_seq + x

\* RxRcvAth drives the radio as BatchStream says.
Stream == INSTANCE BatchStream
StreamSpec == Stream!StreamSpec
=============================================================================
