-------------------------- MODULE BatchReceiveProofs -------------------------
(***************************************************************************)
(* RxRcvAth for every MAX_CODED, MAX_BATCH_SIZE, MaxBatch and MaxStart:    *)
(* its assertions hold, any k packets of a batch are enough, each packet   *)
(* is handed over once and as the one it is, a batch is declared decoded   *)
(* only when all of it was handed over, it drives the radio as BatchStream *)
(* says, and the matrix arithmetic of fec.cc does what CodeInfo takes for  *)
(* granted.                                                                *)
(*                                                                         *)
(* The order in which the packets are counted and handed over does not     *)
(* depend on what Shuffle computes: Control and Handing come first;        *)
(* Correct, on which packet each of them is, rests on ShuffleRight; and    *)
(* what Correct says of the decoder is what AnyKPacketsDecode (FecProofs)  *)
(* asks of the packets.                                                    *)
(***************************************************************************)
EXTENDS BatchDecode, FecProofs

\* The fields of the decoder that count, whatever its arrays hold.
DecoderOK(d) ==
    \E I, P : d \in [k : 0 .. MAX_BATCH_SIZE, n : 0 .. MAX_CODED, start_seq : Nat,
                     cur_ind : Nat, inds : I, pkts : P]

CountersOK ==
    /\ BatchTypeOK
    /\ pc \in {"receive", "early", "check", "late", "finish"}
    /\ DecoderOK(decoder)
    /\ ind \in Nat
    /\ i \in Nat
    /\ decoded \in BOOLEAN
    /\ last_seq \in Nat

\* The batch the decoder was set up for is the one announced.
BatchOK ==
    /\ batch_id = 0 => pc = "receive" /\ ~decoded
    /\ batch_id > 0 => /\ decoder.k > 0
                       /\ decoder.k <= decoder.n
                       /\ decoder.start_seq \in 1 .. highest_decoded_seq + 1
    /\ pc # "receive" => ~decoded
    /\ pc = "early" => ind < decoder.k

\* How many packets the decoder holds, or has given out, at each place.
CountOK ==
    /\ pc = "receive" /\ batch_id > 0 /\ ~decoded => decoder.cur_ind < decoder.k
    /\ pc \in {"early", "check"} => decoder.cur_ind <= decoder.k
    /\ pc = "late" => decoder.cur_ind = i /\ i <= decoder.k
    /\ aborted = FALSE

Control == CountersOK /\ BatchOK /\ CountOK

\* The inductive invariant of the control before anything arrived.
LEMMA ControlInit == ReceiveInit => Control
<1> SUFFICES ASSUME ReceiveInit PROVE Control
  OBVIOUS
<1>1. decoder = NewDecoder
  BY DEF ReceiveInit
<1>2. DecoderOK(decoder)
  <2>1. decoder \in [k : 0 .. MAX_BATCH_SIZE, n : 0 .. MAX_CODED, start_seq : Nat,
                     cur_ind : Nat, inds : {decoder.inds}, pkts : {decoder.pkts}]
    BY <1>1, BatchAssumption, CodeInfoAssumption DEF NewDecoder
  <2> QED
    BY <2>1 DEF DecoderOK
<1>3. CountersOK
  BY <1>2 DEF ReceiveInit, BatchInit, CountersOK, BatchTypeOK
<1>4. BatchOK /\ CountOK
  BY DEF ReceiveInit, BatchInit, BatchOK, CountOK
<1> QED
  BY <1>3, <1>4 DEF Control

\* PushPkt changes only the count and the arrays.
LEMMA PushedOK ==
    ASSUME NEW d, DecoderOK(d), NEW x \in Nat
    PROVE  /\ DecoderOK(PushPkt(d, x))
           /\ PushPkt(d, x).k = d.k
           /\ PushPkt(d, x).n = d.n
           /\ PushPkt(d, x).start_seq = d.start_seq
           /\ PushPkt(d, x).cur_ind = d.cur_ind + 1
<1> DEFINE inds == [d.inds EXCEPT ![d.cur_ind] = x]
           pkts == [d.pkts EXCEPT ![d.cur_ind] = x]
<1>1. PushPkt(d, x) = [d EXCEPT !.inds = inds, !.pkts = pkts, !.cur_ind = @ + 1]
  BY DEF PushPkt
<1> HIDE DEF inds, pkts
<1>2. PICK I, P : d \in [k : 0 .. MAX_BATCH_SIZE, n : 0 .. MAX_CODED, start_seq : Nat,
                        cur_ind : Nat, inds : I, pkts : P]
  BY DEF DecoderOK
<1>3. PushPkt(d, x) = [k |-> d.k, n |-> d.n, start_seq |-> d.start_seq,
                       cur_ind |-> d.cur_ind + 1, inds |-> inds, pkts |-> pkts]
  BY <1>1, <1>2
<1>4. PushPkt(d, x) \in [k : 0 .. MAX_BATCH_SIZE, n : 0 .. MAX_CODED, start_seq : Nat,
                         cur_ind : Nat, inds : {inds}, pkts : {pkts}]
  BY <1>2, <1>3
<1>5. DecoderOK(PushPkt(d, x))
  BY <1>4 DEF DecoderOK
<1> QED
  BY <1>3, <1>5

\* MoveToNextPkt changes only the count.
LEMMA MovedOK ==
    ASSUME NEW d, DecoderOK(d)
    PROVE  /\ DecoderOK(MoveToNextPkt(d))
           /\ MoveToNextPkt(d).k = d.k
           /\ MoveToNextPkt(d).n = d.n
           /\ MoveToNextPkt(d).start_seq = d.start_seq
           /\ MoveToNextPkt(d).cur_ind = d.cur_ind + 1
BY DEF DecoderOK, MoveToNextPkt

\* DecodeBatch changes only the arrays, and resets the count.
LEMMA DecodedOK ==
    ASSUME NEW d, DecoderOK(d)
    PROVE  /\ DecoderOK(DecodeBatch(d))
           /\ DecodeBatch(d).k = d.k
           /\ DecodeBatch(d).n = d.n
           /\ DecodeBatch(d).start_seq = d.start_seq
           /\ DecodeBatch(d).cur_ind = 0
<1> DEFINE s == Shuffle(d)
           pkts == IF ~s.failed /\ IsInvertible(s.inds, d.k) THEN Recover(s, d.k) ELSE s.pkts
<1>1. DecodeBatch(d) = [d EXCEPT !.inds = s.inds, !.pkts = pkts, !.cur_ind = 0]
  BY DEF DecodeBatch
<1> HIDE DEF s, pkts
<1>2. PICK I, P : d \in [k : 0 .. MAX_BATCH_SIZE, n : 0 .. MAX_CODED, start_seq : Nat,
                        cur_ind : Nat, inds : I, pkts : P]
  BY DEF DecoderOK
<1>3. DecodeBatch(d) = [k |-> d.k, n |-> d.n, start_seq |-> d.start_seq,
                        cur_ind |-> 0, inds |-> s.inds, pkts |-> pkts]
  BY <1>1, <1>2
<1>4. DecodeBatch(d) \in [k : 0 .. MAX_BATCH_SIZE, n : 0 .. MAX_CODED, start_seq : Nat,
                          cur_ind : Nat, inds : {s.inds}, pkts : {pkts}]
  BY <1>2, <1>3
<1>5. DecoderOK(DecodeBatch(d))
  BY <1>4 DEF DecoderOK
<1> QED
  BY <1>3, <1>5

\* The decoder of a new batch.
LEMMA NewDecoderOK ==
    ASSUME NEW k \in 0 .. MAX_BATCH_SIZE, NEW n \in 0 .. MAX_CODED, NEW start \in Nat, NEW d
    PROVE  LET e == SetCodeInfo(ClearInfo(d), k, n, start)
           IN  DecoderOK(e) /\ e.k = k /\ e.n = n /\ e.start_seq = start /\ e.cur_ind = 0
<1> DEFINE c == ClearInfo(d)
           e == SetCodeInfo(c, k, n, start)
           zeros == [r \in Rows |-> 0]
           blank == [r \in Rows |-> NoPkt]
<1>0. c = [k |-> 0, n |-> 0, start_seq |-> 0, cur_ind |-> 0, inds |-> zeros,
           pkts |-> blank]
  BY DEF ClearInfo, NewDecoder
<1> HIDE DEF c, zeros, blank
<1>1. e = [k |-> k, n |-> n, start_seq |-> start, cur_ind |-> 0, inds |-> zeros,
           pkts |-> blank]
  <2>1. c \in [k : {0}, n : {0}, start_seq : {0}, cur_ind : {0}, inds : {zeros},
               pkts : {blank}]
    BY <1>0
  <2>2. e = [c EXCEPT !.k = k, !.n = n, !.start_seq = start]
    BY DEF SetCodeInfo
  <2> QED
    BY <2>1, <2>2
<1> HIDE DEF e
<1>2. e \in [k : 0 .. MAX_BATCH_SIZE, n : 0 .. MAX_CODED, start_seq : Nat,
             cur_ind : Nat, inds : {zeros}, pkts : {blank}]
  BY <1>1
<1>3. DecoderOK(e)
  BY <1>2 DEF DecoderOK
<1> QED
  BY <1>1, <1>3 DEF c, e

\* A new batch is announced with numbers that never go back, and there is room
\* for its first packet.
LEMMA NewBatchControl ==
    ASSUME Control, NewBatch
    PROVE  Control' /\ batch_id' > batch_id /\ highest_decoded_seq' >= highest_decoded_seq
<1> USE BatchAssumption, CodeInfoAssumption DEF Control, CountersOK
<1>1. PICK b \in batch_id + 1 .. MaxBatch, k \in 1 .. MAX_BATCH_SIZE,
           n \in 1 .. MAX_CODED, start \in 1 .. MaxStart :
        /\ k <= n
        /\ SetBatchInfo(b, StartSeq(start) - 1)
        /\ \E x \in 0 .. n - 1 :
            /\ Push(SetCodeInfo(ClearInfo(decoder), k, n, start), x)
            /\ arrived' = {x}
  BY DEF NewBatch
<1>2. PICK x \in 0 .. n - 1 : Push(SetCodeInfo(ClearInfo(decoder), k, n, start), x)
  BY <1>1
<1> DEFINE e == SetCodeInfo(ClearInfo(decoder), k, n, start)
<1>3. DecoderOK(e) /\ e.k = k /\ e.n = n /\ e.start_seq = start /\ e.cur_ind = 0
  BY NewDecoderOK
<1> HIDE DEF e
<1>4. CanPush(e, x)
  BY <1>3 DEF CanPush
<1>5. /\ decoder' = PushPkt(e, x) /\ ind' = x /\ aborted' = FALSE
      /\ pc' = IF x < k THEN "early" ELSE "check"
  BY <1>2, <1>3, <1>4 DEF Push, e
<1>6. /\ DecoderOK(decoder') /\ decoder'.k = k /\ decoder'.n = n
      /\ decoder'.start_seq = start /\ decoder'.cur_ind = 1
  <2>1. x \in Nat
    OBVIOUS
  <2>2. /\ DecoderOK(PushPkt(e, x))
        /\ PushPkt(e, x).k = e.k /\ PushPkt(e, x).n = e.n
        /\ PushPkt(e, x).start_seq = e.start_seq
        /\ PushPkt(e, x).cur_ind = e.cur_ind + 1
    BY <1>3, <2>1, PushedOK
  <2> QED
    BY <1>3, <1>5, <2>2
<1>7. /\ StartSeq(start) \in Nat /\ StartSeq(start) >= start
      /\ StartSeq(start) > highest_decoded_seq
  BY DEF StartSeq, BatchTypeOK
<1>8. /\ batch_id' = b /\ highest_decoded_seq' = StartSeq(start) - 1
      /\ decoding_done' = FALSE /\ time_out' = FALSE
  BY <1>1 DEF SetBatchInfo
<1>9. batch_id \in Nat /\ b \in Nat /\ b > batch_id /\ highest_decoded_seq \in Nat
  BY DEF BatchTypeOK
<1>10. decoded' = FALSE /\ UNCHANGED <<i, last_seq>>
  BY DEF NewBatch
<1>11. CountersOK'
  <2>1. BatchTypeOK'
    <3>1. StartSeq(start) - 1 \in Nat
      BY <1>7
    <3>2. FALSE \in BOOLEAN
      OBVIOUS
    <3> QED
      BY <1>8, <1>9, <3>1, <3>2, Zenon DEF BatchTypeOK
  <2>2. pc' \in {"receive", "early", "check", "late", "finish"} /\ ind' \in Nat
    BY <1>5
  <2> QED
    BY <1>6, <1>10, <2>1, <2>2
<1>12. BatchOK'
  BY <1>1, <1>5, <1>6, <1>7, <1>8, <1>9, <1>10 DEF BatchOK
<1>13. CountOK'
  BY <1>5, <1>6 DEF CountOK
<1> QED
  BY <1>7, <1>8, <1>9, <1>11, <1>12, <1>13

\* There is room for every useful packet.
LEMMA UsefulPktControl ==
    ASSUME Control, UsefulPkt
    PROVE  Control'
<1> USE BatchAssumption, CodeInfoAssumption DEF Control, CountersOK
<1>1. PICK x \in 0 .. decoder.n - 1 : IsUseful(x) /\ Push(decoder, x)
  BY DEF UsefulPkt
<1>2. pc = "receive" /\ batch_id > 0 /\ ~decoded
  BY <1>1 DEF UsefulPkt, At, IsUseful
<1>3. decoder.cur_ind < decoder.k /\ decoder.k <= decoder.n
  BY <1>2 DEF CountOK, BatchOK
<1>4. CanPush(decoder, x)
  BY <1>3 DEF CanPush, DecoderOK
<1>5. /\ decoder' = PushPkt(decoder, x) /\ ind' = x /\ aborted' = FALSE
      /\ pc' = IF x < decoder.k THEN "early" ELSE "check"
  BY <1>1, <1>4 DEF Push
<1>6. /\ DecoderOK(decoder') /\ decoder'.k = decoder.k /\ decoder'.n = decoder.n
      /\ decoder'.start_seq = decoder.start_seq /\ decoder'.cur_ind = decoder.cur_ind + 1
  BY <1>5, PushedOK
<1>7. /\ UNCHANGED <<batch_id, highest_decoded_seq, decoding_done, i, decoded, last_seq>>
      /\ time_out' = FALSE
  BY DEF UsefulPkt, UpdateTimeLeft
<1>8. decoder.cur_ind \in Nat /\ decoder.k \in Nat /\ x \in Nat
  BY DEF DecoderOK
<1>9. CountersOK'
  BY <1>5, <1>6, <1>7, <1>8 DEF BatchTypeOK
<1>10. BatchOK'
  BY <1>2, <1>5, <1>6, <1>7 DEF BatchOK
<1>11. CountOK'
  BY <1>3, <1>5, <1>6, <1>8 DEF CountOK
<1> QED
  BY <1>9, <1>10, <1>11

\* The steps after decoding: the loop takes one packet from the decoder at a time.
LEMMA LateControl ==
    ASSUME Control, LateEnqueue \/ LateSkip
    PROVE  /\ Control'
           /\ \/ last_seq' = last_seq
              \/ batch_id > 0 /\ last_seq' = decoder.start_seq + i /\ i < decoder.k
           /\ decoder' = MoveToNextPkt(decoder)
           /\ UNCHANGED batchVars
<1> USE BatchAssumption, CodeInfoAssumption DEF Control, CountersOK
<1>1. pc = "late" /\ i < decoder.k
  BY DEF LateEnqueue, LateSkip, At, InLoop
<1>2. decoder.cur_ind = i /\ batch_id > 0 /\ decoder.k \in Nat
  <2>1. decoder.cur_ind = i
    BY <1>1 DEF CountOK
  <2>2. batch_id > 0
    BY <1>1 DEF BatchOK, BatchTypeOK
  <2> QED
    BY <2>1, <2>2 DEF DecoderOK
<1>3. CanPop(decoder)
  BY <1>1, <1>2 DEF CanPop
<1>4. /\ decoder' = MoveToNextPkt(decoder) /\ i' = i + 1
      /\ UNCHANGED <<batchVars, pc, ind, early, decoded, aborted>>
      /\ \/ last_seq' = last_seq
         \/ last_seq' = decoder.start_seq + i
  BY <1>3 DEF LateEnqueue, LateSkip, EnqueuePkt
<1>5. /\ DecoderOK(decoder') /\ decoder'.k = decoder.k /\ decoder'.n = decoder.n
      /\ decoder'.start_seq = decoder.start_seq /\ decoder'.cur_ind = decoder.cur_ind + 1
  BY <1>4, MovedOK
<1>6. decoder.start_seq \in Nat
  BY DEF DecoderOK
<1>7. CountersOK'
  <2>1. BatchTypeOK' /\ ind' \in Nat /\ decoded' \in BOOLEAN /\ pc' = "late"
    BY <1>1, <1>4 DEF BatchTypeOK, batchVars
  <2>2. i' \in Nat /\ last_seq' \in Nat
    BY <1>4, <1>6
  <2> QED
    BY <1>5, <2>1, <2>2
<1>8. BatchOK'
  BY <1>1, <1>4, <1>5 DEF BatchOK, batchVars
<1>9. CountOK'
  BY <1>1, <1>2, <1>4, <1>5 DEF CountOK
<1> QED
  BY <1>1, <1>2, <1>4, <1>7, <1>8, <1>9

\* Decoding starts with as many packets as are needed, and gives out none yet.
LEMMA DecodeControl ==
    ASSUME Control, Decode
    PROVE  Control'
<1> USE BatchAssumption, CodeInfoAssumption DEF Control, CountersOK
<1>1. /\ pc = "check" /\ pc' = "late" /\ i' = 0 /\ decoder' = DecodeBatch(decoder)
      /\ UNCHANGED <<batchVars, ind, decoded, aborted, last_seq>>
  BY DEF Decode, At
<1>2. /\ DecoderOK(decoder') /\ decoder'.k = decoder.k /\ decoder'.n = decoder.n
      /\ decoder'.start_seq = decoder.start_seq /\ decoder'.cur_ind = 0
  BY <1>1, DecodedOK
<1>3. decoder.k \in Nat
  BY DEF DecoderOK
<1>4. CountersOK'
  BY <1>1, <1>2 DEF BatchTypeOK, batchVars
<1>5. BatchOK'
  BY <1>1, <1>2 DEF BatchOK, batchVars
<1>6. CountOK'
  BY <1>1, <1>2, <1>3 DEF CountOK
<1> QED
  BY <1>4, <1>5, <1>6

\* The steps that leave the decoder alone.
LEMMA OtherControl ==
    ASSUME Control,
           \/ RepeatedPkt \/ IgnoredPkt \/ EarlyEnqueue \/ NotYet \/ NothingToDecode
           \/ LateEnd \/ Finish \/ OthersStep \/ UNCHANGED allVars
    PROVE  Control'
<1> USE BatchAssumption, CodeInfoAssumption DEF Control, CountersOK
<1>0. decoder.k \in Nat /\ decoder.cur_ind \in Nat /\ decoder.start_seq \in Nat
  BY DEF DecoderOK
<1>1. CASE RepeatedPkt
  <2>1. UNCHANGED rcvVars /\ time_out' = FALSE
        /\ UNCHANGED <<batch_id, highest_decoded_seq, decoding_done>>
    BY <1>1 DEF RepeatedPkt, UpdateTimeLeft
  <2> QED
    BY <2>1 DEF rcvVars, BatchTypeOK, BatchOK, CountOK
<1>2. CASE IgnoredPkt
  BY <1>2 DEF IgnoredPkt, allVars, rcvVars, batchVars, BatchTypeOK, BatchOK, CountOK
<1>3. CASE EarlyEnqueue
  <2>1. /\ pc = "early" /\ pc' = "check" /\ last_seq' = decoder.start_seq + ind
        /\ UNCHANGED <<batchVars, decoder, ind, i, decoded, aborted>>
    BY <1>3 DEF EarlyEnqueue, EnqueuePkt, At
  <2> QED
    BY <1>0, <2>1 DEF batchVars, BatchTypeOK, BatchOK, CountOK
<1>4. CASE NotYet
  <2>1. /\ pc = "check" /\ pc' = "receive" /\ ~ (decoder.cur_ind >= decoder.k)
        /\ UNCHANGED <<batchVars, decoder, ind, i, decoded, aborted, last_seq>>
    BY <1>4 DEF NotYet, HaveEnough, At
  <2> QED
    BY <1>0, <2>1 DEF batchVars, BatchTypeOK, BatchOK, CountOK
<1>5. CASE NothingToDecode \/ LateEnd
  <2>1. /\ pc \in {"check", "late"} /\ pc' = "finish"
        /\ UNCHANGED <<batchVars, decoder, ind, i, decoded, aborted, last_seq>>
    BY <1>5 DEF NothingToDecode, LateEnd, At
  <2> QED
    BY <2>1 DEF batchVars, BatchTypeOK, BatchOK, CountOK
<1>6. CASE Finish
  <2>1. /\ pc = "finish" /\ pc' = "receive" /\ decoded' = TRUE /\ decoding_done' = TRUE
        /\ UNCHANGED <<batch_id, highest_decoded_seq, time_out, decoder, ind, i, aborted,
                       last_seq>>
    BY <1>6 DEF Finish, SetDecodingDone, At
  <2>2. batch_id > 0
    BY <2>1 DEF BatchOK, BatchTypeOK
  <2> QED
    BY <2>1, <2>2 DEF BatchTypeOK, BatchOK, CountOK
<1>7. CASE OthersStep
  <2>1. UNCHANGED rcvVars /\ UNCHANGED <<batch_id, highest_decoded_seq>>
    BY <1>7 DEF OthersStep, TimeOut, GetBatchInfo
  <2>2. decoding_done' \in BOOLEAN /\ time_out' \in BOOLEAN
    BY <1>7 DEF OthersStep, TimeOut, GetBatchInfo, DecodingDone, BatchTypeOK
  <2> QED
    BY <2>1, <2>2 DEF rcvVars, BatchTypeOK, BatchOK, CountOK
<1>8. CASE UNCHANGED allVars
  BY <1>8 DEF allVars, rcvVars, batchVars, BatchTypeOK, BatchOK, CountOK
<1> QED
  BY <1>1, <1>2, <1>3, <1>4, <1>5, <1>6, <1>7, <1>8

\* Every step keeps the invariant of the control.
LEMMA ControlStep == Control /\ [ReceiveNext]_allVars => Control'
BY NewBatchControl, UsefulPktControl, LateControl, DecodeControl, OtherControl
   DEF ReceiveNext

\* The invariant of the control of RxRcvAth holds in every state.
THEOREM ControlInvariant == ReceiveSpec => []Control
BY ControlInit, ControlStep, PTL DEF ReceiveSpec

\* The assertions of RxRcvAth on PushPkt and PopPkt hold: there is always room for
\* a packet that is new to the decoder, and a packet for every late one.
THEOREM ReceiveAsserts == ReceiveSpec => []AssertsHold
<1>1. Control => AssertsHold
  BY DEF Control, CountOK, AssertsHold
<1> QED
  BY ControlInvariant, <1>1, PTL

-----------------------------------------------------------------------------
(***************************************************************************)
(* RxRcvAth implements BatchStream.                                        *)
(***************************************************************************)

\* Every step of RxRcvAth is one of BatchStream, or invisible there.
LEMMA StreamStep ==
    ASSUME Control, [ReceiveNext]_allVars
    PROVE  [Stream!StreamNext]_(Stream!streamVars)
<1> USE BatchAssumption, CodeInfoAssumption DEF Control, CountersOK
<1>0. /\ batch_id \in Nat /\ highest_decoded_seq \in Nat
      /\ decoder.k \in 0 .. MAX_BATCH_SIZE /\ decoder.start_seq \in Nat
  BY DEF BatchTypeOK, DecoderOK
<1>1. CASE NewBatch
  <2>1. batch_id' > batch_id /\ highest_decoded_seq' >= highest_decoded_seq
    BY <1>1, NewBatchControl
  <2>2. decoding_done' = FALSE /\ time_out' = FALSE /\ UNCHANGED last_seq
    BY <1>1 DEF NewBatch, SetBatchInfo
  <2> QED
    BY <2>1, <2>2 DEF Stream!StreamNext, Stream!AnnounceBatch, Stream!SetBatchInfo
<1>2. CASE UsefulPkt \/ RepeatedPkt
  BY <1>2 DEF UsefulPkt, RepeatedPkt, rcvVars, UpdateTimeLeft, Stream!StreamNext,
     Stream!ReceivePacket, Stream!UpdateTimeLeft
<1>3. CASE EarlyEnqueue
  <2>1. /\ pc = "early" /\ last_seq' = decoder.start_seq + ind /\ UNCHANGED batchVars
    BY <1>3 DEF EarlyEnqueue, EnqueuePkt, At
  <2>2. /\ batch_id > 0 /\ ind < decoder.k
        /\ decoder.start_seq \in 1 .. highest_decoded_seq + 1
    BY <1>0, <2>1 DEF BatchOK
  <2>3. last_seq' \in 1 .. highest_decoded_seq + MAX_BATCH_SIZE
    BY <1>0, <2>1, <2>2
  <2> QED
    BY <2>1, <2>2, <2>3 DEF Stream!StreamNext, Stream!HandOver, batchVars, Stream!batchVars
<1>4. CASE LateEnqueue \/ LateSkip
  <2>1. /\ UNCHANGED batchVars
        /\ \/ last_seq' = last_seq
           \/ batch_id > 0 /\ last_seq' = decoder.start_seq + i /\ i < decoder.k
    BY <1>4, LateControl
  <2>2. CASE last_seq' = last_seq
    BY <2>1, <2>2 DEF Stream!streamVars, batchVars, Stream!batchVars
  <2>3. CASE batch_id > 0 /\ last_seq' = decoder.start_seq + i /\ i < decoder.k
    <3>1. decoder.start_seq \in 1 .. highest_decoded_seq + 1
      BY <2>3 DEF BatchOK
    <3>2. last_seq' \in 1 .. highest_decoded_seq + MAX_BATCH_SIZE
      BY <1>0, <2>3, <3>1
    <3> QED
      BY <2>1, <2>3, <3>2 DEF Stream!StreamNext, Stream!HandOver, batchVars,
         Stream!batchVars
  <2> QED
    BY <2>1, <2>2, <2>3
<1>5. CASE Finish
  <2>1. pc = "finish" /\ SetDecodingDone /\ UNCHANGED last_seq
    BY <1>5 DEF Finish, At
  <2>2. batch_id > 0
    BY <1>0, <2>1 DEF BatchOK
  <2> QED
    BY <2>1, <2>2 DEF Stream!StreamNext, Stream!FinishBatch, SetDecodingDone,
       Stream!SetDecodingDone
<1>6. CASE OthersStep
  BY <1>6 DEF OthersStep, rcvVars, TimeOut, GetBatchInfo, DecodingDone, Stream!StreamNext,
     Stream!Clock, Stream!TimeOut, Stream!GetBatchInfo, Stream!DecodingDone
<1>7. CASE IgnoredPkt \/ NotYet \/ NothingToDecode \/ Decode \/ LateEnd \/ UNCHANGED allVars
  BY <1>7 DEF IgnoredPkt, NotYet, NothingToDecode, Decode, LateEnd, allVars, rcvVars,
     batchVars, Stream!streamVars, Stream!batchVars
<1> QED
  BY <1>1, <1>2, <1>3, <1>4, <1>5, <1>6, <1>7 DEF ReceiveNext

\* RxRcvAth, whatever packets reach it, drives the buffers of its radio as
\* BatchStream says: the environment that RxDataBuf is modelled in.
THEOREM ReceiveImplementsStream == ReceiveSpec => StreamSpec
<1>1. ReceiveInit => Stream!StreamInit
  BY DEF ReceiveInit, BatchInit, Stream!StreamInit, Stream!BatchInit
<1>2. Control /\ [ReceiveNext]_allVars => [Stream!StreamNext]_(Stream!streamVars)
  BY StreamStep
<1> QED
  BY ControlInvariant, <1>1, <1>2, PTL DEF ReceiveSpec, StreamSpec, Stream!StreamSpec

-----------------------------------------------------------------------------
(***************************************************************************)
(* All of a batch is handed over before it is declared decoded: the early  *)
(* ones are different, so k of them are all, and the loop after decoding   *)
(* leaves out exactly those.                                               *)
(***************************************************************************)
Given(calls, seq) == \E a \in DOMAIN calls : calls[a].seq = seq

\* Is x among the indices the decoder counts?
Holds(d, x) == \E r \in Rows : r < d.cur_ind /\ d.inds[r] = x

EarlyOK ==
    /\ early \in Seq(Nat)
    /\ \A j \in DOMAIN early :
          early[j] < decoder.k /\ Given(handed, decoder.start_seq + early[j])
    /\ \A j, l \in DOMAIN early : early[j] = early[l] => j = l

FillOK ==
    pc \in {"receive", "early", "check"} /\ ~decoded =>
        /\ decoder.inds \in [Rows -> Nat]
        /\ \A j \in DOMAIN early : Holds(decoder, early[j])
        /\ pc = "early" => Holds(decoder, ind) /\ \A j \in DOMAIN early : early[j] # ind

GivenOK ==
    /\ \E S : handed \in Seq(S)
    /\ pc = "late" => \A x \in 0 .. i - 1 : Given(handed, decoder.start_seq + x)
    /\ pc = "finish" \/ decoded =>
           \A x \in 0 .. decoder.k - 1 : Given(handed, decoder.start_seq + x)

Handing == EarlyOK /\ FillOK /\ GivenOK

\* A call of EnqueuePkt is remembered with those before it.
LEMMA GivenMore ==
    ASSUME NEW S, NEW calls \in Seq(S), NEW c
    PROVE  LET more == Append(calls, c)
           IN  /\ \E T : more \in Seq(T)
               /\ Given(more, c.seq)
               /\ \A seq : Given(calls, seq) => Given(more, seq)
<1> DEFINE T == S \cup {c}
           more == Append(calls, c)
<1>1. calls \in Seq(T) /\ c \in T
  BY SeqMonotonic
<1>2. /\ more \in Seq(T) /\ Len(more) = Len(calls) + 1
      /\ \A j \in 1 .. Len(calls) : more[j] = calls[j]
      /\ more[Len(calls) + 1] = c
  BY <1>1, AppendProperties
<1>3. DOMAIN calls = 1 .. Len(calls) /\ Len(calls) \in Nat
  OBVIOUS
<1>4. DOMAIN more = 1 .. Len(calls) + 1
  BY <1>2, <1>3
<1> HIDE DEF more
<1>5. Given(more, c.seq)
  BY <1>2, <1>3, <1>4 DEF Given
<1>6. ASSUME NEW seq, Given(calls, seq) PROVE Given(more, seq)
  BY <1>2, <1>3, <1>4, <1>6 DEF Given
<1> QED
  BY <1>2, <1>5, <1>6 DEF more

\* k different native packets are all of them.
LEMMA AllEarly ==
    ASSUME NEW k \in Nat, NEW s \in Seq(Nat), Len(s) = k,
           \A j \in DOMAIN s : s[j] < k,
           \A j, l \in DOMAIN s : s[j] = s[l] => j = l
    PROVE  \A x \in 0 .. k - 1 : \E j \in DOMAIN s : s[j] = x
<1>1. DOMAIN s = 1 .. k
  OBVIOUS
<1>2. s \in [1 .. k -> 0 .. k - 1]
  BY <1>1
<1>3. s \in Injection(1 .. k, 0 .. k - 1)
  BY <1>1, <1>2 DEF Injection, IsInjective
<1>4. /\ IsFiniteSet(0 .. k - 1) /\ Cardinality(0 .. k - 1) = k
      /\ IsFiniteSet(1 .. k) /\ Cardinality(1 .. k) = k
  <2>1. /\ IsFiniteSet(0 .. k - 1)
        /\ Cardinality(0 .. k - 1) = IF 0 > k - 1 THEN 0 ELSE (k - 1) - 0 + 1
    BY FS_Interval
  <2>2. /\ IsFiniteSet(1 .. k)
        /\ Cardinality(1 .. k) = IF 1 > k THEN 0 ELSE k - 1 + 1
    BY FS_Interval
  <2> QED
    BY <2>1, <2>2
<1>5. s \in Surjection(1 .. k, 0 .. k - 1)
  BY <1>3, <1>4, FS_Injection
<1> QED
  BY <1>1, <1>5 DEF Surjection

\* Nothing was handed over before the first packet.
LEMMA HandingInit == ReceiveInit => Handing
<1> SUFFICES ASSUME ReceiveInit PROVE Handing
  OBVIOUS
<1>1. early = <<>> /\ handed = <<>> /\ pc = "receive" /\ ~decoded /\ decoder = NewDecoder
  BY DEF ReceiveInit
<1>2. DOMAIN early = {} /\ early \in Seq(Nat) /\ handed \in Seq(Nat)
  BY <1>1
<1>3. decoder.inds \in [Rows -> Nat]
  BY <1>1 DEF NewDecoder
<1>4. EarlyOK
  BY <1>2 DEF EarlyOK
<1>5. FillOK
  BY <1>1, <1>2, <1>3 DEF FillOK
<1>6. GivenOK
  BY <1>1, <1>2 DEF GivenOK
<1> QED
  BY <1>4, <1>5, <1>6 DEF Handing

\* PushPkt adds one index to those the decoder counts.
LEMMA PushedHolds ==
    ASSUME NEW d, DecoderOK(d), d.inds \in [Rows -> Nat], d.cur_ind \in Rows, NEW x \in Nat
    PROVE  /\ PushPkt(d, x).inds \in [Rows -> Nat]
           /\ Holds(PushPkt(d, x), x)
           /\ \A y : Holds(d, y) => Holds(PushPkt(d, x), y)
<1> DEFINE inds == [d.inds EXCEPT ![d.cur_ind] = x]
           pkts == [d.pkts EXCEPT ![d.cur_ind] = x]
<1>1. PushPkt(d, x) = [d EXCEPT !.inds = inds, !.pkts = pkts, !.cur_ind = @ + 1]
  BY DEF PushPkt
<1>2. /\ inds \in [Rows -> Nat] /\ inds[d.cur_ind] = x
      /\ \A r \in Rows : r # d.cur_ind => inds[r] = d.inds[r]
  OBVIOUS
<1> HIDE DEF inds, pkts
<1>3. PICK I, P : d \in [k : 0 .. MAX_BATCH_SIZE, n : 0 .. MAX_CODED, start_seq : Nat,
                        cur_ind : Nat, inds : I, pkts : P]
  BY DEF DecoderOK
<1>4. PushPkt(d, x).inds = inds /\ PushPkt(d, x).cur_ind = d.cur_ind + 1
  BY <1>1, <1>3
<1>5. d.cur_ind \in Nat /\ \A r \in Rows : r \in Int
  BY <1>3, CodeInfoAssumption DEF Rows
<1> QED
  BY <1>2, <1>4, <1>5 DEF Holds

\* A new batch starts with nothing handed over.
LEMMA HandingNew ==
    ASSUME Control, NewBatch
    PROVE  Handing'
<1> USE BatchAssumption, CodeInfoAssumption
<1>1. PICK k \in 1 .. MAX_BATCH_SIZE, n \in 1 .. MAX_CODED, start \in 1 .. MaxStart :
          \E x \in 0 .. n - 1 : Push(SetCodeInfo(ClearInfo(decoder), k, n, start), x)
  BY DEF NewBatch
<1>2. PICK x \in 0 .. n - 1 : Push(SetCodeInfo(ClearInfo(decoder), k, n, start), x)
  BY <1>1
<1> DEFINE e == SetCodeInfo(ClearInfo(decoder), k, n, start)
<1>3. DecoderOK(e) /\ e.k = k /\ e.n = n /\ e.start_seq = start /\ e.cur_ind = 0
  BY NewDecoderOK
<1>4. e.inds \in [Rows -> Nat]
  <2>1. ClearInfo(decoder).inds = [r \in Rows |-> 0]
    BY DEF ClearInfo, NewDecoder
  <2>2. e.inds = ClearInfo(decoder).inds
    BY DEF SetCodeInfo, ClearInfo, NewDecoder
  <2> QED
    BY <2>1, <2>2
<1> HIDE DEF e
<1>5. e.cur_ind \in Rows /\ x \in Nat
  BY <1>3 DEF Rows
<1>6. decoder' = PushPkt(e, x) /\ ind' = x
  BY <1>2, <1>3 DEF Push, CanPush, e
<1>7. early' = <<>> /\ handed' = <<>> /\ decoded' = FALSE /\ pc' \in {"early", "check"}
  BY <1>2 DEF NewBatch, Push
<1>8. DOMAIN early' = {} /\ early' \in Seq(Nat) /\ handed' \in Seq(Nat)
  BY <1>7
<1>9. EarlyOK'
  BY <1>8 DEF EarlyOK
<1>10. decoder'.inds \in [Rows -> Nat] /\ Holds(decoder', x)
  <2>1. PushPkt(e, x).inds \in [Rows -> Nat] /\ Holds(PushPkt(e, x), x)
    BY <1>3, <1>4, <1>5, PushedHolds
  <2> QED
    BY <1>6, <2>1
<1>11. FillOK'
  BY <1>6, <1>8, <1>10 DEF FillOK
<1>12. GivenOK'
  BY <1>7, <1>8 DEF GivenOK
<1> QED
  BY <1>9, <1>11, <1>12 DEF Handing

\* A useful packet is none of those handed over early.
LEMMA HandingUseful ==
    ASSUME Control, Handing, UsefulPkt
    PROVE  Handing'
<1> USE BatchAssumption, CodeInfoAssumption
<1>1. PICK x \in 0 .. decoder.n - 1 : IsUseful(x) /\ Push(decoder, x)
  BY DEF UsefulPkt
<1>2. pc = "receive" /\ batch_id > 0 /\ ~decoded /\ ~Holds(decoder, x)
  BY <1>1 DEF UsefulPkt, At, IsUseful, IsIndExist, Holds
<1>3. DecoderOK(decoder) /\ decoder.cur_ind < decoder.k /\ decoder.k <= decoder.n
  BY <1>2 DEF Control, CountersOK, CountOK, BatchOK
<1>4. /\ decoder.cur_ind \in Nat /\ decoder.k \in 0 .. MAX_BATCH_SIZE
      /\ decoder.n \in 0 .. MAX_CODED
  BY <1>3 DEF DecoderOK
<1>5. decoder.cur_ind \in Rows /\ x \in Nat
  BY <1>3, <1>4 DEF Rows
<1>6. decoder' = PushPkt(decoder, x) /\ ind' = x /\ pc' \in {"early", "check"}
  BY <1>1, <1>3, <1>4 DEF Push, CanPush
<1>7. UNCHANGED <<early, handed, decoded>>
  BY DEF UsefulPkt
<1>8. /\ decoder.inds \in [Rows -> Nat]
      /\ \A j \in DOMAIN early : Holds(decoder, early[j])
  BY <1>2 DEF Handing, FillOK
<1>9. /\ PushPkt(decoder, x).inds \in [Rows -> Nat]
      /\ Holds(PushPkt(decoder, x), x)
      /\ \A y : Holds(decoder, y) => Holds(PushPkt(decoder, x), y)
      /\ PushPkt(decoder, x).k = decoder.k
      /\ PushPkt(decoder, x).start_seq = decoder.start_seq
  BY <1>3, <1>5, <1>8, PushedHolds, PushedOK
<1>10. EarlyOK'
  BY <1>6, <1>7, <1>9 DEF Handing, EarlyOK
<1>11. FillOK'
  <2>1. \A j \in DOMAIN early : early[j] # x
    BY <1>2, <1>8
  <2> QED
    BY <1>6, <1>7, <1>8, <1>9, <2>1 DEF FillOK
<1>12. GivenOK'
  BY <1>2, <1>6, <1>7 DEF Handing, GivenOK
<1> QED
  BY <1>10, <1>11, <1>12 DEF Handing

\* The early hand-over of a packet adds it to the early ones.
LEMMA HandingEarly ==
    ASSUME Control, Handing, EarlyEnqueue
    PROVE  Handing'
<1>1. /\ pc = "early" /\ pc' = "check" /\ early' = Append(early, ind)
      /\ handed' = Append(handed, [seq |-> decoder.start_seq + ind, pkt |-> ind, len |-> ind])
      /\ UNCHANGED <<decoder, ind, decoded>>
  BY DEF EarlyEnqueue, EnqueuePkt, At
<1>2. ~decoded /\ ind < decoder.k /\ ind \in Nat
  BY <1>1 DEF Control, BatchOK, CountersOK
<1>3. /\ \E T : handed' \in Seq(T)
      /\ Given(handed', decoder.start_seq + ind)
      /\ \A seq : Given(handed, seq) => Given(handed', seq)
  <2>1. PICK S : handed \in Seq(S)
    BY DEF Handing, GivenOK
  <2> DEFINE c == [seq |-> decoder.start_seq + ind, pkt |-> ind, len |-> ind]
  <2>2. c.seq = decoder.start_seq + ind /\ handed' = Append(handed, c)
    BY <1>1
  <2> HIDE DEF c
  <2> QED
    BY <2>1, <2>2, GivenMore
<1>4. early \in Seq(Nat)
  BY DEF Handing, EarlyOK
<1>5. /\ early' \in Seq(Nat) /\ Len(early') = Len(early) + 1
      /\ \A j \in 1 .. Len(early) : early'[j] = early[j]
      /\ early'[Len(early) + 1] = ind
  BY <1>1, <1>2, <1>4, AppendProperties
<1>6. /\ DOMAIN early = 1 .. Len(early) /\ Len(early) \in Nat
      /\ DOMAIN early' = 1 .. Len(early) + 1
  BY <1>4, <1>5
<1>7. /\ \A j \in DOMAIN early : early[j] # ind /\ Holds(decoder, early[j])
      /\ Holds(decoder, ind) /\ decoder.inds \in [Rows -> Nat]
  BY <1>1, <1>2 DEF Handing, FillOK
<1>8. EarlyOK'
  <2>1. \A j \in DOMAIN early' :
            early'[j] < decoder.k /\ Given(handed', decoder.start_seq + early'[j])
    BY <1>2, <1>3, <1>5, <1>6 DEF Handing, EarlyOK
  <2>2. ASSUME NEW j \in DOMAIN early', NEW l \in DOMAIN early', early'[j] = early'[l]
        PROVE  j = l
    <3>1. ASSUME NEW m \in DOMAIN early', m # Len(early) + 1
          PROVE  m \in DOMAIN early /\ early'[m] = early[m] /\ early[m] # ind
      <4>1. m \in 1 .. Len(early) /\ DOMAIN early = 1 .. Len(early)
        BY <1>6, <3>1
      <4>2. early'[m] = early[m]
        BY <1>5, <4>1
      <4>3. early[m] # ind
        BY <1>7, <4>1
      <4> QED
        BY <4>1, <4>2, <4>3
    <3>2. early'[Len(early) + 1] = ind
      BY <1>5
    <3>3. \A m, n \in DOMAIN early : early[m] = early[n] => m = n
      BY DEF Handing, EarlyOK
    <3> QED
      BY <2>2, <3>1, <3>2, <3>3
  <2> QED
    BY <1>1, <1>5, <2>1, <2>2 DEF EarlyOK
<1>9. FillOK'
  <2>1. \A j \in DOMAIN early' : Holds(decoder, early'[j])
    BY <1>5, <1>6, <1>7
  <2> QED
    BY <1>1, <1>7, <2>1 DEF FillOK
<1>10. GivenOK'
  BY <1>1, <1>2, <1>3 DEF GivenOK
<1> QED
  BY <1>8, <1>9, <1>10 DEF Handing

\* The loop after decoding leaves out only what was handed over early.
LEMMA HandingLate ==
    ASSUME Control, Handing, LateEnqueue \/ LateSkip
    PROVE  Handing'
<1>1. /\ pc = "late" /\ i < decoder.k /\ pc' = pc /\ i' = i + 1
      /\ UNCHANGED <<early, decoded>>
  BY DEF LateEnqueue, LateSkip, At, InLoop
<1>2. ~decoded /\ i \in Nat /\ DecoderOK(decoder) /\ decoder.cur_ind = i
  BY <1>1 DEF Control, BatchOK, CountersOK, CountOK
<1>3. decoder' = MoveToNextPkt(decoder)
  BY LateControl
<1>4. decoder'.k = decoder.k /\ decoder'.start_seq = decoder.start_seq
  BY <1>2, <1>3, MovedOK
<1>5. PICK S : handed \in Seq(S)
  BY DEF Handing, GivenOK
<1>6. /\ \E T : handed' \in Seq(T)
      /\ Given(handed', decoder.start_seq + i)
      /\ \A seq : Given(handed, seq) => Given(handed', seq)
  <2>1. CASE LateEnqueue
    <3> DEFINE p == PopPkt(decoder)
               c == [seq |-> decoder.start_seq + i, pkt |-> p.pkt, len |-> p.len]
    <3>1. CanPop(decoder)
      BY <1>1, <1>2 DEF CanPop
    <3>2. handed' = Append(handed, c)
      BY <2>1, <3>1 DEF LateEnqueue, EnqueuePkt
    <3>3. c.seq = decoder.start_seq + i
      OBVIOUS
    <3> HIDE DEF c
    <3> QED
      BY <1>5, <3>2, <3>3, GivenMore
  <2>2. CASE LateSkip
    <3>1. handed' = handed /\ IsEarly(i)
      BY <2>2 DEF LateSkip
    <3>2. Given(handed, decoder.start_seq + i)
      BY <3>1 DEF IsEarly, Handing, EarlyOK
    <3> QED
      BY <1>5, <3>1, <3>2
  <2> QED
    BY <2>1, <2>2
<1>7. EarlyOK'
  BY <1>1, <1>4, <1>6 DEF Handing, EarlyOK
<1>8. FillOK'
  BY <1>1 DEF FillOK
<1>9. GivenOK'
  <2>1. \A x \in 0 .. i : Given(handed', decoder.start_seq + x)
    <3>1. \A x \in 0 .. i - 1 : Given(handed, decoder.start_seq + x)
      BY <1>1 DEF Handing, GivenOK
    <3>2. \A x \in 0 .. i : x = i \/ x \in 0 .. i - 1
      BY <1>2
    <3> QED
      BY <1>6, <3>1, <3>2
  <2>2. 0 .. i' - 1 = 0 .. i
    BY <1>1, <1>2
  <2> QED
    BY <1>1, <1>2, <1>4, <1>6, <2>1, <2>2 DEF GivenOK
<1> QED
  BY <1>7, <1>8, <1>9 DEF Handing

\* The thread finishes a batch once all of it is handed over.
LEMMA HandingEnd ==
    ASSUME Control, Handing, Decode \/ NothingToDecode \/ LateEnd \/ Finish
    PROVE  Handing'
<1>0. DecoderOK(decoder) /\ decoder.k \in Nat
  BY DEF Control, CountersOK, DecoderOK
<1>1. CASE Decode
  <2>1. /\ pc = "check" /\ pc' = "late" /\ i' = 0 /\ decoder' = DecodeBatch(decoder)
        /\ UNCHANGED <<early, decoded, handed>>
    BY <1>1 DEF Decode, At
  <2>2. decoder'.k = decoder.k /\ decoder'.start_seq = decoder.start_seq
    BY <1>0, <2>1, DecodedOK
  <2>3. ~decoded
    BY <2>1 DEF Control, BatchOK
  <2>4. EarlyOK'
    BY <2>1, <2>2 DEF Handing, EarlyOK
  <2>5. FillOK'
    BY <2>1 DEF FillOK
  <2>6. GivenOK'
    BY <2>1, <2>3 DEF Handing, GivenOK
  <2> QED
    BY <2>4, <2>5, <2>6 DEF Handing
<1>2. CASE NothingToDecode
  <2>1. /\ pc' = "finish" /\ Len(early) = decoder.k
        /\ UNCHANGED <<early, decoded, handed, decoder>>
    BY <1>2 DEF NothingToDecode, AllNative
  <2>2. /\ early \in Seq(Nat)
        /\ \A j \in DOMAIN early :
              early[j] < decoder.k /\ Given(handed, decoder.start_seq + early[j])
        /\ \A j, l \in DOMAIN early : early[j] = early[l] => j = l
    BY DEF Handing, EarlyOK
  <2>3. \A x \in 0 .. decoder.k - 1 : \E j \in DOMAIN early : early[j] = x
    BY <1>0, <2>1, <2>2, AllEarly
  <2>4. EarlyOK'
    BY <2>1 DEF Handing, EarlyOK
  <2>5. FillOK'
    BY <2>1 DEF FillOK
  <2>6. GivenOK'
    BY <2>1, <2>2, <2>3 DEF Handing, GivenOK
  <2> QED
    BY <2>4, <2>5, <2>6 DEF Handing
<1>3. CASE LateEnd
  <2>1. /\ pc = "late" /\ pc' = "finish" /\ ~(i < decoder.k)
        /\ UNCHANGED <<early, decoded, handed, decoder, i>>
    BY <1>3 DEF LateEnd, At, InLoop
  <2>2. i = decoder.k
    BY <1>0, <2>1 DEF Control, CountOK, CountersOK
  <2>3. EarlyOK'
    BY <2>1 DEF Handing, EarlyOK
  <2>4. FillOK'
    BY <2>1 DEF FillOK
  <2>5. GivenOK'
    BY <2>1, <2>2 DEF Handing, GivenOK
  <2> QED
    BY <2>3, <2>4, <2>5 DEF Handing
<1>4. CASE Finish
  <2>1. /\ pc = "finish" /\ pc' = "receive" /\ decoded' = TRUE
        /\ UNCHANGED <<early, handed, decoder, i>>
    BY <1>4 DEF Finish, At
  <2>2. EarlyOK'
    BY <2>1 DEF Handing, EarlyOK
  <2>3. FillOK'
    BY <2>1 DEF FillOK
  <2>4. GivenOK'
    BY <2>1 DEF Handing, GivenOK
  <2> QED
    BY <2>2, <2>3, <2>4 DEF Handing
<1> QED
  BY <1>1, <1>2, <1>3, <1>4

\* The other steps hand nothing over.
LEMMA HandingOther ==
    ASSUME Control, Handing,
           NotYet \/ RepeatedPkt \/ IgnoredPkt \/ OthersStep \/ UNCHANGED allVars
    PROVE  Handing'
<1>1. /\ UNCHANGED <<decoder, ind, early, i, decoded, handed>>
      /\ \/ pc' = pc
         \/ pc = "check" /\ pc' = "receive"
  <2>1. CASE NotYet
    BY <2>1 DEF NotYet, At
  <2>2. CASE RepeatedPkt \/ IgnoredPkt \/ OthersStep \/ UNCHANGED allVars
    BY <2>2 DEF RepeatedPkt, IgnoredPkt, OthersStep, allVars, rcvVars
  <2> QED
    BY <2>1, <2>2
<1>2. EarlyOK'
  BY <1>1 DEF Handing, EarlyOK
<1>3. FillOK'
  BY <1>1 DEF Handing, FillOK
<1>4. GivenOK'
  BY <1>1 DEF Handing, GivenOK
<1> QED
  BY <1>2, <1>3, <1>4 DEF Handing

\* Every step keeps what is known of the packets handed over.
LEMMA HandingStep == Control /\ Handing /\ [ReceiveNext]_allVars => Handing'
BY HandingNew, HandingUseful, HandingEarly, HandingLate, HandingEnd, HandingOther
   DEF ReceiveNext

\* When a batch is declared decoded, all of it has been handed to EnqueuePkt.
THEOREM ReceiveDecodedHanded == ReceiveSpec => []DecodedIsHanded
<1>1. Handing => DecodedIsHanded
  BY DEF Handing, GivenOK, Given, DecodedIsHanded
<1> QED
  BY ControlInvariant, HandingInit, HandingStep, <1>1, PTL DEF ReceiveSpec
-----------------------------------------------------------------------------
(***************************************************************************)
(* fec_decode: whatever k different packets the decoder holds, in whatever *)
(* rows, shuffle brings the native ones home without an error, and all of  *)
(* the native packets are in their rows afterwards.                        *)
(***************************************************************************)

\* The first m entries differ.
Distinct(f, m) == \A a, b \in 0 .. m - 1 : f[a] = f[b] => a = b

\* The rows whose index is their own number.
Home(f, k) == {r \in 0 .. k - 1 : f[r] = r}

\* The loop of shuffle after t rounds, each of which went a row on or brought a
\* packet home; all indices are below n.
ShuffleOK(s, k, n, t) ==
    /\ s \in [pos : 0 .. k, inds : [Rows -> Rows], pkts : [Rows -> Rows \cup {NoPkt}],
              failed : {FALSE}]
    /\ Distinct(s.inds, k)
    /\ \A r \in 0 .. k - 1 : s.pkts[r] = s.inds[r]
    /\ \A r \in 0 .. k - 1 : s.inds[r] < n
    /\ \A r \in 0 .. k - 1 : r < s.pos => s.inds[r] >= k \/ s.inds[r] = r
    /\ s.pos = k \/ s.pos + Cardinality(Home(s.inds, k)) >= t

\* The rows at home are at most k.
LEMMA HomeBound ==
    ASSUME NEW k \in Nat, NEW f
    PROVE  /\ IsFiniteSet(Home(f, k))
           /\ Cardinality(Home(f, k)) \in 0 .. k
<1>1. IsFiniteSet(0 .. k - 1) /\ Cardinality(0 .. k - 1) = k
  <2>1. /\ IsFiniteSet(0 .. k - 1)
        /\ Cardinality(0 .. k - 1) = IF 0 > k - 1 THEN 0 ELSE (k - 1) - 0 + 1
    BY FS_Interval
  <2> QED
    BY <2>1
<1>2. Home(f, k) \in SUBSET (0 .. k - 1)
  BY DEF Home
<1>3. IsFiniteSet(Home(f, k)) /\ Cardinality(Home(f, k)) <= k
  BY <1>1, <1>2, FS_Subset
<1>4. Cardinality(Home(f, k)) \in Nat
  BY <1>3, FS_CardinalityType
<1> QED
  BY <1>3, <1>4

\* A swap takes the packet in row p to its own row c, and leaves every other row.
LEMMA SwapHome ==
    ASSUME NEW k \in 0 .. MAX_CODED, NEW f \in [Rows -> Rows], Distinct(f, k),
           NEW p \in 0 .. k - 1, f[p] < k, f[p] # p
    PROVE  LET g == SwapRows(f, p, f[p])
           IN  /\ g \in [Rows -> Rows]
               /\ Distinct(g, k)
               /\ f[f[p]] # f[p]
               /\ g[f[p]] = f[p]
               /\ \A r \in 0 .. k - 1 : r # p /\ r # f[p] => g[r] = f[r]
               /\ g[p] = f[f[p]] /\ f[p] \in 0 .. k - 1
               /\ Cardinality(Home(g, k)) >= Cardinality(Home(f, k)) + 1
<1> DEFINE c == f[p]
           g == SwapRows(f, p, c)
<1> USE CodeInfoAssumption
<1>1. p \in Rows /\ c \in Rows /\ c \in 0 .. k - 1 /\ 0 .. k - 1 \subseteq Rows
  BY DEF Rows
<1>2. /\ g \in [Rows -> Rows] /\ g[p] = f[c] /\ g[c] = c
      /\ \A r \in Rows : r # p /\ r # c => g[r] = f[r]
  BY <1>1 DEF SwapRows
<1>3. f[c] # c
  BY <1>1 DEF Distinct
<1> HIDE DEF g, c
<1>4. Distinct(g, k)
  <2> SUFFICES ASSUME NEW a \in 0 .. k - 1, NEW b \in 0 .. k - 1, g[a] = g[b]
               PROVE  a = b
    BY DEF Distinct
  <2>1. c # p
    BY DEF c
  <2>2. f[p] = c
    BY DEF c
  <2> QED
    BY <1>1, <1>2, <2>1, <2>2 DEF Distinct
<1>5. Home(f, k) \cup {c} \subseteq Home(g, k)
  <2>1. f[p] = c /\ c # p
    BY DEF c
  <2> QED
    BY <1>1, <1>2, <1>3, <2>1 DEF Home
<1>6. IsFiniteSet(Home(f, k)) /\ IsFiniteSet(Home(g, k))
  BY HomeBound
<1>7. c \notin Home(f, k)
  BY <1>3 DEF Home
<1>8. Cardinality(Home(f, k) \cup {c}) = Cardinality(Home(f, k)) + 1
  BY <1>6, <1>7, FS_AddElement
<1>9. Cardinality(Home(f, k) \cup {c}) <= Cardinality(Home(g, k))
  BY <1>5, <1>6, FS_Subset
<1>10. Cardinality(Home(f, k)) \in Nat /\ Cardinality(Home(g, k)) \in Nat
  BY <1>6, FS_CardinalityType
<1> QED
  BY <1>1, <1>2, <1>3, <1>4, <1>8, <1>9, <1>10 DEF c, g

\* One round of the loop.
LEMMA ShuffleRound ==
    ASSUME NEW k \in 0 .. MAX_CODED, NEW n, NEW t \in Nat, NEW s, ShuffleOK(s, k, n, t)
    PROVE  ShuffleOK(ShuffleStep(s, k), k, n, t + 1)
<1> USE CodeInfoAssumption
<1> DEFINE c == s.inds[s.pos]
<1>1. s \in [pos : 0 .. k, inds : [Rows -> Rows], pkts : [Rows -> Rows \cup {NoPkt}],
             failed : {FALSE}]
  BY DEF ShuffleOK
<1>2. Cardinality(Home(s.inds, k)) \in 0 .. k
  BY HomeBound
<1>3. CASE s.pos >= k
  <2>1. ShuffleStep(s, k) = s
    BY <1>3 DEF ShuffleStep
  <2>2. s.pos = k
    BY <1>1, <1>3
  <2> QED
    BY <2>1, <2>2 DEF ShuffleOK
<1>4. CASE s.pos < k /\ (c >= k \/ c = s.pos)
  <2>1. ShuffleStep(s, k) = [s EXCEPT !.pos = @ + 1]
    <3>1. s.failed = FALSE
      BY <1>1
    <3>2. ~(s.pos >= k)
      BY <1>1, <1>4
    <3> QED
      BY <1>4, <3>1, <3>2, Zenon DEF ShuffleStep
  <2>2. ShuffleStep(s, k) = [pos |-> s.pos + 1, inds |-> s.inds, pkts |-> s.pkts,
                             failed |-> FALSE]
    BY <1>1, <2>1
  <2>3. \A r \in 0 .. k - 1 : r < s.pos + 1 => r < s.pos \/ r = s.pos
    BY <1>1
  <2>4. \A r \in 0 .. k - 1 : r < s.pos + 1 => s.inds[r] >= k \/ s.inds[r] = r
    BY <1>4, <2>3 DEF ShuffleOK
  <2>5. s.pos + 1 + Cardinality(Home(s.inds, k)) >= t + 1
    BY <1>1, <1>2, <1>4 DEF ShuffleOK
  <2>6. s.pos + 1 \in 0 .. k
    BY <1>1, <1>4
  <2> DEFINE s2 == ShuffleStep(s, k)
  <2>7. s2 \in [pos : 0 .. k, inds : [Rows -> Rows], pkts : [Rows -> Rows \cup {NoPkt}],
                failed : {FALSE}]
    BY <1>1, <2>2, <2>6
  <2>8. s2.pos = s.pos + 1 /\ s2.inds = s.inds /\ s2.pkts = s.pkts
    BY <2>2
  <2> HIDE DEF s2
  <2>9. ShuffleOK(s2, k, n, t + 1)
    BY <2>4, <2>5, <2>7, <2>8 DEF ShuffleOK
  <2> QED
    BY <2>9 DEF s2
<1>5. CASE s.pos < k /\ c < k /\ c # s.pos
  <2> DEFINE g == SwapRows(s.inds, s.pos, c)
             h == SwapRows(s.pkts, s.pos, c)
             s2 == ShuffleStep(s, k)
  <2>1. /\ s.pos \in 0 .. k - 1 /\ s.inds \in [Rows -> Rows]
        /\ s.pkts \in [Rows -> Rows \cup {NoPkt}] /\ Distinct(s.inds, k)
    BY <1>1, <1>5 DEF ShuffleOK
  <2>2. /\ g \in [Rows -> Rows] /\ Distinct(g, k) /\ s.inds[c] # c /\ g[c] = c
        /\ \A r \in 0 .. k - 1 : r # s.pos /\ r # c => g[r] = s.inds[r]
        /\ g[s.pos] = s.inds[c] /\ c \in 0 .. k - 1
        /\ Cardinality(Home(g, k)) >= Cardinality(Home(s.inds, k)) + 1
    BY <1>5, <2>1, SwapHome
  <2>3. s.pos \in Rows /\ c \in Rows /\ c \in 0 .. k - 1 /\ 0 .. k - 1 \subseteq Rows
    <3>1. 0 .. k - 1 \subseteq Rows
      BY DEF Rows
    <3>2. s.pos \in Rows
      BY <2>1, <3>1
    <3>3. c \in Rows
      BY <2>1, <3>2
    <3>4. c \in Nat
      BY <3>3 DEF Rows
    <3> HIDE DEF c
    <3> QED
      BY <1>5, <3>1, <3>2, <3>3, <3>4
  <2>4. h \in [Rows -> Rows \cup {NoPkt}]
    BY <2>1, <2>3 DEF SwapRows
  <2>5. \A r \in 0 .. k - 1 : h[r] = g[r]
    <3>1. \A r \in 0 .. k - 1 : s.pkts[r] = s.inds[r]
      BY DEF ShuffleOK
    <3> HIDE DEF c
    <3>2. \A r \in 0 .. k - 1 : r \in Rows
      BY <2>3
    <3> QED
      BY <2>1, <2>3, <3>1, <3>2 DEF SwapRows
  <2>6. s2 = [s EXCEPT !.inds = g, !.pkts = h]
    <3>1. s.failed = FALSE
      BY <1>1
    <3> HIDE DEF c
    <3>2. ~(s.pos >= k) /\ ~(c >= k)
      BY <1>5, <2>1, <2>3
    <3> USE DEF c
    <3> QED
      BY <1>5, <2>2, <3>1, <3>2, Zenon DEF ShuffleStep
  <2> HIDE DEF g, h, c, s2
  <2>7. /\ s2 \in [pos : 0 .. k, inds : [Rows -> Rows], pkts : [Rows -> Rows \cup {NoPkt}],
                   failed : {FALSE}]
        /\ s2.pos = s.pos /\ s2.inds = g /\ s2.pkts = h
    BY <1>1, <2>2, <2>4, <2>6
  <2>8. \A r \in 0 .. k - 1 : r < s.pos => g[r] >= k \/ g[r] = r
    <3>1. \A r \in 0 .. k - 1 : r < s.pos => s.inds[r] >= k \/ s.inds[r] = r
      BY DEF ShuffleOK
    <3> QED
      BY <2>1, <2>2, <3>1
  <2>9. s.pos + Cardinality(Home(g, k)) >= t + 1
    <3>1. s.pos + Cardinality(Home(s.inds, k)) >= t
      BY <1>5 DEF ShuffleOK
    <3>2. Cardinality(Home(g, k)) \in 0 .. k
      BY HomeBound
    <3> QED
      BY <1>2, <2>1, <2>2, <3>1, <3>2
  <2>10. \A r \in 0 .. k - 1 : g[r] < n
    <3>1. \A r \in 0 .. k - 1 : s.inds[r] < n
      BY DEF ShuffleOK
    <3>2. c = s.inds[s.pos]
      BY DEF c
    <3> QED
      BY <2>1, <2>2, <3>1, <3>2
  <2>11. ShuffleOK(s2, k, n, t + 1)
    BY <2>2, <2>5, <2>7, <2>8, <2>9, <2>10 DEF ShuffleOK
  <2> QED
    BY <2>11 DEF s2
<1>6. s.pos < k => c \in Int
  <2>1. s.pos < k => s.pos \in Rows
    BY <1>1 DEF Rows
  <2> QED
    BY <1>1, <2>1 DEF Rows
<1>7. s.pos \in Int /\ k \in Int
  BY <1>1
<1> HIDE DEF c
<1> QED
  BY <1>3, <1>4, <1>5, <1>6, <1>7

\* All of the loop.
LEMMA ShuffleRight ==
    ASSUME NEW d, d.k \in 0 .. MAX_CODED, d.inds \in [Rows -> Rows],
           d.pkts \in [Rows -> Rows \cup {NoPkt}], Distinct(d.inds, d.k),
           \A r \in 0 .. d.k - 1 : d.pkts[r] = d.inds[r] /\ d.inds[r] < d.n
    PROVE  ShuffleOK(Shuffle(d), d.k, d.n, 2 * d.k)
<1> USE CodeInfoAssumption
<1> DEFINE k == d.k
           start == [pos |-> 0, inds |-> d.inds, pkts |-> d.pkts, failed |-> FALSE]
           Runs(f, m) ==
               f = [t \in 0 .. m |-> IF t = 0 THEN start ELSE ShuffleStep(f[t - 1], d.k)]
           run == CHOOSE f : Runs(f, 2 * d.k)
<1>1. Shuffle(d) = run[2 * k]
  BY DEF Shuffle
<1>2. ShuffleOK(start, k, d.n, 0)
  <2>1. Cardinality(Home(d.inds, k)) \in 0 .. k
    BY HomeBound
  <2>2. start \in [pos : 0 .. k, inds : [Rows -> Rows], pkts : [Rows -> Rows \cup {NoPkt}],
                   failed : {FALSE}]
    OBVIOUS
  <2>3. start.pos = 0 /\ start.inds = d.inds /\ start.pkts = d.pkts
    OBVIOUS
  <2> HIDE DEF start
  <2>4. start.pos + Cardinality(Home(start.inds, k)) >= 0
    BY <2>1, <2>3
  <2>5. \A r \in 0 .. k - 1 : ~(r < start.pos)
    BY <2>3
  <2> QED
    BY <2>2, <2>3, <2>4, <2>5 DEF ShuffleOK
<1> HIDE DEF start
<1>3. \A m \in Nat : \E f : Runs(f, m)
  <2> DEFINE S == {m \in Nat : \E f : Runs(f, m)}
  <2>1. 0 \in S
    <3> DEFINE f == [t \in 0 .. 0 |-> start]
    <3>1. f = [t \in 0 .. 0 |-> IF t = 0 THEN start ELSE ShuffleStep(f[t - 1], d.k)]
      OBVIOUS
    <3>2. Runs(f, 0)
      BY <3>1
    <3> HIDE DEF f, Runs
    <3> QED
      BY <3>2
  <2>2. ASSUME NEW n \in Nat, n \in S PROVE n + 1 \in S
    <3>1. PICK f : Runs(f, n)
      BY <2>2
    <3> DEFINE next == ShuffleStep(f[n], d.k)
               g == [t \in 0 .. n + 1 |-> IF t = n + 1 THEN next ELSE f[t]]
    <3> HIDE DEF next
    <3>2. g[n + 1] = next /\ \A t \in 0 .. n : g[t] = f[t]
      OBVIOUS
    <3>3. ASSUME NEW t \in 0 .. n + 1
          PROVE  g[t] = IF t = 0 THEN start ELSE ShuffleStep(g[t - 1], d.k)
      <4>1. CASE t = n + 1
        <5>1. g[t - 1] = f[n] /\ t # 0
          BY <3>2, <4>1
        <5> QED
          BY <3>2, <4>1, <5>1 DEF next
      <4>2. CASE t \in 0 .. n
        <5>1. f[t] = IF t = 0 THEN start ELSE ShuffleStep(f[t - 1], d.k)
          BY <3>1, <4>2
        <5>2. g[t] = f[t] /\ (t # 0 => g[t - 1] = f[t - 1])
          BY <3>2, <4>2
        <5> HIDE DEF g
        <5> QED
          BY <5>1, <5>2
      <4> QED
        BY <4>1, <4>2
    <3>4. g = [t \in 0 .. n + 1 |-> g[t]]
      OBVIOUS
    <3> HIDE DEF g
    <3>5. Runs(g, n + 1)
      BY <3>3, <3>4
    <3> HIDE DEF Runs
    <3> QED
      BY <3>5
  <2> HIDE DEF S
  <2>3. Nat \subseteq S
    BY <2>1, <2>2, NatInduct
  <2> QED
    BY <2>3 DEF S
<1>4. Runs(run, 2 * k)
  <2>1. 2 * k \in Nat
    OBVIOUS
  <2>2. \E f : Runs(f, 2 * k)
    BY <1>3, <2>1
  <2> HIDE DEF Runs
  <2> QED
    BY <2>2
<1>5. /\ run[0] = start
      /\ \A t \in 1 .. 2 * k : run[t] = ShuffleStep(run[t - 1], k)
  <2> HIDE DEF run
  <2> QED
    BY <1>4
<1> HIDE DEF run, Runs
<1> DEFINE Done == {t \in Nat : t <= 2 * k => ShuffleOK(run[t], k, d.n, t)}
<1>6. 0 \in Done
  BY <1>2, <1>5
<1>7. ASSUME NEW t \in Nat, t \in Done PROVE t + 1 \in Done
  <2>1. CASE t + 1 <= 2 * k
    <3>1. ShuffleOK(run[t], k, d.n, t) /\ run[t + 1] = ShuffleStep(run[t], k)
      BY <1>5, <1>7, <2>1
    <3>2. ShuffleOK(run[t + 1], k, d.n, t + 1)
      BY <3>1, ShuffleRound
    <3> QED
      BY <3>2
  <2>2. CASE ~(t + 1 <= 2 * k)
    BY <2>2
  <2> QED
    BY <2>1, <2>2
<1>8. Nat \subseteq Done
  <2> HIDE DEF Done
  <2> QED
    BY <1>6, <1>7, NatInduct
<1> QED
  BY <1>1, <1>8

\* What shuffle leaves: every native packet among the first k in its own row.
LEMMA Shuffled ==
    ASSUME NEW d, DecoderOK(d), d.inds \in [Rows -> Rows],
           d.pkts \in [Rows -> Rows \cup {NoPkt}], Distinct(d.inds, d.k),
           \A r \in 0 .. d.k - 1 : d.pkts[r] = d.inds[r] /\ d.inds[r] < d.n
    PROVE  LET s == Shuffle(d)
           IN  /\ s.inds \in [Rows -> Rows] /\ s.pkts \in [Rows -> Rows \cup {NoPkt}]
               /\ s.failed = FALSE
               /\ Distinct(s.inds, d.k)
               /\ \A r \in 0 .. d.k - 1 :
                     /\ s.pkts[r] = s.inds[r] /\ s.inds[r] < d.n
                     /\ s.inds[r] >= d.k \/ s.inds[r] = r
<1> USE CodeInfoAssumption
<1> DEFINE s == Shuffle(d)
<1>1. d.k \in 0 .. MAX_CODED
  BY BatchAssumption DEF DecoderOK
<1>2. ShuffleOK(s, d.k, d.n, 2 * d.k)
  BY <1>1, ShuffleRight
<1> HIDE DEF s
<1>3. /\ s.inds \in [Rows -> Rows] /\ s.pkts \in [Rows -> Rows \cup {NoPkt}]
      /\ s.failed = FALSE /\ s.pos \in 0 .. d.k
  BY <1>2 DEF ShuffleOK
<1>4. s.pos = d.k
  <2>1. Cardinality(Home(s.inds, d.k)) \in 0 .. d.k
    BY <1>1, HomeBound
  <2>2. s.pos = d.k \/ s.pos + Cardinality(Home(s.inds, d.k)) >= 2 * d.k
    BY <1>2 DEF ShuffleOK
  <2> QED
    BY <1>1, <1>3, <2>1, <2>2
<1>5. \A r \in 0 .. d.k - 1 : /\ s.pkts[r] = s.inds[r] /\ s.inds[r] < d.n
                              /\ s.inds[r] >= d.k \/ s.inds[r] = r
  BY <1>1, <1>2, <1>4 DEF ShuffleOK
<1>6. Distinct(s.inds, d.k)
  BY <1>2 DEF ShuffleOK
<1> QED
  BY <1>3, <1>5, <1>6 DEF s

\* DecodeBatch leaves native packet r in row r, for each of them.
LEMMA DecodedRight ==
    ASSUME NEW d, DecoderOK(d), d.inds \in [Rows -> Rows],
           d.pkts \in [Rows -> Rows \cup {NoPkt}], Distinct(d.inds, d.k),
           \A r \in 0 .. d.k - 1 : d.pkts[r] = d.inds[r] /\ d.inds[r] < d.n
    PROVE  /\ DecodeBatch(d).inds \in [Rows -> Rows]
           /\ DecodeBatch(d).pkts \in [Rows -> Rows \cup {NoPkt}]
           /\ \A r \in 0 .. d.k - 1 : DecodeBatch(d).pkts[r] = r
<1> DEFINE s == Shuffle(d)
           pkts == IF ~s.failed /\ IsInvertible(s.inds, d.k) THEN Recover(s, d.k) ELSE s.pkts
<1>0. d.k \in 0 .. MAX_CODED /\ 0 .. d.k - 1 \subseteq Rows
  <2>1. d.k \in 0 .. MAX_BATCH_SIZE
    BY DEF DecoderOK
  <2> HIDE DEF s, pkts
  <2> QED
    BY <2>1, BatchAssumption, CodeInfoAssumption DEF Rows
<1>1. /\ s.inds \in [Rows -> Rows] /\ s.pkts \in [Rows -> Rows \cup {NoPkt}]
      /\ s.failed = FALSE /\ Distinct(s.inds, d.k)
      /\ \A r \in 0 .. d.k - 1 : /\ s.pkts[r] = s.inds[r]
                                 /\ s.inds[r] >= d.k \/ s.inds[r] = r
  BY Shuffled
<1>2. DecodeBatch(d) = [d EXCEPT !.inds = s.inds, !.pkts = pkts, !.cur_ind = 0]
  BY DEF DecodeBatch
<1> HIDE DEF s
<1>3. s.inds \in [Rows -> Rows] /\ s.pkts \in [Rows -> Rows \cup {NoPkt}] /\ s.failed = FALSE
  BY <1>1
<1>5. \A r \in 0 .. d.k - 1 : s.pkts[r] = s.inds[r]
  BY <1>1
<1>6. \A r \in 0 .. d.k - 1 : s.inds[r] >= d.k \/ s.inds[r] = r
  BY <1>1
<1>7. pkts = Recover(s, d.k)
  <2>1. IsInvertible(s.inds, d.k)
    BY <1>1 DEF Distinct, IsInvertible
  <2> QED
    BY <1>3, <2>1, Zenon
<1> HIDE DEF pkts
<1>8. pkts = [r \in Rows |-> IF r < d.k /\ s.inds[r] >= d.k THEN r ELSE s.pkts[r]]
  BY <1>5, <1>7, Zenon DEF Recover
<1>9. pkts \in [Rows -> Rows \cup {NoPkt}] /\ \A r \in 0 .. d.k - 1 : pkts[r] = r
  BY <1>0, <1>3, <1>5, <1>6, <1>8
<1>10. DecodeBatch(d).inds = s.inds /\ DecodeBatch(d).pkts = pkts
  BY <1>2 DEF DecoderOK
<1> QED
  BY <1>3, <1>9, <1>10

-----------------------------------------------------------------------------
(***************************************************************************)
(* What is handed over is right.  While the decoder is filled its packets  *)
(* are different and as they arrived, so that any k of them are enough to  *)
(* decode; afterwards row r holds native packet r, and the loop hands over *)
(* each that is not among the early ones.                                  *)
(***************************************************************************)

\* Is the decoder still being filled?
Filling == pc \in {"receive", "early", "check"} /\ ~decoded

PacketsOK ==
    /\ decoder.inds \in [Rows -> Rows]
    /\ decoder.pkts \in [Rows -> Rows \cup {NoPkt}]
    /\ decoder.cur_ind \in 0 .. MAX_CODED
    /\ ind \in Rows
    /\ i \in 0 .. MAX_BATCH_SIZE
    /\ Filling => /\ Distinct(decoder.inds, decoder.cur_ind)
                  /\ \A r \in 0 .. decoder.cur_ind - 1 :
                        decoder.pkts[r] = decoder.inds[r] /\ decoder.inds[r] < decoder.n
    /\ pc = "late" => \A r \in 0 .. decoder.k - 1 : decoder.pkts[r] = r

\* No more packets have arrived than the decoder counts, and the native ones of
\* them were handed over, but for the one that is about to be.
ArrivedOK ==
    /\ arrived \subseteq Rows
    /\ IsFiniteSet(arrived)
    /\ Filling =>
          /\ Cardinality(arrived) <= decoder.cur_ind
          /\ \A x \in arrived : x < decoder.k => IsEarly(x) \/ (pc = "early" /\ x = ind)

\* The calls of EnqueuePkt so far.
CallsOK ==
    /\ early \in Seq(Rows)
    /\ handed \in Seq([seq : Nat, pkt : Rows, len : Nat])
    /\ \A a \in DOMAIN handed :
          /\ handed[a].pkt \in 0 .. decoder.k - 1
          /\ handed[a].seq = decoder.start_seq + handed[a].pkt
          /\ handed[a].len = handed[a].pkt
          /\ Filling => IsEarly(handed[a].pkt)
          /\ pc = "late" => IsEarly(handed[a].pkt) \/ handed[a].pkt < i
    /\ \A a, b \in DOMAIN handed : handed[a].pkt = handed[b].pkt => a = b

Correct == PacketsOK /\ ArrivedOK /\ CallsOK

\* What is known of the counters, in the form these proofs use.
LEMMA Counts ==
    ASSUME Control
    PROVE  /\ DecoderOK(decoder)
           /\ decoder.k \in 0 .. MAX_BATCH_SIZE /\ decoder.n \in 0 .. MAX_CODED
           /\ decoder.start_seq \in Nat /\ decoder.cur_ind \in Nat
           /\ i \in Nat /\ ind \in Nat
           /\ 0 .. decoder.k - 1 \subseteq Rows /\ 0 .. decoder.n - 1 \subseteq Rows
<1>1. DecoderOK(decoder) /\ i \in Nat /\ ind \in Nat
  BY DEF Control, CountersOK
<1>2. /\ decoder.k \in 0 .. MAX_BATCH_SIZE /\ decoder.n \in 0 .. MAX_CODED
      /\ decoder.start_seq \in Nat /\ decoder.cur_ind \in Nat
  BY <1>1 DEF DecoderOK
<1> QED
  BY <1>1, <1>2, BatchAssumption, CodeInfoAssumption DEF Rows

\* PushPkt of a packet that is new keeps the packets different and as they arrived.
LEMMA PushedRight ==
    ASSUME NEW d, DecoderOK(d), d.inds \in [Rows -> Rows],
           d.pkts \in [Rows -> Rows \cup {NoPkt}], d.cur_ind \in Rows,
           Distinct(d.inds, d.cur_ind),
           \A r \in 0 .. d.cur_ind - 1 : d.pkts[r] = d.inds[r] /\ d.inds[r] < d.n,
           NEW x \in Rows, ~Holds(d, x), x < d.n
    PROVE  LET e == PushPkt(d, x)
           IN  /\ e.inds \in [Rows -> Rows]
               /\ e.pkts \in [Rows -> Rows \cup {NoPkt}]
               /\ Distinct(e.inds, e.cur_ind)
               /\ \A r \in 0 .. e.cur_ind - 1 : e.pkts[r] = e.inds[r] /\ e.inds[r] < e.n
<1> USE CodeInfoAssumption
<1> DEFINE c == d.cur_ind
           inds == [d.inds EXCEPT ![c] = x]
           pkts == [d.pkts EXCEPT ![c] = x]
           e == PushPkt(d, x)
<1>1. e = [d EXCEPT !.inds = inds, !.pkts = pkts, !.cur_ind = @ + 1]
  BY DEF PushPkt
<1>2. c \in Nat /\ 0 .. c \subseteq Rows
  BY DEF Rows
<1>3. /\ inds \in [Rows -> Rows] /\ pkts \in [Rows -> Rows \cup {NoPkt}]
      /\ inds[c] = x /\ pkts[c] = x
      /\ \A r \in 0 .. c - 1 : inds[r] = d.inds[r] /\ pkts[r] = d.pkts[r]
  BY <1>2
<1> HIDE DEF inds, pkts, e
<1>4. e.inds = inds /\ e.pkts = pkts /\ e.cur_ind = c + 1 /\ e.n = d.n
  BY <1>1 DEF DecoderOK
<1>5. 0 .. e.cur_ind - 1 = (0 .. c - 1) \cup {c}
  BY <1>2, <1>4
<1>6. \A r \in 0 .. c - 1 : d.inds[r] # x
  <2>1. \A r \in 0 .. c - 1 : r \in Rows /\ r < c
    BY <1>2
  <2> QED
    BY <2>1 DEF Holds
<1>7. \A a, b \in 0 .. c - 1 : d.inds[a] = d.inds[b] => a = b
  BY DEF Distinct
<1>8. \A a, b \in (0 .. c - 1) \cup {c} : inds[a] = inds[b] => a = b
  BY <1>3, <1>6, <1>7
<1>9. Distinct(e.inds, e.cur_ind)
  BY <1>4, <1>5, <1>8 DEF Distinct
<1>10. \A r \in (0 .. c - 1) \cup {c} : pkts[r] = inds[r] /\ inds[r] < d.n
  BY <1>3
<1> QED
  BY <1>3, <1>4, <1>5, <1>9, <1>10 DEF e

\* Before anything arrived.
LEMMA CorrectInit == ReceiveInit => Correct
<1> USE BatchAssumption, CodeInfoAssumption
<1> SUFFICES ASSUME ReceiveInit PROVE Correct
  OBVIOUS
<1>1. /\ pc = "receive" /\ decoder = NewDecoder /\ ind = 0 /\ i = 0
      /\ early = <<>> /\ handed = <<>> /\ arrived = {}
  BY DEF ReceiveInit
<1>2. /\ decoder.inds = [r \in Rows |-> 0] /\ decoder.pkts = [r \in Rows |-> NoPkt]
      /\ decoder.cur_ind = 0 /\ 0 \in Rows
  BY <1>1 DEF NewDecoder, Rows
<1>3. PacketsOK
  BY <1>1, <1>2 DEF PacketsOK, Distinct
<1>4. ArrivedOK
  BY <1>1, <1>2, FS_EmptySet DEF ArrivedOK
<1>5. CallsOK
  <2>1. early \in Seq(Rows) /\ handed \in Seq([seq : Nat, pkt : Rows, len : Nat])
        /\ DOMAIN handed = {}
    BY <1>1
  <2> QED
    BY <2>1 DEF CallsOK
<1> QED
  BY <1>3, <1>4, <1>5 DEF Correct

\* The first packet of a batch.
LEMMA CorrectNew ==
    ASSUME Control, Correct, NewBatch
    PROVE  Correct'
<1> USE BatchAssumption, CodeInfoAssumption
<1>1. PICK k \in 1 .. MAX_BATCH_SIZE, n \in 1 .. MAX_CODED, start \in 1 .. MaxStart :
          \E x \in 0 .. n - 1 :
              Push(SetCodeInfo(ClearInfo(decoder), k, n, start), x) /\ arrived' = {x}
  BY DEF NewBatch
<1>2. PICK x \in 0 .. n - 1 :
          Push(SetCodeInfo(ClearInfo(decoder), k, n, start), x) /\ arrived' = {x}
  BY <1>1
<1> DEFINE e == SetCodeInfo(ClearInfo(decoder), k, n, start)
           f == PushPkt(e, x)
<1>3. DecoderOK(e) /\ e.k = k /\ e.n = n /\ e.start_seq = start /\ e.cur_ind = 0
  BY NewDecoderOK
<1>4. e.inds = [r \in Rows |-> 0] /\ e.pkts = [r \in Rows |-> NoPkt]
  BY DEF SetCodeInfo, ClearInfo, NewDecoder
<1> HIDE DEF e
<1>5. x \in Rows /\ 0 \in Rows /\ \A r \in Rows : ~(r < 0)
  BY DEF Rows
<1>6. decoder' = f /\ ind' = x /\ pc' = IF x < k THEN "early" ELSE "check"
  BY <1>2, <1>3 DEF Push, CanPush, e
<1>7. early' = <<>> /\ handed' = <<>> /\ UNCHANGED i
  BY DEF NewBatch
<1>8. /\ f.inds \in [Rows -> Rows] /\ f.pkts \in [Rows -> Rows \cup {NoPkt}]
      /\ Distinct(f.inds, f.cur_ind)
      /\ \A r \in 0 .. f.cur_ind - 1 : f.pkts[r] = f.inds[r] /\ f.inds[r] < f.n
  <2>1. e.inds \in [Rows -> Rows] /\ e.pkts \in [Rows -> Rows \cup {NoPkt}]
    BY <1>4, <1>5
  <2>2. ~Holds(e, x)
    BY <1>3, <1>5 DEF Holds
  <2>3. Distinct(e.inds, e.cur_ind) /\ e.cur_ind \in Rows
    BY <1>3, <1>5 DEF Distinct
  <2>4. \A r \in 0 .. e.cur_ind - 1 : e.pkts[r] = e.inds[r] /\ e.inds[r] < e.n
    BY <1>3
  <2>5. x < e.n
    BY <1>3
  <2> HIDE DEF f
  <2> QED
    BY <1>3, <1>5, <2>1, <2>2, <2>3, <2>4, <2>5, PushedRight DEF f
<1>9. f.k = k /\ f.cur_ind = 1
  <2>1. x \in Nat
    OBVIOUS
  <2>2. f.k = e.k /\ f.cur_ind = e.cur_ind + 1
    BY <1>3, <2>1, PushedOK
  <2> HIDE DEF f
  <2> QED
    BY <1>3, <2>2
<1> HIDE DEF f
<1>10. PacketsOK'
  BY <1>5, <1>6, <1>7, <1>8, <1>9 DEF Correct, PacketsOK, Filling
<1>11. ArrivedOK'
  <2>1. IsFiniteSet({x}) /\ Cardinality({x}) = 1
    BY FS_Singleton
  <2> QED
    BY <1>2, <1>5, <1>6, <1>9, <2>1 DEF ArrivedOK
<1>12. CallsOK'
  <2>1. early' \in Seq(Rows) /\ handed' \in Seq([seq : Nat, pkt : Rows, len : Nat])
        /\ DOMAIN handed' = {}
    BY <1>7
  <2> QED
    BY <2>1 DEF CallsOK
<1> QED
  BY <1>10, <1>11, <1>12 DEF Correct

\* One that is new to the decoder.
LEMMA CorrectUseful ==
    ASSUME Control, Correct, UsefulPkt
    PROVE  Correct'
<1> USE BatchAssumption, CodeInfoAssumption
<1> DEFINE d == decoder
<1>1. PICK x \in 0 .. d.n - 1 :
          IsUseful(x) /\ Push(d, x) /\ arrived' = arrived \cup {x}
  BY DEF UsefulPkt
<1> DEFINE f == PushPkt(d, x)
<1>2. pc = "receive" /\ batch_id > 0 /\ ~decoded /\ ~Holds(d, x)
  BY <1>1 DEF UsefulPkt, At, IsUseful, IsIndExist, Holds
<1>3. d.cur_ind < d.k /\ d.k <= d.n
  BY <1>2 DEF Control, CountOK, BatchOK
<1>4. /\ DecoderOK(d) /\ d.k \in 0 .. MAX_BATCH_SIZE /\ d.n \in 0 .. MAX_CODED
      /\ d.cur_ind \in Nat /\ 0 .. d.n - 1 \subseteq Rows
  BY Counts
<1>5. d.cur_ind \in Rows /\ x \in Rows
  BY <1>3, <1>4
<1>6. /\ decoder' = f /\ ind' = x /\ pc' = IF x < d.k THEN "early" ELSE "check"
      /\ UNCHANGED <<early, i, decoded, handed>>
  BY <1>1, <1>3, <1>4 DEF Push, CanPush, UsefulPkt
<1>7. Filling /\ Filling'
  BY <1>2, <1>6 DEF Filling
<1>8. /\ f.inds \in [Rows -> Rows] /\ f.pkts \in [Rows -> Rows \cup {NoPkt}]
      /\ Distinct(f.inds, f.cur_ind)
      /\ \A r \in 0 .. f.cur_ind - 1 : f.pkts[r] = f.inds[r] /\ f.inds[r] < f.n
  <2>1. /\ d.inds \in [Rows -> Rows] /\ d.pkts \in [Rows -> Rows \cup {NoPkt}]
        /\ Distinct(d.inds, d.cur_ind)
        /\ \A r \in 0 .. d.cur_ind - 1 : d.pkts[r] = d.inds[r] /\ d.inds[r] < d.n
    BY <1>7 DEF Correct, PacketsOK
  <2>2. x < d.n
    BY <1>4
  <2> HIDE DEF d, f
  <2> QED
    BY <1>2, <1>4, <1>5, <2>1, <2>2, PushedRight DEF f
<1>9. f.k = d.k /\ f.start_seq = d.start_seq /\ f.cur_ind = d.cur_ind + 1
  <2>1. x \in Nat
    OBVIOUS
  <2> QED
    BY <1>4, <2>1, PushedOK
<1> HIDE DEF f
<1>10. PacketsOK'
  <2>1. f.cur_ind \in 0 .. MAX_CODED
    BY <1>3, <1>4, <1>9
  <2>2. i \in 0 .. MAX_BATCH_SIZE
    BY DEF Correct, PacketsOK
  <2> QED
    BY <1>5, <1>6, <1>8, <2>1, <2>2 DEF PacketsOK
<1>11. ArrivedOK'
  <2>1. /\ arrived \subseteq Rows /\ IsFiniteSet(arrived) /\ Cardinality(arrived) <= d.cur_ind
        /\ \A y \in arrived : y < d.k => IsEarly(y)
    BY <1>2, <1>7 DEF Correct, ArrivedOK
  <2>2. /\ IsFiniteSet(arrived \cup {x})
        /\ Cardinality(arrived \cup {x}) =
             IF x \in arrived THEN Cardinality(arrived) ELSE Cardinality(arrived) + 1
    BY <2>1, FS_AddElement
  <2>3. Cardinality(arrived) \in Nat
    BY <2>1, FS_CardinalityType
  <2>4. Cardinality(arrived') <= f.cur_ind
    BY <1>1, <1>4, <1>9, <2>1, <2>2, <2>3
  <2>5. \A y \in arrived' : y < d.k => IsEarly(y) \/ (pc' = "early" /\ y = x)
    BY <1>1, <1>6, <2>1
  <2>6. arrived' \subseteq Rows /\ IsFiniteSet(arrived')
    BY <1>1, <1>5, <2>1, <2>2
  <2> QED
    BY <1>6, <1>9, <2>4, <2>5, <2>6 DEF ArrivedOK, IsEarly
<1>12. CallsOK'
  <2>1. pc' # "late"
    BY <1>6
  <2> QED
    BY <1>6, <1>7, <1>9, <2>1 DEF Correct, CallsOK, IsEarly
<1> QED
  BY <1>10, <1>11, <1>12 DEF Correct

\* One more call of EnqueuePkt, for a packet that was not handed over before.
LEMMA CallRight ==
    ASSUME NEW S, NEW calls \in Seq(S), NEW c \in S,
           \A a \in DOMAIN calls : calls[a].pkt # c.pkt,
           \A a, b \in DOMAIN calls : calls[a].pkt = calls[b].pkt => a = b
    PROVE  LET more == Append(calls, c)
           IN  /\ more \in Seq(S)
               /\ \A a \in DOMAIN more :
                      more[a] = c \/ \E b \in DOMAIN calls : more[a] = calls[b]
               /\ \A a, b \in DOMAIN more : more[a].pkt = more[b].pkt => a = b
<1> DEFINE more == Append(calls, c)
<1>1. /\ more \in Seq(S) /\ Len(more) = Len(calls) + 1
      /\ \A j \in 1 .. Len(calls) : more[j] = calls[j]
      /\ more[Len(calls) + 1] = c
  BY AppendProperties
<1>2. /\ Len(calls) \in Nat /\ DOMAIN calls = 1 .. Len(calls)
      /\ DOMAIN more = (1 .. Len(calls)) \cup {Len(calls) + 1}
  BY <1>1
<1> HIDE DEF more
<1>3. \A a, b \in DOMAIN more : more[a].pkt = more[b].pkt => a = b
  BY <1>1, <1>2
<1> QED
  BY <1>1, <1>2, <1>3 DEF more

\* An early packet is the one that has just arrived.
LEMMA CorrectEarly ==
    ASSUME Control, Handing, Correct, EarlyEnqueue
    PROVE  Correct'
<1> DEFINE S == [seq : Nat, pkt : Rows, len : Nat]
           c == [seq |-> decoder.start_seq + ind, pkt |-> ind, len |-> ind]
<1>1. /\ pc = "early" /\ pc' = "check" /\ early' = Append(early, ind)
      /\ handed' = Append(handed, c)
      /\ UNCHANGED <<decoder, ind, i, decoded, arrived>>
  BY DEF EarlyEnqueue, EnqueuePkt, At
<1>2. ~decoded /\ ind < decoder.k
  BY <1>1 DEF Control, BatchOK
<1>3. Filling /\ Filling'
  BY <1>1, <1>2 DEF Filling
<1>4. ind \in Rows /\ ind \in Nat /\ decoder.start_seq \in Nat /\ decoder.k \in Nat
  <2>1. ind \in Rows
    BY DEF Correct, PacketsOK
  <2> QED
    BY <2>1, Counts
<1>5. ~IsEarly(ind)
  BY <1>1, <1>2 DEF Handing, FillOK, IsEarly
<1>6. /\ early \in Seq(Rows) /\ handed \in Seq(S)
      /\ \A a \in DOMAIN handed :
            /\ handed[a].pkt \in 0 .. decoder.k - 1
            /\ handed[a].seq = decoder.start_seq + handed[a].pkt
            /\ handed[a].len = handed[a].pkt
            /\ IsEarly(handed[a].pkt)
      /\ \A a, b \in DOMAIN handed : handed[a].pkt = handed[b].pkt => a = b
  BY <1>3 DEF Correct, CallsOK
<1>7. c \in S /\ c.pkt = ind /\ c.seq = decoder.start_seq + ind /\ c.len = ind
  BY <1>4
<1> HIDE DEF c, S
<1>8. /\ handed' \in Seq(S)
      /\ \A a \in DOMAIN handed' :
             handed'[a] = c \/ \E b \in DOMAIN handed : handed'[a] = handed[b]
      /\ \A a, b \in DOMAIN handed' : handed'[a].pkt = handed'[b].pkt => a = b
  <2>1. \A a \in DOMAIN handed : handed[a].pkt # c.pkt
    BY <1>5, <1>6, <1>7
  <2> QED
    BY <1>1, <1>6, <1>7, <2>1, CallRight
<1>9. /\ early' \in Seq(Rows)
      /\ \A y : (\E j \in DOMAIN early' : early'[j] = y) <=> IsEarly(y) \/ y = ind
  <2>1. /\ early' \in Seq(Rows) /\ Len(early') = Len(early) + 1
        /\ \A j \in 1 .. Len(early) : early'[j] = early[j]
        /\ early'[Len(early) + 1] = ind
    BY <1>1, <1>4, <1>6, AppendProperties
  <2>2. /\ Len(early) \in Nat /\ DOMAIN early = 1 .. Len(early)
        /\ DOMAIN early' = (1 .. Len(early)) \cup {Len(early) + 1}
    BY <1>6, <2>1
  <2> QED
    BY <2>1, <2>2 DEF IsEarly
<1>10. PacketsOK'
  BY <1>1, <1>3 DEF Correct, PacketsOK
<1>11. ArrivedOK'
  BY <1>1, <1>3, <1>9 DEF Correct, ArrivedOK, IsEarly
<1>12. CallsOK'
  <2>1. \A a \in DOMAIN handed' :
            /\ handed'[a].pkt \in 0 .. decoder.k - 1
            /\ handed'[a].seq = decoder.start_seq + handed'[a].pkt
            /\ handed'[a].len = handed'[a].pkt
            /\ \E j \in DOMAIN early' : early'[j] = handed'[a].pkt
    <3> SUFFICES ASSUME NEW a \in DOMAIN handed'
                 PROVE  /\ handed'[a].pkt \in 0 .. decoder.k - 1
                        /\ handed'[a].seq = decoder.start_seq + handed'[a].pkt
                        /\ handed'[a].len = handed'[a].pkt
                        /\ \E j \in DOMAIN early' : early'[j] = handed'[a].pkt
      OBVIOUS
    <3>1. CASE handed'[a] = c
      <4>1. ind \in 0 .. decoder.k - 1
        BY <1>2, <1>4
      <4> QED
        BY <1>7, <1>9, <3>1, <4>1
    <3>2. ASSUME NEW b \in DOMAIN handed, handed'[a] = handed[b]
          PROVE  /\ handed'[a].pkt \in 0 .. decoder.k - 1
                 /\ handed'[a].seq = decoder.start_seq + handed'[a].pkt
                 /\ handed'[a].len = handed'[a].pkt
                 /\ \E j \in DOMAIN early' : early'[j] = handed'[a].pkt
      BY <1>6, <1>9, <3>2
    <3> QED
      BY <1>8, <3>1, <3>2
  <2> QED
    BY <1>1, <1>8, <1>9, <2>1 DEF CallsOK, S, IsEarly
<1> QED
  BY <1>10, <1>11, <1>12 DEF Correct

\* The loop hands over packet i from row i, unless it was handed over early.
LEMMA CorrectLate ==
    ASSUME Control, Handing, Correct, LateEnqueue \/ LateSkip
    PROVE  Correct'
<1> USE BatchAssumption, CodeInfoAssumption
<1> DEFINE S == [seq : Nat, pkt : Rows, len : Nat]
           c == [seq |-> decoder.start_seq + i, pkt |-> i, len |-> i]
<1>1. /\ pc = "late" /\ i < decoder.k /\ pc' = pc /\ i' = i + 1
      /\ UNCHANGED <<early, decoded, ind, arrived>>
  BY DEF LateEnqueue, LateSkip, At, InLoop
<1>2. /\ DecoderOK(decoder) /\ decoder.k \in 0 .. MAX_BATCH_SIZE
      /\ decoder.start_seq \in Nat /\ i \in Nat /\ 0 .. decoder.k - 1 \subseteq Rows
  BY Counts
<1>3. decoder.cur_ind = i /\ i \in 0 .. decoder.k - 1 /\ i \in Rows
  BY <1>1, <1>2 DEF Control, CountOK
<1>4. decoder' = [decoder EXCEPT !.cur_ind = @ + 1]
  BY LateControl DEF MoveToNextPkt
<1>5. /\ decoder'.k = decoder.k /\ decoder'.start_seq = decoder.start_seq
      /\ decoder'.inds = decoder.inds /\ decoder'.pkts = decoder.pkts
      /\ decoder'.cur_ind = i + 1
  BY <1>2, <1>3, <1>4 DEF DecoderOK
<1>6. decoder.pkts[i] = i
  BY <1>1, <1>3 DEF Correct, PacketsOK
<1>7. ~Filling'
  BY <1>1 DEF Filling
<1>8. /\ early \in Seq(Rows) /\ handed \in Seq(S)
      /\ \A a \in DOMAIN handed :
            /\ handed[a].pkt \in 0 .. decoder.k - 1
            /\ handed[a].seq = decoder.start_seq + handed[a].pkt
            /\ handed[a].len = handed[a].pkt
            /\ IsEarly(handed[a].pkt) \/ handed[a].pkt < i
      /\ \A a, b \in DOMAIN handed : handed[a].pkt = handed[b].pkt => a = b
  BY <1>1 DEF Correct, CallsOK
<1>9. PacketsOK'
  <2>1. i + 1 \in 0 .. MAX_BATCH_SIZE /\ i + 1 \in 0 .. MAX_CODED
    BY <1>2, <1>3
  <2> QED
    BY <1>1, <1>5, <1>7, <2>1 DEF Correct, PacketsOK
<1>10. ArrivedOK'
  BY <1>1, <1>7 DEF Correct, ArrivedOK
<1>11. CallsOK'
  <2>1. CASE LateSkip
    <3>1. handed' = handed /\ IsEarly(i)
      BY <2>1 DEF LateSkip
    <3>2. \A a \in DOMAIN handed : handed[a].pkt < i => handed[a].pkt < i + 1
      BY <1>2, <1>8
    <3> QED
      BY <1>1, <1>5, <1>7, <1>8, <3>1, <3>2 DEF CallsOK, IsEarly
  <2>2. CASE LateEnqueue
    <3>1. handed' = Append(handed, c) /\ ~IsEarly(i)
      BY <1>1, <1>3, <1>6, <2>2 DEF LateEnqueue, CanPop, PopPkt, EnqueuePkt
    <3>2. c \in S /\ c.pkt = i /\ c.seq = decoder.start_seq + i /\ c.len = i
      BY <1>2, <1>3
    <3> HIDE DEF c, S
    <3>3. \A a \in DOMAIN handed : handed[a].pkt # c.pkt
      <4>1. ~(i < i)
        BY <1>2
      <4> QED
        BY <1>8, <3>1, <3>2, <4>1
    <3>4. /\ handed' \in Seq(S)
          /\ \A a \in DOMAIN handed' :
                 handed'[a] = c \/ \E b \in DOMAIN handed : handed'[a] = handed[b]
          /\ \A a, b \in DOMAIN handed' : handed'[a].pkt = handed'[b].pkt => a = b
      BY <1>8, <3>1, <3>2, <3>3, CallRight
    <3>5. \A a \in DOMAIN handed' :
              /\ handed'[a].pkt \in 0 .. decoder.k - 1
              /\ handed'[a].seq = decoder.start_seq + handed'[a].pkt
              /\ handed'[a].len = handed'[a].pkt
              /\ IsEarly(handed'[a].pkt) \/ handed'[a].pkt < i + 1
      <4> SUFFICES ASSUME NEW a \in DOMAIN handed'
                   PROVE  /\ handed'[a].pkt \in 0 .. decoder.k - 1
                          /\ handed'[a].seq = decoder.start_seq + handed'[a].pkt
                          /\ handed'[a].len = handed'[a].pkt
                          /\ IsEarly(handed'[a].pkt) \/ handed'[a].pkt < i + 1
        OBVIOUS
      <4>1. CASE handed'[a] = c
        <5>1. i < i + 1
          BY <1>2
        <5> QED
          BY <1>3, <3>2, <4>1, <5>1
      <4>2. ASSUME NEW b \in DOMAIN handed, handed'[a] = handed[b]
            PROVE  /\ handed'[a].pkt \in 0 .. decoder.k - 1
                   /\ handed'[a].seq = decoder.start_seq + handed'[a].pkt
                   /\ handed'[a].len = handed'[a].pkt
                   /\ IsEarly(handed'[a].pkt) \/ handed'[a].pkt < i + 1
        <5>1. handed[b].pkt \in 0 .. decoder.k - 1
          BY <1>8
        <5>2. handed[b].pkt < i => handed[b].pkt < i + 1
          BY <1>2, <5>1
        <5> QED
          BY <1>8, <4>2, <5>2
      <4> QED
        BY <3>4, <4>1, <4>2
    <3> QED
      BY <1>1, <1>5, <1>7, <1>8, <3>4, <3>5 DEF CallsOK, IsEarly, S
  <2> QED
    BY <2>1, <2>2
<1> QED
  BY <1>9, <1>10, <1>11 DEF Correct

\* DecodeBatch gets k different packets, and recovers the native ones.
LEMMA CorrectDecode ==
    ASSUME Control, Correct, Decode
    PROVE  Correct'
<1> USE CodeInfoAssumption
<1>1. /\ pc = "check" /\ pc' = "late" /\ i' = 0 /\ decoder' = DecodeBatch(decoder)
      /\ decoder.cur_ind >= decoder.k
      /\ UNCHANGED <<early, decoded, handed, ind, arrived>>
  BY DEF Decode, At, HaveEnough
<1>2. DecoderOK(decoder) /\ decoder.k \in Nat /\ decoder.cur_ind \in Nat
  BY Counts
<1>3. ~decoded /\ decoder.cur_ind = decoder.k
  BY <1>1, <1>2 DEF Control, BatchOK, CountOK
<1>4. Filling /\ ~Filling'
  BY <1>1, <1>3 DEF Filling
<1>5. /\ decoder.inds \in [Rows -> Rows] /\ decoder.pkts \in [Rows -> Rows \cup {NoPkt}]
      /\ Distinct(decoder.inds, decoder.k)
      /\ \A r \in 0 .. decoder.k - 1 :
            decoder.pkts[r] = decoder.inds[r] /\ decoder.inds[r] < decoder.n
  BY <1>3, <1>4 DEF Correct, PacketsOK
<1>6. /\ decoder'.inds \in [Rows -> Rows] /\ decoder'.pkts \in [Rows -> Rows \cup {NoPkt}]
      /\ \A r \in 0 .. decoder.k - 1 : decoder'.pkts[r] = r
  BY <1>1, <1>2, <1>5, DecodedRight
<1>7. /\ decoder'.k = decoder.k /\ decoder'.start_seq = decoder.start_seq
      /\ decoder'.cur_ind = 0
  BY <1>1, <1>2, DecodedOK
<1>8. PacketsOK'
  <2>1. 0 \in 0 .. MAX_BATCH_SIZE /\ 0 \in 0 .. MAX_CODED
    BY BatchAssumption
  <2> QED
    BY <1>1, <1>4, <1>6, <1>7, <2>1 DEF Correct, PacketsOK
<1>9. ArrivedOK'
  BY <1>1, <1>4 DEF Correct, ArrivedOK
<1>10. CallsOK'
  BY <1>1, <1>4, <1>7 DEF Correct, CallsOK, IsEarly
<1> QED
  BY <1>8, <1>9, <1>10 DEF Correct

\* The other steps change none of the packets.
LEMMA CorrectOther ==
    ASSUME Control, Correct,
           \/ NotYet \/ RepeatedPkt \/ IgnoredPkt \/ OthersStep \/ NothingToDecode
           \/ LateEnd \/ Finish \/ UNCHANGED allVars
    PROVE  Correct'
<1>1. /\ UNCHANGED <<decoder, ind, early, i, handed, arrived>>
      /\ \/ UNCHANGED <<pc, decoded>>
         \/ pc = "check" /\ pc' = "receive" /\ decoded' = decoded
         \/ pc' = "finish"
         \/ decoded' /\ pc' = "receive"
  <2>1. CASE NotYet \/ NothingToDecode \/ LateEnd \/ Finish
    BY <2>1 DEF NotYet, NothingToDecode, LateEnd, Finish, At
  <2>2. CASE RepeatedPkt \/ IgnoredPkt \/ OthersStep \/ UNCHANGED allVars
    BY <2>2 DEF RepeatedPkt, IgnoredPkt, OthersStep, allVars, rcvVars
  <2> QED
    BY <2>1, <2>2
<1>2. /\ Filling' => Filling
      /\ pc' = "late" => pc = "late"
      /\ Filling /\ Filling' /\ pc = "early" => pc' = "early"
  BY <1>1 DEF Filling
<1>3. PacketsOK'
  BY <1>1, <1>2 DEF Correct, PacketsOK
<1>4. ArrivedOK'
  BY <1>1, <1>2 DEF Correct, ArrivedOK, IsEarly
<1>5. CallsOK'
  BY <1>1, <1>2 DEF Correct, CallsOK, IsEarly
<1> QED
  BY <1>3, <1>4, <1>5 DEF Correct

\* What is known of the counters, of what was handed over, and of the packets, holds
\* in every state.
LEMMA CorrectInvariant == ReceiveSpec => [](Control /\ Handing /\ Correct)
<1>1. Control /\ Handing /\ Correct /\ [ReceiveNext]_allVars => Correct'
  BY CorrectNew, CorrectUseful, CorrectEarly, CorrectLate, CorrectDecode, CorrectOther
     DEF ReceiveNext
<1> QED
  BY ControlInvariant, HandingInit, HandingStep, CorrectInit, <1>1, PTL DEF ReceiveSpec

\* Every call of EnqueuePkt is right: the native packet of its sequence number, with
\* its length, and none twice, whatever packets of a batch arrive and in what order.
THEOREM ReceiveHandsRight == ReceiveSpec => []HandedRight
<1>1. Control /\ Correct => HandedRight
  <2> SUFFICES ASSUME Control, Correct PROVE HandedRight
    OBVIOUS
  <2>1. decoder.start_seq \in Nat /\ decoder.k \in Nat
    BY Counts
  <2>2. /\ \A a \in DOMAIN handed :
              /\ handed[a].pkt \in 0 .. decoder.k - 1
              /\ handed[a].seq = decoder.start_seq + handed[a].pkt
              /\ handed[a].len = handed[a].pkt
        /\ \A a, b \in DOMAIN handed : handed[a].pkt = handed[b].pkt => a = b
    BY DEF Correct, CallsOK
  <2>3. ASSUME NEW a \in DOMAIN handed, NEW b \in DOMAIN handed, handed[a].seq = handed[b].seq
        PROVE  a = b
    <3>1. handed[a].pkt = handed[b].pkt
      BY <2>1, <2>2, <2>3
    <3> QED
      BY <2>2, <3>1
  <2> QED
    BY <2>2, <2>3 DEF HandedRight
<1> QED
  BY CorrectInvariant, <1>1, PTL

\* Any k different packets of a batch are enough, and no native one waits for others.
THEOREM ReceiveAnyKSuffice == ReceiveSpec => []AnyKSuffice
<1>1. Control /\ Handing /\ Correct => AnyKSuffice
  <2> SUFFICES ASSUME Control, Handing, Correct, pc = "receive"
               PROVE  IF Cardinality(arrived) >= decoder.k /\ batch_id > 0
                      THEN decoded
                      ELSE \A x \in arrived :
                               x < decoder.k => \E a \in DOMAIN handed : handed[a].pkt = x
    BY DEF AnyKSuffice
  <2>1. /\ decoder.start_seq \in Nat /\ decoder.k \in Nat /\ decoder.cur_ind \in Nat
        /\ \A x \in Rows : x \in Nat
    BY Counts, CodeInfoAssumption DEF Rows
  <2>2. /\ IsFiniteSet(arrived) /\ arrived \subseteq Rows
        /\ \A a \in DOMAIN handed :
              /\ handed[a].pkt \in 0 .. decoder.k - 1
              /\ handed[a].seq = decoder.start_seq + handed[a].pkt
    BY DEF Correct, ArrivedOK, CallsOK
  <2>3. ASSUME NEW x \in arrived, x < decoder.k, Given(handed, decoder.start_seq + x)
        PROVE  \E a \in DOMAIN handed : handed[a].pkt = x
    <3>1. PICK a \in DOMAIN handed : handed[a].seq = decoder.start_seq + x
      BY <2>3 DEF Given
    <3>2. handed[a].pkt = x
      BY <2>1, <2>2, <3>1
    <3> QED
      BY <3>2
  <2>4. CASE decoded
    <3>1. ASSUME NEW x \in arrived, x < decoder.k PROVE Given(handed, decoder.start_seq + x)
      <4>1. x \in 0 .. decoder.k - 1
        BY <2>1, <2>2, <3>1
      <4> QED
        BY <2>4, <4>1 DEF Handing, GivenOK
    <3> QED
      BY <2>3, <2>4, <3>1
  <2>5. CASE ~decoded
    <3>1. Filling
      BY <2>5 DEF Filling
    <3>2. Cardinality(arrived) <= decoder.cur_ind /\ Cardinality(arrived) \in Nat
      BY <2>2, <3>1, FS_CardinalityType DEF Correct, ArrivedOK
    <3>3. batch_id > 0 => decoder.cur_ind < decoder.k
      BY <2>5 DEF Control, CountOK
    <3>4. ~(Cardinality(arrived) >= decoder.k /\ batch_id > 0)
      BY <2>1, <3>2, <3>3
    <3>5. ASSUME NEW x \in arrived, x < decoder.k PROVE Given(handed, decoder.start_seq + x)
      <4>1. IsEarly(x)
        BY <3>1, <3>5 DEF Correct, ArrivedOK
      <4> QED
        BY <4>1 DEF IsEarly, Handing, EarlyOK
    <3> QED
      BY <2>3, <3>4, <3>5
  <2> QED
    BY <2>4, <2>5
<1> QED
  BY CorrectInvariant, <1>1, PTL

\* Different numbers below k are at most k.
LEMMA FewEarly ==
    ASSUME NEW k \in Nat, NEW s \in Seq(Nat), \A j \in DOMAIN s : s[j] < k,
           \A j, l \in DOMAIN s : s[j] = s[l] => j = l
    PROVE  Len(s) <= k
<1>1. DOMAIN s = 1 .. Len(s) /\ Len(s) \in Nat
  OBVIOUS
<1>2. s \in [1 .. Len(s) -> 0 .. k - 1]
  BY <1>1
<1>3. s \in Injection(1 .. Len(s), 0 .. k - 1)
  BY <1>1, <1>2 DEF Injection, IsInjective
<1>4. /\ IsFiniteSet(0 .. k - 1)
      /\ Cardinality(0 .. k - 1) = IF 0 > k - 1 THEN 0 ELSE (k - 1) - 0 + 1
  BY FS_Interval
<1>5. Cardinality(1 .. Len(s)) = IF 1 > Len(s) THEN 0 ELSE Len(s) - 1 + 1
  BY <1>1, FS_Interval
<1>6. Cardinality(1 .. Len(s)) <= Cardinality(0 .. k - 1)
  BY <1>3, <1>4, FS_Injection
<1> QED
  BY <1>1, <1>4, <1>5, <1>6

\* RxRcvAth and its decoder keep to their types: no counter leaves its array.
THEOREM ReceiveTypes == ReceiveSpec => []ReceiveTypeOK
<1>1. Control /\ Handing /\ Correct => ReceiveTypeOK
  <2> SUFFICES ASSUME Control, Handing, Correct PROVE ReceiveTypeOK
    OBVIOUS
  <2>1. decoder \in [k : 0 .. MAX_BATCH_SIZE, n : 0 .. MAX_CODED, start_seq : Nat,
                     cur_ind : 0 .. MAX_CODED,
                     inds : [Rows -> Rows], pkts : [Rows -> Rows \cup {NoPkt}]]
    BY Counts DEF DecoderOK, Correct, PacketsOK
  <2>2. Len(early) <= MAX_BATCH_SIZE
    <3>1. Len(early) <= decoder.k
      BY Counts, FewEarly DEF Handing, EarlyOK
    <3> QED
      BY <3>1, Counts, BatchAssumption DEF Handing, EarlyOK
  <2>3. handed \in Seq([seq : Nat, pkt : Rows \cup {NoPkt}, len : Nat])
    <3>1. handed \in Seq([seq : Nat, pkt : Rows, len : Nat])
      BY DEF Correct, CallsOK
    <3>2. [seq : Nat, pkt : Rows, len : Nat]
              \subseteq [seq : Nat, pkt : Rows \cup {NoPkt}, len : Nat]
      OBVIOUS
    <3> QED
      BY <3>1, <3>2, SeqMonotonic
  <2>4. ind \in Rows /\ i \in 0 .. MAX_BATCH_SIZE /\ early \in Seq(Rows) /\ arrived \subseteq Rows
    BY DEF Correct, PacketsOK, ArrivedOK, CallsOK
  <2>5. /\ BatchTypeOK /\ decoded \in BOOLEAN /\ last_seq \in Nat
        /\ pc \in {"receive", "early", "check", "late", "finish"}
    BY DEF Control, CountersOK
  <2>6. aborted \in BOOLEAN
    BY DEF Control, CountOK
  <2> QED
    BY <2>1, <2>2, <2>3, <2>4, <2>5, <2>6 DEF ReceiveTypeOK
<1> QED
  BY CorrectInvariant, <1>1, PTL

-----------------------------------------------------------------------------
(***************************************************************************)
(* The arithmetic: what the decoder holds when a batch is decoded fulfils  *)
(* the hypotheses of AnyKPacketsDecode, and the other two properties of    *)
(* BatchDecode say of small matrices what holds for all.                   *)
(***************************************************************************)

\* What is left for decoding: different packets of the n, native ones at home.
LEMMA DecoderReady ==
    ASSUME Control, Correct, pc = "check", HaveEnough
    PROVE  LET s == Shuffle(decoder)
           IN  /\ decoder.k \in 1 .. MAX_BATCH_SIZE
               /\ decoder.n \in decoder.k .. MAX_CODED
               /\ ~s.failed
               /\ Distinct(s.inds, decoder.k)
               /\ \A r \in 0 .. decoder.k - 1 :
                     /\ s.pkts[r] = s.inds[r] /\ s.inds[r] \in 0 .. decoder.n - 1
                     /\ s.inds[r] < decoder.k => s.inds[r] = r
<1> DEFINE s == Shuffle(decoder)
<1>1. batch_id > 0 /\ ~decoded
  <2>1. batch_id \in Nat
    BY DEF Control, CountersOK, BatchTypeOK
  <2> QED
    BY <2>1 DEF Control, BatchOK
<1>2. /\ DecoderOK(decoder) /\ decoder.k \in 0 .. MAX_BATCH_SIZE
      /\ decoder.n \in 0 .. MAX_CODED /\ decoder.cur_ind \in Nat
      /\ 0 .. decoder.k - 1 \subseteq Rows
  BY Counts
<1>3. decoder.k > 0 /\ decoder.k <= decoder.n
  BY <1>1 DEF Control, BatchOK
<1>4. decoder.cur_ind = decoder.k
  BY <1>2 DEF Control, CountOK, HaveEnough
<1>5. Filling
  BY <1>1 DEF Filling
<1>6. /\ decoder.inds \in [Rows -> Rows] /\ decoder.pkts \in [Rows -> Rows \cup {NoPkt}]
      /\ Distinct(decoder.inds, decoder.k)
      /\ \A r \in 0 .. decoder.k - 1 :
            decoder.pkts[r] = decoder.inds[r] /\ decoder.inds[r] < decoder.n
  BY <1>4, <1>5 DEF Correct, PacketsOK
<1>7. /\ s.inds \in [Rows -> Rows] /\ s.failed = FALSE /\ Distinct(s.inds, decoder.k)
      /\ \A r \in 0 .. decoder.k - 1 : /\ s.pkts[r] = s.inds[r] /\ s.inds[r] < decoder.n
                                       /\ s.inds[r] >= decoder.k \/ s.inds[r] = r
  BY <1>2, <1>6, Shuffled
<1> HIDE DEF s
<1>8. ASSUME NEW r \in 0 .. decoder.k - 1
      PROVE  s.inds[r] \in 0 .. decoder.n - 1 /\ (s.inds[r] < decoder.k => s.inds[r] = r)
  <2>1. s.inds[r] \in Rows
    BY <1>2, <1>7
  <2>2. s.inds[r] \in Nat
    BY <2>1 DEF Rows
  <2> QED
    BY <1>2, <1>7, <2>2
<1>9. decoder.k \in 1 .. MAX_BATCH_SIZE /\ decoder.n \in decoder.k .. MAX_CODED
  BY <1>2, <1>3, BatchAssumption, CodeInfoAssumption
<1> QED
  BY <1>7, <1>8, <1>9 DEF s

\* Any k of the n coded packets of a batch, in whatever order they arrived, give back the
\* native packets, by the matrix that fec_new makes and the inverse that fec_decode takes.
THEOREM ReceiveDecodeRecovers == ReceiveSpec => []DecodeRecovers
<1>1. Control /\ Correct => DecodeRecovers
  <2> SUFFICES ASSUME Control, Correct, pc = "check", HaveEnough
               PROVE  LET code == Codes[decoder.k][decoder.n]
                          s == Shuffle(decoder)
                          row == [r \in 0 .. code.k - 1 |-> Contents(code, s.pkts[r])]
                      IN  ~s.failed /\ fec_decode(code, row, s.inds) = Identity(code.k)
    BY DEF DecodeRecovers
  <2> DEFINE k == decoder.k
             n == decoder.n
             s == Shuffle(decoder)
             code == fec_new(k, n)
             row == [r \in Ix(k) |-> Contents(code, s.pkts[r])]
  <2>1. /\ k \in 1 .. MAX_BATCH_SIZE /\ n \in k .. MAX_CODED /\ ~s.failed
        /\ Distinct(s.inds, k)
        /\ \A r \in 0 .. k - 1 : /\ s.pkts[r] = s.inds[r] /\ s.inds[r] \in 0 .. n - 1
                                 /\ s.inds[r] < k => s.inds[r] = r
    BY DecoderReady
  <2> HIDE DEF k, n, s
  <2>2. /\ MAX_BATCH_SIZE \in Nat /\ MAX_CODED \in Nat /\ MAX_BATCH_SIZE <= MAX_CODED
        /\ MAX_CODED <= GF_SIZE + 1 /\ GF_SIZE \in Nat
    BY BatchAssumption, CodeInfoAssumption, DecodeAssumption, GfCardinality
  <2>3. k \in Nat \ {0} /\ n \in Nat /\ k <= n /\ n <= GF_SIZE + 1 /\ n \in 1 .. MAX_CODED
    BY <2>1, <2>2
  <2>4. Codes[k][n] = code
    BY <2>1, <2>3 DEF Codes
  <2>5. code.k = k
    BY DEF fec_new
  <2>6. Identity(k) \in [Ix(k) -> Vec(Ix(k))]
    <3>1. \A r \in Ix(k) : UnitRow(r, k) \in Vec(Ix(k))
      BY <2>3, UnitRowIs
    <3> QED
      BY <3>1 DEF Identity, Ix
  <2> HIDE DEF code
  <2>7. \A r \in Ix(k) : row[r] = fec_encode(code, Identity(k), s.inds[r])
    BY <2>1, <2>5 DEF Contents, Ix
  <2>8. /\ \A r \in Ix(k) : s.inds[r] \in 0 .. n - 1
        /\ \A a, b \in Ix(k) : s.inds[a] = s.inds[b] => a = b
        /\ \A r \in Ix(k) : s.inds[r] < k => s.inds[r] = r
    BY <2>1 DEF Distinct, Ix
  <2>9. fec_decode(code, row, s.inds) = Identity(k)
    <3> DEFINE f == s.inds
               src == Identity(k)
    <3>1. /\ \A r \in Ix(k) : f[r] \in 0 .. n - 1
          /\ \A a, b \in Ix(k) : f[a] = f[b] => a = b
          /\ \A r \in Ix(k) : f[r] < k => f[r] = r
          /\ \A r \in Ix(k) : row[r] = fec_encode(fec_new(k, n), src, f[r])
      BY <2>7, <2>8 DEF code
    <3>2. src \in [Ix(k) -> Vec(Ix(k))]
      BY <2>6
    <3> HIDE DEF f, src, row
    <3>3. fec_decode(fec_new(k, n), row, f) = src
      BY <2>3, <3>1, <3>2, AnyKPacketsDecode
    <3> QED
      BY <3>3 DEF f, src, code
  <2>10. [r \in 0 .. code.k - 1 |-> Contents(code, s.pkts[r])] = row
    BY <2>5 DEF Ix
  <2> QED
    BY <2>1, <2>4, <2>5, <2>9, <2>10 DEF k, n, s
<1> QED
  BY CorrectInvariant, <1>1, PTL

\* The tables that init_mul_table and generate_gf leave are those of the multiplication and
\* the division of polynomials.
THEOREM ReceiveTablesMultiply == ReceiveSpec => []TablesMultiply
<1>1. TablesMultiply
  BY TablesAreRight DEF TablesMultiply
<1> QED
  BY <1>1, PTL

\* invert_mat inverts every matrix that has an inverse, wherever its pivots are, and
\* reports the others.
THEOREM ReceiveInvertsMatrices == ReceiveSpec => []InvertsMatrices
<1>1. ASSUME NEW k \in Nat \ {0}, NEW E, E \subseteq gf, NEW m \in Matrices(E, k)
      PROVE  /\ m \in Mat(Ix(k))
             /\ invert_mat(m, k).error <=> Singular(m, Ix(k))
             /\ ~invert_mat(m, k).error =>
                   matmul(m, invert_mat(m, k).matrix) = Identity(k)
  <2>1. m \in [0 .. k - 1 -> [0 .. k - 1 -> gf]]
    <3>1. m \in [0 .. k - 1 -> [0 .. k - 1 -> E]]
      BY <1>1 DEF Matrices
    <3>2. [0 .. k - 1 -> E] \subseteq [0 .. k - 1 -> gf]
      BY <1>1
    <3> QED
      BY <3>1, <3>2
  <2>2. m \in Mat(Ix(k))
    BY <2>1 DEF Mat, Vec, Ix
  <2> QED
    BY <2>2, InvertMatReports
<1>2. ASSUME NEW m \in Matrices(gf, 2)
      PROVE  /\ invert_mat(m, 2).error <=> Determinant(m) = Zero
             /\ ~invert_mat(m, 2).error => matmul(m, invert_mat(m, 2).matrix) = Identity(2)
  <2>1. /\ m \in Mat(Ix(2))
        /\ invert_mat(m, 2).error <=> Singular(m, Ix(2))
        /\ ~invert_mat(m, 2).error => matmul(m, invert_mat(m, 2).matrix) = Identity(2)
    BY <1>1
  <2>2. /\ m[0][0] \in gf /\ m[0][1] \in gf /\ m[1][0] \in gf /\ m[1][1] \in gf
    <3>1. 0 \in 0 .. 2 - 1 /\ 1 \in 0 .. 2 - 1
      OBVIOUS
    <3> QED
      BY <3>1 DEF Matrices
  <2>3. Determinant(m) = Plus(Times(m[0][0], m[1][1]), Times(m[0][1], m[1][0]))
    <3>1. \A x, y \in gf : Product(x, y) = Times(x, y)
      BY TablesAreRight DEF Times
    <3> QED
      BY <2>2, <3>1 DEF Determinant
  <2>4. Singular(m, Ix(2)) <=> Determinant(m) = Zero
    BY <2>1, <2>3, SingularTwo
  <2> QED
    BY <2>1, <2>4
<1>3. ASSUME NEW m \in Matrices({Zero, One}, 3)
      PROVE  ~invert_mat(m, 3).error => matmul(m, invert_mat(m, 3).matrix) = Identity(3)
  <2>1. {Zero, One} \subseteq gf
    BY FieldLaws
  <2> QED
    BY <1>1, <2>1
<1>4. InvertsMatrices
  BY <1>2, <1>3 DEF InvertsMatrices
<1> QED
  BY <1>4, PTL
=============================================================================
