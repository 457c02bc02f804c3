------------------------------ MODULE CodeInfo -------------------------------
(***************************************************************************)
(* CodeInfo as a decoder: the coded packets of one batch, and the recovery *)
(* of its k native packets from any k of its n coded ones.  It is used by  *)
(* one thread.                                                             *)
(*                                                                         *)
(* A packet is represented by its coding index: i for native packet i when *)
(* i < k, and for a combination of the native packets otherwise.  The      *)
(* matrix arithmetic is abstracted to what it is for: k coded packets with *)
(* distinct indices determine the native ones.                             *)
(***************************************************************************)
EXTENDS Integers

CONSTANT MAX_CODED   \* bound: n at most, GF_SIZE + 1 in the code

ASSUME CodeInfoAssumption == MAX_CODED \in Nat \ {0}

NoPkt == -1          \* what a zeroed buffer, or a wrong combination, holds
Rows == 0 .. MAX_CODED - 1

\* The constructor leaves the arrays unset; ClearInfo comes before their first use.
NewDecoder ==
    [k |-> 0, n |-> 0, start_seq |-> 0, cur_ind |-> 0,
     inds |-> [r \in Rows |-> 0], pkts |-> [r \in Rows |-> NoPkt]]

Bug_ClearInfo(d) == [NewDecoder EXCEPT !.cur_ind = d.cur_ind]
ClearInfo(d) == NewDecoder

SetCodeInfo(d, k, n, start) == [d EXCEPT !.k = k, !.n = n, !.start_seq = start]

\* IsIndExist(inds(), coding_pkt_cnt(), ind)
IsIndExist(d, ind) == \E r \in Rows : r < d.cur_ind /\ d.inds[r] = ind

\* PushPkt, and when it refuses.
CanPush(d, ind) == ind < d.n /\ d.cur_ind < d.n
PushPkt(d, ind) ==
    [d EXCEPT !.inds[d.cur_ind] = ind, !.pkts[d.cur_ind] = ind, !.cur_ind = @ + 1]

-----------------------------------------------------------------------------
(* fec_decode *)

\* One round of shuffle's loop, at position pos: native packets go to their own
\* rows, and two packets that want the same row are an error.
SwapRows(f, a, b) == [f EXCEPT ![a] = f[b], ![b] = f[a]]

Bug_ShuffleStep(s, k) ==
    LET c == s.inds[s.pos] IN
    IF s.failed \/ s.pos >= k THEN s
    ELSE IF c >= k \/ c = s.pos THEN [s EXCEPT !.pos = @ + 1]
    ELSE IF s.inds[c] = c THEN [s EXCEPT !.failed = TRUE]
    ELSE [s EXCEPT !.inds = SwapRows(@, s.pos, c)]
ShuffleStep(s, k) ==
    LET c == s.inds[s.pos] IN
    IF s.failed \/ s.pos >= k THEN s
    ELSE IF c >= k \/ c = s.pos THEN [s EXCEPT !.pos = @ + 1]
    ELSE IF s.inds[c] = c THEN [s EXCEPT !.failed = TRUE]
    ELSE [s EXCEPT !.inds = SwapRows(@, s.pos, c), !.pkts = SwapRows(@, s.pos, c)]

\* The loop ends after at most k swaps and k steps forward.
Shuffle(d) ==
    LET start == [pos |-> 0, inds |-> d.inds, pkts |-> d.pkts, failed |-> FALSE]
        run[t \in 0 .. 2 * d.k] == IF t = 0 THEN start ELSE ShuffleStep(run[t - 1], d.k)
    IN run[2 * d.k]

\* The decoding matrix is invertible when its rows belong to different indices.
IsInvertible(inds, k) == \A a, b \in 0 .. k - 1 : inds[a] = inds[b] => a = b

\* The rows that hold a combination are replaced by the native packet, if every
\* row holds what its index says.
Recover(s, k) ==
    LET isRight == \A r \in 0 .. k - 1 : s.pkts[r] = s.inds[r] IN
    [r \in Rows |-> IF r < k /\ s.inds[r] >= k
                    THEN IF isRight THEN r ELSE NoPkt
                    ELSE s.pkts[r]]

\* DecodeBatch goes on after a failure, with what is there.
DecodeBatch(d) ==
    LET s == Shuffle(d) IN
    [d EXCEPT !.inds = s.inds,
              !.pkts = IF ~s.failed /\ IsInvertible(s.inds, d.k) THEN Recover(s, d.k)
                                                                 ELSE s.pkts,
              !.cur_ind = 0]

\* PopPkt: when it refuses, which packet and which length it returns.
CanPop(d) == d.cur_ind < d.k
PopPkt(d) == [pkt |-> d.pkts[d.cur_ind], len |-> d.cur_ind]
MoveToNextPkt(d) == [d EXCEPT !.cur_ind = @ + 1]
=============================================================================
