------------------------------- MODULE AckPkt -------------------------------
(***************************************************************************)
(* AckPkt, the acknowledgement both kinds of report are sent in: the first *)
(* missing sequence number, and every missing number as a 16-bit distance  *)
(* from it.  The two threads that fill one push the numbers in increasing  *)
(* order, into an object of their own, so a whole list is pushed at once   *)
(* here and the array of distances is the set of them.                     *)
(***************************************************************************)
EXTENDS Integers, FiniteSets

CONSTANTS
    ACK_WINDOW,   \* how many nacks the packet has room for
    REL_SIZE      \* how many values a relative number has: 2^16

ASSUME AckPktAssumption ==
    /\ ACK_WINDOW \in Nat \ {0}
    /\ REL_SIZE \in Nat \ {0}

\* The number the others are counted from.
FirstNack(nacks) == CHOOSE s \in nacks : \A t \in nacks : s <= t

\* A relative number is cut to its width.
Bug_RelSeq(seq, start) == (seq - start) % (REL_SIZE - 1)
RelSeq(seq, start) == (seq - start) % REL_SIZE

\* PushNack, for each of the nacks.
PushNacks(nacks) ==
    LET start == IF nacks = {} THEN 0 ELSE FirstNack(nacks) IN
    [num_nacks      |-> Cardinality(nacks),
     start_nack_seq |-> start,
     rel_seq_arr    |-> {RelSeq(s, start) : s \in nacks}]

IsAckFull(pkt) == pkt.num_nacks >= ACK_WINDOW

\* What the controller reads out of it.
ParseNack(pkt) == {r + pkt.start_nack_seq : r \in pkt.rel_seq_arr}
=============================================================================
