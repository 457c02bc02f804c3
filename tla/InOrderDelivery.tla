--------------------------- MODULE InOrderDelivery ---------------------------
(***************************************************************************)
(* What a reordering buffer promises to the thread that takes packets out  *)
(* of it: packets are settled one after the other, each one delivered if   *)
(* it is there and skipped if it is not.  A packet that was accepted is    *)
(* never lost, none is delivered twice or out of turn, and none is skipped *)
(* but for the sake of a later one that is waiting.                        *)
(***************************************************************************)
EXTENDS Naturals

CONSTANT CAPACITY   \* how many packets past the last settled one may be kept

VARIABLES
    settled,   \* every packet up to this one was delivered or skipped
    pending,   \* packets accepted and not delivered
    last       \* the last packet delivered

deliveryVars == <<settled, pending, last>>

DeliveryInit == settled = 0 /\ pending = {} /\ last = 0

Accept ==
    /\ \E s \in settled + 1 .. settled + CAPACITY : pending' = pending \cup {s}
    /\ UNCHANGED <<settled, last>>

Deliver ==
    /\ settled + 1 \in pending
    /\ settled' = settled + 1
    /\ pending' = pending \ {settled + 1}
    /\ last' = settled + 1

Skip ==
    /\ settled + 1 \notin pending
    /\ pending # {}
    /\ settled' = settled + 1
    /\ UNCHANGED <<pending, last>>

DeliveryNext == Accept \/ Deliver \/ Skip

DeliverySpec == DeliveryInit /\ [][DeliveryNext]_deliveryVars
=============================================================================
