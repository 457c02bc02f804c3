---------------------------- MODULE RxDataBufLive ----------------------------
(***************************************************************************)
(* What the threads of RxDataBuf eventually do.                            *)
(*                                                                         *)
(* Each thread is scheduled and gets a mutex it asks for again and again   *)
(* (strong fairness on the steps of its call); the clock advances, so the  *)
(* time left for a batch runs out and a packet that stays blocked is found *)
(* overdue; the packets of a batch are finitely many, so RxRcvAth restarts *)
(* the clock of a batch finitely often.  Nothing obliges the sender to     *)
(* send: the calls themselves are not fair.                                *)
(***************************************************************************)
EXTENDS RxDataBufDelivery

EnqueueStep(p) ==
    \/ EnqueueLock(p) \/ EnqueueFull(p) \/ EnqueueStore(p)
    \/ EnqueueReset(p) \/ EnqueueClear(p)

Fairness ==
    /\ \A p \in Producers : SF_vars(EnqueueStep(p))
    /\ SF_vars(Dequeue)
    /\ SF_vars(FindNack)
    /\ SF_vars(AckAssert /\ due')
    /\ WF_vars(BatchTimeOut)
    /\ <>[][~PacketOfBatch]_vars

FairSpec == Spec /\ Fairness

\* RxWriteTun is never stuck while packets wait for it: either none is left in the ring,
\* again and again, or it moves on again and again, whatever is lost before them and
\* although it may sleep on a missing packet that arrives, is overdue, or fills the buffer.
PendingDelivered ==
    []<>(Pending = {} \/ aborted) \/ []<><<head' > head>>_vars

\* A call of EnqueuePkt returns, although it may have to wait for RxWriteTun,
\* which may itself be waiting for a packet that was lost.
EnqueueReturns ==
    \A p \in Producers : enq[p].pc = "lock" ~> (enq[p].pc = "idle" \/ aborted)
=============================================================================
