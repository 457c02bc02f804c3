----------------------------- MODULE AckPktProofs ----------------------------
(***************************************************************************)
(* AckPkt for every ACK_WINDOW and REL_SIZE: what ParseNack reads is what  *)
(* PushNack wrote, for the reports of both kinds.                          *)
(***************************************************************************)
EXTENDS AckPkt, FiniteSetTheorems, WellFoundedInduction, TLAPS

\* The first of a finite set of numbers exists: the one below which the fewest
\* members of the set lie.
LEMMA FirstExists ==
    ASSUME NEW nacks \in SUBSET Nat, IsFiniteSet(nacks), nacks # {}
    PROVE  \E s \in nacks : \A t \in nacks : s <= t
<1> DEFINE below(s) == {t \in nacks : t < s}
           downs == {below(s) : s \in nacks}
<1>1. downs \subseteq FiniteSubsetsOf(nacks) /\ downs # {}
  <2>1. \A s \in nacks : below(s) \in SUBSET nacks
    OBVIOUS
  <2>2. \A e \in SUBSET nacks : IsFiniteSet(e)
    BY FS_Subset
  <2> HIDE DEF below
  <2> QED
    BY <2>1, <2>2 DEF FiniteSubsetsOf
<1>2. PICK d \in downs : \A e \in downs : <<e, d>> \notin StrictSubsetOrdering(nacks)
  BY <1>1, FS_StrictSubsetOrderingWellFounded, WFMin
<1>3. PICK s \in nacks : d = below(s)
  OBVIOUS
<1>4. ASSUME NEW t \in nacks, t < s PROVE FALSE
  <2>1. below(t) \subseteq below(s) /\ t \in below(s) /\ t \notin below(t)
    <3>1. \A u \in nacks : u \in Nat
      OBVIOUS
    <3>2. \A u \in nacks : u < t => u < s
      BY <1>4, <3>1
    <3>3. ~ (t < t)
      BY <3>1
    <3> QED
      BY <1>4, <3>2, <3>3
  <2>2. <<below(t), below(s)>> \in StrictSubsetOrdering(nacks)
    BY <2>1 DEF StrictSubsetOrdering
  <2> QED
    BY <1>2, <1>3, <2>2
<1> QED
  BY <1>4

\* FirstNack, the start_nack_seq_ of the packet, is a nack below all others.
LEMMA FirstNackLeast ==
    ASSUME NEW nacks \in SUBSET Nat, IsFiniteSet(nacks), nacks # {}
    PROVE  FirstNack(nacks) \in nacks /\ \A t \in nacks : FirstNack(nacks) <= t
BY FirstExists DEF FirstNack

\* The controller reads the nacks that were pushed, if they lie close enough
\* together for the width of a relative number.
THEOREM ParsePushed ==
    ASSUME NEW nacks \in SUBSET Nat, IsFiniteSet(nacks),
           \A s, t \in nacks : s - t < REL_SIZE
    PROVE  ParseNack(PushNacks(nacks)) = nacks
<1>1. CASE nacks = {}
  BY <1>1 DEF ParseNack, PushNacks
<1>2. CASE nacks # {}
  <2> DEFINE start == FirstNack(nacks)
  <2>1. start \in nacks /\ \A t \in nacks : start <= t
    BY <1>2, FirstNackLeast
  <2>2. PushNacks(nacks).start_nack_seq = start
    BY <1>2 DEF PushNacks
  <2>3. PushNacks(nacks).rel_seq_arr = {RelSeq(s, start) : s \in nacks}
    BY <1>2 DEF PushNacks
  <2> HIDE DEF start
  <2>4. \A s \in nacks : RelSeq(s, start) = s - start
    BY <2>1, AckPktAssumption DEF RelSeq
  <2>5. ParseNack(PushNacks(nacks)) = {r + start : r \in {s - start : s \in nacks}}
    BY <2>2, <2>3, <2>4 DEF ParseNack
  <2>6. \A s \in nacks : (s - start) + start = s
    BY <2>1
  <2>7. {r + start : r \in {s - start : s \in nacks}} = {(s - start) + start : s \in nacks}
    OBVIOUS
  <2>8. {(s - start) + start : s \in nacks} = {s : s \in nacks}
    BY <2>6
  <2> QED
    BY <2>5, <2>7, <2>8
<1> QED
  BY <1>1, <1>2
=============================================================================
