----------------------------- MODULE ClientProofs ----------------------------
(***************************************************************************)
(* The client's threads at their devices, for every number of radios, of   *)
(* packets, and of reports: what they hand on is what arrived, the inputs  *)
(* that end the client, what a reading of the GPS device is made of, and   *)
(* that every command line has its effect.                                 *)
(***************************************************************************)
EXTENDS Client, GPSParser, FiniteSetTheorems, SequenceTheorems, WellFoundedInduction, TLAPS

\* A number below the modulus is its own remainder.
LEMMA ModSmall ==
    ASSUME NEW n \in Nat \ {0}, NEW a \in 0 .. n - 1
    PROVE  a % n = a
OBVIOUS

\* The modulus has the remainder 0.
LEMMA ModSelf ==
    ASSUME NEW n \in Nat \ {0}
    PROVE  n % n = 0
OBVIOUS

-----------------------------------------------------------------------------
(***************************************************************************)
(* Packets.  The packet a failed read leaves in the buffer of RxRcvAth was *)
(* handled in the round before, so that its decoder has no use for it any  *)
(* more.  As long as the decoder wants packets it holds fewer than K, so   *)
(* that there is room for one of the N.                                    *)
(***************************************************************************)
Buffers ==
    [pkt : AthPkts \cup {Unfilled}, batch_id : Nat, inds : SUBSET (0 .. N - 1),
     time_left : Int]

\* The time left for the batch of the buffer's packet, as long as it is not decoded.
HasTime(c) ==
    c.pkt.kind = "code" /\ IsMine(c.pkt) /\ c.pkt.batch = c.batch_id /\ ~IsDecoded(c)
        => c.time_left >= Duration(c.pkt, Size(c.pkt))

\* What RxRcvAth left in its buffer: nothing it would stop at, or use.
Left(r, c) ==
    /\ c.pkt.kind \notin {"other", "bad"}
    /\ c.pkt.kind = "code" /\ IsMine(c.pkt) => c.pkt.bs = r /\ ~IsUseful(c, c.pkt)
    /\ HasTime(c)

Kept ==
    /\ rcv \in [Ids -> Buffers]
    /\ \A r \in Ids : Left(r, rcv[r])
    /\ cell_pkt = Unfilled \/ CellProper(cell_pkt)
    /\ handed.given = handed.arrived

\* Of the packets on the air only the coded ones have fields.
LEMMA CodePkt ==
    ASSUME NEW p \in AthPkts \cup {Unfilled}, p.kind = "code"
    PROVE  /\ p \in CodePkts
           /\ p.batch \in Nat /\ p.ind \in 0 .. N - 1 /\ p.len \in 0 .. MaxLen
           /\ Size(p) \in Int /\ PayloadLen(Size(p)) = p.len
<1> USE ClientAssumption
<1>1. p \in CodePkts
  BY DEF AthPkts, Dropped, Other, Bad, Unfilled
<1>2. p.batch \in Nat /\ p.ind \in 0 .. N - 1 /\ p.len \in 0 .. MaxLen
  BY <1>1 DEF CodePkts
<1>3. Size(p) = p.len + 2
  BY DEF Size, FullHdrLen
<1>4. Size(p) - FullHdrLen = p.len
  BY <1>2, <1>3 DEF FullHdrLen
<1>5. UINT16 \in Nat \ {0} /\ p.len \in 0 .. UINT16 - 1
  BY <1>2
<1>6. PayloadLen(Size(p)) = p.len
  BY <1>4, <1>5, ModSmall DEF PayloadLen
<1> QED
  BY <1>1, <1>2, <1>3, <1>6

\* A packet that the decoder wants finds room in it.
LEMMA RoomForWanted ==
    ASSUME NEW c \in Buffers, NEW p, IsWanted(c, p)
    PROVE  Cardinality(Inds(c, p)) < N
<1> USE ClientAssumption
<1>1. CASE IsNew(c, p)
  <2>1. Inds(c, p) = {}
    BY <1>1 DEF Inds
  <2> QED
    BY <2>1, FS_EmptySet
<1>2. CASE ~IsNew(c, p)
  <2>1. Inds(c, p) = c.inds /\ ~IsDecoded(c)
    BY <1>2 DEF Inds, IsWanted
  <2>2. c.inds \subseteq 0 .. N - 1
    BY DEF Buffers
  <2>3. IsFiniteSet(0 .. N - 1)
    BY FS_Interval
  <2>4. Cardinality(c.inds) \in Nat
    BY <2>2, <2>3, FS_Subset, FS_CardinalityType
  <2> QED
    BY <2>1, <2>4 DEF IsDecoded
<1> QED
  BY <1>1, <1>2

\* A set of indices that is too small for decoding is no larger than one it is a part of.
LEMMA StaysUndecoded ==
    ASSUME NEW c \in Buffers, NEW d \in Buffers, c.inds \subseteq d.inds, ~IsDecoded(d)
    PROVE  ~IsDecoded(c)
<1> USE ClientAssumption
<1>1. IsFiniteSet(d.inds)
  <2>1. d.inds \subseteq 0 .. N - 1
    BY DEF Buffers
  <2>2. IsFiniteSet(0 .. N - 1)
    BY FS_Interval
  <2> QED
    BY <2>1, <2>2, FS_Subset
<1>2. Cardinality(c.inds) <= Cardinality(d.inds)
  BY <1>1, FS_Subset
<1>3. Cardinality(c.inds) \in Nat /\ Cardinality(d.inds) \in Nat
  BY <1>1, FS_Subset, FS_CardinalityType
<1> QED
  BY <1>2, <1>3 DEF IsDecoded

\* Longer packets take longer.
LEMMA LongerLasts ==
    ASSUME NEW p \in CodePkts, NEW len \in Int, NEW nread \in Int, nread >= len
    PROVE  Duration(p, nread) \in Int /\ Duration(p, nread) >= Duration(p, len)
<1> USE ClientAssumption
<1> DEFINE m == N - p.ind - 1
<1>1. m \in Nat
  BY DEF CodePkts
<1>2. Duration(p, nread) = nread * m /\ Duration(p, len) = len * m
  BY DEF Duration
<1> HIDE DEF m
<1>3. nread * m >= len * m
  <2>1. (nread - len) * m >= 0
    BY <1>1
  <2>2. (nread - len) * m = nread * m - len * m
    BY <1>1
  <2>3. nread * m \in Int /\ len * m \in Int
    BY <1>1
  <2> QED
    BY <2>1, <2>2, <2>3
<1>4. nread * m \in Int
  BY <1>1
<1> QED
  BY <1>2, <1>3, <1>4

\* What RxRcvAth does with a packet makes a packet of no use of it, for whose batch the
\* time left is long enough.
LEMMA HandledIsUseless ==
    ASSUME NEW c \in Buffers, NEW p \in AthPkts, p.kind = "code",
           NEW nread \in Int, nread >= Size(p)
    PROVE  LET e == UpdateTimeLeft(c, p, nread)
               d == IF IsUseful(c, p) THEN PushPkt(e, p) ELSE e
           IN  d \in Buffers /\ d.pkt = p /\ ~IsUseful(d, p) /\ HasTime(d)
<1> USE ClientAssumption
<1> DEFINE t == IF IsWanted(c, p) THEN Duration(p, nread) ELSE c.time_left
           e == [c EXCEPT !.pkt = p, !.time_left = t]
<1>1. p \in CodePkts /\ p.batch \in Nat /\ p.ind \in 0 .. N - 1 /\ Size(p) \in Int
  BY CodePkt
<1>2. /\ t \in Int
      /\ IsWanted(c, p) => t >= Duration(p, Size(p))
  <2>1. Duration(p, nread) \in Int /\ Duration(p, nread) >= Duration(p, Size(p))
    BY <1>1, LongerLasts
  <2>2. c.time_left \in Int
    BY DEF Buffers
  <2> QED
    BY <2>1, <2>2
<1>0. UpdateTimeLeft(c, p, nread) = e
  BY DEF UpdateTimeLeft
<1> HIDE DEF t
<1>3. /\ e \in Buffers /\ e.pkt = p /\ e.batch_id = c.batch_id /\ e.inds = c.inds
      /\ e.time_left = t
  BY <1>2 DEF Buffers
<1> HIDE DEF e
<1>4. CASE IsUseful(c, p)
  <2> DEFINE I == Inds(e, p) \cup {p.ind}
             d == [e EXCEPT !.batch_id = p.batch, !.inds = I]
  <2>1. I \in SUBSET (0 .. N - 1) /\ p.ind \in I
    BY <1>1, <1>3 DEF Inds, Buffers
  <2>2. PushPkt(e, p) = d
    BY DEF PushPkt
  <2> HIDE DEF I
  <2>3. /\ d \in Buffers /\ d.pkt = p /\ d.batch_id = p.batch /\ d.inds = I
        /\ d.time_left = t
    BY <1>1, <1>3, <2>1 DEF Buffers
  <2> HIDE DEF d
  <2>4. ~IsNew(d, p)
    BY <1>1, <2>3 DEF IsNew
  <2>5. ~IsUseful(d, p)
    BY <2>1, <2>3, <2>4 DEF IsUseful
  <2>6. HasTime(d)
    <3>1. IsWanted(c, p)
      BY <1>4 DEF IsUseful
    <3> QED
      BY <1>2, <2>3, <3>1 DEF HasTime
  <2> QED
    BY <1>0, <1>4, <2>2, <2>3, <2>5, <2>6
<1>5. CASE ~IsUseful(c, p)
  <2>1. ~IsUseful(e, p)
    BY <1>3, <1>5 DEF IsUseful, IsWanted, IsNew, IsDecoded
  <2>2. HasTime(e)
    <3>1. CASE p.batch = e.batch_id /\ ~IsDecoded(e)
      <4>1. IsWanted(c, p)
        BY <1>3, <3>1, StaysUndecoded DEF IsWanted
      <4> QED
        BY <1>2, <1>3, <4>1 DEF HasTime
    <3>2. CASE ~(p.batch = e.batch_id /\ ~IsDecoded(e))
      BY <1>3, <3>2 DEF HasTime
    <3> QED
      BY <3>1, <3>2
  <2> QED
    BY <1>0, <1>3, <1>5, <2>1, <2>2
<1> QED
  BY <1>4, <1>5

\* One radio's round keeps the others as they are.
LEMMA OneRadio ==
    ASSUME Kept, NEW r \in Ids, NEW d \in Buffers, rcv' = [rcv EXCEPT ![r] = d],
           Left(r, d), UNCHANGED cell_pkt, handed'.given = handed'.arrived
    PROVE  Kept'
<1>1. rcv' \in [Ids -> Buffers] /\ rcv'[r] = d /\ \A q \in Ids : q # r => rcv'[q] = rcv[q]
  BY DEF Kept
<1>2. \A q \in Ids : Left(q, rcv'[q])
  BY <1>1 DEF Kept
<1>3. (cell_pkt = Unfilled \/ CellProper(cell_pkt))'
  BY DEF Kept, CellProper, IsMine
<1> QED
  BY <1>1, <1>2, <1>3 DEF Kept, Left, IsUseful, IsWanted, IsNew, IsDecoded, IsMine, HasTime

\* Rounds that leave buffers alone, and lengths as they are.
LEMMA NothingLeft ==
    ASSUME Kept, UNCHANGED <<rcv, cell_pkt>>, handed'.given = handed'.arrived
    PROVE  Kept'
BY DEF Kept, Left, IsUseful, IsWanted, IsNew, IsDecoded, IsMine, HasTime, CellProper

\* A packet that RxRcvAth can go through.
Stands(r, p) ==
    /\ p.kind \notin {"other", "bad"}
    /\ p.kind = "code" /\ IsMine(p) =>
         p.bs = r /\ (IsUseful(rcv[r], p) => p.len > 0)

\* One round of RxRcvAth, with a packet whose length is right if it is of use.
LEMMA HandleAthKeeps ==
    ASSUME Kept, NEW r \in Ids, NEW p \in AthPkts, NEW nread \in Int,
           HandleAth(r, p, nread), nread >= Size(p),
           p.kind = "code" /\ IsMine(p) /\ IsUseful(rcv[r], p) => nread = Size(p)
    PROVE  Kept' /\ (Stands(r, p) => UNCHANGED aborted)
<1> USE ClientAssumption
<1>1. rcv \in [Ids -> Buffers] /\ rcv[r] \in Buffers /\ handed.given = handed.arrived
  BY DEF Kept
<1>0. p.kind \in {"other", "bad", "dropped", "code"}
  BY DEF AthPkts, CodePkts, Dropped, Other, Bad
<1>2. CASE Abort /\ ~Stands(r, p)
  <2>1. UNCHANGED <<rcv, cell_pkt>> /\ handed'.given = handed'.arrived
    BY <1>1, <1>2 DEF Abort
  <2> QED
    BY <1>2, <2>1, NothingLeft
<1>3. CASE AthAside(r, p) /\ (p.kind = "dropped" \/ (p.kind = "code" /\ ~IsMine(p)))
  <2> DEFINE d == [rcv[r] EXCEPT !.pkt = p]
  <2>1. rcv' = [rcv EXCEPT ![r] = d]
    BY <1>3 DEF AthAside
  <2>2. d \in Buffers /\ d.pkt = p
    BY <1>1 DEF Buffers
  <2>3. UNCHANGED <<cell_pkt, aborted>> /\ handed'.given = handed'.arrived
    BY <1>1, <1>3 DEF AthAside
  <2> HIDE DEF d
  <2>4. Left(r, d)
    BY <1>3, <2>2 DEF Left, HasTime
  <2> QED
    BY <2>1, <2>2, <2>3, <2>4, OneRadio
<1>4. CASE AthCode(r, p, nread) /\ p.kind = "code" /\ p.bs = r /\ IsMine(p)
  <2> DEFINE e == UpdateTimeLeft(rcv[r], p, nread)
             d == IF IsUseful(rcv[r], p) THEN PushPkt(e, p) ELSE e
  <2>1. rcv' = [rcv EXCEPT ![r] = d]
    BY <1>1, <1>4 DEF AthCode
  <2>2. d \in Buffers /\ d.pkt = p /\ ~IsUseful(d, p) /\ HasTime(d)
    BY <1>1, <1>4, HandledIsUseless
  <2>3. UNCHANGED <<cell_pkt, aborted>>
    BY <1>4 DEF AthCode
  <2>4. handed'.given = handed'.arrived
    <3>1. CASE IsUseful(rcv[r], p)
      <4>1. PayloadLen(nread) = p.len
        BY <1>4, <3>1, CodePkt
      <4>2. HandOn(p.len, PayloadLen(nread))
        BY <1>4, <3>1 DEF AthCode
      <4> QED
        BY <4>1, <4>2 DEF HandOn
    <3>2. CASE ~IsUseful(rcv[r], p)
      BY <1>1, <1>4, <3>2 DEF AthCode
    <3> QED
      BY <3>1, <3>2
  <2> HIDE DEF d
  <2>5. Left(r, d)
    BY <1>4, <2>2 DEF Left
  <2> QED
    BY <2>1, <2>2, <2>3, <2>4, <2>5, OneRadio
<1>5. CASE p.kind = "code" /\ IsMine(p) /\ IsUseful(rcv[r], p) /\ ~CanPush(rcv[r], p, nread)
  <2>1. IsWanted(rcv[r], p)
    BY <1>5 DEF IsUseful
  <2>2. Cardinality(Inds(rcv[r], p)) < N
    BY <1>1, <2>1, RoomForWanted
  <2>3. PayloadLen(nread) = p.len
    BY <1>5, CodePkt
  <2>4. ~Stands(r, p)
    BY <1>5, <2>2, <2>3 DEF CanPush, Stands
  <2>5. Abort
    BY <1>5 DEF HandleAth
  <2> QED
    BY <1>2, <2>4, <2>5
<1>6. CASE p.kind = "code" /\ IsMine(p) /\ p.bs # r
  <2>1. Abort /\ ~Stands(r, p)
    BY <1>6 DEF HandleAth, Stands
  <2> QED
    BY <1>2, <2>1
<1>7. CASE p.kind \in {"other", "bad"}
  <2>1. Abort /\ ~Stands(r, p)
    BY <1>7 DEF HandleAth, Stands
  <2> QED
    BY <1>2, <2>1
<1>8. CASE p.kind = "dropped" \/ (p.kind = "code" /\ ~IsMine(p))
  <2>1. AthAside(r, p)
    BY <1>8 DEF HandleAth
  <2> QED
    BY <1>3, <1>8, <2>1
<1>9. CASE /\ p.kind = "code" /\ IsMine(p) /\ p.bs = r
           /\ IsUseful(rcv[r], p) => CanPush(rcv[r], p, nread)
  <2>1. AthCode(r, p, nread)
    BY <1>9 DEF HandleAth
  <2> QED
    BY <1>4, <1>9, <2>1
<1> QED
  BY <1>0, <1>5, <1>6, <1>7, <1>8, <1>9

\* A length that fits 16 bits is written as it is.
LEMMA WriteKeeps ==
    ASSUME Kept, NEW len \in 1 .. MaxLen, NEW isSent \in BOOLEAN,
           Write(len + CellHdr, len, isSent)
    PROVE  Kept' /\ (isSent => UNCHANGED aborted)
<1> USE ClientAssumption
<1>1. UINT16 \in Nat \ {0} /\ len + CellHdr \in 0 .. UINT16 - 1 /\ len \in Nat
  BY DEF CellHdr
<1>2. (len + CellHdr) % UINT16 = len + CellHdr
  BY <1>1, ModSmall
<1>3. len + CellHdr > 0 /\ (len + CellHdr) - CellHdr = len
  BY <1>1 DEF CellHdr
<1>4. CASE isSent
  <2>1. HandOn(len, len) /\ UNCHANGED <<rcv, cell_pkt, aborted>>
    BY <1>2, <1>3, <1>4 DEF Write
  <2>2. handed'.given = handed'.arrived
    BY <2>1 DEF HandOn
  <2> QED
    BY <2>1, <2>2, NothingLeft
<1>5. CASE ~isSent
  <2>1. Abort
    BY <1>5 DEF Write
  <2>2. UNCHANGED <<rcv, cell_pkt>> /\ handed'.given = handed'.arrived
    BY <2>1 DEF Abort, Kept
  <2> QED
    BY <1>5, <2>2, NothingLeft
<1> QED
  BY <1>4, <1>5

\* Nothing is handed on before the first packet.
LEMMA KeptInit == ClientInit => Kept /\ EndsOnlyOnFault
<1> SUFFICES ASSUME ClientInit PROVE Kept /\ EndsOnlyOnFault
  OBVIOUS
<1> DEFINE c == [pkt |-> Unfilled, batch_id |-> 0, inds |-> {}, time_left |-> 0]
<1>1. /\ rcv = [r \in Ids |-> c] /\ handed = [arrived |-> 0, given |-> 0]
      /\ cell_pkt = Unfilled /\ aborted = FALSE
  BY DEF ClientInit
<1>2. c \in Buffers /\ c.pkt.kind = "unfilled"
  BY DEF Buffers, Unfilled
<1> HIDE DEF c
<1>3. rcv \in [Ids -> Buffers] /\ \A r \in Ids : Left(r, rcv[r])
  BY <1>1, <1>2 DEF Left, HasTime
<1>4. handed.given = handed.arrived
  BY <1>1
<1> QED
  BY <1>1, <1>3, <1>4 DEF Kept, EndsOnlyOnFault

\* Every step keeps the lengths, leaves packets of no use in the buffers, and fails an
\* assertion on a fault only.
LEMMA KeptStep ==
    Kept /\ EndsOnlyOnFault /\ [ClientNext]_clientVars => (Kept /\ EndsOnlyOnFault)'
<1> USE ClientAssumption
<1> SUFFICES ASSUME Kept, EndsOnlyOnFault, [ClientNext]_clientVars
             PROVE  (Kept /\ EndsOnlyOnFault)'
  OBVIOUS
<1>0. /\ rcv \in [Ids -> Buffers] /\ handed.given = handed.arrived
      /\ \A r \in Ids : Left(r, rcv[r])
      /\ cell_pkt = Unfilled \/ CellProper(cell_pkt)
      /\ aborted => fault
  BY DEF Kept, EndsOnlyOnFault
<1>1. ASSUME NEW r \in Ids, RxRcvAth(r) PROVE (Kept /\ EndsOnlyOnFault)'
  <2>1. PICK p \in AthPkts : HandleAth(r, p, Size(p)) /\ fault' = (fault \/ ~AthProper(r, p))
    BY <1>1 DEF RxRcvAth
  <2>2. Size(p) \in Int
    <3>1. CASE p.kind = "code"
      BY <3>1, CodePkt
    <3>2. CASE p.kind # "code"
      BY <3>2 DEF Size
    <3> QED
      BY <3>1, <3>2
  <2>3. Kept' /\ (Stands(r, p) => UNCHANGED aborted)
    BY <2>1, <2>2, HandleAthKeeps
  <2>4. AthProper(r, p) => Stands(r, p)
    BY DEF AthProper, Stands, CodePkts, Dropped, IsMine
  <2>5. aborted' => fault'
    <3>1. CASE AthProper(r, p)
      BY <1>0, <2>1, <2>3, <2>4, <3>1
    <3>2. CASE ~AthProper(r, p)
      BY <2>1, <3>2
    <3> QED
      BY <3>1, <3>2
  <2> QED
    BY <2>3, <2>5 DEF EndsOnlyOnFault
<1>2. ASSUME NEW r \in Ids, RxRcvAthFails(r) PROVE (Kept /\ EndsOnlyOnFault)'
  <2> DEFINE p == rcv[r].pkt
  <2>0. rcv[r] \in Buffers /\ Left(r, rcv[r])
    BY <1>0
  <2>1. CASE p = Unfilled
    <3>1. (AthAside(r, p) \/ Abort) /\ fault' = TRUE
      BY <1>2, <2>1 DEF RxRcvAthFails
    <3>2. rcv' = rcv
      <4>1. [rcv EXCEPT ![r].pkt = p] = rcv
        <5>1. [rcv[r] EXCEPT !.pkt = rcv[r].pkt] = rcv[r]
          BY <2>0 DEF Buffers
        <5> QED
          BY <1>0, <5>1
      <4> QED
        BY <3>1, <4>1 DEF AthAside, Abort
    <3>3. UNCHANGED <<rcv, cell_pkt, handed>>
      BY <3>1, <3>2 DEF AthAside, Abort
    <3> QED
      BY <1>0, <3>1, <3>3, NothingLeft DEF EndsOnlyOnFault
  <2>2. CASE p # Unfilled
    <3>1. HandleAth(r, p, Minus1) /\ (fault' <=> fault)
      BY <1>2, <2>2 DEF RxRcvAthFails
    <3>2. p \in AthPkts /\ Minus1 \in Int
      BY <2>0, <2>2 DEF Buffers, Minus1
    <3>6. Minus1 >= Size(p)
      <4>1. CASE p.kind = "code"
        BY <3>2, <4>1, CodePkt DEF Size, Minus1, FullHdrLen
      <4>2. CASE p.kind # "code"
        BY <4>2 DEF Size, Minus1
      <4> QED
        BY <4>1, <4>2
    <3>3. p.kind = "code" /\ IsMine(p) => ~IsUseful(rcv[r], p)
      BY <2>0 DEF Left
    <3>4. Stands(r, p)
      BY <2>0 DEF Left, Stands
    <3> HIDE DEF p
    <3>5. Kept' /\ UNCHANGED aborted
      BY <3>1, <3>2, <3>3, <3>4, <3>6, HandleAthKeeps
    <3> QED
      BY <1>0, <3>1, <3>5 DEF EndsOnlyOnFault
  <2> QED
    BY <2>1, <2>2
<1>3. ASSUME NEW p \in CellPkts, HandleCell(p) PROVE Kept' /\ (CellProper(p) => UNCHANGED aborted)
  <2>1. CASE Abort /\ ~CellProper(p)
    <3>1. UNCHANGED <<rcv, cell_pkt>> /\ handed'.given = handed'.arrived
      BY <1>0, <2>1 DEF Abort
    <3> QED
      BY <2>1, <3>1, NothingLeft
  <2>2. CASE CellProper(p)
    <3>1. UNCHANGED <<rcv, aborted>> /\ cell_pkt' = p /\ handed'.given = handed'.arrived
      <4>1. CASE p.kind = "other"
        BY <1>0, <1>3, <4>1 DEF HandleCell, CellAside
      <4>2. CASE p.kind # "other"
        <5>1. ~(p.kind = "bad" \/ ~IsMine(p) \/ p.ind >= K \/ p.bs \notin Ids)
          <6>1. p \in CodePkts /\ IsMine(p) /\ p.bs \in Ids /\ p.ind < K
            BY <2>2, <4>2 DEF CellProper, Other, IsMine
          <6>2. p.kind = "code" /\ p.ind \in Int
            BY <6>1 DEF CodePkts
          <6> QED
            BY <6>1, <6>2
        <5>2. cell_pkt' = p /\ HandOn(p.len, p.len) /\ UNCHANGED <<rcv, aborted>>
          BY <1>3, <4>2, <5>1 DEF HandleCell
        <5> QED
          BY <5>2 DEF HandOn
      <4> QED
        BY <4>1, <4>2
    <3>2. CellProper(p)'
      BY <2>2 DEF CellProper, IsMine
    <3>3. CellProper(cell_pkt)'
      BY <2>2, <3>1 DEF CellProper
    <3> QED
      BY <1>0, <3>1, <3>3
         DEF Kept, Left, IsUseful, IsWanted, IsNew, IsDecoded, IsMine, HasTime
  <2>3. CASE ~CellProper(p)
    <3>1. CASE p \in CodePkts
      <4>1. p.kind = "code" /\ p.ind \in Int
        BY <3>1 DEF CodePkts
      <4>2. ~IsMine(p) \/ p.bs \notin Ids \/ p.ind >= K
        BY <2>3, <3>1, <4>1 DEF CellProper, IsMine
      <4> QED
        BY <1>3, <2>1, <2>3, <4>1, <4>2 DEF HandleCell
    <3>2. CASE p = Bad
      BY <1>3, <2>1, <2>3, <3>2 DEF HandleCell, Bad
    <3> QED
      BY <2>3, <3>1, <3>2 DEF CellPkts, CellProper
  <2> QED
    BY <2>2, <2>3
<1>4. CASE RxRcvCell
  <2>1. PICK p \in CellPkts : HandleCell(p) /\ fault' = (fault \/ ~CellProper(p))
    BY <1>4 DEF RxRcvCell
  <2>2. Kept' /\ (CellProper(p) => UNCHANGED aborted)
    BY <1>3, <2>1
  <2>3. aborted' => fault'
    BY <1>0, <2>1, <2>2
  <2> QED
    BY <2>2, <2>3 DEF EndsOnlyOnFault
<1>5. CASE RxRcvCellFails
  <2>1. CASE cell_pkt = Unfilled
    <3>1. UNCHANGED <<rcv, cell_pkt, handed>> /\ fault' = TRUE
      BY <1>5, <2>1 DEF RxRcvCellFails, CellAside, Abort
    <3> QED
      BY <1>0, <3>1, NothingLeft DEF EndsOnlyOnFault
  <2>2. CASE cell_pkt # Unfilled
    <3>1. HandleCell(cell_pkt) /\ (fault' <=> fault)
      BY <1>5, <2>2 DEF RxRcvCellFails
    <3>2. CellProper(cell_pkt) /\ cell_pkt \in CellPkts
      BY <1>0, <2>2 DEF CellProper, CellPkts
    <3>3. Kept' /\ UNCHANGED aborted
      BY <1>3, <3>1, <3>2
    <3> QED
      BY <1>0, <3>1, <3>3 DEF EndsOnlyOnFault
  <2> QED
    BY <2>1, <2>2
<1>6. CASE RxSendCell
  <2>1. PICK len \in 1 .. MaxLen : Write(len + CellHdr, len, TRUE)
    BY <1>6 DEF RxSendCell
  <2>2. Kept' /\ UNCHANGED <<aborted, fault>>
    BY <1>6, <2>1, WriteKeeps DEF RxSendCell
  <2> QED
    BY <1>0, <2>2 DEF EndsOnlyOnFault
<1>7. CASE RxSendCellFails
  <2>1. fault' = TRUE
    BY <1>7 DEF RxSendCellFails
  <2>2. Kept'
    <3>1. CASE \E len \in 1 .. MaxLen : Write(len + CellHdr, len, FALSE)
      BY <3>1, WriteKeeps
    <3>2. CASE Write(Minus1 + CellHdr, 0, TRUE)
      <4>1. Minus1 + CellHdr = UINT16 /\ UINT16 \in Nat \ {0}
        BY DEF Minus1, CellHdr
      <4>2. ~((Minus1 + CellHdr) % UINT16 > 0)
        BY <4>1, ModSelf
      <4>3. Abort
        BY <3>2, <4>2 DEF Write
      <4>4. UNCHANGED <<rcv, cell_pkt>> /\ handed'.given = handed'.arrived
        BY <1>0, <4>3 DEF Abort
      <4> QED
        BY <4>4, NothingLeft
    <3> QED
      BY <1>7, <3>1, <3>2 DEF RxSendCellFails
  <2> QED
    BY <2>1, <2>2 DEF EndsOnlyOnFault
<1>8. CASE ReadsNothing
  <2>1. UNCHANGED <<rcv, cell_pkt>> /\ handed'.given = handed'.arrived /\ fault' = TRUE
    BY <1>0, <1>8 DEF ReadsNothing, Abort
  <2> QED
    BY <2>1, NothingLeft DEF EndsOnlyOnFault
<1>9. CASE UNCHANGED clientVars
  <2>1. UNCHANGED <<rcv, cell_pkt, aborted, fault>> /\ handed'.given = handed'.arrived
    BY <1>0, <1>9 DEF clientVars
  <2> QED
    BY <1>0, <2>1, NothingLeft DEF EndsOnlyOnFault
<1> QED
  BY <1>1, <1>2, <1>4, <1>5, <1>6, <1>7, <1>8, <1>9 DEF ClientNext

\* The decoder, the buffers and the controller are given a payload with the length with
\* which it arrived, whatever reads fail.
THEOREM LengthsKept == ClientSpec => []LengthKept
<1>1. Kept => LengthKept
  BY DEF Kept, LengthKept
<1> QED
  BY KeptInit, KeptStep, <1>1, PTL DEF ClientSpec

\* An assertion of the threads at their devices fails only after one of the faults that
\* EndsOnlyOnFault lists: not on packets that are repeated, late, out of order or for
\* others, nor on a failed read that shows one of them again.
THEOREM EndsOnFault == ClientSpec => []EndsOnlyOnFault
BY KeptInit, KeptStep, PTL DEF ClientSpec

\* The time left for a batch is never less than its packets behind the last one take,
\* whatever is lost, repeated or late and whichever reads fail.
THEOREM TimesLeft == ClientSpec => []TimeLeftEnough
<1>1. Kept => TimeLeftEnough
  BY DEF Kept, Left, HasTime, TimeLeftEnough
<1> QED
  BY KeptInit, KeptStep, <1>1, PTL DEF ClientSpec

-----------------------------------------------------------------------------
(***************************************************************************)
(* Readings.  The phrases with one key stand in the pipe in the order of   *)
(* their reports, and all of them are newer than what was read of that     *)
(* key: wherever a read ends, the first phrase with a key is newer, too.   *)
(* A speed stands behind the time and the position of its report, unless   *)
(* an earlier read ended in between; then the line it is in no longer      *)
(* begins with TPV.                                                        *)
(***************************************************************************)
Words == {"TPV", "SKY", "time", "lat", "lon", "speed", "climb", "dop"}
Position == {"time", "lat", "lon"}
Phrases == [key : Words \cup {"piece", "nothing"}, report : Nat, whole : BOOLEAN]

InOrder ==
    /\ pipe \in Seq(Phrases)
    /\ reports \in Nat
    /\ readings \in [Keys -> Int]
    /\ \A a \in DOMAIN pipe : pipe[a].report <= reports /\ pipe[a].whole
    /\ \A a, b \in DOMAIN pipe : a < b => pipe[a].report <= pipe[b].report
    /\ \A a, b \in DOMAIN pipe :
           a < b /\ pipe[a].key = pipe[b].key /\ pipe[a].key \in Keys
               => pipe[a].report < pipe[b].report
    /\ \A a \in DOMAIN pipe :
           pipe[a].key \in Keys => readings[pipe[a].key] < pipe[a].report
    /\ \A key \in Keys : readings[key] <= reports

\* What stands before a speed: its line's position, or nothing but the rest of that line.
Before(s) ==
    \/ \A key \in Position :
         \E b \in 1 .. s : pipe[b].key = key /\ pipe[b].report = pipe[s].report
    \/ \A j \in 1 .. s : pipe[j].report = pipe[s].report /\ pipe[j].key # "TPV"

LinesKept ==
    /\ \A a, b \in DOMAIN pipe :
           pipe[a].key = "TPV" /\ pipe[a].report = pipe[b].report => a <= b
    /\ \A s \in DOMAIN pipe :
           pipe[s].key = "speed" => CommaAfter(s) /\ Before(s)

PipeOK == InOrder /\ LinesKept

\* A key is found at its first phrase, if at all.
LEMMA ValueFound ==
    ASSUME NEW phrases \in Seq(Phrases), NEW key, GetValue(phrases, key) # 0
    PROVE  /\ GetValue(phrases, key) \in 1 .. Len(phrases)
           /\ phrases[GetValue(phrases, key)].key = key
           /\ \A b \in 1 .. Len(phrases) :
                  phrases[b].key = key => GetValue(phrases, key) <= b
<1> DEFINE I == {a \in 1 .. Len(phrases) : phrases[a].key = key}
<1>1. GetValue(phrases, key) = IF I # {} THEN Min(I) ELSE 0
  BY DEF GetValue, SelectInSeq
<1>2. I # {} /\ GetValue(phrases, key) = Min(I)
  BY <1>1
<1>3. I \subseteq Nat
  OBVIOUS
<1> HIDE DEF I
<1>4. \E x \in I : \A y \in I : x <= y
  <2> DEFINE R == {ss \in Nat \X Nat : ss[1] < ss[2]}
  <2>1. IsWellFoundedOn(R, Nat)
    BY NatLessThanWellFounded DEF OpToRel
  <2> HIDE DEF R
  <2>2. PICK x \in I : \A y \in I : ~(<<y, x>> \in R)
    BY <1>2, <1>3, <2>1, WFMin
  <2>3. ASSUME NEW y \in I PROVE x <= y
    <3>1. x \in Nat /\ y \in Nat
      BY <1>3
    <3>2. y < x => <<y, x>> \in R
      BY <3>1 DEF R
    <3> QED
      BY <2>2, <3>1, <3>2
  <2> QED
    BY <2>3
<1>5. Min(I) = CHOOSE x \in I : \A y \in I : x <= y
  BY DEF Min
<1>6. Min(I) \in I /\ \A y \in I : Min(I) <= y
  BY <1>4, <1>5
<1> QED
  BY <1>2, <1>6 DEF I

\* Without a report there are no readings.
LEMMA PipeInit == GPSInit => PipeOK
<1> SUFFICES ASSUME GPSInit PROVE PipeOK
  OBVIOUS
<1>1. pipe = <<>> /\ reports = 0 /\ readings = [key \in Keys |-> Unset]
  BY DEF GPSInit
<1>2. DOMAIN pipe = {} /\ pipe \in Seq(Phrases)
  BY <1>1
<1>3. readings \in [Keys -> Int] /\ \A key \in Keys : readings[key] = -1
  BY <1>1 DEF Unset
<1> QED
  BY <1>1, <1>2, <1>3 DEF PipeOK, InOrder, LinesKept

\* No line has a word twice, a TPV line begins with TPV, and a speed stands between the
\* position and the last phrase.
LineOK(line) ==
    /\ line \in Seq(Words)
    /\ \A a, b \in 1 .. Len(line) : line[a] = line[b] => a = b
    /\ \A a \in 1 .. Len(line) : line[a] = "TPV" => a = 1
    /\ \A a \in 1 .. Len(line) :
         line[a] = "speed" =>
           /\ a + 1 \in 1 .. Len(line)
           /\ \A key \in Position : \E b \in 1 .. a : line[b] = key

LEMMA LineKeys == \A line \in Lines : LineOK(line)
<1> SUFFICES ASSUME NEW line \in Lines PROVE LineOK(line)
  OBVIOUS
<1>1. CASE line = <<"TPV", "time", "lat", "lon", "speed", "climb">>
  <2> DEFINE l == <<"TPV", "time", "lat", "lon", "speed", "climb">>
  <2>1. l = [i \in 1 .. 6 |-> l[i]] /\ Len(l) = 6
    OBVIOUS
  <2>2. /\ l[1] = "TPV" /\ l[2] = "time" /\ l[3] = "lat" /\ l[4] = "lon"
        /\ l[5] = "speed" /\ l[6] = "climb"
    OBVIOUS
  <2> HIDE DEF l
  <2>3. \A i \in 1 .. 6 : l[i] \in Words
    BY <2>2 DEF Words
  <2>4. l \in Seq(Words)
    BY <2>1, <2>3, SeqDef
  <2>5. \A a, b \in 1 .. Len(l) : l[a] = l[b] => a = b
    BY <2>1, <2>2
  <2>6. \A a \in 1 .. Len(l) : l[a] = "TPV" => a = 1
    BY <2>1, <2>2
  <2>7. \A a \in 1 .. Len(l) : l[a] = "speed" => a = 5
    BY <2>1, <2>2
  <2>8. \A key \in Position : \E b \in 1 .. 5 : l[b] = key
    BY <2>2 DEF Position
  <2>9. \A a \in 1 .. Len(l) :
           l[a] = "speed" =>
             /\ a + 1 \in 1 .. Len(l)
             /\ \A key \in Position : \E b \in 1 .. a : l[b] = key
    BY <2>1, <2>7, <2>8
  <2> QED
    BY <1>1, <2>4, <2>5, <2>6, <2>9 DEF LineOK, l
<1>2. CASE line = <<"TPV", "time", "lat", "lon", "climb">>
  <2> DEFINE l == <<"TPV", "time", "lat", "lon", "climb">>
  <2>1. l = [i \in 1 .. 5 |-> l[i]] /\ Len(l) = 5
    OBVIOUS
  <2>2. l[1] = "TPV" /\ l[2] = "time" /\ l[3] = "lat" /\ l[4] = "lon" /\ l[5] = "climb"
    OBVIOUS
  <2> HIDE DEF l
  <2>3. \A i \in 1 .. 5 : l[i] \in Words
    BY <2>2 DEF Words
  <2>4. l \in Seq(Words)
    BY <2>1, <2>3, SeqDef
  <2>5. \A a, b \in 1 .. Len(l) : l[a] = l[b] => a = b
    BY <2>1, <2>2
  <2>6. \A a \in 1 .. Len(l) : l[a] = "TPV" => a = 1
    BY <2>1, <2>2
  <2>7. \A a \in 1 .. Len(l) : l[a] # "speed"
    BY <2>1, <2>2
  <2> QED
    BY <1>2, <2>4, <2>5, <2>6, <2>7 DEF LineOK, l
<1>3. CASE line = <<"TPV", "time", "climb">>
  <2> DEFINE l == <<"TPV", "time", "climb">>
  <2>1. l = [i \in 1 .. 3 |-> l[i]] /\ Len(l) = 3
    OBVIOUS
  <2>2. l[1] = "TPV" /\ l[2] = "time" /\ l[3] = "climb"
    OBVIOUS
  <2> HIDE DEF l
  <2>3. \A i \in 1 .. 3 : l[i] \in Words
    BY <2>2 DEF Words
  <2>4. l \in Seq(Words)
    BY <2>1, <2>3, SeqDef
  <2>5. \A a, b \in 1 .. Len(l) : l[a] = l[b] => a = b
    BY <2>1, <2>2
  <2>6. \A a \in 1 .. Len(l) : l[a] = "TPV" => a = 1
    BY <2>1, <2>2
  <2>7. \A a \in 1 .. Len(l) : l[a] # "speed"
    BY <2>1, <2>2
  <2> QED
    BY <1>3, <2>4, <2>5, <2>6, <2>7 DEF LineOK, l
<1>4. CASE line = <<"SKY", "time", "dop">>
  <2> DEFINE l == <<"SKY", "time", "dop">>
  <2>1. l = [i \in 1 .. 3 |-> l[i]] /\ Len(l) = 3
    OBVIOUS
  <2>2. l[1] = "SKY" /\ l[2] = "time" /\ l[3] = "dop"
    OBVIOUS
  <2> HIDE DEF l
  <2>3. \A i \in 1 .. 3 : l[i] \in Words
    BY <2>2 DEF Words
  <2>4. l \in Seq(Words)
    BY <2>1, <2>3, SeqDef
  <2>5. \A a, b \in 1 .. Len(l) : l[a] = l[b] => a = b
    BY <2>1, <2>2
  <2>6. \A a \in 1 .. Len(l) : l[a] = "TPV" => a = 1
    BY <2>1, <2>2
  <2>7. \A a \in 1 .. Len(l) : l[a] # "speed"
    BY <2>1, <2>2
  <2> QED
    BY <1>4, <2>4, <2>5, <2>6, <2>7 DEF LineOK, l
<1> QED
  BY <1>1, <1>2, <1>3, <1>4 DEF Lines

\* A line that the device writes is newer than all there is.
LEMMA WritesKeep ==
    ASSUME PipeOK, DeviceWrites
    PROVE  PipeOK'
<1>1. PICK line \in Lines :
          pipe' = pipe \o [i \in DOMAIN line |-> Phrase(line[i], reports')]
  BY DEF DeviceWrites
<1> DEFINE new == [i \in DOMAIN line |-> Phrase(line[i], reports')]
           m == Len(pipe)
           n == Len(line)
<1>2. /\ reports' = reports + 1 /\ readings' = readings
      /\ reports \in Nat /\ reports' \in Nat
  BY DEF DeviceWrites, PipeOK, InOrder
<1>3. /\ LineOK(line) /\ n \in Nat /\ DOMAIN line = 1 .. n
      /\ \A a \in 1 .. n : line[a] \in Words
  BY LineKeys DEF LineOK
<1>4. /\ pipe \in Seq(Phrases) /\ m \in Nat /\ DOMAIN pipe = 1 .. m
  BY DEF PipeOK, InOrder
<1>5. /\ new \in Seq(Phrases) /\ Len(new) = n
      /\ \A a \in 1 .. n : new[a].key = line[a] /\ new[a].report = reports + 1 /\ new[a].whole
  <2>1. \A a \in 1 .. n : Phrase(line[a], reports') \in Phrases
    BY <1>2, <1>3 DEF Phrases, Phrase
  <2> QED
    BY <1>2, <1>3, <2>1 DEF Phrase
<1>6. pipe' = pipe \o new
  BY <1>1
<1> HIDE DEF new
<1>7. /\ pipe' \in Seq(Phrases) /\ Len(pipe') = m + n
      /\ \A a \in 1 .. m + n : pipe'[a] = IF a <= m THEN pipe[a] ELSE new[a - m]
  <2>0. pipe \in Seq(Phrases) /\ new \in Seq(Phrases)
    BY <1>4, <1>5
  <2>1. /\ pipe \o new \in Seq(Phrases)
        /\ Len(pipe \o new) = Len(pipe) + Len(new)
        /\ \A a \in 1 .. Len(pipe) + Len(new) :
              (pipe \o new)[a] = IF a <= Len(pipe) THEN pipe[a] ELSE new[a - Len(pipe)]
    BY <2>0, ConcatProperties
  <2> QED
    BY <1>5, <1>6, <2>1
<1>8. DOMAIN pipe' = 1 .. m + n
  BY <1>7
<1> HIDE DEF m, n
<1>9. \A a \in 1 .. m : a \in 1 .. m + n /\ pipe'[a] = pipe[a]
  BY <1>3, <1>4, <1>7
<1>10. \A a \in 1 .. n :
          /\ m + a \in 1 .. m + n
          /\ pipe'[m + a].key = line[a] /\ pipe'[m + a].report = reports + 1
          /\ pipe'[m + a].whole
  <2> SUFFICES ASSUME NEW a \in 1 .. n
               PROVE  /\ m + a \in 1 .. m + n
                      /\ pipe'[m + a].key = line[a] /\ pipe'[m + a].report = reports + 1
                      /\ pipe'[m + a].whole
    OBVIOUS
  <2>1. m + a \in 1 .. m + n /\ ~(m + a <= m) /\ (m + a) - m = a
    BY <1>3, <1>4
  <2>2. pipe'[m + a] = new[a]
    BY <1>7, <2>1
  <2> QED
    BY <1>5, <2>1, <2>2
<1>11. \A a \in 1 .. m + n : a \in 1 .. m \/ (a - m \in 1 .. n /\ a = m + (a - m))
  BY <1>3, <1>4
<1>12. /\ readings \in [Keys -> Int]
       /\ \A key \in Keys : readings[key] <= reports /\ readings[key] \in Int
       /\ \A a \in 1 .. m : /\ pipe[a].report <= reports /\ pipe[a].report \in Nat
                            /\ pipe[a].whole
       /\ \A a, b \in 1 .. m : a < b => pipe[a].report <= pipe[b].report
       /\ \A a, b \in 1 .. m :
             a < b /\ pipe[a].key = pipe[b].key /\ pipe[a].key \in Keys
                 => pipe[a].report < pipe[b].report
       /\ \A a \in 1 .. m : pipe[a].key \in Keys => readings[pipe[a].key] < pipe[a].report
  <2>1. \A a \in 1 .. m : pipe[a] \in Phrases
    BY <1>4
  <2>2. \A a \in 1 .. m : pipe[a].report \in Nat
    BY <2>1 DEF Phrases
  <2> QED
    BY <1>4, <2>2 DEF PipeOK, InOrder
<1>13. \A a \in 1 .. m + n : pipe'[a].report <= reports + 1 /\ pipe'[a].whole
  <2> SUFFICES ASSUME NEW a \in 1 .. m + n
               PROVE  pipe'[a].report <= reports + 1 /\ pipe'[a].whole
    OBVIOUS
  <2>1. CASE a \in 1 .. m
    BY <1>2, <1>9, <1>12, <2>1
  <2>2. CASE a - m \in 1 .. n /\ a = m + (a - m)
    BY <1>2, <1>10, <2>2
  <2> QED
    BY <1>11, <2>1, <2>2
<1>14. ASSUME NEW a \in 1 .. m + n, NEW b \in 1 .. m + n, a < b
       PROVE  /\ pipe'[a].report <= pipe'[b].report
              /\ pipe'[a].key = pipe'[b].key /\ pipe'[a].key \in Keys
                   => pipe'[a].report < pipe'[b].report
  <2>1. CASE a \in 1 .. m /\ b \in 1 .. m
    BY <1>9, <1>12, <1>14, <2>1
  <2>2. CASE a \in 1 .. m /\ b - m \in 1 .. n /\ b = m + (b - m)
    BY <1>2, <1>9, <1>10, <1>12, <2>2
  <2>3. CASE a - m \in 1 .. n /\ b - m \in 1 .. n /\ a = m + (a - m) /\ b = m + (b - m)
    <3>1. /\ pipe'[a].report = reports + 1 /\ pipe'[b].report = reports + 1
          /\ pipe'[a].key = line[a - m] /\ pipe'[b].key = line[b - m]
      BY <1>10, <2>3
    <3>2. a - m # b - m
      BY <1>4, <1>14
    <3> QED
      BY <1>2, <1>3, <2>3, <3>1, <3>2 DEF LineOK
  <2>4. ~(b \in 1 .. m /\ a \notin 1 .. m)
    BY <1>3, <1>4, <1>14
  <2> QED
    BY <1>11, <2>1, <2>2, <2>3, <2>4
<1>15. \A a \in 1 .. m + n :
           pipe'[a].key \in Keys => readings[pipe'[a].key] < pipe'[a].report
  <2> SUFFICES ASSUME NEW a \in 1 .. m + n, pipe'[a].key \in Keys
               PROVE  readings[pipe'[a].key] < pipe'[a].report
    OBVIOUS
  <2>1. CASE a \in 1 .. m
    BY <1>9, <1>12, <2>1
  <2>2. CASE a - m \in 1 .. n /\ a = m + (a - m)
    BY <1>2, <1>10, <1>12, <2>2
  <2> QED
    BY <1>11, <2>1, <2>2
<1>16. InOrder'
  <2>1. \A key \in Keys : readings[key] <= reports + 1
    BY <1>2, <1>12
  <2> QED
    BY <1>2, <1>7, <1>8, <1>12, <1>13, <1>14, <1>15, <2>1 DEF InOrder
<1>17. ASSUME NEW a \in 1 .. m + n, NEW b \in 1 .. m + n,
              pipe'[a].key = "TPV", pipe'[a].report = pipe'[b].report
       PROVE  a <= b
  <2>1. CASE a \in 1 .. m /\ b \in 1 .. m
    BY <1>4, <1>9, <1>17, <2>1 DEF PipeOK, LinesKept
  <2>2. CASE a \in 1 .. m /\ b - m \in 1 .. n /\ b = m + (b - m)
    BY <1>4, <2>2
  <2>3. CASE a - m \in 1 .. n /\ a = m + (a - m)
    <3>1. line[a - m] = "TPV" /\ pipe'[a].report = reports + 1
      BY <1>10, <1>17, <2>3
    <3>2. a - m = 1
      BY <1>3, <2>3, <3>1 DEF LineOK
    <3>3. b \notin 1 .. m
      <4>1. b \in 1 .. m => pipe'[b].report <= reports /\ pipe'[b].report \in Nat
        BY <1>9, <1>12
      <4> QED
        BY <1>2, <1>17, <3>1, <4>1
    <3> QED
      BY <1>3, <1>4, <3>2, <3>3
  <2> QED
    BY <1>11, <2>1, <2>2, <2>3
<1>18. ASSUME NEW s \in 1 .. m + n, pipe'[s].key = "speed"
       PROVE  /\ s + 1 \in 1 .. m + n /\ pipe'[s + 1].report = pipe'[s].report
              /\ Before(s)'
  <2>1. CASE s \in 1 .. m
    <3>1. /\ s + 1 \in 1 .. m /\ pipe[s + 1].report = pipe[s].report
          /\ Before(s)
      BY <1>4, <1>9, <1>18, <2>1 DEF PipeOK, LinesKept, CommaAfter
    <3>2. \A j \in 1 .. s : pipe'[j] = pipe[j]
      BY <1>4, <1>9, <2>1
    <3>3. pipe'[s] = pipe[s]
      BY <1>9, <2>1
    <3>4. Before(s)'
      <4>1. CASE \A key \in Position :
                   \E b \in 1 .. s : pipe[b].key = key /\ pipe[b].report = pipe[s].report
        BY <3>2, <3>3, <4>1 DEF Before
      <4>2. CASE \A j \in 1 .. s : pipe[j].report = pipe[s].report /\ pipe[j].key # "TPV"
        BY <3>2, <3>3, <4>2 DEF Before
      <4> QED
        BY <3>1, <4>1, <4>2 DEF Before
    <3> QED
      BY <1>9, <3>1, <3>3, <3>4
  <2>2. CASE s - m \in 1 .. n /\ s = m + (s - m)
    <3>1. line[s - m] = "speed" /\ pipe'[s].report = reports + 1
      BY <1>10, <1>18, <2>2
    <3>2. /\ (s - m) + 1 \in 1 .. n
          /\ \A key \in Position : \E b \in 1 .. s - m : line[b] = key
      BY <1>3, <2>2, <3>1 DEF LineOK, n
    <3>3. s + 1 = m + ((s - m) + 1)
      BY <1>4
    <3>4. s + 1 \in 1 .. m + n /\ pipe'[s + 1].report = reports + 1
      BY <1>10, <3>2, <3>3
    <3>5. \A b \in 1 .. s - m :
             /\ m + b \in 1 .. s
             /\ pipe'[m + b].key = line[b] /\ pipe'[m + b].report = reports + 1
      <4>1. \A b \in 1 .. s - m : b \in 1 .. n /\ m + b \in 1 .. s
        BY <1>3, <1>4, <2>2
      <4> QED
        BY <1>10, <4>1
    <3>6. Before(s)'
      BY <3>1, <3>2, <3>5 DEF Before
    <3> QED
      BY <3>1, <3>4, <3>6
  <2> QED
    BY <1>11, <2>1, <2>2
<1>19. LinesKept'
  BY <1>8, <1>17, <1>18 DEF LinesKept, CommaAfter
<1> QED
  BY <1>16, <1>19 DEF PipeOK

\* What a read returns and leaves: the first m phrases and those behind the first off,
\* the phrase in which it ended being the last of the one and the first of the other.
Splits(read, m, off) ==
    /\ read.got \in Seq(Phrases) /\ Len(read.got) = m
    /\ \A i \in 1 .. m :
         /\ read.got[i].report = pipe[i].report
         /\ i < m => read.got[i] = pipe[i]
         /\ read.got[i].key \in {pipe[i].key, "piece"}
    /\ read.left \in Seq(Phrases) /\ Len(read.left) = Len(pipe) - off
    /\ \A a \in 1 .. Len(pipe) - off :
         /\ read.left[a].report = pipe[a + off].report
         /\ read.left[a].whole = pipe[a + off].whole
         /\ a > 1 => read.left[a] = pipe[a + off]
         /\ read.left[a].key \in {pipe[a + off].key, "piece", "nothing"}
    /\ \/ off = m
       \/ off = m - 1 /\ (read.got[m].key = "piece" \/ read.left[1].key \in {"piece", "nothing"})

\* The phrases from one place of a sequence to another.
LEMMA SubSeqIs ==
    ASSUME NEW s \in Seq(Phrases), NEW a \in 1 .. Len(s) + 1, NEW b \in 0 .. Len(s), a <= b + 1
    PROVE  /\ SubSeq(s, a, b) \in Seq(Phrases)
           /\ Len(SubSeq(s, a, b)) = b + 1 - a
           /\ \A i \in 1 .. b + 1 - a : SubSeq(s, a, b)[i] = s[i + a - 1]
<1>1. Len(s) \in Nat /\ a \in Int /\ b \in Int
  OBVIOUS
<1>2. \A i \in a .. b : s[i] \in Phrases
  BY <1>1
<1>3. /\ SubSeq(s, a, b) \in Seq(Phrases)
      /\ Len(SubSeq(s, a, b)) = IF a <= b THEN b - a + 1 ELSE 0
      /\ \A i \in 1 .. b - a + 1 : SubSeq(s, a, b)[i] = s[a + i - 1]
  BY <1>1, <1>2, SubSeqProperties
<1>4. b - a + 1 = b + 1 - a /\ (~(a <= b) => b + 1 - a = 0)
  BY <1>1
<1>5. \A i \in 1 .. b + 1 - a : a + i - 1 = i + a - 1
  BY <1>1
<1> QED
  BY <1>3, <1>4, <1>5

LEMMA ReadSplits ==
    ASSUME pipe \in Seq(Phrases), NEW read \in Reads
    PROVE  \E m \in 1 .. Len(pipe), off \in 0 .. Len(pipe) : Splits(read, m, off)
<1> DEFINE L == Len(pipe)
<1>1. L \in Nat /\ DOMAIN pipe = 1 .. L
  OBVIOUS
<1>2. CASE \E n \in DOMAIN pipe :
              read = [got |-> SubSeq(pipe, 1, n), left |-> SubSeq(pipe, n + 1, Len(pipe))]
  <2>1. PICK n \in 1 .. L :
           read = [got |-> SubSeq(pipe, 1, n), left |-> SubSeq(pipe, n + 1, L)]
    BY <1>1, <1>2
  <2> DEFINE g == SubSeq(pipe, 1, n)
             l == SubSeq(pipe, n + 1, L)
  <2>2. g \in Seq(Phrases) /\ Len(g) = n /\ \A i \in 1 .. n : g[i] = pipe[i]
    <3>1. /\ g \in Seq(Phrases) /\ Len(g) = n + 1 - 1
          /\ \A i \in 1 .. n + 1 - 1 : g[i] = pipe[i + 1 - 1]
      BY <1>1, SubSeqIs
    <3> QED
      BY <1>1, <3>1
  <2>3. l \in Seq(Phrases) /\ Len(l) = L - n /\ \A i \in 1 .. L - n : l[i] = pipe[i + n]
    <3>1. n + 1 \in 1 .. L + 1 /\ L \in 0 .. L /\ n + 1 <= L + 1
      BY <1>1
    <3>2. /\ l \in Seq(Phrases) /\ Len(l) = L + 1 - (n + 1)
          /\ \A i \in 1 .. L + 1 - (n + 1) : l[i] = pipe[i + (n + 1) - 1]
      BY <3>1, SubSeqIs
    <3>3. L + 1 - (n + 1) = L - n /\ \A i \in 1 .. L - n : i + (n + 1) - 1 = i + n
      <4> HIDE DEF L
      <4> QED
        BY <1>1
    <3> QED
      BY <3>2, <3>3
  <2>4. read.got = g /\ read.left = l
    BY <2>1
  <2> HIDE DEF g, l
  <2>5. Splits(read, n, n)
    BY <2>2, <2>3, <2>4 DEF Splits
  <2> QED
    BY <1>1, <2>5
<1>3. CASE \E n \in DOMAIN pipe : \E parts \in Parts(n) :
              read = [got |-> [SubSeq(pipe, 1, n) EXCEPT ![n] = parts[1]],
                      left |-> [SubSeq(pipe, n, Len(pipe)) EXCEPT ![1] = parts[2]]]
  <2>0. PICK n \in 1 .. L : \E parts \in Parts(n) :
           read = [got |-> [SubSeq(pipe, 1, n) EXCEPT ![n] = parts[1]],
                   left |-> [SubSeq(pipe, n, L) EXCEPT ![1] = parts[2]]]
    BY <1>1, <1>3
  <2>1. PICK parts \in Parts(n) :
           read = [got |-> [SubSeq(pipe, 1, n) EXCEPT ![n] = parts[1]],
                   left |-> [SubSeq(pipe, n, L) EXCEPT ![1] = parts[2]]]
    BY <2>0
  <2> DEFINE p == pipe[n]
             x == parts[1]
             y == parts[2]
  <2>2. p \in Phrases
    OBVIOUS
  <2>3. /\ x \in Phrases /\ y \in Phrases
        /\ x.report = p.report /\ x.key \in {p.key, "piece"}
        /\ y.report = p.report /\ y.key \in {p.key, "piece", "nothing"} /\ y.whole = p.whole
        /\ x.key = "piece" \/ y.key \in {"piece", "nothing"}
    <3> HIDE DEF p
    <3>1. /\ Piece(p) \in Phrases /\ Piece(p).key = "piece" /\ Piece(p).report = p.report
          /\ Piece(p).whole = p.whole
      BY <2>2 DEF Piece, Phrases
    <3>2. Short(p) \in Phrases /\ Short(p).key = p.key /\ Short(p).report = p.report
      BY <2>2 DEF Short, Phrases
    <3>3. /\ Nothing(p) \in Phrases /\ Nothing(p).key = "nothing"
          /\ Nothing(p).report = p.report /\ Nothing(p).whole = p.whole
      BY <2>2 DEF Nothing, Phrases
    <3>4. \/ x = Piece(p) /\ y = p
          \/ x = Piece(p) /\ y = Piece(p)
          \/ x = Short(p) /\ y = Piece(p)
          \/ x = p /\ y = Nothing(p)
      BY DEF Parts, p
    <3> QED
      BY <2>2, <3>1, <3>2, <3>3, <3>4
  <2> HIDE DEF p, x, y
  <2> DEFINE g0 == SubSeq(pipe, 1, n)
             l0 == SubSeq(pipe, n, L)
             g == [g0 EXCEPT ![n] = x]
             l == [l0 EXCEPT ![1] = y]
  <2>4. g0 \in Seq(Phrases) /\ Len(g0) = n /\ \A i \in 1 .. n : g0[i] = pipe[i]
    <3>1. /\ g0 \in Seq(Phrases) /\ Len(g0) = n + 1 - 1
          /\ \A i \in 1 .. n + 1 - 1 : g0[i] = pipe[i + 1 - 1]
      BY <1>1, SubSeqIs
    <3> QED
      BY <1>1, <3>1
  <2>5. /\ l0 \in Seq(Phrases) /\ Len(l0) = L - (n - 1)
        /\ \A i \in 1 .. L - (n - 1) : l0[i] = pipe[i + (n - 1)]
    <3>1. n \in 1 .. L + 1 /\ L \in 0 .. L /\ n <= L + 1
      BY <1>1
    <3>2. /\ l0 \in Seq(Phrases) /\ Len(l0) = L + 1 - n
          /\ \A i \in 1 .. L + 1 - n : l0[i] = pipe[i + n - 1]
      BY <3>1, SubSeqIs
    <3>3. L + 1 - n = L - (n - 1) /\ \A i \in 1 .. L - (n - 1) : i + n - 1 = i + (n - 1)
      <4> HIDE DEF L
      <4> QED
        BY <1>1
    <3> QED
      BY <3>2, <3>3
  <2> HIDE DEF g0, l0
  <2>6. /\ g \in Seq(Phrases) /\ Len(g) = n /\ g[n] = x
        /\ \A i \in 1 .. n : i # n => g[i] = pipe[i]
    BY <2>3, <2>4
  <2>7. /\ l \in Seq(Phrases) /\ Len(l) = L - (n - 1) /\ l[1] = y
        /\ \A i \in 1 .. L - (n - 1) : i # 1 => l[i] = pipe[i + (n - 1)]
    <3>1. 1 \in 1 .. Len(l0)
      BY <1>1, <2>5
    <3> QED
      BY <2>3, <2>5, <3>1
  <2>8. read.got = g /\ read.left = l
    BY <2>1 DEF g0, l0, x, y
  <2> HIDE DEF g, l
  <2>9. \A i \in 1 .. n :
           /\ g[i].report = pipe[i].report
           /\ i < n => g[i] = pipe[i]
           /\ g[i].key \in {pipe[i].key, "piece"}
    BY <2>3, <2>6 DEF p
  <2>10. \A a \in 1 .. L - (n - 1) :
           /\ l[a].report = pipe[a + (n - 1)].report
           /\ l[a].whole = pipe[a + (n - 1)].whole
           /\ a > 1 => l[a] = pipe[a + (n - 1)]
           /\ l[a].key \in {pipe[a + (n - 1)].key, "piece", "nothing"}
    <3> SUFFICES ASSUME NEW a \in 1 .. L - (n - 1)
                 PROVE  /\ l[a].report = pipe[a + (n - 1)].report
                        /\ l[a].whole = pipe[a + (n - 1)].whole
                        /\ a > 1 => l[a] = pipe[a + (n - 1)]
                        /\ l[a].key \in {pipe[a + (n - 1)].key, "piece", "nothing"}
      OBVIOUS
    <3>1. CASE a = 1
      <4>1. a + (n - 1) = n
        BY <3>1
      <4> QED
        BY <2>3, <2>7, <3>1, <4>1 DEF p
    <3>2. CASE a # 1
      BY <2>7, <3>2
    <3> QED
      BY <3>1, <3>2
  <2>11. n - 1 \in 0 .. L
    BY <1>1
  <2>12. Splits(read, n, n - 1)
    BY <2>3, <2>6, <2>7, <2>8, <2>9, <2>10 DEF Splits
  <2> QED
    BY <2>11, <2>12
<1>4. \/ \E n \in DOMAIN pipe :
              read = [got |-> SubSeq(pipe, 1, n), left |-> SubSeq(pipe, n + 1, Len(pipe))]
      \/ \E n \in DOMAIN pipe : \E parts \in Parts(n) :
              read = [got |-> [SubSeq(pipe, 1, n) EXCEPT ![n] = parts[1]],
                      left |-> [SubSeq(pipe, n, Len(pipe)) EXCEPT ![1] = parts[2]]]
  BY Zenon DEF Reads
<1> QED
  BY <1>2, <1>3, <1>4

\* The first phrase of a line that counts is its TPV, or the one before it of another line.
LEMMA ValidBegins ==
    ASSUME NEW phrases \in Seq(Phrases), IsValidLine(phrases)
    PROVE  \E j \in 1 .. Len(phrases) :
              /\ phrases[j].key = "TPV"
              /\ j = 1 \/ (j = 2 /\ phrases[1].report # phrases[2].report)
<1>1. phrases # <<>> /\ \E p \in Range(FirstPhrase(phrases)) : p.key = "TPV"
  BY DEF IsValidLine
<1>2. Len(phrases) \in Nat /\ Len(phrases) >= 1
  BY <1>1
<1> DEFINE e == IF Len(phrases) > 1 /\ phrases[1].report # phrases[2].report THEN 2 ELSE 1
<1>3. /\ e \in 1 .. Len(phrases) /\ e \in {1, 2}
      /\ e = 2 => phrases[1].report # phrases[2].report
  BY <1>2
<1>4. FirstPhrase(phrases) = SubSeq(phrases, 1, e)
  BY DEF FirstPhrase
<1> HIDE DEF e
<1>5. /\ SubSeq(phrases, 1, e) \in Seq(Phrases)
      /\ Len(SubSeq(phrases, 1, e)) = e + 1 - 1
      /\ \A i \in 1 .. e + 1 - 1 : SubSeq(phrases, 1, e)[i] = phrases[i + 1 - 1]
  BY <1>2, <1>3, SubSeqIs
<1>6. DOMAIN SubSeq(phrases, 1, e) = 1 .. e /\ \A i \in 1 .. e : SubSeq(phrases, 1, e)[i] = phrases[i]
  <2>1. e + 1 - 1 = e /\ \A i \in 1 .. e : i + 1 - 1 = i
    BY <1>2, <1>3
  <2> QED
    BY <1>5, <2>1
<1>7. PICK j \in 1 .. e : phrases[j].key = "TPV"
  BY <1>1, <1>4, <1>6 DEF Range
<1>8. j \in 1 .. Len(phrases) /\ (j = 1 \/ (j = 2 /\ e = 2))
  BY <1>2, <1>3, <1>7
<1> QED
  BY <1>3, <1>7, <1>8

\* What is read of a key is newer than its value and older than what is left of it.
LEMMA KeyRead ==
    ASSUME PipeOK, NEW read, NEW m \in 1 .. Len(pipe), NEW off \in 0 .. Len(pipe),
           Splits(read, m, off), NEW key \in Keys, GetValue(read.got, key) # 0
    PROVE  /\ GetValue(read.got, key) \in 1 .. m
           /\ pipe[GetValue(read.got, key)].key = key
           /\ ValueOf(read.got, key) \in Nat
           /\ readings[key] < ValueOf(read.got, key)
           /\ ValueOf(read.got, key) <= reports
           /\ \A a \in 1 .. Len(pipe) - off :
                  read.left[a].key = key => ValueOf(read.got, key) < read.left[a].report
<1> DEFINE i == GetValue(read.got, key)
           v == ValueOf(read.got, key)
           n == Len(pipe)
<1>1. /\ read.got \in Seq(Phrases) /\ Len(read.got) = m
      /\ \A j \in 1 .. m : /\ read.got[j].report = pipe[j].report
                           /\ read.got[j].key \in {pipe[j].key, "piece"}
  BY DEF Splits
<1>2. i \in 1 .. m /\ read.got[i].key = key
  BY <1>1, ValueFound
<1>3. v = read.got[i].report
  BY DEF ValueOf
<1>4. key # "piece" /\ key # "nothing"
  BY DEF Keys
<1> HIDE DEF i, v
<1>5. v = pipe[i].report /\ pipe[i].key = key
  BY <1>1, <1>2, <1>3, <1>4
<1>6. /\ pipe \in Seq(Phrases) /\ n \in Nat /\ DOMAIN pipe = 1 .. n
  BY DEF PipeOK, InOrder
<1>7. i \in 1 .. n /\ m \in 1 .. n /\ off \in 0 .. n
  BY <1>2, <1>6
<1>8. v \in Nat /\ readings[key] < v /\ v <= reports
  <2>1. pipe[i] \in Phrases
    BY <1>6, <1>7
  <2>2. pipe[i].report \in Nat
    BY <2>1 DEF Phrases
  <2> QED
    BY <1>5, <1>6, <1>7, <2>2 DEF PipeOK, InOrder
<1>9. ASSUME NEW a \in 1 .. n - off, read.left[a].key = key
      PROVE  v < read.left[a].report
  <2>1. /\ read.left[a].report = pipe[a + off].report
        /\ read.left[a].key \in {pipe[a + off].key, "piece", "nothing"}
    BY DEF Splits
  <2>2. pipe[a + off].key = key
    BY <1>4, <1>9, <2>1
  <2>3. a + off \in 1 .. n
    BY <1>6, <1>7
  <2>4. i < a + off
    <3>1. CASE off = m
      BY <1>2, <1>6, <1>7, <3>1
    <3>2. CASE off = m - 1 /\ (read.got[m].key = "piece" \/ read.left[1].key \in {"piece", "nothing"})
      <4>1. CASE a = 1
        <5>1. read.got[m].key = "piece"
          BY <1>4, <1>9, <3>2, <4>1
        <5>2. i # m
          BY <1>2, <1>4, <5>1
        <5> QED
          BY <1>2, <1>6, <1>7, <3>2, <4>1, <5>2
      <4>2. CASE a # 1
        BY <1>2, <1>6, <1>7, <3>2, <4>2
      <4> QED
        BY <4>1, <4>2
    <3> QED
      BY <3>1, <3>2 DEF Splits
  <2>5. pipe[i].report < pipe[a + off].report
    BY <1>5, <1>6, <1>7, <2>2, <2>3, <2>4 DEF PipeOK, InOrder
  <2> QED
    BY <1>5, <2>1, <2>5
<1> QED
  BY <1>2, <1>5, <1>8, <1>9 DEF i, v

\* Where the time or the position was cut short there was no speed behind it.
LEMMA PositionRead ==
    ASSUME PipeOK, NEW read, NEW m \in 1 .. Len(pipe), NEW off \in 0 .. Len(pipe),
           Splits(read, m, off), ParseLine(read.got), NEW key \in Position
    PROVE  read.got[GetValue(read.got, key)].whole
<1> DEFINE i == GetValue(read.got, key)
           s == GetValue(read.got, "speed")
           n == Len(pipe)
<1>1. /\ key \in Keys /\ key # "piece" /\ key # "TPV" /\ key # "speed" /\ "speed" \in Keys
  BY DEF Keys, Position
<1>2. i # 0 /\ s # 0 /\ IsValidLine(read.got)
  BY <1>1 DEF ParseLine, Found
<1>3. /\ i \in 1 .. m /\ pipe[i].key = key
      /\ s \in 1 .. m /\ pipe[s].key = "speed"
  BY <1>1, <1>2, KeyRead
<1>4. /\ read.got \in Seq(Phrases) /\ Len(read.got) = m
      /\ \A j \in 1 .. m : /\ read.got[j].report = pipe[j].report
                           /\ j < m => read.got[j] = pipe[j]
                           /\ read.got[j].key \in {pipe[j].key, "piece"}
  BY DEF Splits
<1>5. \A b \in 1 .. m : read.got[b].key = key => i <= b
  BY <1>2, <1>4, ValueFound
<1> HIDE DEF i, s
<1>6. pipe \in Seq(Phrases) /\ n \in Nat /\ DOMAIN pipe = 1 .. n /\ m \in 1 .. n
  BY DEF PipeOK, InOrder
<1>7. s \in 1 .. n /\ i \in 1 .. n
  BY <1>3, <1>6
<1> SUFFICES ASSUME i = m PROVE FALSE
  <2>1. i # m => i < m
    BY <1>3, <1>6
  <2>2. pipe[i].whole
    BY <1>6, <1>7 DEF PipeOK, InOrder
  <2>3. i < m => read.got[i] = pipe[i]
    BY <1>3, <1>4
  <2> QED
    BY <2>1, <2>2, <2>3 DEF i
<1>8. s < m /\ s + 1 \in 1 .. m
  BY <1>1, <1>3, <1>6
<1>9. pipe[s + 1].report = pipe[s].report /\ Before(s)
  BY <1>3, <1>6, <1>7 DEF PipeOK, LinesKept, CommaAfter
<1>10. CASE \A k \in Position :
              \E b \in 1 .. s : pipe[b].key = k /\ pipe[b].report = pipe[s].report
  <2>1. PICK b \in 1 .. s : pipe[b].key = key
    BY <1>10
  <2>2. b \in 1 .. m /\ b < m
    BY <1>3, <1>6, <1>8, <2>1
  <2>3. i <= b
    BY <1>4, <1>5, <2>1, <2>2
  <2> QED
    BY <1>6, <2>2, <2>3
<1>11. CASE \A j \in 1 .. s : pipe[j].report = pipe[s].report /\ pipe[j].key # "TPV"
  <2>1. PICK j \in 1 .. m :
           /\ read.got[j].key = "TPV"
           /\ j = 1 \/ (j = 2 /\ read.got[1].report # read.got[2].report)
    BY <1>2, <1>4, ValidBegins
  <2>2. pipe[j].key = "TPV"
    BY <1>4, <2>1
  <2>3. ~(j \in 1 .. s)
    BY <1>11, <2>2
  <2>4. s = 1 /\ j = 2
    BY <1>3, <1>6, <2>1, <2>3
  <2>5. pipe[2].report = pipe[1].report
    BY <1>9, <2>4
  <2>6. 1 \in 1 .. m /\ 2 \in 1 .. m
    BY <1>6, <2>4
  <2> QED
    BY <1>4, <2>1, <2>4, <2>5, <2>6
<1> QED
  BY <1>9, <1>10, <1>11 DEF Before

\* What a read leaves is in order as before.
LEMMA LeftInOrder ==
    ASSUME PipeOK, NEW read, NEW m \in 1 .. Len(pipe), NEW off \in 0 .. Len(pipe),
           Splits(read, m, off), pipe' = read.left, reports' = reports,
           readings' \in [Keys -> Int], \A key \in Keys : readings'[key] <= reports,
           \A a \in 1 .. Len(pipe) - off :
               read.left[a].key \in Keys => readings'[read.left[a].key] < read.left[a].report
    PROVE  InOrder'
<1> DEFINE n == Len(pipe)
<1>1. pipe \in Seq(Phrases) /\ n \in Nat /\ DOMAIN pipe = 1 .. n /\ off \in 0 .. n
  BY DEF PipeOK, InOrder
<1>2. /\ pipe' \in Seq(Phrases) /\ Len(pipe') = n - off
      /\ \A a \in 1 .. n - off :
           /\ pipe'[a].report = pipe[a + off].report
           /\ pipe'[a].whole = pipe[a + off].whole
           /\ pipe'[a].key \in {pipe[a + off].key, "piece", "nothing"}
  BY DEF Splits
<1>3. DOMAIN pipe' = 1 .. n - off
  BY <1>2
<1> HIDE DEF n
<1>4. \A a \in 1 .. n - off : a + off \in 1 .. n
  BY <1>1
<1>5. \A a \in 1 .. n - off : pipe'[a].report <= reports /\ pipe'[a].whole
  BY <1>1, <1>2, <1>4 DEF PipeOK, InOrder
<1>6. ASSUME NEW a \in 1 .. n - off, NEW b \in 1 .. n - off, a < b
      PROVE  /\ pipe'[a].report <= pipe'[b].report
             /\ pipe'[a].key = pipe'[b].key /\ pipe'[a].key \in Keys
                  => pipe'[a].report < pipe'[b].report
  <2>1. a + off < b + off
    BY <1>1, <1>6
  <2>2. pipe[a + off].report <= pipe[b + off].report
    BY <1>1, <1>4, <2>1 DEF PipeOK, InOrder
  <2>3. pipe[a + off].key = pipe[b + off].key /\ pipe[a + off].key \in Keys
           => pipe[a + off].report < pipe[b + off].report
    BY <1>1, <1>4, <2>1 DEF PipeOK, InOrder
  <2>4. pipe'[a].key \in Keys => pipe'[a].key = pipe[a + off].key
    BY <1>2 DEF Keys
  <2>5. pipe'[b].key \in Keys => pipe'[b].key = pipe[b + off].key
    BY <1>2 DEF Keys
  <2> QED
    BY <1>2, <2>2, <2>3, <2>4, <2>5
<1>7. \A a \in 1 .. n - off :
          pipe'[a].key \in Keys => readings'[pipe'[a].key] < pipe'[a].report
  BY DEF n
<1>8. reports \in Nat
  BY DEF PipeOK, InOrder
<1> QED
  BY <1>2, <1>3, <1>5, <1>6, <1>7, <1>8 DEF InOrder

LEMMA LeftLines ==
    ASSUME PipeOK, NEW read, NEW m \in 1 .. Len(pipe), NEW off \in 0 .. Len(pipe),
           Splits(read, m, off), pipe' = read.left
    PROVE  LinesKept'
<1> DEFINE n == Len(pipe)
<1>1. pipe \in Seq(Phrases) /\ n \in Nat /\ DOMAIN pipe = 1 .. n /\ off \in 0 .. n
  BY DEF PipeOK, InOrder
<1>2. /\ pipe' \in Seq(Phrases) /\ Len(pipe') = n - off
      /\ \A a \in 1 .. n - off :
           /\ pipe'[a].report = pipe[a + off].report
           /\ a > 1 => pipe'[a] = pipe[a + off]
           /\ pipe'[a].key \in {pipe[a + off].key, "piece", "nothing"}
  BY DEF Splits
<1>3. DOMAIN pipe' = 1 .. n - off
  BY <1>2
<1> HIDE DEF n
<1>4. \A a \in 1 .. n - off : a + off \in 1 .. n
  BY <1>1
<1>5. \A a, b \in 1 .. n :
          /\ pipe[a].key = "TPV" /\ pipe[a].report = pipe[b].report => a <= b
          /\ a <= b => pipe[a].report <= pipe[b].report
          /\ pipe[a].report \in Nat
  <2> SUFFICES ASSUME NEW a \in 1 .. n, NEW b \in 1 .. n
               PROVE  /\ pipe[a].key = "TPV" /\ pipe[a].report = pipe[b].report => a <= b
                      /\ a <= b => pipe[a].report <= pipe[b].report
                      /\ pipe[a].report \in Nat
    OBVIOUS
  <2>1. pipe[a] \in Phrases
    BY <1>1
  <2>2. pipe[a].report \in Nat
    BY <2>1 DEF Phrases
  <2>3. a < b => pipe[a].report <= pipe[b].report
    BY <1>1 DEF PipeOK, InOrder
  <2>4. a <= b => a = b \/ a < b
    BY <1>1
  <2>5. pipe[a].key = "TPV" /\ pipe[a].report = pipe[b].report => a <= b
    BY <1>1 DEF PipeOK, LinesKept
  <2> QED
    BY <2>2, <2>3, <2>4, <2>5
<1>6. ASSUME NEW a \in 1 .. n - off, NEW b \in 1 .. n - off,
             pipe'[a].key = "TPV", pipe'[a].report = pipe'[b].report
      PROVE  a <= b
  <2>1. pipe[a + off].key = "TPV" /\ pipe[a + off].report = pipe[b + off].report
    BY <1>2, <1>6
  <2>2. a + off <= b + off
    BY <1>4, <1>5, <2>1
  <2> QED
    BY <1>1, <2>2
<1>7. ASSUME NEW s \in 1 .. n - off, pipe'[s].key = "speed"
      PROVE  /\ s + 1 \in 1 .. n - off /\ pipe'[s + 1].report = pipe'[s].report
             /\ Before(s)'
  <2>1. pipe[s + off].key = "speed"
    BY <1>2, <1>7
  <2>2. /\ (s + off) + 1 \in 1 .. n /\ pipe[(s + off) + 1].report = pipe[s + off].report
        /\ Before(s + off)
    BY <1>1, <1>4, <2>1 DEF PipeOK, LinesKept, CommaAfter
  <2>3. s + 1 \in 1 .. n - off /\ (s + 1) + off = (s + off) + 1
    BY <1>1, <2>2
  <2>4. pipe'[s + 1].report = pipe'[s].report
    BY <1>2, <2>2, <2>3
  <2>5. \A j \in 1 .. s : j \in 1 .. n - off /\ j + off \in 1 .. s + off /\ j + off \in 1 .. n
    BY <1>1
  <2>6. CASE \A j \in 1 .. s + off : pipe[j].report = pipe[s + off].report /\ pipe[j].key # "TPV"
    <3>1. \A j \in 1 .. s : pipe'[j].report = pipe'[s].report /\ pipe'[j].key # "TPV"
      BY <1>2, <2>5, <2>6
    <3> QED
      BY <2>3, <2>4, <3>1 DEF Before
  <2>7. CASE \A key \in Position :
               \E b \in 1 .. s + off : pipe[b].key = key /\ pipe[b].report = pipe[s + off].report
    <3>1. CASE \A key \in Position :
                 \E c \in 1 .. s : pipe'[c].key = key /\ pipe'[c].report = pipe'[s].report
      BY <2>3, <2>4, <3>1 DEF Before
    <3>2. CASE \E key \in Position :
                 \A c \in 1 .. s : ~(pipe'[c].key = key /\ pipe'[c].report = pipe'[s].report)
      <4>1. PICK key \in Position :
               \A c \in 1 .. s : ~(pipe'[c].key = key /\ pipe'[c].report = pipe'[s].report)
        BY <3>2
      <4>2. PICK b \in 1 .. s + off : pipe[b].key = key /\ pipe[b].report = pipe[s + off].report
        BY <2>7
      <4>3. b \in 1 .. n
        BY <1>1, <1>4, <4>2
      <4>4. b <= off + 1
        <5> SUFFICES ASSUME b > off + 1 PROVE FALSE
          BY <1>1, <4>2
        <5>1. b - off \in 1 .. s /\ b - off > 1 /\ (b - off) + off = b
          BY <1>1, <4>2
        <5>2. pipe'[b - off] = pipe[b]
          BY <1>2, <2>5, <5>1
        <5> QED
          BY <1>2, <4>1, <4>2, <5>1, <5>2
      <4>5. ASSUME NEW j \in 1 .. s
            PROVE  pipe'[j].report = pipe'[s].report /\ pipe'[j].key # "TPV"
        <5>1. b <= j + off /\ j + off <= s + off
          BY <1>1, <4>2, <4>4
        <5>2. /\ pipe[b].report <= pipe[j + off].report
              /\ pipe[j + off].report <= pipe[s + off].report
              /\ pipe[j + off].report \in Nat /\ pipe[s + off].report \in Nat
          BY <1>4, <1>5, <2>5, <4>3, <5>1
        <5>3. pipe[j + off].report = pipe[b].report /\ pipe[j + off].report = pipe[s + off].report
          BY <4>2, <5>2
        <5>4. pipe'[j].key # "TPV"
          <6> SUFFICES ASSUME pipe'[j].key = "TPV" PROVE FALSE
            OBVIOUS
          <6>1. pipe[j + off].key = "TPV"
            BY <1>2, <2>5
          <6>2. j + off <= b
            BY <1>5, <2>5, <4>3, <5>3, <6>1
          <6>3. j + off = b
            BY <1>1, <4>2, <5>1, <6>2
          <6> QED
            BY <4>2, <6>1, <6>3 DEF Position
        <5> QED
          BY <1>2, <2>5, <5>3, <5>4
      <4> QED
        BY <2>3, <2>4, <4>5 DEF Before
    <3> QED
      BY <3>1, <3>2
  <2> QED
    BY <2>2, <2>6, <2>7 DEF Before
<1> QED
  BY <1>3, <1>6, <1>7 DEF LinesKept, CommaAfter

\* A read keeps the order of what is left, and takes nothing but newer readings with
\* a position that is whole.
LEMMA ReadsKeep ==
    ASSUME PipeOK, PositionWhole, RxParseGPS
    PROVE  /\ PipeOK' /\ PositionWhole' /\ SpeedTaken'
           /\ readings' # readings => \A key \in Keys : readings'[key] > readings[key]
<1>1. PICK read \in Reads :
          /\ pipe' = read.left
          /\ GetGPSReadings(SplitLine(read.got))
          /\ refused' = (ParseLine(SplitLine(read.got)) /\ Refuses(readings'))
          /\ UNCHANGED reports
  BY DEF RxParseGPS
<1> DEFINE phrases == SplitLine(read.got)
<1>2. /\ readings' = Assign(phrases)
      /\ cut' = IF ParseLine(phrases) THEN CutKeys(phrases) ELSE cut
      /\ refused' = (ParseLine(phrases) /\ Refuses(readings'))
  BY <1>1 DEF GetGPSReadings
<1>3. pipe \in Seq(Phrases) /\ readings \in [Keys -> Int] /\ reports \in Nat
  BY DEF PipeOK, InOrder
<1>4. PICK m \in 1 .. Len(pipe), off \in 0 .. Len(pipe) : Splits(read, m, off)
  BY <1>3, ReadSplits
<1>5. LinesKept'
  BY <1>1, <1>4, LeftLines
<1>6. \A a \in 1 .. Len(pipe) - off :
          read.left[a].key \in Keys =>
             /\ readings[read.left[a].key] < read.left[a].report
             /\ read.left[a].key = pipe[a + off].key
  <2> SUFFICES ASSUME NEW a \in 1 .. Len(pipe) - off, read.left[a].key \in Keys
               PROVE  /\ readings[read.left[a].key] < read.left[a].report
                      /\ read.left[a].key = pipe[a + off].key
    OBVIOUS
  <2>1. /\ read.left[a].report = pipe[a + off].report
        /\ read.left[a].key \in {pipe[a + off].key, "piece", "nothing"}
    BY <1>4 DEF Splits
  <2>2. read.left[a].key = pipe[a + off].key
    BY <2>1 DEF Keys
  <2>3. a + off \in DOMAIN pipe
    BY <1>3
  <2> QED
    BY <2>1, <2>2, <2>3 DEF PipeOK, InOrder
<1>7. CASE ~ParseLine(phrases)
  <2>1. readings' = readings /\ cut' = cut /\ refused' = FALSE
    BY <1>2, <1>7 DEF Assign
  <2>2. \A key \in Keys : readings'[key] <= reports
    BY <2>1 DEF PipeOK, InOrder
  <2>3. InOrder'
    BY <1>1, <1>3, <1>4, <1>6, <2>1, <2>2, LeftInOrder
  <2> QED
    BY <1>5, <2>1, <2>3 DEF PipeOK, PositionWhole, SpeedTaken
<1>8. CASE ParseLine(phrases)
  <2>1. phrases = read.got
    BY <1>8 DEF SplitLine, ParseLine, IsValidLine
  <2> HIDE DEF phrases
  <2>2. \A key \in Keys : GetValue(read.got, key) # 0
    BY <1>8, <2>1 DEF ParseLine, Found
  <2>3. readings' = [key \in Keys |-> ValueOf(read.got, key)]
    BY <1>2, <1>8, <2>1 DEF Assign
  <2>4. \A key \in Keys :
           /\ ValueOf(read.got, key) \in Nat
           /\ readings[key] < ValueOf(read.got, key)
           /\ ValueOf(read.got, key) <= reports
           /\ \A a \in 1 .. Len(pipe) - off :
                  read.left[a].key = key => ValueOf(read.got, key) < read.left[a].report
    BY <1>4, <2>2, KeyRead
  <2>5. /\ readings' \in [Keys -> Int]
        /\ \A key \in Keys : readings'[key] <= reports /\ readings[key] < readings'[key]
    BY <2>3, <2>4
  <2>6. \A a \in 1 .. Len(pipe) - off :
           read.left[a].key \in Keys => readings'[read.left[a].key] < read.left[a].report
    BY <2>3, <2>4
  <2>7. InOrder'
    BY <1>1, <1>4, <2>5, <2>6, LeftInOrder
  <2>8. SpeedTaken'
    <3>1. "speed" \in Keys
      BY DEF Keys
    <3>2. readings'["speed"] \in Nat
      BY <2>3, <2>4, <3>1
    <3>3. ~Refuses(readings')
      BY <3>2 DEF Refuses
    <3>4. refused' = FALSE
      BY <1>2, <3>3
    <3> QED
      BY <3>4 DEF SpeedTaken
  <2>9. PositionWhole'
    <3>1. cut' = CutKeys(read.got)
      BY <1>2, <1>8, <2>1
    <3>2. \A key \in Position : read.got[GetValue(read.got, key)].whole
      BY <1>4, <1>8, <2>1, PositionRead
    <3>3. \A key \in Keys : key # "speed" => key \in Position
      BY DEF Keys, Position
    <3> QED
      BY <3>1, <3>2, <3>3 DEF PositionWhole, CutKeys
  <2>10. \A key \in Keys : readings'[key] > readings[key]
    <3> SUFFICES ASSUME NEW key \in Keys PROVE readings'[key] > readings[key]
      OBVIOUS
    <3>1. readings[key] < readings'[key] /\ readings[key] \in Int /\ readings'[key] \in Int
      BY <1>3, <2>5
    <3> QED
      BY <3>1
  <2> QED
    BY <1>5, <2>7, <2>8, <2>9, <2>10 DEF PipeOK
<1> QED
  BY <1>7, <1>8

\* What every step of the device and its reader keeps.
LEMMA GPSStep ==
    PipeOK /\ PositionWhole /\ SpeedTaken /\ [GPSNext]_gpsVars
      => /\ (PipeOK /\ PositionWhole /\ SpeedTaken)'
         /\ readings' # readings => \A key \in Keys : readings'[key] > readings[key]
<1> SUFFICES ASSUME PipeOK, PositionWhole, SpeedTaken, [GPSNext]_gpsVars
             PROVE  /\ (PipeOK /\ PositionWhole /\ SpeedTaken)'
                    /\ readings' # readings =>
                           \A key \in Keys : readings'[key] > readings[key]
  OBVIOUS
<1>1. CASE DeviceWrites
  <2>1. PipeOK'
    BY <1>1, WritesKeep
  <2>2. readings' = readings /\ cut' = cut /\ refused' = refused
    BY <1>1 DEF DeviceWrites
  <2> QED
    BY <2>1, <2>2 DEF PositionWhole, SpeedTaken
<1>2. CASE RxParseGPS
  BY <1>2, ReadsKeep
<1>3. CASE UNCHANGED gpsVars
  <2>1. /\ pipe' = pipe /\ reports' = reports /\ readings' = readings
        /\ cut' = cut /\ refused' = refused
    BY <1>3 DEF gpsVars
  <2>2. PipeOK'
    BY <2>1 DEF PipeOK, InOrder, LinesKept, CommaAfter, Before
  <2> QED
    BY <2>1, <2>2 DEF PositionWhole, SpeedTaken
<1> QED
  BY <1>1, <1>2, <1>3 DEF GPSNext

LEMMA GPSStarts == GPSInit => PipeOK /\ PositionWhole /\ SpeedTaken
BY PipeInit DEF GPSInit, PositionWhole, SpeedTaken

\* A reading that is kept is newer in all its parts than the one before, for every
\* number of reports and wherever the reads of the pipe end.
THEOREM ReadingsNewer == GPSSpec => ReadingsAdvance
<1>1. ASSUME PipeOK, PositionWhole, SpeedTaken, [GPSNext]_gpsVars
      PROVE  [readings' # readings =>
                 \A key \in Keys : readings'[key] > readings[key]]_readings
  BY <1>1, GPSStep
<1> QED
  BY GPSStarts, GPSStep, <1>1, PTL DEF GPSSpec, ReadingsAdvance

\* No time and no position of a reading was cut short by the end of a read, and every
\* reading has a speed, which the log's header takes.
THEOREM ReadingsWhole == GPSSpec => []ReadingWhole
BY GPSStarts, GPSStep, PTL DEF GPSSpec, ReadingWhole

-----------------------------------------------------------------------------
(***************************************************************************)
(* The command line.  After each option, what the loop has is what the     *)
(* options so far mean; so it is after the last one.                       *)
(***************************************************************************)

\* Induction: a set with 0, and with the successor of each of its numbers, has all.
LEMMA NatInduct ==
    ASSUME NEW S, 0 \in S, \A n \in Nat : n \in S => n + 1 \in S
    PROVE  Nat \subseteq S
<1> DEFINE T == Nat \ S
           R == {ss \in Nat \X Nat : ss[1] < ss[2]}
<1>1. SUFFICES ASSUME T # {} PROVE FALSE
  OBVIOUS
<1>2. IsWellFoundedOn(R, Nat)
  BY NatLessThanWellFounded DEF OpToRel
<1>3. PICK x \in T : \A y \in T : ~(<<y, x>> \in R)
  <2>1. T \subseteq Nat
    OBVIOUS
  <2> HIDE DEF T, R
  <2> QED
    BY <1>1, <1>2, <2>1, WFMin
<1>4. \A y \in T : ~(y < x)
  BY <1>3
<1>5. x \in Nat /\ x \notin S /\ x - 1 \in Nat
  OBVIOUS
<1>6. x - 1 \in T
  BY <1>5
<1> QED
  BY <1>4, <1>5, <1>6

\* What the assumption says of a command line.
IsCommand(args) ==
    /\ Len(args) \in Nat /\ DOMAIN args = 1 .. Len(args)
    /\ \A i \in 1 .. Len(args) :
        /\ args[i].opt = "s" => args[i].arg \in Seq(Int)
        /\ args[i].opt = "S" => args[i].arg \in Nat
        /\ args[i].opt \notin {"s", "S"} => args[i].arg \in Int

\* The loop: one state after each option.
Loop(after, args, m) ==
    after = [i \in 0 .. m |->
               IF i = 0 THEN NoOptions ELSE Option(after[i - 1], args[i])]

\* There is one for every command line, which is what the recursive function rests on.
LEMMA LoopExists ==
    ASSUME NEW args, NEW m \in Nat
    PROVE  \E after : Loop(after, args, m)
<1> DEFINE S == {n \in Nat : \E f : Loop(f, args, n)}
<1>1. 0 \in S
  <2> DEFINE f == [i \in 0 .. 0 |-> NoOptions]
  <2>1. f = [i \in 0 .. 0 |-> IF i = 0 THEN NoOptions ELSE Option(f[i - 1], args[i])]
    OBVIOUS
  <2>2. Loop(f, args, 0)
    BY <2>1 DEF Loop
  <2> HIDE DEF f
  <2> QED
    BY <2>2
<1>2. ASSUME NEW n \in Nat, n \in S PROVE n + 1 \in S
  <2>1. PICK f : Loop(f, args, n)
    BY <1>2
  <2> DEFINE next == Option(f[n], args[n + 1])
             g == [i \in 0 .. n + 1 |-> IF i = n + 1 THEN next ELSE f[i]]
  <2> HIDE DEF next
  <2>2. g[n + 1] = next /\ \A i \in 0 .. n : g[i] = f[i]
    OBVIOUS
  <2>3. ASSUME NEW i \in 0 .. n + 1
        PROVE  g[i] = IF i = 0 THEN NoOptions ELSE Option(g[i - 1], args[i])
    <3>1. CASE i = n + 1
      <4>1. g[i - 1] = f[n] /\ i # 0
        BY <2>2, <3>1
      <4> QED
        BY <2>2, <3>1, <4>1 DEF next
    <3>2. CASE i \in 0 .. n
      <4>1. f[i] = IF i = 0 THEN NoOptions ELSE Option(f[i - 1], args[i])
        BY <2>1, <3>2 DEF Loop
      <4>2. g[i] = f[i] /\ (i # 0 => g[i - 1] = f[i - 1])
        BY <2>2, <3>2
      <4> HIDE DEF g
      <4> QED
        BY <4>1, <4>2
    <3> QED
      BY <3>1, <3>2
  <2>4. g = [i \in 0 .. n + 1 |-> g[i]]
    OBVIOUS
  <2> HIDE DEF g
  <2>5. Loop(g, args, n + 1)
    BY <2>3, <2>4 DEF Loop
  <2> QED
    BY <2>5
<1> HIDE DEF S
<1>3. Nat \subseteq S
  BY <1>1, <1>2, NatInduct
<1> QED
  BY <1>3 DEF S

\* So the constructor's loop has a state after each option, and ends in the last.
LEMMA LoopRuns ==
    ASSUME NEW args, Len(args) \in Nat
    PROVE  \E after :
             /\ after[0] = NoOptions
             /\ \A i \in 1 .. Len(args) : after[i] = Option(after[i - 1], args[i])
             /\ WspaceClient(args) = after[Len(args)]
<1> DEFINE after == CHOOSE f : Loop(f, args, Len(args))
<1>1. WspaceClient(args) = after[Len(args)]
  BY DEF WspaceClient, Loop
<1>2. Loop(after, args, Len(args))
  BY LoopExists
<1> HIDE DEF after
<1>3. /\ after[0] = NoOptions
      /\ \A i \in 1 .. Len(args) : after[i] = Option(after[i - 1], args[i])
  BY <1>2 DEF Loop
<1> QED
  BY <1>1, <1>3

\* The ids that have been given, option by option.
IdsLoop(ids, args, m) ==
    ids = [j \in 0 .. m |->
             IF j = 0 THEN <<>>
             ELSE IF args[j].opt = "s" THEN ids[j - 1] \o args[j].arg ELSE ids[j - 1]]

\* There is one for every command line too.
LEMMA IdsLoopExists ==
    ASSUME NEW args, NEW m \in Nat
    PROVE  \E ids : IdsLoop(ids, args, m)
<1> DEFINE After(ids, j) == IF args[j].opt = "s" THEN ids \o args[j].arg ELSE ids
           S == {n \in Nat : \E f : IdsLoop(f, args, n)}
<1>1. 0 \in S
  <2> DEFINE f == [j \in 0 .. 0 |-> <<>>]
  <2>1. f = [j \in 0 .. 0 |-> IF j = 0 THEN <<>> ELSE After(f[j - 1], j)]
    OBVIOUS
  <2>2. IdsLoop(f, args, 0)
    BY <2>1 DEF IdsLoop
  <2> HIDE DEF f
  <2> QED
    BY <2>2
<1>2. ASSUME NEW n \in Nat, n \in S PROVE n + 1 \in S
  <2>1. PICK f : IdsLoop(f, args, n)
    BY <1>2
  <2> DEFINE next == After(f[n], n + 1)
             g == [i \in 0 .. n + 1 |-> IF i = n + 1 THEN next ELSE f[i]]
  <2> HIDE DEF next
  <2>2. g[n + 1] = next /\ \A i \in 0 .. n : g[i] = f[i]
    OBVIOUS
  <2>3. ASSUME NEW i \in 0 .. n + 1
        PROVE  g[i] = IF i = 0 THEN <<>> ELSE After(g[i - 1], i)
    <3>1. CASE i = n + 1
      <4>1. g[i - 1] = f[n] /\ i # 0
        BY <2>2, <3>1
      <4> QED
        BY <2>2, <3>1, <4>1 DEF next
    <3>2. CASE i \in 0 .. n
      <4>1. f[i] = IF i = 0 THEN <<>> ELSE After(f[i - 1], i)
        BY <2>1, <3>2 DEF IdsLoop
      <4>2. g[i] = f[i] /\ (i # 0 => g[i - 1] = f[i - 1])
        BY <2>2, <3>2
      <4> HIDE DEF g
      <4> QED
        BY <4>1, <4>2
    <3> QED
      BY <3>1, <3>2
  <2>4. g = [i \in 0 .. n + 1 |-> g[i]]
    OBVIOUS
  <2> HIDE DEF g
  <2>5. IdsLoop(g, args, n + 1)
    BY <2>3, <2>4 DEF IdsLoop
  <2> QED
    BY <2>5
<1> HIDE DEF S
<1>3. Nat \subseteq S
  BY <1>1, <1>2, NatInduct
<1> QED
  BY <1>3 DEF S

\* An option -s adds its ids to those before it; no other option adds any.
LEMMA IdsGrow ==
    ASSUME NEW args, Len(args) \in Nat
    PROVE  /\ IdsBefore(args, 1) = <<>>
           /\ \A i \in 1 .. Len(args) :
                IdsBefore(args, i + 1) =
                  IF args[i].opt = "s" THEN IdsBefore(args, i) \o args[i].arg
                  ELSE IdsBefore(args, i)
<1> DEFINE ids == CHOOSE f : IdsLoop(f, args, Len(args))
<1>1. \A i : IdsBefore(args, i) = ids[i - 1]
  BY DEF IdsBefore, IdsLoop
<1>2. IdsLoop(ids, args, Len(args))
  BY IdsLoopExists
<1> HIDE DEF ids
<1>3. ids[0] = <<>>
  BY <1>2 DEF IdsLoop
<1>4. ASSUME NEW i \in 1 .. Len(args)
      PROVE  ids[i] = IF args[i].opt = "s" THEN ids[i - 1] \o args[i].arg ELSE ids[i - 1]
  <2>1. i \in 0 .. Len(args) /\ i # 0
    OBVIOUS
  <2>2. ids[i] = IF i = 0 THEN <<>>
                 ELSE IF args[i].opt = "s" THEN ids[i - 1] \o args[i].arg ELSE ids[i - 1]
    BY <1>2, <2>1, Zenon DEF IdsLoop
  <2> QED
    BY <2>1, <2>2
<1>5. IdsBefore(args, 1) = <<>>
  <2>1. 1 - 1 = 0
    OBVIOUS
  <2> QED
    BY <1>1, <1>3, <2>1
<1>6. ASSUME NEW i \in 1 .. Len(args)
      PROVE  IdsBefore(args, i + 1) =
               IF args[i].opt = "s" THEN IdsBefore(args, i) \o args[i].arg
               ELSE IdsBefore(args, i)
  <2>1. (i + 1) - 1 = i
    OBVIOUS
  <2> QED
    BY <1>1, <1>4, <2>1
<1> QED
  BY <1>5, <1>6

\* They are a list of ids.
LEMMA IdsAreSeq ==
    ASSUME NEW args, IsCommand(args), NEW i \in 0 .. Len(args)
    PROVE  IdsBefore(args, i + 1) \in Seq(Int)
<1> DEFINE S == {j \in Nat : j <= Len(args) => IdsBefore(args, j + 1) \in Seq(Int)}
<1>1. 0 \in S
  <2>1. IdsBefore(args, 0 + 1) = <<>>
    BY IdsGrow DEF IsCommand
  <2>2. <<>> \in Seq(Int)
    OBVIOUS
  <2> QED
    BY <2>1, <2>2
<1>2. ASSUME NEW j \in Nat, j \in S PROVE j + 1 \in S
  <2>1. SUFFICES ASSUME j + 1 <= Len(args) PROVE IdsBefore(args, (j + 1) + 1) \in Seq(Int)
    OBVIOUS
  <2>2. IdsBefore(args, j + 1) \in Seq(Int) /\ j + 1 \in 1 .. Len(args)
    BY <1>2, <2>1 DEF IsCommand
  <2> DEFINE ids == IdsBefore(args, j + 1)
             k == j + 1
  <2>3. IdsBefore(args, k + 1) = IF args[k].opt = "s" THEN ids \o args[k].arg ELSE ids
    BY <2>2, IdsGrow DEF IsCommand
  <2>4. args[k].opt = "s" => args[k].arg \in Seq(Int)
    BY <2>2 DEF IsCommand
  <2>5. ids \in Seq(Int)
    BY <2>2
  <2> HIDE DEF ids, k
  <2>6. CASE args[k].opt = "s"
    <3>1. ids \o args[k].arg \in Seq(Int)
      BY <2>4, <2>5, <2>6
    <3> QED
      BY <2>3, <2>6, <3>1 DEF k
  <2>7. CASE args[k].opt # "s"
    BY <2>3, <2>5, <2>7 DEF k
  <2> QED
    BY <2>6, <2>7
<1> HIDE DEF S
<1>3. Nat \subseteq S
  BY <1>1, <1>2, NatInduct
<1> QED
  BY <1>3 DEF S, IsCommand

\* The ids of two lists are those of either.
LEMMA RangeConcat ==
    ASSUME NEW s \in Seq(Int), NEW t \in Seq(Int)
    PROVE  Range(s \o t) = Range(s) \cup Range(t)
<1>1. s \o t \in Seq(Int) /\ Len(s \o t) = Len(s) + Len(t)
  OBVIOUS
<1>2. \A i \in 1 .. Len(s) : (s \o t)[i] = s[i]
  OBVIOUS
<1>3. \A i \in 1 .. Len(t) : (s \o t)[Len(s) + i] = t[i]
  OBVIOUS
<1>4. \A i \in 1 .. Len(s) + Len(t) : i \in 1 .. Len(s) \/ i - Len(s) \in 1 .. Len(t)
  OBVIOUS
<1>5. DOMAIN (s \o t) = 1 .. Len(s) + Len(t) /\ DOMAIN s = 1 .. Len(s) /\ DOMAIN t = 1 .. Len(t)
  BY <1>1
<1>6. Range(s) \subseteq Range(s \o t)
  BY <1>2, <1>5 DEF Range
<1>7. ASSUME NEW i \in 1 .. Len(t) PROVE t[i] \in Range(s \o t)
  <2>1. Len(s) + i \in 1 .. Len(s) + Len(t)
    OBVIOUS
  <2> QED
    BY <1>3, <1>5, <2>1 DEF Range
<1>8. ASSUME NEW i \in 1 .. Len(s) + Len(t) PROVE (s \o t)[i] \in Range(s) \cup Range(t)
  <2>1. CASE i \in 1 .. Len(s)
    BY <1>2, <1>5, <2>1 DEF Range
  <2>2. CASE i - Len(s) \in 1 .. Len(t)
    <3>1. (s \o t)[Len(s) + (i - Len(s))] = t[i - Len(s)] /\ Len(s) + (i - Len(s)) = i
      BY <1>3, <2>2
    <3> QED
      BY <1>5, <2>2, <3>1 DEF Range
  <2> QED
    BY <1>4, <2>1, <2>2
<1> QED
  BY <1>5, <1>6, <1>7, <1>8 DEF Range

\* The options that name the radio so far, and those of -A behind them.
NamedTo(args, i, r) == {j \in 1 .. i : args[j].opt = "s" /\ r \in Range(args[j].arg)}
LaterTo(args, i, r) ==
    {j \in 1 .. i : args[j].opt = "A" /\ \A k \in NamedTo(args, i, r) : k < j}
CountTo(args, i, r, cnt) ==
    \/ LaterTo(args, i, r) = {} /\ cnt = MAX_ACK_CNT
    \/ \E j \in LaterTo(args, i, r) :
         (\A k \in LaterTo(args, i, r) : k <= j) /\ cnt = args[j].arg % UINT8

\* None of the options so far is to be refused.
OkTo(args, i) ==
    /\ \A j \in 1 .. i : TakenAt(args, j)
    /\ CONTROLLER \notin Range(IdsBefore(args, i + 1))

\* What the loop has after i options that are not refused is what they mean.
TakenMeans(c, args, i) ==
    /\ c.seen = {args[j].opt : j \in 1 .. i}
    /\ c.radio_ids = IdsBefore(args, i + 1)
    /\ c.bs_ips # {} <=> \E j \in 1 .. i : args[j].opt = "S" /\ args[j].arg > 0
    /\ c.bs_ips # {} => c.radio_ids # <<>>
    /\ DOMAIN c.send_cnt = Range(c.radio_ids)
    /\ \A r \in Range(c.radio_ids) : CountTo(args, i, r, c.send_cnt[r])

\* The fields the loop's record has.
HasFields(c) ==
    c \in [refused : BOOLEAN, seen : {c.seen}, radio_ids : {c.radio_ids},
          bs_ips : {c.bs_ips}, send_cnt : {c.send_cnt}]

Means(c, args, i) ==
    /\ HasFields(c)
    /\ c.refused <=> ~OkTo(args, i)
    /\ ~c.refused => TakenMeans(c, args, i)

\* The options are taken one by one.
LEMMA OkGrows ==
    ASSUME NEW args, IsCommand(args), NEW i \in 1 .. Len(args)
    PROVE  OkTo(args, i) <=>
             /\ OkTo(args, i - 1)
             /\ TakenAt(args, i)
             /\ args[i].opt = "s" => CONTROLLER \notin Range(args[i].arg)
<1> DEFINE before == IdsBefore(args, i)
           ids == IdsBefore(args, i + 1)
<1>1. before \in Seq(Int)
  <2>1. i - 1 \in 0 .. Len(args) /\ (i - 1) + 1 = i
    BY DEF IsCommand
  <2> QED
    BY <2>1, IdsAreSeq
<1>2. ids = IF args[i].opt = "s" THEN before \o args[i].arg ELSE before
  BY IdsGrow DEF IsCommand
<1> HIDE DEF before, ids
<1>3. CONTROLLER \notin Range(ids) <=>
        /\ CONTROLLER \notin Range(before)
        /\ args[i].opt = "s" => CONTROLLER \notin Range(args[i].arg)
  <2>1. CASE args[i].opt = "s"
    <3>1. args[i].arg \in Seq(Int)
      BY <2>1 DEF IsCommand
    <3>2. Range(ids) = Range(before) \cup Range(args[i].arg)
      BY <1>1, <1>2, <2>1, <3>1, RangeConcat
    <3> QED
      BY <2>1, <3>2
  <2>2. CASE args[i].opt # "s"
    BY <1>2, <2>2
  <2> QED
    BY <2>1, <2>2
<1>4. (\A j \in 1 .. i : TakenAt(args, j)) <=>
        (\A j \in 1 .. i - 1 : TakenAt(args, j)) /\ TakenAt(args, i)
  <2>1. \A j : j \in 1 .. i <=> j \in 1 .. i - 1 \/ j = i
    BY DEF IsCommand
  <2> QED
    BY <2>1
<1>5. OkTo(args, i) <=> (\A j \in 1 .. i : TakenAt(args, j)) /\ CONTROLLER \notin Range(ids)
  BY DEF OkTo, ids
<1>6. OkTo(args, i - 1) <=>
        (\A j \in 1 .. i - 1 : TakenAt(args, j)) /\ CONTROLLER \notin Range(before)
  <2>1. (i - 1) + 1 = i
    BY DEF IsCommand
  <2> QED
    BY <2>1 DEF OkTo, before
<1> QED
  BY <1>3, <1>4, <1>5, <1>6

\* An option that is neither -s nor -A leaves the counts as they are.
LEMMA CountKept ==
    ASSUME NEW args, NEW i \in Nat \ {0}, NEW r, NEW cnt,
           CountTo(args, i - 1, r, cnt),
           args[i].opt # "A", ~(args[i].opt = "s" /\ r \in Range(args[i].arg))
    PROVE  CountTo(args, i, r, cnt)
<1>1. \A j : j \in 1 .. i <=> j \in 1 .. i - 1 \/ j = i
  OBVIOUS
<1>2. NamedTo(args, i, r) = NamedTo(args, i - 1, r)
  BY <1>1 DEF NamedTo
<1>3. LaterTo(args, i, r) = LaterTo(args, i - 1, r)
  BY <1>1, <1>2 DEF LaterTo
<1> QED
  BY <1>3 DEF CountTo

\* -s names the radio: no -A is behind it.
LEMMA CountNamed ==
    ASSUME NEW args, NEW i \in Nat \ {0}, NEW r,
           args[i].opt = "s", r \in Range(args[i].arg)
    PROVE  CountTo(args, i, r, MAX_ACK_CNT)
<1>1. i \in NamedTo(args, i, r)
  BY DEF NamedTo
<1>2. LaterTo(args, i, r) = {}
  BY <1>1 DEF LaterTo
<1> QED
  BY <1>2 DEF CountTo

\* -A is behind every option that has named a radio.
LEMMA CountGiven ==
    ASSUME NEW args, NEW i \in Nat \ {0}, NEW r, args[i].opt = "A"
    PROVE  CountTo(args, i, r, args[i].arg % UINT8)
<1>1. \A k \in NamedTo(args, i, r) : k < i
  <2>1. ASSUME NEW k \in NamedTo(args, i, r) PROVE k < i
    <3>1. k \in 1 .. i /\ args[k].opt = "s"
      BY DEF NamedTo
    <3>2. k # i
      BY <3>1
    <3> QED
      BY <3>1, <3>2
  <2> QED
    BY <2>1
<1>2. i \in LaterTo(args, i, r)
  BY <1>1 DEF LaterTo
<1>3. \A k \in LaterTo(args, i, r) : k <= i
  BY DEF LaterTo
<1> QED
  BY <1>2, <1>3 DEF CountTo

\* What the parts of an option do: a refusal.
LEMMA RefuseDoes ==
    ASSUME NEW c, HasFields(c)
    PROVE  LET d == Refuse(c) IN HasFields(d) /\ d.refused
BY DEF HasFields, Refuse

\* -s, with ids that are not reserved.
LEMMA RadioIdsDoes ==
    ASSUME NEW c, HasFields(c), NEW ids, CONTROLLER \notin Range(ids)
    PROVE  LET d == RadioIds(c, ids) IN
             /\ HasFields(d) /\ d.refused = c.refused
             /\ d.seen = c.seen /\ d.radio_ids = c.radio_ids \o ids /\ d.bs_ips = c.bs_ips
             /\ DOMAIN d.send_cnt = DOMAIN c.send_cnt \cup Range(ids)
             /\ \A r \in DOMAIN d.send_cnt :
                  d.send_cnt[r] = IF r \in Range(ids) THEN MAX_ACK_CNT ELSE c.send_cnt[r]
<1> DEFINE new == Range(ids)
           f == [r \in DOMAIN c.send_cnt \cup new |->
                   IF r \in new THEN MAX_ACK_CNT ELSE c.send_cnt[r]]
           d == [c EXCEPT !.radio_ids = @ \o ids, !.send_cnt = f]
<1>1. RadioIds(c, ids) = d
  BY DEF RadioIds
<1>2. /\ HasFields(d) /\ d.refused = c.refused
      /\ d.seen = c.seen /\ d.radio_ids = c.radio_ids \o ids /\ d.bs_ips = c.bs_ips
      /\ d.send_cnt = f
  <2> HIDE DEF f
  <2> QED
    BY DEF HasFields
<1> QED
  BY <1>1, <1>2

\* -S, with no more addresses than ids.
LEMMA ParseIPDoes ==
    ASSUME NEW c, HasFields(c), NEW num, ~(c.radio_ids = <<>> \/ num > Len(c.radio_ids))
    PROVE  LET d == ParseIP(c, num) IN
             /\ HasFields(d) /\ d.refused = c.refused
             /\ d.seen = c.seen /\ d.radio_ids = c.radio_ids /\ d.send_cnt = c.send_cnt
             /\ d.bs_ips = c.bs_ips \cup {c.radio_ids[i] : i \in 1 .. num}
<1> DEFINE listed == {c.radio_ids[i] : i \in 1 .. num}
           d == [c EXCEPT !.bs_ips = @ \cup listed]
<1>1. ParseIP(c, num) = d
  BY DEF ParseIP
<1>2. /\ HasFields(d) /\ d.refused = c.refused
      /\ d.seen = c.seen /\ d.radio_ids = c.radio_ids /\ d.send_cnt = c.send_cnt
      /\ d.bs_ips = c.bs_ips \cup listed
  <2> HIDE DEF listed
  <2> QED
    BY DEF HasFields
<1> QED
  BY <1>1, <1>2

\* -A, with an id before it.
LEMMA MaxAckCntDoes ==
    ASSUME NEW c, HasFields(c), NEW cnt, c.radio_ids # <<>>
    PROVE  LET d == MaxAckCnt(c, cnt) IN
             /\ HasFields(d) /\ d.refused = c.refused
             /\ d.seen = c.seen /\ d.radio_ids = c.radio_ids /\ d.bs_ips = c.bs_ips
             /\ DOMAIN d.send_cnt = DOMAIN c.send_cnt
             /\ \A r \in DOMAIN d.send_cnt : d.send_cnt[r] = cnt % UINT8
<1> DEFINE f == [r \in DOMAIN c.send_cnt |-> cnt % UINT8]
           d == [c EXCEPT !.send_cnt = f]
<1>1. MaxAckCnt(c, cnt) = d
  BY DEF MaxAckCnt
<1>2. /\ HasFields(d) /\ d.refused = c.refused
      /\ d.seen = c.seen /\ d.radio_ids = c.radio_ids /\ d.bs_ips = c.bs_ips
      /\ d.send_cnt = f
  <2> HIDE DEF f
  <2> QED
    BY DEF HasFields
<1> QED
  BY <1>1, <1>2

\* Any option: which are refused, and what the others leave.
LEMMA OptionDoes ==
    ASSUME NEW c, NEW o, HasFields(c), ~c.refused
    PROVE  LET next == Option(c, o) IN
           /\ HasFields(next)
           /\ next.refused <=>
                \/ o.opt \notin {"s", "S", "A", "n", "i", "I", "C", "T", "B", "p"}
                \/ o.opt = "s" /\ CONTROLLER \in Range(o.arg)
                \/ o.opt \in {"S", "A"} /\ c.radio_ids = <<>>
                \/ o.opt = "S" /\ o.arg > Len(c.radio_ids)
                \/ o.opt = "n" /\ ~(o.arg > 0)
           /\ ~next.refused =>
                /\ next.seen = c.seen \cup {o.opt}
                /\ next.radio_ids = IF o.opt = "s" THEN c.radio_ids \o o.arg ELSE c.radio_ids
                /\ next.bs_ips =
                     IF o.opt = "S" THEN c.bs_ips \cup {c.radio_ids[i] : i \in 1 .. o.arg}
                     ELSE c.bs_ips
                /\ DOMAIN next.send_cnt =
                     IF o.opt = "s" THEN DOMAIN c.send_cnt \cup Range(o.arg)
                     ELSE DOMAIN c.send_cnt
                /\ \A r \in DOMAIN next.send_cnt :
                     next.send_cnt[r] =
                       IF o.opt = "s" /\ r \in Range(o.arg) THEN MAX_ACK_CNT
                       ELSE IF o.opt = "A" THEN o.arg % UINT8
                       ELSE c.send_cnt[r]
<1> DEFINE d == [c EXCEPT !.seen = @ \cup {o.opt}]
           next == Option(c, o)
<1>1. /\ HasFields(d) /\ d.refused = c.refused
      /\ d.seen = c.seen \cup {o.opt} /\ d.radio_ids = c.radio_ids
      /\ d.bs_ips = c.bs_ips /\ d.send_cnt = c.send_cnt
  BY DEF HasFields
<1> HIDE DEF d
<1>2. HasFields(Refuse(d)) /\ Refuse(d).refused
  BY <1>1, RefuseDoes
<1>3. CASE o.opt = "s"
  <2>1. next = RadioIds(d, o.arg)
    BY <1>3 DEF Option, d
  <2>2. CASE CONTROLLER \in Range(o.arg)
    <3>1. next = Refuse(d)
      BY <2>1, <2>2 DEF RadioIds
    <3> HIDE DEF next
    <3> QED
      BY <1>2, <1>3, <2>2, <3>1 DEF next
  <2>3. CASE CONTROLLER \notin Range(o.arg)
    <3> HIDE DEF next
    <3>1. /\ HasFields(next) /\ next.refused = d.refused
          /\ next.seen = d.seen /\ next.radio_ids = d.radio_ids \o o.arg
          /\ next.bs_ips = d.bs_ips
          /\ DOMAIN next.send_cnt = DOMAIN d.send_cnt \cup Range(o.arg)
          /\ \A r \in DOMAIN next.send_cnt :
               next.send_cnt[r] =
                 IF r \in Range(o.arg) THEN MAX_ACK_CNT ELSE d.send_cnt[r]
      <4> DEFINE ids == o.arg
                 e == RadioIds(d, ids)
      <4>1. next = e
        BY <2>1
      <4>2. CONTROLLER \notin Range(ids)
        BY <2>3
      <4> HIDE DEF ids
      <4>3. /\ HasFields(e) /\ e.refused = d.refused
            /\ e.seen = d.seen /\ e.radio_ids = d.radio_ids \o ids
            /\ e.bs_ips = d.bs_ips
            /\ DOMAIN e.send_cnt = DOMAIN d.send_cnt \cup Range(ids)
            /\ \A r \in DOMAIN e.send_cnt :
                 e.send_cnt[r] = IF r \in Range(ids) THEN MAX_ACK_CNT ELSE d.send_cnt[r]
        BY <1>1, <4>2, RadioIdsDoes
      <4> HIDE DEF e
      <4> QED
        BY <4>1, <4>3 DEF ids
    <3> QED
      BY <1>1, <1>3, <2>3, <3>1 DEF next
  <2> QED
    BY <2>2, <2>3
<1>4. CASE o.opt = "S"
  <2>1. next = ParseIP(d, o.arg)
    BY <1>4 DEF Option, d
  <2>2. CASE c.radio_ids = <<>> \/ o.arg > Len(c.radio_ids)
    <3>1. next = Refuse(d)
      BY <1>1, <2>1, <2>2 DEF ParseIP
    <3> HIDE DEF next
    <3> QED
      BY <1>2, <1>4, <2>2, <3>1 DEF next
  <2>3. CASE ~(c.radio_ids = <<>> \/ o.arg > Len(c.radio_ids))
    <3> HIDE DEF next
    <3>1. /\ HasFields(next) /\ next.refused = d.refused
          /\ next.seen = d.seen /\ next.radio_ids = d.radio_ids
          /\ next.send_cnt = d.send_cnt
          /\ next.bs_ips = d.bs_ips \cup {d.radio_ids[i] : i \in 1 .. o.arg}
      BY <1>1, <2>1, <2>3, ParseIPDoes
    <3> QED
      BY <1>1, <1>4, <2>3, <3>1 DEF next
  <2> QED
    BY <2>2, <2>3
<1>5. CASE o.opt = "A"
  <2>1. next = MaxAckCnt(d, o.arg)
    BY <1>5 DEF Option, d
  <2>2. CASE c.radio_ids = <<>>
    <3>1. next = Refuse(d)
      BY <1>1, <2>1, <2>2 DEF MaxAckCnt
    <3> HIDE DEF next
    <3> QED
      BY <1>2, <1>5, <2>2, <3>1 DEF next
  <2>3. CASE c.radio_ids # <<>>
    <3> HIDE DEF next
    <3>1. /\ HasFields(next) /\ next.refused = d.refused
          /\ next.seen = d.seen /\ next.radio_ids = d.radio_ids
          /\ next.bs_ips = d.bs_ips
          /\ DOMAIN next.send_cnt = DOMAIN d.send_cnt
          /\ \A r \in DOMAIN next.send_cnt : next.send_cnt[r] = o.arg % UINT8
      <4> DEFINE cnt == o.arg
                 e == MaxAckCnt(d, cnt)
      <4>1. next = e /\ d.radio_ids # <<>>
        BY <1>1, <2>1, <2>3
      <4> HIDE DEF cnt
      <4>2. /\ HasFields(e) /\ e.refused = d.refused
            /\ e.seen = d.seen /\ e.radio_ids = d.radio_ids /\ e.bs_ips = d.bs_ips
            /\ DOMAIN e.send_cnt = DOMAIN d.send_cnt
            /\ \A r \in DOMAIN e.send_cnt : e.send_cnt[r] = cnt % UINT8
        BY <1>1, <4>1, MaxAckCntDoes
      <4> HIDE DEF e
      <4> QED
        BY <4>1, <4>2 DEF cnt
    <3> QED
      BY <1>1, <1>5, <2>3, <3>1 DEF next
  <2> QED
    BY <2>2, <2>3
<1>6. CASE o.opt = "n"
  <2>1. next = MinPktCnt(d, o.arg)
    BY <1>6 DEF Option, d
  <2>2. CASE o.arg > 0
    <3>1. next = d
      BY <2>1, <2>2 DEF MinPktCnt
    <3> HIDE DEF next
    <3> QED
      BY <1>1, <1>6, <2>2, <3>1 DEF next
  <2>3. CASE ~(o.arg > 0)
    <3>1. next = Refuse(d)
      BY <2>1, <2>3 DEF MinPktCnt
    <3> HIDE DEF next
    <3> QED
      BY <1>2, <1>6, <2>3, <3>1 DEF next
  <2> QED
    BY <2>2, <2>3
<1>7. CASE o.opt \in {"i", "I", "C", "T", "B", "p"}
  <2>1. next = d
    BY <1>7 DEF Option, d
  <2> HIDE DEF next
  <2> QED
    BY <1>1, <1>7, <2>1 DEF next
<1>8. CASE o.opt \notin {"s", "S", "A", "n", "i", "I", "C", "T", "B", "p"}
  <2>1. next = Refuse(d)
    BY <1>8 DEF Option, d
  <2> HIDE DEF next
  <2> QED
    BY <1>2, <1>8, <2>1 DEF next
<1> QED
  BY <1>3, <1>4, <1>5, <1>6, <1>7, <1>8

\* So one more option keeps the loop's record what the options mean.
LEMMA OptionMeans ==
    ASSUME NEW args, IsCommand(args), NEW i \in 1 .. Len(args), NEW c,
           Means(c, args, i - 1)
    PROVE  Means(Option(c, args[i]), args, i)
<1> DEFINE o == args[i]
           next == Option(c, o)
           before == IdsBefore(args, i)
           ids == IdsBefore(args, i + 1)
<1>1. i \in Nat \ {0} /\ Len(args) \in Nat /\ (i - 1) + 1 = i
  BY DEF IsCommand
<1>2. HasFields(c) /\ (c.refused <=> ~OkTo(args, i - 1))
  BY DEF Means
<1>3. CASE c.refused
  <2>1. next = c
    BY <1>3 DEF Option
  <2>2. ~OkTo(args, i)
    BY <1>2, <1>3, OkGrows
  <2> HIDE DEF next
  <2> QED
    BY <1>2, <1>3, <2>1, <2>2 DEF Means, next
<1>4. CASE ~c.refused
  <2>1. OkTo(args, i - 1) /\ TakenMeans(c, args, i - 1)
    BY <1>2, <1>4 DEF Means
  <2>2. /\ c.seen = {args[j].opt : j \in 1 .. i - 1}
        /\ c.radio_ids = before
        /\ c.bs_ips # {} <=> \E j \in 1 .. i - 1 : args[j].opt = "S" /\ args[j].arg > 0
        /\ c.bs_ips # {} => c.radio_ids # <<>>
        /\ DOMAIN c.send_cnt = Range(c.radio_ids)
        /\ \A r \in Range(c.radio_ids) : CountTo(args, i - 1, r, c.send_cnt[r])
    BY <1>1, <2>1 DEF TakenMeans
  <2>3. before \in Seq(Int)
    <3>1. i - 1 \in 0 .. Len(args)
      BY <1>1
    <3> QED
      BY <1>1, <3>1, IdsAreSeq
  <2>4. ids = IF o.opt = "s" THEN before \o o.arg ELSE before
    BY <1>1, IdsGrow
  <2>5. (o.opt = "s" => o.arg \in Seq(Int)) /\ (o.opt = "S" => o.arg \in Nat)
    BY DEF IsCommand
  <2>6. /\ HasFields(next)
        /\ next.refused <=>
             \/ o.opt \notin {"s", "S", "A", "n", "i", "I", "C", "T", "B", "p"}
             \/ o.opt = "s" /\ CONTROLLER \in Range(o.arg)
             \/ o.opt \in {"S", "A"} /\ c.radio_ids = <<>>
             \/ o.opt = "S" /\ o.arg > Len(c.radio_ids)
             \/ o.opt = "n" /\ ~(o.arg > 0)
        /\ ~next.refused =>
             /\ next.seen = c.seen \cup {o.opt}
             /\ next.radio_ids = IF o.opt = "s" THEN c.radio_ids \o o.arg ELSE c.radio_ids
             /\ next.bs_ips =
                  IF o.opt = "S" THEN c.bs_ips \cup {c.radio_ids[k] : k \in 1 .. o.arg}
                  ELSE c.bs_ips
             /\ DOMAIN next.send_cnt =
                  IF o.opt = "s" THEN DOMAIN c.send_cnt \cup Range(o.arg)
                  ELSE DOMAIN c.send_cnt
             /\ \A r \in DOMAIN next.send_cnt :
                  next.send_cnt[r] =
                    IF o.opt = "s" /\ r \in Range(o.arg) THEN MAX_ACK_CNT
                    ELSE IF o.opt = "A" THEN o.arg % UINT8
                    ELSE c.send_cnt[r]
    BY <1>2, <1>4, OptionDoes
  <2> HIDE DEF next
  <2>7. TakenAt(args, i) <=>
          /\ o.opt \in {"s", "S", "A", "n", "i", "I", "C", "T", "B", "p"}
          /\ o.opt \in {"S", "A"} => before # <<>>
          /\ o.opt = "S" => o.arg <= Len(before)
          /\ o.opt = "n" => o.arg > 0
    BY DEF TakenAt
  <2>8. OkTo(args, i) <=>
          TakenAt(args, i) /\ (o.opt = "s" => CONTROLLER \notin Range(o.arg))
    BY <2>1, OkGrows
  <2>9. o.opt = "S" => (o.arg <= Len(before) <=> ~(o.arg > Len(before)))
    BY <2>3, <2>5
  <2> HIDE DEF before, ids
  <2>10. next.refused <=> ~OkTo(args, i)
    <3> HIDE DEF o
    <3> QED
      BY <2>2, <2>6, <2>7, <2>8, <2>9
  <2>11. ASSUME ~next.refused PROVE TakenMeans(next, args, i)
    <3>1. \A j : j \in 1 .. i <=> j \in 1 .. i - 1 \/ j = i
      BY <1>1
    <3>2. next.seen = {args[j].opt : j \in 1 .. i}
      BY <2>2, <2>6, <2>11, <3>1
    <3>3. next.radio_ids = ids
      BY <2>2, <2>4, <2>6, <2>11
    <3>4. o.opt = "s" => Range(ids) = Range(before) \cup Range(o.arg)
      BY <2>3, <2>4, <2>5, RangeConcat
    <3>5. o.opt # "s" => Range(ids) = Range(before)
      BY <2>4
    <3>6. DOMAIN next.send_cnt = Range(next.radio_ids)
      BY <2>2, <2>6, <2>11, <3>3, <3>4, <3>5
    <3>7. next.bs_ips # {} <=> \E j \in 1 .. i : args[j].opt = "S" /\ args[j].arg > 0
      <4>1. CASE o.opt = "S"
        <5>1. o.arg > 0 <=> {c.radio_ids[k] : k \in 1 .. o.arg} # {}
          <6>1. CASE o.arg > 0
            <7>1. 1 \in 1 .. o.arg
              BY <2>5, <4>1, <6>1
            <7> QED
              BY <6>1, <7>1
          <6>2. CASE ~(o.arg > 0)
            <7>1. 1 .. o.arg = {}
              BY <2>5, <4>1, <6>2
            <7> QED
              BY <6>2, <7>1
          <6> QED
            BY <6>1, <6>2
        <5>2. next.bs_ips # {} <=> c.bs_ips # {} \/ o.arg > 0
          BY <2>6, <2>11, <4>1, <5>1
        <5> QED
          BY <2>2, <3>1, <4>1, <5>2
      <4>2. CASE o.opt # "S"
        <5>1. next.bs_ips = c.bs_ips
          BY <2>6, <2>11, <4>2
        <5> QED
          BY <2>2, <3>1, <4>2, <5>1
      <4> QED
        BY <4>1, <4>2
    <3>8. next.bs_ips # {} => next.radio_ids # <<>>
      <4>1. CASE o.opt = "S"
        BY <2>6, <2>11, <4>1
      <4>2. CASE o.opt = "s"
        <5>1. next.bs_ips = c.bs_ips /\ next.radio_ids = c.radio_ids \o o.arg
          BY <2>6, <2>11, <4>2
        <5>2. c.radio_ids \in Seq(Int) /\ o.arg \in Seq(Int)
          BY <2>2, <2>3, <2>5, <4>2
        <5>3. c.radio_ids # <<>> => c.radio_ids \o o.arg # <<>>
          <6>1. Len(c.radio_ids \o o.arg) = Len(c.radio_ids) + Len(o.arg)
            BY <5>2
          <6>2. c.radio_ids # <<>> => Len(c.radio_ids) > 0
            BY <5>2
          <6>3. Len(<<>>) = 0 /\ Len(o.arg) \in Nat
            BY <5>2
          <6> QED
            BY <5>2, <6>1, <6>2, <6>3
        <5> QED
          BY <2>2, <5>1, <5>3
      <4>3. CASE o.opt \notin {"s", "S"}
        BY <2>2, <2>6, <2>11, <4>3
      <4> QED
        BY <4>1, <4>2, <4>3
    <3>9. ASSUME NEW r \in Range(next.radio_ids)
          PROVE  CountTo(args, i, r, next.send_cnt[r])
      <4>1. r \in DOMAIN next.send_cnt
        BY <3>6
      <4>2. CASE o.opt = "s" /\ r \in Range(o.arg)
        <5>1. next.send_cnt[r] = MAX_ACK_CNT
          BY <2>6, <2>11, <4>1, <4>2
        <5> QED
          BY <1>1, <4>2, <5>1, CountNamed
      <4>3. CASE o.opt = "A"
        <5>1. next.send_cnt[r] = o.arg % UINT8
          BY <2>6, <2>11, <4>1, <4>3
        <5> QED
          BY <1>1, <4>3, <5>1, CountGiven
      <4>4. CASE o.opt # "A" /\ ~(o.opt = "s" /\ r \in Range(o.arg))
        <5>1. next.send_cnt[r] = c.send_cnt[r]
          BY <2>6, <2>11, <4>1, <4>4
        <5>2. r \in Range(c.radio_ids)
          BY <2>2, <3>3, <3>4, <3>5, <4>4
        <5>3. CountTo(args, i - 1, r, c.send_cnt[r])
          BY <2>2, <5>2
        <5> QED
          BY <1>1, <4>4, <5>1, <5>3, CountKept
      <4> QED
        BY <4>2, <4>3, <4>4
    <3> QED
      BY <3>2, <3>3, <3>6, <3>7, <3>8, <3>9 DEF TakenMeans, ids
  <2> QED
    BY <2>6, <2>10, <2>11 DEF Means, next
<1> QED
  BY <1>3, <1>4

\* So it is what all of them mean when the loop ends.
LEMMA LoopMeans ==
    ASSUME NEW args, IsCommand(args)
    PROVE  Means(WspaceClient(args), args, Len(args))
<1>1. Len(args) \in Nat
  BY DEF IsCommand
<1>2. PICK after :
        /\ after[0] = NoOptions
        /\ \A i \in 1 .. Len(args) : after[i] = Option(after[i - 1], args[i])
        /\ WspaceClient(args) = after[Len(args)]
  BY <1>1, LoopRuns
<1> DEFINE S == {i \in Nat : i <= Len(args) => Means(after[i], args, i)}
<1>3. 0 \in S
  <2>1. HasFields(NoOptions) /\ ~NoOptions.refused
    BY DEF HasFields, NoOptions
  <2>2. IdsBefore(args, 0 + 1) = <<>>
    BY <1>1, IdsGrow
  <2>3. Range(<<>>) = {} /\ 1 .. 0 = {}
    BY DEF Range
  <2>4. OkTo(args, 0)
    BY <2>2, <2>3 DEF OkTo
  <2>5. TakenMeans(NoOptions, args, 0)
    <3>1. NoOptions.seen = {} /\ NoOptions.radio_ids = <<>> /\ NoOptions.bs_ips = {}
      BY DEF NoOptions
    <3>2. DOMAIN NoOptions.send_cnt = {}
      BY DEF NoOptions
    <3>3. NoOptions.seen = {args[j].opt : j \in 1 .. 0}
      BY <2>3, <3>1
    <3> QED
      BY <2>2, <2>3, <3>1, <3>2, <3>3 DEF TakenMeans
  <2>6. Means(NoOptions, args, 0)
    BY <2>1, <2>4, <2>5 DEF Means
  <2> QED
    BY <1>2, <2>6
<1>4. ASSUME NEW n \in Nat, n \in S PROVE n + 1 \in S
  <2>1. SUFFICES ASSUME n + 1 <= Len(args) PROVE Means(after[n + 1], args, n + 1)
    OBVIOUS
  <2> DEFINE i == n + 1
  <2>2. i \in 1 .. Len(args) /\ i - 1 = n
    BY <1>1, <2>1
  <2>3. Means(after[i - 1], args, i - 1)
    BY <1>1, <1>4, <2>1, <2>2
  <2>4. after[i] = Option(after[i - 1], args[i])
    BY <1>2, <2>2
  <2> HIDE DEF i
  <2>5. Means(Option(after[i - 1], args[i]), args, i)
    BY <2>2, <2>3, OptionMeans
  <2> QED
    BY <2>4, <2>5 DEF i
<1> HIDE DEF S
<1>5. Nat \subseteq S
  BY <1>3, <1>4, NatInduct
<1>6. Means(after[Len(args)], args, Len(args))
  BY <1>1, <1>5 DEF S
<1> QED
  BY <1>2, <1>6

\* CountTo of all options is Counts.
LEMMA CountsAre ==
    ASSUME NEW args, IsCommand(args), NEW r, NEW cnt, CountTo(args, Len(args), r, cnt)
    PROVE  Counts(args, r, cnt)
<1> DEFINE named == {i \in DOMAIN args : GivenAt(args, i, "s") /\ r \in Range(args[i].arg)}
           later == {i \in DOMAIN args :
                       GivenAt(args, i, "A") /\ \A j \in named : j < i}
<1>1. DOMAIN args = 1 .. Len(args)
  BY DEF IsCommand
<1>2. named = NamedTo(args, Len(args), r)
  BY <1>1 DEF NamedTo, GivenAt
<1> HIDE DEF named
<1>3. later = LaterTo(args, Len(args), r)
  BY <1>1, <1>2 DEF LaterTo, GivenAt
<1> HIDE DEF later
<1>4. \/ later = {} /\ cnt = MAX_ACK_CNT
      \/ \E i \in later : (\A j \in later : j <= i) /\ cnt = args[i].arg % UINT8
  BY <1>3 DEF CountTo
<1> QED
  BY <1>4 DEF Counts, later, named

\* The client starts if the command line is accepted, and only then.
LEMMA StartsIfAccepted ==
    ASSUME NEW args, IsCommand(args), NEW c, Means(c, args, Len(args))
    PROVE  Starts(c) <=> Accepted(args)
<1> DEFINE ids == IdsBefore(args, Len(args) + 1)
<1>1. Len(args) \in Nat /\ DOMAIN args = 1 .. Len(args)
  BY DEF IsCommand
<1>2. ids \in Seq(Int)
  <2>1. Len(args) \in 0 .. Len(args)
    BY <1>1
  <2> QED
    BY <2>1, IdsAreSeq
<1> HIDE DEF ids
<1>3. OkTo(args, Len(args)) <=>
        (\A i \in DOMAIN args : TakenAt(args, i)) /\ CONTROLLER \notin Range(ids)
  BY <1>1 DEF OkTo, ids
<1>4. Accepted(args) <=>
        /\ OkTo(args, Len(args))
        /\ \A opt \in {"i", "I", "C"} : \E i \in DOMAIN args : args[i].opt = opt
        /\ \E i \in DOMAIN args : args[i].opt = "S" /\ args[i].arg > 0
        /\ Len(ids) <= MAX_RADIO
  BY <1>3 DEF Accepted, GivenAt, ids
<1>5. CASE OkTo(args, Len(args))
  <2>1. ~c.refused /\ TakenMeans(c, args, Len(args))
    BY <1>5 DEF Means
  <2>2. c.seen = {args[j].opt : j \in DOMAIN args} /\ c.radio_ids = ids
    BY <1>1, <2>1 DEF TakenMeans, ids
  <2>3. c.bs_ips # {} <=> \E i \in DOMAIN args : args[i].opt = "S" /\ args[i].arg > 0
    BY <1>1, <2>1 DEF TakenMeans
  <2>4. c.bs_ips # {} => c.radio_ids # <<>>
    BY <2>1 DEF TakenMeans
  <2>5. {"i", "I", "C"} \subseteq c.seen <=>
          \A opt \in {"i", "I", "C"} : \E i \in DOMAIN args : args[i].opt = opt
    BY <2>2
  <2>6. c.bs_ips # {} => (Len(c.radio_ids) \in 1 .. MAX_RADIO <=> Len(ids) <= MAX_RADIO)
    <3>1. ids # <<>> => Len(ids) \in Nat \ {0}
      BY <1>2
    <3> QED
      BY <2>2, <2>4, <3>1, OptionsAssumption
  <2> QED
    BY <1>4, <1>5, <2>1, <2>3, <2>5, <2>6 DEF Starts
<1>6. CASE ~OkTo(args, Len(args))
  <2>1. c.refused
    BY <1>6 DEF Means
  <2> QED
    BY <1>4, <1>6, <2>1 DEF Starts
<1> QED
  BY <1>5, <1>6

\* A list that has an id has it in a last position.
LEMMA LastPosition ==
    ASSUME NEW ids \in Seq(Int), NEW r \in Range(ids)
    PROVE  \E i \in DOMAIN ids :
             ids[i] = r /\ \A j \in DOMAIN ids : ids[j] = r => j <= i
<1> DEFINE S == {m \in Nat :
                   (\E i \in 1 .. m : i \in DOMAIN ids /\ ids[i] = r) =>
                   \E i \in 1 .. m : /\ i \in DOMAIN ids /\ ids[i] = r
                                     /\ \A j \in 1 .. m :
                                          j \in DOMAIN ids /\ ids[j] = r => j <= i}
<1>1. 0 \in S
  OBVIOUS
<1>2. ASSUME NEW m \in Nat, m \in S PROVE m + 1 \in S
  <2>1. \A i : i \in 1 .. m + 1 <=> i \in 1 .. m \/ i = m + 1
    OBVIOUS
  <2>2. CASE m + 1 \in DOMAIN ids /\ ids[m + 1] = r
    <3>1. m + 1 \in 1 .. m + 1 /\ \A j \in 1 .. m + 1 : j <= m + 1
      OBVIOUS
    <3> QED
      BY <2>2, <3>1
  <2>3. CASE ~(m + 1 \in DOMAIN ids /\ ids[m + 1] = r)
    <3>1. SUFFICES ASSUME NEW k \in 1 .. m + 1, k \in DOMAIN ids, ids[k] = r
                   PROVE  \E i \in 1 .. m + 1 :
                            /\ i \in DOMAIN ids /\ ids[i] = r
                            /\ \A j \in 1 .. m + 1 : j \in DOMAIN ids /\ ids[j] = r => j <= i
      OBVIOUS
    <3>2. k \in 1 .. m
      BY <2>1, <2>3, <3>1
    <3>3. PICK i \in 1 .. m : /\ i \in DOMAIN ids /\ ids[i] = r
                              /\ \A j \in 1 .. m : j \in DOMAIN ids /\ ids[j] = r => j <= i
      BY <1>2, <3>1, <3>2
    <3> QED
      BY <2>1, <2>3, <3>3
  <2> QED
    BY <2>2, <2>3
<1> HIDE DEF S
<1>3. Nat \subseteq S
  BY <1>1, <1>2, NatInduct
<1>4. DOMAIN ids = 1 .. Len(ids) /\ Len(ids) \in Nat
  OBVIOUS
<1>5. \E i \in 1 .. Len(ids) : i \in DOMAIN ids /\ ids[i] = r
  BY <1>4 DEF Range
<1> QED
  BY <1>3, <1>4, <1>5 DEF S

\* Each id has a port of its own, and none has the port of the Ethernet socket.
LEMMA PortsDiffer ==
    ASSUME NEW c, c.radio_ids \in Seq(Int)
    PROVE  /\ IsInjective(PortAth(c))
           /\ \A r \in Range(c.radio_ids) : PortAth(c)[r] # PORT_ETH
<1> DEFINE ids == c.radio_ids
           at(r) == {i \in DOMAIN ids : ids[i] = r}
           last(r) == CHOOSE i \in at(r) : \A j \in at(r) : j <= i
<1>1. PortAth(c) = [r \in Range(ids) |-> PORT_ATH + last(r) - 1]
  BY DEF PortAth
<1>2. ASSUME NEW r \in Range(ids) PROVE last(r) \in 1 .. Len(ids) /\ ids[last(r)] = r
  <2>1. \E i \in at(r) : \A j \in at(r) : j <= i
    BY LastPosition
  <2>2. last(r) \in at(r)
    <3> HIDE DEF at
    <3> QED
      BY <2>1
  <2> HIDE DEF last
  <2>3. DOMAIN ids = 1 .. Len(ids)
    OBVIOUS
  <2> QED
    BY <2>2, <2>3
<1> HIDE DEF last, ids
<1>3. DOMAIN PortAth(c) = Range(ids) /\ \A r \in Range(ids) : PortAth(c)[r] = PORT_ATH + last(r) - 1
  BY <1>1
<1>4. Len(ids) \in Nat /\ PORT_ATH \in Nat /\ PORT_ETH \in Nat /\ PORT_ETH < PORT_ATH
  BY OptionsAssumption DEF ids
<1>5. ASSUME NEW r \in Range(ids) PROVE PortAth(c)[r] # PORT_ETH
  BY <1>2, <1>3, <1>4
<1>6. ASSUME NEW a \in Range(ids), NEW b \in Range(ids), PortAth(c)[a] = PortAth(c)[b]
      PROVE  a = b
  <2>1. PORT_ATH + last(a) - 1 = PORT_ATH + last(b) - 1
    BY <1>3, <1>6
  <2>2. last(a) = last(b)
    BY <1>2, <1>4, <2>1
  <2> QED
    BY <1>2, <2>2
<1> QED
  BY <1>3, <1>5, <1>6 DEF IsInjective, ids

\* One command line.
LEMMA CommandRespected ==
    ASSUME NEW args, IsCommand(args)
    PROVE  Respected(args)
<1> DEFINE c == WspaceClient(args)
<1>1. Means(c, args, Len(args))
  BY LoopMeans
<1> HIDE DEF c
<1>2. Starts(c) <=> Accepted(args)
  BY <1>1, StartsIfAccepted
<1>3. ASSUME Starts(c)
      PROVE  /\ \A r \in Range(c.radio_ids) :
                  Counts(args, r, c.send_cnt[r]) /\ PortAth(c)[r] # PORT_ETH
             /\ IsInjective(PortAth(c))
  <2>1. TakenMeans(c, args, Len(args))
    BY <1>1, <1>3 DEF Starts, Means
  <2>2. c.radio_ids \in Seq(Int)
    <3>1. Len(args) \in 0 .. Len(args)
      BY DEF IsCommand
    <3> QED
      BY <2>1, <3>1, IdsAreSeq DEF TakenMeans
  <2>3. \A r \in Range(c.radio_ids) : Counts(args, r, c.send_cnt[r])
    BY <2>1, CountsAre DEF TakenMeans
  <2> QED
    BY <2>2, <2>3, PortsDiffer
<1> QED
  BY <1>2, <1>3 DEF Respected, c

\* The client starts with the command lines that are accepted, and with no other, and
\* then each radio has the count of the last -A after it and a port of its own.
THEOREM CommandsRespected == AllRespected
<1>1. ASSUME NEW args \in Commands PROVE IsCommand(args)
  BY OptionsAssumption DEF IsCommand
<1> QED
  BY <1>1, CommandRespected DEF AllRespected

\* The client is set up as its command line says when its threads start.
THEOREM OptionsHaveEffect == ClientSpec => []OptionsRespected
<1>1. OptionsRespected
  BY CommandsRespected DEF OptionsRespected
<1> QED
  BY <1>1, PTL
============================================================================
