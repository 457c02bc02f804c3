-------------------------------- MODULE Client --------------------------------
(***************************************************************************)
(* The threads of the client at its sockets and its TUN device: RxRcvAth   *)
(* of each radio up to the packets it gives the decoder, RxRcvCell and     *)
(* RxSendCell, over Tun, of which Read returns an error as the length -1,  *)
(* in 16 bits, and Write asserts that everything was sent.                 *)
(*                                                                         *)
(* One step is one round of a thread's loop; the threads share bs_context_ *)
(* only.  RxRcvAth and RxRcvCell keep one buffer each, which a failed read *)
(* leaves as it was, so that they see the packet before once more.  A      *)
(* round in which an assertion fails ends the program: what it wrote       *)
(* before makes no difference any more, and is left out.                   *)
(***************************************************************************)
EXTENDS Options, FiniteSets

CONSTANTS
    Ids,       \* the radios
    BsIds,     \* base stations that packets may name, known or not
    Clients, CLIENT,  \* clients, and this one: client_id_
    K, N,      \* native and coded packets of a batch
    UINT16,    \* how many values a uint16 has
    MaxBatch,  \* bound: batches sent
    MaxLen     \* bound: length of a payload at most

\* A packet with its headers fits a buffer of PKT_SIZE, far below 2^16.
ASSUME ClientAssumption ==
    /\ Ids \subseteq BsIds
    /\ K \in Nat \ {0} /\ N \in Nat /\ K <= N
    /\ MaxBatch \in Nat
    /\ MaxLen \in Nat
    /\ UINT16 \in Nat
    /\ MaxLen + 2 < UINT16

VARIABLES
    rcv,       \* per radio: RxRcvAth's buffer, its batch_id, the decoder's inds,
               \* and time_left_ of the BatchInfo
    cell_pkt,  \* RxRcvCell's buffer
    bs_id,     \* bs_id_ of bs_context_
    handed,    \* history: the length handed on last, as it arrived and as it was given
    fault,     \* history: something came that the client does not stand (see Properties)
    aborted    \* an assertion failed

clientVars == <<rcv, cell_pkt, bs_id, handed, fault, aborted>>

Minus1 == UINT16 - 1         \* what Read returns for an error
FullHdrLen == 2              \* GetFullHdrLen
CellHdr == 1                 \* CELL_DATA_HEADER_SIZE

\* What may be in a buffer: nothing yet, a packet that is not good, one of another
\* type, one whose header ParseHeader asserts against, and a coded packet with the
\* length of its payload.  No datagram ends within its header.
Unfilled == [kind |-> "unfilled"]
Dropped == [kind |-> "dropped"]
Other == [kind |-> "other"]
Bad == [kind |-> "bad"]
CodePkts == [kind : {"code"}, client : Clients, bs : BsIds,
             batch : 1 .. MaxBatch, ind : 0 .. N - 1, len : 0 .. MaxLen]
AthPkts == CodePkts \cup {Dropped, Other, Bad}
CellPkts == CodePkts \cup {Other, Bad}   \* (RxRcvCell does not look at is_good)
Size(p) == IF p.kind = "code" THEN p.len + FullHdrLen ELSE 1

ClientInit ==
    /\ rcv = [r \in Ids |-> [pkt |-> Unfilled, batch_id |-> 0, inds |-> {}, time_left |-> 0]]
    /\ cell_pkt = Unfilled
    /\ bs_id = -1
    /\ handed = [arrived |-> 0, given |-> 0]
    /\ fault = FALSE
    /\ aborted = FALSE

HandOn(arrived, given) == handed' = [arrived |-> arrived, given |-> given]

Abort == aborted' = TRUE /\ UNCHANGED <<rcv, cell_pkt, bs_id, handed>>

IsMine(p) == p.client = CLIENT

-----------------------------------------------------------------------------
(* RxRcvAth *)

IsDecoded(c) == Cardinality(c.inds) >= K

IsNew(c, p) == p.batch > c.batch_id
IsWanted(c, p) == IsNew(c, p) \/ (p.batch = c.batch_id /\ ~IsDecoded(c))

Bug_IsUseful(c, p) == IsWanted(c, p)
IsUseful(c, p) == IsWanted(c, p) /\ (IsNew(c, p) \/ p.ind \notin c.inds)

\* SetBatchInfo for a new batch, UpdateTimeLeft for the current one while it is not
\* decoded.  The duration of a packet is its length: rate and constants are left out.
Duration(p, nread) == nread * (N - p.ind - 1)
Bug_UpdateTimeLeft(c, p, nread) ==
    [c EXCEPT !.pkt = p,
              !.time_left = IF IsUseful(c, p) THEN Duration(p, nread) ELSE @]
UpdateTimeLeft(c, p, nread) ==
    [c EXCEPT !.pkt = p,
              !.time_left = IF IsWanted(c, p) THEN Duration(p, nread) ELSE @]

\* A new batch clears the decoder.
Bug_Inds(c, p) == c.inds
Inds(c, p) == IF IsNew(c, p) THEN {} ELSE c.inds
PayloadLen(nread) == (nread - FullHdrLen) % UINT16
CanPush(c, p, nread) == PayloadLen(nread) > 0 /\ Cardinality(Inds(c, p)) < N
PushPkt(c, p) == [c EXCEPT !.batch_id = p.batch, !.inds = Inds(c, p) \cup {p.ind}]

SetBsId(r) == bs_id' = r

\* The loop's body, for packet p in the buffer and what Read returned.
AthAside(r, p) ==
    /\ rcv' = [rcv EXCEPT ![r].pkt = p]
    /\ UNCHANGED <<cell_pkt, bs_id, handed, aborted>>

AthCode(r, p, nread) ==
    LET c == UpdateTimeLeft(rcv[r], p, nread) IN
    /\ rcv' = [rcv EXCEPT ![r] = IF IsUseful(@, p) THEN PushPkt(c, p) ELSE c]
    /\ IF IsUseful(rcv[r], p) THEN HandOn(p.len, PayloadLen(nread)) ELSE UNCHANGED handed
    /\ SetBsId(r)
    /\ UNCHANGED <<cell_pkt, aborted>>

HandleAth(r, p, nread) ==
    IF p.kind \in {"other", "bad"} THEN Abort
    ELSE IF p.kind = "dropped" \/ ~IsMine(p) THEN AthAside(r, p)
    ELSE IF p.bs # r THEN Abort
    ELSE IF IsUseful(rcv[r], p) => CanPush(rcv[r], p, nread) THEN AthCode(r, p, nread)
    ELSE Abort

\* A packet that RxRcvAth stands.
AthProper(r, p) ==
    p = Dropped \/ (p \in CodePkts /\ (p.client = CLIENT => p.bs = r /\ p.len > 0))

RxRcvAth(r) ==
    \E p \in AthPkts :
        /\ HandleAth(r, p, Size(p))
        /\ fault' = (fault \/ ~AthProper(r, p))

\* What a buffer holds before its first packet may pass for no good packet, or fail
\* the assertions of ParseHeader.
RxRcvAthFails(r) ==
    LET p == rcv[r].pkt IN
    /\ IF p = Unfilled THEN AthAside(r, p) \/ Abort ELSE HandleAth(r, p, Minus1)
    /\ fault' = (fault \/ p = Unfilled)

-----------------------------------------------------------------------------
(* RxRcvCell *)

CellAside(p) == cell_pkt' = p /\ UNCHANGED <<rcv, bs_id, handed, aborted>>

\* The length is the header's.  For a base station without a radio there is no
\* context: RxRcvCell goes through a null pointer.
HandleCell(p) ==
    IF p.kind = "other" THEN CellAside(p)
    ELSE IF p.kind = "bad" \/ ~IsMine(p) \/ p.ind >= K \/ p.bs \notin Ids THEN Abort
    ELSE /\ cell_pkt' = p
         /\ HandOn(p.len, p.len)
         /\ UNCHANGED <<rcv, bs_id, aborted>>

\* A packet that RxRcvCell stands.
CellProper(p) ==
    p = Other \/ (p \in CodePkts /\ p.client = CLIENT /\ p.bs \in Ids /\ p.ind < K)

RxRcvCell ==
    \E p \in CellPkts :
        /\ HandleCell(p)
        /\ fault' = (fault \/ ~CellProper(p))

RxRcvCellFails ==
    /\ IF cell_pkt = Unfilled THEN CellAside(cell_pkt) \/ Abort ELSE HandleCell(cell_pkt)
    /\ fault' = (fault \/ cell_pkt = Unfilled)

-----------------------------------------------------------------------------
(* RxSendCell *)

\* Tun::Write, whose first assertion is on the length it is given, in 16 bits.
Write(len, arrived, isSent) ==
    IF (len % UINT16) > 0 /\ isSent
    THEN HandOn(arrived, (len % UINT16) - CellHdr) /\ UNCHANGED <<rcv, cell_pkt, bs_id, aborted>>
    ELSE Abort

RxSendCell ==
    /\ \E len \in 1 .. MaxLen : Write(len + CellHdr, len, TRUE)
    /\ UNCHANGED fault

\* The read or the write fails.
RxSendCellFails ==
    /\ \/ Write(Minus1 + CellHdr, 0, TRUE)
       \/ \E len \in 1 .. MaxLen : Write(len + CellHdr, len, FALSE)
    /\ fault' = TRUE

\* Any of the reads returns 0.
ReadsNothing == Abort /\ fault' = TRUE

ClientNext ==
    /\ ~aborted
    /\ \/ \E r \in Ids : RxRcvAth(r) \/ RxRcvAthFails(r)
       \/ RxRcvCell \/ RxRcvCellFails
       \/ RxSendCell \/ RxSendCellFails
       \/ ReadsNothing

ClientSpec == ClientInit /\ [][ClientNext]_clientVars

-----------------------------------------------------------------------------
(* Properties *)

\* The length that is handed on with a packet, to the decoder, to a buffer or to the
\* controller, is the one with which its payload arrived: the 65535 of a failed read
\* (src/src/tun.cc:112) never stands for it.  (It does get into BatchInfo's time left.)
LengthKept == handed.given = handed.arrived

\* An assertion of these threads fails only if: the network or the TUN device refused
\* a write, the TUN device a read; a read returned nothing; a socket's first read
\* failed; or a packet came that AthProper or CellProper excludes: on the air a header
\* ParseHeader asserts against, another base station's packet, an empty payload; over
\* the cellular link a bad header, a packet of another client or of no radio here, or
\* one that is not native.  Packets for others, repeated, late and out of order, and
\* failed reads that show one of them again, end nothing.
EndsOnlyOnFault == aborted => fault

\* When its threads start, before any packet, the client is set up as its command
\* line says, wherever the options that depend on each other stand in it.
OptionsRespected == bs_id = -1 => AllRespected

\* While a batch is not decoded, the time left for it is at least that of the packets
\* behind the one which came last, each as long as it, also when that one repeats or comes
\* late: the batch is not acknowledged too early (`prevent premature retransmission`,
\* src/src/wspace_asym_util.cc:300-303).  A failed read makes it longer, never shorter.
TimeLeftEnough ==
    \A r \in Ids :
        LET c == rcv[r] IN
        c.pkt.kind = "code" /\ IsMine(c.pkt) /\ c.pkt.batch = c.batch_id /\ ~IsDecoded(c)
            => c.time_left >= Duration(c.pkt, Size(c.pkt))
===============================================================================
