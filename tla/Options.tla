------------------------------- MODULE Options -------------------------------
(***************************************************************************)
(* The command line of the client: WspaceClient's constructor takes the    *)
(* options in the order they are given, some need others before them, and  *)
(* the client starts if none of them is refused and nothing is missing.    *)
(* An option is a letter with an argument: the ids of -s, how many         *)
(* addresses -S lists, the number of -A or -n, and nothing for the rest,   *)
(* which are taken to be good (no id 0, no empty address).                 *)
(***************************************************************************)
EXTENDS Sequences, Functions, Integers

CONSTANTS
    MAX_RADIO,    \* radios the driver supports
    MAX_ACK_CNT,  \* send_cnt_ of a new RxRawBuf
    UINT8,        \* how many values a byte has
    PORT_ETH, PORT_ATH,  \* UDP ports
    Commands      \* bound: the command lines considered

\* A command line is a sequence of options, of which any may be unknown; ids and
\* numbers are what atoi makes of them.
ASSUME OptionsAssumption ==
    /\ MAX_RADIO \in Nat
    /\ UINT8 \in Nat \ {0}
    /\ PORT_ETH \in Nat /\ PORT_ATH \in Nat /\ PORT_ETH < PORT_ATH
    /\ \A args \in Commands :
        /\ Len(args) \in Nat /\ DOMAIN args = 1 .. Len(args)
        /\ \A i \in 1 .. Len(args) :
            IF args[i].opt = "s" THEN args[i].arg \in Seq(Int)
            ELSE IF args[i].opt = "S" THEN args[i].arg \in Nat
            ELSE args[i].arg \in Int

CONTROLLER == 1   \* the id that is reserved

\* What main() has before it looks at the options.
NoOptions ==
    [refused |-> FALSE, seen |-> {}, radio_ids |-> <<>>, bs_ips |-> {},
     send_cnt |-> [r \in {} |-> 0]]

Refuse(c) == [c EXCEPT !.refused = TRUE]

\* -s: a radio and its context for every base station.
RadioIds(c, ids) ==
    LET new == Range(ids) IN
    IF CONTROLLER \in new THEN Refuse(c)
    ELSE [c EXCEPT !.radio_ids = @ \o ids,
                   !.send_cnt = [r \in DOMAIN @ \cup new |->
                                   IF r \in new THEN MAX_ACK_CNT ELSE @[r]]]

\* -S: addresses, for the base stations known by now, in their order.
ParseIP(c, num) ==
    IF c.radio_ids = <<>> \/ num > Len(c.radio_ids) THEN Refuse(c)
    ELSE [c EXCEPT !.bs_ips = @ \cup {c.radio_ids[i] : i \in 1 .. num}]

\* -A: for the radios known by now.
Bug_MaxAckCnt(c, cnt) ==
    [c EXCEPT !.send_cnt = [r \in DOMAIN @ |-> cnt % UINT8]]
MaxAckCnt(c, cnt) ==
    IF c.radio_ids = <<>> THEN Refuse(c)
    ELSE [c EXCEPT !.send_cnt = [r \in DOMAIN @ |-> cnt % UINT8]]

\* -n: asserted to be positive.
MinPktCnt(c, cnt) == IF cnt > 0 THEN c ELSE Refuse(c)

\* getopt returns the next option.
Option(c, o) ==
    LET d == [c EXCEPT !.seen = @ \cup {o.opt}] IN
    IF c.refused THEN c
    ELSE CASE o.opt = "s" -> RadioIds(d, o.arg)
           [] o.opt = "S" -> ParseIP(d, o.arg)
           [] o.opt = "A" -> MaxAckCnt(d, o.arg)
           [] o.opt = "n" -> MinPktCnt(d, o.arg)
           [] o.opt \in {"i", "I", "C", "T", "B", "p"} -> d
           [] OTHER -> Refuse(d)

\* The loop, and what it leaves.
WspaceClient(args) ==
    LET after[i \in 0 .. Len(args)] ==
          IF i = 0 THEN NoOptions ELSE Option(after[i - 1], args[i])
    IN after[Len(args)]

\* The assertions behind the loop.
Starts(c) ==
    /\ ~c.refused
    /\ {"i", "I", "C"} \subseteq c.seen
    /\ c.bs_ips # {}
    /\ Len(c.radio_ids) \in 1 .. MAX_RADIO

\* InitSock: a port for each entry of radio_ids_, counted from PORT_ATH.
PortAth(c) ==
    LET at(r) == {i \in DOMAIN c.radio_ids : c.radio_ids[i] = r}
        last(r) == CHOOSE i \in at(r) : \A j \in at(r) : j <= i
    IN [r \in Range(c.radio_ids) |-> PORT_ATH + last(r) - 1]

-----------------------------------------------------------------------------
(* What a command line means, said without the loop *)

GivenAt(args, i, opt) == i \in DOMAIN args /\ args[i].opt = opt
IdsBefore(args, i) ==
    LET ids[j \in 0 .. Len(args)] ==
          IF j = 0 THEN <<>>
          ELSE IF args[j].opt = "s" THEN ids[j - 1] \o args[j].arg ELSE ids[j - 1]
    IN ids[i - 1]

\* The option is known, and what it needs stands before it.
TakenAt(args, i) ==
    /\ args[i].opt \in {"s", "S", "A", "n", "i", "I", "C", "T", "B", "p"}
    /\ args[i].opt \in {"S", "A"} => IdsBefore(args, i) # <<>>
    /\ args[i].opt = "S" => args[i].arg <= Len(IdsBefore(args, i))
    /\ args[i].opt = "n" => args[i].arg > 0

Accepted(args) ==
    LET ids == IdsBefore(args, Len(args) + 1) IN
    /\ \A i \in DOMAIN args : TakenAt(args, i)
    /\ \A opt \in {"i", "I", "C"} : \E i \in DOMAIN args : GivenAt(args, i, opt)
    /\ \E i \in DOMAIN args : GivenAt(args, i, "S") /\ args[i].arg > 0
    /\ CONTROLLER \notin Range(ids)
    /\ Len(ids) <= MAX_RADIO

\* The last -A after the last -s that names the radio, if there is one.
Counts(args, r, cnt) ==
    LET named == {i \in DOMAIN args : GivenAt(args, i, "s") /\ r \in Range(args[i].arg)}
        later == {i \in DOMAIN args : GivenAt(args, i, "A") /\ \A j \in named : j < i}
    IN \/ later = {} /\ cnt = MAX_ACK_CNT
       \/ \E i \in later : (\A j \in later : j <= i) /\ cnt = args[i].arg % UINT8

\* A command line has its effect: the client starts if it is accepted, and then each
\* radio reports a loss as often as the last -A after it says, and has its own port.
Respected(args) ==
    LET c == WspaceClient(args) IN
    /\ Starts(c) <=> Accepted(args)
    /\ Starts(c) =>
        /\ \A r \in Range(c.radio_ids) :
             Counts(args, r, c.send_cnt[r]) /\ PortAth(c)[r] # PORT_ETH
        /\ IsInjective(PortAth(c))

AllRespected == \A args \in Commands : Respected(args)
=============================================================================
