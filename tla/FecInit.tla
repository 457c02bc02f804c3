------------------------------- MODULE FecInit -------------------------------
(***************************************************************************)
(* The tables of Fec as fec_new makes them: on the first call, in static   *)
(* variables, and without a lock.  Every radio's RxRcvAth calls fec_new    *)
(* when it decodes a batch, so that two may find fec_initialized still 0.  *)
(*                                                                         *)
(* A step is one round of a loop that both threads may be in, or a whole   *)
(* loop whose writes only depend on what earlier loops left.  Since the    *)
(* accesses are not synchronised at all, the program has more behaviours   *)
(* than these; those modelled are among the ones it has.                   *)
(***************************************************************************)
EXTENDS Fec

CONSTANT Threads   \* the RxRcvAth of the radios

VARIABLES
    exp, log, inv, mul,    \* gf_exp, gf_log, inverse, gf_mul_table
    fec_initialized,
    pc, mask               \* per thread: where it is, and the loop's i

tables == <<exp, log, inv, mul>>
initVars == <<tables, fec_initialized, pc, mask>>

\* Static variables are 0.
FecInitInit ==
    /\ exp = [a \in 0 .. 2 * GF_SIZE - 1 |-> Zero]
    /\ log = [x \in gf |-> 0]
    /\ inv = [x \in gf |-> Zero]
    /\ mul = [x \in gf, y \in gf |-> Zero]
    /\ fec_initialized = FALSE
    /\ pc = [t \in Threads |-> "fec_new"]
    /\ mask = [t \in Threads |-> 0]

Goto(t, from, to) == pc[t] = from /\ pc' = [pc EXCEPT ![t] = to]

FecNew(t) ==
    /\ Goto(t, "fec_new", IF fec_initialized THEN "ready" ELSE "clear")
    /\ UNCHANGED <<tables, fec_initialized, mask>>

\* gf_exp[GF_BITS] is built up bit by bit, from 0.
ClearTop(t) ==
    /\ Goto(t, "clear", "shift")
    /\ exp' = [exp EXCEPT ![GF_BITS] = Zero]
    /\ mask' = [mask EXCEPT ![t] = 0]
    /\ UNCHANGED <<log, inv, mul, fec_initialized>>

ShiftMask(t) ==
    LET a == mask[t]
        top == IF a \in allPp[GF_BITS] THEN Plus(exp[GF_BITS], {a}) ELSE exp[GF_BITS]
    IN
    /\ Goto(t, "shift", IF a + 1 < GF_BITS THEN "shift" ELSE "top")
    /\ exp' = [exp EXCEPT ![a] = {a}, ![GF_BITS] = top]
    /\ log' = [log EXCEPT ![{a}] = a]
    /\ mask' = [mask EXCEPT ![t] = a + 1]
    /\ UNCHANGED <<inv, mul, fec_initialized>>

LogTop(t) ==
    /\ Goto(t, "top", "powers")
    /\ log' = [log EXCEPT ![exp[GF_BITS]] = GF_BITS]
    /\ UNCHANGED <<exp, inv, mul, fec_initialized, mask>>

\* All higher powers, from the table's own gf_exp[GF_BITS]; then what follows them.
Powers(t) ==
    LET after(p) == IF Top \in p THEN Plus(exp[GF_BITS], ShiftLeft(p \ {Top})) ELSE ShiftLeft(p)
        power[a \in 0 .. GF_SIZE - 1] == IF a <= GF_BITS THEN exp[a] ELSE after(power[a - 1])
        written == GF_BITS + 1 .. GF_SIZE - 1
    IN
    /\ Goto(t, "powers", "inverse")
    /\ exp' = [a \in DOMAIN exp |-> power[a % GF_SIZE]]
    /\ log' = [x \in gf |->
                  LET at == {a \in written : power[a] = x} IN
                  IF x = Zero THEN GF_SIZE
                  ELSE IF at = {} THEN log[x] ELSE CHOOSE a \in at : \A b \in at : b <= a]
    /\ UNCHANGED <<inv, mul, fec_initialized, mask>>

Inverses(t) ==
    /\ Goto(t, "inverse", "mul")
    /\ inv' = [x \in gf |-> IF x \in {Zero, One} THEN x ELSE exp[GF_SIZE - log[x]]]
    /\ UNCHANGED <<exp, log, mul, fec_initialized, mask>>

\* init_mul_table: the entries for 0 are wrong at first.
MulTable(t) ==
    /\ Goto(t, "mul", "zero")
    /\ mul' = [x \in gf, y \in gf |-> exp[modnn[log[x] + log[y]]]]
    /\ UNCHANGED <<exp, log, inv, fec_initialized, mask>>

MulZero(t) ==
    /\ Goto(t, "zero", "end")
    /\ mul' = [x \in gf, y \in gf |-> IF Zero \in {x, y} THEN Zero ELSE mul[x, y]]
    /\ UNCHANGED <<exp, log, inv, fec_initialized, mask>>

Initialized(t) ==
    /\ Goto(t, "end", "ready")
    /\ fec_initialized' = TRUE
    /\ UNCHANGED <<tables, mask>>

\* The threads decode, which leaves the tables alone.
Decoding == (\A t \in Threads : pc[t] = "ready") /\ UNCHANGED initVars

FecInitNext ==
    \/ \E t \in Threads :
          \/ FecNew(t) \/ ClearTop(t) \/ ShiftMask(t) \/ LogTop(t) \/ Powers(t)
          \/ Inverses(t) \/ MulTable(t) \/ MulZero(t) \/ Initialized(t)
    \/ Decoding

FecInitSpec == FecInitInit /\ [][FecInitNext]_initVars

-----------------------------------------------------------------------------
(* Property *)

\* test_gf, for what its messages call bad: "bad exp/log", "bad mul/inv" and "bad
\* mul table".  (0 has no logarithm, so the first is not asked of it.)  It should hold when
\* no thread is initialising any more.
TestGf ==
    (\A t \in Threads : pc[t] = "ready") =>
        /\ \A x \in gf : x # Zero => exp[log[x]] = x /\ mul[x, inv[x]] = One
        /\ \A x \in gf : mul[Zero, x] = Zero /\ mul[x, Zero] = Zero
=============================================================================
