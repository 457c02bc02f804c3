------------------------------ MODULE FecProofs ------------------------------
(***************************************************************************)
(* The erasure code for every GF_BITS from 2 to 16 whose polynomial is     *)
(* primitive: the tables are those of a field, and of the multiplication   *)
(* of polynomials; invert_mat and invert_vdm invert; and any k different   *)
(* of the n coded packets give back the k packets that were encoded,       *)
(* whatever these hold.                                                    *)
(*                                                                         *)
(* The argument: the powers of the root run through all elements but 0,    *)
(* so products are sums of exponents, and the next power distributes over  *)
(* sums.  Each round of invert_mat leaves the same solutions to the system *)
(* y = m x, with one more unknown exchanged for a right-hand side.  A      *)
(* polynomial has no more roots than its degree, so no two different       *)
(* polynomials below degree k agree at k points: any k rows of the         *)
(* Vandermonde matrix, and of the encoding matrix, can be inverted.        *)
(***************************************************************************)
EXTENDS Fec, FiniteSetTheorems, FunctionTheorems, SequenceTheorems,
        WellFoundedInduction, TLAPS

\* Induction: a set with 0, and with the successor of each of its numbers, has all.
LEMMA NatInduct ==
    ASSUME NEW S, 0 \in S, \A n \in Nat : n \in S => n + 1 \in S
    PROVE  Nat \subseteq S
<1> DEFINE T == Nat \ S
           R == {ss \in Nat \X Nat : ss[1] < ss[2]}
<1>1. SUFFICES ASSUME T # {} PROVE FALSE
  OBVIOUS
<1>2. IsWellFoundedOn(R, Nat)
  BY NatLessThanWellFounded DEF OpToRel
<1>3. PICK x \in T : \A y \in T : ~(<<y, x>> \in R)
  <2>1. T \subseteq Nat
    OBVIOUS
  <2> HIDE DEF T, R
  <2> QED
    BY <1>1, <1>2, <2>1, WFMin
<1>4. \A y \in T : ~(y < x)
  BY <1>3
<1>5. x \in Nat /\ x \notin S /\ x - 1 \in Nat
  OBVIOUS
<1>6. x - 1 \in T
  BY <1>5
<1> QED
  BY <1>4, <1>5, <1>6

\* The states that steps of H lead to, from base at 0 on, or from base at m down.
Steps(St) == [St \X Nat -> St]
IsRun(f, St, base, H, m) ==
    f \in [0 .. m -> St] /\ f[0] = base /\ \A t \in 1 .. m : f[t] = H[<<f[t - 1], t>>]
IsRunDown(f, St, base, H, m) ==
    f \in [0 .. m -> St] /\ f[m] = base /\ \A t \in 0 .. m - 1 : f[t] = H[<<f[t + 1], t>>]

\* Both exist for every step function, which is what the recursive functions rest on.
LEMMA RunExists ==
    ASSUME NEW St, NEW base \in St, NEW H \in Steps(St), NEW m \in Nat
    PROVE  \E f : IsRun(f, St, base, H, m)
<1> DEFINE S == {n \in Nat : \E f : IsRun(f, St, base, H, n)}
<1>1. 0 \in S
  <2> DEFINE f == [t \in 0 .. 0 |-> base]
  <2>1. f \in [0 .. 0 -> St] /\ f[0] = base
    OBVIOUS
  <2> HIDE DEF f
  <2>2. \A t \in 1 .. 0 : f[t] = H[<<f[t - 1], t>>]
    OBVIOUS
  <2>3. IsRun(f, St, base, H, 0)
    BY <2>1, <2>2 DEF IsRun
  <2> QED
    BY <2>3
<1>2. ASSUME NEW n \in Nat, n \in S PROVE n + 1 \in S
  <2>1. PICK f : IsRun(f, St, base, H, n)
    BY <1>2
  <2>2. f[n] \in St /\ H \in [St \X Nat -> St]
    BY <2>1 DEF IsRun, Steps
  <2> DEFINE next == H[<<f[n], n + 1>>]
             g == [t \in 0 .. n + 1 |-> IF t = n + 1 THEN next ELSE f[t]]
  <2>3. next \in St
    BY <2>2
  <2> HIDE DEF next
  <2>4. g[n + 1] = next /\ \A t \in 0 .. n : g[t] = f[t]
    OBVIOUS
  <2>5. g \in [0 .. n + 1 -> St]
    BY <2>1, <2>3 DEF IsRun
  <2> HIDE DEF g
  <2>6. \A t \in 1 .. n + 1 : g[t] = H[<<g[t - 1], t>>]
    <3>1. SUFFICES ASSUME NEW t \in 1 .. n + 1 PROVE g[t] = H[<<g[t - 1], t>>]
      OBVIOUS
    <3>2. CASE t = n + 1
      <4>1. g[t - 1] = f[n]
        BY <2>4, <3>2
      <4> QED
        BY <2>4, <3>2, <4>1 DEF next
    <3>3. CASE t \in 1 .. n
      <4>1. g[t] = f[t] /\ g[t - 1] = f[t - 1]
        BY <2>4, <3>3
      <4>2. f[t] = H[<<f[t - 1], t>>]
        BY <2>1, <3>3 DEF IsRun
      <4> QED
        BY <4>1, <4>2
    <3> QED
      BY <3>2, <3>3
  <2>7. g[0] = base
    BY <2>1, <2>4 DEF IsRun
  <2>8. IsRun(g, St, base, H, n + 1)
    BY <2>5, <2>6, <2>7 DEF IsRun
  <2> QED
    BY <2>8
<1> HIDE DEF S
<1>3. Nat \subseteq S
  BY <1>1, <1>2, NatInduct
<1> QED
  BY <1>3 DEF S

\* The same, from m down.
LEMMA RunDownExists ==
    ASSUME NEW St, NEW base \in St, NEW H \in Steps(St), NEW m \in Nat
    PROVE  \E f : IsRunDown(f, St, base, H, m)
<1> DEFINE H2 == [p \in St \X Nat |-> IF p[2] <= m THEN H[<<p[1], m - p[2]>>] ELSE base]
<1>1. H2 \in Steps(St)
  BY DEF Steps
<1>2. \A x \in St, t \in 1 .. m : H2[<<x, t>>] = H[<<x, m - t>>]
  OBVIOUS
<1> HIDE DEF H2
<1>3. PICK g : IsRun(g, St, base, H2, m)
  BY <1>1, RunExists
<1> DEFINE f == [t \in 0 .. m |-> g[m - t]]
<1>4. f \in [0 .. m -> St] /\ f[m] = base
  BY <1>3 DEF IsRun
<1>5. ASSUME NEW t \in 0 .. m - 1 PROVE f[t] = H[<<f[t + 1], t>>]
  <2>1. f[t] = g[m - t] /\ f[t + 1] = g[(m - t) - 1] /\ m - t \in 1 .. m /\ m - (m - t) = t
    OBVIOUS
  <2>2. g[(m - t) - 1] \in St
    BY <1>3 DEF IsRun
  <2>3. g[m - t] = H2[<<g[(m - t) - 1], m - t>>]
    BY <1>3, <2>1 DEF IsRun
  <2>4. H2[<<g[(m - t) - 1], m - t>>] = H[<<g[(m - t) - 1], m - (m - t)>>]
    BY <1>2, <2>1, <2>2
  <2> HIDE DEF f
  <2> QED
    BY <2>1, <2>3, <2>4
<1>6. IsRunDown(f, St, base, H, m)
  <2> HIDE DEF f
  <2> QED
    BY <1>4, <1>5 DEF IsRunDown
<1> QED
  BY <1>6

\* The least of some numbers.
LEMMA NatMin ==
    ASSUME NEW T \in SUBSET Nat, T # {}
    PROVE  \E x \in T : \A y \in T : x <= y
<1> DEFINE S == {n \in Nat : \A t \in T : t <= n => \E x \in T : \A y \in T : x <= y}
<1>1. 0 \in S
  OBVIOUS
<1>2. ASSUME NEW n \in Nat, n \in S PROVE n + 1 \in S
  <2> SUFFICES ASSUME NEW t \in T, t <= n + 1, ~\E x \in T : \A y \in T : x <= y PROVE FALSE
    OBVIOUS
  <2>1. \A y \in T : y >= n + 1
    BY <1>2
  <2> QED
    BY <2>1
<1> HIDE DEF S
<1>3. Nat \subseteq S
  BY <1>1, <1>2, NatInduct
<1>4. PICK t \in T : TRUE
  OBVIOUS
<1>5. t \in S
  BY <1>3
<1> QED
  BY <1>4, <1>5 DEF S

\* Addition is exclusive or.
LEMMA PlusType == \A x, y \in gf : Plus(x, y) \in gf
BY DEF Plus, gf

\* The sum does not depend on the order,
LEMMA PlusCommutes == \A x, y : Plus(x, y) = Plus(y, x)
BY DEF Plus

\* nor on where it is begun;
LEMMA PlusAssociates == \A x, y, z : Plus(Plus(x, y), z) = Plus(x, Plus(y, z))
BY DEF Plus

\* 0 changes nothing, and every element is its own opposite;
LEMMA PlusZero == \A x : Plus(x, Zero) = x /\ Plus(Zero, x) = x /\ Plus(x, x) = Zero
BY DEF Plus, Zero

\* so that equal elements are the ones whose sum is 0,
LEMMA PlusCancels == \A x, y : Plus(x, y) = Zero => x = y
BY DEF Plus, Zero

\* four of them can be added in pairs,
LEMMA PlusShuffle ==
    \A p, q, r, s : Plus(Plus(p, q), Plus(r, s)) = Plus(Plus(p, r), Plus(q, s))
BY DEF Plus

\* and what is added twice is gone.
LEMMA PlusBack == \A x, y : Plus(x, Plus(x, y)) = y
BY DEF Plus

\* The field has 2 ^ GF_BITS elements, GF_SIZE of them not 0.
LEMMA GfCardinality ==
    /\ IsFiniteSet(gf) /\ Cardinality(gf) = GF_SIZE + 1
    /\ IsFiniteSet(gf \ {Zero}) /\ Cardinality(gf \ {Zero}) = GF_SIZE
    /\ GF_SIZE \in Nat \ {0}
    /\ 2 ^ GF_BITS = GF_SIZE + 1
<1>1. IsFiniteSet(Bits) /\ Cardinality(Bits) = GF_BITS
  <2>1. GF_BITS \in 2 .. 16
    BY FecAssumption
  <2> QED
  BY <2>1, FS_Interval DEF Bits
<1>2. IsFiniteSet(gf) /\ Cardinality(gf) = 2 ^ GF_BITS
  BY <1>1, FS_SUBSET DEF gf
<1>3. Cardinality(gf) \in Nat
  BY <1>2, FS_CardinalityType
<1>4. Zero \in gf /\ One \in gf /\ One # Zero
  BY FecAssumption DEF gf, Zero, One, Bits
<1>5. IsFiniteSet(gf \ {Zero}) /\ Cardinality(gf \ {Zero}) = Cardinality(gf) - 1
  BY <1>2, <1>4, FS_RemoveElement
<1>6. Cardinality(gf \ {Zero}) \in Nat
  BY <1>5, FS_CardinalityType
<1>7. Cardinality(gf \ {Zero}) # 0
  BY <1>4, <1>5, FS_EmptySet
<1>8. 2 ^ GF_BITS \in Nat
  BY <1>2, <1>3
<1> QED
  BY <1>2, <1>3, <1>5, <1>6, <1>7, <1>8 DEF GF_SIZE

-----------------------------------------------------------------------------
(* modnn is the remainder *)

\* Two quotients: what is left of the same number is the same.
LEMMA ModUnique ==
    ASSUME NEW m \in Nat \ {0}, NEW q1 \in Int, NEW q2 \in Int,
           NEW r1 \in 0 .. m - 1, NEW r2 \in 0 .. m - 1, m * q1 + r1 = m * q2 + r2
    PROVE  r1 = r2 /\ q1 = q2
<1>1. ASSUME NEW a \in Int, NEW b \in Int, a >= b + 1 PROVE m * a >= m * b + m
  <2>1. m * (a - b - 1) >= 0
    <3>1. ASSUME NEW u \in Nat, NEW v \in Nat PROVE u * v >= 0
      BY <3>1
    <3> QED
      BY <1>1, <3>1
  <2> QED
    BY <2>1
<1>2. m * q1 \in Int /\ m * q2 \in Int
  OBVIOUS
<1>3. ~(q1 >= q2 + 1) /\ ~(q2 >= q1 + 1)
  <2>1. CASE q1 >= q2 + 1
    BY <1>1, <1>2, <2>1
  <2>2. CASE q2 >= q1 + 1
    BY <1>1, <1>2, <2>2
  <2> QED
    BY <2>1, <2>2
<1> QED
  BY <1>3

\* Numbers that differ by a multiple of m have the same remainder.
LEMMA ModShift ==
    ASSUME NEW m \in Nat \ {0}, NEW a \in Nat, NEW b \in Nat, NEW c \in Int, a = b + m * c
    PROVE  a % m = b % m
<1>1. /\ a = m * (a \div m) + (a % m) /\ a % m \in 0 .. m - 1 /\ a \div m \in Int
      /\ b = m * (b \div m) + (b % m) /\ b % m \in 0 .. m - 1 /\ b \div m \in Int
  <2>1. a = m * (a \div m) + (a % m)
    OBVIOUS
  <2>2. b = m * (b \div m) + (b % m)
    OBVIOUS
  <2>3. a % m \in 0 .. m - 1 /\ a \div m \in Int
    OBVIOUS
  <2>4. b % m \in 0 .. m - 1 /\ b \div m \in Int
    OBVIOUS
  <2> QED
    BY <2>1, <2>2, <2>3, <2>4
<1> DEFINE qa == a \div m
           qb == b \div m
           ra == a % m
           rb == b % m
<1> HIDE DEF qa, qb, ra, rb
<1>2. m * (qb + c) = m * qb + m * c
  BY <1>1 DEF qb
<1>3. m * qa + ra = m * (qb + c) + rb
  BY <1>1, <1>2 DEF qa, qb, ra, rb
<1> DEFINE qc == qb + c
<1>4. /\ m * qa + ra = m * qc + rb /\ qa \in Int /\ qc \in Int
      /\ ra \in 0 .. m - 1 /\ rb \in 0 .. m - 1
  BY <1>1, <1>3 DEF qa, qb, ra, rb
<1> HIDE DEF qc
<1>5. ra = rb
  BY <1>4, ModUnique
<1> QED
  BY <1>5 DEF ra, rb

\* A number below m is its own remainder.
LEMMA ModSmall == ASSUME NEW m \in Nat \ {0}, NEW a \in 0 .. m - 1 PROVE a % m = a
OBVIOUS

\* Remainders can be taken before adding.
LEMMA ModAdd ==
    ASSUME NEW m \in Nat \ {0}, NEW a \in Nat, NEW b \in Nat
    PROVE  ((a % m) + (b % m)) % m = (a + b) % m
<1>1. /\ a = m * (a \div m) + (a % m) /\ a % m \in Nat /\ a \div m \in Int
      /\ b = m * (b \div m) + (b % m) /\ b % m \in Nat /\ b \div m \in Int
  <2>1. a = m * (a \div m) + (a % m)
    OBVIOUS
  <2>2. b = m * (b \div m) + (b % m)
    OBVIOUS
  <2>3. a % m \in Nat /\ a \div m \in Int
    OBVIOUS
  <2>4. b % m \in Nat /\ b \div m \in Int
    OBVIOUS
  <2> QED
    BY <2>1, <2>2, <2>3, <2>4
<1> DEFINE qa == a \div m
           qb == b \div m
           ra == a % m
           rb == b % m
<1> HIDE DEF qa, qb, ra, rb
<1>2. m * (qa + qb) = m * qa + m * qb
  BY <1>1 DEF qa, qb
<1>3. a + b = (ra + rb) + m * (qa + qb) /\ qa + qb \in Int /\ ra + rb \in Nat
  BY <1>1, <1>2 DEF qa, qb, ra, rb
<1> HIDE DEF qa, qb
<1> DEFINE u == ra + rb
           v == qa + qb
           w == a + b
<1>4. w = u + m * v /\ u \in Nat /\ v \in Int /\ w \in Nat
  BY <1>3
<1> HIDE DEF u, v, w
<1>5. w % m = u % m
  BY <1>4, ModShift
<1>6. u = (a % m) + (b % m)
  BY DEF u, ra, rb
<1> QED
  BY <1>5, <1>6 DEF w

\* One step of modnn: the sum of the two halves is smaller and leaves the same rest.
LEMMA ModStep ==
    ASSUME NEW m \in Nat \ {0}, NEW x \in Nat, x >= m
    PROVE  LET y == x - m
               z == (y \div (m + 1)) + (y % (m + 1))
           IN  z \in Nat /\ z < x /\ z % m = x % m
<1> DEFINE y == x - m
           q == y \div (m + 1)
           r == y % (m + 1)
<1>1. y \in Nat /\ m + 1 \in Nat \ {0} /\ x = y + m
  OBVIOUS
<1>2. q \in Nat /\ r \in Nat /\ y = (m + 1) * q + r
  <2> DEFINE p == m + 1
  <2>1. p \in Nat \ {0} /\ y \in Nat
    BY <1>1
  <2> HIDE DEF y, p
  <2>2. y = p * (y \div p) + (y % p)
    BY <2>1
  <2>3. y \div p \in Nat
    BY <2>1
  <2>4. y % p \in Nat
    BY <2>1
  <2> USE DEF p
  <2> QED
    BY <2>2, <2>3, <2>4
<1> HIDE DEF y, q, r
<1>3. y = m * q + q + r
  BY <1>2
<1>4. m * q \in Nat
  BY <1>2
<1>5. m * (q + 1) = m * q + m
  BY <1>2
<1>6. x = (q + r) + m * (q + 1)
  BY <1>1, <1>2, <1>3, <1>4, <1>5
<1>7. x % m = (q + r) % m
  <2>1. q + r \in Nat /\ q + 1 \in Int
    BY <1>2
  <2> DEFINE u == q + r
             v == q + 1
  <2>2. x = u + m * v /\ u \in Nat /\ v \in Int
    BY <1>6, <2>1
  <2> HIDE DEF u, v
  <2>3. x % m = u % m
    BY <2>2, ModShift
  <2> QED
    BY <2>3 DEF u
<1>8. q + r \in Nat /\ q + r < x
  BY <1>1, <1>2, <1>3, <1>4
<1> QED
  BY <1>7, <1>8 DEF y, q, r

\* modnn, which folds the high bits down, is the remainder modulo GF_SIZE.
LEMMA ModnnIsMod == \A x \in Nat : modnn[x] = x % GF_SIZE
<1> DEFINE Is(f) == f = [x \in Nat |->
               IF x < GF_SIZE THEN x
               ELSE LET y == x - GF_SIZE IN f[(y \div 2 ^ GF_BITS) + (y % 2 ^ GF_BITS)]]
           next(x) == ((x - GF_SIZE) \div (GF_SIZE + 1)) + ((x - GF_SIZE) % (GF_SIZE + 1))
<1>1. GF_SIZE \in Nat \ {0} /\ 2 ^ GF_BITS = GF_SIZE + 1
  BY GfCardinality
<1> DEFINE f == [x \in Nat |-> x % GF_SIZE]
<1>2. Is(f)
  <2>1. ASSUME NEW x \in Nat
        PROVE  f[x] = IF x < GF_SIZE THEN x ELSE f[next(x)]
    <3>1. CASE x < GF_SIZE
      BY <1>1, <3>1, ModSmall
    <3>2. CASE x >= GF_SIZE
      <4>1. next(x) \in Nat /\ next(x) % GF_SIZE = x % GF_SIZE
        BY <1>1, <3>2, ModStep
      <4> HIDE DEF next
      <4>2. ~(x < GF_SIZE)
        BY <1>1, <3>2
      <4> QED
        BY <4>1, <4>2
    <3> QED
      BY <1>1, <3>1, <3>2
  <2>2. f = [x \in Nat |-> f[x]]
    OBVIOUS
  <2> HIDE DEF f
  <2> QED
    BY <1>1, <2>1, <2>2
<1>3. Is(modnn)
  <2>1. modnn = CHOOSE g : Is(g)
    BY DEF modnn
  <2>2. \E g : Is(g)
    BY <1>2
  <2> HIDE DEF Is
  <2> QED
    BY <2>1, <2>2
<1>4. \A x \in Nat : modnn[x] = IF x < GF_SIZE THEN x ELSE modnn[next(x)]
  BY <1>1, <1>3
<1> DEFINE S == {n \in Nat : \A x \in Nat : x <= n => modnn[x] = x % GF_SIZE}
<1>5. 0 \in S
  <2> SUFFICES ASSUME NEW x \in Nat, x <= 0 PROVE modnn[x] = x % GF_SIZE
    OBVIOUS
  <2>1. x < GF_SIZE /\ x \in 0 .. GF_SIZE - 1
    BY <1>1
  <2> QED
    BY <1>1, <1>4, <2>1, ModSmall
<1>6. ASSUME NEW n \in Nat, n \in S PROVE n + 1 \in S
  <2> SUFFICES ASSUME NEW x \in Nat, x <= n + 1 PROVE modnn[x] = x % GF_SIZE
    OBVIOUS
  <2>1. CASE x < GF_SIZE
    BY <1>1, <1>4, <2>1, ModSmall
  <2>2. CASE x >= GF_SIZE
    <3>1. next(x) \in Nat /\ next(x) < x /\ next(x) % GF_SIZE = x % GF_SIZE
      BY <1>1, <2>2, ModStep
    <3>2. ~(x < GF_SIZE)
      BY <1>1, <2>2
    <3> HIDE DEF next
    <3>3. modnn[next(x)] = next(x) % GF_SIZE
      BY <1>6, <3>1
    <3> QED
      BY <1>4, <3>1, <3>2, <3>3
  <2> QED
    BY <1>1, <2>1, <2>2
<1> HIDE DEF S
<1>7. Nat \subseteq S
  BY <1>5, <1>6, NatInduct
<1> QED
  BY <1>7 DEF S

-----------------------------------------------------------------------------
(* The powers of the root *)

\* Every polynomial of the table has the degree it is listed under, and a 1.
LEMMA PolynomialShape ==
    /\ allPp[GF_BITS] \subseteq 0 .. GF_BITS
    /\ 0 \in allPp[GF_BITS]
    /\ GF_BITS \in Nat /\ GF_BITS >= 2
<1>1. GF_BITS \in 2 .. 16
  BY FecAssumption
<1>2. \/ GF_BITS = 2 \/ GF_BITS = 3 \/ GF_BITS = 4 \/ GF_BITS = 5 \/ GF_BITS = 6
      \/ GF_BITS = 7 \/ GF_BITS = 8 \/ GF_BITS = 9 \/ GF_BITS = 10 \/ GF_BITS = 11
      \/ GF_BITS = 12 \/ GF_BITS = 13 \/ GF_BITS = 14 \/ GF_BITS = 15 \/ GF_BITS = 16
  BY <1>1
<1>3. /\ allPp[2] = {0, 1, 2} /\ allPp[3] = {0, 1, 3} /\ allPp[4] = {0, 1, 4}
      /\ allPp[5] = {0, 2, 5} /\ allPp[6] = {0, 1, 6} /\ allPp[7] = {0, 3, 7}
      /\ allPp[8] = {0, 2, 3, 4, 8} /\ allPp[9] = {0, 4, 9} /\ allPp[10] = {0, 3, 10}
  BY DEF allPp
<1>4. /\ allPp[11] = {0, 2, 11} /\ allPp[12] = {0, 1, 4, 6, 12}
      /\ allPp[13] = {0, 1, 3, 4, 13} /\ allPp[14] = {0, 1, 6, 10, 14}
      /\ allPp[15] = {0, 1, 15} /\ allPp[16] = {0, 1, 3, 12, 16}
  BY DEF allPp
<1> QED
  BY <1>1, <1>2, <1>3, <1>4

\* What the bit that falls out is replaced by.
Carry(x) == IF Top \in x THEN allPp[GF_BITS] \ {GF_BITS} ELSE {}

\* The next power is the shifted element, and the polynomial in place of the bit that falls out.
LEMMA NextPowerIs ==
    ASSUME NEW x \in gf
    PROVE  /\ NextPower(x) = Plus(Carry(x), ShiftLeft(x \ {Top}))
           /\ \A e \in Int : e \in ShiftLeft(x \ {Top}) <=> e - 1 \in x /\ e # GF_BITS
           /\ ShiftLeft(x \ {Top}) \subseteq 1 .. Top
           /\ Carry(x) \subseteq 0 .. Top
<1>1. GF_BITS \in Nat /\ GF_BITS >= 2 /\ Top = GF_BITS - 1 /\ x \subseteq 0 .. GF_BITS - 1
  BY PolynomialShape DEF Top, gf, Bits
<1>2. NextPower(x) = Plus(Carry(x), ShiftLeft(x \ {Top}))
  <2>1. CASE Top \in x
    BY <2>1 DEF NextPower, Carry
  <2>2. CASE Top \notin x
    <3>1. x \ {Top} = x
      BY <2>2
    <3>2. Plus({}, ShiftLeft(x)) = ShiftLeft(x)
      BY DEF Plus
    <3> QED
      BY <2>2, <3>1, <3>2 DEF NextPower, Carry
  <2> QED
    BY <2>1, <2>2
<1>3. \A e \in Int : e \in ShiftLeft(x \ {Top}) <=> e - 1 \in x /\ e # GF_BITS
  BY <1>1 DEF ShiftLeft
<1>4. ShiftLeft(x \ {Top}) \subseteq 1 .. Top
  BY <1>1 DEF ShiftLeft
<1>5. Carry(x) \subseteq 0 .. Top
  BY <1>1, PolynomialShape DEF Carry
<1> QED
  BY <1>2, <1>3, <1>4, <1>5

\* It is an element of the field;
LEMMA NextPowerType == \A x \in gf : NextPower(x) \in gf
<1> SUFFICES ASSUME NEW x \in gf PROVE NextPower(x) \in gf
  OBVIOUS
<1>1. GF_BITS \in Nat /\ GF_BITS >= 2 /\ Top = GF_BITS - 1 /\ gf = SUBSET (0 .. GF_BITS - 1)
  BY PolynomialShape DEF Top, gf, Bits
<1>2. Carry(x) \in gf /\ ShiftLeft(x \ {Top}) \in gf
  <2> DEFINE lx == ShiftLeft(x \ {Top})
  <2>1. Carry(x) \subseteq 0 .. Top /\ lx \subseteq 1 .. Top
    BY NextPowerIs
  <2> HIDE DEF lx
  <2>2. lx \subseteq 0 .. Top
    BY <2>1
  <2>3. Carry(x) \in gf /\ lx \in gf
    BY <1>1, <2>1, <2>2
  <2> QED
    BY <2>3 DEF lx
<1> QED
  BY <1>2, NextPowerIs, PlusType

\* it distributes over sums;
LEMMA NextPowerPlus ==
    ASSUME NEW x \in gf, NEW y \in gf
    PROVE  NextPower(Plus(x, y)) = Plus(NextPower(x), NextPower(y))
<1>1. Plus(x, y) \in gf
  BY PlusType
<1> DEFINE z == Plus(x, y)
           L(w) == ShiftLeft(w \ {Top})
<1>2. Carry(z) = Plus(Carry(x), Carry(y))
  BY DEF Carry, Plus
<1>3. L(z) = Plus(L(x), L(y))
  <2>1. /\ \A e \in Int : e \in L(x) <=> e - 1 \in x /\ e # GF_BITS
        /\ \A e \in Int : e \in L(y) <=> e - 1 \in y /\ e # GF_BITS
        /\ \A e \in Int : e \in L(z) <=> e - 1 \in z /\ e # GF_BITS
    BY <1>1, NextPowerIs
  <2>2. L(x) \subseteq Int /\ L(y) \subseteq Int /\ L(z) \subseteq Int
    <3>1. L(x) \subseteq 1 .. Top /\ L(y) \subseteq 1 .. Top /\ L(z) \subseteq 1 .. Top
      BY <1>1, NextPowerIs
    <3> HIDE DEF L
    <3> QED
      BY <3>1
  <2>3. \A e : e \in z <=> (e \in x /\ e \notin y) \/ (e \in y /\ e \notin x)
    BY DEF Plus
  <2>4. \A e \in Int : e \in L(z) <=> e \in Plus(L(x), L(y))
    <3> HIDE DEF L, z
    <3> QED
      BY <2>1, <2>3 DEF Plus
  <2>5. Plus(L(x), L(y)) \subseteq Int
    <3> HIDE DEF L, z
    <3> QED
      BY <2>2 DEF Plus
  <2> HIDE DEF L, z
  <2> QED
    BY <2>2, <2>4, <2>5
<1> DEFINE cx == Carry(x)
           cy == Carry(y)
           lx == L(x)
           ly == L(y)
<1>4. NextPower(z) = Plus(Carry(z), L(z)) /\ NextPower(x) = Plus(cx, lx)
      /\ NextPower(y) = Plus(cy, ly)
  BY <1>1, NextPowerIs
<1>5. NextPower(z) = Plus(Plus(cx, cy), Plus(lx, ly))
  BY <1>2, <1>3, <1>4
<1> HIDE DEF cx, cy, lx, ly
<1>6. Plus(Plus(cx, cy), Plus(lx, ly)) = Plus(Plus(cx, lx), Plus(cy, ly))
  BY DEF Plus
<1> HIDE DEF z
<1>7. NextPower(z) = Plus(NextPower(x), NextPower(y))
  BY <1>4, <1>5, <1>6
<1> QED
  BY <1>7 DEF z

\* only 0 leads to 0,
LEMMA NextPowerZero ==
    /\ NextPower(Zero) = Zero
    /\ \A x \in gf : NextPower(x) = Zero => x = Zero
<1>1. NextPower(Zero) = Zero
  BY DEF NextPower, Zero, ShiftLeft
<1>2. ASSUME NEW x \in gf, NextPower(x) = Zero PROVE x = Zero
  <2> DEFINE lx == ShiftLeft(x \ {Top})
  <2>1. Plus(Carry(x), lx) = Zero /\ lx \subseteq 1 .. Top
    BY <1>2, NextPowerIs
  <2>2. Carry(x) = lx
    BY <2>1, PlusCancels
  <2>3. 0 \notin lx /\ 0 # GF_BITS
    BY <2>1, PolynomialShape
  <2>4. Top \notin x
    BY <2>2, <2>3, PolynomialShape DEF Carry
  <2>5. lx = {}
    BY <2>2, <2>4 DEF Carry
  <2>6. x \subseteq Int
    BY DEF gf, Bits
  <2>7. x = {}
    BY <2>4, <2>5, <2>6 DEF ShiftLeft
  <2> QED
    BY <2>7 DEF Zero
<1> QED
  BY <1>1, <1>2

\* and different elements lead to different ones.
LEMMA NextPowerInjective ==
    \A x, y \in gf : NextPower(x) = NextPower(y) => x = y
<1> SUFFICES ASSUME NEW x \in gf, NEW y \in gf, NextPower(x) = NextPower(y) PROVE x = y
  OBVIOUS
<1>1. NextPower(Plus(x, y)) = Zero
  BY NextPowerPlus, PlusZero
<1>2. Plus(x, y) = Zero
  BY <1>1, NextPowerZero, PlusType
<1> QED
  BY <1>2, PlusCancels

\* The first powers are written bit by bit, and the others follow each other.
LEMMA ExpSteps ==
    /\ \A a \in 0 .. 2 * GF_SIZE - 1 : gf_exp[a] = gf_exp[a % GF_SIZE]
    /\ \A a \in 0 .. GF_SIZE - 1 : gf_exp[a] \in gf
    /\ gf_exp[0] = One
    /\ \A a \in 0 .. GF_SIZE - 2 : gf_exp[a + 1] = NextPower(gf_exp[a])
<1> DEFINE top == allPp[GF_BITS] \ {GF_BITS}
           Is(f) == f = [a \in 0 .. GF_SIZE - 1 |->
                            IF a < GF_BITS THEN {a}
                            ELSE IF a = GF_BITS THEN allPp[GF_BITS] \ {GF_BITS}
                            ELSE NextPower(f[a - 1])]
           power == CHOOSE f : Is(f)
<1>1. GF_SIZE \in Nat \ {0} /\ GF_BITS \in Nat /\ GF_BITS >= 2
  BY GfCardinality, PolynomialShape
<1>2. gf_exp = [a \in 0 .. 2 * GF_SIZE - 1 |-> power[a % GF_SIZE]]
  BY DEF gf_exp
<1>3. top \in gf
  BY PolynomialShape DEF gf, Bits
<1>4. \A a \in Nat : a < GF_BITS => {a} \in gf
  BY <1>1 DEF gf, Bits
<1> HIDE DEF top
<1> DEFINE H == [p \in gf \X Nat |->
                    IF p[2] < GF_BITS THEN {p[2]} ELSE IF p[2] = GF_BITS THEN top
                    ELSE NextPower(p[1])]
<1>5. H \in Steps(gf)
  <2>1. \A p \in gf \X Nat : p[1] \in gf /\ p[2] \in Nat
    OBVIOUS
  <2>2. \A p \in gf \X Nat : H[p] \in gf
    BY <1>3, <1>4, <2>1, NextPowerType
  <2>3. H = [p \in gf \X Nat |-> H[p]]
    OBVIOUS
  <2> HIDE DEF H
  <2> QED
    BY <2>2, <2>3 DEF Steps
<1>6. \A x \in gf, a \in Nat :
          H[<<x, a>>] = IF a < GF_BITS THEN {a} ELSE IF a = GF_BITS THEN top ELSE NextPower(x)
  OBVIOUS
<1> HIDE DEF H
<1>7. {0} \in gf /\ GF_SIZE - 1 \in Nat
  BY <1>1, <1>4
<1>8. PICK f : IsRun(f, gf, {0}, H, GF_SIZE - 1)
  BY <1>5, <1>7, RunExists
<1>9. Is(f)
  <2>1. f \in [0 .. GF_SIZE - 1 -> gf] /\ f[0] = {0}
    BY <1>8 DEF IsRun
  <2>2. ASSUME NEW a \in 0 .. GF_SIZE - 1
        PROVE  f[a] = IF a < GF_BITS THEN {a} ELSE IF a = GF_BITS THEN top
                      ELSE NextPower(f[a - 1])
    <3>1. CASE a = 0
      BY <1>1, <2>1, <3>1
    <3>2. CASE a \in 1 .. GF_SIZE - 1
      <4>1. f[a - 1] \in gf /\ f[a] = H[<<f[a - 1], a>>] /\ a \in Nat
        BY <1>1, <1>8, <3>2 DEF IsRun
      <4> QED
        BY <1>6, <4>1
    <3> QED
      BY <1>1, <3>1, <3>2
  <2> QED
    BY <2>1, <2>2 DEF top
<1>10. Is(power)
  <2> HIDE DEF Is
  <2> QED
    BY <1>9
<1>11. \A a \in 0 .. GF_SIZE - 1 :
           power[a] = IF a < GF_BITS THEN {a} ELSE IF a = GF_BITS THEN top
                      ELSE NextPower(power[a - 1])
  BY <1>10 DEF top
<1> HIDE DEF power, Is
<1>21. /\ \A a \in 0 .. GF_SIZE - 1 : a < GF_BITS => power[a] = {a}
       /\ \A a \in 0 .. GF_SIZE - 1 : a = GF_BITS => power[a] = top
       /\ \A a \in 0 .. GF_SIZE - 1 : a > GF_BITS => power[a] = NextPower(power[a - 1])
  <2>1. \A a \in 0 .. GF_SIZE - 1 : a < GF_BITS => power[a] = {a}
    BY <1>11, Zenon
  <2>2. \A a \in 0 .. GF_SIZE - 1 : a = GF_BITS => ~(a < GF_BITS)
    BY <1>1
  <2>3. \A a \in 0 .. GF_SIZE - 1 : a > GF_BITS => ~(a < GF_BITS) /\ a # GF_BITS
    BY <1>1
  <2> QED
    BY <1>11, <2>1, <2>2, <2>3, Zenon
<1> DEFINE S == {n \in Nat : n < GF_SIZE => power[n] \in gf}
<1>12. 0 \in S
  BY <1>1, <1>4, <1>21
<1>13. ASSUME NEW n \in Nat, n \in S PROVE n + 1 \in S
  <2> SUFFICES ASSUME n + 1 < GF_SIZE PROVE power[n + 1] \in gf
    OBVIOUS
  <2>1. power[n] \in gf /\ n + 1 \in 0 .. GF_SIZE - 1 /\ (n + 1) - 1 = n
    BY <1>1, <1>13
  <2> QED
    BY <1>1, <1>3, <1>4, <1>21, <2>1, NextPowerType
<1>14. Nat \subseteq S
  <2> HIDE DEF S
  <2> QED
    BY <1>12, <1>13, NatInduct
<1>15. \A a \in 0 .. GF_SIZE - 1 : power[a] \in gf
  BY <1>1, <1>14
<1>16. \A a \in 0 .. GF_SIZE - 1 : gf_exp[a] = power[a]
  <2> SUFFICES ASSUME NEW a \in 0 .. GF_SIZE - 1 PROVE gf_exp[a] = power[a]
    OBVIOUS
  <2>1. a % GF_SIZE = a /\ a \in 0 .. 2 * GF_SIZE - 1
    BY <1>1, ModSmall
  <2> QED
    BY <1>2, <2>1
<1>17. \A a \in 0 .. 2 * GF_SIZE - 1 : gf_exp[a] = gf_exp[a % GF_SIZE]
  <2> SUFFICES ASSUME NEW a \in 0 .. 2 * GF_SIZE - 1 PROVE gf_exp[a] = gf_exp[a % GF_SIZE]
    OBVIOUS
  <2>1. a % GF_SIZE \in 0 .. GF_SIZE - 1
    BY <1>1
  <2> QED
    BY <1>2, <1>16, <2>1
<1>18. gf_exp[0] = One
  BY <1>1, <1>16, <1>21 DEF One
<1>19. ASSUME NEW a \in 0 .. GF_SIZE - 2 PROVE power[a + 1] = NextPower(power[a])
  <2>1. /\ a \in 0 .. GF_SIZE - 1 /\ a + 1 \in 0 .. GF_SIZE - 1 /\ (a + 1) - 1 = a
        /\ a \in Nat
    BY <1>1
  <2>2. CASE a + 1 < GF_BITS
    <3>1. power[a] = {a} /\ power[a + 1] = {a + 1} /\ a # Top
      BY <1>1, <1>21, <2>1, <2>2 DEF Top
    <3>2. NextPower({a}) = {a + 1}
      BY <3>1 DEF NextPower, ShiftLeft
    <3> QED
      BY <3>1, <3>2
  <2>3. CASE a + 1 = GF_BITS
    <3>1. power[a] = {Top} /\ power[a + 1] = top
      BY <1>1, <1>21, <2>1, <2>3 DEF Top
    <3>2. NextPower({Top}) = top
      BY DEF NextPower, ShiftLeft, Plus, top
    <3> QED
      BY <3>1, <3>2
  <2>4. CASE a + 1 > GF_BITS
    BY <1>1, <1>21, <2>1, <2>4
  <2> QED
    BY <1>1, <2>1, <2>2, <2>3, <2>4
<1>20. \A a \in 0 .. GF_SIZE - 2 : gf_exp[a + 1] = NextPower(gf_exp[a])
  <2> SUFFICES ASSUME NEW a \in 0 .. GF_SIZE - 2 PROVE gf_exp[a + 1] = NextPower(gf_exp[a])
    OBVIOUS
  <2>1. a \in 0 .. GF_SIZE - 1 /\ a + 1 \in 0 .. GF_SIZE - 1
    BY <1>1
  <2> QED
    BY <1>16, <1>19, <2>1
<1> QED
  BY <1>15, <1>16, <1>17, <1>18, <1>20

\* The powers are all different, and after the last comes the first.
LEMMA ExpCycle ==
    /\ \A a \in 0 .. GF_SIZE - 1 : gf_exp[a] \in gf \ {Zero}
    /\ \A x \in gf \ {Zero} : \E a \in 0 .. GF_SIZE - 1 : gf_exp[a] = x
    /\ \A a, b \in 0 .. GF_SIZE - 1 : gf_exp[a] = gf_exp[b] => a = b
    /\ NextPower(gf_exp[GF_SIZE - 1]) = One
<1> DEFINE A == 0 .. GF_SIZE - 1
           B == gf \ {Zero}
           f == [a \in A |-> gf_exp[a]]
<1>1. GF_SIZE \in Nat \ {0} /\ IsFiniteSet(B) /\ Cardinality(B) = GF_SIZE
  BY GfCardinality
<1>2. IsFiniteSet(A) /\ Cardinality(A) = GF_SIZE
  <2>1. /\ IsFiniteSet(A)
        /\ Cardinality(A) = IF 0 > GF_SIZE - 1 THEN 0 ELSE (GF_SIZE - 1) - 0 + 1
    BY <1>1, FS_Interval
  <2> QED
    BY <1>1, <2>1
<1>3. \A a \in A : gf_exp[a] \in B
  BY PrimitiveAssumption
<1>4. \A x \in B : \E a \in A : gf_exp[a] = x
  BY PrimitiveAssumption
<1>5. f \in Surjection(A, B)
  BY <1>3, <1>4 DEF Surjection
<1>6. f \in Injection(A, B)
  <2> HIDE DEF A, B, f
  <2> QED
    BY <1>1, <1>2, <1>5, FS_SurjSameCardinalityImpliesInj
<1>7. \A a, b \in A : gf_exp[a] = gf_exp[b] => a = b
  <2> SUFFICES ASSUME NEW a \in A, NEW b \in A, gf_exp[a] = gf_exp[b] PROVE a = b
    OBVIOUS
  <2>1. \A c, d \in A : f[c] = f[d] => c = d
    <3> HIDE DEF f, A, B
    <3> QED
      BY <1>6 DEF Injection, IsInjective
  <2> QED
    BY <2>1
<1>8. NextPower(gf_exp[GF_SIZE - 1]) = One
  <2> DEFINE last == GF_SIZE - 1
  <2>1. last \in A /\ gf_exp[last] \in B
    BY <1>1, <1>3
  <2>2. NextPower(gf_exp[last]) \in B
    BY <2>1, NextPowerType, NextPowerZero
  <2>3. PICK b \in A : gf_exp[b] = NextPower(gf_exp[last])
    BY <1>4, <2>2
  <2>4. CASE b = 0
    BY <2>3, <2>4, ExpSteps
  <2>5. CASE b # 0
    <3>1. b - 1 \in 0 .. GF_SIZE - 2 /\ (b - 1) + 1 = b /\ b - 1 \in A
      BY <1>1, <2>5
    <3>2. gf_exp[b] = NextPower(gf_exp[b - 1])
      BY <3>1, ExpSteps
    <3>3. gf_exp[b - 1] = gf_exp[last]
      BY <1>3, <2>1, <2>3, <3>1, <3>2, NextPowerInjective
    <3>4. b - 1 = last
      BY <1>7, <2>1, <3>1, <3>3
    <3> QED
      BY <1>1, <3>4
  <2> QED
    BY <2>4, <2>5
<1> QED
  BY <1>3, <1>4, <1>7, <1>8

-----------------------------------------------------------------------------
(* The field *)

\* The product by table, and the powers of the root as far as one likes.
Times(x, y) == gf_mul[x][y]
Pow(a) == gf_exp[a % GF_SIZE]

\* Every element but 0 is one of the GF_SIZE different powers, and they follow each other.
LEMMA PowIs ==
    /\ \A a \in Nat : Pow(a) \in gf \ {Zero}
    /\ \A x \in gf \ {Zero} : \E a \in 0 .. GF_SIZE - 1 : Pow(a) = x
    /\ \A a, b \in 0 .. GF_SIZE - 1 : Pow(a) = Pow(b) => a = b
    /\ Pow(0) = One /\ Pow(GF_SIZE) = One
    /\ \A a \in Nat : Pow(a + 1) = NextPower(Pow(a))
    /\ \A a \in 0 .. GF_SIZE - 1 : gf_exp[a] = Pow(a)
<1>1. GF_SIZE \in Nat \ {0}
  BY GfCardinality
<1>2. ASSUME NEW a \in Nat PROVE a % GF_SIZE \in 0 .. GF_SIZE - 1
  BY <1>1
<1>3. ASSUME NEW a \in 0 .. GF_SIZE - 1 PROVE gf_exp[a] = Pow(a)
  BY <1>1, ModSmall DEF Pow
<1>4. ASSUME NEW a \in Nat PROVE Pow(a + 1) = NextPower(Pow(a))
  <2> DEFINE b == a % GF_SIZE
  <2>1. b \in 0 .. GF_SIZE - 1
    BY <1>2
  <2>2. (a + 1) % GF_SIZE = (b + 1) % GF_SIZE
    <3>1. a = GF_SIZE * (a \div GF_SIZE) + (a % GF_SIZE)
      BY <1>1
    <3> DEFINE q == a \div GF_SIZE
               u == a + 1
               v == b + 1
    <3>2. u = v + GF_SIZE * q /\ u \in Nat /\ v \in Nat /\ q \in Int
      BY <1>1, <2>1, <3>1
    <3> HIDE DEF u, v, q
    <3>3. u % GF_SIZE = v % GF_SIZE
      BY <1>1, <3>2, ModShift
    <3> QED
      BY <3>3 DEF u, v
  <2>3. Pow(a) = gf_exp[b]
    BY DEF Pow
  <2> HIDE DEF b
  <2>4. CASE b = GF_SIZE - 1
    <3>1. (b + 1) % GF_SIZE = 0
      BY <1>1, <2>4
    <3>2. Pow(a + 1) = One
      BY <2>2, <3>1, ExpSteps DEF Pow
    <3> QED
      BY <2>3, <2>4, <3>2, ExpCycle
  <2>5. CASE b # GF_SIZE - 1
    <3>1. b \in 0 .. GF_SIZE - 2 /\ b + 1 \in 0 .. GF_SIZE - 1
      BY <1>1, <2>1, <2>5
    <3>2. (b + 1) % GF_SIZE = b + 1
      BY <1>1, <3>1, ModSmall
    <3>3. Pow(a + 1) = gf_exp[b + 1]
      BY <2>2, <3>2 DEF Pow
    <3> QED
      BY <2>3, <3>1, <3>3, ExpSteps
  <2> QED
    BY <2>4, <2>5
<1>5. \A a \in Nat : Pow(a) \in gf \ {Zero}
  BY <1>2, ExpCycle DEF Pow
<1>6. \A x \in gf \ {Zero} : \E a \in 0 .. GF_SIZE - 1 : Pow(a) = x
  BY <1>3, ExpCycle
<1>7. \A a, b \in 0 .. GF_SIZE - 1 : Pow(a) = Pow(b) => a = b
  BY <1>3, ExpCycle
<1>8. Pow(0) = One /\ Pow(GF_SIZE) = One
  <2>1. 0 % GF_SIZE = 0 /\ GF_SIZE % GF_SIZE = 0
    BY <1>1
  <2> QED
    BY <2>1, ExpSteps DEF Pow
<1> QED
  BY <1>3, <1>4, <1>5, <1>6, <1>7, <1>8

\* gf_log undoes gf_exp.
LEMMA LogIs ==
    /\ \A x \in gf \ {Zero} : gf_log[x] \in 0 .. GF_SIZE - 1 /\ Pow(gf_log[x]) = x
    /\ \A a \in 0 .. GF_SIZE - 1 : gf_log[Pow(a)] = a
<1>1. ASSUME NEW a \in 0 .. GF_SIZE - 1 PROVE gf_log[Pow(a)] = a
  <2> DEFINE x == Pow(a)
             at == {b \in 0 .. GF_SIZE - 1 : gf_exp[b] = x}
  <2>1. at = {a}
    BY PowIs
  <2>2. x \in gf /\ x # Zero
    BY PowIs
  <2> HIDE DEF x
  <2>3. gf_log[x] = CHOOSE c \in at : \A b \in at : b <= c
    BY <2>1, <2>2 DEF gf_log
  <2>4. a <= a
    OBVIOUS
  <2> HIDE DEF at
  <2>5. gf_log[x] = a
    BY <2>1, <2>3, <2>4
  <2> QED
    BY <2>5 DEF x
<1>2. ASSUME NEW x \in gf \ {Zero}
      PROVE  gf_log[x] \in 0 .. GF_SIZE - 1 /\ Pow(gf_log[x]) = x
  <2>1. PICK a \in 0 .. GF_SIZE - 1 : Pow(a) = x
    BY PowIs
  <2> QED
    BY <1>1, <2>1
<1> QED
  BY <1>1, <1>2

\* Products of powers are powers of the sum of the exponents.
LEMMA TimesIs ==
    /\ \A x, y \in gf : Zero \in {x, y} => Times(x, y) = Zero
    /\ \A a, b \in Nat : Times(Pow(a), Pow(b)) = Pow(a + b)
<1>1. \A x, y \in gf : Times(x, y) = IF Zero \in {x, y} THEN Zero
                                     ELSE gf_exp[modnn[gf_log[x] + gf_log[y]]]
  BY DEF Times, gf_mul
<1>2. ASSUME NEW a \in Nat, NEW b \in Nat PROVE Times(Pow(a), Pow(b)) = Pow(a + b)
  <2> DEFINE la == a % GF_SIZE
             lb == b % GF_SIZE
  <2>1. GF_SIZE \in Nat \ {0}
    BY GfCardinality
  <2>2. la \in 0 .. GF_SIZE - 1 /\ lb \in 0 .. GF_SIZE - 1
    BY <2>1
  <2>3. Pow(a) = Pow(la) /\ Pow(b) = Pow(lb)
    BY <2>1, <2>2, ModSmall DEF Pow
  <2>4. gf_log[Pow(a)] = la /\ gf_log[Pow(b)] = lb
    BY <2>2, <2>3, LogIs
  <2>5. Pow(a) \in gf /\ Pow(b) \in gf /\ Pow(a) # Zero /\ Pow(b) # Zero
    BY PowIs
  <2>6. Times(Pow(a), Pow(b)) = gf_exp[modnn[la + lb]]
    BY <1>1, <2>4, <2>5
  <2>7. (la + lb) % GF_SIZE = (a + b) % GF_SIZE
    BY <2>1, ModAdd
  <2>8. la + lb \in Nat
    BY <2>1, <2>2
  <2> HIDE DEF la, lb
  <2>9. modnn[la + lb] = (a + b) % GF_SIZE
    BY <2>7, <2>8, ModnnIsMod
  <2> QED
    BY <2>6, <2>9 DEF Pow
<1> QED
  BY <1>1, <1>2

\* Every element is 0 or a power.
LEMMA ZeroOrPower == \A x \in gf : x = Zero \/ \E a \in 0 .. GF_SIZE - 1 : x = Pow(a)
BY PowIs

\* The table multiplies as a field does: 0 and 1, commutative, associative, no divisors of 0.
THEOREM FieldLaws ==
    /\ Zero \in gf /\ One \in gf /\ One # Zero
    /\ \A x, y \in gf : Times(x, y) \in gf
    /\ \A x, y \in gf : Times(x, y) = Times(y, x)
    /\ \A x, y, z \in gf : Times(Times(x, y), z) = Times(x, Times(y, z))
    /\ \A x \in gf : Times(One, x) = x /\ Times(x, One) = x
    /\ \A x \in gf : Times(Zero, x) = Zero /\ Times(x, Zero) = Zero
    /\ \A x, y \in gf : Times(x, y) = Zero => x = Zero \/ y = Zero
<1>1. Zero \in gf /\ One \in gf /\ One # Zero
  BY PowIs DEF Zero, gf
<1>2. \A x, y \in gf : Zero \in {x, y} => Times(x, y) = Zero
  BY TimesIs
<1>3. ASSUME NEW a \in Nat, NEW b \in Nat
      PROVE  /\ Times(Pow(a), Pow(b)) = Pow(a + b) /\ Times(Pow(b), Pow(a)) = Pow(a + b)
             /\ Pow(a + b) \in gf \ {Zero}
  <2>1. a + b = b + a /\ a + b \in Nat
    OBVIOUS
  <2>2. Times(Pow(a), Pow(b)) = Pow(a + b) /\ Times(Pow(b), Pow(a)) = Pow(b + a)
    BY TimesIs
  <2> QED
    BY <2>1, <2>2, PowIs
<1>4. \A x \in gf : x = Zero \/ \E a \in Nat : x = Pow(a)
  BY ZeroOrPower
<1>5. ASSUME NEW x \in gf, NEW y \in gf
      PROVE  /\ Times(x, y) \in gf
             /\ Times(x, y) = Times(y, x)
             /\ Times(x, y) = Zero => x = Zero \/ y = Zero
  <2>1. CASE x = Zero \/ y = Zero
    BY <1>1, <1>2, <2>1
  <2>2. CASE x # Zero /\ y # Zero
    BY <1>3, <1>4, <2>2
  <2> QED
    BY <2>1, <2>2
<1>6. ASSUME NEW x \in gf, NEW y \in gf, NEW z \in gf
      PROVE  Times(Times(x, y), z) = Times(x, Times(y, z))
  <2>1. CASE x = Zero \/ y = Zero \/ z = Zero
    BY <1>1, <1>2, <1>5, <2>1
  <2>2. CASE x # Zero /\ y # Zero /\ z # Zero
    <3>1. PICK a \in Nat : x = Pow(a)
      BY <1>4, <2>2
    <3>2. PICK b \in Nat : y = Pow(b)
      BY <1>4, <2>2
    <3>3. PICK c \in Nat : z = Pow(c)
      BY <1>4, <2>2
    <3>4. Times(x, y) = Pow(a + b) /\ Times(y, z) = Pow(b + c)
      BY <1>3, <3>1, <3>2, <3>3
    <3>5. a + b \in Nat /\ b + c \in Nat /\ (a + b) + c = a + (b + c)
      OBVIOUS
    <3>6. /\ Times(Pow(a + b), Pow(c)) = Pow((a + b) + c)
          /\ Times(Pow(a), Pow(b + c)) = Pow(a + (b + c))
      BY <1>3, <3>5
    <3> QED
      BY <3>1, <3>3, <3>4, <3>5, <3>6
  <2> QED
    BY <2>1, <2>2
<1>7. ASSUME NEW x \in gf PROVE Times(One, x) = x /\ Times(x, One) = x
  <2>1. CASE x = Zero
    BY <1>1, <1>2, <2>1
  <2>2. CASE x # Zero
    <3>1. PICK a \in Nat : x = Pow(a)
      BY <1>4, <2>2
    <3>2. Times(Pow(0), Pow(a)) = Pow(0 + a) /\ 0 + a = a
      BY <1>3
    <3> QED
      BY <1>1, <1>5, <3>1, <3>2, PowIs
  <2> QED
    BY <2>1, <2>2
<1> QED
  BY <1>1, <1>2, <1>5, <1>6, <1>7

\* The three laws that are needed most, by themselves.
LEMMA TimesAssociates == \A x, y, z \in gf : Times(Times(x, y), z) = Times(x, Times(y, z))
BY FieldLaws

\* The product does not depend on the order.
LEMMA TimesCommutes == \A x, y \in gf : Times(x, y) = Times(y, x)
BY FieldLaws

\* A product is an element of the field.
LEMMA TimesType == \A x, y \in gf : Times(x, y) \in gf
BY FieldLaws

\* A product with 1 is the other factor.
LEMMA TimesOne == \A x \in gf : Times(One, x) = x /\ Times(x, One) = x
BY FieldLaws

\* A product with 0 is 0.
LEMMA TimesZero == \A x \in gf : Times(Zero, x) = Zero /\ Times(x, Zero) = Zero
BY FieldLaws

\* The table of inverses inverts.
THEOREM InverseIs ==
    ASSUME NEW x \in gf, x # Zero
    PROVE  inverse[x] \in gf /\ Times(inverse[x], x) = One /\ inverse[x] # Zero
<1>1. inverse[x] = IF x \in {Zero, One} THEN x ELSE gf_exp[GF_SIZE - gf_log[x]]
  BY DEF inverse
<1>2. CASE x = One
  BY <1>1, <1>2, FieldLaws
<1>3. CASE x # One
  <2> DEFINE a == gf_log[x]
             b == GF_SIZE - a
  <2>1. a \in 0 .. GF_SIZE - 1 /\ Pow(a) = x
    BY LogIs
  <2>2. a # 0
    BY <1>3, <2>1, PowIs
  <2> HIDE DEF a
  <2>3. b \in 0 .. GF_SIZE - 1 /\ b \in Nat /\ a \in Nat /\ b + a = GF_SIZE
    BY <2>1, <2>2, GfCardinality
  <2>4. inverse[x] = gf_exp[b]
    BY <1>1, <1>3 DEF a
  <2> HIDE DEF b
  <2>5. inverse[x] = Pow(b)
    BY <2>3, <2>4, PowIs
  <2>6. Times(Pow(b), Pow(a)) = One
    BY <2>3, TimesIs, PowIs
  <2> QED
    BY <2>1, <2>3, <2>5, <2>6, PowIs
<1> QED
  BY <1>2, <1>3

\* Multiplication distributes over addition.
THEOREM Distributes ==
    \A x, y, z \in gf :
        /\ Times(x, Plus(y, z)) = Plus(Times(x, y), Times(x, z))
        /\ Times(Plus(y, z), x) = Plus(Times(y, x), Times(z, x))
<1> DEFINE S == {a \in Nat : \A y, z \in gf :
                   Times(Pow(a), Plus(y, z)) = Plus(Times(Pow(a), y), Times(Pow(a), z))}
<1>1. 0 \in S
  BY FieldLaws, PlusType, PowIs
<1>2. ASSUME NEW a \in Nat, NEW y \in gf
      PROVE  Times(Pow(a + 1), y) = NextPower(Times(Pow(a), y))
  <2>1. Pow(a) \in gf /\ Pow(a + 1) \in gf
    BY PowIs
  <2>2. CASE y = Zero
    BY <2>1, <2>2, FieldLaws, NextPowerZero
  <2>3. CASE y # Zero
    <3>1. PICK b \in Nat : y = Pow(b)
      BY <2>3, ZeroOrPower
    <3>2. (a + 1) + b = (a + b) + 1 /\ a + b \in Nat
      OBVIOUS
    <3>3. Times(Pow(a + 1), Pow(b)) = Pow((a + 1) + b) /\ Times(Pow(a), Pow(b)) = Pow(a + b)
      BY TimesIs
    <3> QED
      BY <3>1, <3>2, <3>3, PowIs
  <2> QED
    BY <2>2, <2>3
<1>3. ASSUME NEW a \in Nat, a \in S PROVE a + 1 \in S
  <2> SUFFICES ASSUME NEW y \in gf, NEW z \in gf
               PROVE  Times(Pow(a + 1), Plus(y, z))
                      = Plus(Times(Pow(a + 1), y), Times(Pow(a + 1), z))
    OBVIOUS
  <2>1. Times(Pow(a), Plus(y, z)) = Plus(Times(Pow(a), y), Times(Pow(a), z))
    BY <1>3
  <2>2. Pow(a) \in gf /\ Plus(y, z) \in gf
    BY PowIs, PlusType
  <2>3. Times(Pow(a), y) \in gf /\ Times(Pow(a), z) \in gf
    BY <2>2, FieldLaws
  <2>4. Times(Pow(a + 1), Plus(y, z)) = NextPower(Plus(Times(Pow(a), y), Times(Pow(a), z)))
    BY <1>2, <2>1, <2>2
  <2>5. NextPower(Plus(Times(Pow(a), y), Times(Pow(a), z)))
        = Plus(NextPower(Times(Pow(a), y)), NextPower(Times(Pow(a), z)))
    BY <2>3, NextPowerPlus
  <2> QED
    BY <1>2, <2>4, <2>5
<1>4. Nat \subseteq S
  <2> HIDE DEF S
  <2> QED
    BY <1>1, <1>3, NatInduct
<1>5. ASSUME NEW x \in gf, NEW y \in gf, NEW z \in gf
      PROVE  Times(x, Plus(y, z)) = Plus(Times(x, y), Times(x, z))
  <2>1. CASE x = Zero
    BY <2>1, FieldLaws, PlusType, PlusZero
  <2>2. CASE x # Zero
    <3>1. PICK a \in Nat : x = Pow(a)
      BY <2>2, ZeroOrPower
    <3>2. a \in S
      BY <1>4
    <3> QED
      BY <3>1, <3>2
  <2> QED
    BY <2>1, <2>2
<1> QED
  BY <1>5, FieldLaws, PlusType

-----------------------------------------------------------------------------
(* Sums over finite sets *)

\* Induction over the subsets of a finite set.
LEMMA SubsetInduct ==
    ASSUME NEW D, IsFiniteSet(D), NEW S, {} \in S,
           \A T \in SUBSET D, d \in D : T \in S /\ d \notin T => T \cup {d} \in S
    PROVE  D \in S
<1> DEFINE N == {n \in Nat : \A T \in SUBSET D : Cardinality(T) = n => T \in S}
<1>1. \A T \in SUBSET D : IsFiniteSet(T) /\ Cardinality(T) \in Nat
  BY FS_Subset, FS_CardinalityType
<1>2. 0 \in N
  <2> SUFFICES ASSUME NEW T \in SUBSET D, Cardinality(T) = 0 PROVE T \in S
    OBVIOUS
  <2>1. T = {}
    BY <1>1, FS_EmptySet
  <2> QED
    BY <2>1
<1>3. ASSUME NEW n \in Nat, n \in N PROVE n + 1 \in N
  <2> SUFFICES ASSUME NEW T \in SUBSET D, Cardinality(T) = n + 1 PROVE T \in S
    OBVIOUS
  <2>1. T # {}
    BY FS_EmptySet
  <2>2. PICK d \in T : TRUE
    BY <2>1
  <2> DEFINE R == T \ {d}
  <2>3. Cardinality(R) = n /\ R \in SUBSET D /\ T = R \cup {d} /\ d \notin R /\ d \in D
    <3>1. Cardinality(R) = Cardinality(T) - 1
      BY <1>1, <2>2, FS_RemoveElement
    <3> QED
      BY <2>2, <3>1
  <2> HIDE DEF R
  <2>4. R \in S
    BY <1>3, <2>3
  <2> QED
    BY <2>3, <2>4
<1>4. Nat \subseteq N
  <2> HIDE DEF N
  <2> QED
    BY <1>2, <1>3, NatInduct
<1> QED
  BY <1>1, <1>4

\* A vector over the index set D.
Vec(D) == [D -> gf]

\* The sum of f over a part of its domain.
Over(T, f) == Sum([a \in T |-> f[a]])

\* A sum is an element of the field, whatever is added.
LEMMA SumType ==
    /\ \A f : Sum(f) \in gf
    /\ \A T, f : Over(T, f) \in gf
BY DEF Sum, Over, gf

\* The sum over the whole domain is Sum.
LEMMA OverAll == \A D : \A f \in Vec(D) : Over(D, f) = Sum(f)
<1> USE DEF Vec
<1> SUFFICES ASSUME NEW D, NEW f \in Vec(D) PROVE Over(D, f) = Sum(f)
  OBVIOUS
<1>1. f = [a \in D |-> f[a]]
  OBVIOUS
<1> QED
  BY <1>1 DEF Over

\* The sum of nothing is 0.
LEMMA OverEmpty == \A f : Over({}, f) = Zero
<1> SUFFICES ASSUME NEW f PROVE Over({}, f) = Zero
  OBVIOUS
<1> DEFINE g == [a \in {} |-> f[a]]
<1>1. \A e \in Bits : {a \in DOMAIN g : e \in g[a]} = {}
  OBVIOUS
<1>2. Cardinality({}) % 2 = 0
  BY FS_EmptySet
<1> HIDE DEF g
<1>3. Sum(g) = {}
  BY <1>1, <1>2 DEF Sum
<1> QED
  BY <1>3 DEF Over, g, Zero

\* One more term.
LEMMA OverAdd ==
    ASSUME NEW D, NEW f \in Vec(D), NEW T \in SUBSET D, IsFiniteSet(T), NEW d \in D \ T
    PROVE  Over(T \cup {d}, f) = Plus(f[d], Over(T, f))
<1> USE DEF Vec
<1> DEFINE A(e) == {a \in T \cup {d} : e \in f[a]}
           B(e) == {a \in T : e \in f[a]}
<1>1. Over(T \cup {d}, f) = {e \in Bits : Cardinality(A(e)) % 2 = 1}
  <2> DEFINE g == [a \in T \cup {d} |-> f[a]]
  <2>1. DOMAIN g = T \cup {d} /\ \A e : {a \in DOMAIN g : e \in g[a]} = A(e)
    OBVIOUS
  <2> HIDE DEF g, A
  <2>2. Sum(g) = {e \in Bits : Cardinality(A(e)) % 2 = 1}
    BY <2>1 DEF Sum
  <2> QED
    BY <2>2 DEF Over, g
<1>2. Over(T, f) = {e \in Bits : Cardinality(B(e)) % 2 = 1}
  <2> DEFINE g == [a \in T |-> f[a]]
  <2>1. DOMAIN g = T /\ \A e : {a \in DOMAIN g : e \in g[a]} = B(e)
    OBVIOUS
  <2> HIDE DEF g, B
  <2>2. Sum(g) = {e \in Bits : Cardinality(B(e)) % 2 = 1}
    BY <2>1 DEF Sum
  <2> QED
    BY <2>2 DEF Over, g
<1>3. ASSUME NEW e \in Bits
      PROVE  /\ e \in f[d] => (Cardinality(A(e)) % 2 = 1 <=> ~(Cardinality(B(e)) % 2 = 1))
             /\ e \notin f[d] => A(e) = B(e)
  <2>1. B(e) \in SUBSET T /\ IsFiniteSet(B(e))
    BY FS_Subset
  <2>2. CASE e \in f[d]
    <3>1. A(e) = B(e) \cup {d} /\ d \notin B(e)
      BY <2>2
    <3> HIDE DEF A, B
    <3>2. Cardinality(A(e)) = Cardinality(B(e)) + 1
      BY <2>1, <3>1, FS_AddElement
    <3>3. Cardinality(B(e)) \in Nat
      BY <2>1, FS_CardinalityType
    <3> QED
      BY <2>2, <3>2, <3>3
  <2>3. CASE e \notin f[d]
    <3>1. A(e) = B(e)
      BY <2>3
    <3> QED
      BY <2>3, <3>1
  <2> QED
    BY <2>2, <2>3
<1> HIDE DEF A, B
<1>4. f[d] \subseteq Bits
  BY DEF gf
<1> QED
  BY <1>1, <1>2, <1>3, <1>4 DEF Plus

\* The sum of sums of two terms,
LEMMA SumPlus ==
    ASSUME NEW D, IsFiniteSet(D), NEW f \in Vec(D), NEW g \in Vec(D), NEW h \in Vec(D),
           \A a \in D : h[a] = Plus(f[a], g[a])
    PROVE  Sum(h) = Plus(Sum(f), Sum(g))
<1> USE DEF Vec
<1> DEFINE S == {T \in SUBSET D : Over(T, h) = Plus(Over(T, f), Over(T, g))}
<1>1. {} \in S
  BY OverEmpty, PlusZero
<1>2. ASSUME NEW T \in SUBSET D, NEW d \in D, T \in S, d \notin T PROVE T \cup {d} \in S
  <2>1. IsFiniteSet(T)
    BY FS_Subset
  <2>2. /\ Over(T \cup {d}, h) = Plus(h[d], Over(T, h))
        /\ Over(T \cup {d}, f) = Plus(f[d], Over(T, f))
        /\ Over(T \cup {d}, g) = Plus(g[d], Over(T, g))
    BY <1>2, <2>1, OverAdd
  <2>3. Over(T, h) = Plus(Over(T, f), Over(T, g)) /\ h[d] = Plus(f[d], g[d])
    BY <1>2
  <2>4. Plus(Plus(f[d], g[d]), Plus(Over(T, f), Over(T, g)))
        = Plus(Plus(f[d], Over(T, f)), Plus(g[d], Over(T, g)))
    BY PlusShuffle
  <2>5. Over(T \cup {d}, h) = Plus(Over(T \cup {d}, f), Over(T \cup {d}, g))
    BY <2>2, <2>3, <2>4
  <2> QED
    BY <2>5
<1>3. D \in S
  <2> HIDE DEF S
  <2> QED
    BY <1>1, <1>2, SubsetInduct
<1> QED
  BY <1>3, OverAll

\* and of multiples.
LEMMA SumTimes ==
    ASSUME NEW D, IsFiniteSet(D), NEW f \in Vec(D), NEW h \in Vec(D), NEW c \in gf,
           \A a \in D : h[a] = Times(c, f[a])
    PROVE  Sum(h) = Times(c, Sum(f))
<1> USE DEF Vec
<1> DEFINE S == {T \in SUBSET D : Over(T, h) = Times(c, Over(T, f))}
<1>1. {} \in S
  BY OverEmpty, FieldLaws
<1>2. ASSUME NEW T \in SUBSET D, NEW d \in D, T \in S, d \notin T PROVE T \cup {d} \in S
  <2>1. IsFiniteSet(T)
    BY FS_Subset
  <2>2. /\ Over(T \cup {d}, h) = Plus(h[d], Over(T, h))
        /\ Over(T \cup {d}, f) = Plus(f[d], Over(T, f))
    BY <1>2, <2>1, OverAdd
  <2>3. Over(T, h) = Times(c, Over(T, f)) /\ h[d] = Times(c, f[d])
    BY <1>2
  <2>4. Times(c, Plus(f[d], Over(T, f))) = Plus(Times(c, f[d]), Times(c, Over(T, f)))
    BY SumType, Distributes
  <2>5. Over(T \cup {d}, h) = Times(c, Over(T \cup {d}, f))
    BY <2>2, <2>3, <2>4, Zenon
  <2> QED
    BY <2>5
<1>3. D \in S
  <2> HIDE DEF S
  <2> QED
    BY <1>1, <1>2, SubsetInduct
<1> QED
  BY <1>3, OverAll

\* A sum of zeros,
LEMMA SumZero ==
    ASSUME NEW D, NEW h \in Vec(D), \A a \in D : h[a] = Zero
    PROVE  Sum(h) = Zero
<1> USE DEF Vec
<1>1. \A e \in Bits : {a \in DOMAIN h : e \in h[a]} = {}
  BY DEF Zero
<1>2. Cardinality({}) % 2 = 0
  BY FS_EmptySet
<1> QED
  BY <1>1, <1>2 DEF Sum, Zero

\* and a sum of one term that may differ from 0.
LEMMA SumOne ==
    ASSUME NEW D, NEW h \in Vec(D), NEW d \in D, \A a \in D \ {d} : h[a] = Zero
    PROVE  Sum(h) = h[d]
<1> USE DEF Vec
<1>1. h[d] \in gf
  OBVIOUS
<1>2. \A e \in h[d] : {a \in DOMAIN h : e \in h[a]} = {d}
  BY DEF Zero
<1>3. \A e : e \notin h[d] => {a \in DOMAIN h : e \in h[a]} = {}
  BY DEF Zero
<1>4. Cardinality({}) % 2 = 0 /\ Cardinality({d}) % 2 = 1
  <2>1. Cardinality({}) = 0 /\ Cardinality({d}) = 1
    BY FS_EmptySet, FS_Singleton
  <2> QED
    BY <2>1
<1>5. \A e \in Bits : e \in h[d] <=> Cardinality({a \in DOMAIN h : e \in h[a]}) % 2 = 1
  BY <1>2, <1>3, <1>4
<1> QED
  BY <1>1, <1>5 DEF Sum, gf

\* One term taken out.
LEMMA SumSplit ==
    ASSUME NEW D, IsFiniteSet(D), NEW h \in Vec(D), NEW g \in Vec(D), NEW d \in D,
           g[d] = Zero, \A a \in D \ {d} : g[a] = h[a]
    PROVE  Sum(h) = Plus(h[d], Sum(g))
<1> USE DEF Vec
<1> DEFINE f == [a \in D |-> IF a = d THEN h[d] ELSE Zero]
<1>1. f \in [D -> gf] /\ f[d] = h[d] /\ \A a \in D \ {d} : f[a] = Zero
  BY FieldLaws
<1> HIDE DEF f
<1>2. \A a \in D : h[a] = Plus(f[a], g[a])
  BY <1>1, PlusZero
<1>3. Sum(h) = Plus(Sum(f), Sum(g))
  BY <1>1, <1>2, SumPlus
<1>4. Sum(f) = f[d]
  BY <1>1, SumOne
<1> QED
  BY <1>1, <1>3, <1>4

\* The terms of a table summed by rows and by columns.
LEMMA SumSwap ==
    ASSUME NEW D, IsFiniteSet(D), NEW E, IsFiniteSet(E),
           NEW F \in [D -> Vec(E)], NEW G \in [E -> Vec(D)],
           NEW r \in Vec(D), NEW c \in Vec(E),
           \A a \in D, b \in E : G[b][a] = F[a][b],
           \A a \in D : r[a] = Sum(F[a]), \A b \in E : c[b] = Sum(G[b])
    PROVE  Sum(r) = Sum(c)
<1> DEFINE part(T) == [b \in E |-> Over(T, G[b])]
           S == {T \in SUBSET D : Over(T, r) = Sum(part(T))}
<1>1. \A T : part(T) \in Vec(E) /\ \A b \in E : part(T)[b] = Over(T, G[b])
  BY SumType DEF Vec
<1> HIDE DEF part
<1>2. {} \in S
  <2>1. \A b \in E : part({})[b] = Zero
    BY <1>1, OverEmpty
  <2>2. Sum(part({})) = Zero
    BY <1>1, <2>1, SumZero
  <2> QED
    BY <2>2, OverEmpty
<1>3. ASSUME NEW T \in SUBSET D, NEW d \in D, T \in S, d \notin T PROVE T \cup {d} \in S
  <2>1. IsFiniteSet(T)
    BY FS_Subset
  <2>6. d \in D \ T
    BY <1>3
  <2> HIDE DEF S
  <2>2. Over(T \cup {d}, r) = Plus(r[d], Over(T, r))
    BY <2>1, <2>6, OverAdd
  <2>3. ASSUME NEW b \in E PROVE part(T \cup {d})[b] = Plus(F[d][b], part(T)[b])
    <3>1. G[b] \in Vec(D)
      OBVIOUS
    <3> DEFINE gb == G[b]
    <3>2. gb \in Vec(D)
      BY <3>1
    <3> HIDE DEF gb
    <3>3. Over(T \cup {d}, gb) = Plus(gb[d], Over(T, gb))
      BY <2>1, <2>6, <3>2, OverAdd
    <3> USE DEF gb
    <3> QED
      BY <1>1, <3>3
  <2>4. F[d] \in Vec(E) /\ part(T) \in Vec(E) /\ part(T \cup {d}) \in Vec(E)
    BY <1>1
  <2>5. Sum(part(T \cup {d})) = Plus(Sum(F[d]), Sum(part(T)))
    <3> DEFINE x == part(T \cup {d})
               y == F[d]
               z == part(T)
    <3>1. /\ x \in Vec(E) /\ y \in Vec(E) /\ z \in Vec(E)
          /\ \A b \in E : x[b] = Plus(y[b], z[b])
      BY <2>3, <2>4
    <3> HIDE DEF x, y, z
    <3>2. Sum(x) = Plus(Sum(y), Sum(z))
      BY <3>1, SumPlus
    <3> QED
      BY <3>2 DEF x, y, z
  <2> QED
    BY <1>3, <2>2, <2>5 DEF S
<1>4. D \in S
  <2> HIDE DEF S
  <2> QED
    BY <1>2, <1>3, SubsetInduct
<1>5. part(D) = c
  <2>1. \A b \in E : part(D)[b] = c[b]
    BY <1>1, OverAll
  <2> QED
    BY <1>1, <2>1 DEF Vec
<1> QED
  BY <1>4, <1>5, OverAll

\* The same terms under other names.
LEMMA SumRename ==
    ASSUME NEW D, NEW E, IsFiniteSet(E), NEW f \in Vec(D), NEW g \in Vec(E),
           NEW p \in [E -> D], \A a, b \in E : p[a] = p[b] => a = b,
           \A d \in D : \E a \in E : p[a] = d, \A a \in E : g[a] = f[p[a]]
    PROVE  Sum(g) = Sum(f)
<1> USE DEF Vec
<1> DEFINE A(e) == {a \in E : e \in g[a]}
           B(e) == {d \in D : e \in f[d]}
<1>1. ASSUME NEW e \in Bits PROVE Cardinality(B(e)) = Cardinality(A(e))
  <2> DEFINE q == [a \in A(e) |-> p[a]]
  <2>1. q \in [A(e) -> B(e)]
    OBVIOUS
  <2>2. \A a, b \in A(e) : q[a] = q[b] => a = b
    OBVIOUS
  <2>3. \A d \in B(e) : \E a \in A(e) : q[a] = d
    OBVIOUS
  <2>4. IsFiniteSet(A(e))
    <3>1. A(e) \in SUBSET E
      OBVIOUS
    <3> HIDE DEF A
    <3> QED
      BY <3>1, FS_Subset
  <2> HIDE DEF q, A, B
  <2>5. q \in Bijection(A(e), B(e))
    BY <2>1, <2>2, <2>3 DEF Bijection, Injection, Surjection, IsInjective
  <2> QED
    BY <2>4, <2>5, FS_Bijection DEF ExistsBijection
<1>2. /\ \A e : A(e) = {a \in DOMAIN g : e \in g[a]}
      /\ \A e : B(e) = {a \in DOMAIN f : e \in f[a]}
  OBVIOUS
<1> HIDE DEF A, B
<1> QED
  BY <1>1, <1>2 DEF Sum

-----------------------------------------------------------------------------
(* Rows and vectors *)

\* Indices below k; square matrices; the product of two rows term by term, and its sum.
Ix(k) == 0 .. k - 1
Mat(D) == [D -> Vec(D)]
Terms(u, x) == [a \in DOMAIN u |-> Times(u[a], x[a])]
Dot(u, x) == Sum(Terms(u, x))

\* There are k indices below k.
LEMMA IxIs ==
    ASSUME NEW k \in Nat
    PROVE  IsFiniteSet(Ix(k)) /\ Cardinality(Ix(k)) = k
<1>1. /\ IsFiniteSet(0 .. k - 1)
      /\ Cardinality(0 .. k - 1) = IF 0 > k - 1 THEN 0 ELSE (k - 1) - 0 + 1
  BY FS_Interval
<1> QED
  BY <1>1 DEF Ix

\* The entries of a vector are elements of the field.
LEMMA VecAt == \A D : \A u \in Vec(D) : DOMAIN u = D /\ \A a \in D : u[a] \in gf
BY DEF Vec

\* So are the terms and the sum of a product of two vectors.
LEMMA TermsIs ==
    ASSUME NEW D, NEW u \in Vec(D), NEW x \in Vec(D)
    PROVE  /\ Terms(u, x) \in Vec(D)
           /\ \A a \in D : Terms(u, x)[a] = Times(u[a], x[a]) /\ u[a] \in gf /\ x[a] \in gf
           /\ Dot(u, x) \in gf
<1>1. DOMAIN u = D /\ \A a \in D : u[a] \in gf /\ x[a] \in gf
  BY DEF Vec
<1>2. \A a \in D : Times(u[a], x[a]) \in gf
  BY <1>1, FieldLaws
<1>3. Terms(u, x) \in Vec(D) /\ \A a \in D : Terms(u, x)[a] = Times(u[a], x[a])
  BY <1>1, <1>2 DEF Terms, Vec
<1> QED
  BY <1>1, <1>3, SumType DEF Dot

\* Terms with the factor 0 do not matter;
LEMMA DotSame ==
    ASSUME NEW D, NEW u \in Vec(D), NEW x \in Vec(D), NEW y \in Vec(D),
           \A a \in D : u[a] = Zero \/ x[a] = y[a]
    PROVE  Dot(u, x) = Dot(u, y)
<1>1. ASSUME NEW a \in D PROVE Times(u[a], x[a]) = Times(u[a], y[a])
  <2>1. x[a] \in gf /\ y[a] \in gf
    BY VecAt
  <2>2. CASE u[a] = Zero
    BY <2>1, <2>2, TimesZero
  <2>3. CASE x[a] = y[a]
    BY <2>3
  <2> QED
    BY <2>2, <2>3
<1>2. DOMAIN u = D
  BY DEF Vec
<1> QED
  BY <1>1, <1>2 DEF Dot, Terms

\* without any other the sum is 0,
LEMMA DotZero ==
    ASSUME NEW D, NEW u \in Vec(D), NEW x \in Vec(D), \A a \in D : u[a] = Zero \/ x[a] = Zero
    PROVE  Dot(u, x) = Zero
<1>1. \A a \in D : Terms(u, x)[a] = Zero
  <2>1. \A a \in D : u[a] \in gf /\ x[a] \in gf
    BY VecAt
  <2>2. \A a \in D : Terms(u, x)[a] = Times(u[a], x[a])
    BY TermsIs
  <2>3. ASSUME NEW a \in D PROVE Times(u[a], x[a]) = Zero
    BY <2>1, TimesZero
  <2> QED
    BY <2>2, <2>3
<1>2. Terms(u, x) \in Vec(D)
  BY TermsIs
<1> QED
  BY <1>1, <1>2, SumZero DEF Dot

\* with one other it is that term,
LEMMA DotOne ==
    ASSUME NEW D, NEW u \in Vec(D), NEW x \in Vec(D), NEW d \in D,
           \A a \in D \ {d} : u[a] = Zero \/ x[a] = Zero
    PROVE  Dot(u, x) = Times(u[d], x[d])
<1>1. \A a \in D \ {d} : Terms(u, x)[a] = Zero
  <2>1. \A a \in D : u[a] \in gf /\ x[a] \in gf
    BY VecAt
  <2>2. \A a \in D : Terms(u, x)[a] = Times(u[a], x[a])
    BY TermsIs
  <2> QED
    BY <2>1, <2>2, FieldLaws
<1>2. Terms(u, x) \in Vec(D) /\ Terms(u, x)[d] = Times(u[d], x[d])
  BY TermsIs
<1>3. Sum(Terms(u, x)) = Terms(u, x)[d]
  BY <1>1, <1>2, SumOne
<1> QED
  BY <1>2, <1>3 DEF Dot

\* and any term can be taken out.
LEMMA DotSplit ==
    ASSUME NEW D, IsFiniteSet(D), NEW u \in Vec(D), NEW v \in Vec(D), NEW x \in Vec(D),
           NEW d \in D, v[d] = Zero, \A a \in D \ {d} : v[a] = u[a]
    PROVE  Dot(u, x) = Plus(Times(u[d], x[d]), Dot(v, x))
<1> DEFINE h == Terms(u, x)
           g == Terms(v, x)
<1>1. h \in Vec(D) /\ g \in Vec(D) /\ h[d] = Times(u[d], x[d])
  BY TermsIs
<1>2. g[d] = Zero
  BY TermsIs, FieldLaws
<1>3. \A a \in D \ {d} : g[a] = h[a]
  BY TermsIs
<1> HIDE DEF g, h
<1>4. Sum(h) = Plus(h[d], Sum(g))
  BY <1>1, <1>2, <1>3, SumSplit
<1> QED
  BY <1>1, <1>4 DEF Dot, h, g

\* The product of two vectors is linear in the first,
LEMMA DotScale ==
    ASSUME NEW D, IsFiniteSet(D), NEW u \in Vec(D), NEW v \in Vec(D), NEW x \in Vec(D),
           NEW c \in gf, \A a \in D : v[a] = Times(c, u[a])
    PROVE  Dot(v, x) = Times(c, Dot(u, x))
<1> DEFINE f == Terms(u, x)
           h == Terms(v, x)
<1>1. h \in Vec(D) /\ f \in Vec(D)
  BY TermsIs
<1>2. \A a \in D : h[a] = Times(c, f[a])
  <2>1. \A a \in D : u[a] \in gf /\ x[a] \in gf
    BY VecAt
  <2>2. \A a \in D : f[a] = Times(u[a], x[a])
    BY TermsIs
  <2>3. \A a \in D : h[a] = Times(v[a], x[a])
    BY TermsIs
  <2>4. \A a \in D : Times(Times(c, u[a]), x[a]) = Times(c, Times(u[a], x[a]))
    BY <2>1, TimesAssociates
  <2> HIDE DEF f, h
  <2> QED
    BY <2>2, <2>3, <2>4
<1> HIDE DEF f, h
<1>3. Sum(h) = Times(c, Sum(f))
  BY <1>1, <1>2, SumTimes
<1> QED
  BY <1>3 DEF Dot, f, h

\* in both senses,
LEMMA DotPlus ==
    ASSUME NEW D, IsFiniteSet(D), NEW u \in Vec(D), NEW v \in Vec(D), NEW w \in Vec(D),
           NEW x \in Vec(D), \A a \in D : w[a] = Plus(u[a], v[a])
    PROVE  Dot(w, x) = Plus(Dot(u, x), Dot(v, x))
<1> DEFINE f == Terms(u, x)
           g == Terms(v, x)
           h == Terms(w, x)
<1>1. h \in Vec(D) /\ f \in Vec(D) /\ g \in Vec(D)
  BY TermsIs
<1>2. \A a \in D : h[a] = Plus(f[a], g[a])
  BY TermsIs, Distributes
<1> HIDE DEF f, g, h
<1>3. Sum(h) = Plus(Sum(f), Sum(g))
  BY <1>1, <1>2, SumPlus
<1> QED
  BY <1>3 DEF Dot, f, g, h

\* and in the second as well.
LEMMA DotCommutes ==
    \A D : \A u, x \in Vec(D) : Dot(u, x) = Dot(x, u)
<1> SUFFICES ASSUME NEW D, NEW u \in Vec(D), NEW x \in Vec(D) PROVE Dot(u, x) = Dot(x, u)
  OBVIOUS
<1>1. Terms(u, x) \in Vec(D) /\ Terms(x, u) \in Vec(D)
  BY TermsIs
<1>2. \A a \in D : Terms(u, x)[a] = Terms(x, u)[a]
  <2>1. \A a \in D : u[a] \in gf /\ x[a] \in gf
    BY VecAt
  <2>2. \A a \in D : Terms(u, x)[a] = Times(u[a], x[a])
    BY TermsIs
  <2>3. \A a \in D : Terms(x, u)[a] = Times(x[a], u[a])
    BY TermsIs
  <2> QED
    BY <2>1, <2>2, <2>3, FieldLaws
<1>3. Terms(u, x) = Terms(x, u)
  BY <1>1, <1>2 DEF Vec
<1> QED
  BY <1>3 DEF Dot

\* One unknown of an equation, solved for.
LEMMA Solve ==
    ASSUME NEW c \in gf, c # Zero, NEW x \in gf, NEW y \in gf, NEW z \in gf
    PROVE  x = Plus(Times(c, y), z) <=> y = Times(inverse[c], Plus(x, z))
<1> DEFINE ci == inverse[c]
<1>1. ci \in gf /\ Times(ci, c) = One /\ Times(c, ci) = One
  <2>1. ci \in gf /\ Times(ci, c) = One
    BY InverseIs
  <2> HIDE DEF ci
  <2> QED
    BY <2>1, TimesCommutes
<1> HIDE DEF ci
<1>2. Plus(x, z) \in gf
  BY PlusType
<1>3. Times(ci, Times(c, y)) = y
  BY <1>1, FieldLaws
<1>4. Times(c, Times(ci, Plus(x, z))) = Plus(x, z)
  BY <1>1, <1>2, FieldLaws
<1>5. \A p, q, r : p = Plus(q, r) <=> Plus(p, r) = q
  BY DEF Plus
<1>6. x = Plus(Times(c, y), z) <=> Plus(x, z) = Times(c, y)
  BY <1>5
<1>7. y = Times(ci, Plus(x, z)) <=> Plus(x, z) = Times(c, y)
  BY <1>3, <1>4
<1> QED
  BY <1>6, <1>7 DEF ci

-----------------------------------------------------------------------------
(* invert_mat: a round *)

\* What Eliminate leaves in the pivot's row and in the others.
LEMMA EliminateIs ==
    ASSUME NEW D, NEW src \in Mat(D), NEW d \in D, src[d][d] # Zero
    PROVE  LET e == Eliminate(src, d)
           IN  /\ e \in Mat(D)
               /\ e[d][d] = Times(inverse[src[d][d]], One)
               /\ \A a \in D \ {d} : e[d][a] = Times(inverse[src[d][d]], src[d][a])
               /\ \A r \in D \ {d} : e[r][d] = Plus(Zero, Times(src[r][d], e[d][d]))
               /\ \A r, a \in D \ {d} :
                      e[r][a] = Plus(src[r][a], Times(src[r][d], e[d][a]))
<1> DEFINE c == src[d][d]
           divided == [src[d] EXCEPT ![d] = One]
           pivotRow == [a \in DOMAIN divided |-> Times(inverse[c], divided[a])]
           other(r) == [a \in DOMAIN [src[r] EXCEPT ![d] = Zero] |->
                           Plus([src[r] EXCEPT ![d] = Zero][a], Times(src[r][d], pivotRow[a]))]
           e == Eliminate(src, d)
<1>1. e = [r \in DOMAIN src |-> IF r = d THEN pivotRow ELSE other(r)]
  BY DEF Eliminate, addmul, Times
<1>2. DOMAIN src = D /\ \A r \in D : src[r] \in [D -> gf]
  BY DEF Mat, Vec
<1>3. c \in gf /\ inverse[c] \in gf
  BY <1>2, InverseIs
<1>4. divided \in [D -> gf] /\ divided[d] = One /\ \A a \in D \ {d} : divided[a] = src[d][a]
  BY <1>2, FieldLaws
<1> HIDE DEF c, divided
<1>5. pivotRow \in [D -> gf] /\ \A a \in D : pivotRow[a] = Times(inverse[c], divided[a])
  BY <1>3, <1>4, FieldLaws
<1> HIDE DEF pivotRow
<1>6. ASSUME NEW r \in D
      PROVE  /\ other(r) \in [D -> gf]
             /\ other(r)[d] = Plus(Zero, Times(src[r][d], pivotRow[d]))
             /\ \A a \in D \ {d} :
                    other(r)[a] = Plus(src[r][a], Times(src[r][d], pivotRow[a]))
  <2> DEFINE z == [src[r] EXCEPT ![d] = Zero]
  <2>1. z \in [D -> gf] /\ z[d] = Zero /\ \A a \in D \ {d} : z[a] = src[r][a]
    BY <1>2, FieldLaws
  <2>2. src[r][d] \in gf
    BY <1>2
  <2> HIDE DEF z
  <2>3. \A a \in D : Plus(z[a], Times(src[r][d], pivotRow[a])) \in gf
    BY <1>5, <2>1, <2>2, FieldLaws, PlusType
  <2>4. other(r) = [a \in D |-> Plus(z[a], Times(src[r][d], pivotRow[a]))]
    BY <2>1 DEF z
  <2> HIDE DEF other
  <2> QED
    BY <2>1, <2>3, <2>4
<1> HIDE DEF other, e
<1>7. e = [r \in D |-> IF r = d THEN pivotRow ELSE other(r)]
  BY <1>1, <1>2
<1>8. e[d] = pivotRow /\ \A r \in D \ {d} : e[r] = other(r)
  BY <1>7
<1>9. e \in Mat(D)
  BY <1>5, <1>6, <1>7 DEF Mat, Vec
<1>10. /\ e[d][d] = Times(inverse[c], One)
       /\ \A a \in D \ {d} : e[d][a] = Times(inverse[c], src[d][a])
  BY <1>4, <1>5, <1>8
<1>11. /\ \A r \in D \ {d} : e[r][d] = Plus(Zero, Times(src[r][d], e[d][d]))
       /\ \A r, a \in D \ {d} : e[r][a] = Plus(src[r][a], Times(src[r][d], e[d][a]))
  BY <1>6, <1>8
<1> QED
  BY <1>9, <1>10, <1>11 DEF c, e

\* A round exchanges an unknown with a right-hand side, and nothing else.
LEMMA EliminateSolves ==
    ASSUME NEW D, IsFiniteSet(D), NEW src \in Mat(D), NEW d \in D, src[d][d] # Zero,
           NEW v \in Vec(D), NEW w \in Vec(D), NEW v2 \in Vec(D), NEW w2 \in Vec(D),
           v2[d] = w[d], w2[d] = v[d], \A a \in D \ {d} : v2[a] = v[a] /\ w2[a] = w[a]
    PROVE  (\A r \in D : v[r] = Dot(src[r], w))
           <=> (\A r \in D : v2[r] = Dot(Eliminate(src, d)[r], w2))
<1> DEFINE e == Eliminate(src, d)
           c == src[d][d]
           rest(r) == [src[r] EXCEPT ![d] = Zero]
           R(r) == Dot(rest(r), w)
<1>1. /\ e \in Mat(D)
      /\ e[d][d] = Times(inverse[c], One)
      /\ \A a \in D \ {d} : e[d][a] = Times(inverse[c], src[d][a])
      /\ \A r \in D \ {d} : e[r][d] = Plus(Zero, Times(src[r][d], e[d][d]))
      /\ \A r, a \in D \ {d} : e[r][a] = Plus(src[r][a], Times(src[r][d], e[d][a]))
  BY EliminateIs
<1>2. \A r \in D : src[r] \in Vec(D) /\ e[r] \in Vec(D)
  BY <1>1 DEF Mat
<1>3. \A r \in D : src[r][d] \in gf /\ v[r] \in gf /\ w[r] \in gf /\ c \in gf
  BY <1>2 DEF Vec
<1>4. inverse[c] \in gf
  BY <1>3, InverseIs
<1>5. ASSUME NEW r \in D
      PROVE  /\ rest(r) \in Vec(D) /\ rest(r)[d] = Zero
             /\ \A a \in D \ {d} : rest(r)[a] = src[r][a]
  BY <1>2, FieldLaws DEF Vec
<1> HIDE DEF e, c, rest
<1>6. ASSUME NEW r \in D
      PROVE  /\ R(r) \in gf /\ Dot(rest(r), w2) = R(r)
             /\ Dot(src[r], w) = Plus(Times(src[r][d], w[d]), R(r))
  <2>1. R(r) \in gf
    BY <1>5, TermsIs
  <2> DEFINE z == rest(r)
             s == src[r]
  <2>2. z \in Vec(D) /\ s \in Vec(D) /\ z[d] = Zero /\ \A a \in D \ {d} : z[a] = s[a]
    BY <1>2, <1>5
  <2> HIDE DEF z, s
  <2>3. \A a \in D : z[a] = Zero \/ w2[a] = w[a]
    BY <2>2
  <2>4. Dot(z, w2) = Dot(z, w)
    BY <2>2, <2>3, DotSame
  <2>5. Dot(s, w) = Plus(Times(s[d], w[d]), Dot(z, w))
    BY <2>2, DotSplit
  <2> QED
    BY <2>1, <2>4, <2>5 DEF z, s
<1>7. Dot(e[d], w2) = Times(inverse[c], Plus(v[d], R(d)))
  <2> DEFINE u == [src[d] EXCEPT ![d] = One]
             z == rest(d)
             p == e[d]
  <2>1. u \in Vec(D) /\ u[d] = One /\ \A a \in D \ {d} : u[a] = src[d][a]
    BY <1>2, FieldLaws DEF Vec
  <2>2. z \in Vec(D) /\ z[d] = Zero /\ \A a \in D \ {d} : z[a] = src[d][a]
    BY <1>5
  <2>3. p \in Vec(D)
    BY <1>2
  <2>4. \A a \in D : p[a] = Times(inverse[c], u[a])
    BY <1>1, <2>1
  <2> HIDE DEF u, z, p
  <2>5. Dot(p, w2) = Times(inverse[c], Dot(u, w2))
    BY <1>4, <2>1, <2>3, <2>4, DotScale
  <2>6. \A a \in D \ {d} : z[a] = u[a]
    BY <2>1, <2>2
  <2>7. Dot(u, w2) = Plus(Times(u[d], w2[d]), Dot(z, w2))
    BY <2>1, <2>2, <2>6, DotSplit
  <2>8. Times(u[d], w2[d]) = v[d]
    BY <1>3, <2>1, FieldLaws
  <2>9. Dot(z, w2) = R(d)
    BY <1>6 DEF z
  <2> QED
    BY <2>5, <2>7, <2>8, <2>9 DEF p
<1>8. ASSUME NEW r \in D \ {d}
      PROVE  Dot(e[r], w2) = Plus(R(r), Times(src[r][d], Dot(e[d], w2)))
  <2> DEFINE z == rest(r)
             p == e[d]
             q == e[r]
             b == src[r][d]
             bp == [a \in D |-> Times(b, p[a])]
  <2>1. z \in Vec(D) /\ z[d] = Zero /\ \A a \in D \ {d} : z[a] = src[r][a]
    BY <1>5
  <2>2. p \in Vec(D) /\ q \in Vec(D) /\ b \in gf
    BY <1>2, <1>3
  <2>3. /\ q[d] = Plus(Zero, Times(b, p[d]))
        /\ \A a \in D \ {d} : q[a] = Plus(src[r][a], Times(b, p[a]))
    BY <1>1
  <2> HIDE DEF z, p, q, b
  <2>4. bp \in Vec(D) /\ \A a \in D : bp[a] = Times(b, p[a])
    BY <2>2, FieldLaws DEF Vec
  <2> HIDE DEF bp
  <2>5. \A a \in D : q[a] = Plus(z[a], bp[a])
    BY <2>1, <2>3, <2>4
  <2>6. Dot(q, w2) = Plus(Dot(z, w2), Dot(bp, w2))
    BY <2>1, <2>2, <2>4, <2>5, DotPlus
  <2>7. Dot(bp, w2) = Times(b, Dot(p, w2))
    BY <2>2, <2>4, DotScale
  <2>8. Dot(z, w2) = R(r)
    BY <1>6 DEF z
  <2> QED
    BY <2>6, <2>7, <2>8 DEF p, q, b
<1> HIDE DEF R
<1>9. v[d] = Dot(src[d], w) <=> v2[d] = Dot(e[d], w2)
  <2>1. v[d] = Plus(Times(c, w[d]), R(d)) <=> w[d] = Times(inverse[c], Plus(v[d], R(d)))
    BY <1>3, <1>6, Solve DEF c
  <2>2. Dot(src[d], w) = Plus(Times(c, w[d]), R(d))
    BY <1>6 DEF c
  <2> QED
    BY <1>7, <2>1, <2>2
<1>10. ASSUME v2[d] = Dot(e[d], w2), NEW r \in D \ {d}
       PROVE  Dot(src[r], w) = Dot(e[r], w2)
  <2>1. Dot(e[r], w2) = Plus(R(r), Times(src[r][d], w[d]))
    BY <1>8, <1>10
  <2>2. Dot(src[r], w) = Plus(Times(src[r][d], w[d]), R(r))
    BY <1>6
  <2> QED
    BY <2>1, <2>2, PlusCommutes
<1>11. (\A r \in D : v[r] = Dot(src[r], w)) <=> (\A r \in D : v2[r] = Dot(e[r], w2))
  BY <1>9, <1>10
<1> QED
  BY <1>11 DEF e

-----------------------------------------------------------------------------
(* invert_mat: exchanges of rows and columns *)

\* p is a permutation of D.
Permutes(p, D) ==
    /\ p \in [D -> D]
    /\ \A a, b \in D : p[a] = p[b] => a = b
    /\ \A d \in D : \E a \in D : p[a] = d

\* What an exchange does.
LEMMA SwappedAt ==
    ASSUME NEW f, NEW a \in DOMAIN f, NEW b \in DOMAIN f
    PROVE  /\ DOMAIN Swapped(f, a, b) = DOMAIN f
           /\ Swapped(f, a, b)[a] = f[b] /\ Swapped(f, a, b)[b] = f[a]
           /\ \A d \in DOMAIN f \ {a, b} : Swapped(f, a, b)[d] = f[d]
BY DEF Swapped

\* It keeps the type,
LEMMA SwappedType ==
    ASSUME NEW D, NEW V, NEW f \in [D -> V], NEW a \in D, NEW b \in D
    PROVE  Swapped(f, a, b) \in [D -> V]
BY DEF Swapped

\* and makes a permutation of a permutation.
LEMMA SwappedPermutes ==
    ASSUME NEW D, NEW p, Permutes(p, D), NEW a \in D, NEW b \in D
    PROVE  Permutes(Swapped(p, a, b), D)
<1> DEFINE q == Swapped(p, a, b)
<1>1. p \in [D -> D]
  BY DEF Permutes
<1>2. q \in [D -> D] /\ q[a] = p[b] /\ q[b] = p[a] /\ \A d \in D \ {a, b} : q[d] = p[d]
  <2>1. DOMAIN p = D
    BY <1>1
  <2>2. q \in [D -> D]
    BY <1>1, SwappedType
  <2>3. /\ Swapped(p, a, b)[a] = p[b] /\ Swapped(p, a, b)[b] = p[a]
        /\ \A d \in DOMAIN p \ {a, b} : Swapped(p, a, b)[d] = p[d]
    BY <2>1, SwappedAt
  <2> QED
    BY <2>1, <2>2, <2>3
<1> HIDE DEF q
<1>3. \A c, d \in D : p[c] = p[d] => c = d
  BY DEF Permutes
<1>4. ASSUME NEW c \in D, NEW d \in D, q[c] = q[d] PROVE c = d
  <2>1. CASE c \in {a, b} /\ d \in {a, b}
    BY <1>2, <1>3, <1>4, <2>1
  <2>2. CASE c \notin {a, b} /\ d \in {a, b}
    BY <1>2, <1>3, <1>4, <2>2
  <2>3. CASE c \in {a, b} /\ d \notin {a, b}
    BY <1>2, <1>3, <1>4, <2>3
  <2>4. CASE c \notin {a, b} /\ d \notin {a, b}
    BY <1>2, <1>3, <1>4, <2>4
  <2> QED
    BY <2>1, <2>2, <2>3, <2>4
<1>5. ASSUME NEW d \in D PROVE \E c \in D : q[c] = d
  <2>1. PICK c \in D : p[c] = d
    BY DEF Permutes
  <2> QED
    BY <1>2, <2>1
<1> QED
  BY <1>2, <1>4, <1>5 DEF Permutes, q

\* The columns of a matrix exchanged.
ColumnsSwapped(B, D, p) == [r \in D |-> Swapped(B[r], p[1], p[2])]

\* Exchanging two columns leaves a matrix.
LEMMA ColumnsSwappedType ==
    ASSUME NEW D, NEW B \in Mat(D), NEW p \in D \X D
    PROVE  ColumnsSwapped(B, D, p) \in Mat(D)
<1>1. p[1] \in D /\ p[2] \in D
  OBVIOUS
<1>2. ASSUME NEW r \in D PROVE Swapped(B[r], p[1], p[2]) \in [D -> gf]
  <2> DEFINE b == B[r]
             c == p[1]
             d == p[2]
  <2>1. b \in [D -> gf] /\ c \in D /\ d \in D
    BY DEF Mat, Vec
  <2> HIDE DEF b, c, d
  <2>2. Swapped(b, c, d) \in [D -> gf]
    BY <2>1, SwappedType
  <2> QED
    BY <2>2 DEF b, c, d
<1> QED
  BY <1>2 DEF ColumnsSwapped, Mat, Vec

\* The run of SwapBack: f[t] is the matrix after the last t exchanges were undone.
BackRun(f, B, D, sw) ==
    /\ f \in [0 .. Len(sw) -> Mat(D)]
    /\ f[0] = B
    /\ \A t \in 1 .. Len(sw) : f[t] = ColumnsSwapped(f[t - 1], D, sw[Len(sw) - t + 1])

\* The recursion of SwapBack runs through.
LEMMA SwapBackRuns ==
    ASSUME NEW D, NEW B \in Mat(D), NEW sw \in Seq(D \X D)
    PROVE  \E f : BackRun(f, B, D, sw) /\ SwapBack(B, sw) = f[Len(sw)]
<1> DEFINE n == Len(sw)
           Is(f) == f = [t \in 0 .. n |->
                            IF t = 0 THEN B
                            ELSE LET p == sw[n - t + 1] IN
                                 [r \in DOMAIN B |-> Swapped(f[t - 1][r], p[1], p[2])]]
           back == CHOOSE f : Is(f)
           H == [z \in Mat(D) \X Nat |->
                    IF z[2] \in 1 .. n THEN ColumnsSwapped(z[1], D, sw[n - z[2] + 1]) ELSE z[1]]
<1>1. SwapBack(B, sw) = back[n]
  BY DEF SwapBack
<1>2. n \in Nat /\ DOMAIN B = D /\ \A t \in 1 .. n : sw[t] \in D \X D
  BY DEF Mat
<1> HIDE DEF n
<1>3. H \in Steps(Mat(D))
  <2>1. ASSUME NEW z \in Mat(D) \X Nat PROVE H[z] \in Mat(D)
    <3>1. z[1] \in Mat(D) /\ z[2] \in Nat
      OBVIOUS
    <3>2. CASE z[2] \in 1 .. n
      <4>1. n - z[2] + 1 \in 1 .. n
        BY <1>2, <3>2
      <4>2. sw[n - z[2] + 1] \in D \X D
        BY <1>2, <4>1
      <4>3. ColumnsSwapped(z[1], D, sw[n - z[2] + 1]) \in Mat(D)
        BY <3>1, <4>2, ColumnsSwappedType
      <4> QED
        BY <3>2, <4>3
    <3>3. CASE z[2] \notin 1 .. n
      BY <3>1, <3>3
    <3> QED
      BY <3>2, <3>3
  <2>2. H = [z \in Mat(D) \X Nat |-> H[z]]
    OBVIOUS
  <2> HIDE DEF H
  <2> QED
    BY <2>1, <2>2 DEF Steps
<1>4. \A b \in Mat(D), t \in Nat :
          t \in 1 .. n => H[<<b, t>>] = ColumnsSwapped(b, D, sw[n - t + 1])
  OBVIOUS
<1> HIDE DEF H
<1>5. PICK f : IsRun(f, Mat(D), B, H, n)
  BY <1>2, <1>3, RunExists
<1>6. f \in [0 .. n -> Mat(D)] /\ f[0] = B
  BY <1>5 DEF IsRun
<1>7. ASSUME NEW t \in 1 .. n PROVE f[t] = ColumnsSwapped(f[t - 1], D, sw[n - t + 1])
  <2>1. f[t] = H[<<f[t - 1], t>>]
    BY <1>5 DEF IsRun
  <2>2. f[t - 1] \in Mat(D) /\ t \in Nat
    BY <1>2, <1>6
  <2> QED
    BY <1>4, <2>1, <2>2
<1>8. Is(f)
  <2>1. ASSUME NEW t \in 0 .. n
        PROVE  f[t] = IF t = 0 THEN B
                      ELSE LET p == sw[n - t + 1] IN
                           [r \in DOMAIN B |-> Swapped(f[t - 1][r], p[1], p[2])]
    <3>1. CASE t = 0
      BY <1>6, <3>1
    <3>2. CASE t # 0
      <4>1. t \in 1 .. n
        BY <1>2, <3>2
      <4> QED
        BY <1>2, <1>7, <3>2, <4>1 DEF ColumnsSwapped
    <3> QED
      BY <3>1, <3>2
  <2>2. f = [t \in 0 .. n |-> f[t]]
    BY <1>6
  <2> QED
    BY <2>1, <2>2
<1>9. Is(back)
  <2> HIDE DEF Is
  <2> QED
    BY <1>8
<1>10. /\ DOMAIN back = 0 .. n
       /\ back[0] = B
       /\ \A t \in 1 .. n : back[t] = ColumnsSwapped(back[t - 1], D, sw[n - t + 1])
  <2> HIDE DEF back
  <2>1. DOMAIN back = 0 .. n /\ back[0] = B
    BY <1>2, <1>9
  <2>2. ASSUME NEW t \in 1 .. n
        PROVE  back[t] = ColumnsSwapped(back[t - 1], D, sw[n - t + 1])
    <3>1. t \in 0 .. n /\ t # 0
      BY <1>2
    <3>2. back[t] = [r \in DOMAIN B |-> Swapped(back[t - 1][r], sw[n - t + 1][1], sw[n - t + 1][2])]
      BY <1>9, <3>1
    <3> QED
      BY <1>2, <3>2 DEF ColumnsSwapped
  <2> QED
    BY <2>1, <2>2
<1> HIDE DEF back, Is
<1> DEFINE S == {t \in Nat : t <= n => back[t] = f[t]}
<1>11. 0 \in S
  BY <1>6, <1>10
<1>12. ASSUME NEW t \in Nat, t \in S PROVE t + 1 \in S
  <2> SUFFICES ASSUME t + 1 <= n PROVE back[t + 1] = f[t + 1]
    OBVIOUS
  <2>1. t + 1 \in 1 .. n /\ (t + 1) - 1 = t /\ back[t] = f[t]
    BY <1>2, <1>12
  <2> QED
    BY <1>7, <1>10, <2>1
<1>13. Nat \subseteq S
  <2> HIDE DEF S
  <2> QED
    BY <1>11, <1>12, NatInduct
<1>14. back[n] = f[n]
  BY <1>2, <1>13
<1>15. BackRun(f, B, D, sw)
  BY <1>6, <1>7 DEF BackRun, n
<1> QED
  BY <1>1, <1>14, <1>15 DEF n

\* The last exchange is undone first.
LEMMA SwapBackLast ==
    ASSUME NEW D, NEW B \in Mat(D), NEW sw \in Seq(D \X D), NEW p \in D \X D
    PROVE  SwapBack(B, Append(sw, p)) = SwapBack(ColumnsSwapped(B, D, p), sw)
<1> DEFINE n == Len(sw)
           sp == Append(sw, p)
           C == ColumnsSwapped(B, D, p)
<1>1. /\ sp \in Seq(D \X D) /\ Len(sp) = n + 1 /\ n \in Nat
      /\ sp[n + 1] = p /\ \A t \in 1 .. n : sp[t] = sw[t]
  OBVIOUS
<1>2. C \in Mat(D)
  BY ColumnsSwappedType
<1>3. PICK f : BackRun(f, C, D, sw) /\ SwapBack(C, sw) = f[Len(sw)]
  BY <1>2, SwapBackRuns
<1> HIDE DEF sp
<1>4. PICK g : BackRun(g, B, D, sp) /\ SwapBack(B, sp) = g[Len(sp)]
  <2>1. sp \in Seq(D \X D)
    BY <1>1
  <2> HIDE DEF n
  <2> QED
    BY <2>1, SwapBackRuns, Zenon
<1>5. \A t \in 1 .. n : f[t] = ColumnsSwapped(f[t - 1], D, sw[n - t + 1])
  BY <1>3 DEF BackRun
<1>6. \A t \in 1 .. n + 1 : g[t] = ColumnsSwapped(g[t - 1], D, sp[(n + 1) - t + 1])
  BY <1>1, <1>4 DEF BackRun
<1>7. f[0] = C /\ g[0] = B
  BY <1>3, <1>4 DEF BackRun
<1> HIDE DEF n
<1> DEFINE S == {t \in Nat : t <= n => g[t + 1] = f[t]}
<1>8. 0 \in S
  <2>1. 1 \in 1 .. n + 1 /\ (n + 1) - 1 + 1 = n + 1 /\ 1 - 1 = 0
    BY <1>1
  <2>2. g[1] = C
    BY <1>1, <1>6, <1>7, <2>1
  <2> QED
    BY <1>7, <2>2
<1>9. ASSUME NEW t \in Nat, t \in S PROVE t + 1 \in S
  <2> SUFFICES ASSUME t + 1 <= n PROVE g[(t + 1) + 1] = f[t + 1]
    OBVIOUS
  <2>1. /\ t + 1 \in 1 .. n /\ (t + 1) + 1 \in 1 .. n + 1 /\ (t + 1) - 1 = t
        /\ ((t + 1) + 1) - 1 = t + 1 /\ (n + 1) - ((t + 1) + 1) + 1 = n - (t + 1) + 1
        /\ n - (t + 1) + 1 \in 1 .. n
    BY <1>1
  <2>2. g[t + 1] = f[t]
    BY <1>1, <1>9, <2>1
  <2>3. g[(t + 1) + 1] = ColumnsSwapped(g[t + 1], D, sp[n - (t + 1) + 1])
    BY <1>6, <2>1
  <2>4. f[t + 1] = ColumnsSwapped(f[t], D, sw[n - (t + 1) + 1])
    BY <1>5, <2>1
  <2> QED
    BY <1>1, <2>1, <2>2, <2>3, <2>4
<1>10. Nat \subseteq S
  <2> HIDE DEF S
  <2> QED
    BY <1>8, <1>9, NatInduct
<1>11. g[n + 1] = f[n]
  BY <1>1, <1>10
<1> QED
  BY <1>1, <1>3, <1>4, <1>11 DEF sp, n

-----------------------------------------------------------------------------
(* invert_mat: all rounds *)

\* The states of invert_mat.
States(D) == [src : Mat(D), used : SUBSET D, swaps : Seq(D \X D), error : BOOLEAN]

\* x where a column was used, y elsewhere.
Mix(U, x, y) == [a \in DOMAIN x |-> IF a \in U THEN x[a] ELSE y[a]]

\* The system y = m x, its rows in the order p, with the unknowns of the used columns
\* exchanged for the right-hand sides.
Solved(m, p, s, D) ==
    \A x, y \in Vec(D) :
        (\A r \in D : y[r] = Dot(m[p[r]], x))
        <=> (\A r \in D : Mix(s.used, x, y)[r] = Dot(s.src[r], Mix(s.used, y, x)))

\* Undoing the exchanges moves column a to where its row came from.
PutsBack(p, s, D) ==
    \A B \in Mat(D) : \A r, a \in D : SwapBack(B, s.swaps)[r][p[a]] = B[r][a]

\* Some order of the rows fits both.
Progress(m, s, D) == \E p : Permutes(p, D) /\ Solved(m, p, s, D) /\ PutsBack(p, s, D)

\* A matrix that takes a vector other than 0 to 0.
Singular(m, D) == \E x \in Vec(D) : (\E a \in D : x[a] # Zero) /\ \A r \in D : Dot(m[r], x) = Zero

\* The entries of a mixed vector.
LEMMA MixIs ==
    ASSUME NEW D, NEW U, NEW x \in Vec(D), NEW y \in Vec(D)
    PROVE  /\ Mix(U, x, y) \in Vec(D)
           /\ \A a \in D : a \in U => Mix(U, x, y)[a] = x[a]
           /\ \A a \in D : a \notin U => Mix(U, x, y)[a] = y[a]
BY DEF Mix, Vec

\* The search finds a pivot when there is one.
LEMMA PivotFound ==
    ASSUME NEW k \in Nat, NEW s \in States(Ix(k)), NEW col, Pivots(s, k) # {}
    PROVE  /\ FindPivot(s, col, k) \in Pivots(s, k)
           /\ FindPivot(s, col, k) \in (Ix(k) \ s.used) \X (Ix(k) \ s.used)
<1> DEFINE found == Pivots(s, k)
<1>1. found \subseteq (Ix(k) \ s.used) \X (Ix(k) \ s.used)
  BY DEF Pivots, Ix
<1>2. found \subseteq Nat \X Nat
  BY <1>1 DEF Ix
<1> HIDE DEF found
<1> DEFINE R == {r \in Nat : \E q \in found : q[1] = r}
<1>3. R \in SUBSET Nat /\ R # {}
  BY <1>2 DEF found
<1>4. PICK r \in R : \A y \in R : r <= y
  <2> HIDE DEF R
  <2> QED
    BY <1>3, NatMin
<1> DEFINE C == {c \in Nat : \E q \in found : q[1] = r /\ q[2] = c}
<1>5. C \in SUBSET Nat /\ C # {}
  BY <1>2, <1>4
<1>6. PICK c \in C : \A y \in C : c <= y
  <2> HIDE DEF C
  <2> QED
    BY <1>5, NatMin
<1>7. PICK p \in found : p[1] = r /\ p[2] = c
  BY <1>6
<1>8. \A q \in found : p[1] < q[1] \/ (p[1] = q[1] /\ p[2] <= q[2])
  <2> SUFFICES ASSUME NEW q \in found PROVE p[1] < q[1] \/ (p[1] = q[1] /\ p[2] <= q[2])
    OBVIOUS
  <2>1. q[1] \in Nat /\ q[2] \in Nat /\ p[1] \in Nat /\ p[2] \in Nat
    BY <1>2
  <2>2. q[1] \in R /\ r <= q[1]
    BY <1>4, <2>1
  <2>3. CASE q[1] = r
    <3>1. q[2] \in C
      BY <2>1, <2>3
    <3>2. c <= q[2]
      BY <1>6, <3>1
    <3> QED
      BY <1>7, <2>3, <3>2
  <2>4. CASE q[1] # r
    <3> HIDE DEF R, C
    <3> QED
      BY <1>7, <2>1, <2>2, <2>4
  <2> QED
    BY <2>3, <2>4
<1> HIDE DEF R, C
<1>9. FindPivot(s, col, k) = IF <<col, col>> \in found THEN <<col, col>>
        ELSE CHOOSE z \in found : \A q \in found : z[1] < q[1] \/ (z[1] = q[1] /\ z[2] <= q[2])
  BY DEF FindPivot, found
<1>10. FindPivot(s, col, k) \in found
  <2>1. CASE <<col, col>> \in found
    BY <1>9, <2>1
  <2>2. CASE <<col, col>> \notin found
    <3>1. (CHOOSE z \in found : \A q \in found : z[1] < q[1] \/ (z[1] = q[1] /\ z[2] <= q[2]))
          \in found
      BY <1>8
    <3> QED
      BY <1>9, <2>2, <3>1
  <2> QED
    BY <2>1, <2>2
<1> QED
  BY <1>1, <1>10 DEF found

\* Rows exchanged together with the order of the equations.
LEMMA SolvedSwap ==
    ASSUME NEW D, NEW m \in Mat(D), NEW p, Permutes(p, D), NEW s \in States(D),
           Solved(m, p, s, D), NEW a \in D \ s.used, NEW b \in D \ s.used
    PROVE  \A x, y \in Vec(D) :
               (\A r \in D : y[r] = Dot(m[Swapped(p, a, b)[r]], x))
               <=> (\A r \in D : Mix(s.used, x, y)[r]
                                 = Dot(Swapped(s.src, a, b)[r], Mix(s.used, y, x)))
<1> SUFFICES ASSUME NEW x \in Vec(D), NEW y \in Vec(D)
             PROVE  (\A r \in D : y[r] = Dot(m[Swapped(p, a, b)[r]], x))
                    <=> (\A r \in D : Mix(s.used, x, y)[r]
                                 = Dot(Swapped(s.src, a, b)[r], Mix(s.used, y, x)))
  OBVIOUS
<1> DEFINE U == s.used
           z == Swapped(y, a, b)
           q == Swapped(p, a, b)
           e == Swapped(s.src, a, b)
           xy == Mix(U, x, y)
           xz == Mix(U, x, z)
           yx == Mix(U, y, x)
           zx == Mix(U, z, x)
<1>1. /\ z \in Vec(D) /\ z[a] = y[b] /\ z[b] = y[a]
      /\ \A d \in D \ {a, b} : z[d] = y[d]
  <2>1. y \in [D -> gf] /\ DOMAIN y = D
    BY DEF Vec
  <2>2. z \in [D -> gf]
    BY <2>1, SwappedType
  <2>3. /\ z[a] = y[b] /\ z[b] = y[a]
        /\ \A d \in D \ {a, b} : z[d] = y[d]
    BY <2>1, SwappedAt
  <2> QED
    BY <2>2, <2>3 DEF Vec
<1>2. /\ q[a] = p[b] /\ q[b] = p[a]
      /\ \A d \in D \ {a, b} : q[d] = p[d]
  <2>1. DOMAIN p = D
    BY DEF Permutes
  <2> QED
    BY <2>1, SwappedAt
<1>3. s.src \in Mat(D) /\ a \in D /\ b \in D /\ a \notin U /\ b \notin U
  BY DEF States
<1>4. /\ e[a] = s.src[b] /\ e[b] = s.src[a]
      /\ \A d \in D \ {a, b} : e[d] = s.src[d]
  <2> DEFINE f == s.src
  <2>1. DOMAIN f = D /\ a \in D /\ b \in D
    BY <1>3 DEF Mat
  <2>2. e = Swapped(f, a, b)
    OBVIOUS
  <2> HIDE DEF f, e
  <2>3. /\ Swapped(f, a, b)[a] = f[b] /\ Swapped(f, a, b)[b] = f[a]
        /\ \A d \in DOMAIN f \ {a, b} : Swapped(f, a, b)[d] = f[d]
    BY <2>1, SwappedAt
  <2> QED
    BY <2>1, <2>2, <2>3 DEF f
<1> HIDE DEF z, q, e
<1>5. /\ \A d \in D : d \in U => xy[d] = x[d] /\ xz[d] = x[d] /\ yx[d] = y[d] /\ zx[d] = z[d]
      /\ \A d \in D : d \notin U => xy[d] = y[d] /\ xz[d] = z[d] /\ yx[d] = x[d] /\ zx[d] = x[d]
      /\ yx \in Vec(D) /\ zx \in Vec(D)
  BY <1>1 DEF Mix, Vec
<1>6. zx = yx
  <2>1. \A d \in D : zx[d] = yx[d]
    BY <1>1, <1>3, <1>5
  <2> QED
    BY <1>5, <2>1 DEF Vec
<1>7. (\A r \in D : z[r] = Dot(m[p[r]], x)) <=> (\A r \in D : xz[r] = Dot(s.src[r], zx))
  BY <1>1 DEF Solved
<1> HIDE DEF xy, xz, yx, zx
<1>8. (\A r \in D : y[r] = Dot(m[q[r]], x)) <=> (\A r \in D : z[r] = Dot(m[p[r]], x))
  BY <1>1, <1>2
<1>9. (\A r \in D : xz[r] = Dot(s.src[r], zx)) <=> (\A r \in D : xy[r] = Dot(e[r], yx))
  BY <1>1, <1>3, <1>4, <1>5, <1>6
<1>10. (\A r \in D : y[r] = Dot(m[q[r]], x)) <=> (\A r \in D : xy[r] = Dot(e[r], yx))
  BY <1>7, <1>8, <1>9
<1> QED
  BY <1>10 DEF xy, yx, q, e, U

\* A pivot eliminated.
LEMMA MixEliminate ==
    ASSUME NEW D, IsFiniteSet(D), NEW src \in Mat(D), NEW U, NEW d \in D, d \notin U,
           src[d][d] # Zero, NEW x \in Vec(D), NEW y \in Vec(D)
    PROVE  (\A r \in D : Mix(U, x, y)[r] = Dot(src[r], Mix(U, y, x)))
           <=> (\A r \in D : Mix(U \cup {d}, x, y)[r]
                             = Dot(Eliminate(src, d)[r], Mix(U \cup {d}, y, x)))
<1> DEFINE v == Mix(U, x, y)
           w == Mix(U, y, x)
           v2 == Mix(U \cup {d}, x, y)
           w2 == Mix(U \cup {d}, y, x)
<1>1. v \in Vec(D) /\ w \in Vec(D) /\ v2 \in Vec(D) /\ w2 \in Vec(D)
  BY MixIs
<1>2. v[d] = y[d] /\ w[d] = x[d] /\ v2[d] = x[d] /\ w2[d] = y[d]
  BY DEF Mix, Vec
<1>3. \A a \in D \ {d} : v2[a] = v[a] /\ w2[a] = w[a]
  BY DEF Mix, Vec
<1> HIDE DEF v, w, v2, w2
<1>4. (\A r \in D : v[r] = Dot(src[r], w)) <=> (\A r \in D : v2[r] = Dot(Eliminate(src, d)[r], w2))
  <2>1. v2[d] = w[d] /\ w2[d] = v[d]
    BY <1>2
  <2> QED
    BY <1>1, <1>3, <2>1, EliminateSolves
<1> QED
  BY <1>4 DEF v, w, v2, w2

\* The exchange of columns recorded.
LEMMA PutsBackSwap ==
    ASSUME NEW D, NEW p, Permutes(p, D), NEW s \in States(D), PutsBack(p, s, D),
           NEW z \in D \X D, NEW B \in Mat(D), NEW r \in D, NEW a \in D
    PROVE  SwapBack(B, Append(s.swaps, z))[r][Swapped(p, z[1], z[2])[a]] = B[r][a]
<1> DEFINE c == z[1]
           d == z[2]
           q == Swapped(p, c, d)
           C == ColumnsSwapped(B, D, z)
<1>1. s.swaps \in Seq(D \X D) /\ c \in D /\ d \in D /\ p \in [D -> D]
  BY DEF States, Permutes
<1>2. C \in Mat(D) /\ SwapBack(B, Append(s.swaps, z)) = SwapBack(C, s.swaps)
  BY <1>1, SwapBackLast, ColumnsSwappedType
<1>3. \A b \in D : SwapBack(C, s.swaps)[r][p[b]] = C[r][b]
  BY <1>2 DEF PutsBack
<1>4. q[c] = p[d] /\ q[d] = p[c] /\ \A b \in D \ {c, d} : q[b] = p[b]
  <2>1. DOMAIN p = D
    BY <1>1
  <2> HIDE DEF c, d
  <2> QED
    BY <1>1, <2>1, SwappedAt
<1>5. C[r] = Swapped(B[r], c, d)
  BY DEF ColumnsSwapped
<1> DEFINE u == B[r]
<1>6. u \in [D -> gf]
  BY DEF Mat, Vec
<1> HIDE DEF c, d, q, C, u
<1>7. C[r][c] = u[d] /\ C[r][d] = u[c] /\ \A b \in D \ {c, d} : C[r][b] = u[b]
  <2>1. /\ Swapped(u, c, d)[c] = u[d] /\ Swapped(u, c, d)[d] = u[c]
        /\ \A b \in D \ {c, d} : Swapped(u, c, d)[b] = u[b]
    <3>1. DOMAIN u = D
      BY <1>6
    <3> QED
      BY <1>1, <3>1, SwappedAt
  <2> QED
    BY <1>5, <2>1 DEF u
<1>8. SwapBack(C, s.swaps)[r][q[a]] = u[a]
  <2>1. CASE a = c
    BY <1>1, <1>3, <1>4, <1>7, <2>1
  <2>2. CASE a = d
    BY <1>1, <1>3, <1>4, <1>7, <2>2
  <2>3. CASE a \in D \ {c, d}
    BY <1>3, <1>4, <1>7, <2>3
  <2> QED
    BY <2>1, <2>2, <2>3
<1> QED
  BY <1>2, <1>8 DEF u, q, c, d

\* A round that finds a pivot.
LEMMA ColumnStep ==
    ASSUME NEW k \in Nat, NEW m \in Mat(Ix(k)), NEW s \in States(Ix(k)), NEW col,
           ~s.error, Progress(m, s, Ix(k)), Pivots(s, k) # {}
    PROVE  LET t == InvertColumn(s, col, k)
           IN  /\ t \in States(Ix(k)) /\ ~t.error
               /\ Progress(m, t, Ix(k))
               /\ Cardinality(t.used) = Cardinality(s.used) + 1
<1> DEFINE D == Ix(k)
           z == FindPivot(s, col, k)
           a == z[1]
           b == z[2]
           src1 == Swapped(s.src, a, b)
           t == InvertColumn(s, col, k)
           U == s.used
<1>1. /\ s.src \in Mat(D) /\ U \in SUBSET D /\ s.swaps \in Seq(D \X D)
  BY DEF States
<1>2. z \in Pivots(s, k) /\ z \in (D \ U) \X (D \ U)
  BY PivotFound
<1>3. a \in D \ U /\ b \in D \ U /\ z \in D \X D /\ s.src[a][b] # Zero
  BY <1>2 DEF Pivots
<1>4. t = [src |-> Eliminate(src1, b), used |-> U \cup {b},
           swaps |-> Append(s.swaps, z), error |-> FALSE]
  BY DEF InvertColumn
<1>5. /\ t.src = Eliminate(src1, b) /\ t.used = U \cup {b}
      /\ t.swaps = Append(s.swaps, z) /\ ~t.error /\ t.error \in BOOLEAN
  BY <1>4
<1>6. IsFiniteSet(D)
  BY IxIs
<1> HIDE DEF D, t
<1>7. src1 \in Mat(D) /\ src1[b] = s.src[a]
  <2>1. DOMAIN s.src = D /\ s.src \in [D -> Vec(D)]
    BY <1>1 DEF Mat
  <2>2. src1 \in [D -> Vec(D)]
    BY <1>3, <2>1, SwappedType
  <2>3. src1[b] = s.src[a]
    BY <1>3, <2>1, SwappedAt
  <2> QED
    BY <2>2, <2>3 DEF Mat
<1>8. src1[b][b] # Zero
  BY <1>3, <1>7
<1>9. Eliminate(src1, b) \in Mat(D)
  BY <1>3, <1>7, <1>8, EliminateIs
<1>10. Append(s.swaps, z) \in Seq(D \X D)
  BY <1>1, <1>3
<1>11. U \cup {b} \in SUBSET D
  BY <1>1, <1>3
<1>12. t \in States(D)
  BY <1>4, <1>9, <1>10, <1>11 DEF States
<1>13. Cardinality(U \cup {b}) = Cardinality(U) + 1
  <2>1. IsFiniteSet(U)
    BY <1>1, <1>6, FS_Subset
  <2> QED
    BY <1>3, <2>1, FS_AddElement
<1>14. PICK p : Permutes(p, D) /\ Solved(m, p, s, D) /\ PutsBack(p, s, D)
  BY DEF Progress, D
<1> DEFINE q == Swapped(p, a, b)
<1>15. m \in Mat(D) /\ s \in States(D)
  BY DEF D
<1> HIDE DEF z, src1, U, a, b
<1>16. Permutes(q, D)
  BY <1>3, <1>14, SwappedPermutes
<1>17. Solved(m, q, t, D)
  <2>1. \A x, y \in Vec(D) :
            (\A r \in D : y[r] = Dot(m[q[r]], x))
            <=> (\A r \in D : Mix(U, x, y)[r] = Dot(src1[r], Mix(U, y, x)))
    BY <1>3, <1>14, <1>15, SolvedSwap DEF src1, U
  <2>2. \A x, y \in Vec(D) :
            (\A r \in D : Mix(U, x, y)[r] = Dot(src1[r], Mix(U, y, x)))
            <=> (\A r \in D : Mix(U \cup {b}, x, y)[r]
                              = Dot(Eliminate(src1, b)[r], Mix(U \cup {b}, y, x)))
    BY <1>3, <1>6, <1>7, <1>8, MixEliminate
  <2> HIDE DEF q
  <2>3. \A x, y \in Vec(D) :
            (\A r \in D : y[r] = Dot(m[q[r]], x))
            <=> (\A r \in D : Mix(t.used, x, y)[r] = Dot(t.src[r], Mix(t.used, y, x)))
    <3> SUFFICES ASSUME NEW x \in Vec(D), NEW y \in Vec(D)
                 PROVE  (\A r \in D : y[r] = Dot(m[q[r]], x))
                        <=> (\A r \in D : Mix(t.used, x, y)[r]
                                           = Dot(t.src[r], Mix(t.used, y, x)))
      OBVIOUS
    <3>1. (\A r \in D : y[r] = Dot(m[q[r]], x))
          <=> (\A r \in D : Mix(U, x, y)[r] = Dot(src1[r], Mix(U, y, x)))
      BY <2>1
    <3>2. (\A r \in D : Mix(U, x, y)[r] = Dot(src1[r], Mix(U, y, x)))
          <=> (\A r \in D : Mix(U \cup {b}, x, y)[r]
                              = Dot(Eliminate(src1, b)[r], Mix(U \cup {b}, y, x)))
      BY <2>2
    <3>3. /\ Mix(t.used, x, y) = Mix(U \cup {b}, x, y)
          /\ Mix(t.used, y, x) = Mix(U \cup {b}, y, x)
      BY <1>5
    <3> QED
      BY <1>5, <3>1, <3>2, <3>3
  <2> QED
    BY <2>3 DEF Solved
<1>18. PutsBack(q, t, D)
  <2> SUFFICES ASSUME NEW B \in Mat(D), NEW r \in D, NEW d \in D
               PROVE  SwapBack(B, t.swaps)[r][q[d]] = B[r][d]
    BY DEF PutsBack
  <2> HIDE DEF q
  <2>1. SwapBack(B, Append(s.swaps, z))[r][Swapped(p, z[1], z[2])[d]] = B[r][d]
    BY <1>3, <1>14, <1>15, PutsBackSwap
  <2> QED
    BY <1>5, <2>1 DEF q, a, b
<1>19. Progress(m, t, D)
  BY <1>16, <1>17, <1>18 DEF Progress
<1> QED
  BY <1>5, <1>12, <1>13, <1>19 DEF D, t, U

\* When no pivot is left, a combination of the columns is 0.
LEMMA NoPivot ==
    ASSUME NEW k \in Nat, NEW m \in Mat(Ix(k)), NEW s \in States(Ix(k)),
           Progress(m, s, Ix(k)), Pivots(s, k) = {}, NEW d \in Ix(k) \ s.used
    PROVE  Singular(m, Ix(k))
<1> DEFINE D == Ix(k)
           U == s.used
           y == [a \in D |-> Zero]
           x0 == [a \in D |-> IF a = d THEN One ELSE Zero]
           w == Mix(U, y, x0)
           x == [a \in D |-> IF a \in U THEN Dot(s.src[a], w) ELSE x0[a]]
<1>1. s.src \in Mat(D) /\ U \subseteq D
  BY DEF States
<1>2. \A r, a \in D \ U : s.src[r][a] = Zero
  <2> SUFFICES ASSUME NEW r \in D \ U, NEW a \in D \ U, s.src[r][a] # Zero PROVE FALSE
    OBVIOUS
  <2>1. <<r, a>> \in (0 .. k - 1 \ s.used) \X (0 .. k - 1 \ s.used)
    BY DEF Ix
  <2>2. <<r, a>> \in Pivots(s, k)
    BY <2>1 DEF Pivots
  <2> QED
    BY <2>2
<1> HIDE DEF D
<1>3. y \in Vec(D) /\ x0 \in Vec(D)
  BY FieldLaws DEF Vec
<1>4. w \in Vec(D) /\ \A a \in D : w[a] = IF a \in U THEN Zero ELSE x0[a]
  BY <1>3 DEF Mix, Vec
<1>5. \A r \in D : s.src[r] \in Vec(D)
  BY <1>1 DEF Mat
<1>6. d \in D /\ d \notin U
  BY DEF D
<1> HIDE DEF w, x0
<1>7. \A r \in D : Dot(s.src[r], w) \in gf
  BY <1>4, <1>5, TermsIs
<1>8. x \in Vec(D) /\ \A a \in D : x[a] = IF a \in U THEN Dot(s.src[a], w) ELSE x0[a]
  BY <1>3, <1>7 DEF Vec
<1> HIDE DEF x, U
<1>9. Mix(U, y, x) = w
  <2>1. \A a \in D : Mix(U, y, x)[a] = w[a]
    BY <1>3, <1>4, <1>8 DEF Mix
  <2>2. DOMAIN Mix(U, y, x) = D /\ DOMAIN w = D /\ Mix(U, y, x) \in [D -> gf] /\ w \in [D -> gf]
    BY <1>3, <1>4, <1>8 DEF Mix, Vec
  <2> QED
    BY <2>1, <2>2
<1>10. ASSUME NEW r \in D PROVE Mix(U, x, y)[r] = Dot(s.src[r], Mix(U, y, x))
  <2>1. CASE r \in U
    <3>1. Mix(U, x, y)[r] = x[r]
      BY <1>8, <2>1 DEF Mix, Vec
    <3> QED
      BY <1>8, <1>9, <2>1, <3>1
  <2>2. CASE r \notin U
    <3>1. Mix(U, x, y)[r] = Zero
      BY <1>8, <2>2 DEF Mix, Vec
    <3>2. \A a \in D : s.src[r][a] = Zero \/ w[a] = Zero
      BY <1>2, <1>4, <2>2
    <3>3. Dot(s.src[r], w) = Zero
      BY <1>4, <1>5, <3>2, DotZero
    <3> QED
      BY <1>9, <3>1, <3>3
  <2> QED
    BY <2>1, <2>2
<1>11. PICK p : Permutes(p, D) /\ Solved(m, p, s, D)
  BY DEF Progress, D
<1> HIDE DEF y
<1>12. \A r \in D : y[r] = Dot(m[p[r]], x)
  BY <1>3, <1>8, <1>10, <1>11 DEF Solved, U
<1>13. \A r \in D : Dot(m[r], x) = Zero
  BY <1>11, <1>12 DEF Permutes, y
<1>14. x[d] # Zero
  BY <1>6, <1>8, FieldLaws DEF x0
<1> QED
  BY <1>6, <1>8, <1>13, <1>14 DEF Singular, D

\* The state after a number of rounds.
InvertOK(m, k, s, col) ==
    /\ s \in States(Ix(k))
    /\ s.error => Singular(m, Ix(k))
    /\ ~s.error => Progress(m, s, Ix(k)) /\ Cardinality(s.used) = col

\* One round leads from such a state to the next,
LEMMA InvertStep ==
    ASSUME NEW k \in Nat, NEW m \in Mat(Ix(k)), NEW col \in 0 .. k - 1, NEW s,
           InvertOK(m, k, s, col)
    PROVE  InvertOK(m, k, InvertColumn(s, col, k), col + 1)
<1>1. s \in States(Ix(k)) /\ s.error \in BOOLEAN
  BY DEF InvertOK, States
<1>2. CASE s.error \/ Pivots(s, k) = {}
  <2> DEFINE t == [s EXCEPT !.error = TRUE]
  <2>1. InvertColumn(s, col, k) = t
    BY <1>2 DEF InvertColumn
  <2>2. t \in States(Ix(k)) /\ t.error
    BY <1>1 DEF States
  <2>3. Singular(m, Ix(k))
    <3>1. CASE s.error
      BY <3>1 DEF InvertOK
    <3>2. CASE ~s.error
      <4>1. s.used \subseteq Ix(k)
        BY <1>1 DEF States
      <4>2. s.used # Ix(k)
        BY <3>2, IxIs DEF InvertOK
      <4>3. PICK d \in Ix(k) : d \notin s.used
        BY <4>1, <4>2
      <4> QED
        BY <1>1, <1>2, <3>2, <4>3, NoPivot DEF InvertOK
    <3> QED
      BY <3>1, <3>2
  <2> HIDE DEF t
  <2> QED
    BY <2>1, <2>2, <2>3 DEF InvertOK
<1>3. CASE ~s.error /\ Pivots(s, k) # {}
  <2> DEFINE t == InvertColumn(s, col, k)
  <2>1. Progress(m, s, Ix(k)) /\ Cardinality(s.used) = col
    BY <1>3 DEF InvertOK
  <2>2. /\ t \in States(Ix(k)) /\ ~t.error
        /\ Progress(m, t, Ix(k))
        /\ Cardinality(t.used) = Cardinality(s.used) + 1
    BY <1>1, <1>3, <2>1, ColumnStep
  <2> HIDE DEF t
  <2>3. InvertOK(m, k, t, col + 1)
    BY <2>1, <2>2 DEF InvertOK
  <2> QED
    BY <2>3 DEF t
<1> QED
  BY <1>2, <1>3

\* and the first one is such a state.
LEMMA InvertStart ==
    ASSUME NEW k \in Nat, NEW m \in Mat(Ix(k))
    PROVE  InvertOK(m, k, [src |-> m, used |-> {}, swaps |-> <<>>, error |-> FALSE], 0)
<1> DEFINE D == Ix(k)
           s == [src |-> m, used |-> {}, swaps |-> <<>>, error |-> FALSE]
           p == [a \in D |-> a]
<1>1. s \in States(D) /\ s.error = FALSE /\ s.used = {} /\ s.src = m /\ s.swaps = <<>>
  BY DEF States
<1> HIDE DEF D, s
<1>2. Permutes(p, D) /\ \A a \in D : p[a] = a
  BY DEF Permutes
<1> HIDE DEF p
<1>3. Solved(m, p, s, D)
  <2> SUFFICES ASSUME NEW x \in Vec(D), NEW y \in Vec(D)
               PROVE  (\A r \in D : y[r] = Dot(m[p[r]], x))
                      <=> (\A r \in D : Mix({}, x, y)[r] = Dot(m[r], Mix({}, y, x)))
    BY <1>1 DEF Solved
  <2>1. Mix({}, x, y) = y /\ Mix({}, y, x) = x
    BY DEF Mix, Vec
  <2> QED
    BY <1>2, <2>1
<1>4. PutsBack(p, s, D)
  <2> SUFFICES ASSUME NEW B \in Mat(D), NEW r \in D, NEW a \in D
               PROVE  SwapBack(B, <<>>)[r][a] = B[r][a]
    BY <1>1, <1>2 DEF PutsBack
  <2>1. <<>> \in Seq(D \X D) /\ Len(<<>>) = 0
    OBVIOUS
  <2>2. PICK f : BackRun(f, B, D, <<>>) /\ SwapBack(B, <<>>) = f[0]
    BY <2>1, SwapBackRuns
  <2> QED
    BY <2>2 DEF BackRun
<1>5. Cardinality({}) = 0
  BY FS_EmptySet
<1>6. Progress(m, s, D)
  BY <1>2, <1>3, <1>4 DEF Progress
<1>7. InvertOK(m, k, s, 0)
  BY <1>1, <1>5, <1>6 DEF InvertOK, D
<1> QED
  BY <1>7 DEF s

\* All rounds of invert_mat.
LEMMA InvertRuns ==
    ASSUME NEW k \in Nat, NEW m \in Mat(Ix(k))
    PROVE  \E s : /\ InvertOK(m, k, s, k)
                  /\ invert_mat(m, k) = [error |-> s.error, matrix |-> SwapBack(s.src, s.swaps)]
<1> DEFINE start == [src |-> m, used |-> {}, swaps |-> <<>>, error |-> FALSE]
           Is(f) == f = [col \in 0 .. k |->
                            IF col = 0
                            THEN [src |-> m, used |-> {}, swaps |-> <<>>, error |-> FALSE]
                            ELSE InvertColumn(f[col - 1], col - 1, k)]
           run == CHOOSE f : Is(f)
           H == [z \in States(Ix(k)) \X Nat |->
                   IF InvertColumn(z[1], z[2] - 1, k) \in States(Ix(k))
                   THEN InvertColumn(z[1], z[2] - 1, k) ELSE z[1]]
<1>1. invert_mat(m, k) = [error |-> run[k].error, matrix |-> SwapBack(run[k].src, run[k].swaps)]
  BY DEF invert_mat
<1>2. InvertOK(m, k, start, 0)
  BY InvertStart
<1>3. start \in States(Ix(k))
  BY <1>2 DEF InvertOK
<1> HIDE DEF start
<1>4. H \in Steps(States(Ix(k)))
  <2>1. ASSUME NEW z \in States(Ix(k)) \X Nat PROVE H[z] \in States(Ix(k))
    <3>1. z[1] \in States(Ix(k))
      OBVIOUS
    <3> QED
      BY <3>1
  <2>2. H = [z \in States(Ix(k)) \X Nat |-> H[z]]
    OBVIOUS
  <2> HIDE DEF H
  <2> QED
    BY <2>1, <2>2 DEF Steps
<1>5. \A s \in States(Ix(k)), t \in Nat :
          InvertColumn(s, t - 1, k) \in States(Ix(k)) => H[<<s, t>>] = InvertColumn(s, t - 1, k)
  OBVIOUS
<1> HIDE DEF H
<1>6. PICK f : IsRun(f, States(Ix(k)), start, H, k)
  BY <1>3, <1>4, RunExists
<1>7. /\ DOMAIN f = 0 .. k /\ f[0] = start
      /\ \A t \in 0 .. k : f[t] \in States(Ix(k))
      /\ \A t \in 1 .. k : f[t] = H[<<f[t - 1], t>>]
  BY <1>6 DEF IsRun
<1>8. f = [t \in 0 .. k |-> f[t]]
  BY <1>6 DEF IsRun
<1> DEFINE S == {t \in Nat : t <= k =>
                   /\ InvertOK(m, k, f[t], t)
                   /\ t > 0 => f[t] = InvertColumn(f[t - 1], t - 1, k)}
<1>9. 0 \in S
  BY <1>2, <1>7
<1>10. ASSUME NEW t \in Nat, t \in S PROVE t + 1 \in S
  <2> SUFFICES ASSUME t + 1 <= k
               PROVE  /\ InvertOK(m, k, f[t + 1], t + 1)
                      /\ f[t + 1] = InvertColumn(f[(t + 1) - 1], (t + 1) - 1, k)
    OBVIOUS
  <2>1. t \in 0 .. k - 1 /\ t + 1 \in 1 .. k /\ (t + 1) - 1 = t /\ t \in 0 .. k /\ t + 1 \in Nat
    OBVIOUS
  <2>2. InvertOK(m, k, f[t], t)
    BY <1>10, <2>1
  <2>3. InvertOK(m, k, InvertColumn(f[t], t, k), t + 1)
    BY <2>1, <2>2, InvertStep
  <2>4. InvertColumn(f[t], t, k) \in States(Ix(k))
    BY <2>3 DEF InvertOK
  <2>5. f[t + 1] = InvertColumn(f[t], t, k)
    <3>1. f[t] \in States(Ix(k))
      BY <1>7, <2>1
    <3>2. H[<<f[t], t + 1>>] = InvertColumn(f[t], (t + 1) - 1, k)
      BY <1>5, <2>1, <2>4, <3>1
    <3>3. f[t + 1] = H[<<f[(t + 1) - 1], t + 1>>]
      BY <1>7, <2>1
    <3> QED
      BY <2>1, <3>2, <3>3
  <2> QED
    BY <2>1, <2>3, <2>5
<1>11. Nat \subseteq S
  <2> HIDE DEF S
  <2> QED
    BY <1>9, <1>10, NatInduct
<1>12. InvertOK(m, k, f[k], k)
  BY <1>11
<1>13. ASSUME NEW t \in 1 .. k PROVE f[t] = InvertColumn(f[t - 1], t - 1, k)
  <2>1. t \in S /\ t > 0 /\ t <= k
    BY <1>11
  <2> QED
    BY <2>1
<1> HIDE DEF S
<1>14. Is(f)
  <2>1. ASSUME NEW t \in 0 .. k
        PROVE  f[t] = IF t = 0 THEN start ELSE InvertColumn(f[t - 1], t - 1, k)
    <3>1. CASE t = 0
      BY <1>7, <3>1
    <3>2. CASE t # 0
      <4>1. t \in 1 .. k
        BY <3>2
      <4> QED
        BY <1>13, <3>2, <4>1
    <3> QED
      BY <3>1, <3>2
  <2> QED
    BY <1>8, <2>1 DEF start
<1>15. Is(run)
  <2> HIDE DEF Is
  <2> QED
    BY <1>14
<1>16. /\ run[0] = start
       /\ \A t \in 1 .. k : run[t] = InvertColumn(run[t - 1], t - 1, k)
  <2> HIDE DEF run
  <2>1. \A t \in 0 .. k : run[t] = IF t = 0 THEN start ELSE InvertColumn(run[t - 1], t - 1, k)
    BY <1>15 DEF start
  <2> HIDE DEF Is
  <2>2. run[0] = start
    BY <2>1
  <2>3. ASSUME NEW t \in 1 .. k PROVE run[t] = InvertColumn(run[t - 1], t - 1, k)
    <3>1. t \in 0 .. k /\ t # 0
      OBVIOUS
    <3> QED
      BY <2>1, <3>1
  <2> QED
    BY <2>2, <2>3
<1> HIDE DEF run, Is
<1> DEFINE R == {t \in Nat : t <= k => run[t] = f[t]}
<1>17. 0 \in R
  BY <1>7, <1>16
<1>18. ASSUME NEW t \in Nat, t \in R PROVE t + 1 \in R
  <2> SUFFICES ASSUME t + 1 <= k PROVE run[t + 1] = f[t + 1]
    OBVIOUS
  <2>1. t + 1 \in 1 .. k /\ (t + 1) - 1 = t /\ run[t] = f[t]
    BY <1>18
  <2> QED
    BY <1>13, <1>16, <2>1
<1>19. Nat \subseteq R
  <2> HIDE DEF R
  <2> QED
    BY <1>17, <1>18, NatInduct
<1>20. run[k] = f[k]
  BY <1>19
<1> QED
  BY <1>1, <1>12, <1>20

\* invert_mat fails only on a matrix that has no inverse, and otherwise solves the
\* system for every right-hand side.
LEMMA InvertMatInverts ==
    ASSUME NEW k \in Nat, NEW m \in Mat(Ix(k))
    PROVE  LET inverted == invert_mat(m, k)
               n == inverted.matrix
           IN  /\ inverted.error => Singular(m, Ix(k))
               /\ ~inverted.error =>
                     /\ n \in Mat(Ix(k))
                     /\ \A x, y \in Vec(Ix(k)) : (\A r \in Ix(k) : y[r] = Dot(m[r], x))
                                                 <=> (\A r \in Ix(k) : x[r] = Dot(n[r], y))
<1> DEFINE D == Ix(k)
<1>1. PICK s : /\ InvertOK(m, k, s, k)
               /\ invert_mat(m, k) = [error |-> s.error, matrix |-> SwapBack(s.src, s.swaps)]
  BY InvertRuns
<1> DEFINE inverted == invert_mat(m, k)
           n == inverted.matrix
<1>2. inverted.error = s.error /\ n = SwapBack(s.src, s.swaps)
  BY <1>1
<1> HIDE DEF inverted, n
<1>3. s.error => Singular(m, D)
  BY <1>1 DEF InvertOK
<1>4. s \in States(D) /\ s.src \in Mat(D) /\ s.swaps \in Seq(D \X D) /\ s.used \in SUBSET D
  BY <1>1 DEF InvertOK, States
<1>5. IsFiniteSet(D) /\ Cardinality(D) = k
  BY IxIs
<1>6. ASSUME ~s.error
      PROVE  /\ n \in Mat(D)
             /\ \A x, y \in Vec(D) : (\A r \in D : y[r] = Dot(m[r], x))
                                     <=> (\A r \in D : x[r] = Dot(n[r], y))
  <2>1. Progress(m, s, D) /\ Cardinality(s.used) = k
    BY <1>1, <1>6 DEF InvertOK
  <2>2. s.used = D
    BY <1>4, <1>5, <2>1, FS_Subset
  <2>3. n \in Mat(D)
    <3>1. PICK f : BackRun(f, s.src, D, s.swaps) /\ SwapBack(s.src, s.swaps) = f[Len(s.swaps)]
      BY <1>4, SwapBackRuns
    <3>2. Len(s.swaps) \in Nat
      BY <1>4
    <3> QED
      BY <1>2, <3>1, <3>2 DEF BackRun
  <2>4. PICK p : Permutes(p, D) /\ Solved(m, p, s, D) /\ PutsBack(p, s, D)
    BY <2>1 DEF Progress
  <2>5. \A r, a \in D : n[r][p[a]] = s.src[r][a]
    BY <1>2, <1>4, <2>4 DEF PutsBack
  <2> HIDE DEF D
  <2>6. \A x, y \in Vec(D) : (\A r \in D : y[r] = Dot(m[p[r]], x))
                             <=> (\A r \in D : x[r] = Dot(s.src[r], y))
    <3> SUFFICES ASSUME NEW x \in Vec(D), NEW y \in Vec(D)
                 PROVE  (\A r \in D : y[r] = Dot(m[p[r]], x))
                        <=> (\A r \in D : x[r] = Dot(s.src[r], y))
      OBVIOUS
    <3>1. Mix(s.used, x, y) = x /\ Mix(s.used, y, x) = y
      BY <2>2 DEF Mix, Vec
    <3> QED
      BY <2>4, <3>1 DEF Solved
  <2>7. ASSUME NEW x \in Vec(D), NEW y \in Vec(D)
        PROVE  (\A r \in D : y[r] = Dot(m[r], x)) <=> (\A r \in D : x[r] = Dot(n[r], y))
    <3> DEFINE z == [a \in D |-> y[p[a]]]
    <3>1. \A a \in D : p[a] \in D
      BY <2>4 DEF Permutes
    <3>2. z \in Vec(D) /\ \A a \in D : z[a] = y[p[a]]
      BY <3>1 DEF Vec
    <3> HIDE DEF z
    <3>3. ASSUME NEW r \in D PROVE Dot(s.src[r], z) = Dot(n[r], y)
      <4> DEFINE u == s.src[r]
                 v == n[r]
      <4>1. u \in Vec(D) /\ v \in Vec(D) /\ \A a \in D : v[p[a]] = u[a]
        BY <1>4, <2>3, <2>5 DEF Mat
      <4> HIDE DEF u, v
      <4>2. Terms(u, z) \in Vec(D) /\ Terms(v, y) \in Vec(D)
        BY <3>2, <4>1, TermsIs
      <4>3. \A a \in D : Terms(u, z)[a] = Times(u[a], z[a])
        BY <3>2, <4>1, TermsIs
      <4>4. \A a \in D : Terms(v, y)[a] = Times(v[a], y[a])
        BY <4>1, TermsIs
      <4>5. \A a \in D : Terms(u, z)[a] = Terms(v, y)[p[a]]
        BY <3>1, <3>2, <4>1, <4>3, <4>4
      <4>6. p \in [D -> D] /\ (\A a, b \in D : p[a] = p[b] => a = b)
            /\ \A d \in D : \E a \in D : p[a] = d
        BY <2>4 DEF Permutes
      <4> DEFINE f == Terms(v, y)
                 g == Terms(u, z)
      <4>7. f \in Vec(D) /\ g \in Vec(D) /\ \A a \in D : g[a] = f[p[a]]
        BY <4>2, <4>5
      <4>8. IsFiniteSet(D)
        BY <1>5
      <4> HIDE DEF f, g
      <4>9. Sum(g) = Sum(f)
        BY <4>6, <4>7, <4>8, SumRename
      <4> QED
        BY <4>9 DEF Dot, f, g, u, v
    <3>4. (\A r \in D : z[r] = Dot(m[p[r]], x)) <=> (\A r \in D : x[r] = Dot(s.src[r], z))
      BY <2>6, <3>2
    <3>5. (\A r \in D : z[r] = Dot(m[p[r]], x)) <=> (\A r \in D : y[r] = Dot(m[r], x))
      <4>1. \A d \in D : \E a \in D : p[a] = d
        BY <2>4 DEF Permutes
      <4> QED
        BY <3>1, <3>2, <4>1
    <3>6. (\A r \in D : x[r] = Dot(s.src[r], z)) <=> (\A r \in D : x[r] = Dot(n[r], y))
      BY <3>3
    <3> QED
      BY <3>4, <3>5, <3>6
  <2> QED
    BY <2>3, <2>7 DEF D
<1> QED
  BY <1>2, <1>3, <1>6 DEF inverted, n

-----------------------------------------------------------------------------
(* Polynomials: coefficients from the lowest degree on *)

\* The powers of y, k of them.
IsPowers(v, y, k) ==
    v \in Vec(Ix(k)) /\ v[0] = One /\ \A c \in 0 .. k - 2 : v[c + 1] = Times(y, v[c])

\* The first k entries.
Short(v, k) == [a \in Ix(k) |-> v[a]]

\* The first k of k + 1 powers are the powers.
LEMMA ShortPowers ==
    ASSUME NEW k \in Nat \ {0}, NEW y, NEW v, IsPowers(v, y, k + 1)
    PROVE  IsPowers(Short(v, k), y, k) /\ Short(v, k) \in Vec(Ix(k)) /\ v \in Vec(Ix(k + 1))
<1>1. v \in [0 .. k -> gf] /\ v[0] = One /\ \A c \in 0 .. k - 1 : v[c + 1] = Times(y, v[c])
  BY DEF IsPowers, Vec, Ix
<1>2. Short(v, k) \in [0 .. k - 1 -> gf] /\ \A c \in 0 .. k - 1 : Short(v, k)[c] = v[c]
  BY <1>1 DEF Short, Ix
<1>3. Short(v, k)[0] = One
  BY <1>1, <1>2
<1>4. \A c \in 0 .. k - 2 : Short(v, k)[c + 1] = Times(y, Short(v, k)[c])
  <2> SUFFICES ASSUME NEW c \in 0 .. k - 2 PROVE Short(v, k)[c + 1] = Times(y, Short(v, k)[c])
    OBVIOUS
  <2>1. c \in 0 .. k - 1 /\ c + 1 \in 0 .. k - 1
    OBVIOUS
  <2> QED
    BY <1>1, <1>2, <2>1
<1> QED
  BY <1>1, <1>2, <1>3, <1>4 DEF IsPowers, Vec, Ix

\* A sum of which the last term is 0, and one of which the first is set apart.
LEMMA SumLast ==
    ASSUME NEW k \in Nat, NEW h \in Vec(Ix(k + 1)), h[k] = Zero
    PROVE  Sum(h) = Sum(Short(h, k)) /\ Short(h, k) \in Vec(Ix(k))
<1>1. Ix(k + 1) = Ix(k) \cup {k} /\ k \notin Ix(k)
  BY DEF Ix
<1>2. IsFiniteSet(Ix(k))
  BY IxIs
<1>3. Over(Ix(k) \cup {k}, h) = Plus(h[k], Over(Ix(k), h))
  BY <1>1, <1>2, OverAdd
<1>4. Over(Ix(k + 1), h) = Sum(h) /\ Over(Ix(k), h) = Sum(Short(h, k))
  BY OverAll DEF Over, Short
<1>5. Short(h, k) \in Vec(Ix(k))
  BY <1>1 DEF Short, Vec
<1> QED
  BY <1>1, <1>3, <1>4, <1>5, PlusZero

\* The first term taken out.
LEMMA SumFirst ==
    ASSUME NEW k \in Nat, NEW h \in Vec(Ix(k + 1)), NEW f \in Vec(Ix(k)),
           \A a \in Ix(k) : f[a] = h[a + 1]
    PROVE  Sum(h) = Plus(h[0], Sum(f))
<1> DEFINE E == 1 .. k
           g == [a \in E |-> h[a]]
           p == [a \in E |-> a - 1]
<1>1. Ix(k + 1) = E \cup {0} /\ 0 \notin E
  BY DEF Ix
<1>2. IsFiniteSet(E)
  BY FS_Interval
<1>3. Over(E \cup {0}, h) = Plus(h[0], Over(E, h))
  <2> HIDE DEF E
  <2> QED
    BY <1>1, <1>2, OverAdd
<1>4. Over(Ix(k + 1), h) = Sum(h) /\ Over(E, h) = Sum(g)
  BY OverAll DEF Over
<1>5. g \in Vec(E)
  BY <1>1 DEF Vec
<1>6. p \in [E -> Ix(k)] /\ (\A a, b \in E : p[a] = p[b] => a = b)
  BY DEF Ix
<1>7. \A d \in Ix(k) : \E a \in E : p[a] = d
  <2> SUFFICES ASSUME NEW d \in Ix(k) PROVE \E a \in E : p[a] = d
    OBVIOUS
  <2>1. d + 1 \in E /\ p[d + 1] = d
    BY DEF Ix
  <2> QED
    BY <2>1
<1>8. \A a \in E : g[a] = f[p[a]]
  <2> SUFFICES ASSUME NEW a \in E PROVE h[a] = f[a - 1]
    OBVIOUS
  <2>1. a - 1 \in Ix(k) /\ (a - 1) + 1 = a
    BY DEF Ix
  <2> QED
    BY <2>1
<1> HIDE DEF g, p, E
<1>9. Sum(g) = Sum(f)
  BY <1>2, <1>5, <1>6, <1>7, <1>8, SumRename
<1> QED
  BY <1>1, <1>3, <1>4, <1>9

\* q = rem + (y + u) b, as values at y.
Divides(q, b, u, rem, k) ==
    /\ q[0] = Plus(rem, Times(u, b[0]))
    /\ \A a \in 1 .. k - 1 : q[a] = Plus(b[a - 1], Times(u, b[a]))
    /\ q[k] = b[k - 1]

\* The value at y is that of the quotient times y + u, and the remainder.
LEMMA Divide ==
    ASSUME NEW k \in Nat \ {0}, NEW q \in Vec(Ix(k + 1)), NEW b \in Vec(Ix(k)),
           NEW u \in gf, NEW y \in gf, NEW rem \in gf, NEW v, IsPowers(v, y, k + 1),
           Divides(q, b, u, rem, k)
    PROVE  Dot(q, v) = Plus(rem, Times(Plus(y, u), Dot(b, Short(v, k))))
<1> DEFINE D == Ix(k + 1)
           w == Short(v, k)
           b0 == [a \in D |-> IF a = k THEN Zero ELSE b[a]]
           bu == [a \in D |-> Times(u, b0[a])]
           bs == [a \in D |-> IF a = 0 THEN rem ELSE b[a - 1]]
           X == Dot(b, w)
<1>1. v \in Vec(D) /\ w \in Vec(Ix(k)) /\ \A a \in Ix(k) : w[a] = v[a]
  BY ShortPowers DEF Short
<1>2. v[0] = One /\ \A a \in Ix(k) : v[a + 1] = Times(y, v[a])
  BY DEF IsPowers, Ix
<1>3. \A a \in Ix(k) : b[a] \in gf /\ v[a] \in gf /\ v[a + 1] \in gf
  BY <1>1 DEF Vec, Ix
<1>4. b0 \in Vec(D) /\ b0[k] = Zero /\ \A a \in Ix(k) : b0[a] = b[a]
  <2>1. Zero \in gf
    BY FieldLaws
  <2>2. k \in D /\ (\A a \in Ix(k) : a \in D /\ a # k) /\ (\A a \in D : a # k => a \in Ix(k))
    BY DEF Ix
  <2>3. \A a \in D : b0[a] \in gf
    BY <1>3, <2>1, <2>2
  <2> QED
    BY <2>2, <2>3 DEF Vec
<1> HIDE DEF b0
<1>5. bu \in Vec(D) /\ \A a \in D : bu[a] = Times(u, b0[a])
  BY <1>4, TimesType DEF Vec
<1>6. bs \in Vec(D) /\ bs[0] = rem /\ \A a \in Ix(k) : bs[a + 1] = b[a]
  BY <1>3 DEF Vec, Ix
<1> HIDE DEF bu, bs
<1>7. ASSUME NEW a \in D PROVE q[a] = Plus(bs[a], bu[a])
  <2>1. CASE a = 0
    <3>1. 0 \in Ix(k) /\ 0 \in D
      BY DEF Ix
    <3> QED
      BY <1>4, <1>5, <1>6, <2>1, <3>1 DEF Divides
  <2>2. CASE a \in 1 .. k - 1
    <3>1. a \in Ix(k) /\ a - 1 \in Ix(k) /\ (a - 1) + 1 = a
      BY <2>2 DEF Ix
    <3> QED
      BY <1>4, <1>5, <1>6, <2>2, <3>1 DEF Divides
  <2>3. CASE a = k
    <3>1. k - 1 \in Ix(k) /\ (k - 1) + 1 = k /\ k \in D
      BY DEF Ix
    <3>2. bu[k] = Times(u, Zero)
      BY <1>4, <1>5, <3>1
    <3>4. Times(u, Zero) = Zero
      BY FieldLaws
    <3>3. bs[k] = b[k - 1]
      BY <1>6, <3>1
    <3> QED
      BY <2>3, <3>2, <3>3, <3>4, PlusZero DEF Divides
  <2> QED
    BY <2>1, <2>2, <2>3 DEF Ix
<1>8. IsFiniteSet(D) /\ IsFiniteSet(Ix(k))
  BY IxIs
<1>9. Dot(q, v) = Plus(Dot(bs, v), Dot(bu, v))
  BY <1>1, <1>5, <1>6, <1>7, <1>8, DotPlus
<1>10. Dot(bu, v) = Times(u, Dot(b0, v))
  BY <1>1, <1>4, <1>5, <1>8, DotScale
<1>11. Terms(b, w) \in Vec(Ix(k)) /\ X \in gf
  BY <1>1, TermsIs
<1>12. \A a \in Ix(k) : Terms(b, w)[a] = Times(b[a], v[a])
  BY <1>1, TermsIs
<1>13. Dot(b0, v) = X
  <2> DEFINE h == Terms(b0, v)
  <2>1. h \in Vec(D)
    BY <1>1, <1>4, TermsIs
  <2>2. \A a \in D : h[a] = Times(b0[a], v[a])
    BY <1>1, <1>4, TermsIs
  <2>3. h[k] = Zero
    <3>1. k \in D
      BY DEF Ix
    <3>2. v[k] \in gf
      BY <1>1, <3>1 DEF Vec
    <3>3. Times(Zero, v[k]) = Zero
      BY <3>2, FieldLaws
    <3> QED
      BY <1>4, <2>2, <3>1, <3>3
  <2> HIDE DEF h
  <2>4. Sum(h) = Sum(Short(h, k)) /\ Short(h, k) \in Vec(Ix(k))
    BY <2>1, <2>3, SumLast
  <2>5. Short(h, k) = Terms(b, w)
    <3>1. \A a \in Ix(k) : a \in D
      BY DEF Ix
    <3>2. \A a \in Ix(k) : Short(h, k)[a] = Terms(b, w)[a]
      BY <1>4, <1>12, <2>2, <3>1 DEF Short
    <3> QED
      BY <1>11, <2>4, <3>2 DEF Vec
  <2> QED
    BY <2>4, <2>5 DEF h, Dot
<1>14. Dot(bs, v) = Plus(rem, Times(y, X))
  <2> DEFINE h == Terms(bs, v)
             f == [a \in Ix(k) |-> Times(y, Terms(b, w)[a])]
  <2>1. h \in Vec(D)
    BY <1>1, <1>6, TermsIs
  <2>2. \A a \in D : h[a] = Times(bs[a], v[a])
    BY <1>1, <1>6, TermsIs
  <2>3. f \in Vec(Ix(k)) /\ \A a \in Ix(k) : f[a] = Times(y, Terms(b, w)[a])
    BY <1>11, TimesType DEF Vec
  <2> HIDE DEF h, f
  <2>4. ASSUME NEW a \in Ix(k) PROVE f[a] = h[a + 1]
    <3>1. a + 1 \in D
      BY DEF Ix
    <3>2. h[a + 1] = Times(b[a], Times(y, v[a]))
      BY <1>2, <1>6, <2>2, <3>1
    <3>3. f[a] = Times(y, Times(b[a], v[a]))
      BY <1>12, <2>3
    <3>4. Times(Times(y, b[a]), v[a]) = Times(y, Times(b[a], v[a]))
          /\ Times(Times(b[a], y), v[a]) = Times(b[a], Times(y, v[a]))
      BY <1>3, TimesAssociates
    <3>5. Times(y, b[a]) = Times(b[a], y)
      BY <1>3, TimesCommutes
    <3> QED
      BY <3>2, <3>3, <3>4, <3>5
  <2>5. Sum(h) = Plus(h[0], Sum(f))
    BY <2>1, <2>3, <2>4, SumFirst
  <2>6. Sum(f) = Times(y, Sum(Terms(b, w)))
    BY <1>8, <1>11, <2>3, SumTimes
  <2>7. h[0] = rem
    <3>1. 0 \in D
      BY DEF Ix
    <3>2. h[0] = Times(bs[0], v[0])
      BY <2>2, <3>1
    <3> QED
      BY <1>2, <1>6, <3>1, <3>2, TimesOne
  <2> QED
    BY <2>5, <2>6, <2>7 DEF h, Dot
<1> HIDE DEF X
<1>15. Plus(Plus(rem, Times(y, X)), Times(u, X)) = Plus(rem, Plus(Times(y, X), Times(u, X)))
  BY PlusAssociates
<1>16. Times(Plus(y, u), X) = Plus(Times(y, X), Times(u, X))
  BY <1>11, Distributes
<1> QED
  BY <1>9, <1>10, <1>13, <1>14, <1>15, <1>16 DEF X

\* Synthetic division.
LEMMA QuotientExists ==
    ASSUME NEW k \in Nat \ {0}, NEW q \in Vec(Ix(k + 1)), NEW u \in gf
    PROVE  \E b \in Vec(Ix(k)) :
               /\ b[k - 1] = q[k]
               /\ \A a \in 0 .. k - 2 : b[a] = Plus(q[a + 1], Times(u, b[a + 1]))
<1> DEFINE H == [z \in gf \X Nat |->
                    IF z[2] + 1 \in Ix(k + 1) THEN Plus(q[z[2] + 1], Times(u, z[1])) ELSE Zero]
<1>1. H \in Steps(gf)
  <2>1. ASSUME NEW z \in gf \X Nat PROVE H[z] \in gf
    <3>1. z[1] \in gf /\ z[2] \in Nat
      OBVIOUS
    <3>2. CASE z[2] + 1 \in Ix(k + 1)
      <4>1. q[z[2] + 1] \in gf
        BY <3>2 DEF Vec
      <4>2. Plus(q[z[2] + 1], Times(u, z[1])) \in gf
        BY <3>1, <4>1, TimesType, PlusType
      <4> QED
        BY <3>2, <4>2
    <3>3. CASE z[2] + 1 \notin Ix(k + 1)
      BY <3>3, FieldLaws
    <3> QED
      BY <3>2, <3>3
  <2>2. H = [z \in gf \X Nat |-> H[z]]
    OBVIOUS
  <2> HIDE DEF H
  <2> QED
    BY <2>1, <2>2 DEF Steps
<1>2. \A x \in gf, t \in Nat :
          t + 1 \in Ix(k + 1) => H[<<x, t>>] = Plus(q[t + 1], Times(u, x))
  OBVIOUS
<1> HIDE DEF H
<1>3. q[k] \in gf /\ k - 1 \in Nat
  BY DEF Vec, Ix
<1>4. PICK b : IsRunDown(b, gf, q[k], H, k - 1)
  BY <1>1, <1>3, RunDownExists
<1>5. b \in [0 .. k - 1 -> gf] /\ b[k - 1] = q[k]
  BY <1>4 DEF IsRunDown
<1>6. ASSUME NEW a \in 0 .. k - 2 PROVE b[a] = Plus(q[a + 1], Times(u, b[a + 1]))
  <2>1. /\ a \in 0 .. (k - 1) - 1 /\ a \in Nat /\ a + 1 \in 0 .. k - 1
        /\ a + 1 \in Ix(k + 1)
    BY DEF Ix
  <2>2. b[a] = H[<<b[a + 1], a>>]
    BY <1>4, <2>1 DEF IsRunDown
  <2>3. b[a + 1] \in gf
    BY <1>5, <2>1
  <2> QED
    BY <1>2, <2>1, <2>2, <2>3
<1> QED
  BY <1>5, <1>6 DEF Vec, Ix

\* The remainder of the division is what is left at 0.
LEMMA QuotientDivides ==
    ASSUME NEW k \in Nat \ {0}, NEW q \in Vec(Ix(k + 1)), NEW u \in gf, NEW b \in Vec(Ix(k)),
           b[k - 1] = q[k], \A a \in 0 .. k - 2 : b[a] = Plus(q[a + 1], Times(u, b[a + 1]))
    PROVE  /\ Plus(q[0], Times(u, b[0])) \in gf
           /\ Divides(q, b, u, Plus(q[0], Times(u, b[0])), k)
<1> DEFINE rem == Plus(q[0], Times(u, b[0]))
<1>1. q[0] \in gf /\ b[0] \in gf
  BY DEF Vec, Ix
<1>2. rem \in gf
  BY <1>1, TimesType, PlusType
<1>3. \A p, s : Plus(Plus(p, s), s) = p
  BY DEF Plus
<1>4. q[0] = Plus(rem, Times(u, b[0]))
  BY <1>3
<1>5. ASSUME NEW a \in 1 .. k - 1 PROVE q[a] = Plus(b[a - 1], Times(u, b[a]))
  <2>1. a - 1 \in 0 .. k - 2 /\ (a - 1) + 1 = a
    OBVIOUS
  <2>2. b[a - 1] = Plus(q[a], Times(u, b[a]))
    BY <2>1
  <2> QED
    BY <1>3, <2>2
<1> QED
  BY <1>2, <1>4, <1>5 DEF Divides

\* A polynomial of degree below k with the k roots P is 0.
Rooted(k) ==
    \A q, P \in Vec(Ix(k)) : \A V :
        /\ \A a, b \in Ix(k) : P[a] = P[b] => a = b
        /\ \A r \in Ix(k) : IsPowers(V[r], P[r], k) /\ Dot(q, V[r]) = Zero
        => \A a \in Ix(k) : q[a] = Zero

\* For k = 1,
LEMMA RootedOne == Rooted(1)
<1> SUFFICES ASSUME NEW q \in Vec(Ix(1)), NEW P \in Vec(Ix(1)), NEW V,
                    \A r \in Ix(1) : IsPowers(V[r], P[r], 1) /\ Dot(q, V[r]) = Zero
             PROVE  \A a \in Ix(1) : q[a] = Zero
  BY DEF Rooted
<1>1. 0 \in Ix(1) /\ \A a \in Ix(1) : a = 0
  BY DEF Ix
<1>2. V[0] \in Vec(Ix(1)) /\ V[0][0] = One /\ Dot(q, V[0]) = Zero
  BY <1>1 DEF IsPowers
<1>3. Dot(q, V[0]) = Times(q[0], V[0][0])
  BY <1>1, <1>2, DotOne
<1>4. q[0] \in gf
  BY <1>1 DEF Vec
<1>5. Times(q[0], One) = q[0]
  BY <1>4, FieldLaws
<1> QED
  BY <1>1, <1>2, <1>3, <1>5

\* and for one more: divide by one of the roots.
LEMMA RootedNext ==
    ASSUME NEW k \in Nat \ {0}, Rooted(k)
    PROVE  Rooted(k + 1)
<1> SUFFICES ASSUME NEW q \in Vec(Ix(k + 1)), NEW P \in Vec(Ix(k + 1)), NEW V,
                    \A a, b \in Ix(k + 1) : P[a] = P[b] => a = b,
                    \A r \in Ix(k + 1) : IsPowers(V[r], P[r], k + 1) /\ Dot(q, V[r]) = Zero
             PROVE  \A a \in Ix(k + 1) : q[a] = Zero
  BY DEF Rooted
<1> DEFINE u == P[k]
           W == [r \in Ix(k) |-> Short(V[r], k)]
           R == Short(P, k)
<1>1. k \in Ix(k + 1) /\ (\A a \in Ix(k) : a \in Ix(k + 1) /\ a # k)
  BY DEF Ix
<1>2. \A a \in Ix(k + 1) : P[a] \in gf
  BY DEF Vec
<1>3. u \in gf
  BY <1>1, <1>2
<1>4. R \in Vec(Ix(k)) /\ \A a \in Ix(k) : R[a] = P[a]
  BY <1>1, <1>2 DEF Short, Vec
<1> HIDE DEF u, R
<1>5. PICK b \in Vec(Ix(k)) :
          /\ b[k - 1] = q[k]
          /\ \A a \in 0 .. k - 2 : b[a] = Plus(q[a + 1], Times(u, b[a + 1]))
  BY <1>3, QuotientExists
<1>6. PICK rem \in gf : Divides(q, b, u, rem, k)
  BY <1>3, <1>5, QuotientDivides
<1>7. ASSUME NEW r \in Ix(k + 1)
      PROVE  /\ Zero = Plus(rem, Times(Plus(P[r], u), Dot(b, Short(V[r], k))))
             /\ Short(V[r], k) \in Vec(Ix(k)) /\ IsPowers(Short(V[r], k), P[r], k)
             /\ Dot(b, Short(V[r], k)) \in gf
  <2>1. P[r] \in gf /\ IsPowers(V[r], P[r], k + 1) /\ Dot(q, V[r]) = Zero
    BY <1>2
  <2>2. Dot(q, V[r]) = Plus(rem, Times(Plus(P[r], u), Dot(b, Short(V[r], k))))
    BY <1>3, <1>6, <2>1, Divide
  <2>3. Short(V[r], k) \in Vec(Ix(k)) /\ IsPowers(Short(V[r], k), P[r], k)
    BY <2>1, ShortPowers
  <2>4. Dot(b, Short(V[r], k)) \in gf
    BY <2>3, TermsIs
  <2> QED
    BY <2>1, <2>2, <2>3, <2>4
<1>8. rem = Zero
  <2> DEFINE X == Dot(b, Short(V[k], k))
  <2>1. Zero = Plus(rem, Times(Plus(u, u), X)) /\ X \in gf
    BY <1>1, <1>7 DEF u
  <2> HIDE DEF X
  <2>2. Plus(u, u) = Zero
    BY PlusZero
  <2>3. Times(Zero, X) = Zero
    BY <2>1, FieldLaws
  <2> QED
    BY <2>1, <2>2, <2>3, PlusZero
<1>9. ASSUME NEW r \in Ix(k)
      PROVE  IsPowers(W[r], R[r], k) /\ Dot(b, W[r]) = Zero
  <2> DEFINE X == Dot(b, Short(V[r], k))
  <2>1. Zero = Plus(rem, Times(Plus(P[r], u), X)) /\ X \in gf
    BY <1>1, <1>7
  <2>2. IsPowers(Short(V[r], k), P[r], k)
    BY <1>1, <1>7
  <2>3. W[r] = Short(V[r], k)
    OBVIOUS
  <2> HIDE DEF X, W
  <2>4. Times(Plus(P[r], u), X) = Zero
    BY <1>8, <2>1, PlusZero
  <2>5. Plus(P[r], u) # Zero
    BY <1>1, PlusCancels DEF u
  <2>6. Plus(P[r], u) \in gf
    BY <1>1, <1>2, <1>3, PlusType
  <2>7. X = Zero
    BY <2>1, <2>4, <2>5, <2>6, FieldLaws
  <2> QED
    BY <1>4, <2>2, <2>3, <2>7 DEF X
<1>10. \A a, c \in Ix(k) : R[a] = R[c] => a = c
  BY <1>1, <1>4
<1> HIDE DEF W
<1>11. \A a \in Ix(k) : b[a] = Zero
  BY <1>4, <1>9, <1>10 DEF Rooted
<1>12. Times(u, Zero) = Zero /\ Plus(Zero, Zero) = Zero
  BY <1>3, FieldLaws, PlusZero
<1> SUFFICES ASSUME NEW a \in Ix(k + 1) PROVE q[a] = Zero
  OBVIOUS
<1>13. CASE a = 0
  <2>1. 0 \in Ix(k)
    BY DEF Ix
  <2> QED
    BY <1>6, <1>8, <1>11, <1>12, <1>13, <2>1 DEF Divides
<1>14. CASE a = k
  <2>1. k - 1 \in Ix(k)
    BY DEF Ix
  <2> QED
    BY <1>6, <1>11, <1>14, <2>1 DEF Divides
<1>15. CASE a \in 1 .. k - 1
  <2>1. a \in Ix(k) /\ a - 1 \in Ix(k)
    BY <1>15 DEF Ix
  <2> QED
    BY <1>6, <1>11, <1>12, <1>15, <2>1 DEF Divides
<1> QED
  BY <1>13, <1>14, <1>15 DEF Ix

\* A polynomial has no more roots than its degree.
LEMMA RootTheorem == \A k \in Nat : Rooted(k)
<1> DEFINE S == {k \in Nat : Rooted(k)}
<1>1. 0 \in S
  BY DEF Rooted, Ix
<1>2. ASSUME NEW k \in Nat, k \in S PROVE k + 1 \in S
  <2>1. CASE k = 0
    BY <2>1, RootedOne
  <2>2. CASE k # 0
    BY <1>2, <2>2, RootedNext
  <2> QED
    BY <2>1, <2>2
<1> HIDE DEF S
<1>3. Nat \subseteq S
  BY <1>1, <1>2, NatInduct
<1> QED
  BY <1>3 DEF S

\* A typed value stays so down to 0.
LEMMA DownType ==
    ASSUME NEW k \in Nat \ {0}, NEW St, NEW f, f[k - 1] \in St,
           \A a \in 0 .. k - 2 : f[a + 1] \in St => f[a] \in St
    PROVE  \A a \in 0 .. k - 1 : f[a] \in St
<1> DEFINE S == {t \in Nat : t <= k - 1 => f[(k - 1) - t] \in St}
<1>1. 0 \in S
  OBVIOUS
<1>2. ASSUME NEW t \in Nat, t \in S PROVE t + 1 \in S
  <2> SUFFICES ASSUME t + 1 <= k - 1 PROVE f[(k - 1) - (t + 1)] \in St
    OBVIOUS
  <2> DEFINE a == (k - 1) - (t + 1)
  <2>1. a \in 0 .. k - 2 /\ a + 1 = (k - 1) - t
    OBVIOUS
  <2>2. f[a + 1] \in St
    BY <1>2, <2>1
  <2> QED
    BY <2>1, <2>2
<1>3. Nat \subseteq S
  <2> HIDE DEF S
  <2> QED
    BY <1>1, <1>2, NatInduct
<1> SUFFICES ASSUME NEW a \in 0 .. k - 1 PROVE f[a] \in St
  OBVIOUS
<1>4. (k - 1) - a \in Nat /\ (k - 1) - a <= k - 1 /\ (k - 1) - ((k - 1) - a) = a
  OBVIOUS
<1>5. (k - 1) - a \in S
  BY <1>3, <1>4
<1> QED
  BY <1>4, <1>5

\* Horner's rule, for the coefficients w.
Horner(f, w, u, k) ==
    /\ f[k - 1] = w[k - 1]
    /\ \A a \in 0 .. k - 2 : f[a] = Plus(w[a], Times(u, f[a + 1]))

\* The scheme can be carried out,
LEMMA HornerExists ==
    ASSUME NEW k \in Nat \ {0}, NEW w \in Vec(Ix(k)), NEW u \in gf
    PROVE  \E f \in Vec(Ix(k)) : Horner(f, w, u, k)
<1> DEFINE q == [a \in Ix(k + 1) |-> IF a = 0 THEN Zero ELSE w[a - 1]]
<1>1. /\ \A a \in Ix(k + 1) : a # 0 => a - 1 \in Ix(k)
      /\ \A a \in Ix(k) : a + 1 \in Ix(k + 1) /\ a + 1 # 0 /\ (a + 1) - 1 = a
      /\ k - 1 \in Ix(k) /\ (k - 1) + 1 = k
      /\ \A a \in 0 .. k - 2 : a \in Ix(k)
  BY DEF Ix
<1>2. Zero \in gf
  BY FieldLaws
<1>3. q \in Vec(Ix(k + 1))
  BY <1>1, <1>2 DEF Vec
<1>4. \A a \in Ix(k) : q[a + 1] = w[a]
  BY <1>1
<1> HIDE DEF q
<1>5. PICK b \in Vec(Ix(k)) :
          /\ b[k - 1] = q[k]
          /\ \A a \in 0 .. k - 2 : b[a] = Plus(q[a + 1], Times(u, b[a + 1]))
  BY <1>3, QuotientExists
<1>6. b[k - 1] = w[k - 1]
  BY <1>1, <1>4, <1>5
<1>7. \A a \in 0 .. k - 2 : b[a] = Plus(w[a], Times(u, b[a + 1]))
  BY <1>1, <1>4, <1>5
<1> QED
  BY <1>5, <1>6, <1>7 DEF Horner

\* and stays in the field.
LEMMA HornerType ==
    ASSUME NEW k \in Nat \ {0}, NEW w \in Vec(Ix(k)), NEW u \in gf,
           NEW f, DOMAIN f = Ix(k), f = [a \in Ix(k) |-> f[a]], Horner(f, w, u, k)
    PROVE  f \in Vec(Ix(k))
<1>1. \A a \in Ix(k) : w[a] \in gf
  BY DEF Vec
<1>2. f[k - 1] \in gf
  BY <1>1 DEF Horner, Ix
<1>3. ASSUME NEW a \in 0 .. k - 2, f[a + 1] \in gf PROVE f[a] \in gf
  <2>1. a \in Ix(k)
    BY DEF Ix
  <2>2. f[a] = Plus(w[a], Times(u, f[a + 1]))
    BY DEF Horner
  <2> QED
    BY <1>1, <1>3, <2>1, <2>2, PlusType, TimesType
<1>4. \A a \in 0 .. k - 1 : f[a] \in gf
  BY <1>2, <1>3, DownType
<1> QED
  BY <1>4 DEF Vec, Ix

\* What was given back is the value at u.
LEMMA HornerValue ==
    ASSUME NEW k \in Nat \ {0}, NEW w \in Vec(Ix(k)), NEW u \in gf,
           NEW f \in Vec(Ix(k)), Horner(f, w, u, k), NEW v, IsPowers(v, u, k)
    PROVE  f[0] = Dot(w, v)
<1>1. CASE k = 1
  <2>1. v \in Vec(Ix(k)) /\ v[0] = One /\ 0 \in Ix(k) /\ \A a \in Ix(k) : a = 0
    BY <1>1 DEF IsPowers, Ix
  <2>2. Dot(w, v) = Times(w[0], One)
    BY <2>1, DotOne
  <2>3. w[0] \in gf
    BY <2>1 DEF Vec
  <2>4. Times(w[0], One) = w[0]
    BY <2>3, FieldLaws
  <2> QED
    BY <1>1, <2>2, <2>4 DEF Horner
<1>2. CASE k # 1
  <2> DEFINE n == k - 1
             b == [a \in Ix(n) |-> f[a + 1]]
  <2>1. n \in Nat \ {0} /\ n + 1 = k
    BY <1>2
  <2>2. \A a \in Ix(n) : a + 1 \in Ix(k)
    BY DEF Ix
  <2>3. \A a \in Ix(k) : f[a] \in gf
    BY DEF Vec
  <2>4. b \in Vec(Ix(n)) /\ \A a \in Ix(n) : b[a] = f[a + 1]
    BY <2>2, <2>3 DEF Vec
  <2>5. \A x, y : Plus(x, y) = Plus(y, x) /\ Plus(x, Plus(x, y)) = y /\ Plus(Plus(y, x), x) = y
    BY DEF Plus
  <2>6. \A a \in 0 .. n - 1 : w[a] = Plus(f[a], Times(u, f[a + 1]))
    <3> SUFFICES ASSUME NEW a \in 0 .. n - 1 PROVE w[a] = Plus(f[a], Times(u, f[a + 1]))
      OBVIOUS
    <3>1. a \in 0 .. k - 2
      OBVIOUS
    <3>2. f[a] = Plus(w[a], Times(u, f[a + 1]))
      BY <3>1 DEF Horner
    <3> QED
      BY <2>5, <3>2
  <2>7. Divides(w, b, u, f[0], n)
    <3>1. w[0] = Plus(f[0], Times(u, b[0]))
      <4>1. 0 \in Ix(n) /\ 0 \in 0 .. n - 1 /\ 0 + 1 = 1
        BY <2>1 DEF Ix
      <4> QED
        BY <2>4, <2>6, <4>1
    <3>2. ASSUME NEW a \in 1 .. n - 1 PROVE w[a] = Plus(b[a - 1], Times(u, b[a]))
      <4>1. a \in Ix(n) /\ a - 1 \in Ix(n) /\ (a - 1) + 1 = a /\ a \in 0 .. n - 1
        BY DEF Ix
      <4> HIDE DEF b, n
      <4> QED
        BY <2>4, <2>6, <4>1
    <3>3. w[n] = b[n - 1]
      <4>1. n - 1 \in Ix(n) /\ (n - 1) + 1 = k - 1
        BY <2>1 DEF Ix
      <4>2. b[n - 1] = f[k - 1]
        BY <2>4, <4>1
      <4> QED
        BY <4>2 DEF Horner
    <3> QED
      BY <3>1, <3>2, <3>3 DEF Divides
  <2>8. IsPowers(v, u, n + 1) /\ w \in Vec(Ix(n + 1))
    BY <2>1
  <2>9. f[0] \in gf
    BY <2>1, <2>3 DEF Ix
  <2> HIDE DEF b, n
  <2> DEFINE X == Dot(b, Short(v, n))
  <2>10. Dot(w, v) = Plus(f[0], Times(Plus(u, u), X))
    BY <2>1, <2>4, <2>7, <2>8, <2>9, Divide
  <2>11. Short(v, n) \in Vec(Ix(n))
    BY <2>1, <2>8, ShortPowers
  <2>12. X \in gf
    BY <2>4, <2>11, TermsIs
  <2> HIDE DEF X
  <2>13. Times(Zero, X) = Zero
    BY <2>12, FieldLaws
  <2> QED
    BY <2>10, <2>13, PlusZero
<1> QED
  BY <1>1, <1>2

\* A polynomial of degree k whose highest coefficient is 1.
Monic(c, k) == [a \in Ix(k + 1) |-> IF a = k THEN One ELSE c[a]]

\* Its entries.
LEMMA MonicIs ==
    ASSUME NEW k \in Nat, NEW c \in Vec(Ix(k))
    PROVE  /\ Monic(c, k) \in Vec(Ix(k + 1)) /\ Monic(c, k)[k] = One
           /\ \A a \in Ix(k) : Monic(c, k)[a] = c[a]
<1>1. One \in gf
  BY FieldLaws
<1>2. k \in Ix(k + 1) /\ (\A a \in Ix(k) : a \in Ix(k + 1) /\ a # k)
      /\ (\A a \in Ix(k + 1) : a # k => a \in Ix(k))
  BY DEF Ix
<1> QED
  BY <1>1, <1>2 DEF Monic, Vec

\* VdmColumn divides the product by x + u and scales by the value of the quotient at u.
LEMMA VdmColumnIs ==
    ASSUME NEW k \in Nat \ {0}, NEW c \in Vec(Ix(k)), NEW u \in gf, NEW v, IsPowers(v, u, k)
    PROVE  \E b \in Vec(Ix(k)) :
               /\ b[k - 1] = One
               /\ \A a \in 0 .. k - 2 : b[a] = Plus(Monic(c, k)[a + 1], Times(u, b[a + 1]))
               /\ VdmColumn(c, u, k) = [a \in Ix(k) |-> Times(inverse[Dot(b, v)], b[a])]
<1> DEFINE w == [a \in Ix(k) |-> Monic(c, k)[a + 1]]
           IsB(f) == f = [a \in 0 .. k - 1 |->
                           IF a = k - 1 THEN One ELSE Plus(c[a + 1], gf_mul[u][f[a + 1]])]
           b == CHOOSE f : IsB(f)
           IsT(f) == f = [a \in 0 .. k - 1 |->
                           IF a = k - 1 THEN One ELSE Plus(gf_mul[u][f[a + 1]], b[a])]
           t == CHOOSE f : IsT(f)
<1>1. VdmColumn(c, u, k) = [a \in 0 .. k - 1 |-> gf_mul[inverse[t[0]]][b[a]]]
  BY DEF VdmColumn
<1>2. /\ \A a \in Ix(k) : a + 1 \in Ix(k + 1)
      /\ k - 1 \in Ix(k) /\ (k - 1) + 1 = k
      /\ \A a \in 0 .. k - 2 : a \in Ix(k) /\ a + 1 \in Ix(k) /\ a # k - 1
      /\ \A a \in Ix(k) : a # k - 1 => a \in 0 .. k - 2
      /\ Ix(k) = 0 .. k - 1
  BY DEF Ix
<1>3. w \in Vec(Ix(k))
  <2>1. \A a \in Ix(k + 1) : Monic(c, k)[a] \in gf
    BY MonicIs, VecAt
  <2> QED
    BY <1>2, <2>1 DEF Vec
<1>4. w[k - 1] = One /\ \A a \in 0 .. k - 2 : w[a] = c[a + 1]
  BY <1>2, MonicIs
<1>w. \A a \in 0 .. k - 2 : w[a] = Monic(c, k)[a + 1]
  BY <1>2
<1> HIDE DEF w
<1>5. ASSUME NEW f, DOMAIN f = Ix(k), f = [a \in Ix(k) |-> f[a]]
      PROVE  IsB(f) <=> Horner(f, w, u, k)
  <2>1. IsB(f) <=> \A a \in Ix(k) :
                      f[a] = IF a = k - 1 THEN One ELSE Plus(c[a + 1], gf_mul[u][f[a + 1]])
    BY <1>2, <1>5
  <2> HIDE DEF IsB
  <2>2. Horner(f, w, u, k)
        <=> /\ f[k - 1] = One
            /\ \A a \in 0 .. k - 2 : f[a] = Plus(c[a + 1], gf_mul[u][f[a + 1]])
    BY <1>4 DEF Horner, Times
  <2> QED
    BY <1>2, <2>1, <2>2
<1>6. IsB(b)
  <2>1. PICK f \in Vec(Ix(k)) : Horner(f, w, u, k)
    BY <1>3, HornerExists
  <2>2. DOMAIN f = Ix(k) /\ f = [a \in Ix(k) |-> f[a]]
    BY <2>1 DEF Vec
  <2>3. IsB(f)
    BY <1>5, <2>1, <2>2
  <2> HIDE DEF IsB
  <2> QED
    BY <2>3
<1>7. DOMAIN b = Ix(k) /\ b = [a \in Ix(k) |-> b[a]]
  <2> HIDE DEF b
  <2> QED
    BY <1>2, <1>6
<1> HIDE DEF IsB, b
<1>8. Horner(b, w, u, k)
  BY <1>5, <1>6, <1>7
<1>9. b \in Vec(Ix(k))
  BY <1>3, <1>7, <1>8, HornerType
<1>10. b[k - 1] = One
  BY <1>4, <1>8 DEF Horner
<1>11. ASSUME NEW f, DOMAIN f = Ix(k), f = [a \in Ix(k) |-> f[a]]
       PROVE  IsT(f) <=> Horner(f, b, u, k)
  <2>1. IsT(f) <=> \A a \in Ix(k) :
                      f[a] = IF a = k - 1 THEN One ELSE Plus(gf_mul[u][f[a + 1]], b[a])
    BY <1>2, <1>11
  <2> HIDE DEF IsT
  <2>2. \A x, y : Plus(x, y) = Plus(y, x)
    BY PlusCommutes
  <2>3. Horner(f, b, u, k)
        <=> /\ f[k - 1] = One
            /\ \A a \in 0 .. k - 2 : f[a] = Plus(gf_mul[u][f[a + 1]], b[a])
    BY <1>10, <2>2 DEF Horner, Times
  <2> QED
    BY <1>2, <2>1, <2>3
<1>12. IsT(t)
  <2>1. PICK f \in Vec(Ix(k)) : Horner(f, b, u, k)
    BY <1>9, HornerExists
  <2>2. DOMAIN f = Ix(k) /\ f = [a \in Ix(k) |-> f[a]]
    BY <2>1 DEF Vec
  <2>3. IsT(f)
    BY <1>11, <2>1, <2>2
  <2> HIDE DEF IsT
  <2> QED
    BY <2>3
<1>13. DOMAIN t = Ix(k) /\ t = [a \in Ix(k) |-> t[a]]
  <2> HIDE DEF t
  <2> QED
    BY <1>2, <1>12
<1> HIDE DEF IsT, t
<1>14. Horner(t, b, u, k)
  BY <1>11, <1>12, <1>13
<1>15. t \in Vec(Ix(k))
  BY <1>9, <1>13, <1>14, HornerType
<1>16. t[0] = Dot(b, v)
  BY <1>9, <1>14, <1>15, HornerValue
<1>17. VdmColumn(c, u, k) = [a \in Ix(k) |-> Times(inverse[Dot(b, v)], b[a])]
  BY <1>1, <1>2, <1>16 DEF Times
<1>18. \A a \in 0 .. k - 2 : b[a] = Plus(Monic(c, k)[a + 1], Times(u, b[a + 1]))
  BY <1>8, <1>w DEF Horner
<1> QED
  BY <1>9, <1>10, <1>17, <1>18

\* What one round of invert_vdm makes of the coefficients c.
NextCoefficients(c, p, a, k) ==
    [b \in Ix(k) |->
        IF b = k - 1 THEN Plus(c[b], p[a])
        ELSE IF b >= k - a THEN Plus(c[b], gf_mul[p[a]][c[b + 1]])
        ELSE c[b]]

\* They are elements of the field.
LEMMA NextCoefficientsType ==
    ASSUME NEW k \in Nat \ {0}, NEW p \in Vec(Ix(k)), NEW a \in Ix(k), NEW c \in Vec(Ix(k))
    PROVE  NextCoefficients(c, p, a, k) \in Vec(Ix(k))
<1>1. \A b \in Ix(k) : c[b] \in gf /\ p[b] \in gf
  BY DEF Vec
<1>2. ASSUME NEW b \in Ix(k) PROVE NextCoefficients(c, p, a, k)[b] \in gf
  <2>1. CASE b = k - 1
    <3>1. Plus(c[b], p[a]) \in gf
      BY <1>1, PlusType
    <3> QED
      BY <2>1, <3>1 DEF NextCoefficients
  <2>2. CASE b # k - 1
    <3>1. b + 1 \in Ix(k)
      BY <2>2 DEF Ix
    <3>2. Plus(c[b], Times(p[a], c[b + 1])) \in gf
      BY <1>1, <3>1, PlusType, TimesType
    <3> QED
      BY <1>1, <2>2, <3>2 DEF NextCoefficients, Times
  <2> QED
    BY <2>1, <2>2
<1> QED
  BY <1>2 DEF NextCoefficients, Vec

\* The coefficients c after round a: a product of a + 1 factors, shifted to the top.
RootsSoFar(c, p, V, a, k) ==
    /\ c \in Vec(Ix(k))
    /\ \A b \in Ix(k) : b < k - a => c[b] = Zero
    /\ \A r \in 0 .. a : Dot(Monic(c, k), V[r]) = Zero

\* The polynomial that starts with 0 is 0 at 0.
LEMMA ZeroAtZero ==
    ASSUME NEW k \in Nat \ {0}, NEW c \in Vec(Ix(k)), c[0] = Zero,
           NEW v, IsPowers(v, Zero, k + 1)
    PROVE  Dot(Monic(c, k), v) = Zero
<1>1. Monic(c, k) \in Vec(Ix(k + 1)) /\ Monic(c, k)[0] = Zero
  <2>1. 0 \in Ix(k)
    BY DEF Ix
  <2> QED
    BY <2>1, MonicIs
<1>2. v \in Vec(Ix(k + 1))
  BY DEF IsPowers
<1>3. ASSUME NEW a \in Ix(k + 1), a # 0 PROVE v[a] = Zero
  <2>1. a - 1 \in 0 .. (k + 1) - 2 /\ (a - 1) + 1 = a /\ a - 1 \in Ix(k + 1)
    BY <1>3 DEF Ix
  <2>2. v[a] = Times(Zero, v[a - 1])
    BY <2>1 DEF IsPowers
  <2>3. v[a - 1] \in gf
    BY <1>2, <2>1 DEF Vec
  <2> QED
    BY <2>2, <2>3, FieldLaws
<1> QED
  BY <1>1, <1>2, <1>3, DotZero

\* The product of one factor: the first point is 0,
LEMMA FirstRoot ==
    ASSUME NEW k \in Nat \ {0}, NEW p \in Vec(Ix(k)), p[0] = Zero, NEW V,
           \A r \in Ix(k) : IsPowers(V[r], p[r], k + 1),
           NEW c, c = [b \in Ix(k) |-> IF b = k - 1 THEN p[0] ELSE Zero]
    PROVE  RootsSoFar(c, p, V, 0, k)
<1>1. Zero \in gf
  BY FieldLaws
<1>2. c \in Vec(Ix(k)) /\ \A b \in Ix(k) : c[b] = Zero
  BY <1>1 DEF Vec
<1>3. 0 \in Ix(k)
  BY DEF Ix
<1>4. Dot(Monic(c, k), V[0]) = Zero
  BY <1>2, <1>3, ZeroAtZero
<1> QED
  BY <1>2, <1>4 DEF RootsSoFar

\* and one more factor adds one more root.
LEMMA NextRoot ==
    ASSUME NEW k \in Nat \ {0}, NEW p \in Vec(Ix(k)), p[0] = Zero, NEW V,
           \A r \in Ix(k) : IsPowers(V[r], p[r], k + 1),
           NEW a \in 1 .. k - 1, NEW c, RootsSoFar(c, p, V, a - 1, k)
    PROVE  RootsSoFar(NextCoefficients(c, p, a, k), p, V, a, k)
<1> DEFINE n == NextCoefficients(c, p, a, k)
           C == Monic(c, k)
           N == Monic(n, k)
           b == [e \in Ix(k) |-> C[e + 1]]
<1>1. c \in Vec(Ix(k)) /\ (\A e \in Ix(k) : e < k - (a - 1) => c[e] = Zero)
  BY DEF RootsSoFar
<1>2. a \in Ix(k) /\ 0 \in Ix(k)
  BY DEF Ix
<1>3. n \in Vec(Ix(k))
  BY <1>1, <1>2, NextCoefficientsType
<1>4. \A e \in Ix(k) : c[e] \in gf /\ p[e] \in gf
  BY <1>1 DEF Vec
<1>5. \A x \in gf : Times(x, Zero) = Zero /\ Times(Zero, x) = Zero /\ Times(x, One) = x
  BY FieldLaws
<1>6. C \in Vec(Ix(k + 1)) /\ C[k] = One /\ \A e \in Ix(k) : C[e] = c[e]
  BY <1>1, MonicIs
<1>7. N \in Vec(Ix(k + 1)) /\ N[k] = One /\ \A e \in Ix(k) : N[e] = n[e]
  BY <1>3, MonicIs
<1>8. \A e \in Ix(k) : e < k - a => n[e] = Zero
  <2> SUFFICES ASSUME NEW e \in Ix(k), e < k - a PROVE n[e] = Zero
    OBVIOUS
  <2>1. e < k - (a - 1) /\ e # k - 1 /\ ~(e >= k - a)
    BY DEF Ix
  <2>2. n[e] = c[e]
    BY <2>1 DEF NextCoefficients
  <2> QED
    BY <1>1, <2>1, <2>2
<1>9. ASSUME NEW e \in Ix(k) PROVE n[e] = Plus(C[e], Times(p[a], C[e + 1]))
  <2>1. CASE e = k - 1
    <3>1. n[e] = Plus(c[e], p[a])
      BY <2>1 DEF NextCoefficients
    <3>2. e + 1 = k
      BY <2>1
    <3> HIDE DEF n, C
    <3> QED
      BY <1>2, <1>4, <1>5, <1>6, <3>1, <3>2
  <2>2. CASE e # k - 1 /\ e >= k - a
    <3>1. n[e] = Plus(c[e], Times(p[a], c[e + 1]))
      BY <2>2 DEF NextCoefficients, Times
    <3>2. e + 1 \in Ix(k)
      BY <2>2 DEF Ix
    <3> HIDE DEF n, C
    <3> QED
      BY <1>6, <3>1, <3>2
  <2>3. CASE e # k - 1 /\ ~(e >= k - a)
    <3>1. n[e] = c[e]
      BY <2>3 DEF NextCoefficients
    <3>2. e + 1 \in Ix(k) /\ e + 1 < k - (a - 1)
      BY <2>3 DEF Ix
    <3> HIDE DEF n, C
    <3>3. C[e + 1] = Zero
      BY <1>1, <1>6, <3>2
    <3>4. Times(p[a], C[e + 1]) = Zero
      BY <1>2, <1>4, <1>5, <3>3
    <3> QED
      BY <1>6, <3>1, <3>4, PlusZero
  <2> QED
    BY <2>1, <2>2, <2>3
<1>10. /\ \A e \in Ix(k) : e + 1 \in Ix(k + 1)
       /\ k - 1 \in Ix(k) /\ (k - 1) + 1 = k
       /\ \A e \in 1 .. k - 1 : e \in Ix(k) /\ e - 1 \in Ix(k) /\ (e - 1) + 1 = e
  BY DEF Ix
<1>11. b \in Vec(Ix(k)) /\ \A e \in Ix(k) : b[e] = C[e + 1]
  <2>1. \A e \in Ix(k + 1) : C[e] \in gf
    BY <1>6, VecAt
  <2> HIDE DEF C
  <2> QED
    BY <1>10, <2>1 DEF Vec
<1>12. C[0] = Zero
  <2>1. 0 < k - (a - 1)
    OBVIOUS
  <2> QED
    BY <1>1, <1>2, <1>6, <2>1
<1> HIDE DEF n, C, N, b
<1>13. Zero \in gf /\ p[a] \in gf /\ \A e \in Ix(k) : b[e] \in gf
  <2>1. \A e \in Ix(k) : b[e] \in gf
    BY <1>11, VecAt
  <2>2. Zero \in gf
    BY FieldLaws
  <2> QED
    BY <1>2, <1>4, <2>1, <2>2
<1>14. Divides(C, b, Zero, Zero, k)
  <2>1. \A e \in Ix(k) : Times(Zero, b[e]) = Zero
    BY <1>5, <1>13
  <2> QED
    BY <1>2, <1>6, <1>10, <1>11, <1>12, <2>1, PlusZero DEF Divides
<1>15. Divides(N, b, p[a], Zero, k)
  <2>1. N[0] = Plus(Zero, Times(p[a], b[0]))
    BY <1>2, <1>7, <1>9, <1>11, <1>12
  <2>2. \A e \in 1 .. k - 1 : N[e] = Plus(b[e - 1], Times(p[a], b[e]))
    BY <1>7, <1>9, <1>10, <1>11
  <2>3. N[k] = b[k - 1]
    BY <1>6, <1>7, <1>10, <1>11
  <2> QED
    BY <2>1, <2>2, <2>3 DEF Divides
<1>16. ASSUME NEW r \in 0 .. a PROVE Dot(N, V[r]) = Zero
  <2> DEFINE X == Dot(b, Short(V[r], k))
             y == p[r]
  <2>1. r \in Ix(k)
    BY DEF Ix
  <2>2. y \in gf /\ IsPowers(V[r], y, k + 1)
    BY <1>4, <2>1
  <2> HIDE DEF y
  <2>3. Dot(C, V[r]) = Plus(Zero, Times(Plus(y, Zero), X))
    BY <1>6, <1>11, <1>13, <1>14, <2>2, Divide
  <2>4. Dot(N, V[r]) = Plus(Zero, Times(Plus(y, p[a]), X))
    BY <1>7, <1>11, <1>13, <1>15, <2>2, Divide
  <2>5. Short(V[r], k) \in Vec(Ix(k))
    BY <2>2, ShortPowers
  <2>6. X \in gf
    BY <1>11, <2>5, TermsIs
  <2> HIDE DEF X
  <2>7. CASE r = a
    <3>1. Plus(y, p[a]) = Zero
      BY <2>7, PlusZero DEF y
    <3> QED
      BY <1>5, <2>4, <2>6, <3>1, PlusZero
  <2>8. CASE r # a /\ y # Zero
    <3>1. r \in 0 .. a - 1
      BY <2>8
    <3>2. Dot(C, V[r]) = Zero
      BY <3>1 DEF RootsSoFar, C
    <3>3. Times(y, X) = Zero
      BY <2>3, <3>2, PlusZero
    <3>4. X = Zero
      BY <2>2, <2>6, <2>8, <3>3, FieldLaws
    <3>5. Plus(y, p[a]) \in gf
      BY <1>13, <2>2, PlusType
    <3> QED
      BY <1>5, <2>4, <3>4, <3>5, PlusZero
  <2>9. CASE y = Zero
    <3>1. 0 < k - a
      OBVIOUS
    <3>2. n[0] = Zero
      BY <1>2, <1>8, <3>1
    <3> QED
      BY <1>3, <2>2, <2>9, <3>2, ZeroAtZero DEF N
  <2> QED
    BY <2>7, <2>8, <2>9
<1> QED
  BY <1>3, <1>8, <1>16 DEF RootsSoFar, n, N

\* The coefficients that invert_vdm computes are those of the product of the factors
\* x + p[r], provided p[0] = 0: it never sets the lowest coefficient.
LEMMA CoefficientsHaveRoots ==
    ASSUME NEW k \in Nat \ {0}, NEW p \in Vec(Ix(k)), p[0] = Zero, NEW V,
           \A r \in Ix(k) : IsPowers(V[r], p[r], k + 1)
    PROVE  /\ VdmCoefficients(p, k) \in Vec(Ix(k))
           /\ \A r \in Ix(k) : Dot(Monic(VdmCoefficients(p, k), k), V[r]) = Zero
<1> DEFINE base == [b \in Ix(k) |-> IF b = k - 1 THEN p[0] ELSE Zero]
           Is(f) == f = [a \in 0 .. k - 1 |->
                       IF a = 0 THEN [b \in 0 .. k - 1 |-> IF b = k - 1 THEN p[0] ELSE Zero]
                       ELSE [b \in 0 .. k - 1 |->
                           IF b = k - 1 THEN Plus(f[a - 1][b], p[a])
                           ELSE IF b >= k - a
                                THEN Plus(f[a - 1][b], gf_mul[p[a]][f[a - 1][b + 1]])
                           ELSE f[a - 1][b]]]
           Run(f) == f = [a \in 0 .. k - 1 |->
                        IF a = 0 THEN base ELSE NextCoefficients(f[a - 1], p, a, k)]
           c == CHOOSE f : Is(f)
           H == [z \in Vec(Ix(k)) \X Nat |->
                    IF z[2] \in Ix(k) THEN NextCoefficients(z[1], p, z[2], k) ELSE z[1]]
<1>1. VdmCoefficients(p, k) = c[k - 1]
  BY DEF VdmCoefficients
<1>2. \A f : Is(f) <=> Run(f)
  BY DEF NextCoefficients, Ix
<1>3. RootsSoFar(base, p, V, 0, k)
  BY FirstRoot
<1> HIDE DEF Is, base
<1>4. base \in Vec(Ix(k))
  BY <1>3 DEF RootsSoFar
<1>5. H \in Steps(Vec(Ix(k)))
  <2>1. ASSUME NEW z \in Vec(Ix(k)) \X Nat PROVE H[z] \in Vec(Ix(k))
    <3>1. z[1] \in Vec(Ix(k))
      OBVIOUS
    <3>2. z[2] \in Ix(k) => NextCoefficients(z[1], p, z[2], k) \in Vec(Ix(k))
      BY <3>1, NextCoefficientsType
    <3> QED
      BY <3>1, <3>2
  <2>2. H = [z \in Vec(Ix(k)) \X Nat |-> H[z]]
    OBVIOUS
  <2> HIDE DEF H
  <2> QED
    BY <2>1, <2>2 DEF Steps
<1>6. \A d \in Vec(Ix(k)), t \in Nat :
          t \in Ix(k) => H[<<d, t>>] = NextCoefficients(d, p, t, k)
  OBVIOUS
<1> HIDE DEF H
<1>7. PICK f : IsRun(f, Vec(Ix(k)), base, H, k - 1)
  BY <1>4, <1>5, RunExists
<1>8. /\ f = [t \in 0 .. k - 1 |-> f[t]] /\ f[0] = base
      /\ \A t \in 0 .. k - 1 : f[t] \in Vec(Ix(k))
      /\ \A t \in 1 .. k - 1 : f[t] = H[<<f[t - 1], t>>]
  BY <1>7 DEF IsRun
<1>9. Run(f)
  <2>1. ASSUME NEW t \in 0 .. k - 1
        PROVE  f[t] = IF t = 0 THEN base ELSE NextCoefficients(f[t - 1], p, t, k)
    <3>1. CASE t = 0
      BY <1>8, <3>1
    <3>2. CASE t # 0
      <4>1. t \in 1 .. k - 1 /\ t - 1 \in 0 .. k - 1 /\ t \in Ix(k) /\ t \in Nat
        BY <3>2 DEF Ix
      <4> QED
        BY <1>6, <1>8, <3>2, <4>1
    <3> QED
      BY <3>1, <3>2
  <2> QED
    BY <1>8, <2>1
<1>10. Run(c)
  <2>1. Is(f)
    BY <1>2, <1>9
  <2> HIDE DEF Run
  <2>2. Is(c)
    BY <2>1
  <2> HIDE DEF c
  <2> QED
    BY <1>2, <2>2
<1> HIDE DEF c
<1>11. c[0] = base /\ \A a \in 1 .. k - 1 : c[a] = NextCoefficients(c[a - 1], p, a, k)
  <2>1. \A a \in 0 .. k - 1 :
            c[a] = IF a = 0 THEN base ELSE NextCoefficients(c[a - 1], p, a, k)
    BY <1>10
  <2> QED
    BY <2>1
<1> HIDE DEF Run
<1> DEFINE S == {t \in Nat : t <= k - 1 => RootsSoFar(c[t], p, V, t, k)}
<1>12. 0 \in S
  BY <1>3, <1>11
<1>13. ASSUME NEW t \in Nat, t \in S PROVE t + 1 \in S
  <2> SUFFICES ASSUME t + 1 <= k - 1 PROVE RootsSoFar(c[t + 1], p, V, t + 1, k)
    OBVIOUS
  <2>1. t + 1 \in 1 .. k - 1 /\ (t + 1) - 1 = t
    OBVIOUS
  <2>2. RootsSoFar(c[t], p, V, t, k)
    BY <1>13, <2>1
  <2>3. RootsSoFar(NextCoefficients(c[t], p, t + 1, k), p, V, t + 1, k)
    BY <2>1, <2>2, NextRoot
  <2> QED
    BY <1>11, <2>1, <2>3
<1>14. Nat \subseteq S
  <2> HIDE DEF S
  <2> QED
    BY <1>12, <1>13, NatInduct
<1>15. RootsSoFar(c[k - 1], p, V, k - 1, k)
  BY <1>14
<1> QED
  BY <1>1, <1>15 DEF RootsSoFar, Ix

\* One more power.
LEMMA LongerPowers ==
    ASSUME NEW k \in Nat \ {0}, NEW y \in gf, NEW v, IsPowers(v, y, k)
    PROVE  \E w : IsPowers(w, y, k + 1) /\ Short(w, k) = v
<1> DEFINE w == [a \in Ix(k + 1) |-> IF a = k THEN Times(y, v[k - 1]) ELSE v[a]]
<1>1. v \in Vec(Ix(k)) /\ v[0] = One /\ \A c \in 0 .. k - 2 : v[c + 1] = Times(y, v[c])
  BY DEF IsPowers
<1>2. /\ \A a \in Ix(k + 1) : a # k => a \in Ix(k)
      /\ \A a \in Ix(k) : a \in Ix(k + 1) /\ a # k
      /\ k - 1 \in Ix(k) /\ 0 \in Ix(k) /\ k \in Ix(k + 1)
  BY DEF Ix
<1>3. \A a \in Ix(k) : v[a] \in gf
  BY <1>1, VecAt
<1>4. Times(y, v[k - 1]) \in gf
  BY <1>2, <1>3, TimesType
<1>5. w \in Vec(Ix(k + 1))
  BY <1>2, <1>3, <1>4 DEF Vec
<1>6. w[k] = Times(y, v[k - 1]) /\ \A a \in Ix(k) : w[a] = v[a]
  BY <1>2
<1> HIDE DEF w
<1>7. ASSUME NEW c \in 0 .. (k + 1) - 2 PROVE w[c + 1] = Times(y, w[c])
  <2>1. CASE c = k - 1
    <3>1. c \in Ix(k) /\ c + 1 = k
      BY <2>1, <1>2
    <3> QED
      BY <1>6, <2>1, <3>1
  <2>2. CASE c # k - 1
    <3>1. c \in 0 .. k - 2 /\ c \in Ix(k) /\ c + 1 \in Ix(k)
      BY <2>2 DEF Ix
    <3> QED
      BY <1>1, <1>6, <3>1
  <2> QED
    BY <2>1, <2>2
<1>8. IsPowers(w, y, k + 1)
  BY <1>1, <1>2, <1>5, <1>6, <1>7 DEF IsPowers
<1>9. Short(w, k) = v
  <2>1. \A a \in Ix(k) : Short(w, k)[a] = v[a]
    BY <1>6 DEF Short
  <2> QED
    BY <1>1, <2>1 DEF Short, Vec
<1> QED
  BY <1>8, <1>9

\* Column u of the inverse: 1 at the point p[u], 0 at the others.
LEMMA VdmColumnAt ==
    ASSUME NEW k \in Nat \ {0}, NEW p \in Vec(Ix(k)), p[0] = Zero,
           \A a, b \in Ix(k) : p[a] = p[b] => a = b,
           NEW V, \A r \in Ix(k) : IsPowers(V[r], p[r], k),
           NEW u \in Ix(k)
    PROVE  LET column == VdmColumn(VdmCoefficients(p, k), p[u], k)
           IN  /\ column \in Vec(Ix(k))
               /\ Dot(column, V[u]) = One
               /\ \A r \in Ix(k) \ {u} : Dot(column, V[r]) = Zero
<1> DEFINE c == VdmCoefficients(p, k)
           Q == Monic(c, k)
           L == [r \in Ix(k) |-> CHOOSE w : IsPowers(w, p[r], k + 1) /\ Short(w, k) = V[r]]
           column == VdmColumn(c, p[u], k)
<1>1. \A r \in Ix(k) : p[r] \in gf
  BY VecAt
<1>2. \A r \in Ix(k) : IsPowers(L[r], p[r], k + 1) /\ Short(L[r], k) = V[r]
  BY <1>1, LongerPowers
<1> HIDE DEF L
<1>3. c \in Vec(Ix(k)) /\ \A r \in Ix(k) : Dot(Q, L[r]) = Zero
  BY <1>2, CoefficientsHaveRoots
<1> HIDE DEF c
<1>4. Q \in Vec(Ix(k + 1)) /\ Q[k] = One
  BY <1>3, MonicIs
<1>5. PICK b \in Vec(Ix(k)) :
          /\ b[k - 1] = One
          /\ \A a \in 0 .. k - 2 : b[a] = Plus(Q[a + 1], Times(p[u], b[a + 1]))
          /\ column = [a \in Ix(k) |-> Times(inverse[Dot(b, V[u])], b[a])]
  <2> DEFINE y == p[u]
             v == V[u]
  <2>1. y \in gf /\ IsPowers(v, y, k)
    BY <1>1
  <2> HIDE DEF y, v
  <2>2. \E b \in Vec(Ix(k)) :
            /\ b[k - 1] = One
            /\ \A a \in 0 .. k - 2 : b[a] = Plus(Q[a + 1], Times(y, b[a + 1]))
            /\ VdmColumn(c, y, k) = [a \in Ix(k) |-> Times(inverse[Dot(b, v)], b[a])]
    BY <1>3, <2>1, VdmColumnIs
  <2> QED
    BY <2>2 DEF y, v
<1> HIDE DEF Q, column
<1>6. PICK rem \in gf : Divides(Q, b, p[u], rem, k)
  BY <1>1, <1>4, <1>5, QuotientDivides
<1>7. ASSUME NEW r \in Ix(k)
      PROVE  /\ Zero = Plus(rem, Times(Plus(p[r], p[u]), Dot(b, V[r])))
             /\ V[r] \in Vec(Ix(k)) /\ Dot(b, V[r]) \in gf
  <2>1. Dot(Q, L[r]) = Plus(rem, Times(Plus(p[r], p[u]), Dot(b, Short(L[r], k))))
    BY <1>1, <1>2, <1>4, <1>6, Divide
  <2>2. V[r] \in Vec(Ix(k))
    BY DEF IsPowers
  <2>3. Dot(b, V[r]) \in gf
    BY <2>2, TermsIs
  <2> QED
    BY <1>2, <1>3, <2>1, <2>2, <2>3
<1>8. rem = Zero
  <2>1. Plus(p[u], p[u]) = Zero
    BY PlusZero
  <2>2. Times(Zero, Dot(b, V[u])) = Zero
    BY <1>7, FieldLaws
  <2> QED
    BY <1>7, <2>1, <2>2, PlusZero
<1>9. ASSUME NEW r \in Ix(k) \ {u} PROVE Dot(b, V[r]) = Zero
  <2>1. Plus(p[r], p[u]) # Zero
    BY PlusCancels
  <2>2. Plus(p[r], p[u]) \in gf
    BY <1>1, PlusType
  <2>3. Times(Plus(p[r], p[u]), Dot(b, V[r])) = Zero
    BY <1>7, <1>8, PlusZero
  <2> QED
    BY <1>7, <2>1, <2>2, <2>3, FieldLaws
<1> DEFINE s == Dot(b, V[u])
<1>10. s \in gf /\ s # Zero
  <2>1. s \in gf
    BY <1>7
  <2>2. ASSUME s = Zero PROVE FALSE
    <3>1. \A r \in Ix(k) : IsPowers(V[r], p[r], k) /\ Dot(b, V[r]) = Zero
      BY <1>9, <2>2
    <3>2. Rooted(k)
      BY RootTheorem
    <3>3. \A a \in Ix(k) : b[a] = Zero
      BY <3>1, <3>2 DEF Rooted
    <3>4. k - 1 \in Ix(k)
      BY DEF Ix
    <3> QED
      BY <1>5, <3>3, <3>4, FieldLaws
  <2> QED
    BY <2>1, <2>2
<1>11. inverse[s] \in gf /\ Times(inverse[s], s) = One
  BY <1>10, InverseIs
<1>12. column = [a \in Ix(k) |-> Times(inverse[s], b[a])]
  BY <1>5
<1> HIDE DEF s
<1>13. column \in Vec(Ix(k)) /\ \A a \in Ix(k) : column[a] = Times(inverse[s], b[a])
  <2>1. \A a \in Ix(k) : b[a] \in gf
    BY VecAt
  <2> QED
    BY <1>11, <1>12, <2>1, TimesType DEF Vec
<1>14. \A r \in Ix(k) : Dot(column, V[r]) = Times(inverse[s], Dot(b, V[r]))
  <2>1. IsFiniteSet(Ix(k))
    BY IxIs
  <2> QED
    BY <1>7, <1>11, <1>13, <2>1, DotScale
<1>15. Dot(column, V[u]) = One
  BY <1>11, <1>14 DEF s
<1>16. \A r \in Ix(k) \ {u} : Dot(column, V[r]) = Zero
  BY <1>9, <1>11, <1>14, FieldLaws
<1> QED
  BY <1>13, <1>15, <1>16 DEF column, c

\* Column c of a matrix.
Column(B, c) == [a \in DOMAIN B |-> B[a][c]]

\* A row times a matrix, and a matrix times a vector.
RowBy(p, B, D) == [c \in D |-> Dot(p, Column(B, c))]
Image(B, x, D) == [a \in D |-> Dot(B[a], x)]

\* Rows and images are vectors.
LEMMA RowByIs ==
    ASSUME NEW D, NEW p \in Vec(D), NEW B \in Mat(D), NEW x \in Vec(D)
    PROVE  /\ RowBy(p, B, D) \in Vec(D) /\ Image(B, x, D) \in Vec(D)
           /\ \A c \in D : Column(B, c) \in Vec(D) /\ \A a \in D : Column(B, c)[a] = B[a][c]
<1>1. DOMAIN B = D /\ \A a \in D : B[a] \in Vec(D)
  BY DEF Mat
<1>2. \A a, c \in D : B[a][c] \in gf
  BY <1>1, VecAt
<1>3. \A c \in D : Column(B, c) \in Vec(D) /\ \A a \in D : Column(B, c)[a] = B[a][c]
  BY <1>1, <1>2 DEF Column, Vec
<1>4. \A c \in D : Dot(p, Column(B, c)) \in gf /\ Dot(B[c], x) \in gf
  BY <1>1, <1>3, TermsIs
<1> QED
  BY <1>3, <1>4 DEF RowBy, Image, Vec

\* The product of matrices is associative, for a row and a vector.
LEMMA RowDot ==
    ASSUME NEW D, IsFiniteSet(D), NEW p \in Vec(D), NEW B \in Mat(D), NEW x \in Vec(D)
    PROVE  Dot(RowBy(p, B, D), x) = Dot(p, Image(B, x, D))
<1> DEFINE E == D
           w == Image(B, x, D)
           row == RowBy(p, B, D)
           T == [c \in D |-> Column(B, c)]
<1>a. w \in Vec(D) /\ \A a \in D : w[a] = Dot(B[a], x)
  BY RowByIs DEF Image
<1>b. row \in Vec(E) /\ \A c \in E : row[c] = Dot(p, T[c])
  BY RowByIs DEF RowBy
<1>c. T \in [E -> Vec(D)] /\ \A a \in D, c \in E : T[c][a] = B[a][c]
  BY RowByIs
<1>d. B \in [D -> Vec(E)]
  BY DEF Mat
<1> HIDE DEF T, w, row, E
<1> DEFINE F == [a \in D |-> [c \in E |-> Times(p[a], Times(B[a][c], x[c]))]]
           G == [c \in E |-> [a \in D |-> Times(p[a], Times(B[a][c], x[c]))]]
<1>1. \A a \in D, c \in E : B[a] \in Vec(E) /\ B[a][c] \in gf /\ p[a] \in gf /\ x[c] \in gf
  BY <1>d, VecAt DEF E
<1>2. \A c \in E : T[c] \in Vec(D)
  BY <1>c
<1>3. \A a \in D, c \in E : Times(p[a], Times(B[a][c], x[c])) \in gf
  BY <1>1, TimesType
<1>4. F \in [D -> Vec(E)] /\ G \in [E -> Vec(D)]
  BY <1>3 DEF Vec
<1>5. \A a \in D, c \in E : F[a][c] = Times(p[a], Times(B[a][c], x[c])) /\ G[c][a] = F[a][c]
  OBVIOUS
<1> HIDE DEF F, G
<1>6. Terms(p, w) \in Vec(D) /\ \A a \in D : Terms(p, w)[a] = Times(p[a], w[a])
  BY <1>a, TermsIs
<1>7. Terms(row, x) \in Vec(E) /\ \A c \in E : Terms(row, x)[c] = Times(row[c], x[c])
  BY <1>b, TermsIs DEF E
<1>8. ASSUME NEW a \in D PROVE Terms(p, w)[a] = Sum(F[a])
  <2> DEFINE h == Terms(B[a], x)
  <2>1. B[a] \in Vec(E) /\ F[a] \in Vec(E) /\ p[a] \in gf
    BY <1>4, <1>d, VecAt
  <2>2. h \in Vec(E) /\ \A c \in E : h[c] = Times(B[a][c], x[c])
    BY <2>1, TermsIs DEF E
  <2>3. Sum(h) = w[a]
    BY <1>a DEF Dot
  <2> HIDE DEF h
  <2>4. Sum(F[a]) = Times(p[a], Sum(h))
    BY <1>5, <2>1, <2>2, SumTimes DEF E
  <2> QED
    BY <1>6, <2>3, <2>4
<1>9. ASSUME NEW c \in E PROVE Terms(row, x)[c] = Sum(G[c])
  <2> DEFINE h == Terms(p, T[c])
  <2>1. T[c] \in Vec(D) /\ G[c] \in Vec(D) /\ x[c] \in gf
    BY <1>4, <1>c, VecAt DEF E
  <2>2. h \in Vec(D) /\ \A a \in D : h[a] = Times(p[a], T[c][a])
    BY <2>1, TermsIs
  <2>3. Sum(h) = row[c] /\ row[c] \in gf
    BY <1>b, VecAt DEF Dot
  <2> HIDE DEF h
  <2>4. ASSUME NEW a \in D PROVE G[c][a] = Times(x[c], h[a])
    <3>1. /\ Times(B[a][c], x[c]) = Times(x[c], B[a][c])
          /\ Times(p[a], x[c]) = Times(x[c], p[a])
      BY <1>1, TimesCommutes
    <3>2. /\ Times(Times(p[a], x[c]), B[a][c]) = Times(p[a], Times(x[c], B[a][c]))
          /\ Times(Times(x[c], p[a]), B[a][c]) = Times(x[c], Times(p[a], B[a][c]))
      BY <1>1, TimesAssociates
    <3>3. G[c][a] = Times(p[a], Times(B[a][c], x[c]))
      BY <1>5
    <3>4. h[a] = Times(p[a], B[a][c])
      BY <1>c, <2>2
    <3> QED
      BY <3>1, <3>2, <3>3, <3>4
  <2>5. Sum(G[c]) = Times(x[c], Sum(h))
    BY <2>1, <2>2, <2>4, SumTimes
  <2>6. Times(x[c], row[c]) = Times(row[c], x[c])
    BY <2>1, <2>3, TimesCommutes
  <2> QED
    BY <1>7, <2>3, <2>5, <2>6
<1>10. Sum(Terms(p, w)) = Sum(Terms(row, x))
  <2> DEFINE r == Terms(p, w)
             c == Terms(row, x)
  <2>1. r \in Vec(D) /\ c \in Vec(E)
    BY <1>6, <1>7
  <2>2. \A a \in D : r[a] = Sum(F[a])
    BY <1>8
  <2>3. \A b \in E : c[b] = Sum(G[b])
    BY <1>9
  <2> HIDE DEF r, c
  <2>4. Sum(r) = Sum(c)
    BY <1>4, <1>5, <2>1, <2>2, <2>3, SumSwap DEF E
  <2> QED
    BY <2>4 DEF r, c
<1> QED
  BY <1>10 DEF Dot, row, w

\* The point whose powers are row r of the Vandermonde matrix.
Point(r) == IF r = 0 THEN Zero ELSE Pow(r - 1)

\* Different rows belong to different points.
LEMMA PointsDiffer ==
    /\ \A r \in Nat : Point(r) \in gf
    /\ \A r, s \in 0 .. GF_SIZE : Point(r) = Point(s) => r = s
<1>1. Zero \in gf /\ GF_SIZE \in Nat \ {0}
  BY FieldLaws, GfCardinality
<1>2. ASSUME NEW r \in Nat PROVE Point(r) \in gf /\ (r # 0 => Point(r) # Zero)
  <2>1. r # 0 => r - 1 \in Nat
    OBVIOUS
  <2> QED
    BY <1>1, <2>1, PowIs DEF Point
<1>3. ASSUME NEW r \in 0 .. GF_SIZE, NEW s \in 0 .. GF_SIZE, Point(r) = Point(s)
      PROVE  r = s
  <2>1. CASE r = 0 \/ s = 0
    <3>1. r \in Nat /\ s \in Nat
      OBVIOUS
    <3> QED
      BY <1>2, <1>3, <2>1, <3>1 DEF Point
  <2>2. CASE r # 0 /\ s # 0
    <3>1. r - 1 \in 0 .. GF_SIZE - 1 /\ s - 1 \in 0 .. GF_SIZE - 1
      BY <1>1, <2>2
    <3>2. Pow(r - 1) = Pow(s - 1)
      BY <1>3, <2>2 DEF Point
    <3>3. r - 1 = s - 1
      BY <3>1, <3>2, PowIs
    <3> QED
      BY <3>3
  <2> QED
    BY <2>1, <2>2
<1> QED
  BY <1>2, <1>3

\* Each row holds the powers of its point.
LEMMA RowsArePowers ==
    ASSUME NEW k \in Nat \ {0}, NEW r \in Nat
    PROVE  IsPowers(VdmRow(r, k), Point(r), k)
<1>1. Zero \in gf /\ One \in gf
  BY FieldLaws
<1>2. 0 \in Ix(k) /\ Ix(k) = 0 .. k - 1
  BY DEF Ix
<1>3. CASE r = 0
  <2> DEFINE v == VdmRow(r, k)
  <2>1. v = [c \in 0 .. k - 1 |-> IF c = 0 THEN One ELSE Zero]
    BY <1>3 DEF VdmRow, UnitRow
  <2> HIDE DEF v
  <2>2. v \in Vec(Ix(k)) /\ v[0] = One /\ \A c \in 1 .. k - 1 : v[c] = Zero
    BY <1>1, <1>2, <2>1 DEF Vec
  <2>3. ASSUME NEW c \in 0 .. k - 2 PROVE v[c + 1] = Times(Zero, v[c])
    <3>1. c + 1 \in 1 .. k - 1 /\ c \in Ix(k)
      BY DEF Ix
    <3>2. v[c] \in gf
      BY <2>2, <3>1, VecAt
    <3>3. Times(Zero, v[c]) = Zero
      BY <3>2, FieldLaws
    <3> QED
      BY <2>2, <3>1, <3>3
  <2> QED
    BY <1>3, <2>2, <2>3 DEF IsPowers, Point, v
<1>4. CASE r # 0
  <2> DEFINE v == VdmRow(r, k)
             n == r - 1
  <2>1. n \in Nat
    BY <1>4
  <2>2. v = [c \in 0 .. k - 1 |-> gf_exp[modnn[n * c]]]
    BY <1>4 DEF VdmRow
  <2> HIDE DEF v, n
  <2>3. ASSUME NEW c \in 0 .. k - 1 PROVE v[c] = Pow(n * c)
    <3>1. n * c \in Nat
      BY <2>1
    <3>2. modnn[n * c] = (n * c) % GF_SIZE
      BY <3>1, ModnnIsMod
    <3> QED
      BY <2>2, <3>2 DEF Pow
  <2>4. \A c \in Ix(k) : n * c \in Nat /\ Pow(n * c) \in gf
    <3> SUFFICES ASSUME NEW c \in Ix(k) PROVE n * c \in Nat /\ Pow(n * c) \in gf
      OBVIOUS
    <3>1. n * c \in Nat
      BY <2>1, <1>2
    <3> QED
      BY <3>1, PowIs
  <2>5. v \in Vec(Ix(k))
    BY <1>2, <2>2, <2>3, <2>4 DEF Vec
  <2>6. v[0] = One
    <3>1. n * 0 = 0
      BY <2>1
    <3> QED
      BY <1>2, <2>3, <3>1, PowIs
  <2>7. ASSUME NEW c \in 0 .. k - 2 PROVE v[c + 1] = Times(Pow(n), v[c])
    <3>1. c \in 0 .. k - 1 /\ c + 1 \in 0 .. k - 1 /\ c \in Nat
      OBVIOUS
    <3>2. n * (c + 1) = n + n * c /\ n * c \in Nat
      BY <2>1, <3>1
    <3>3. Times(Pow(n), Pow(n * c)) = Pow(n + n * c)
      BY <2>1, <3>2, TimesIs
    <3> QED
      BY <2>3, <3>1, <3>2, <3>3
  <2> QED
    BY <1>4, <2>5, <2>6, <2>7 DEF IsPowers, Point, v, n
<1> QED
  BY <1>3, <1>4

\* The upper k rows of the Vandermonde matrix, which fec_new inverts.
VdmMatrix(k) == [r \in Ix(k) |-> VdmRow(r, k)]

\* invert_vdm: row i times column j is 1 if i = j, else 0.
THEOREM VdmInverse ==
    ASSUME NEW k \in Nat \ {0}, k <= GF_SIZE + 1
    PROVE  LET W == invert_vdm(VdmMatrix(k), k)
           IN  /\ W \in Mat(Ix(k))
               /\ \A a, c \in Ix(k) :
                      Dot(VdmRow(a, k), Column(W, c)) = IF a = c THEN One ELSE Zero
<1> DEFINE src == VdmMatrix(k)
           W == invert_vdm(src, k)
           p == [r \in Ix(k) |-> Point(r)]
<1>1. Zero \in gf /\ One \in gf
  BY FieldLaws
<1>2. \A r \in Ix(k) : r \in Nat /\ r \in 0 .. GF_SIZE
  BY GfCardinality DEF Ix
<1>3. ASSUME NEW r \in Ix(k)
      PROVE  IsPowers(src[r], Point(r), k) /\ src[r] = VdmRow(r, k) /\ src[r] \in Vec(Ix(k))
  <2>1. src[r] = VdmRow(r, k)
    BY DEF VdmMatrix
  <2>2. IsPowers(VdmRow(r, k), Point(r), k)
    BY <1>2, RowsArePowers
  <2> QED
    BY <2>1, <2>2 DEF IsPowers
<1>4. p \in Vec(Ix(k)) /\ \A r \in Ix(k) : p[r] = Point(r)
  BY <1>2, PointsDiffer DEF Vec
<1> HIDE DEF p
<1>5. \A a, b \in Ix(k) : p[a] = p[b] => a = b
  BY <1>2, <1>4, PointsDiffer
<1>6. 0 \in Ix(k) /\ p[0] = Zero
  BY <1>4 DEF Ix, Point
<1>7. CASE k = 1
  <2>1. W = src
    BY <1>7 DEF invert_vdm
  <2>2. \A a \in Ix(k) : a = 0
    BY <1>7 DEF Ix
  <2>3. src \in Mat(Ix(k)) /\ DOMAIN src = Ix(k)
    BY <1>3 DEF Mat, VdmMatrix
  <2>4. src[0][0] = One
    BY <1>3, <1>6 DEF IsPowers
  <2> HIDE DEF src, W
  <2>5. Column(src, 0) \in Vec(Ix(k)) /\ Column(src, 0)[0] = One
    BY <1>1, <1>6, <2>2, <2>3, <2>4 DEF Column, Vec
  <2>6. Dot(src[0], Column(src, 0)) = Times(src[0][0], Column(src, 0)[0])
    BY <1>3, <1>6, <2>2, <2>5, DotOne
  <2>7. Times(One, One) = One
    BY FieldLaws
  <2>8. Dot(VdmRow(0, k), Column(W, 0)) = One
    BY <1>3, <1>6, <2>1, <2>4, <2>5, <2>6, <2>7
  <2>9. W \in Mat(Ix(k))
    BY <2>1, <2>3
  <2>10. ASSUME NEW a \in Ix(k), NEW c \in Ix(k)
         PROVE  Dot(VdmRow(a, k), Column(W, c)) = IF a = c THEN One ELSE Zero
    BY <2>2, <2>8
  <2> QED
    BY <2>9, <2>10 DEF W, src
<1>8. CASE k # 1
  <2> DEFINE col == [r \in Ix(k) |-> VdmColumn(VdmCoefficients(p, k), p[r], k)]
  <2>1. \A r \in Ix(k) : src[r][1] = p[r]
    <3> SUFFICES ASSUME NEW r \in Ix(k) PROVE src[r][1] = p[r]
      OBVIOUS
    <3>1. 0 \in 0 .. k - 2 /\ 0 + 1 = 1
      BY <1>8
    <3>2. src[r][1] = Times(Point(r), One)
      BY <1>3, <3>1 DEF IsPowers
    <3>3. Point(r) \in gf
      BY <1>2, PointsDiffer
    <3>4. Times(Point(r), One) = Point(r)
      BY <3>3, FieldLaws
    <3> QED
      BY <1>4, <3>2, <3>4
  <2>2. p = [r \in 0 .. k - 1 |-> src[r][1]]
    <3>1. p = [r \in Ix(k) |-> p[r]]
      BY <1>4 DEF Vec
    <3> HIDE DEF src
    <3> QED
      BY <2>1, <3>1 DEF Ix
  <2>3. W = [r \in Ix(k) |-> [c \in Ix(k) |-> col[c][r]]]
    <3> HIDE DEF src
    <3> DEFINE q == [r \in 0 .. k - 1 |-> src[r][1]]
               column == [r \in 0 .. k - 1 |-> VdmColumn(VdmCoefficients(q, k), q[r], k)]
    <3>1. W = [r \in 0 .. k - 1 |-> [c \in 0 .. k - 1 |-> column[c][r]]]
      BY <1>8 DEF invert_vdm
    <3>2. column = col
      BY <2>2 DEF Ix
    <3> HIDE DEF column, col
    <3> QED
      BY <3>1, <3>2 DEF Ix
  <2>4. \A r \in Ix(k) : col[r] = VdmColumn(VdmCoefficients(p, k), p[r], k)
    OBVIOUS
  <2> HIDE DEF src, col, W
  <2>5. \A r \in Ix(k) : IsPowers(src[r], p[r], k)
    BY <1>3, <1>4
  <2>6. ASSUME NEW c \in Ix(k)
        PROVE  /\ col[c] \in Vec(Ix(k)) /\ Dot(col[c], src[c]) = One
               /\ \A r \in Ix(k) \ {c} : Dot(col[c], src[r]) = Zero
    BY <1>4, <1>5, <1>6, <2>4, <2>5, VdmColumnAt
  <2>7. W \in Mat(Ix(k)) /\ DOMAIN W = Ix(k) /\ \A r, c \in Ix(k) : W[r][c] = col[c][r]
    <3>1. \A r, c \in Ix(k) : col[c][r] \in gf
      BY <2>6, VecAt
    <3> QED
      BY <2>3, <3>1 DEF Mat, Vec
  <2>8. ASSUME NEW c \in Ix(k) PROVE Column(W, c) = col[c]
    <3>1. col[c] = [a \in Ix(k) |-> col[c][a]]
      BY <2>6 DEF Vec
    <3>2. \A a \in Ix(k) : W[a][c] = col[c][a]
      BY <2>7
    <3> QED
      BY <2>7, <3>1, <3>2 DEF Column
  <2>9. ASSUME NEW a \in Ix(k), NEW c \in Ix(k)
        PROVE  Dot(VdmRow(a, k), Column(W, c)) = IF a = c THEN One ELSE Zero
    <3>1. Dot(src[a], col[c]) = Dot(col[c], src[a])
      BY <1>3, <2>6, DotCommutes
    <3> QED
      BY <1>3, <2>6, <2>8, <3>1
  <2> QED
    BY <2>7, <2>9 DEF W, src
<1> QED
  BY <1>7, <1>8

\* A row of the identity picks an entry.
LEMMA UnitRowIs ==
    ASSUME NEW k \in Nat, NEW a \in Ix(k)
    PROVE  /\ UnitRow(a, k) \in Vec(Ix(k)) /\ UnitRow(a, k)[a] = One
           /\ \A c \in Ix(k) \ {a} : UnitRow(a, k)[c] = Zero
           /\ \A x \in Vec(Ix(k)) : Dot(UnitRow(a, k), x) = x[a]
<1>1. Zero \in gf /\ One \in gf
  BY FieldLaws
<1>2. /\ UnitRow(a, k) \in Vec(Ix(k)) /\ UnitRow(a, k)[a] = One
      /\ \A c \in Ix(k) \ {a} : UnitRow(a, k)[c] = Zero
  BY <1>1 DEF UnitRow, Vec, Ix
<1>3. ASSUME NEW x \in Vec(Ix(k)) PROVE Dot(UnitRow(a, k), x) = x[a]
  <2>1. Dot(UnitRow(a, k), x) = Times(One, x[a])
    BY <1>2, DotOne
  <2>2. x[a] \in gf
    BY VecAt
  <2> QED
    BY <2>1, <2>2, FieldLaws
<1> QED
  BY <1>2, <1>3

\* RowTimes, column by column.
LEMMA RowTimesIs ==
    ASSUME NEW D, NEW p \in Vec(D), NEW B, DOMAIN B = D
    PROVE  RowTimes(p, B) = [c \in DOMAIN B[0] |-> Dot(p, Column(B, c))]
<1>1. DOMAIN p = D
  BY VecAt
<1>2. \A c : Terms(p, Column(B, c)) = [a \in DOMAIN p |-> gf_mul[p[a]][B[a][c]]]
  BY <1>1 DEF Terms, Column, Times
<1> QED
  BY <1>2 DEF RowTimes, Dot

\* Row r of the encoding matrix gives what row r of the Vandermonde matrix gives of the
\* vector that its inverse W makes of x; the first k rows are those of the identity.
LEMMA EncodingMatrix ==
    ASSUME NEW k \in Nat \ {0}, NEW n \in Nat, k <= n, n <= GF_SIZE + 1
    PROVE  LET E == fec_new(k, n).enc_matrix
               W == invert_vdm(VdmMatrix(k), k)
           IN  \A r \in 0 .. n - 1 :
                   /\ E[r] \in Vec(Ix(k))
                   /\ r < k => E[r] = UnitRow(r, k)
                   /\ \A x \in Vec(Ix(k)) : Dot(E[r], x) = Dot(VdmRow(r, k), Image(W, x, Ix(k)))
<1> DEFINE E == fec_new(k, n).enc_matrix
           W == invert_vdm(VdmMatrix(k), k)
           D == Ix(k)
<1>1. E = [r \in 0 .. n - 1 |->
             IF r < k THEN UnitRow(r, k)
             ELSE matmul([s \in k .. n - 1 |-> VdmRow(s, k)], W)[r]]
  BY DEF fec_new, VdmMatrix, Ix
<1>2. /\ W \in Mat(D)
      /\ \A a, c \in D : Dot(VdmRow(a, k), Column(W, c)) = IF a = c THEN One ELSE Zero
  <2>1. k <= GF_SIZE + 1
    BY GfCardinality
  <2> QED
    BY <2>1, VdmInverse
<1> HIDE DEF W, E
<1>3. DOMAIN W = D /\ DOMAIN W[0] = D
  <2>1. W \in [D -> Vec(D)] /\ 0 \in D
    BY <1>2 DEF Mat, Ix
  <2> QED
    BY <2>1, VecAt
<1>4. IsFiniteSet(D)
  BY IxIs
<1>5. ASSUME NEW r \in Nat PROVE VdmRow(r, k) \in Vec(D)
  BY RowsArePowers DEF IsPowers
<1>6. ASSUME NEW r \in D PROVE RowBy(VdmRow(r, k), W, D) = UnitRow(r, k)
  <2>1. \A c \in D : Dot(VdmRow(r, k), Column(W, c)) = IF c = r THEN One ELSE Zero
    BY <1>2
  <2> QED
    BY <2>1 DEF RowBy, UnitRow, Ix
<1>7. ASSUME NEW r \in k .. n - 1
      PROVE  matmul([s \in k .. n - 1 |-> VdmRow(s, k)], W)[r] = RowBy(VdmRow(r, k), W, D)
  <2>1. matmul([s \in k .. n - 1 |-> VdmRow(s, k)], W)[r] = RowTimes(VdmRow(r, k), W)
    BY DEF matmul
  <2>2. VdmRow(r, k) \in Vec(D)
    BY <1>5
  <2>3. RowTimes(VdmRow(r, k), W) = [c \in DOMAIN W[0] |-> Dot(VdmRow(r, k), Column(W, c))]
    BY <1>3, <2>2, RowTimesIs
  <2> QED
    BY <1>3, <2>1, <2>3 DEF RowBy
<1> HIDE DEF D
<1>8. ASSUME NEW r \in 0 .. n - 1
      PROVE  E[r] = RowBy(VdmRow(r, k), W, D) /\ (r < k => E[r] = UnitRow(r, k))
  <2>1. CASE r < k
    <3>1. r \in D
      BY <2>1 DEF D, Ix
    <3>2. E[r] = UnitRow(r, k)
      BY <1>1, <2>1
    <3> QED
      BY <1>6, <3>1, <3>2
  <2>2. CASE ~(r < k)
    <3>1. r \in k .. n - 1
      BY <2>2
    <3>2. E[r] = matmul([s \in k .. n - 1 |-> VdmRow(s, k)], W)[r]
      BY <1>1, <2>2
    <3> QED
      BY <1>7, <2>2, <3>1, <3>2
  <2> QED
    BY <2>1, <2>2
<1>9. ASSUME NEW r \in 0 .. n - 1, NEW x \in Vec(D)
      PROVE  E[r] \in Vec(D) /\ Dot(E[r], x) = Dot(VdmRow(r, k), Image(W, x, D))
  <2> DEFINE p == VdmRow(r, k)
  <2>1. p \in Vec(D)
    BY <1>5
  <2>2. E[r] = RowBy(p, W, D)
    BY <1>8
  <2> HIDE DEF p
  <2>3. RowBy(p, W, D) \in Vec(D)
    BY <1>2, <2>1, RowByIs
  <2>4. Dot(RowBy(p, W, D), x) = Dot(p, Image(W, x, D))
    BY <1>2, <1>4, <2>1, RowDot
  <2> QED
    BY <2>2, <2>3, <2>4 DEF p
<1>10. ASSUME NEW r \in 0 .. n - 1 PROVE E[r] \in Vec(D)
  <2> DEFINE x == [a \in D |-> Zero]
  <2>1. Zero \in gf
    BY FieldLaws
  <2>2. x \in Vec(D)
    BY <2>1 DEF Vec
  <2> HIDE DEF x
  <2> QED
    BY <1>9, <2>2
<1> QED
  BY <1>8, <1>9, <1>10 DEF E, W, D

\* Any k different rows of the encoding matrix can be inverted.
LEMMA AnyRowsSuffice ==
    ASSUME NEW k \in Nat \ {0}, NEW n \in Nat, k <= n, n <= GF_SIZE + 1,
           NEW f, \A r \in Ix(k) : f[r] \in 0 .. n - 1,
           \A a, b \in Ix(k) : f[a] = f[b] => a = b,
           NEW m, \A r \in Ix(k) : m[r] = fec_new(k, n).enc_matrix[f[r]]
    PROVE  ~Singular(m, Ix(k))
<1> DEFINE E == fec_new(k, n).enc_matrix
           W == invert_vdm(VdmMatrix(k), k)
           D == Ix(k)
<1>1. W \in Mat(D)
  <2>1. k <= GF_SIZE + 1
    BY GfCardinality
  <2> QED
    BY <2>1, VdmInverse
<1>2. ASSUME NEW r \in 0 .. n - 1
      PROVE  /\ E[r] \in Vec(D)
             /\ r < k => E[r] = UnitRow(r, k)
             /\ \A x \in Vec(D) : Dot(E[r], x) = Dot(VdmRow(r, k), Image(W, x, D))
  BY EncodingMatrix
<1>3. \A r \in D : m[r] = E[f[r]]
  OBVIOUS
<1>4. \A a \in D : a \in 0 .. n - 1 /\ a < k /\ a \in Nat
  BY DEF Ix
<1> HIDE DEF W, E
<1> SUFFICES ASSUME NEW x \in Vec(D), NEW d \in D, x[d] # Zero,
                    \A r \in D : Dot(m[r], x) = Zero
             PROVE  FALSE
  BY DEF Singular
<1> DEFINE w == Image(W, x, D)
           P == [r \in D |-> Point(f[r])]
           V == [r \in D |-> VdmRow(f[r], k)]
<1>5. w \in Vec(D)
  BY <1>1, RowByIs
<1>6. \A r \in D : f[r] \in 0 .. GF_SIZE /\ f[r] \in Nat /\ f[r] \in 0 .. n - 1
  <2>1. \A r \in D : f[r] \in 0 .. n - 1
    OBVIOUS
  <2>2. GF_SIZE \in Nat
    BY GfCardinality
  <2> QED
    BY <2>1, <2>2
<1>7. P \in Vec(D) /\ \A r \in D : P[r] = Point(f[r])
  BY <1>6, PointsDiffer DEF Vec
<1>8. \A r \in D : V[r] = VdmRow(f[r], k)
  OBVIOUS
<1> HIDE DEF w, P, V
<1>9. \A a, b \in D : P[a] = P[b] => a = b
  BY <1>6, <1>7, PointsDiffer
<1>10. \A r \in D : IsPowers(V[r], P[r], k)
  BY <1>6, <1>7, <1>8, RowsArePowers
<1>11. ASSUME NEW r \in D PROVE Dot(w, V[r]) = Zero
  <2>1. Dot(E[f[r]], x) = Dot(VdmRow(f[r], k), w)
    BY <1>2, <1>6 DEF w
  <2>2. V[r] \in Vec(D)
    BY <1>10 DEF IsPowers
  <2>3. Dot(w, V[r]) = Dot(V[r], w)
    BY <1>5, <2>2, DotCommutes
  <2> QED
    BY <1>3, <1>8, <2>1, <2>3
<1>12. \A a \in D : w[a] = Zero
  <2>1. Rooted(k)
    BY RootTheorem
  <2> QED
    BY <1>5, <1>7, <1>9, <1>10, <1>11, <2>1 DEF Rooted
<1>13. Dot(E[d], x) = Dot(VdmRow(d, k), w)
  BY <1>2, <1>4 DEF w
<1>14. Dot(E[d], x) = x[d]
  BY <1>2, <1>4, UnitRowIs
<1>15. VdmRow(d, k) \in Vec(D)
  BY <1>4, RowsArePowers DEF IsPowers
<1>16. Dot(VdmRow(d, k), w) = Zero
  BY <1>5, <1>12, <1>15, DotZero
<1> QED
  BY <1>13, <1>14, <1>16

\* fec_decode gives back whatever k packets were encoded, from any k different coded
\* packets, native ones in their own places: the matrix that it inverts has an inverse.
THEOREM AnyKPacketsDecode ==
    ASSUME NEW k \in Nat \ {0}, NEW n \in Nat, k <= n, n <= GF_SIZE + 1,
           NEW f, \A r \in Ix(k) : f[r] \in 0 .. n - 1,
           \A a, b \in Ix(k) : f[a] = f[b] => a = b,
           \A r \in Ix(k) : f[r] < k => f[r] = r,
           NEW sz \in Nat, NEW src \in [Ix(k) -> Vec(Ix(sz))],
           NEW pkt, \A r \in Ix(k) : pkt[r] = fec_encode(fec_new(k, n), src, f[r])
    PROVE  /\ ~build_decode_matrix(fec_new(k, n), f).error
           /\ fec_decode(fec_new(k, n), pkt, f) = src
<1> DEFINE code == fec_new(k, n)
           E == code.enc_matrix
           D == Ix(k)
           m == [r \in D |-> IF f[r] < k THEN UnitRow(r, k) ELSE E[f[r]]]
           inv == invert_mat(m, k)
           N == inv.matrix
           first == [r \in D |-> pkt[r]]
<1>1. code.k = k
  BY DEF fec_new
<1>2. D = 0 .. k - 1 /\ 0 \in D
  BY DEF Ix
<1>3. \A r \in 0 .. n - 1 : E[r] \in Vec(D) /\ (r < k => E[r] = UnitRow(r, k))
  BY EncodingMatrix
<1>4. build_decode_matrix(code, f) = inv
  BY <1>1, <1>2 DEF build_decode_matrix
<1>5. fec_decode(code, pkt, f)
      = [r \in D |-> IF f[r] < k \/ inv.error THEN pkt[r] ELSE RowTimes(N[r], first)]
  BY <1>1, <1>2, <1>4 DEF fec_decode
<1>6. \A r \in D : pkt[r] = IF f[r] < k THEN src[f[r]] ELSE RowTimes(E[f[r]], src)
  BY <1>1 DEF fec_encode
<1> HIDE DEF code, E, inv
<1>7. \A r \in D : f[r] \in 0 .. n - 1 /\ m[r] = E[f[r]] /\ m[r] \in Vec(D)
  BY <1>3
<1>8. m \in Mat(D)
  BY <1>7 DEF Mat
<1> HIDE DEF m
<1>9. ~Singular(m, D)
  BY <1>7, AnyRowsSuffice DEF E, code
<1>10. /\ ~inv.error /\ N \in Mat(D)
       /\ \A x, y \in Vec(D) : (\A r \in D : y[r] = Dot(m[r], x))
                               <=> (\A r \in D : x[r] = Dot(N[r], y))
  <2>1. LET inverted == invert_mat(m, k)
            z == inverted.matrix
        IN  /\ inverted.error => Singular(m, D)
            /\ ~inverted.error =>
                  /\ z \in Mat(D)
                  /\ \A x, y \in Vec(D) : (\A r \in D : y[r] = Dot(m[r], x))
                                          <=> (\A r \in D : x[r] = Dot(z[r], y))
    BY <1>8, InvertMatInverts
  <2> QED
    BY <1>9, <2>1 DEF inv
<1> HIDE DEF N
<1>11. \A r \in D : src[r] \in Vec(Ix(sz)) /\ DOMAIN src[r] = Ix(sz)
                    /\ \A c \in Ix(sz) : src[r][c] \in gf
  <2>1. \A r \in D : src[r] \in Vec(Ix(sz))
    OBVIOUS
  <2> QED
    BY <2>1, VecAt
<1>12. \A c \in Ix(sz) : Column(src, c) \in Vec(D) /\ \A a \in D : Column(src, c)[a] = src[a][c]
  BY <1>11 DEF Column, Vec
<1>13. ASSUME NEW r \in D
       PROVE  /\ pkt[r] = [c \in Ix(sz) |-> pkt[r][c]]
              /\ \A c \in Ix(sz) : pkt[r][c] = Dot(m[r], Column(src, c))
  <2>1. CASE f[r] < k
    <3>1. f[r] = r /\ pkt[r] = src[r] /\ m[r] = UnitRow(r, k)
      BY <1>3, <1>6, <1>7, <2>1
    <3>2. src[r] = [c \in Ix(sz) |-> src[r][c]]
      BY <1>11 DEF Vec
    <3>3. \A c \in Ix(sz) : Dot(m[r], Column(src, c)) = src[r][c]
      BY <1>12, <3>1, UnitRowIs
    <3> QED
      BY <3>1, <3>2, <3>3
  <2>2. CASE ~(f[r] < k)
    <3>1. pkt[r] = RowTimes(m[r], src)
      BY <1>6, <1>7, <2>2
    <3>2. DOMAIN src = D
      OBVIOUS
    <3>3. m[r] \in Vec(D)
      BY <1>7
    <3>4. RowTimes(m[r], src) = [c \in DOMAIN src[0] |-> Dot(m[r], Column(src, c))]
      BY <3>2, <3>3, RowTimesIs
    <3>5. DOMAIN src[0] = Ix(sz)
      BY <1>2, <1>11
    <3> QED
      BY <3>1, <3>4, <3>5
  <2> QED
    BY <2>1, <2>2
<1>14. ASSUME NEW c \in Ix(sz)
       PROVE  /\ Column(first, c) \in Vec(D)
              /\ \A r \in D : src[r][c] = Dot(N[r], Column(first, c))
  <2> DEFINE x == Column(src, c)
             y == Column(first, c)
  <2>1. x \in Vec(D) /\ \A r \in D : x[r] = src[r][c]
    BY <1>12
  <2>2. \A r \in D : y[r] = Dot(m[r], x)
    BY <1>13 DEF Column
  <2>3. DOMAIN y = D /\ y = [r \in D |-> y[r]]
    BY DEF Column
  <2> HIDE DEF x, y
  <2>4. \A r \in D : Dot(m[r], x) \in gf
    BY <1>7, <2>1, TermsIs
  <2>5. y \in Vec(D)
    BY <2>2, <2>3, <2>4 DEF Vec
  <2>6. \A r \in D : x[r] = Dot(N[r], y)
    BY <1>10, <2>1, <2>2, <2>5
  <2> QED
    BY <2>1, <2>5, <2>6 DEF x, y
<1> HIDE DEF first
<1>15. ASSUME NEW r \in D
       PROVE  (IF f[r] < k \/ inv.error THEN pkt[r] ELSE RowTimes(N[r], first)) = src[r]
  <2>1. CASE f[r] < k
    BY <1>6, <2>1
  <2>2. CASE ~(f[r] < k)
    <3>1. N[r] \in Vec(D)
      BY <1>10 DEF Mat
    <3>2. DOMAIN first = D /\ first[0] = pkt[0]
      BY <1>2 DEF first
    <3>3. DOMAIN first[0] = Ix(sz)
      <4>1. pkt[0] = [c \in Ix(sz) |-> pkt[0][c]]
        BY <1>2, <1>13
      <4> QED
        BY <3>2, <4>1
    <3>4. RowTimes(N[r], first) = [c \in DOMAIN first[0] |-> Dot(N[r], Column(first, c))]
      BY <3>1, <3>2, RowTimesIs
    <3>5. src[r] = [c \in Ix(sz) |-> src[r][c]]
      BY <1>11 DEF Vec
    <3> QED
      BY <1>10, <1>14, <2>2, <3>3, <3>4, <3>5
  <2> QED
    BY <2>1, <2>2
<1>16. src = [r \in D |-> src[r]]
  OBVIOUS
<1>17. fec_decode(code, pkt, f) = src
  BY <1>5, <1>15, <1>16
<1> QED
  BY <1>4, <1>10, <1>17 DEF code

\* The lowest powers, as polynomials.
LEMMA LowPowers ==
    /\ \A a \in Bits : Pow(a) = {a} /\ {a} \in gf
    /\ Pow(GF_BITS) = allPp[GF_BITS] \ {GF_BITS}
    /\ Pow(GF_BITS) \in gf
<1>1. GF_BITS \in Nat /\ GF_BITS >= 2
  BY PolynomialShape
<1> DEFINE S == {a \in Nat : a < GF_BITS => Pow(a) = {a}}
<1>2. 0 \in S
  BY PowIs DEF One
<1>3. ASSUME NEW a \in Nat, a \in S PROVE a + 1 \in S
  <2> SUFFICES ASSUME a + 1 < GF_BITS PROVE Pow(a + 1) = {a + 1}
    OBVIOUS
  <2>1. Pow(a) = {a} /\ Pow(a + 1) = NextPower(Pow(a))
    BY <1>1, <1>3, PowIs
  <2>2. Top \notin {a}
    BY <1>1 DEF Top
  <2>3. NextPower({a}) = ShiftLeft({a})
    BY <2>2 DEF NextPower
  <2>4. ShiftLeft({a}) = {a + 1}
    BY DEF ShiftLeft
  <2> QED
    BY <2>1, <2>3, <2>4
<1>4. Nat \subseteq S
  <2> HIDE DEF S
  <2> QED
    BY <1>2, <1>3, NatInduct
<1>5. \A a \in Bits : Pow(a) = {a} /\ {a} \in gf
  BY <1>1, <1>4 DEF Bits, gf
<1>6. Top \in Bits /\ Top \in Nat /\ Top + 1 = GF_BITS
  BY <1>1 DEF Top, Bits
<1>7. Pow(GF_BITS) = NextPower({Top})
  BY <1>5, <1>6, PowIs
<1>8. ShiftLeft({Top} \ {Top}) = {}
  BY DEF ShiftLeft
<1>9. NextPower({Top}) = allPp[GF_BITS] \ {GF_BITS}
  BY <1>8 DEF NextPower, Plus
<1>10. Pow(GF_BITS) \in gf
  BY <1>1, PowIs
<1> QED
  BY <1>5, <1>7, <1>9, <1>10

\* The value of a polynomial at the root.
Degrees == 0 .. 2 * GF_BITS - 2
Ones(p) == [e \in Degrees |-> IF e \in p THEN One ELSE Zero]
PowersOfRoot == [e \in Degrees |-> Pow(e)]
Value(p) == Dot(Ones(p), PowersOfRoot)

\* The degrees of a product that is not yet reduced, and the powers of the root there.
LEMMA DegreesAre ==
    /\ IsFiniteSet(Degrees) /\ Degrees \subseteq Nat /\ Bits \subseteq Degrees
    /\ \A a, b \in Bits : a + b \in Degrees
    /\ PowersOfRoot \in Vec(Degrees) /\ \A e \in Degrees : PowersOfRoot[e] = Pow(e)
    /\ \A p : Ones(p) \in Vec(Degrees)
<1>1. GF_BITS \in Nat /\ GF_BITS >= 2
  BY PolynomialShape
<1>2. Degrees \subseteq Nat /\ Bits \subseteq Degrees /\ \A a, b \in Bits : a + b \in Degrees
  BY <1>1 DEF Degrees, Bits
<1>3. IsFiniteSet(Degrees)
  BY <1>1, FS_Interval DEF Degrees
<1>4. \A e \in Degrees : Pow(e) \in gf
  BY <1>2, PowIs
<1>5. PowersOfRoot \in Vec(Degrees) /\ \A e \in Degrees : PowersOfRoot[e] = Pow(e)
  BY <1>4 DEF PowersOfRoot, Vec
<1>6. Zero \in gf /\ One \in gf
  BY FieldLaws
<1>7. \A p : Ones(p) \in Vec(Degrees)
  BY <1>6 DEF Ones, Vec
<1> QED
  BY <1>2, <1>3, <1>5, <1>7

\* The value of a sum of polynomials,
LEMMA ValuePlus ==
    ASSUME NEW p, NEW q
    PROVE  Value(Plus(p, q)) = Plus(Value(p), Value(q))
<1>1. ASSUME NEW e \in Degrees PROVE Ones(Plus(p, q))[e] = Plus(Ones(p)[e], Ones(q)[e])
  <2>1. e \in Plus(p, q) <=> ((e \in p) # (e \in q))
    BY DEF Plus
  <2>2. /\ Plus(One, One) = Zero /\ Plus(Zero, Zero) = Zero
        /\ Plus(One, Zero) = One /\ Plus(Zero, One) = One
    BY PlusZero
  <2> QED
    BY <2>1, <2>2 DEF Ones
<1> DEFINE u == Ones(p)
           v == Ones(q)
           w == Ones(Plus(p, q))
           x == PowersOfRoot
<1>2. u \in Vec(Degrees) /\ v \in Vec(Degrees) /\ w \in Vec(Degrees) /\ x \in Vec(Degrees)
      /\ IsFiniteSet(Degrees)
  BY DegreesAre
<1>3. \A e \in Degrees : w[e] = Plus(u[e], v[e])
  BY <1>1
<1> HIDE DEF u, v, w, x
<1>4. Dot(w, x) = Plus(Dot(u, x), Dot(v, x))
  BY <1>2, <1>3, DotPlus
<1> QED
  BY <1>4 DEF Value, u, v, w, x

\* and of a single power.
LEMMA ValueOne ==
    /\ Value({}) = Zero
    /\ \A s \in Degrees : Value({s}) = Pow(s) /\ Pow(s) \in gf
<1> DEFINE x == PowersOfRoot
<1>1. x \in Vec(Degrees) /\ Ones({}) \in Vec(Degrees)
  BY DegreesAre
<1>2. \A e \in Degrees : Ones({})[e] = Zero
  BY DEF Ones
<1>3. Value({}) = Zero
  BY <1>1, <1>2, DotZero DEF Value
<1>4. ASSUME NEW s \in Degrees PROVE Value({s}) = Pow(s) /\ Pow(s) \in gf
  <2> DEFINE u == Ones({s})
  <2>1. u \in Vec(Degrees) /\ u[s] = One /\ \A e \in Degrees \ {s} : u[e] = Zero
    BY DegreesAre DEF Ones
  <2> HIDE DEF u
  <2>2. Dot(u, x) = Times(u[s], x[s])
    BY <1>1, <2>1, DotOne
  <2>3. x[s] = Pow(s) /\ x[s] \in gf
    BY <1>1, DegreesAre, VecAt
  <2>4. Times(One, x[s]) = x[s]
    BY <2>3, FieldLaws
  <2> QED
    BY <2>1, <2>2, <2>3, <2>4 DEF Value, u
<1> QED
  BY <1>3, <1>4

\* An element of the field is its own value.
LEMMA ValueSelf == \A x \in gf : Value(x) = x
<1> SUFFICES ASSUME NEW x \in gf PROVE Value(x) = x
  OBVIOUS
<1> DEFINE S == {T \in SUBSET x : Value(T) = T}
<1>1. x \subseteq Bits /\ IsFiniteSet(Bits)
  BY PolynomialShape, FS_Interval DEF gf, Bits
<1>2. IsFiniteSet(x)
  BY <1>1, FS_Subset
<1>3. {} \in S
  BY ValueOne DEF Zero
<1>4. ASSUME NEW T \in SUBSET x, NEW d \in x, T \in S, d \notin T
      PROVE  T \cup {d} \in S
  <2>1. T \cup {d} = Plus(T, {d})
    BY <1>4 DEF Plus
  <2>2. d \in Bits /\ d \in Degrees
    BY <1>1, DegreesAre
  <2>3. Value({d}) = {d}
    BY <2>2, ValueOne, LowPowers
  <2>4. Value(Plus(T, {d})) = Plus(Value(T), Value({d}))
    BY ValuePlus
  <2> QED
    BY <1>4, <2>1, <2>3, <2>4
<1> HIDE DEF S
<1>5. x \in S
  BY <1>2, <1>3, <1>4, SubsetInduct
<1> QED
  BY <1>5 DEF S

\* Moving the exponents up by a multiplies the value with power a.
LEMMA ValueShift ==
    ASSUME NEW x \in gf, NEW a \in Bits
    PROVE  Value({a + b : b \in x}) = Times(Pow(a), x)
<1> DEFINE up(T) == {a + b : b \in T}
           S == {T \in SUBSET x : Value(up(T)) = Times(Pow(a), T)}
<1>1. x \subseteq Bits /\ IsFiniteSet(Bits) /\ a \in Nat /\ Bits \subseteq Nat
  BY PolynomialShape, FS_Interval DEF gf, Bits
<1>2. IsFiniteSet(x)
  BY <1>1, FS_Subset
<1>3. Pow(a) \in gf
  BY <1>1, PowIs
<1>4. {} \in S
  <2>1. up({}) = {}
    OBVIOUS
  <2>2. Times(Pow(a), Zero) = Zero
    BY <1>3, FieldLaws
  <2> HIDE DEF up
  <2> QED
    BY <2>1, <2>2, ValueOne DEF Zero
<1>5. ASSUME NEW T \in SUBSET x, NEW d \in x, T \in S, d \notin T
      PROVE  T \cup {d} \in S
  <2>1. T \cup {d} = Plus(T, {d})
    BY <1>5 DEF Plus
  <2>2. d \in Bits /\ a + d \in Degrees /\ d \in Nat
    BY <1>1, DegreesAre
  <2>3. a + d \notin up(T)
    BY <1>1, <1>5, <2>2
  <2>4. up(T \cup {d}) = up(T) \cup {a + d}
    OBVIOUS
  <2> HIDE DEF up
  <2>5. up(T \cup {d}) = Plus(up(T), {a + d})
    BY <2>3, <2>4 DEF Plus
  <2>6. Value(Plus(up(T), {a + d})) = Plus(Value(up(T)), Value({a + d}))
    BY ValuePlus
  <2>7. Value({a + d}) = Times(Pow(a), {d})
    <3>1. Value({a + d}) = Pow(a + d)
      BY <2>2, ValueOne
    <3>2. Times(Pow(a), Pow(d)) = Pow(a + d)
      BY <1>1, <2>2, TimesIs
    <3> QED
      BY <2>2, <3>1, <3>2, LowPowers
  <2>8. T \in gf /\ {d} \in gf
    BY <1>1, <2>2, LowPowers DEF gf
  <2>9. Times(Pow(a), Plus(T, {d})) = Plus(Times(Pow(a), T), Times(Pow(a), {d}))
    BY <1>3, <2>8, Distributes
  <2>10. Value(up(T)) = Times(Pow(a), T)
    BY <1>5
  <2>11. Value(up(T \cup {d})) = Times(Pow(a), T \cup {d})
    BY <2>1, <2>5, <2>6, <2>7, <2>9, <2>10
  <2> QED
    BY <2>11
<1> HIDE DEF S
<1>6. x \in S
  BY <1>2, <1>4, <1>5, SubsetInduct
<1> QED
  BY <1>6 DEF S

\* The product of two polynomials, before it is reduced.
Unreduced(x, y) == {d \in Degrees : Cardinality({p \in x \X y : p[1] + p[2] = d}) % 2 = 1}

\* One more bit of the first factor adds the second factor, shifted.
LEMMA UnreducedAdd ==
    ASSUME NEW y \in gf, NEW T \in gf, NEW a \in Bits, a \notin T
    PROVE  Unreduced(T \cup {a}, y) = Plus(Unreduced(T, y), {a + b : b \in y})
<1>1. y \subseteq Bits /\ T \subseteq Bits /\ IsFiniteSet(Bits) /\ Bits \subseteq Int
  <2>1. y \subseteq Bits /\ T \subseteq Bits
    BY DEF gf
  <2>2. GF_BITS - 1 \in Int
    BY PolynomialShape
  <2> QED
    BY <2>1, <2>2, FS_Interval DEF Bits
<1>2. IsFiniteSet(y) /\ IsFiniteSet(T)
  BY <1>1, FS_Subset
<1>3. IsFiniteSet(T \X y)
  BY <1>2, FS_Product
<1>4. ASSUME NEW d \in Degrees
      PROVE  d \in Unreduced(T \cup {a}, y)
             <=> ((d \in Unreduced(T, y)) # (d \in {a + b : b \in y}))
  <2> DEFINE P == {p \in T \X y : p[1] + p[2] = d}
             Q == {p \in (T \cup {a}) \X y : p[1] + p[2] = d}
  <2>1. IsFiniteSet(P)
    <3>1. P \subseteq T \X y
      OBVIOUS
    <3> QED
      BY <1>3, <3>1, FS_Subset
  <2>2. Cardinality(P) \in Nat
    BY <2>1, FS_CardinalityType
  <2>3. d \in Int
    BY DegreesAre
  <2>4. CASE d \in {a + b : b \in y}
    <3>1. PICK b \in y : d = a + b
      BY <2>4
    <3>2. Q = P \cup {<<a, b>>}
      <4>1. ASSUME NEW p \in Q PROVE p \in P \cup {<<a, b>>}
        <5>1. p \in (T \cup {a}) \X y /\ p[1] + p[2] = d
          OBVIOUS
        <5>2. CASE p[1] = a
          <6>1. p[2] \in y /\ p[2] \in Int /\ b \in Int /\ a \in Int
            BY <1>1, <5>1
          <6>2. p[2] = b
            <7> DEFINE z == p[2]
            <7>1. a + z = a + b /\ z \in Int
              BY <3>1, <5>1, <5>2, <6>1
            <7> HIDE DEF z
            <7>2. z = b
              BY <6>1, <7>1
            <7> QED
              BY <7>2 DEF z
          <6> QED
            BY <5>1, <5>2, <6>2
        <5>3. CASE p[1] # a
          BY <5>1, <5>3
        <5> QED
          BY <5>2, <5>3
      <4>2. <<a, b>> \in Q
        BY <3>1
      <4>3. P \subseteq Q
        OBVIOUS
      <4> QED
        BY <4>1, <4>2, <4>3
    <3>3. <<a, b>> \notin P
      OBVIOUS
    <3> HIDE DEF P, Q
    <3>4. Cardinality(Q) = Cardinality(P) + 1
      BY <2>1, <3>2, <3>3, FS_AddElement
    <3>5. (Cardinality(Q) % 2 = 1) # (Cardinality(P) % 2 = 1)
      BY <2>2, <3>4
    <3> QED
      BY <2>4, <3>5 DEF Unreduced, P, Q
  <2>5. CASE d \notin {a + b : b \in y}
    <3>1. Q = P
      <4>1. ASSUME NEW p \in Q PROVE p \in P
        <5>1. p \in (T \cup {a}) \X y /\ p[1] + p[2] = d
          OBVIOUS
        <5>2. p[1] # a
          BY <2>5, <5>1
        <5> QED
          BY <5>1, <5>2
      <4>2. P \subseteq Q
        OBVIOUS
      <4> QED
        BY <4>1, <4>2
    <3> QED
      BY <2>5, <3>1 DEF Unreduced
  <2> QED
    BY <2>4, <2>5
<1>5. {a + b : b \in y} \subseteq Degrees
  BY <1>1, DegreesAre
<1>6. Unreduced(T \cup {a}, y) \subseteq Degrees /\ Unreduced(T, y) \subseteq Degrees
  BY DEF Unreduced
<1> QED
  BY <1>4, <1>5, <1>6 DEF Plus

\* The value of the product is the product in the field.
LEMMA UnreducedValue ==
    ASSUME NEW x \in gf, NEW y \in gf
    PROVE  Value(Unreduced(x, y)) = Times(x, y)
<1> DEFINE S == {T \in SUBSET x : Value(Unreduced(T, y)) = Times(T, y)}
<1>1. x \subseteq Bits /\ IsFiniteSet(Bits)
  BY PolynomialShape, FS_Interval DEF gf, Bits
<1>2. IsFiniteSet(x)
  BY <1>1, FS_Subset
<1>3. {} \in S
  <2>1. \A d : {p \in {} \X y : p[1] + p[2] = d} = {}
    OBVIOUS
  <2>2. Unreduced({}, y) = {}
    <3>1. Cardinality({}) = 0
      BY FS_EmptySet
    <3> QED
      BY <2>1, <3>1 DEF Unreduced
  <2>3. Times(Zero, y) = Zero
    BY FieldLaws
  <2> QED
    BY <2>2, <2>3, ValueOne DEF Zero
<1>4. ASSUME NEW T \in SUBSET x, NEW a \in x, T \in S, a \notin T
      PROVE  T \cup {a} \in S
  <2>1. T \in gf /\ a \in Bits
    BY <1>1 DEF gf
  <2>2. T \cup {a} = Plus(T, {a})
    BY <1>4 DEF Plus
  <2>3. Pow(a) = {a} /\ {a} \in gf
    BY <2>1, LowPowers
  <2>4. Value(Unreduced(T \cup {a}, y)) = Plus(Value(Unreduced(T, y)), Value({a + b : b \in y}))
    BY <1>4, <2>1, UnreducedAdd, ValuePlus
  <2>5. Value({a + b : b \in y}) = Times({a}, y)
    BY <2>1, <2>3, ValueShift
  <2>6. Times(Plus(T, {a}), y) = Plus(Times(T, y), Times({a}, y))
    BY <2>1, <2>3, Distributes
  <2>7. Value(Unreduced(T, y)) = Times(T, y)
    BY <1>4
  <2>8. Value(Unreduced(T \cup {a}, y)) = Times(T \cup {a}, y)
    BY <2>2, <2>4, <2>5, <2>6, <2>7
  <2> QED
    BY <2>8
<1> HIDE DEF S
<1>5. x \in S
  BY <1>2, <1>3, <1>4, SubsetInduct
<1> QED
  BY <1>5 DEF S

\* A multiple of the field's polynomial has the value 0.
LEMMA ModulusValue ==
    ASSUME NEW t \in 0 .. GF_BITS - 2
    PROVE  Value({e + t : e \in allPp[GF_BITS]}) = Zero
<1> DEFINE pp == allPp[GF_BITS] \ {GF_BITS}
           low == {t + b : b \in pp}
<1>1. GF_BITS \in Nat /\ GF_BITS >= 2 /\ allPp[GF_BITS] \subseteq 0 .. GF_BITS
  BY PolynomialShape
<1>2. GF_BITS \in allPp[GF_BITS]
  <2>1. \/ GF_BITS = 2 \/ GF_BITS = 3 \/ GF_BITS = 4 \/ GF_BITS = 5 \/ GF_BITS = 6
        \/ GF_BITS = 7 \/ GF_BITS = 8 \/ GF_BITS = 9 \/ GF_BITS = 10 \/ GF_BITS = 11
        \/ GF_BITS = 12 \/ GF_BITS = 13 \/ GF_BITS = 14 \/ GF_BITS = 15 \/ GF_BITS = 16
    BY FecAssumption
  <2> QED
    BY <2>1 DEF allPp
<1>3. t \in Bits /\ t \in Nat /\ t + GF_BITS \in Degrees
  BY <1>1 DEF Bits, Degrees
<1>4. pp = Pow(GF_BITS) /\ pp \in gf
  BY LowPowers
<1>5. \A b \in pp : b \in 0 .. GF_BITS - 1
  BY <1>1
<1>6. {e + t : e \in allPp[GF_BITS]} = Plus(low, {t + GF_BITS})
  <2>1. t + GF_BITS \notin low
    BY <1>1, <1>3, <1>5
  <2>2. {e + t : e \in allPp[GF_BITS]} = low \cup {t + GF_BITS}
    <3>1. \A e \in allPp[GF_BITS] : e + t = t + e
      BY <1>1, <1>3
    <3> QED
      BY <1>2, <3>1
  <2> HIDE DEF low
  <2> QED
    BY <2>1, <2>2 DEF Plus
<1> HIDE DEF pp
<1>7. Value(low) = Times(Pow(t), pp)
  BY <1>3, <1>4, ValueShift
<1>8. Value({t + GF_BITS}) = Pow(t + GF_BITS)
  BY <1>3, ValueOne
<1>9. Times(Pow(t), Pow(GF_BITS)) = Pow(t + GF_BITS)
  BY <1>1, <1>3, TimesIs
<1> HIDE DEF low
<1>10. Value(Plus(low, {t + GF_BITS})) = Plus(Value(low), Value({t + GF_BITS}))
  BY ValuePlus
<1> QED
  BY <1>4, <1>6, <1>7, <1>8, <1>9, <1>10, PlusZero

\* One degree is reduced: the value stays, and the degree is gone.
ReduceDegree(p, top) ==
    IF top \in p THEN Plus(p, {e + top - GF_BITS : e \in allPp[GF_BITS]}) ELSE p

\* It removes the highest degree and keeps the value.
LEMMA ReduceDegreeIs ==
    ASSUME NEW top \in GF_BITS .. 2 * GF_BITS - 2, NEW p \in SUBSET (0 .. top)
    PROVE  /\ ReduceDegree(p, top) \subseteq 0 .. top - 1
           /\ Value(ReduceDegree(p, top)) = Value(p)
<1> DEFINE m == {e + top - GF_BITS : e \in allPp[GF_BITS]}
           t == top - GF_BITS
<1>1. GF_BITS \in Nat /\ GF_BITS >= 2 /\ allPp[GF_BITS] \subseteq 0 .. GF_BITS
  BY PolynomialShape
<1>2. t \in 0 .. GF_BITS - 2
  BY <1>1
<1>3. GF_BITS \in allPp[GF_BITS]
  <2>1. \/ GF_BITS = 2 \/ GF_BITS = 3 \/ GF_BITS = 4 \/ GF_BITS = 5 \/ GF_BITS = 6
        \/ GF_BITS = 7 \/ GF_BITS = 8 \/ GF_BITS = 9 \/ GF_BITS = 10 \/ GF_BITS = 11
        \/ GF_BITS = 12 \/ GF_BITS = 13 \/ GF_BITS = 14 \/ GF_BITS = 15 \/ GF_BITS = 16
    BY FecAssumption
  <2> QED
    BY <2>1 DEF allPp
<1>4. \A e \in allPp[GF_BITS] : e + top - GF_BITS = e + t /\ e + t \in 0 .. top
  BY <1>1
<1>5. m = {e + t : e \in allPp[GF_BITS]}
  BY <1>4
<1>6. m \subseteq 0 .. top
  BY <1>4
<1>7. top \in m
  <2>1. GF_BITS + top - GF_BITS = top
    BY <1>1
  <2> QED
    BY <1>3, <2>1
<1> HIDE DEF m, t
<1>8. CASE top \in p
  <2>1. ReduceDegree(p, top) = Plus(p, m)
    BY <1>8 DEF ReduceDegree, m
  <2>2. Plus(p, m) \subseteq 0 .. top - 1
    <3> SUFFICES ASSUME NEW e \in Plus(p, m) PROVE e \in 0 .. top - 1
      OBVIOUS
    <3>1. e \in 0 .. top /\ e # top
      BY <1>6, <1>7, <1>8 DEF Plus
    <3> QED
      BY <1>1, <3>1
  <2>3. Value(m) = Zero
    BY <1>2, <1>5, ModulusValue
  <2>4. Value(Plus(p, m)) = Plus(Value(p), Value(m))
    BY ValuePlus
  <2> QED
    BY <2>1, <2>2, <2>3, <2>4, PlusZero
<1>9. CASE top \notin p
  <2>1. ReduceDegree(p, top) = p
    BY <1>9 DEF ReduceDegree
  <2>2. p \subseteq 0 .. top - 1
    <3> SUFFICES ASSUME NEW e \in p PROVE e \in 0 .. top - 1
      OBVIOUS
    <3>1. e \in 0 .. top /\ e # top
      BY <1>9
    <3> QED
      BY <1>1, <3>1
  <2> QED
    BY <2>1, <2>2
<1> QED
  BY <1>8, <1>9

\* All of them from the highest possible one down.
LEMMA ReducedIs ==
    ASSUME NEW p \in SUBSET Degrees
    PROVE  Reduced(p) = Value(p)
<1> DEFINE m == GF_BITS - 1
           top(d) == 2 * GF_BITS - 1 - d
           Is(f) == f = [d \in 0 .. GF_BITS - 1 |->
                           IF d = 0 THEN p
                           ELSE IF 2 * GF_BITS - 1 - d \in f[d - 1]
                                THEN Plus(f[d - 1], {e + (2 * GF_BITS - 1 - d) - GF_BITS :
                                                     e \in allPp[GF_BITS]})
                                ELSE f[d - 1]]
           Run(f) == f = [d \in 0 .. m |->
                            IF d = 0 THEN p ELSE ReduceDegree(f[d - 1], top(d))]
           left == CHOOSE f : Is(f)
           St == SUBSET Int
           H == [z \in St \X Nat |->
                   IF ReduceDegree(z[1], top(z[2])) \in St
                   THEN ReduceDegree(z[1], top(z[2])) ELSE z[1]]
<1>1. GF_BITS \in Nat /\ GF_BITS >= 2 /\ allPp[GF_BITS] \subseteq 0 .. GF_BITS
  BY PolynomialShape
<1>2. Reduced(p) = left[GF_BITS - 1]
  BY DEF Reduced
<1>3. \A f : Is(f) <=> Run(f)
  BY DEF ReduceDegree
<1>4. p \in St /\ p \subseteq 0 .. top(1)
  BY <1>1 DEF Degrees
<1>5. H \in Steps(St)
  <2>1. ASSUME NEW z \in St \X Nat PROVE H[z] \in St
    <3>1. z[1] \in St
      OBVIOUS
    <3> QED
      BY <3>1
  <2>2. H = [z \in St \X Nat |-> H[z]]
    OBVIOUS
  <2> HIDE DEF H
  <2> QED
    BY <2>1, <2>2 DEF Steps
<1>6. ASSUME NEW q \in St, NEW d \in 1 .. m PROVE H[<<q, d>>] = ReduceDegree(q, top(d))
  <2>1. ReduceDegree(q, top(d)) \in St
    <3>1. \A e \in allPp[GF_BITS] : e + top(d) - GF_BITS \in Int
      BY <1>1
    <3>2. Plus(q, {e + top(d) - GF_BITS : e \in allPp[GF_BITS]}) \subseteq Int
      BY <3>1 DEF Plus
    <3> QED
      BY <3>2 DEF ReduceDegree
  <2>0. d \in Nat
    BY <1>1
  <2>2. <<q, d>> \in St \X Nat /\ <<q, d>>[1] = q /\ <<q, d>>[2] = d
    <3> HIDE DEF St, H, Is
    <3> QED
      BY <2>0
  <2> HIDE DEF St
  <2> QED
    BY <2>1, <2>2
<1> HIDE DEF H, St, Is
<1>7. PICK f : IsRun(f, St, p, H, m)
  <2>1. m \in Nat
    BY <1>1
  <2> QED
    BY <1>4, <1>5, <2>1, RunExists
<1>8. /\ f = [d \in 0 .. m |-> f[d]] /\ f[0] = p
      /\ \A d \in 0 .. m : f[d] \in St
      /\ \A d \in 1 .. m : f[d] = H[<<f[d - 1], d>>]
  BY <1>7 DEF IsRun
<1>9. Run(f)
  <2>1. ASSUME NEW d \in 0 .. m
        PROVE  f[d] = IF d = 0 THEN p ELSE ReduceDegree(f[d - 1], top(d))
    <3>1. CASE d = 0
      BY <1>8, <3>1
    <3>2. CASE d # 0
      <4>1. d \in 1 .. m /\ d - 1 \in 0 .. m
        BY <1>1, <3>2
      <4> QED
        BY <1>6, <1>8, <3>2, <4>1
    <3> QED
      BY <3>1, <3>2
  <2> QED
    BY <1>8, <2>1
<1>10. Run(left)
  <2>1. Is(f)
    BY <1>3, <1>9
  <2> HIDE DEF Run
  <2>2. Is(left)
    BY <2>1
  <2> HIDE DEF left
  <2> QED
    BY <1>3, <2>2
<1> HIDE DEF left
<1>11. left[0] = p /\ \A d \in 1 .. m : left[d] = ReduceDegree(left[d - 1], top(d))
  <2>1. \A d \in 0 .. m : left[d] = IF d = 0 THEN p ELSE ReduceDegree(left[d - 1], top(d))
    BY <1>10
  <2> HIDE DEF top
  <2> QED
    BY <1>1, <2>1
<1> DEFINE S == {d \in Nat : d <= m => /\ left[d] \subseteq 0 .. top(d + 1)
                                       /\ Value(left[d]) = Value(p)}
<1> HIDE DEF Run
<1>12. 0 \in S
  <2>1. top(0 + 1) = top(1)
    OBVIOUS
  <2>2. left[0] \subseteq 0 .. top(0 + 1) /\ Value(left[0]) = Value(p)
    <3> HIDE DEF top
    <3> QED
      BY <1>4, <1>11, <2>1
  <2> HIDE DEF top
  <2> QED
    BY <2>2
<1>13. ASSUME NEW d \in Nat, d \in S PROVE d + 1 \in S
  <2> SUFFICES ASSUME d + 1 <= m
               PROVE  /\ left[d + 1] \subseteq 0 .. top((d + 1) + 1)
                      /\ Value(left[d + 1]) = Value(p)
    OBVIOUS
  <2>1. d <= m /\ d + 1 \in 1 .. m /\ (d + 1) - 1 = d
    BY <1>1
  <2>2. top(d + 1) \in GF_BITS .. 2 * GF_BITS - 2 /\ top((d + 1) + 1) = top(d + 1) - 1
    BY <1>1, <2>1
  <2>3. left[d] \subseteq 0 .. top(d + 1) /\ Value(left[d]) = Value(p)
    BY <1>13, <2>1
  <2>4. left[d + 1] = ReduceDegree(left[d], top(d + 1))
    BY <1>11, <2>1
  <2> DEFINE tt == top(d + 1)
  <2>5. tt \in GF_BITS .. 2 * GF_BITS - 2 /\ left[d] \in SUBSET (0 .. tt)
        /\ left[d + 1] = ReduceDegree(left[d], tt) /\ top((d + 1) + 1) = tt - 1
    BY <2>2, <2>3, <2>4
  <2> HIDE DEF tt, top
  <2>6. ReduceDegree(left[d], tt) \subseteq 0 .. tt - 1
        /\ Value(ReduceDegree(left[d], tt)) = Value(left[d])
    BY <2>5, ReduceDegreeIs
  <2> QED
    BY <2>3, <2>5, <2>6
<1>14. Nat \subseteq S
  <2> HIDE DEF S
  <2> QED
    BY <1>12, <1>13, NatInduct
<1>15. m \in S /\ m <= m /\ top(m + 1) = GF_BITS - 1
  BY <1>1, <1>14
<1>16. left[m] \subseteq Bits /\ Value(left[m]) = Value(p)
  BY <1>15 DEF Bits
<1>17. Value(left[m]) = left[m]
  BY <1>16, ValueSelf DEF gf
<1> QED
  BY <1>2, <1>16, <1>17

\* The tables multiply polynomials modulo the field's polynomial, and divide.
THEOREM TablesAreRight ==
    /\ \A x, y \in gf : gf_mul[x][y] = Product(x, y)
    /\ \A x \in gf \ {Zero} : Product(x, inverse[x]) = One
<1>1. ASSUME NEW x \in gf, NEW y \in gf PROVE Times(x, y) = Product(x, y)
  <2>1. Product(x, y) = Reduced(Unreduced(x, y))
    BY DEF Product, Unreduced, Degrees
  <2>2. Unreduced(x, y) \in SUBSET Degrees
    BY DEF Unreduced
  <2>3. Reduced(Unreduced(x, y)) = Value(Unreduced(x, y))
    BY <2>2, ReducedIs
  <2> QED
    BY <2>1, <2>3, UnreducedValue
<1>2. ASSUME NEW x \in gf \ {Zero} PROVE Product(x, inverse[x]) = One
  <2>1. inverse[x] \in gf /\ Times(inverse[x], x) = One
    BY InverseIs
  <2>2. Times(x, inverse[x]) = Times(inverse[x], x)
    BY <2>1, TimesCommutes
  <2> QED
    BY <1>1, <2>1, <2>2
<1> QED
  BY <1>1, <1>2 DEF Times

-----------------------------------------------------------------------------
(* invert_mat: what it reports, and the product with the inverse *)

\* A matrix times its inverse is the identity.
LEMMA MatmulInverse ==
    ASSUME NEW k \in Nat \ {0}, NEW m \in Mat(Ix(k)), NEW N \in Mat(Ix(k)),
           \A x, y \in Vec(Ix(k)) : (\A r \in Ix(k) : y[r] = Dot(m[r], x))
                                    <=> (\A r \in Ix(k) : x[r] = Dot(N[r], y))
    PROVE  matmul(m, N) = Identity(k)
<1> DEFINE D == Ix(k)
<1>1. D = 0 .. k - 1 /\ 0 \in D
  BY DEF Ix
<1>2. m = [r \in D |-> m[r]] /\ DOMAIN m = D /\ DOMAIN N = D
      /\ \A r \in D : m[r] \in Vec(D) /\ N[r] \in Vec(D)
  BY DEF Mat
<1>3. DOMAIN N[0] = D
  BY <1>1, <1>2, VecAt
<1>4. ASSUME NEW c \in D, NEW r \in D
      PROVE  Dot(m[r], Column(N, c)) = UnitRow(r, k)[c]
  <2> DEFINE x == Column(N, c)
             y == UnitRow(c, k)
  <2>1. y \in Vec(D) /\ \A z \in Vec(D) : Dot(y, z) = z[c]
    BY UnitRowIs
  <2>2. x \in Vec(D) /\ \A a \in D : x[a] = N[a][c]
    BY <2>1, RowByIs
  <2>3. \A a \in D : x[a] = Dot(N[a], y)
    <3> HIDE DEF x, y
    <3>1. \A a \in D : Dot(N[a], y) = Dot(y, N[a])
      BY <1>2, <2>1, DotCommutes
    <3>2. ASSUME NEW a \in D PROVE x[a] = Dot(N[a], y)
      <4>1. N[a] \in Vec(D)
        BY <1>2
      <4>2. Dot(y, N[a]) = N[a][c]
        BY <2>1, <4>1
      <4>3. x[a] = N[a][c]
        BY <2>2
      <4> QED
        BY <3>1, <4>2, <4>3
    <3> QED
      BY <3>2
  <2> HIDE DEF x, y
  <2>4. y[r] = Dot(m[r], x)
    BY <2>1, <2>2, <2>3
  <2>5. y[r] = UnitRow(r, k)[c]
    BY <1>1 DEF y, UnitRow
  <2> QED
    BY <2>4, <2>5 DEF x
<1>5. ASSUME NEW r \in D PROVE RowTimes(m[r], N) = UnitRow(r, k)
  <2>1. RowTimes(m[r], N) = [c \in DOMAIN N[0] |-> Dot(m[r], Column(N, c))]
    BY <1>2, RowTimesIs
  <2>2. UnitRow(r, k) = [c \in D |-> UnitRow(r, k)[c]]
    BY <1>1 DEF UnitRow
  <2> QED
    BY <1>3, <1>4, <2>1, <2>2
<1>6. matmul(m, N) = [r \in D |-> RowTimes(m[r], N)]
  BY <1>2 DEF matmul
<1> QED
  BY <1>1, <1>5, <1>6 DEF Identity

\* invert_mat reports exactly the matrices that have no inverse, and inverts the others.
THEOREM InvertMatReports ==
    ASSUME NEW k \in Nat \ {0}, NEW m \in Mat(Ix(k))
    PROVE  /\ invert_mat(m, k).error <=> Singular(m, Ix(k))
           /\ ~invert_mat(m, k).error => matmul(m, invert_mat(m, k).matrix) = Identity(k)
<1> DEFINE D == Ix(k)
           inv == invert_mat(m, k)
           N == inv.matrix
<1>1. /\ inv.error => Singular(m, D)
      /\ ~inv.error => /\ N \in Mat(D)
                       /\ \A x, y \in Vec(D) : (\A r \in D : y[r] = Dot(m[r], x))
                                               <=> (\A r \in D : x[r] = Dot(N[r], y))
  BY InvertMatInverts
<1> HIDE DEF inv
<1>2. ASSUME ~inv.error, NEW x \in Vec(D), NEW d \in D, \A r \in D : Dot(m[r], x) = Zero
      PROVE  x[d] = Zero
  <2> DEFINE y == [r \in D |-> Zero]
  <2>1. y \in Vec(D) /\ \A r \in D : y[r] = Zero
    BY FieldLaws DEF Vec
  <2> HIDE DEF y, N
  <2>2. x[d] = Dot(N[d], y)
    BY <1>1, <1>2, <2>1
  <2>3. N[d] \in Vec(D)
    BY <1>1, <1>2 DEF Mat
  <2>4. Dot(N[d], y) = Zero
    BY <2>1, <2>3, DotZero
  <2> QED
    BY <2>2, <2>4
<1>3. ~inv.error => ~Singular(m, D)
  BY <1>2 DEF Singular
<1>4. ~inv.error => matmul(m, N) = Identity(k)
  <2> HIDE DEF N
  <2> QED
    BY <1>1, MatmulInverse
<1> QED
  BY <1>1, <1>3, <1>4 DEF inv

\* The product of two rows of length 2.
LEMMA DotTwo ==
    ASSUME NEW u \in Vec(Ix(2)), NEW x \in Vec(Ix(2))
    PROVE  Dot(u, x) = Plus(Times(u[0], x[0]), Times(u[1], x[1]))
<1> DEFINE D == Ix(2)
           v == [a \in D |-> IF a = 0 THEN Zero ELSE u[a]]
<1>1. 0 \in D /\ 1 \in D /\ D \ {1} = {0}
  BY DEF Ix
<1>2. IsFiniteSet(D)
  BY IxIs
<1>3. Zero \in gf /\ \A a \in D : u[a] \in gf
  BY FieldLaws, VecAt
<1>4. v \in Vec(D)
  BY <1>3 DEF Vec
<1>5. v[0] = Zero /\ v[1] = u[1] /\ \A a \in D \ {0} : v[a] = u[a]
  BY <1>1
<1> HIDE DEF v, D
<1> USE DEF D
<1>6. Dot(u, x) = Plus(Times(u[0], x[0]), Dot(v, x))
  BY <1>1, <1>2, <1>4, <1>5, DotSplit
<1>7. Dot(v, x) = Times(v[1], x[1])
  BY <1>1, <1>4, <1>5, DotOne
<1> QED
  BY <1>5, <1>6, <1>7

\* A matrix of two rows takes a vector other than 0 to 0 when its determinant is 0.
LEMMA SingularTwo ==
    ASSUME NEW m \in Mat(Ix(2))
    PROVE  Singular(m, Ix(2))
           <=> Plus(Times(m[0][0], m[1][1]), Times(m[0][1], m[1][0])) = Zero
<1> DEFINE D == Ix(2)
           det == Plus(Times(m[0][0], m[1][1]), Times(m[0][1], m[1][0]))
           a == m[0][0]
           b == m[0][1]
           c == m[1][0]
           d == m[1][1]
<1>1. D = {0, 1} /\ \A r \in D : m[r] \in Vec(D)
  BY DEF Ix, Mat
<1>2. a \in gf /\ b \in gf /\ c \in gf /\ d \in gf
  BY <1>1, VecAt
<1>3. \A x \in Vec(D) : /\ Dot(m[0], x) = Plus(Times(a, x[0]), Times(b, x[1]))
                        /\ Dot(m[1], x) = Plus(Times(c, x[0]), Times(d, x[1]))
                        /\ x[0] \in gf /\ x[1] \in gf
  BY <1>1, DotTwo, VecAt
<1>4. \A x \in Vec(D) : (\A r \in D : Dot(m[r], x) = Zero)
                        <=> /\ Plus(Times(a, x[0]), Times(b, x[1])) = Zero
                            /\ Plus(Times(c, x[0]), Times(d, x[1])) = Zero
  BY <1>1, <1>3
<1>5. det = Plus(Times(a, d), Times(b, c))
  OBVIOUS
<1> HIDE DEF a, b, c, d, det
<1>6. ASSUME NEW x \in gf, NEW y \in gf,
             Plus(Times(a, x), Times(b, y)) = Zero, Plus(Times(c, x), Times(d, y)) = Zero
      PROVE  Times(det, x) = Zero /\ Times(det, y) = Zero
  <2>1. Times(a, x) = Times(b, y) /\ Times(c, x) = Times(d, y)
    BY <1>6, PlusCancels
  <2>2. Times(a, d) \in gf /\ Times(b, c) \in gf
    BY <1>2, TimesType
  <2>3. /\ Times(det, x) = Plus(Times(Times(a, d), x), Times(Times(b, c), x))
        /\ Times(det, y) = Plus(Times(Times(a, d), y), Times(Times(b, c), y))
    BY <1>5, <2>2, <1>6, Distributes
  <2>4. Times(Times(a, d), x) = Times(d, Times(a, x))
    <3>1. Times(a, d) = Times(d, a)
      BY <1>2, TimesCommutes
    <3> QED
      BY <1>2, <1>6, <3>1, TimesAssociates
  <2>5. Times(d, Times(b, y)) = Times(b, Times(d, y))
    <3>1. Times(d, Times(b, y)) = Times(Times(d, b), y)
      BY <1>2, <1>6, TimesAssociates
    <3>2. Times(d, b) = Times(b, d)
      BY <1>2, TimesCommutes
    <3>3. Times(Times(b, d), y) = Times(b, Times(d, y))
      BY <1>2, <1>6, TimesAssociates
    <3> QED
      BY <3>1, <3>2, <3>3
  <2>6. Times(Times(b, c), x) = Times(b, Times(c, x))
    BY <1>2, <1>6, TimesAssociates
  <2>7. Times(Times(a, d), y) = Times(a, Times(d, y))
    BY <1>2, <1>6, TimesAssociates
  <2>8. Times(Times(b, c), y) = Times(c, Times(b, y))
    <3>1. Times(b, c) = Times(c, b)
      BY <1>2, TimesCommutes
    <3> QED
      BY <1>2, <1>6, <3>1, TimesAssociates
  <2>9. Times(a, Times(c, x)) = Times(c, Times(a, x))
    <3>1. Times(a, Times(c, x)) = Times(Times(a, c), x)
      BY <1>2, <1>6, TimesAssociates
    <3>2. Times(a, c) = Times(c, a)
      BY <1>2, TimesCommutes
    <3>3. Times(Times(c, a), x) = Times(c, Times(a, x))
      BY <1>2, <1>6, TimesAssociates
    <3> QED
      BY <3>1, <3>2, <3>3
  <2>10. Times(det, x) = Zero
    BY <2>1, <2>3, <2>4, <2>5, <2>6, PlusZero
  <2>11. Times(det, y) = Zero
    BY <2>1, <2>3, <2>7, <2>8, <2>9, PlusZero
  <2> QED
    BY <2>10, <2>11
<1>7. ASSUME Singular(m, D) PROVE det = Zero
  <2>1. PICK x \in Vec(D) : (\E e \in D : x[e] # Zero) /\ \A r \in D : Dot(m[r], x) = Zero
    BY <1>7 DEF Singular
  <2>2. Times(det, x[0]) = Zero /\ Times(det, x[1]) = Zero /\ x[0] \in gf /\ x[1] \in gf
    BY <1>3, <1>4, <1>6, <2>1
  <2>3. x[0] # Zero \/ x[1] # Zero
    BY <1>1, <2>1
  <2>4. det \in gf
    BY <1>2, <1>5, TimesType, PlusType
  <2>5. \A p, q \in gf : Times(p, q) = Zero => p = Zero \/ q = Zero
    BY FieldLaws
  <2> QED
    BY <2>2, <2>3, <2>4, <2>5
<1>8. ASSUME det = Zero, NEW p \in gf, NEW q \in gf, p # Zero \/ q # Zero,
             Plus(Times(a, p), Times(b, q)) = Zero, Plus(Times(c, p), Times(d, q)) = Zero
      PROVE  Singular(m, D)
  <2> DEFINE x == [e \in D |-> IF e = 0 THEN p ELSE q]
  <2>1. x \in Vec(D)
    BY DEF Vec
  <2>2. x[0] = p /\ x[1] = q /\ 0 \in D /\ 1 \in D
    BY <1>1
  <2> HIDE DEF x
  <2>3. \A r \in D : Dot(m[r], x) = Zero
    BY <1>4, <1>8, <2>1, <2>2
  <2> QED
    BY <1>8, <2>1, <2>2, <2>3 DEF Singular
<1>9. ASSUME det = Zero PROVE Singular(m, D)
  <2>1. /\ Times(a, d) = Times(d, a) /\ Times(b, c) = Times(c, b)
        /\ Times(c, d) = Times(d, c) /\ Times(a, b) = Times(b, a)
    BY <1>2, TimesCommutes
  <2>2. Plus(Times(a, d), Times(b, c)) = Zero /\ Plus(Times(c, d), Times(d, c)) = Zero
    BY <1>5, <1>9, <2>1, PlusZero
  <2>3. Plus(Times(a, b), Times(b, a)) = Zero
    BY <2>1, PlusZero
  <2>4. Plus(Times(c, b), Times(d, a)) = Zero
    BY <2>1, <2>2, PlusCommutes
  <2>5. CASE d # Zero \/ c # Zero
    BY <1>2, <1>8, <1>9, <2>2, <2>5
  <2>6. CASE b # Zero \/ a # Zero
    BY <1>2, <1>8, <1>9, <2>3, <2>4, <2>6
  <2>7. CASE a = Zero /\ b = Zero /\ c = Zero /\ d = Zero
    <3>1. Zero \in gf /\ One \in gf /\ One # Zero
      BY FieldLaws
    <3>2. \A z \in gf : Times(Zero, z) = Zero
      BY FieldLaws
    <3>3. Plus(Zero, Zero) = Zero
      BY PlusZero
    <3>4. Times(Zero, One) = Zero
      BY <3>1, <3>2
    <3>5. /\ Plus(Times(a, One), Times(b, One)) = Zero
          /\ Plus(Times(c, One), Times(d, One)) = Zero
      BY <2>7, <3>3, <3>4
    <3> QED
      BY <1>8, <1>9, <3>1, <3>5
  <2> QED
    BY <2>5, <2>6, <2>7
<1> QED
  BY <1>7, <1>9 DEF det
=============================================================================
