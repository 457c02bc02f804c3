--------------------------------- MODULE Fec ---------------------------------
(***************************************************************************)
(* The erasure code of fec.cc: the field GF(2^GF_BITS) with its tables,    *)
(* the systematic encoding matrix made from a Vandermonde matrix, and the  *)
(* decoding by inversion of the rows that arrived.                         *)
(*                                                                         *)
(* A gf, GF_BITS bits in the code, is the set of the positions of its ones *)
(* (0 is {}, 1 is {0}), so that ^ is the symmetric difference and << moves *)
(* the positions up.  A packet is a function from 0 .. sz - 1 to gf, a     *)
(* matrix a function from rows to such functions.  GF_BITS is 8 in the     *)
(* code, and anything the table of polynomials allows may be chosen.       *)
(***************************************************************************)
EXTENDS Integers, FiniteSets, Sequences

CONSTANT GF_BITS

ASSUME FecAssumption == GF_BITS \in 2 .. 16

Bits == 0 .. GF_BITS - 1
gf == SUBSET Bits
GF_SIZE == 2 ^ GF_BITS - 1
Zero == {}
One == {0}

Plus(x, y) == (x \ y) \cup (y \ x)
ShiftLeft(x) == {e + 1 : e \in x}
\* The sum of f[a] for all a in its domain.
Sum(f) == {e \in Bits : Cardinality({a \in DOMAIN f : e \in f[a]}) % 2 = 1}

\* The primitive polynomials, by degree.
allPp == <<{}, {0, 1, 2}, {0, 1, 3}, {0, 1, 4}, {0, 2, 5}, {0, 1, 6}, {0, 3, 7},
           {0, 2, 3, 4, 8}, {0, 4, 9}, {0, 3, 10}, {0, 2, 11}, {0, 1, 4, 6, 12},
           {0, 1, 3, 4, 13}, {0, 1, 6, 10, 14}, {0, 1, 15}, {0, 1, 3, 12, 16}>>

modnn[x \in Nat] ==
    IF x < GF_SIZE THEN x
    ELSE LET y == x - GF_SIZE IN modnn[(y \div 2 ^ GF_BITS) + (y % 2 ^ GF_BITS)]

-----------------------------------------------------------------------------
(* The tables: what generate_gf and init_mul_table leave behind. *)

Top == GF_BITS - 1

\* The power after p: shifted, and the bit that falls out replaced.
NextPower(p) == IF Top \in p THEN Plus(allPp[GF_BITS] \ {GF_BITS}, ShiftLeft(p \ {Top}))
                             ELSE ShiftLeft(p)

gf_exp == LET power[a \in 0 .. GF_SIZE - 1] ==
                  IF a < GF_BITS THEN {a}
                  ELSE IF a = GF_BITS THEN allPp[GF_BITS] \ {GF_BITS}
                  ELSE NextPower(power[a - 1])
          IN [a \in 0 .. 2 * GF_SIZE - 1 |-> power[a % GF_SIZE]]

\* Every element but 0 is a power of the root: the polynomial is primitive.
ASSUME PrimitiveAssumption == {gf_exp[a] : a \in 0 .. GF_SIZE - 1} = gf \ {Zero}

\* The last index written wins; 0 gets a special value.
gf_log == [x \in gf |->
              LET at == {a \in 0 .. GF_SIZE - 1 : gf_exp[a] = x} IN
              IF x = Zero THEN GF_SIZE
              ELSE IF at = {} THEN 0 ELSE CHOOSE a \in at : \A b \in at : b <= a]

inverse == [x \in gf |-> IF x \in {Zero, One} THEN x ELSE gf_exp[GF_SIZE - gf_log[x]]]

\* Bug: the rows and columns of 0 are not cleared.
Bug_gf_mul == [x \in gf |-> [y \in gf |-> gf_exp[modnn[gf_log[x] + gf_log[y]]]]]
gf_mul == [x \in gf |-> [y \in gf |->
              IF Zero \in {x, y} THEN Zero ELSE gf_exp[modnn[gf_log[x] + gf_log[y]]]]]

-----------------------------------------------------------------------------
(* Matrices *)

\* dst + c * src, for packets and for rows alike.
addmul(dst, src, c) == [a \in DOMAIN dst |-> Plus(dst[a], gf_mul[c][src[a]])]

\* The product of row p, of length k, with matrix b.
RowTimes(p, b) ==
    [c \in DOMAIN b[0] |-> Sum([a \in DOMAIN p |-> gf_mul[p[a]][b[a][c]]])]
matmul(a, b) == [r \in DOMAIN a |-> RowTimes(a[r], b)]

UnitRow(a, k) == [c \in 0 .. k - 1 |-> IF c = a THEN One ELSE Zero]
Identity(k) == [r \in 0 .. k - 1 |-> UnitRow(r, k)]

Swapped(f, a, b) == [f EXCEPT ![a] = f[b], ![b] = f[a]]

\* invert_mat: the pivots, those already used, and which rows were swapped.
Pivots(s, k) == {p \in (0 .. k - 1 \ s.used) \X (0 .. k - 1 \ s.used) :
                     s.src[p[1]][p[2]] # Zero}

\* First the diagonal, then row by row.
FindPivot(s, col, k) ==
    LET found == Pivots(s, k) IN
    IF <<col, col>> \in found THEN <<col, col>>
    ELSE CHOOSE p \in found : \A q \in found : p[1] < q[1] \/ (p[1] = q[1] /\ p[2] <= q[2])

\* The pivot's row is divided by the pivot, and its column cleared elsewhere.
Eliminate(src, icol) ==
    LET c == src[icol][icol]
        divided == [src[icol] EXCEPT ![icol] = One]
        pivotRow == [a \in DOMAIN divided |-> gf_mul[inverse[c]][divided[a]]]
    IN [r \in DOMAIN src |->
            IF r = icol THEN pivotRow
            ELSE addmul([src[r] EXCEPT ![icol] = Zero], pivotRow, src[r][icol])]

InvertColumn(s, col, k) ==
    IF s.error \/ Pivots(s, k) = {} THEN [s EXCEPT !.error = TRUE]
    ELSE LET p == FindPivot(s, col, k) IN
         [src |-> Eliminate(Swapped(s.src, p[1], p[2]), p[2]), used |-> s.used \cup {p[2]},
          swaps |-> Append(s.swaps, p), error |-> FALSE]

\* The columns are put back in the reverse order of the swaps.
Bug_SwapBack(src, swaps) == src
SwapBack(src, swaps) ==
    LET back[t \in 0 .. Len(swaps)] ==
            IF t = 0 THEN src
            ELSE LET p == swaps[Len(swaps) - t + 1] IN
                 [r \in DOMAIN src |-> Swapped(back[t - 1][r], p[1], p[2])]
    IN back[Len(swaps)]

invert_mat(src, k) ==
    LET run[col \in 0 .. k] ==
            IF col = 0 THEN [src |-> src, used |-> {}, swaps |-> <<>>, error |-> FALSE]
            ELSE InvertColumn(run[col - 1], col - 1, k)
        done == run[k]
    IN [error |-> done.error, matrix |-> SwapBack(done.src, done.swaps)]

\* invert_vdm: c holds the coefficients of the product of all x - p[a], and each
\* column of the inverse is the quotient by one of the factors.
VdmCoefficients(p, k) ==
    LET c[a \in 0 .. k - 1] ==
            IF a = 0 THEN [b \in 0 .. k - 1 |-> IF b = k - 1 THEN p[0] ELSE Zero]
            ELSE [b \in 0 .. k - 1 |->
                     IF b = k - 1 THEN Plus(c[a - 1][b], p[a])
                     ELSE IF b >= k - a THEN Plus(c[a - 1][b], gf_mul[p[a]][c[a - 1][b + 1]])
                     ELSE c[a - 1][b]]
    IN c[k - 1]

VdmColumn(c, xx, k) ==
    LET b[a \in 0 .. k - 1] ==
            IF a = k - 1 THEN One ELSE Plus(c[a + 1], gf_mul[xx][b[a + 1]])
        t[a \in 0 .. k - 1] ==
            IF a = k - 1 THEN One ELSE Plus(gf_mul[xx][t[a + 1]], b[a])
    IN [a \in 0 .. k - 1 |-> gf_mul[inverse[t[0]]][b[a]]]

invert_vdm(src, k) ==
    IF k = 1 THEN src
    ELSE LET p == [r \in 0 .. k - 1 |-> src[r][1]]
             column == [r \in 0 .. k - 1 |-> VdmColumn(VdmCoefficients(p, k), p[r], k)]
         IN [r \in 0 .. k - 1 |-> [c \in 0 .. k - 1 |-> column[c][r]]]

-----------------------------------------------------------------------------
(* Encoding and decoding *)

\* Row r of the Vandermonde matrix: the powers of 0, then of the powers of alpha.
Bug_VdmRow(r, k) ==
    LET power == IF r = 0 THEN 0 ELSE r - 1 IN [c \in 0 .. k - 1 |-> gf_exp[modnn[power * c]]]
VdmRow(r, k) == IF r = 0 THEN UnitRow(0, k)
                ELSE [c \in 0 .. k - 1 |-> gf_exp[modnn[(r - 1) * c]]]

\* For k <= n <= GF_SIZE + 1: fec_new refuses other parameters.
fec_new(k, n) ==
    LET inverted == invert_vdm([r \in 0 .. k - 1 |-> VdmRow(r, k)], k)
        bottom == matmul([r \in k .. n - 1 |-> VdmRow(r, k)], inverted)
    IN [k |-> k, n |-> n,
        enc_matrix |-> [r \in 0 .. n - 1 |-> IF r < k THEN UnitRow(r, k) ELSE bottom[r]]]

\* The coded packet with the given index.
fec_encode(code, src, index) ==
    IF index < code.k THEN src[index] ELSE RowTimes(code.enc_matrix[index], src)

build_decode_matrix(code, index) ==
    invert_mat([r \in 0 .. code.k - 1 |->
                   IF index[r] < code.k THEN UnitRow(r, code.k) ELSE code.enc_matrix[index[r]]],
               code.k)

\* fec_decode after shuffle has put pkt and index in order; a singular matrix
\* leaves the packets alone.
fec_decode(code, pkt, index) ==
    LET m_dec == build_decode_matrix(code, index)
        first == [r \in 0 .. code.k - 1 |-> pkt[r]]
    IN [r \in 0 .. code.k - 1 |-> IF index[r] < code.k \/ m_dec.error THEN pkt[r]
                                  ELSE RowTimes(m_dec.matrix[r], first)]

-----------------------------------------------------------------------------
(* Reference *)

\* A product as a polynomial, reduced from the highest possible degree on.
Reduced(x) ==
    LET left[d \in 0 .. GF_BITS - 1] ==
            IF d = 0 THEN x
            ELSE LET top == 2 * GF_BITS - 1 - d IN
                 IF top \in left[d - 1]
                 THEN Plus(left[d - 1], {e + top - GF_BITS : e \in allPp[GF_BITS]})
                 ELSE left[d - 1]
    IN left[GF_BITS - 1]
Product(x, y) == Reduced({d \in 0 .. 2 * GF_BITS - 2 :
                     Cardinality({p \in x \X y : p[1] + p[2] = d}) % 2 = 1})
=============================================================================
