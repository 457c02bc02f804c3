----------------------------- MODULE BatchDecode -----------------------------
(***************************************************************************)
(* RxRcvAth with the arithmetic that BatchReceive abstracts: at the moment *)
(* when a batch is about to be decoded, fec.cc is given what the decoder   *)
(* holds.                                                                  *)
(***************************************************************************)
EXTENDS BatchReceive, Fec

\* fec_new refuses more.
ASSUME DecodeAssumption == MAX_CODED <= GF_SIZE + 1

\* The encoders of all base stations; a packet is as many symbols long as there
\* are native ones, and native packet x is 1 in the symbol x alone: since the code is linear,
\* what holds for these packets holds for all.
Codes == [k \in 1 .. MAX_BATCH_SIZE |-> [n \in 1 .. MAX_CODED |->
             IF k <= n THEN fec_new(k, n) ELSE fec_new(k, k)]]

Contents(code, x) == fec_encode(code, Identity(code.k), x)

-----------------------------------------------------------------------------
(* Properties *)

\* Any k of the n coded packets, whatever their order of arrival, give back the k
\* native packets: what CodeInfo takes for granted of the matrix arithmetic.
DecodeRecovers ==
    pc = "check" /\ HaveEnough /\ ~AllNative /\ ~aborted =>
        LET code == Codes[decoder.k][decoder.n]
            s == Shuffle(decoder)
            row == [r \in 0 .. code.k - 1 |-> Contents(code, s.pkts[r])]
        IN ~s.failed /\ fec_decode(code, row, s.inds) = Identity(code.k)

\* The tables multiply polynomials, and divide: what test_gf tries, and more.
TablesMultiply ==
    batch_id = 0 =>
        /\ \A x, y \in gf : gf_mul[x][y] = Product(x, y)
        /\ \A x \in gf \ {Zero} : Product(x, inverse[x]) = One

Determinant(m) == Plus(Product(m[0][0], m[1][1]), Product(m[0][1], m[1][0]))
Matrices(entries, k) == [0 .. k - 1 -> [0 .. k - 1 -> entries]]

\* invert_mat inverts every matrix that has an inverse, also those with zeros on
\* the diagonal (which decoding never makes), and reports the others.
InvertsMatrices ==
    batch_id = 0 =>
        /\ \A m \in Matrices(gf, 2) :
              LET inverted == invert_mat(m, 2) IN
              /\ inverted.error <=> Determinant(m) = Zero
              /\ ~inverted.error => matmul(m, inverted.matrix) = Identity(2)
        /\ \A m \in Matrices({Zero, One}, 3) :
              LET inverted == invert_mat(m, 3) IN
              ~inverted.error => matmul(m, inverted.matrix) = Identity(3)
=============================================================================
