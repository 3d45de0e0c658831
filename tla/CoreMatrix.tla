----------------------------- MODULE CoreMatrix ----------------------------
(* The matrix kernel of CoreMark (core_matrix.c), on N by N matrices in    *)
(* row order: a matrix is a function on 0..N*N-1. A and B hold ee_s16, C   *)
(* holds ee_s32.                                                           *)
EXTENDS Crc

Elems(N) == 0..(N * N - 1)

(* MUTANT: N is not taken back by one after the loop.                      *)
MatrixSize_past(blksize) ==
  CHOOSE n \in 0..blksize : n * n * 8 >= blksize /\ (n - 1) * (n - 1) * 8 < blksize

(* The largest N whose eight bytes per element stay below the block size.  *)
MatrixSize(blksize) ==
  CHOOSE n \in 0..blksize : n * n * 8 < blksize /\ (n + 1) * (n + 1) * 8 >= blksize

(* align_mem: up to the next multiple of four.                             *)
align_mem(x) == 4 * ((x + 3) \div 4)

(* Seeds and orders stay positive, so C's % and TLA+'s agree.              *)
core_init_matrix(blksize, seed) ==
  LET N == MatrixSize(blksize)
      s[k \in Elems(N)] ==
        ((k + 1) * (IF k = 0 THEN (IF seed = 0 THEN 1 ELSE seed) ELSE s[k - 1])) % 65536
      B == [k \in Elems(N) |-> S16(s[k] + k + 1)]
  IN [N |-> N, B |-> B, A |-> [k \in Elems(N) |-> U8(B[k] + k + 1)]]

matrix_big(val) == S16(61440 + (val % 4096))

bit_extract(x, from, to) == (x \div 2^from) % 2^to

RECURSIVE SumOver(_, _)
SumOver(f, n) == IF n = 0 THEN 0 ELSE f[n - 1] + SumOver(f, n - 1)

(* The accumulator of matrix_sum is reset, for ten points, where it passes *)
(* clipval; otherwise an element larger than the one before scores one.    *)
matrix_sum(N, C, clipval) ==
  LET sum[n \in 0..(N * N), tmp \in Int, prev \in Int, ret \in Int] ==
        IF n = N * N THEN ret
        ELSE IF tmp + C[n] > clipval THEN sum[n + 1, 0, C[n], S16(ret + 10)]
        ELSE sum[n + 1, tmp + C[n], C[n], IF C[n] > prev THEN S16(ret + 1) ELSE ret]
  IN sum[0, 0, 0, 0]

matrix_add_const(N, A, val) == [k \in Elems(N) |-> S16(A[k] + val)]

matrix_mul_const(N, A, val) == [k \in Elems(N) |-> A[k] * val]

(* Only the first N elements of C are written.                             *)
matrix_mul_vect(N, C, A, B) ==
  [k \in Elems(N) |->
     IF k < N THEN SumOver([j \in 0..(N - 1) |-> A[k * N + j] * B[j]], N) ELSE C[k]]

(* Element k of the product, and of the product of extracted bits.         *)
Product(N, A, B, k, j) == A[(k \div N) * N + j] * B[j * N + (k % N)]

matrix_mul_matrix(N, A, B) ==
  [k \in Elems(N) |-> SumOver([j \in 0..(N - 1) |-> Product(N, A, B, k, j)], N)]

matrix_mul_matrix_bitextract(N, A, B) ==
  [k \in Elems(N) |->
     SumOver([j \in 0..(N - 1) |-> LET tmp == Product(N, A, B, k, j)
                                   IN bit_extract(tmp, 2, 4) * bit_extract(tmp, 5, 7)], N)]

(* The k-th of the four operations of matrix_test: the result left in C.   *)
MatrixOperation(k, m, C, val) ==
  CASE k = 1 -> matrix_mul_const(m.N, m.A, val)
    [] k = 2 -> matrix_mul_vect(m.N, C, m.A, m.B)
    [] k = 3 -> matrix_mul_matrix(m.N, m.A, m.B)
    [] k = 4 -> matrix_mul_matrix_bitextract(m.N, m.A, m.B)

=============================================================================
