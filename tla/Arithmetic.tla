----------------------------- MODULE Arithmetic -----------------------------
(***************************************************************************)
(* Integer helpers the numeric kernels share.                               *)
(***************************************************************************)
EXTENDS Integers, Sequences, FiniteSetsExt, SequencesExt

AtMost(m, n) == IF m < n THEN m ELSE n
AtLeast(m, n) == IF m > n THEN m ELSE n

(* How many of size b hold a. *)
CeilDiv(a, b) == (a + b - 1) \div b

RoundUpToMultiple(value, multiple) == CeilDiv(value, multiple) * multiple

IsPowerOf2(n) == \E k \in 0..n : n = 2^k

FloorPowerOf2(n) == CHOOSE p \in 1..n : IsPowerOf2(p) /\ 2 * p > n

(* The same function; comparing it makes TLC compute its values once.  *)
Table(f) == CHOOSE g \in {f} : g = f

(* f[0] + ... + f[n - 1], halved so that the recursion stays shallow. *)
Total(n, f) ==
  LET sum[i \in 0..n] ==
        [k \in 0..n |->
          IF i = k THEN 0
          ELSE IF i + 1 = k THEN f[i]
          ELSE sum[i][(i + k) \div 2] + sum[(i + k) \div 2][k]]
  IN sum[0][n]

SumTo(n, F(_)) == Total(n, [i \in 0..(n - 1) |-> F(i)])

(* The inner product of two vectors with indices from 0. *)
Inner(u, v) == SumTo(Cardinality(DOMAIN u), LAMBDA i : u[i] * v[i])

(* n steps from start, given what the one before made and its number.  *)
Iterate(n, start, Step(_, _)) ==
  LET x[k \in 0..n] == IF k = 0 THEN start ELSE Step(x[k - 1], k - 1)
  IN x[n]

Power(b, n) == Iterate(n, 1, LAMBDA p, k : b * p)
=============================================================================
