---------------------------- MODULE MCIndexParts ----------------------------
(* An instance of IndexParts for TLC. *)
EXTENDS IndexParts

(* Files: a fixed and a variable payload column. *)
TwoColumns == <<1, 0>>
ShortAndLong == {<<1, 0>>, <<1, 1>>}

(* Columns: a variable and a fixed one; values of different lengths. *)
VariableFirst == <<0, 1>>
SomeValues == {<<>>, <<1>>, <<2, 3>>}

(* Rotation: few signs and shuffles, but all parts of a vector touched, and *)
(* an orthogonal matrix other than the identity.                            *)
SignsOf(n) ==
  {[i \in 0..(n - 1) |-> IF i \in negative THEN -1 ELSE 1] :
     negative \in {{}, {0, n \div 2}} \cup {{i} : i \in 0..(n - 1)}}
ShufflesOf(n) ==
  {[i \in 0..(n - 1) |-> (i * k + s) % n] : k \in {n - 1, 1}, s \in {0, 2}}
OrthogonalOf(n) ==
  {[i \in 0..(n - 1) |-> [j \in 0..(n - 1) |-> IF j = n - 1 - i THEN -1 ELSE 0]]}

(* Routing: whole lengths, so that they normalise to integers.              *)
Vec3(x, y, z) == (0 :> x) @@ (1 :> y) @@ (2 :> z)
FourCentroids ==
  (0 :> Vec3(3, 0, 4)) @@ (1 :> Vec3(0, 5, 0)) @@ (2 :> Vec3(8, 6, 0)) @@ (3 :> Vec3(0, 5, 0))
TwoQueries == {Vec3(5, 0, 0), Vec3(0, 3, 4)}
SuperVectorsOf == {Vec3(0, 0, 5), Vec3(4, 3, 0), Vec3(0, -5, 0)}

(* Codes: queries of mixed signs, with zeros, and one of nothing else;      *)
(* blocks of one vector, of part of a half, of both halves, and full ones.  *)
Mixed(a, b) == [d \in 0..(Dim - 1) |-> ((a * d + b) % 15) - 7]
SomeQueries ==
  {Mixed(4, 3), Mixed(7, 1), [d \in 0..(Dim - 1) |-> IF d = 5 THEN -3 ELSE d % 3],
   [d \in 0..(Dim - 1) |-> 0]}
Residual(i, k) ==
  [rotated |-> [d \in 0..(Dim - 1) |-> ((k * (i + 1) * (d + 2) + (i * d)) % 7) - 3],
   norm |-> i % 3]
SomeBlocks == {[i \in 1..n |-> Residual(i, n)] : n \in {1, 7, 18, 32}}
=============================================================================
