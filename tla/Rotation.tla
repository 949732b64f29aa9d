------------------------------ MODULE Rotation ------------------------------
(***************************************************************************)
(* RotationMatrix: the random rotation every vector is encoded with and     *)
(* every query is rotated by.  The builder generates one, rotates the       *)
(* centroids with it and saves it; a search loads it from rotation.bin and  *)
(* rotates its queries.  Each kind has a dense matrix and, unless it was    *)
(* drawn at random, a transform that needs no matrix.                       *)
(*                                                                         *)
(* Values are integers: the factors 1/sqrt(n) are left out, and where a     *)
(* transform scales some components and not others the others are           *)
(* multiplied instead, so that every result is the code's times the one     *)
(* number whose square is ScaleSquared.  RoundMultiple stands for the 64    *)
(* that FHT-Kac dimensions are a multiple of.                               *)
(***************************************************************************)
EXTENDS Arithmetic, FiniteSets

CONSTANTS
  Dims,            \* dimensions a rotation is made for
  Signs(_),        \* what the generator may draw as n signs
  Shuffles(_),     \* ... as a permutation of 0..n-1
  Orthogonal(_),   \* ... as a random matrix, after Gram-Schmidt
  RoundMultiple,   \* 64
  NumRounds        \* fht_kac_num_rounds_

ASSUME RotationAssumption ==
  /\ Dims \subseteq Nat \ {0} /\ NumRounds \in Nat
  /\ RoundMultiple \in Nat \ {0} /\ RoundMultiple % 2 = 0
  /\ \A n \in Dims \cup {NumRounds * dim : dim \in Dims} :
       Signs(n) \subseteq [0..(n - 1) -> {-1, 1}]
  /\ \A n \in Dims : \A p \in Shuffles(n) :
       /\ p \in [0..(n - 1) -> 0..(n - 1)]
       /\ \A d \in 0..(n - 1) : \E i \in 0..(n - 1) : p[i] = d
       /\ \A i, j \in 0..(n - 1) : p[i] = p[j] => i = j
  /\ \A n \in Dims : \A m \in Orthogonal(n) :
       /\ m \in [0..(n - 1) -> [0..(n - 1) -> Int]]
       /\ \A i, j \in 0..(n - 1) : Inner(m[i], m[j]) = IF i = j THEN 1 ELSE 0

VARIABLES
  rotation,  \* the RotationMatrix of the builder
  file,      \* the fields of rotation.bin, as far as they were written
  loaded     \* what Load returned

rotationVars == <<rotation, file, loaded>>

Nothing == [kind |-> "none"]
Root(n) == CHOOSE r \in 1..n : r * r = n
Basis(dim, i) == [j \in 0..(dim - 1) |-> IF i = j THEN 1 ELSE 0]
-----------------------------------------------------------------------------
(* Transforms. *)

(* One level: pairs at distance len within the window become sum and        *)
(* difference.                                                              *)
Butterflies(v, start, width, len) ==
  Table([i \in DOMAIN v |->
    LET j == (i - start) % (2 * len)
    IN IF i < start \/ i >= start + width THEN v[i]
       ELSE IF j < len THEN v[i] + v[i + len] ELSE v[i - len] - v[i]])

FWHT(v, start, width) ==
  Iterate(Cardinality({p \in 0..width : 2^p < width}), v,
          LAMBDA u, k : Butterflies(u, start, width, 2^k))

Signed(v, signs) == Table([i \in DOMAIN v |-> v[i] * signs[i]])

(* Largest powers of two first. *)
GreedyPowerOf2Blocks(dim) ==
  LET blocks[n \in 0..dim] ==
        IF n = 0 THEN <<>> ELSE <<FloorPowerOf2(n)>> \o blocks[n - FloorPowerOf2(n)]
  IN blocks[dim]

OffsetOf(blocks, k) == SumTo(k - 1, LAMBDA i : blocks[i + 1])

(* The FWHT of each block, all scaled as the first. *)
TransformBlocks(v, blocks) ==
  Iterate(Len(blocks), v, LAMBDA u, k :
    LET width == blocks[k + 1]
        start == OffsetOf(blocks, k + 1)
        w == FWHT(u, start, width)
        rescale == Root(blocks[1]) \div Root(width)
    IN Table([i \in DOMAIN u |->
         IF i \in start..(start + width - 1) THEN w[i] * rescale ELSE w[i]]))

ApplyBlockedFast(r, v) ==
  Signed(TransformBlocks(Table([i \in DOMAIN v |-> v[r.permutation[i]]]), r.block_sizes),
         r.diag_signs)

ApplyBlockedFastInverse(r, v) ==
  LET w == TransformBlocks(Signed(v, r.diag_signs), r.block_sizes)
  IN [d \in DOMAIN v |-> w[CHOOSE i \in DOMAIN v : r.permutation[i] = d]]

(* The window of a round: the front, or the back in odd rounds. *)
WindowStart(r, round) ==
  IF r.trunc_dim # r.dim /\ round % 2 = 1 THEN r.dim - r.trunc_dim ELSE 0

ApplyNormalizedFwhtWindow(v, start, width) ==
  LET w == FWHT(v, start, width)
  IN Table([i \in DOMAIN v |->
       IF i \in start..(start + width - 1) THEN w[i] ELSE w[i] * Root(width)])

ApplyNormalizedHalfMix(v, dim) ==
  LET half == dim \div 2
  IN Table([i \in DOMAIN v |->
       IF i < half THEN v[i] + v[i + half] ELSE v[i - half] - v[i]])

RoundSigns(r, round) == [i \in 0..(r.dim - 1) |-> r.kac_signs[round * r.dim + i]]

ApplyFhtKacFast(r, v) ==
  Iterate(r.num_rounds, v, LAMBDA u, round :
    ApplyNormalizedHalfMix(
      ApplyNormalizedFwhtWindow(Signed(u, RoundSigns(r, round)),
                                WindowStart(r, round), r.trunc_dim), r.dim))

UndoRound(r, v, round) ==
  Signed(ApplyNormalizedFwhtWindow(ApplyNormalizedHalfMix(v, r.dim),
                                   WindowStart(r, round), r.trunc_dim),
         RoundSigns(r, round))

(* A fault for the runs: the rounds are undone first to last. *)
ApplyFhtKacFastForward(r, v) ==
  Iterate(r.num_rounds, v, LAMBDA u, round : UndoRound(r, u, round))

ApplyFhtKacFastInverse(r, v) ==
  Iterate(r.num_rounds, v, LAMBDA u, k : UndoRound(r, u, r.num_rounds - 1 - k))

(* P^T v and P v from the matrix. *)
ApplyDense(r, v) ==
  [j \in DOMAIN v |-> SumTo(r.dim, LAMBDA i : r.data[i][j] * v[i])]
ApplyDenseInverse(r, v) ==
  [i \in DOMAIN v |-> SumTo(r.dim, LAMBDA j : r.data[i][j] * v[j])]

Apply(r, v) ==
  CASE ~r.fast -> ApplyDense(r, v)
    [] r.fast /\ r.kind = "blocked" -> ApplyBlockedFast(r, v)
    [] r.fast /\ r.kind = "fht_kac" -> ApplyFhtKacFast(r, v)
    [] OTHER -> Signed(FWHT(v, 0, r.dim), r.diag_signs)

ApplyInverse(r, v) ==
  CASE ~r.fast -> ApplyDenseInverse(r, v)
    [] r.fast /\ r.kind = "blocked" -> ApplyBlockedFastInverse(r, v)
    [] r.fast /\ r.kind = "fht_kac" -> ApplyFhtKacFastInverse(r, v)
    [] OTHER -> FWHT(Signed(v, r.diag_signs), 0, r.dim)
-----------------------------------------------------------------------------
(* Generation.  A generator that does not support the dimension returns     *)
(* false; the FHT-Kac one has by then made the object of its kind.  The     *)
(* matrix of a transform has the transformed basis vectors as rows.         *)
Empty(dim) ==
  [kind |-> "random", fast |-> FALSE, dim |-> dim,
   data |-> Table([i \in 0..(dim - 1) |-> [j \in 0..(dim - 1) |-> 0]]),
   diag_signs |-> <<>>, block_sizes |-> <<>>, permutation |-> <<>>,
   padded_dim |-> 0, trunc_dim |-> 0, num_rounds |-> 0, kac_signs |-> <<>>]

Attempt(r, ok) == rotation' = [ok |-> ok, matrix |-> r]

GenerateRandom(r) ==
  \E m \in Orthogonal(r.dim) : Attempt([Empty(r.dim) EXCEPT !.data = m], TRUE)

OddPopcount(i, j) ==
  Cardinality({k \in 0..i : (i \div 2^k) % 2 = 1 /\ (j \div 2^k) % 2 = 1}) % 2 = 1

GenerateHadamard(r, fast) ==
  \/ ~IsPowerOf2(r.dim) /\ Attempt(r, FALSE)
  \/ /\ IsPowerOf2(r.dim)
     /\ \E s \in Signs(r.dim) :
          Attempt([Empty(r.dim) EXCEPT
                     !.kind = "hadamard", !.fast = fast, !.diag_signs = s,
                     !.data = [i \in 0..(r.dim - 1) |-> [j \in 0..(r.dim - 1) |->
                                 IF OddPopcount(i, j) THEN -s[j] ELSE s[j]]]], TRUE)

(* The bound of an integer model: blocks whose scale is a whole number. It  *)
(* leaves out, for example, 96, 768 and 960 for the blocked kind and 768    *)
(* and 960 for FHT-Kac.                                                     *)
WholeScales(blocks) == \A k \in DOMAIN blocks : \E n \in 1..blocks[k] : n * n = blocks[k]

GenerateBlockedHadamardPermuted(r, fast) ==
  /\ WholeScales(GreedyPowerOf2Blocks(r.dim))
  /\ \E s \in Signs(r.dim), p \in Shuffles(r.dim) :
       LET b == [Empty(r.dim) EXCEPT
                   !.kind = "blocked", !.fast = fast, !.diag_signs = s,
                   !.block_sizes = GreedyPowerOf2Blocks(r.dim), !.permutation = p]
       IN Attempt([b EXCEPT !.data =
                    [i \in 0..(r.dim - 1) |-> ApplyBlockedFast(b, Basis(r.dim, i))]], TRUE)

GenerateFhtKacRotator(r, fast) ==
  LET k == [Empty(r.dim) EXCEPT
              !.kind = "fht_kac", !.fast = fast, !.data = r.data,
              !.padded_dim = RoundUpToMultiple(r.dim, RoundMultiple),
              !.trunc_dim = FloorPowerOf2(r.dim), !.num_rounds = NumRounds]
  IN \/ k.padded_dim # r.dim /\ Attempt([k EXCEPT !.kac_signs = r.kac_signs], FALSE)
     \/ /\ k.padded_dim = r.dim
        /\ k.trunc_dim # r.dim => WholeScales(<<k.trunc_dim>>)
        /\ \E s \in Signs(NumRounds * r.dim) :
             LET g == [k EXCEPT !.kac_signs = s]
             IN Attempt([g EXCEPT !.data =
                  [i \in 0..(r.dim - 1) |-> ApplyFhtKacFast(g, Basis(r.dim, i))]], TRUE)
-----------------------------------------------------------------------------
(* rotation.bin, field by field. *)
(* A fault for the runs: the kind is not saved. *)
FlagsFastOnly(r) == IF r.fast THEN {1} ELSE {}

Flags(r) ==
  (IF r.fast THEN {1} ELSE {})
    \cup (CASE r.kind = "blocked" -> {2} [] r.kind = "fht_kac" -> {4} [] OTHER -> {})

HasSigns(flags) == 1 \in flags /\ 4 \notin flags

Fields(r) ==
  <<r.dim, r.data, Flags(r)>>
    \o (IF HasSigns(Flags(r)) THEN <<r.diag_signs>> ELSE <<>>)
    \o (CASE r.kind = "blocked" -> <<Len(r.block_sizes), <<r.block_sizes, r.permutation>>>>
          [] r.kind = "fht_kac" -> <<<<r.padded_dim, r.trunc_dim, r.num_rounds>>, r.kac_signs>>
          [] OTHER -> <<>>)

Refused == [kind |-> "refused"]

LoadBlocked(r, rest) ==
  LET blocks == rest[2][1]
      permutation == rest[2][2]
  IN IF /\ Len(rest) = 2
        /\ \A k \in DOMAIN blocks : IsPowerOf2(blocks[k])
        /\ OffsetOf(blocks, Len(blocks) + 1) = r.dim
        /\ {permutation[i] : i \in 0..(r.dim - 1)} = 0..(r.dim - 1)
     THEN [r EXCEPT !.kind = "blocked", !.block_sizes = blocks, !.permutation = permutation]
     ELSE Refused

LoadFhtKac(r, rest) ==
  LET meta == rest[1]
  IN IF /\ Len(rest) = 2
        /\ meta[1] = r.dim /\ RoundUpToMultiple(r.dim, RoundMultiple) = r.dim
        /\ IsPowerOf2(meta[2]) /\ meta[2] <= r.dim
     THEN [r EXCEPT !.kind = "fht_kac", !.padded_dim = meta[1], !.trunc_dim = meta[2],
                    !.num_rounds = meta[3], !.kac_signs = rest[2]]
     ELSE Refused

(* A field that is not all there cannot be read.  An FHT-Kac rotation is    *)
(* loaded as fast however it was saved; only a fast Hadamard or blocked one *)
(* has its signs in the file.                                               *)
LoadFields(f, dim) ==
  IF Len(f) < 3 \/ f[1] # dim THEN Refused
  ELSE LET flags == f[3]
           signed == HasSigns(flags)
           r == [Empty(dim) EXCEPT
                   !.data = f[2], !.fast = signed \/ 4 \in flags,
                   !.kind = IF 1 \in flags THEN "hadamard" ELSE "random",
                   !.diag_signs = IF signed /\ Len(f) > 3 THEN f[4] ELSE <<>>]
           rest == SubSeq(f, IF signed THEN 5 ELSE 4, Len(f))
       IN IF signed /\ Len(f) < 4 THEN Refused
          ELSE IF 2 \in flags THEN LoadBlocked(r, rest)
          ELSE IF 4 \in flags THEN LoadFhtKac(r, rest)
          ELSE r
-----------------------------------------------------------------------------
RotationInit ==
  /\ \E dim \in Dims : rotation = [ok |-> FALSE, matrix |-> Empty(dim)]
  /\ file = <<>>
  /\ loaded = Nothing

(* The builder tries one generator after the other until one succeeds. *)
Generate ==
  /\ ~rotation.ok
  /\ \/ GenerateRandom(rotation.matrix)
     \/ \E fast \in BOOLEAN :
          \/ GenerateHadamard(rotation.matrix, fast)
          \/ GenerateBlockedHadamardPermuted(rotation.matrix, fast)
          \/ GenerateFhtKacRotator(rotation.matrix, fast)
  /\ UNCHANGED <<file, loaded>>

(* Save, or as much of it as was written before it failed or crashed. *)
Save ==
  /\ rotation.ok /\ file = <<>>
  /\ \E n \in 1..Len(Fields(rotation.matrix)) :
       file' = SubSeq(Fields(rotation.matrix), 1, n)
  /\ UNCHANGED <<rotation, loaded>>

Load(dim) ==
  /\ file # <<>> /\ loaded = Nothing
  /\ loaded' = LoadFields(file, dim)
  /\ UNCHANGED <<rotation, file>>

RotationNext == Generate \/ Save \/ \E dim \in Dims : Load(dim)

RotationSpec == RotationInit /\ [][RotationNext]_rotationVars
-----------------------------------------------------------------------------
ScaleSquared(r) ==
  CASE r.kind = "hadamard" -> r.dim
    [] r.kind = "blocked" -> r.block_sizes[1]
    [] r.kind = "fht_kac" -> Power(2 * r.trunc_dim, r.num_rounds)
    [] r.kind = "random" -> 1

(* A vector no two of whose components are equal or opposite. *)
Probe(dim) == [i \in 0..(dim - 1) |-> i * i + 1]

(* Whatever kind was generated, and on either path, rotating preserves      *)
(* inner products, the inverse undoes it, and the transform is the matrix:  *)
(* distances estimated between rotated codes are those of the vectors.      *)
RotationIsIsometry ==
  rotation.ok =>
    LET r == rotation.matrix
        image == Table([i \in 0..(r.dim - 1) |-> Apply(r, Basis(r.dim, i))])
        rotated == Apply(r, Probe(r.dim))
    IN /\ \A i, j \in 0..(r.dim - 1) :
            Inner(image[i], image[j]) = IF i = j THEN ScaleSquared(r) ELSE 0
       /\ ApplyInverse(r, rotated) = [i \in 0..(r.dim - 1) |-> ScaleSquared(r) * Probe(r.dim)[i]]
       /\ rotated = ApplyDense(r, Probe(r.dim))
       /\ ApplyInverse(r, rotated) = ApplyDenseInverse(r, rotated)

(* A rotation loaded from a whole file rotates queries exactly as the saved *)
(* one rotated the centroids, whichever path each takes; a file cut off     *)
(* anywhere, or one of another dimension, is refused and never read as a    *)
(* rotation of another kind.                                                *)
LoadedRotatesAlike ==
  loaded # Nothing =>
    LET r == rotation.matrix
    IN \/ loaded = Refused
       \/ /\ file = Fields(r)
          /\ loaded.dim = r.dim
          /\ Apply(loaded, Probe(r.dim)) = Apply(r, Probe(r.dim))
          /\ ApplyInverse(loaded, Probe(r.dim)) = ApplyInverse(r, Probe(r.dim))
=============================================================================
