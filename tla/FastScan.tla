------------------------------ MODULE FastScan ------------------------------
(***************************************************************************)
(* The first filtering stage of a cluster: 32 vectors at a time, their      *)
(* distances to the query estimated from one sign bit per component.  The   *)
(* encoder takes the signs of a rotated residual; the writer packs the bits *)
(* of 32 vectors so that one shuffle looks up 16 of them; the estimator     *)
(* quantises the rotated query, spreads it over a table of 16-bit sums, low *)
(* and high bytes apart, and adds up bytes in 16-bit lanes; the distances   *)
(* and the SafeOut and SafeIn masks follow from the sums.                   *)
(*                                                                         *)
(* The model is of the AVX2 and AVX-512 builds, which differ in LutPerIter, *)
(* and of dimensions that fill whole iterations.  Components are integers;  *)
(* a distance is multiplied by MaxVal and by the root of Dim to stay one.   *)
(***************************************************************************)
EXTENDS Arithmetic, FiniteSets

CONSTANTS
  Dim,         \* components, a square
  LutPerIters, \* kFastScanLutPerIter of the builds: 2 or 4
  MaxVal,      \* the largest quantised component: 8191
  RotatedQueries, NormsQc,  \* queries as the estimator sees them
  VectorBlocks,             \* blocks of rotated residuals and their norms
  Frontiers, Margins, SafeInBases

Half == 16              \* vectors per shuffle
ByteRange == 2^8
LaneRange == 2^16

ASSUME FastScanAssumption ==
  /\ Dim \in Nat \ {0} /\ \E r \in 1..Dim : r * r = Dim
  /\ LutPerIters \subseteq {2, 4}
  /\ \A n \in LutPerIters : Dim % (4 * n) = 0
  /\ MaxVal \in Nat \ {0} /\ 4 * MaxVal < LaneRange
  /\ RotatedQueries \subseteq [0..(Dim - 1) -> Int] /\ NormsQc \subseteq Nat
  /\ \A b \in VectorBlocks :
       /\ b \in Seq([rotated : [0..(Dim - 1) -> Int], norm : Nat])
       /\ Len(b) \in 1..(2 * Half)
  /\ Frontiers \subseteq Int /\ Margins \subseteq Int /\ SafeInBases \subseteq Int

VARIABLES
  lut_per_iter,  \* of the build that runs
  prepared,  \* the PreparedQuery, and the table in its scratch buffer
  block,     \* a block of the cluster: vectors, packed codes
  stage1     \* what EvaluateStage1FastScan returned for them

fastScanVars == <<lut_per_iter, prepared, block, stage1>>

Groups == Dim \div 4
LutSize == Groups * 2 * Half
PackedSize == Groups * Half
NotEvaluated == [count |-> 0]
Components == 0..(Dim - 1)
Magnitude(n) == IF n < 0 THEN -n ELSE n
RootDim == CHOOSE r \in 1..Dim : r * r = Dim
-----------------------------------------------------------------------------
(* Codes. *)
EncodeSigns(rotated) == Table([d \in Components |-> IF rotated[d] >= 0 THEN 1 ELSE 0])

(* Vectors 0..7 go to the even bytes of a shuffle, 8..15 to the odd ones.   *)
(* A fault for the runs: they stay where they are.                          *)
kPermIdentity(j) == j

kPerm(j) == IF j % 2 = 0 THEN j \div 2 ELSE Half \div 2 + j \div 2
kInvPerm(i) == IF i < Half \div 2 THEN 2 * i ELSE 2 * (i - Half \div 2) + 1

(* The component 4m is the highest bit. *)
Nibble(codes, v, m) ==
  IF v >= Len(codes) THEN 0
  ELSE SumTo(4, LAMBDA b : codes[v + 1][4 * m + b] * 2^(3 - b))

(* Sixteen bytes for each group of four components: the nibbles of the      *)
(* first half of the vectors low, of the second half high.                  *)
PackSignBitsForFastScan(codes) ==
  Table([p \in 0..(PackedSize - 1) |->
    LET m == p \div Half
        v == kPerm(p % Half)
    IN Nibble(codes, v, m) + 16 * Nibble(codes, v + Half, m)])

NibbleOf(byte, high) == IF high THEN byte \div 16 ELSE byte % 16

UnpackSignBitsFromFastScan(packed, v) ==
  LET at == kInvPerm(v % Half)
  IN [d \in Components |->
        LET nibble == NibbleOf(packed[(d \div 4) * Half + at], v >= Half)
        IN (nibble \div 2^(3 - (d % 4))) % 2]
-----------------------------------------------------------------------------
(* The query. *)
MaxAbs(q) == CHOOSE m \in {Magnitude(q[d]) : d \in Components} :
               \A d \in Components : Magnitude(q[d]) <= m

(* To the nearest multiple of MaxAbs / MaxVal, halves away from zero. *)
QuantizeLane14Bit(value, vmax) ==
  LET n == IF vmax = 0 THEN 0
           ELSE (2 * Magnitude(value) * MaxVal + vmax) \div (2 * vmax)
  IN IF value < 0 THEN -n ELSE n

QuantizeQuery14BitWithMax(q, vmax) ==
  Table([d \in Components |-> QuantizeLane14Bit(q[d], vmax)])

GroupMin(quant, m) == SumTo(4, LAMBDA b : AtMost(quant[4 * m + b], 0))

(* The entry of a nibble: the sum of its components, less the least sum. *)
BuildLut16(quant, m, nibble) ==
  SumTo(4, LAMBDA b : ((nibble \div 2^(3 - b)) % 2) * quant[4 * m + b])
    - GroupMin(quant, m)

BytePlane(entry, high) == IF high THEN entry \div ByteRange ELSE entry % ByteRange

(* Where the low byte of an entry is; its high byte is Half * lut_per_iter    *)
(* further.                                                                 *)
LutGroupBase(m) == (m \div lut_per_iter) * 2 * Half * lut_per_iter + (m % lut_per_iter) * Half

BuildFastScanLUT(quant) ==
  Table([p \in 0..(LutSize - 1) |->
    LET m == (p \div (2 * Half * lut_per_iter)) * lut_per_iter
               + ((p \div Half) % lut_per_iter)
        high == (p \div (Half * lut_per_iter)) % 2 = 1
    IN BytePlane(BuildLut16(quant, m, p % Half), high)])

(* A query whose largest component is nothing gets a table of zeros. *)
PrepareQuery(q, norm_qc) ==
  LET vmax == MaxAbs(q)
      quant == QuantizeQuery14BitWithMax(q, vmax)
  IN /\ prepared' =
          [query |-> q, norm_qc |-> norm_qc, sum_q |-> SumTo(Dim, LAMBDA d : q[d]),
           vmax |-> IF vmax = 0 THEN MaxVal ELSE vmax,
           fs_shift |-> SumTo(Groups, LAMBDA m : GroupMin(quant, m)),
           lut |-> BuildFastScanLUT(quant)]
     /\ stage1' = NotEvaluated
     /\ UNCHANGED <<lut_per_iter, block>>
-----------------------------------------------------------------------------
(* The sums. *)

(* What the shuffle of group m finds for the byte at position j. *)
Looked(m, plane, j, high) ==
  prepared.lut[LutGroupBase(m) + plane * Half * lut_per_iter
               + NibbleOf(block.packed[m * Half + j], high)]

(* The groups of an iteration share 16-bit lanes when there are two (AVX2); *)
(* of four (AVX-512) every other two do, and their sums meet in 32 bits.    *)
LaneShares == lut_per_iter \div 2
LaneGroups == Groups \div LaneShares
LaneGroup(share, k) == LaneShares * k + share

(* Lane i adds up its two bytes as one number. *)
BothSum(plane, i, high, share) ==
  SumTo(LaneGroups, LAMBDA k :
    Looked(LaneGroup(share, k), plane, 2 * i, high)
      + ByteRange * Looked(LaneGroup(share, k), plane, 2 * i + 1, high))

OddSum(plane, i, high, share) ==
  SumTo(LaneGroups, LAMBDA k : Looked(LaneGroup(share, k), plane, 2 * i + 1, high))
    % LaneRange

(* The odd byte's sum is taken out again. *)
EvenSum(plane, i, high, share) ==
  (BothSum(plane, i, high, share) - ByteRange * OddSum(plane, i, high, share))
    % LaneRange

PlaneSum(plane, v) ==
  LET r == v % Half
      high == v >= Half
  IN SumTo(LaneShares, LAMBDA share :
       IF r < Half \div 2 THEN EvenSum(plane, r, high, share)
       ELSE OddSum(plane, r - Half \div 2, high, share))

AccumulateBlock ==
  Table([v \in 0..(2 * Half - 1) |-> PlaneSum(0, v) + ByteRange * PlaneSum(1, v)])
-----------------------------------------------------------------------------
(* Distances and masks. *)
Unit == MaxVal * RootDim

(* ||o - c||^2 + ||q - c||^2 - 2 ||o - c|| ||q - c|| (2 ip - sum_q) / root, *)
(* ip given in quantisation steps of vmax / MaxVal.                         *)
EstimateDistance(norm, ip, steps) ==
  AtLeast(0, Unit * (norm * norm + prepared.norm_qc * prepared.norm_qc)
             - 2 * norm * prepared.norm_qc * (2 * ip * steps - MaxVal * prepared.sum_q))

FastScanSafeOutMask(dist, norm, frontier, margin) ==
  {v \in DOMAIN dist : dist[v] > Unit * (frontier + margin * norm[v])}

(* A fault for the runs: the margin is added, as it is on the other side.   *)
FastScanSafeInMaskWidened(dist, norm, base, margin) ==
  {v \in DOMAIN dist : dist[v] < Unit * (base + margin * norm[v])}

FastScanSafeInMask(dist, norm, base, margin) ==
  {v \in DOMAIN dist : dist[v] < Unit * (base - margin * norm[v])}

EvaluateStage1FastScan(frontier, margin, base, enable_safein) ==
  /\ prepared # NotEvaluated /\ block # NotEvaluated
  /\ \E raw \in {AccumulateBlock} :
       LET count == Len(block.vectors)
           lanes == 0..(count - 1)
           norm == [v \in lanes |-> block.vectors[v + 1].norm]
           ip_raw == [v \in lanes |-> raw[v] + prepared.fs_shift]
           dist == Table([v \in lanes |->
                     EstimateDistance(norm[v], ip_raw[v], prepared.vmax)])
       IN stage1' =
            [count |-> count, frontier |-> frontier, margin |-> margin, base |-> base,
             ip_raw |-> ip_raw,
             safeout_mask |-> FastScanSafeOutMask(dist, norm, frontier, margin),
             safein_mask |-> IF enable_safein
                             THEN FastScanSafeInMask(dist, norm, base, margin) ELSE {}]
  /\ UNCHANGED <<lut_per_iter, prepared, block>>

(* The next block of the cluster. *)
LoadBlock(vectors) ==
  /\ block' = [vectors |-> vectors,
               packed |-> PackSignBitsForFastScan(
                  Table([i \in DOMAIN vectors |-> EncodeSigns(vectors[i].rotated)]))]
  /\ stage1' = NotEvaluated
  /\ UNCHANGED <<lut_per_iter, prepared>>

FastScanInit ==
  /\ lut_per_iter \in LutPerIters
  /\ prepared = NotEvaluated /\ block = NotEvaluated /\ stage1 = NotEvaluated

FastScanNext ==
  \/ \E q \in RotatedQueries, n \in NormsQc : PrepareQuery(q, n)
  \/ \E b \in VectorBlocks : LoadBlock(b)
  \/ \E f \in Frontiers, m \in Margins, b \in SafeInBases, enable_safein \in BOOLEAN :
       EvaluateStage1FastScan(f, m, b, enable_safein)

FastScanSpec == FastScanInit /\ [][FastScanNext]_fastScanVars
-----------------------------------------------------------------------------
ExactIp(v) ==
  SumTo(Dim, LAMBDA d :
    IF block.vectors[v + 1].rotated[d] >= 0 THEN prepared.query[d] ELSE 0)

(* Every lane estimates its own vector: its sum is that of the query's      *)
(* components where the vector is not negative, within half a quantisation  *)
(* step for each, whichever half, byte and plane the lane's bits went       *)
(* through, and its bits unpack to the signs they were packed from.         *)
LaneSumsOwnSigns ==
  \A v \in 0..(stage1.count - 1) :
    /\ 2 * Magnitude(stage1.ip_raw[v] * prepared.vmax - MaxVal * ExactIp(v))
         <= Dim * prepared.vmax
    /\ UnpackSignBitsFromFastScan(block.packed, v) = EncodeSigns(block.vectors[v + 1].rotated)

(* A lane is dropped only when the estimate from the unquantised query,     *)
(* rounding aside, is beyond the frontier by its margin, and accepted only  *)
(* when it is within the acceptance threshold by it.                        *)
MasksAreOfOwnDistance ==
  \A v \in 0..(stage1.count - 1) :
    LET norm == block.vectors[v + 1].norm
        exact == EstimateDistance(norm, MaxVal * ExactIp(v), 1)
        rounding == 2 * norm * prepared.norm_qc * Dim * prepared.vmax
    IN /\ v \in stage1.safeout_mask =>
            exact + rounding > Unit * (stage1.frontier + stage1.margin * norm)
       /\ v \in stage1.safein_mask =>
            exact - rounding < Unit * (stage1.base - stage1.margin * norm)
=============================================================================
