-------------------------- MODULE ClusterStoreProofs --------------------------
(***************************************************************************)
(* Theorems about ClusterStore: what the reader returns is what the writer  *)
(* was given, whatever of the file reached the disk.  In order: the regions *)
(* of a block and what parsing it gives; the writer's places and entries;   *)
(* what the file shows after any number of the buffered writes; one lemma   *)
(* per operation that these stay consistent; the reader.                    *)
(***************************************************************************)
EXTENDS ClusterStore, AddressColumnProofs

AllLayouts == {"none", "fixed", "variable"}
LaneSet == {Zero} \cup [k : {"code"}, id : Nat, rec : Nat]
RawSet == [offset_pages : Nat, size_pages : Nat]
CellSet ==
  LaneSet
    \cup [k : {"fastscan"}, lanes : [1..FsLanes -> LaneSet]]
    \cup [k : {"valid"}, count : Nat]
    \cup [k : {"exhead"}, batch_blocks : Nat]
    \cup [k : {"exoffset"}, at : Nat]
    \cup [k : {"address"}, raw : RawSet]
    \cup [k : {"trailer"}, page_size : Nat, num_entries : Nat,
          payload_offset : Nat, payload_bytes : Nat]
    \cup [k : {"footer"}, mini_trailer_size : Nat]
    \cup [k : {"header"}, version : Nat]
    \cup [k : {"path"}, set : BOOLEAN]
    \cup [k : {"head"}, id : Nat, num_records : Nat]
    \cup [k : {"tail"}, block_offset : Nat, block_size : Nat, num_fastscan_blocks : Nat]
-----------------------------------------------------------------------------
(* The group of L records that record i belongs to, and its place there. *)
LEMMA GroupOf ==
  ASSUME NEW n \in Nat, NEW i \in 1..n, NEW L \in Nat \ {0}
  PROVE  /\ (i - 1) \div L \in Nat /\ (i - 1) % L \in 0..(L - 1)
         /\ ((i - 1) \div L) * L \in Nat
         /\ ((i - 1) \div L) * L + ((i - 1) % L) + 1 = i
         /\ ((i - 1) \div L) + 1 \in 1..Blocks(n, L)
         /\ Blocks(n, L) \in Nat
<1> DEFINE q == (i - 1) \div L
           r == (i - 1) % L
           m == Blocks(n, L)
<1>1. i - 1 \in Nat
  OBVIOUS
<1>2. q \in Nat /\ r \in 0..(L - 1) /\ q * L + r = i - 1
  <2> DEFINE x == i - 1
  <2>1. x \in Nat
    BY <1>1
  <2> HIDE DEF x
  <2>2. x \div L \in Nat /\ x % L \in 0..(L - 1) /\ (x \div L) * L + (x % L) = x
    BY <2>1, Z3
  <2> QED BY <2>2 DEF x
<1>3. m \in Nat /\ m * L >= n
  BY CeilDivBounds DEF Blocks
<1> HIDE DEF q, r, m
<1>4. q * L \in Nat
  BY <1>2, Z3
<1>5. q * L + r + 1 = i
  BY <1>2, <1>4
<1>6. q < m
  <2> SUFFICES ASSUME m <= q PROVE FALSE
    BY <1>2, <1>3
  <2>1. m * L <= q * L /\ m * L \in Nat
    BY <1>2, <1>3, Z3
  <2> QED BY <1>2, <1>3, <1>4, <1>5, <2>1
<1>7. q + 1 \in 1..m
  BY <1>2, <1>3, <1>6
<1> QED BY <1>2, <1>3, <1>4, <1>5, <1>7 DEF q, r, m

(* A number of blocks is a number. *)
LEMMA BlocksNat ==
  ASSUME NEW n \in Nat, NEW L \in Nat \ {0}
  PROVE  Blocks(n, L) \in Nat
  BY CeilDivBounds DEF Blocks

(* A lane of a region holds a code, or zero past the last record. *)
LEMMA LaneType ==
  ASSUME NEW id \in Nat, NEW n \in Nat, NEW i \in Nat
  PROVE  Lane(id, n, i) \in LaneSet
  BY DEF Lane, LaneSet, Code, Zero

(* The FastScan region: record i's code in block i div 32, lane i mod 32. *)
LEMMA FsRegionShape ==
  ASSUME NEW id \in Nat, NEW n \in Nat
  PROVE  /\ FsRegion(id, n) \in Seq(CellSet)
         /\ Len(FsRegion(id, n)) = Blocks(n, FsLanes)
         /\ \A i \in 1..n :
              FsRegion(id, n)[((i - 1) \div FsLanes) + 1].lanes[((i - 1) % FsLanes) + 1]
                = Code(id, i)
<1> DEFINE m == Blocks(n, FsLanes)
           cell(b) == [k |-> "fastscan",
                       lanes |-> [j \in 1..FsLanes |-> Lane(id, n, (b - 1) * FsLanes + j)]]
<1>1. m \in Nat /\ FsLanes \in Nat \ {0}
  BY BlocksNat, StoreAssumption
<1>2. FsRegion(id, n) = [b \in 1..m |-> cell(b)]
  BY DEF FsRegion
<1>3. ASSUME NEW b \in 1..m PROVE cell(b) \in CellSet
  <2>1. ASSUME NEW j \in 1..FsLanes PROVE Lane(id, n, (b - 1) * FsLanes + j) \in LaneSet
    <3>1. (b - 1) * FsLanes \in Nat
      BY <1>1, Z3
    <3>2. (b - 1) * FsLanes + j \in Nat
      BY <1>1, <3>1
    <3> QED BY <3>2, LaneType
  <2>2. [j \in 1..FsLanes |-> Lane(id, n, (b - 1) * FsLanes + j)] \in [1..FsLanes -> LaneSet]
    BY <2>1
  <2> QED BY <2>2 DEF CellSet
<1> HIDE DEF m
<1>4. FsRegion(id, n) \in [1..m -> CellSet]
  <2> HIDE DEF cell
  <2> QED BY <1>2, <1>3
<1>5. FsRegion(id, n) \in Seq(CellSet) /\ Len(FsRegion(id, n)) = m
  BY <1>1, <1>4
<1>6. ASSUME NEW i \in 1..n
      PROVE  FsRegion(id, n)[((i - 1) \div FsLanes) + 1].lanes[((i - 1) % FsLanes) + 1]
               = Code(id, i)
  <2> DEFINE q == (i - 1) \div FsLanes
             r == (i - 1) % FsLanes
  <2>1. /\ q \in Nat /\ r \in 0..(FsLanes - 1) /\ q * FsLanes \in Nat
        /\ q * FsLanes + r + 1 = i /\ q + 1 \in 1..m
    BY <1>1, GroupOf DEF m
  <2> HIDE DEF q, r
  <2>2. r + 1 \in 1..FsLanes /\ (q + 1) - 1 = q
    BY <1>1, <2>1
  <2>3. FsRegion(id, n)[q + 1].lanes[r + 1] = Lane(id, n, ((q + 1) - 1) * FsLanes + (r + 1))
    <3>1. FsRegion(id, n)[q + 1] = cell(q + 1)
      <4> HIDE DEF cell
      <4> QED BY <1>2, <2>1
    <3> QED BY <2>2, <3>1
  <2>4. ((q + 1) - 1) * FsLanes + (r + 1) = i
    BY <1>1, <2>1, <2>2
  <2> QED BY <2>3, <2>4 DEF Lane, q, r
<1> QED BY <1>5, <1>6 DEF m
-----------------------------------------------------------------------------
(* Batches of the ex region. *)
LEMMA BatchShape ==
  ASSUME NEW id \in Nat, NEW n \in Nat, NEW bb \in Nat \ {0}, NEW lanes \in Nat,
         ValidCount(n, bb) \in Nat
  PROVE  /\ BatchCells(id, n, bb, lanes) \in Seq(CellSet)
         /\ Len(BatchCells(id, n, bb, lanes)) = lanes + 1
         /\ BatchCells(id, n, bb, lanes)[1].count = ValidCount(n, bb)
         /\ \A j \in 1..lanes :
              BatchCells(id, n, bb, lanes)[j + 1] = Lane(id, n, (bb - 1) * ExLanes + j)
<1> DEFINE v == [k |-> "valid", count |-> ValidCount(n, bb)]
           t == [j \in 1..lanes |-> Lane(id, n, (bb - 1) * ExLanes + j)]
<1>1. v \in CellSet
  BY DEF CellSet
<1>2. ASSUME NEW j \in 1..lanes PROVE Lane(id, n, (bb - 1) * ExLanes + j) \in CellSet
  <2>1. (bb - 1) * ExLanes \in Nat
    BY StoreAssumption, Z3
  <2>2. (bb - 1) * ExLanes + j \in Nat
    BY <2>1
  <2> QED BY <2>2, LaneType DEF CellSet
<1>3. t \in [1..lanes -> CellSet]
  BY <1>2
<1>4. t \in Seq(CellSet) /\ Len(t) = lanes
  BY <1>3
<1>5. \A j \in 1..lanes : t[j] = Lane(id, n, (bb - 1) * ExLanes + j)
  OBVIOUS
<1>6. BatchCells(id, n, bb, lanes) = <<v>> \o t
  BY DEF BatchCells
<1>7. v.count = ValidCount(n, bb)
  OBVIOUS
<1> HIDE DEF t, v
<1>8. /\ <<v>> \o t \in Seq(CellSet) /\ Len(<<v>> \o t) = lanes + 1
      /\ (<<v>> \o t)[1] = v
      /\ \A j \in 1..lanes : (<<v>> \o t)[j + 1] = t[j]
  BY <1>1, <1>4, ConsElements
<1> DEFINE r == <<v>> \o t
<1>9. /\ r \in Seq(CellSet) /\ Len(r) = lanes + 1 /\ r[1] = v
      /\ \A j \in 1..lanes : r[j + 1] = t[j]
  BY <1>8
<1>10. BatchCells(id, n, bb, lanes) = r
  BY <1>6
<1> HIDE DEF r
<1> QED BY <1>5, <1>7, <1>9, <1>10

(* Every batch but the last has all its lanes valid; each record's lane is  *)
(* one of them.                                                             *)
LEMMA ValidCounts ==
  ASSUME NEW n \in Nat
  PROVE  /\ \A bb \in 1..Blocks(n, ExLanes) : ValidCount(n, bb) \in 1..ExLanes
         /\ \A i \in 1..n : (i - 1) % ExLanes < ValidCount(n, (i - 1) \div ExLanes + 1)
<1> DEFINE m == Blocks(n, ExLanes)
<1>1. ExLanes \in Nat \ {0}
  BY StoreAssumption
<1>2. m \in Nat /\ (n > 0 => m >= 1 /\ (m - 1) * ExLanes < n) /\ (n = 0 => m = 0)
  <2>1. n = 0 => m = 0
    <3> SUFFICES ASSUME n = 0 PROVE m = 0
      OBVIOUS
    <3>1. (ExLanes - 1) \div ExLanes = 0
      BY <1>1, Z3
    <3>2. n + ExLanes - 1 = ExLanes - 1
      BY <1>1
    <3> QED BY <3>1, <3>2 DEF Blocks, CeilDiv
  <2> QED BY <1>1, <2>1, CeilDivBounds DEF Blocks
<1>3. ASSUME NEW bb \in 1..m PROVE ValidCount(n, bb) \in 1..ExLanes
  <2> DEFINE before == (bb - 1) * ExLanes
  <2>1. n > 0 /\ bb - 1 <= m - 1 /\ bb - 1 \in Nat /\ m - 1 \in Nat
    BY <1>2
  <2>2. before \in Nat /\ before <= (m - 1) * ExLanes /\ (m - 1) * ExLanes \in Nat
    BY <1>1, <2>1, Z3
  <2>3. ValidCount(n, bb) = IF n - before < ExLanes THEN n - before ELSE ExLanes
    BY DEF ValidCount
  <2> HIDE DEF before
  <2> QED BY <1>1, <1>2, <2>1, <2>2, <2>3
<1>4. ASSUME NEW i \in 1..n
      PROVE  (i - 1) % ExLanes < ValidCount(n, (i - 1) \div ExLanes + 1)
  <2> DEFINE q == (i - 1) \div ExLanes
             r == (i - 1) % ExLanes
             before == q * ExLanes
  <2>1. q \in Nat /\ r \in 0..(ExLanes - 1) /\ before \in Nat /\ before + r + 1 = i
    BY <1>1, GroupOf
  <2>2. ValidCount(n, q + 1) = IF n - before < ExLanes THEN n - before ELSE ExLanes
    <3> HIDE DEF q
    <3>1. (q + 1) - 1 = q
      BY <2>1
    <3> QED BY <3>1 DEF ValidCount
  <2> HIDE DEF q, r, before
  <2>3. r < ValidCount(n, q + 1)
    BY <1>1, <2>1, <2>2
  <2> QED BY <2>3 DEF q, r
<1> QED BY <1>3, <1>4

(* Record i in its batch: its lane counts as valid and holds its code. *)
LEMMA BatchLookup ==
  ASSUME NEW id \in Nat, NEW n \in Nat, NEW i \in 1..n, NEW lanes \in Nat,
         lanes >= ValidCount(n, (i - 1) \div ExLanes + 1)
  PROVE  LET batch == BatchCells(id, n, (i - 1) \div ExLanes + 1, lanes)
             lane == (i - 1) % ExLanes
         IN  /\ lane \in Nat /\ lane + 2 \in 1..Len(batch) /\ 1 \in 1..Len(batch)
             /\ lane < batch[1].count /\ batch[lane + 2] = Code(id, i)
<1> DEFINE q == (i - 1) \div ExLanes
           r == (i - 1) % ExLanes
           before == q * ExLanes
           batch == BatchCells(id, n, q + 1, lanes)
<1>1. /\ q \in Nat /\ r \in 0..(ExLanes - 1) /\ before \in Nat /\ before + r + 1 = i
      /\ q + 1 \in 1..Blocks(n, ExLanes) /\ ExLanes \in Nat \ {0}
  BY GroupOf, StoreAssumption
<1>2. r < ValidCount(n, q + 1) /\ ValidCount(n, q + 1) \in 1..ExLanes
  BY <1>1, ValidCounts
<1>3. /\ Len(batch) = lanes + 1
      /\ batch[1].count = ValidCount(n, q + 1)
      /\ \A j \in 1..lanes : batch[j + 1] = Lane(id, n, ((q + 1) - 1) * ExLanes + j)
  <2> DEFINE bb == q + 1
  <2>1. bb \in Nat \ {0} /\ ValidCount(n, bb) \in Nat
    BY <1>1, <1>2
  <2> HIDE DEF q, bb
  <2>2. /\ Len(BatchCells(id, n, bb, lanes)) = lanes + 1
        /\ BatchCells(id, n, bb, lanes)[1].count = ValidCount(n, bb)
        /\ \A j \in 1..lanes :
             BatchCells(id, n, bb, lanes)[j + 1] = Lane(id, n, (bb - 1) * ExLanes + j)
    <3> DEFINE c == BatchCells(id, n, bb, lanes)
    <3>1. Len(c) = lanes + 1
      BY <2>1, BatchShape
    <3>2. c[1].count = ValidCount(n, bb)
      BY <2>1, BatchShape
    <3>3. \A j \in 1..lanes : c[j + 1] = Lane(id, n, (bb - 1) * ExLanes + j)
      BY <2>1, BatchShape
    <3> QED BY <3>1, <3>2, <3>3
  <2> QED BY <2>2 DEF bb
<1>4. lanes >= ValidCount(n, q + 1)
  OBVIOUS
<1> HIDE DEF q, r, batch
<1>5. r + 1 \in 1..lanes /\ (r + 1) + 1 = r + 2 /\ (q + 1) - 1 = q
  BY <1>1, <1>2, <1>4
<1>6. batch[r + 2] = Lane(id, n, before + (r + 1))
  <2>1. batch[(r + 1) + 1] = Lane(id, n, ((q + 1) - 1) * ExLanes + (r + 1))
    BY <1>3, <1>5
  <2> QED BY <1>5, <2>1
<1> HIDE DEF before
<1>7. before + (r + 1) = i
  BY <1>1
<1>8. batch[r + 2] = Code(id, i)
  BY <1>6, <1>7 DEF Lane
<1>9. r \in Nat /\ r + 2 \in 1..Len(batch) /\ 1 \in 1..Len(batch) /\ r < batch[1].count
  BY <1>1, <1>2, <1>3, <1>5
<1> QED BY <1>8, <1>9 DEF q, r, batch

FixedAt(i) == ((i - 1) \div ExLanes) * (1 + ExLanes)

(* Ex region, parallel layout: a batch begins at a multiple of its size,    *)
(* and the record's lane in it holds its code.                              *)
LEMMA FixedShape ==
  ASSUME NEW id \in Nat, NEW n \in Nat
  PROVE  /\ FixedRegion(id, n) \in Seq(CellSet)
         /\ \A i \in 1..n :
              /\ (i - 1) % ExLanes < FixedRegion(id, n)[FixedAt(i) + 1].count
              /\ FixedRegion(id, n)[FixedAt(i) + ((i - 1) % ExLanes) + 2] = Code(id, i)
<1> DEFINE m == Blocks(n, ExLanes)
           w == ExLanes + 1
           parts == [bb \in 1..m |-> BatchCells(id, n, bb, ExLanes)]
           region == FlattenSeq(parts)
<1>1. ExLanes \in Nat \ {0} /\ m \in Nat
  BY StoreAssumption, BlocksNat
<1>2. ASSUME NEW bb \in 1..m
      PROVE  /\ BatchCells(id, n, bb, ExLanes) \in Seq(CellSet)
             /\ Len(BatchCells(id, n, bb, ExLanes)) = w
  <2>1. bb \in Nat \ {0} /\ ExLanes \in Nat
    BY <1>1
  <2>2. ValidCount(n, bb) \in Nat
    <3>1. ValidCount(n, bb) \in 1..ExLanes
      BY ValidCounts
    <3> QED BY <1>1, <3>1
  <2> QED BY <2>1, <2>2, BatchShape
<1>3. parts \in Seq(Seq(CellSet)) /\ Len(parts) = m
  <2>1. parts \in [1..m -> Seq(CellSet)]
    BY <1>2
  <2> HIDE DEF parts, m
  <2> QED BY <1>1, <2>1
<1>4. \A k \in 1..m : parts[k] = BatchCells(id, n, k, ExLanes) /\ Len(parts[k]) = w
  BY <1>2
<1>5. region \in Seq(CellSet) /\ FixedRegion(id, n) = region
  <2>1. FixedRegion(id, n) = region
    BY DEF FixedRegion
  <2> HIDE DEF parts
  <2> QED BY <1>3, <2>1, FlattenType
<1> HIDE DEF parts, m, region
<1>6. \A k \in 1..m : LiesAt(region, (k - 1) * w, parts[k])
  <2> TAKE k \in 1..m
  <2>1. LiesAt(region, Len(FlattenSeq(SubSeq(parts, 1, k - 1))), parts[k])
    BY <1>3, FlattenPartLies DEF region
  <2>2. k - 1 \in 0..m /\ w \in Nat
    BY <1>1
  <2> HIDE DEF w
  <2>3. Len(FlattenSeq(SubSeq(parts, 1, k - 1))) = (k - 1) * w
    BY <1>3, <1>4, <2>2, EqualParts
  <2> QED BY <2>1, <2>3
<1>7. ASSUME NEW i \in 1..n
      PROVE  /\ (i - 1) % ExLanes < region[FixedAt(i) + 1].count
             /\ region[FixedAt(i) + ((i - 1) % ExLanes) + 2] = Code(id, i)
  <2> DEFINE q == (i - 1) \div ExLanes
             r == (i - 1) % ExLanes
             batch == BatchCells(id, n, q + 1, ExLanes)
             at == q * w
  <2>1. q \in Nat /\ q + 1 \in 1..m /\ (q + 1) - 1 = q
    <3>1. q \in Nat /\ q + 1 \in 1..m
      BY <1>1, GroupOf DEF m
    <3> HIDE DEF q
    <3> QED BY <3>1
  <2>2. ExLanes >= ValidCount(n, q + 1)
    <3>1. ValidCount(n, q + 1) \in 1..ExLanes
      BY <2>1, ValidCounts DEF m
    <3> QED BY <1>1, <3>1
  <2>3. /\ r \in Nat /\ r + 2 \in 1..Len(batch) /\ 1 \in 1..Len(batch)
        /\ r < batch[1].count /\ batch[r + 2] = Code(id, i)
    <3>1. ExLanes \in Nat
      BY <1>1
    <3> QED BY <2>2, <3>1, BatchLookup
  <2>4. FixedAt(i) = at
    <3>1. 1 + ExLanes = w
      BY <1>1
    <3> QED BY <3>1 DEF FixedAt
  <2>5. at \in Nat
    <3> HIDE DEF q
    <3>1. w \in Nat
      BY <1>1
    <3> QED BY <2>1, <3>1, Z3
  <2> HIDE DEF q, r
  <2>6. LiesAt(region, at, batch)
    BY <1>4, <1>6, <2>1
  <2> HIDE DEF at, batch
  <2>7. region[at + 1] = batch[1] /\ region[at + (r + 2)] = batch[r + 2]
    BY <2>3, <2>6 DEF LiesAt
  <2>8. at + (r + 2) = at + r + 2
    BY <2>3, <2>5
  <2> QED BY <2>3, <2>4, <2>7, <2>8 DEF r
<1> QED BY <1>5, <1>7

Batch(id, n, bb) == BatchCells(id, n, bb, ValidCount(n, bb))
Batches(id, n) == [bb \in 1..Blocks(n, ExLanes) |-> Batch(id, n, bb)]

Begin(id, n) ==
  CHOOSE begin : begin = [bb \in 1..(Blocks(n, ExLanes) + 1) |->
    IF bb = 1 THEN Blocks(n, ExLanes) + 2 ELSE begin[bb - 1] + Len(Batch(id, n, bb - 1))]

(* The batches of the variable layout, one after the other. *)
LEMMA BatchesShape ==
  ASSUME NEW id \in Nat, NEW n \in Nat
  PROVE  /\ Blocks(n, ExLanes) \in Nat
         /\ Batches(id, n) \in Seq(Seq(CellSet)) /\ Len(Batches(id, n)) = Blocks(n, ExLanes)
         /\ \A bb \in 1..Blocks(n, ExLanes) :
              /\ Batches(id, n)[bb] = Batch(id, n, bb)
              /\ Len(Batch(id, n, bb)) \in Nat
<1> DEFINE m == Blocks(n, ExLanes)
           parts == Batches(id, n)
<1>1. ExLanes \in Nat \ {0} /\ m \in Nat
  BY StoreAssumption, BlocksNat
<1>2. ASSUME NEW bb \in 1..m
      PROVE  Batch(id, n, bb) \in Seq(CellSet) /\ Len(Batch(id, n, bb)) \in Nat
  <2> DEFINE c == ValidCount(n, bb)
  <2>1. bb \in Nat \ {0} /\ c \in Nat
    <3>1. c \in 1..ExLanes
      BY ValidCounts
    <3> QED BY <1>1, <3>1
  <2>2. BatchCells(id, n, bb, c) \in Seq(CellSet)
    <3> HIDE DEF c, m
    <3> QED BY <2>1, BatchShape DEF c
  <2> HIDE DEF m
  <2> QED BY <2>2, LenProperties DEF Batch
<1>3. parts = [bb \in 1..m |-> Batch(id, n, bb)]
  BY DEF Batches
<1> HIDE DEF parts, m
<1>4. parts \in [1..m -> Seq(CellSet)]
  BY <1>2, <1>3
<1>5. parts \in Seq(Seq(CellSet)) /\ Len(parts) = m
  BY <1>1, <1>4
<1> QED BY <1>1, <1>2, <1>3, <1>5 DEF parts, m

(* The variable region is a header, the table of offsets and the batches;   *)
(* each offset is the one before and that batch's length.                   *)
LEMMA BeginUnfolds ==
  ASSUME NEW id \in Nat, NEW n \in Nat
  PROVE  /\ VariableRegion(id, n) =
              <<[k |-> "exhead", batch_blocks |-> Blocks(n, ExLanes)]>>
                \o [bb \in 1..(Blocks(n, ExLanes) + 1) |->
                     [k |-> "exoffset", at |-> Begin(id, n)[bb]]]
                \o FlattenSeq(Batches(id, n))
         /\ Begin(id, n)[1] = Blocks(n, ExLanes) + 2
         /\ \A bb \in 1..Blocks(n, ExLanes) :
              Begin(id, n)[bb + 1] = Begin(id, n)[bb] + Len(Batch(id, n, bb))
<1> DEFINE m == Blocks(n, ExLanes)
           size(bb) == Len(Batch(id, n, bb))
           Eq(f) == f = [bb \in 1..(m + 1) |->
                          IF bb = 1 THEN m + 2 ELSE f[bb - 1] + size(bb - 1)]
<1>1. m \in Nat /\ \A bb \in 1..m : size(bb) \in Nat
  BY BatchesShape
<1>2. \E f : Eq(f)
  <2> DEFINE D == [p \in Nat \X (1..m) |-> p[1] + size(p[2])]
  <2> HIDE DEF m, size
  <2>1. D \in [Nat \X (1..m) -> Nat]
    <3>1. \A p \in Nat \X (1..m) : p[1] + size(p[2]) \in Nat
      BY <1>1
    <3> QED BY <3>1
  <2>2. PICK f : Recursive(f, Nat, m + 2, m, D)
    <3> HIDE DEF D
    <3>1. m + 2 \in Nat
      BY <1>1
    <3> QED BY <1>1, <2>1, <3>1, RecursionExists
  <2> DEFINE g == [bb \in 1..(m + 1) |-> f[bb - 1]]
  <2>3. f[0] = m + 2 /\ f \in [0..m -> Nat] /\ \A i \in 1..m : f[i] = D[<<f[i - 1], i>>]
    <3> HIDE DEF D
    <3> QED BY <2>2 DEF Recursive
  <2>4. \A bb \in 1..(m + 1) : g[bb] = IF bb = 1 THEN m + 2 ELSE g[bb - 1] + size(bb - 1)
    <3> TAKE bb \in 1..(m + 1)
    <3>1. CASE bb = 1
      BY <1>1, <2>3, <3>1
    <3>2. CASE bb # 1
      <4>1. bb - 1 \in 1..m /\ bb - 1 \in 1..(m + 1) /\ (bb - 1) - 1 \in 0..m
        BY <1>1, <3>2
      <4>2. f[bb - 1] = f[(bb - 1) - 1] + size(bb - 1)
        <5>1. f[(bb - 1) - 1] \in Nat
          BY <2>3, <4>1
        <5> QED BY <2>3, <4>1, <5>1
      <4> QED BY <3>2, <4>1, <4>2
    <3> QED BY <3>1, <3>2
  <2>5. Eq(g)
    BY <2>4
  <2> QED BY <2>5
<1>3. Eq(Begin(id, n))
  BY <1>2, Zenon DEF Begin
<1>4. VariableRegion(id, n) =
        <<[k |-> "exhead", batch_blocks |-> m]>>
          \o [bb \in 1..(m + 1) |-> [k |-> "exoffset", at |-> Begin(id, n)[bb]]]
          \o FlattenSeq(Batches(id, n))
  BY Zenon DEF VariableRegion, Begin, Batches, Batch
<1> HIDE DEF m, size
<1>5. Begin(id, n)[1] = m + 2
  <2>1. 1 \in 1..(m + 1)
    BY <1>1
  <2> QED BY <1>3, <2>1
<1>6. ASSUME NEW bb \in 1..m PROVE Begin(id, n)[bb + 1] = Begin(id, n)[bb] + size(bb)
  <2>1. bb + 1 \in 1..(m + 1) /\ bb + 1 # 1 /\ (bb + 1) - 1 = bb
    BY <1>1
  <2> QED BY <1>3, <2>1
<1> QED BY <1>4, <1>5, <1>6 DEF m, size

(* Where a batch begins: behind the header, the table and the batches before. *)
LEMMA BeginIsWhatIsBefore ==
  ASSUME NEW id \in Nat, NEW n \in Nat
  PROVE  \A k \in 0..Blocks(n, ExLanes) :
           Begin(id, n)[k + 1] =
             Blocks(n, ExLanes) + 2 + Len(FlattenSeq(SubSeq(Batches(id, n), 1, k)))
<1> DEFINE m == Blocks(n, ExLanes)
           parts == Batches(id, n)
           L(k) == Len(FlattenSeq(SubSeq(parts, 1, k)))
           at(k) == Begin(id, n)[k]
           T == {k \in Nat : k <= m => at(k + 1) = m + 2 + L(k)}
<1>1. /\ m \in Nat /\ parts \in Seq(Seq(CellSet)) /\ Len(parts) = m
      /\ \A k \in 1..m : Len(parts[k]) = Len(Batch(id, n, k)) /\ Len(Batch(id, n, k)) \in Nat
  BY BatchesShape
<1>2. at(1) = m + 2 /\ \A k \in 1..m : at(k + 1) = at(k) + Len(Batch(id, n, k))
  BY BeginUnfolds
<1> HIDE DEF m, parts, at
<1>3. L(0) = 0 /\ \A k \in 1..m : L(k - 1) \in Nat /\ L(k) = L(k - 1) + Len(parts[k])
  BY <1>1, PartLengths
<1> HIDE DEF L
<1>4. 0 \in T
  <2>1. at(0 + 1) = m + 2 + L(0)
    BY <1>1, <1>2, <1>3
  <2> QED BY <2>1
<1>5. ASSUME NEW k \in Nat, k \in T PROVE k + 1 \in T
  <2> SUFFICES ASSUME k + 1 <= m PROVE at((k + 1) + 1) = m + 2 + L(k + 1)
    OBVIOUS
  <2> DEFINE x == Len(Batch(id, n, k + 1))
  <2>1. k + 1 \in 1..m /\ (k + 1) - 1 = k /\ at(k + 1) = m + 2 + L(k)
    BY <1>1, <1>5
  <2>2. at((k + 1) + 1) = at(k + 1) + x /\ x \in Nat
    BY <1>1, <1>2, <2>1
  <2>3. L(k) \in Nat /\ L(k + 1) = L(k) + x
    BY <1>1, <1>3, <2>1
  <2> HIDE DEF x
  <2> QED BY <1>1, <2>1, <2>2, <2>3
<1> HIDE DEF T
<1>6. \A k \in Nat : k \in T
  BY <1>4, <1>5, SubsetInduction
<1>7. \A k \in 0..m : at(k + 1) = m + 2 + L(k)
  BY <1>1, <1>6 DEF T
<1> QED BY <1>7 DEF m, at, L, parts

(* Ex region, variable layout: the header passes the reader's check, and    *)
(* the table's offset for a record's batch leads to its lane.               *)
LEMMA VariableShape ==
  ASSUME NEW id \in Nat, NEW n \in Nat
  PROVE  /\ VariableRegion(id, n) \in Seq(CellSet)
         /\ VariableHeaderOk(n, VariableRegion(id, n))
         /\ \A i \in 1..n :
              LET region == VariableRegion(id, n)
                  at == region[((i - 1) \div ExLanes) + 2].at
              IN  /\ (i - 1) % ExLanes < region[at + 1].count
                  /\ region[at + ((i - 1) % ExLanes) + 2] = Code(id, i)
<1> DEFINE m == Blocks(n, ExLanes)
           parts == Batches(id, n)
           begin == Begin(id, n)
           head == [k |-> "exhead", batch_blocks |-> m]
           table == [bb \in 1..(m + 1) |-> [k |-> "exoffset", at |-> begin[bb]]]
           rest == FlattenSeq(parts)
           tail == table \o rest
           region == <<head>> \o tail
           L(k) == Len(FlattenSeq(SubSeq(parts, 1, k)))
<1>1. /\ m \in Nat /\ parts \in Seq(Seq(CellSet)) /\ Len(parts) = m
      /\ \A k \in 1..m : parts[k] = Batch(id, n, k) /\ Len(Batch(id, n, k)) \in Nat
  BY BatchesShape
<1>2. rest \in Seq(CellSet) /\ Len(rest) \in Nat
  <2> HIDE DEF parts
  <2> QED BY <1>1, FlattenType, LenProperties
<1>3. \A k \in 0..m : L(k) \in Nat /\ begin[k + 1] = m + 2 + L(k)
  <2>1. \A k \in 0..m : begin[k + 1] = m + 2 + L(k)
    BY BeginIsWhatIsBefore
  <2> HIDE DEF m, parts, begin
  <2>2. L(0) = 0 /\ \A k \in 1..m : L(k - 1) \in Nat /\ L(k) = L(k - 1) + Len(parts[k])
    BY <1>1, PartLengths
  <2> HIDE DEF L
  <2>3. ASSUME NEW k \in 0..m PROVE L(k) \in Nat
    <3>1. CASE k = 0
      BY <2>2, <3>1
    <3>2. CASE k # 0
      <4>1. k \in 1..m
        BY <1>1, <3>2
      <4> QED BY <1>1, <2>2, <4>1
    <3> QED BY <3>1, <3>2
  <2> QED BY <2>1, <2>3
<1>4. L(m) = Len(rest)
  BY <1>1, PartLengths
<1>5. \A k \in 1..m : LiesAt(rest, L(k - 1), Batch(id, n, k))
  <2> HIDE DEF m, parts
  <2> TAKE k \in 1..m
  <2>1. k \in 1..Len(parts) /\ parts[k] = Batch(id, n, k)
    BY <1>1
  <2> QED BY <1>1, <2>1, FlattenPartLies
<1>10. head \in CellSet /\ table \in Seq(CellSet) /\ Len(table) = m + 1
  <2>1. head \in CellSet
    <3> HIDE DEF m
    <3> QED BY <1>1 DEF CellSet
  <2>2. ASSUME NEW bb \in 1..(m + 1) PROVE [k |-> "exoffset", at |-> begin[bb]] \in CellSet
    <3>1. bb - 1 \in 0..m /\ (bb - 1) + 1 = bb
      BY <1>1
    <3>2. begin[bb] \in Nat
      <4>1. begin[(bb - 1) + 1] = m + 2 + L(bb - 1) /\ L(bb - 1) \in Nat
        BY <1>3, <3>1
      <4> HIDE DEF begin, L, m
      <4> QED BY <1>1, <3>1, <4>1
    <3> HIDE DEF begin
    <3> QED BY <3>2 DEF CellSet
  <2> HIDE DEF m, begin
  <2>3. table \in [1..(m + 1) -> CellSet] /\ m + 1 \in Nat
    BY <1>1, <2>2
  <2>4. table \in Seq(CellSet) /\ Len(table) = m + 1
    <3> DEFINE k == m + 1
    <3>1. table \in [1..k -> CellSet] /\ k \in Nat
      BY <2>3
    <3> HIDE DEF table, k
    <3>2. table \in Seq(CellSet) /\ Len(table) = k
      BY <3>1
    <3> QED BY <3>2 DEF k
  <2> QED BY <2>1, <2>4
<1>6. VariableRegion(id, n) = region
  <2> DEFINE front == <<head>> \o table
  <2>1. VariableRegion(id, n) = front \o rest
    BY BeginUnfolds
  <2>2. <<head>> \in Seq(CellSet) /\ table \in Seq(CellSet)
    <3> HIDE DEF head, table
    <3> QED BY <1>10
  <2> HIDE DEF head, table, rest
  <2>3. (<<head>> \o table) \o rest = <<head>> \o (table \o rest)
    BY <1>2, <2>2, ConcatAssociative
  <2> QED BY <2>1, <2>3
<1>7. /\ region \in Seq(CellSet)
      /\ Len(region) = m + 2 + Len(rest)
      /\ region[1] = head
      /\ \A bb \in 1..(m + 1) : region[bb + 1].at = begin[bb]
      /\ \A j \in 1..Len(rest) : region[m + 2 + j] = rest[j]
  <2> HIDE DEF begin, head, m, rest
  <2>0. \A bb \in 1..(m + 1) : table[bb].at = begin[bb]
    OBVIOUS
  <2> HIDE DEF table
  <2>1. /\ head \in CellSet /\ table \in Seq(CellSet) /\ Len(table) = m + 1
        /\ \A bb \in 1..(m + 1) : table[bb].at = begin[bb]
    BY <1>10, <2>0
  <2>2. /\ tail \in Seq(CellSet) /\ Len(tail) = Len(table) + Len(rest)
        /\ \A j \in 1..Len(table) : tail[j] = table[j]
        /\ \A j \in 1..Len(rest) : tail[Len(table) + j] = rest[j]
    <3>1. table \in Seq(CellSet) /\ rest \in Seq(CellSet)
      BY <1>2, <2>1
    <3> QED BY <3>1, ConcatElements
  <2> HIDE DEF tail
  <2>3. /\ region \in Seq(CellSet) /\ Len(region) = Len(tail) + 1 /\ region[1] = head
        /\ \A j \in 1..Len(tail) : region[j + 1] = tail[j]
    BY <2>1, <2>2, ConsElements
  <2> HIDE DEF region
  <2>4. Len(region) = m + 2 + Len(rest)
    BY <1>1, <1>2, <2>1, <2>2, <2>3
  <2>5. ASSUME NEW bb \in 1..(m + 1) PROVE region[bb + 1].at = begin[bb]
    <3>1. bb \in 1..Len(tail) /\ bb \in 1..Len(table)
      BY <1>1, <1>2, <2>1, <2>2
    <3> QED BY <2>1, <2>2, <2>3, <3>1
  <2>6. ASSUME NEW j \in 1..Len(rest) PROVE region[m + 2 + j] = rest[j]
    <3>1. Len(table) + j \in 1..Len(tail) /\ (Len(table) + j) + 1 = m + 2 + j
      BY <1>1, <1>2, <2>1, <2>2
    <3> QED BY <2>2, <2>3, <3>1
  <2> QED BY <2>3, <2>4, <2>5, <2>6
<1>8. VariableHeaderOk(n, region)
  <2>1. head.k = "exhead" /\ head.batch_blocks = m
    OBVIOUS
  <2>2. begin[1] = m + 2
    BY BeginUnfolds
  <2>3. begin[m + 1] = m + 2 + Len(rest)
    <3>1. m \in 0..m
      BY <1>1
    <3> HIDE DEF m, begin, L, rest
    <3> QED BY <1>3, <1>4, <3>1
  <2> HIDE DEF head, begin, rest, region
  <2>4. 1 \in 1..(m + 1) /\ m + 1 \in 1..(m + 1) /\ 1 + 1 = 2 /\ (m + 1) + 1 = m + 2
    BY <1>1
  <2>5. region[2].at = m + 2 /\ region[m + 2].at = m + 2 + Len(rest)
    <3>1. region[1 + 1].at = begin[1] /\ region[(m + 1) + 1].at = begin[m + 1]
      BY <1>7, <2>4
    <3> HIDE DEF m
    <3> QED BY <2>2, <2>3, <2>4, <3>1
  <2>6. Len(region) >= m + 2
    <3> HIDE DEF m
    <3> QED BY <1>1, <1>2, <1>7
  <2>7. region[1].k = "exhead" /\ region[1].batch_blocks = m /\ region[m + 2].at = Len(region)
    BY <1>7, <2>1, <2>5
  <2> QED BY <2>5, <2>6, <2>7 DEF VariableHeaderOk
<1>9. ASSUME NEW i \in 1..n
      PROVE  LET at == region[((i - 1) \div ExLanes) + 2].at
             IN  /\ (i - 1) % ExLanes < region[at + 1].count
                 /\ region[at + ((i - 1) % ExLanes) + 2] = Code(id, i)
  <2> DEFINE q == (i - 1) \div ExLanes
             r == (i - 1) % ExLanes
             batch == Batch(id, n, q + 1)
             at == m + 2 + L(q)
  <2>1. ExLanes \in Nat \ {0}
    BY StoreAssumption
  <2>2. q \in Nat /\ q + 1 \in 1..m
    BY <2>1, GroupOf
  <2>3. ValidCount(n, q + 1) \in 1..ExLanes
    BY <2>2, ValidCounts
  <2>4. /\ r \in Nat /\ r + 2 \in 1..Len(batch) /\ 1 \in 1..Len(batch)
        /\ r < batch[1].count /\ batch[r + 2] = Code(id, i)
    <3> DEFINE lanes == ValidCount(n, q + 1)
    <3>1. lanes \in Nat /\ lanes >= lanes
      BY <2>1, <2>3
    <3>2. batch = BatchCells(id, n, q + 1, lanes)
      BY DEF Batch
    <3> HIDE DEF batch
    <3> QED BY <3>1, <3>2, BatchLookup
  <2> HIDE DEF q, r, m, begin, L, rest, region, head
  <2>5. region[q + 2].at = at /\ at \in Nat /\ L(q) \in Nat
    <3>1. q \in 0..m /\ q + 1 \in 1..(m + 1) /\ (q + 1) + 1 = q + 2
      BY <1>1, <2>2
    <3>2. region[(q + 1) + 1].at = begin[q + 1] /\ begin[q + 1] = at /\ L(q) \in Nat
      BY <1>3, <1>7, <3>1
    <3> QED BY <1>1, <3>1, <3>2
  <2>6. LiesAt(rest, L(q), batch)
    <3>1. (q + 1) - 1 = q
      BY <2>2
    <3>2. LiesAt(rest, L((q + 1) - 1), Batch(id, n, q + 1))
      BY <1>5, <2>2
    <3> QED BY <3>1, <3>2
  <2> HIDE DEF batch
  <2>7. ASSUME NEW j \in 1..Len(batch) PROVE region[at + j] = batch[j]
    <3>1. Len(batch) \in Nat /\ L(q) + Len(batch) <= Len(rest) /\ rest[L(q) + j] = batch[j]
      <4>1. Len(batch) \in Nat
        BY <1>1, <2>2 DEF batch
      <4> QED BY <2>6, <4>1 DEF LiesAt
    <3>2. L(q) + j \in 1..Len(rest) /\ m + 2 + (L(q) + j) = at + j
      <4> DEFINE x == L(q)
                 y == Len(rest)
                 z == Len(batch)
      <4>1. x \in Nat /\ y \in Nat /\ z \in Nat /\ m \in Nat /\ x + z <= y /\ j \in 1..z
        BY <1>1, <1>2, <2>5, <3>1
      <4> HIDE DEF x, y, z
      <4>2. x + j \in 1..y /\ m + 2 + (x + j) = (m + 2 + x) + j
        BY <4>1
      <4> QED BY <4>2 DEF x, y
    <3>3. region[m + 2 + (L(q) + j)] = rest[L(q) + j]
      BY <1>7, <3>2
    <3> QED BY <3>1, <3>2, <3>3
  <2> HIDE DEF at
  <2>8. at + (r + 2) = at + r + 2
    BY <2>4, <2>5
  <2>9. region[at + 1] = batch[1] /\ region[at + r + 2] = batch[r + 2]
    BY <2>4, <2>7, <2>8
  <2> QED BY <2>4, <2>5, <2>9 DEF q, r
<1> HIDE DEF region
<1> QED BY <1>6, <1>7, <1>8, <1>9

-----------------------------------------------------------------------------
(* The block of a cluster: what the three writing calls put there. *)
Codes(l, id, n) == FsRegion(id, n) \o ExRegion(l, id, n)
RawTable(id, n) == EncodeRawTableV2(ClusterAddresses(id, n), PageSize).raw_entries
BlockCells(l, id, n) ==
  (Codes(l, id, n) \o AddressCells(RawTable(id, n)))
    \o MiniTrailer(RawTable(id, n), Len(Codes(l, id, n)))

(* The lookup entry that names it, and what the reader makes of it. *)
Entry(l, id, n, at) ==
  [id |-> id, num_records |-> n, block_offset |-> at,
   block_size |-> Len(BlockCells(l, id, n)), num_fastscan_blocks |-> Len(FsRegion(id, n))]

View(l, id, n) ==
  [ok |-> TRUE, num_records |-> n, region1 |-> Len(FsRegion(id, n)),
   codes |-> Codes(l, id, n), addresses |-> ClusterAddresses(id, n)]

(* The addresses a client passes are those the raw table can hold. *)
LEMMA AddressesStorable ==
  ASSUME NEW id \in Ids, NEW n \in Sizes
  PROVE  /\ id \in Nat /\ n \in Nat
         /\ ClusterAddresses(id, n) \in Seq(ByteRanges)
         /\ Len(ClusterAddresses(id, n)) = n
         /\ ValidateRawTableV2Alignment(ClusterAddresses(id, n), PageSize)
         /\ FitsRawTable(ClusterAddresses(id, n), PageSize)
<1> DEFINE all == Addresses[id]
           some == ClusterAddresses(id, n)
<1>1. /\ all \in Seq(ByteRanges) /\ n <= Len(all)
      /\ ValidateRawTableV2Alignment(all, PageSize) /\ FitsRawTable(all, PageSize)
      /\ id \in Nat /\ n \in Nat
  BY StoreAssumption DEF ByteRanges
<1>2. some = SubSeq(all, 0 + 1, n)
  BY DEF ClusterAddresses
<1> HIDE DEF all, some
<1>3. some \in Seq(ByteRanges) /\ Len(some) = n /\ \A i \in 1..n : some[i] = all[i]
  <2> DEFINE s == SubSeq(all, 0 + 1, n)
  <2>1. 0 \in Nat /\ 0 <= n
    BY <1>1
  <2>2. s \in Seq(ByteRanges) /\ Len(s) = n - 0 /\ \A i \in 1..(n - 0) : s[i] = all[0 + i]
    BY <1>1, <2>1, SliceElements
  <2> HIDE DEF s
  <2>3. n - 0 = n /\ \A i \in 1..n : all[0 + i] = all[i]
    BY <1>1
  <2> QED BY <1>2, <2>2, <2>3 DEF s
<1>4. DOMAIN some = 1..n /\ DOMAIN all = 1..Len(all) /\ 1..n \subseteq 1..Len(all)
  BY <1>1, <1>3
<1>5. ValidateRawTableV2Alignment(some, PageSize)
  BY <1>1, <1>3, <1>4 DEF ValidateRawTableV2Alignment
<1>6. FitsRawTable(some, PageSize)
  BY <1>1, <1>3, <1>4 DEF FitsRawTable
<1> QED BY <1>1, <1>3, <1>5, <1>6 DEF some

(* U32 of a number is a number. *)
LEMMA U32Nat ==
  ASSUME NEW x \in Nat
  PROVE  U32(x) \in Nat
  BY WordAssumption, Z3 DEF U32

(* The raw table of a cluster, and that each of its entries decodes to the  *)
(* address it stands for.                                                   *)
LEMMA RawTableShape ==
  ASSUME NEW id \in Ids, NEW n \in Sizes
  PROVE  /\ RawTable(id, n) \in Seq(RawSet) /\ Len(RawTable(id, n)) = n
         /\ \A i \in 1..n :
              DecodeRawEntryV2(RawTable(id, n)[i], PageSize) = ClusterAddresses(id, n)[i]
<1> DEFINE s == ClusterAddresses(id, n)
           raw == RawTable(id, n)
           entry(i) == [offset_pages |-> U32(s[i].offset \div PageSize),
                        size_pages |-> U32(s[i].size \div PageSize)]
<1>1. /\ n \in Nat /\ s \in Seq(ByteRanges) /\ Len(s) = n
      /\ ValidateRawTableV2Alignment(s, PageSize) /\ FitsRawTable(s, PageSize)
      /\ PageSize \in Nat \ {0}
  BY AddressesStorable, StoreAssumption
<1>2. raw = [i \in DOMAIN s |-> entry(i)]
  BY DEF RawTable, EncodeRawTableV2
<1> HIDE DEF s, raw
<1>3. DOMAIN s = 1..n
  BY <1>1
<1>4. ASSUME NEW i \in 1..n
      PROVE  entry(i) \in RawSet /\ DecodeRawEntryV2(entry(i), PageSize) = s[i]
  <2>1. s[i] \in ByteRanges
    <3>1. i \in 1..Len(s)
      BY <1>1
    <3> QED BY <1>1, <3>1, ElementOfSeq
  <2> DEFINE e == s[i]
  <2>2. e \in [offset : Nat, size : Nat]
    BY <2>1 DEF ByteRanges
  <2>3. e.offset % PageSize = 0 /\ e.size % PageSize = 0
    BY <1>1, <1>3 DEF ValidateRawTableV2Alignment
  <2>4. e.offset \div PageSize < Word /\ e.size < Word
    BY <1>1, <1>3 DEF FitsRawTable
  <2> HIDE DEF e
  <2>5. e.offset \in Nat /\ e.size \in Nat
    BY <2>2
  <2>6. e.offset \div PageSize \in Nat /\ e.size \div PageSize \in Nat
    BY <1>1, <2>3, <2>5, WholePages
  <2>7. U32(e.offset \div PageSize) \in Nat /\ U32(e.size \div PageSize) \in Nat
    BY <2>6, U32Nat
  <2>8. DecodeRawEntryV2([offset_pages |-> U32(e.offset \div PageSize),
                          size_pages |-> U32(e.size \div PageSize)], PageSize) = e
    BY <1>1, <2>2, <2>3, <2>4, RawEntryRoundTrip
  <2> QED BY <2>7, <2>8 DEF e, RawSet
<1> HIDE DEF entry
<1>5. raw \in [1..n -> RawSet]
  BY <1>2, <1>3, <1>4
<1>6. raw \in Seq(RawSet) /\ Len(raw) = n
  BY <1>1, <1>5
<1>7. \A i \in 1..n : DecodeRawEntryV2(raw[i], PageSize) = s[i]
  BY <1>2, <1>3, <1>4
<1> QED BY <1>6, <1>7 DEF s, raw

(* Either column a client may pass becomes that table. *)
LEMMA ColumnsBecomeTheTable ==
  ASSUME NEW id \in Ids, NEW n \in Sizes, NEW column \in AddressColumnsOf(id, n)
  PROVE  RawTableOf(column).raw_entries = RawTable(id, n)
<1> DEFINE s == ClusterAddresses(id, n)
           table == EncodeRawTableV2(s, PageSize)
           packed == Encode(s, PackedSize, PageSize)
<1>1. /\ n \in Nat /\ s \in Seq(ByteRanges)
      /\ ValidateRawTableV2Alignment(s, PageSize) /\ FitsRawTable(s, PageSize)
      /\ PageSize \in Nat \ {0} /\ PackedSize \in Nat
  BY AddressesStorable, StoreAssumption
<1>2. column = table \/ (Adjacent(s) /\ column = packed)
  BY DEF AddressColumnsOf
<1>3. CASE column = table
  <2>1. table.format # "V1Packed"
    BY DEF EncodeRawTableV2
  <2> QED BY <1>3, <2>1 DEF RawTableOf, RawTable
<1>4. CASE Adjacent(s) /\ column = packed
  <2>1. packed.format = "V1Packed" /\ packed.page_size = PageSize
    BY DEF Encode, EmptyColumn
  <2> HIDE DEF s, packed
  <2>2. Decode(packed).entries = s
    <3>1. Decode(Encode(s, PackedSize, PageSize)) = [ok |-> TRUE, entries |-> s]
      BY <1>1, <1>4, PackedRoundTrip
    <3> QED BY <3>1 DEF packed
  <2>3. RawTableOf(column) = table
    BY <1>4, <2>1, <2>2 DEF RawTableOf
  <2> QED BY <2>3 DEF RawTable, s
<1> QED BY <1>2, <1>3, <1>4

-----------------------------------------------------------------------------
(* The two regions of a block's codes, one behind the other. *)
LEMMA CodesShape ==
  ASSUME NEW l \in AllLayouts, NEW id \in Nat, NEW n \in Nat
  PROVE  /\ FsRegion(id, n) \in Seq(CellSet) /\ ExRegion(l, id, n) \in Seq(CellSet)
         /\ Codes(l, id, n) \in Seq(CellSet)
         /\ Len(Codes(l, id, n)) = Len(FsRegion(id, n)) + Len(ExRegion(l, id, n))
         /\ \A j \in 1..Len(FsRegion(id, n)) : Codes(l, id, n)[j] = FsRegion(id, n)[j]
         /\ SubSeq(Codes(l, id, n), Len(FsRegion(id, n)) + 1, Len(Codes(l, id, n)))
              = ExRegion(l, id, n)
<1> DEFINE fs == FsRegion(id, n)
           ex == ExRegion(l, id, n)
<1>1. fs \in Seq(CellSet)
  BY FsRegionShape
<1>2. ex \in Seq(CellSet)
  <2>1. CASE l = "none"
    BY <2>1 DEF ExRegion
  <2>2. CASE l = "fixed"
    BY <2>2, FixedShape DEF ExRegion
  <2>3. CASE l = "variable"
    BY <2>3, VariableShape DEF ExRegion
  <2> QED BY <2>1, <2>2, <2>3 DEF AllLayouts
<1> HIDE DEF fs, ex
<1> DEFINE codes == fs \o ex
<1>3. /\ codes \in Seq(CellSet) /\ Len(codes) = Len(fs) + Len(ex)
      /\ \A j \in 1..Len(fs) : codes[j] = fs[j]
  BY <1>1, <1>2, ConcatElements
<1>4. SubSeq(codes, Len(fs) + 1, Len(codes)) = ex
  <2>1. LiesAt(codes, Len(fs), ex)
    BY <1>1, <1>2, LiesAtEnd
  <2>2. Len(fs) \in Nat
    BY <1>1, LenProperties
  <2> HIDE DEF codes
  <2>3. SubSeq(codes, Len(fs) + 1, Len(fs) + Len(ex)) = ex
    BY <1>2, <1>3, <2>1, <2>2, LiesAtRead
  <2> QED BY <1>3, <2>3
<1>5. Codes(l, id, n) = codes
  BY DEF Codes, fs, ex
<1> HIDE DEF codes
<1> QED BY <1>1, <1>2, <1>3, <1>4, <1>5 DEF fs, ex

Trailer(codes, n) ==
  [k |-> "trailer", page_size |-> PageSize, num_entries |-> n,
   payload_offset |-> codes, payload_bytes |-> n]
Footer == [k |-> "footer", mini_trailer_size |-> 2]

(* What WriteAddressBlocks and EndCluster write, cell by cell. *)
LEMMA AddressCellsShape ==
  ASSUME NEW n \in Nat, NEW raw \in Seq(RawSet), Len(raw) = n
  PROVE  /\ AddressCells(raw) \in Seq(CellSet) /\ Len(AddressCells(raw)) = n
         /\ \A j \in 1..n : AddressCells(raw)[j] = [k |-> "address", raw |-> raw[j]]
<1> DEFINE table == AddressCells(raw)
<1>1. DOMAIN raw = 1..n
  OBVIOUS
<1>2. table = [i \in 1..n |-> [k |-> "address", raw |-> raw[i]]]
  BY <1>1 DEF AddressCells
<1>3. ASSUME NEW i \in 1..n PROVE [k |-> "address", raw |-> raw[i]] \in CellSet
  <2>1. raw[i] \in RawSet
    BY ElementOfSeq
  <2> QED BY <2>1 DEF CellSet
<1> HIDE DEF table
<1>4. table \in [1..n -> CellSet]
  BY <1>2, <1>3
<1>5. table \in Seq(CellSet) /\ Len(table) = n
  BY <1>4
<1> QED BY <1>2, <1>5 DEF table

(* The trailer and the footer EndCluster writes. *)
LEMMA TrailerShape ==
  ASSUME NEW n \in Nat, NEW raw \in Seq(RawSet), Len(raw) = n, NEW codes \in Nat
  PROVE  /\ MiniTrailer(raw, codes) \in Seq(CellSet) /\ Len(MiniTrailer(raw, codes)) = 2
         /\ MiniTrailer(raw, codes)[1] = Trailer(codes, n)
         /\ MiniTrailer(raw, codes)[2] = Footer
<1>1. MiniTrailer(raw, codes) = <<Trailer(codes, n), Footer>>
  BY DEF MiniTrailer, Trailer, Footer
<1>2. Trailer(codes, n) \in CellSet
  <2>1. PageSize \in Nat
    BY StoreAssumption
  <2> QED BY <2>1 DEF Trailer, CellSet
<1>3. Footer \in CellSet
  BY DEF Footer, CellSet
<1> QED BY <1>1, <1>2, <1>3

(* The cells of a block, one by one. *)
LEMMA BlockShape ==
  ASSUME NEW l \in AllLayouts, NEW id \in Ids, NEW n \in Sizes
  PROVE  LET codes == Codes(l, id, n)
             cells == BlockCells(l, id, n)
         IN  /\ codes \in Seq(CellSet) /\ Len(codes) \in Nat /\ n \in Nat
             /\ cells \in Seq(CellSet)
             /\ Len(cells) = Len(codes) + n + 2
             /\ \A j \in 1..Len(codes) : cells[j] = codes[j]
             /\ \A j \in 1..n :
                  cells[Len(codes) + j] = [k |-> "address", raw |-> RawTable(id, n)[j]]
             /\ cells[Len(codes) + n + 1] = Trailer(Len(codes), n)
             /\ cells[Len(codes) + n + 2] = Footer
<1> DEFINE codes == Codes(l, id, n)
           raw == RawTable(id, n)
           table == AddressCells(raw)
           trailer == MiniTrailer(raw, Len(codes))
           front == codes \o table
           cells == front \o trailer
<1>1. id \in Nat /\ n \in Nat
  BY StoreAssumption
<1>2. codes \in Seq(CellSet) /\ Len(codes) \in Nat
  <2>1. codes \in Seq(CellSet)
    BY <1>1, CodesShape
  <2> QED BY <2>1, LenProperties
<1>3. raw \in Seq(RawSet) /\ Len(raw) = n
  BY RawTableShape
<1> HIDE DEF codes, raw
<1>4. /\ table \in Seq(CellSet) /\ Len(table) = n
      /\ \A j \in 1..n : table[j] = [k |-> "address", raw |-> raw[j]]
  BY <1>1, <1>3, AddressCellsShape
<1>5. /\ trailer \in Seq(CellSet) /\ Len(trailer) = 2
      /\ trailer[1] = Trailer(Len(codes), n) /\ trailer[2] = Footer
  BY <1>1, <1>2, <1>3, TrailerShape
<1> HIDE DEF table, trailer
<1>6. /\ front \in Seq(CellSet) /\ Len(front) = Len(codes) + Len(table)
      /\ \A j \in 1..Len(codes) : front[j] = codes[j]
      /\ \A j \in 1..Len(table) : front[Len(codes) + j] = table[j]
  <2>1. codes \in Seq(CellSet) /\ table \in Seq(CellSet)
    BY <1>2, <1>4
  <2> QED BY <2>1, ConcatElements
<1> HIDE DEF front
<1>7. /\ cells \in Seq(CellSet) /\ Len(cells) = Len(front) + Len(trailer)
      /\ \A j \in 1..Len(front) : cells[j] = front[j]
      /\ \A j \in 1..Len(trailer) : cells[Len(front) + j] = trailer[j]
  <2>1. front \in Seq(CellSet) /\ trailer \in Seq(CellSet)
    BY <1>5, <1>6
  <2> QED BY <2>1, ConcatElements
<1>8. BlockCells(l, id, n) = cells
  BY DEF BlockCells, cells, front, table, trailer, codes, raw
<1> HIDE DEF cells
<1>9. Len(front) = Len(codes) + n /\ Len(cells) = Len(codes) + n + 2
  BY <1>1, <1>2, <1>4, <1>5, <1>6, <1>7
<1>10. \A j \in 1..Len(codes) : cells[j] = codes[j]
  BY <1>1, <1>2, <1>6, <1>7, <1>9
<1>11. ASSUME NEW j \in 1..n
       PROVE  cells[Len(codes) + j] = [k |-> "address", raw |-> raw[j]]
  <2>1. Len(codes) + j \in 1..Len(front)
    BY <1>1, <1>2, <1>9
  <2> QED BY <1>4, <1>6, <1>7, <2>1
<1>12. cells[Len(codes) + n + 1] = trailer[1] /\ cells[Len(codes) + n + 2] = trailer[2]
  BY <1>1, <1>2, <1>5, <1>7, <1>9
<1> QED BY <1>1, <1>2, <1>5, <1>7, <1>8, <1>9, <1>10, <1>11, <1>12 DEF codes, raw

(* The block of a cluster lies on the disk from `at` on. *)
HoldsBlock(l, id, n, at) ==
  \A j \in 1..Len(BlockCells(l, id, n)) :
    at + j - 1 \in DOMAIN disk /\ disk[at + j - 1] = BlockCells(l, id, n)[j]

(* LoadCluster (cluster_store.cpp) on a block that is on the disk finds the  *)
(* trailer from the block's end and gives back codes and addresses.         *)
LEMMA BlockLoads ==
  ASSUME NEW l \in AllLayouts, NEW id \in Ids, NEW n \in Sizes, NEW at \in Nat,
         NEW version \in Nat, version >= kFileVersionV9, HoldsBlock(l, id, n, at)
  PROVE  LoadCluster(version, Entry(l, id, n, at)) = View(l, id, n)
<1> DEFINE codes == Codes(l, id, n)
           cells == BlockCells(l, id, n)
           C == Len(codes)
           F == Len(FsRegion(id, n))
           raw == RawTable(id, n)
           addresses == ClusterAddresses(id, n)
           e == Entry(l, id, n, at)
           end == e.block_offset + e.block_size
           trailer == disk[end - 2]
<1>1. /\ codes \in Seq(CellSet) /\ C \in Nat /\ n \in Nat
      /\ Len(cells) = C + n + 2
      /\ \A j \in 1..C : cells[j] = codes[j]
      /\ \A j \in 1..n : cells[C + j] = [k |-> "address", raw |-> raw[j]]
      /\ cells[C + n + 1] = Trailer(C, n)
      /\ cells[C + n + 2] = Footer
  BY BlockShape
<1>2. F \in Nat /\ F <= C
  <2>1. id \in Nat
    BY StoreAssumption
  <2>2. FsRegion(id, n) \in Seq(CellSet) /\ ExRegion(l, id, n) \in Seq(CellSet)
        /\ C = Len(FsRegion(id, n)) + Len(ExRegion(l, id, n))
    BY <1>1, <2>1, CodesShape
  <2>3. Len(FsRegion(id, n)) \in Nat /\ Len(ExRegion(l, id, n)) \in Nat
    BY <2>2, LenProperties
  <2> QED BY <2>2, <2>3
<1>3. /\ Len(addresses) = n /\ addresses \in Seq(ByteRanges)
      /\ \A i \in 1..n : DecodeRawEntryV2(raw[i], PageSize) = addresses[i]
  BY AddressesStorable, RawTableShape
<1>4. /\ e.block_offset = at /\ e.num_records = n /\ e.num_fastscan_blocks = F
      /\ e.block_size = C + n + 2
  BY <1>1 DEF Entry
<1>5. \A j \in 1..(C + n + 2) : at + j - 1 \in DOMAIN disk /\ disk[at + j - 1] = cells[j]
  BY <1>1 DEF HoldsBlock
<1> HIDE DEF codes, cells, C, F, raw, addresses, e
<1>6. end = at + C + n + 2 /\ end - 1 \in DOMAIN disk /\ disk[end - 1] = Footer
  <2>0. end = at + (C + n + 2)
    BY <1>4
  <2> HIDE DEF end
  <2>1. C + n + 2 \in 1..(C + n + 2) /\ at + (C + n + 2) - 1 = end - 1 /\ end = at + C + n + 2
    BY <1>1, <2>0
  <2>2. at + (C + n + 2) - 1 \in DOMAIN disk /\ disk[at + (C + n + 2) - 1] = cells[C + n + 2]
    BY <1>5, <2>1
  <2> QED BY <1>1, <2>1, <2>2
<1>7. end - 2 \in DOMAIN disk /\ trailer = Trailer(C, n)
  <2> HIDE DEF end
  <2>1. C + n + 1 \in 1..(C + n + 2) /\ at + (C + n + 1) - 1 = end - 2
    BY <1>1, <1>6
  <2>2. at + (C + n + 1) - 1 \in DOMAIN disk /\ disk[at + (C + n + 1) - 1] = cells[C + n + 1]
    BY <1>5, <2>1
  <2> QED BY <1>1, <2>1, <2>2
<1>8. /\ Footer.k = "footer" /\ Footer.mini_trailer_size = 2
      /\ Trailer(C, n).k = "trailer" /\ Trailer(C, n).num_entries = n
      /\ Trailer(C, n).payload_offset = C /\ Trailer(C, n).payload_bytes = n
      /\ Trailer(C, n).page_size = PageSize
  BY DEF Footer, Trailer
<1>9. Cells(at, C) = codes
  <2>1. ASSUME NEW j \in 1..C PROVE disk[at + j - 1] = codes[j]
    <3>1. j \in 1..(C + n + 2)
      BY <1>1
    <3> QED BY <1>1, <1>5, <3>1
  <2>2. codes = [j \in 1..C |-> codes[j]]
    BY <1>1 DEF C
  <2> QED BY <2>1, <2>2 DEF Cells
<1>10. Has(at, at + C - 1)
  <2>1. ASSUME NEW o \in at..(at + C - 1) PROVE o \in DOMAIN disk
    <3>1. o - at + 1 \in 1..(C + n + 2) /\ at + (o - at + 1) - 1 = o
      BY <1>1
    <3> QED BY <1>5, <3>1
  <2> QED BY <2>1 DEF Has
<1>11. ASSUME NEW i \in 1..n
       PROVE  /\ at + C + i - 1 \in DOMAIN disk
              /\ DecodeRawEntryV2(disk[at + C + i - 1].raw, PageSize) = addresses[i]
  <2>1. C + i \in 1..(C + n + 2) /\ at + (C + i) - 1 = at + C + i - 1
    BY <1>1
  <2>2. at + (C + i) - 1 \in DOMAIN disk /\ disk[at + (C + i) - 1] = cells[C + i]
    BY <1>5, <2>1
  <2>3. disk[at + C + i - 1].raw = raw[i]
    <3>1. cells[C + i] = [k |-> "address", raw |-> raw[i]]
      BY <1>1
    <3>2. disk[at + C + i - 1] = cells[C + i]
      BY <2>1, <2>2
    <3> QED BY <3>1, <3>2
  <2> QED BY <1>3, <2>1, <2>2, <2>3
<1>12. Has(at + C, at + C + n - 1)
  <2>1. ASSUME NEW o \in (at + C)..(at + C + n - 1) PROVE o \in DOMAIN disk
    <3>3. C \in Nat /\ n \in Nat
      BY <1>1
    <3>4. at + C \in Nat
      BY <3>3
    <3>0. PICK b, m \in Nat : b = at + C /\ m = n
      BY <3>3, <3>4, Zenon
    <3>1. o \in b..(b + m - 1)
      BY <3>0
    <3>2. o - b + 1 \in 1..m /\ b + (o - b + 1) - 1 = o
      BY ONLY <3>1, b \in Nat, m \in Nat
    <3> QED BY <1>11, <3>0, <3>2
  <2> QED BY <2>1 DEF Has
<1>13. [i \in 1..n |-> DecodeRawEntryV2(disk[at + C + i - 1].raw, PageSize)] = addresses
  <2>1. addresses = [i \in 1..n |-> addresses[i]]
    BY <1>3
  <2> QED BY <1>11, <2>1
<1> HIDE DEF trailer
<1>14. TrailerOk(version, e)
  <2>1. Kind(end - 1) = "footer"
    BY <1>6, <1>8 DEF Kind
  <2>2. disk[end - 1].mini_trailer_size = 2
    BY <1>6, <1>8
  <2>3. Kind(end - 2) = "trailer" /\ disk[end - 2].num_entries = n
    BY <1>7, <1>8 DEF Kind, trailer
  <2>4. 2 <= e.block_size
    BY <1>1, <1>4
  <2> HIDE DEF end
  <2> QED BY <1>4, <2>1, <2>2, <2>3, <2>4 DEF TrailerOk, end
<1>15. LoadCluster(version, e) =
         [ok |-> TRUE, num_records |-> n, region1 |-> F, codes |-> Cells(at, C),
          addresses |-> [i \in 1..n |->
            DecodeRawEntryV2(disk[at + C + i - 1].raw, PageSize)]]
  <2>1. /\ disk[end - 1].mini_trailer_size = 2
        /\ trailer.payload_offset = C /\ trailer.payload_bytes = n /\ trailer.page_size = PageSize
    BY <1>6, <1>7, <1>8
  <2>2. F + (IF C >= F THEN C - F ELSE 0) = C
    BY <1>1, <1>2
  <2>3. ~ (C + 2 > e.block_size) /\ e.block_size - C - 2 = n
    BY <1>1, <1>4
  <2> HIDE DEF end
  <2> QED BY <1>4, <1>10, <1>12, <1>14, <2>1, <2>2, <2>3 DEF LoadCluster, end, trailer
<1> QED BY <1>9, <1>13, <1>15 DEF View, e, codes, F, addresses

(* Such a view is what was written: each code in its block and lane, the    *)
(* ex code found by position or over the table of offsets, each address.    *)
LEMMA ViewFaithful ==
  ASSUME NEW l \in AllLayouts, NEW id \in Ids, NEW n \in Sizes, NEW at
  PROVE  Faithful(l, Entry(l, id, n, at), View(l, id, n))
<1> DEFINE fs == FsRegion(id, n)
           ex == ExRegion(l, id, n)
           codes == Codes(l, id, n)
           view == View(l, id, n)
           e == Entry(l, id, n, at)
<1>1. id \in Nat /\ n \in Nat
  BY StoreAssumption
<1>2. /\ Len(fs) = Blocks(n, FsLanes)
      /\ \A i \in 1..n : fs[((i - 1) \div FsLanes) + 1].lanes[((i - 1) % FsLanes) + 1] = Code(id, i)
  BY <1>1, FsRegionShape
<1>3. /\ \A j \in 1..Len(fs) : codes[j] = fs[j]
      /\ SubSeq(codes, Len(fs) + 1, Len(codes)) = ex
  BY <1>1, CodesShape
<1>4. view.ok /\ view.num_records = n /\ view.region1 = Len(fs) /\ view.codes = codes
      /\ view.addresses = ClusterAddresses(id, n)
  BY DEF View
<1>5. e.id = id /\ e.num_records = n
  BY DEF Entry
<1> HIDE DEF fs, codes, view, e
<1>6. ASSUME NEW i \in 1..n PROVE FastScanCode(view, i) = Code(id, i)
  <2>1. FsLanes \in Nat \ {0}
    BY StoreAssumption
  <2>2. ((i - 1) \div FsLanes) + 1 \in 1..Len(fs)
    BY <1>1, <1>2, <2>1, GroupOf
  <2> QED BY <1>2, <1>3, <1>4, <2>2 DEF FastScanCode
<1>7. ASSUME NEW i \in 1..n, l # "none" PROVE ExCode(l, view, i) = Code(id, i)
  <2>1. SubSeq(view.codes, view.region1 + 1, Len(view.codes)) = ex
    BY <1>3, <1>4
  <2>2. CASE l = "fixed"
    <3>1. /\ (i - 1) % ExLanes < ex[FixedAt(i) + 1].count
          /\ ex[FixedAt(i) + ((i - 1) % ExLanes) + 2] = Code(id, i)
      BY <1>1, <2>2, FixedShape DEF ExRegion
    <3> HIDE DEF ex
    <3>2. ExCode(l, view, i) =
            IF (i - 1) % ExLanes < ex[FixedAt(i) + 1].count
            THEN ex[FixedAt(i) + ((i - 1) % ExLanes) + 2] ELSE Zero
      BY <2>1, <2>2 DEF ExCode, FixedAt
    <3> QED BY <3>1, <3>2
  <2>3. CASE l = "variable"
    <3> DEFINE from == ex[((i - 1) \div ExLanes) + 2].at
    <3>1. /\ (i - 1) % ExLanes < ex[from + 1].count
          /\ ex[from + ((i - 1) % ExLanes) + 2] = Code(id, i)
      BY <1>1, <2>3, VariableShape DEF ExRegion
    <3> HIDE DEF ex
    <3>2. ExCode(l, view, i) =
            IF (i - 1) % ExLanes < ex[from + 1].count
            THEN ex[from + ((i - 1) % ExLanes) + 2] ELSE Zero
      BY <2>1, <2>3 DEF ExCode
    <3> QED BY <3>1, <3>2
  <2> QED BY <1>7, <2>2, <2>3 DEF AllLayouts
<1>8. Faithful(l, e, view)
  BY <1>4, <1>5, <1>6, <1>7 DEF Faithful
<1> QED BY <1>8 DEF e, view

(* ParseClusterBlock on a block that is on the disk takes every check it    *)
(* makes and gives what was written.                                        *)
LEMMA BlockParses ==
  ASSUME NEW l \in AllLayouts, NEW id \in Ids, NEW n \in Sizes, NEW at \in Nat,
         NEW version \in Nat, version >= kFileVersionV9, HoldsBlock(l, id, n, at)
  PROVE  ParseClusterBlock(version, l, Entry(l, id, n, at)) = View(l, id, n)
<1> DEFINE view == View(l, id, n)
           e == Entry(l, id, n, at)
<1>1. LoadCluster(version, e) = view
  BY BlockLoads
<1>2. id \in Nat /\ n \in Nat
  BY StoreAssumption
<1>3. /\ view.ok /\ e.num_records = n
      /\ view.region1 = Len(FsRegion(id, n)) /\ view.codes = Codes(l, id, n)
  BY DEF View, Entry
<1>4. SubSeq(view.codes, view.region1 + 1, Len(view.codes)) = ExRegion(l, id, n)
  <2>1. SubSeq(Codes(l, id, n), Len(FsRegion(id, n)) + 1, Len(Codes(l, id, n)))
          = ExRegion(l, id, n)
    BY <1>2, CodesShape
  <2> HIDE DEF view
  <2> QED BY <1>3, <2>1
<1>5. l = "variable" => VariableHeaderOk(n, ExRegion(l, id, n))
  BY <1>2, VariableShape DEF ExRegion
<1> HIDE DEF view, e
<1> QED BY <1>1, <1>3, <1>4, <1>5 DEF ParseClusterBlock, view, e

-----------------------------------------------------------------------------
(* The writer: its place in the file and the entries it has filled in. *)
WriterStates == {"closed", "open", "finalizing", "finalized", "failed"}
ClusterSet ==
  [stage : {"begun", "vectors", "addresses", "ending"}, id : Ids, num_records : Sizes,
   block_start : Nat, num_fastscan_blocks : Nat, raw : Seq(RawSet)]
EntrySet ==
  [id : Ids, num_records : Sizes, block_offset : Nat, block_size : Nat,
   num_fastscan_blocks : Nat]

Active == cluster.stage \in {"begun", "vectors", "addresses"}
Frontier == IF Active THEN cluster.block_start ELSE current_offset
TableEnd == EntryOffset(NumClusters + 1)

WriterType ==
  /\ writer \in WriterStates /\ layout \in AllLayouts /\ current_offset \in Nat
  /\ lookup_table \in Seq(EntrySet)
  /\ cluster \in ClusterSet \cup {NoCluster}

(* Each filled entry names a whole block; the blocks lie in order, below    *)
(* the one in progress, and belong to different clusters.                   *)
TableInv ==
  /\ Len(lookup_table) <= NumClusters
  /\ \A i \in 1..Len(lookup_table) :
       /\ lookup_table[i] = Entry(layout, lookup_table[i].id, lookup_table[i].num_records,
                                  lookup_table[i].block_offset)
       /\ FirstBlock <= lookup_table[i].block_offset
       /\ lookup_table[i].block_offset + lookup_table[i].block_size <= Frontier
  /\ \A i, j \in 1..Len(lookup_table) : i < j =>
       /\ lookup_table[i].block_offset + lookup_table[i].block_size
            <= lookup_table[j].block_offset
       /\ lookup_table[i].id # lookup_table[j].id
  /\ writer = "closed" => lookup_table = << >> /\ cluster = NoCluster
  /\ writer # "closed" => FirstBlock <= Frontier

(* What of the cluster in progress lies before current_offset_. *)
ClusterInv ==
  LET codes == Len(Codes(layout, cluster.id, cluster.num_records))
      fs == Len(FsRegion(cluster.id, cluster.num_records))
  IN  Active =>
        /\ Len(lookup_table) < NumClusters
        /\ \A i \in 1..Len(lookup_table) : lookup_table[i].id # cluster.id
        /\ cluster.stage = "begun" => current_offset = cluster.block_start
        /\ cluster.stage = "vectors" =>
             /\ current_offset = cluster.block_start + codes
             /\ cluster.num_fastscan_blocks = fs
        /\ cluster.stage = "addresses" =>
             /\ current_offset = cluster.block_start + codes + cluster.num_records
             /\ cluster.num_fastscan_blocks = fs
             /\ cluster.raw = RawTable(cluster.id, cluster.num_records)

WriterInv == WriterType /\ TableInv /\ ClusterInv

(* Rounding up does not go back. *)
LEMMA RoundUpBounds ==
  ASSUME NEW x \in Nat
  PROVE  /\ RoundUpToMultiple(x, AlignSize) \in Nat
         /\ x <= RoundUpToMultiple(x, AlignSize)
<1>1. AlignSize \in Nat \ {0}
  BY StoreAssumption
<1>2. CeilDiv(x, AlignSize) \in Nat /\ CeilDiv(x, AlignSize) * AlignSize >= x
  BY <1>1, CeilDivBounds
<1>3. CeilDiv(x, AlignSize) * AlignSize \in Nat
  BY <1>1, <1>2, Z3
<1> QED BY <1>2, <1>3 DEF RoundUpToMultiple

(* The offsets of header and table, and where the first block may begin. *)
LEMMA Offsets ==
  /\ TableEnd = 2 + 2 * NumClusters /\ NumClusters \in Nat \ {0} /\ TableEnd \in Nat
  /\ FirstBlock \in Nat /\ TableEnd <= FirstBlock
  /\ FirstBlock = RoundUpToMultiple(TableEnd, AlignSize)
  /\ \A i \in Nat \ {0} : EntryOffset(i) = 2 * i /\ EntryOffset(i) \in Nat
<1>1. NumClusters \in Nat \ {0}
  BY StoreAssumption
<1>2. TableEnd = 2 + 2 * NumClusters /\ TableEnd \in Nat
  BY <1>1 DEF TableEnd, EntryOffset, TableStart, lookup_entry_size
<1>3. \A i \in Nat \ {0} : EntryOffset(i) = 2 * i /\ EntryOffset(i) \in Nat
  BY DEF EntryOffset, TableStart, lookup_entry_size
<1>4. FirstBlock = RoundUpToMultiple(TableEnd, AlignSize)
  BY DEF FirstBlock, TableEnd
<1> QED BY <1>1, <1>2, <1>3, <1>4, RoundUpBounds

(* The parts of a lookup entry. *)
LEMMA EntryType ==
  ASSUME NEW l \in AllLayouts, NEW id \in Ids, NEW n \in Sizes, NEW at \in Nat
  PROVE  /\ Entry(l, id, n, at) \in EntrySet
         /\ Entry(l, id, n, at).id = id /\ Entry(l, id, n, at).num_records = n
         /\ Entry(l, id, n, at).block_offset = at
         /\ Entry(l, id, n, at).block_size = Len(Codes(l, id, n)) + n + 2
         /\ Len(Codes(l, id, n)) \in Nat /\ n \in Nat
<1>1. Len(Codes(l, id, n)) \in Nat /\ n \in Nat
      /\ Len(BlockCells(l, id, n)) = Len(Codes(l, id, n)) + n + 2
  BY BlockShape
<1>2. Len(FsRegion(id, n)) \in Nat
  <2>1. id \in Nat
    BY StoreAssumption
  <2>2. FsRegion(id, n) \in Seq(CellSet)
    BY <1>1, <2>1, FsRegionShape
  <2> QED BY <2>2, LenProperties
<1>3. Len(Codes(l, id, n)) + n + 2 \in Nat
  BY <1>1
<1> QED BY <1>1, <1>2, <1>3 DEF Entry, EntrySet

(* The writer's invariant holds before Open. *)
LEMMA WriterInit == Init => WriterInv
<1> SUFFICES ASSUME Init PROVE WriterInv
  OBVIOUS
<1>1. WriterType
  BY DEF Init, WriterType, WriterStates, AllLayouts, NoCluster
<1>2. ~ Active
  BY DEF Init, Active, NoCluster
<1>3. TableInv
  <2>1. lookup_table = << >> /\ Len(lookup_table) = 0 /\ writer = "closed" /\ cluster = NoCluster
    BY DEF Init
  <2>2. NumClusters \in Nat
    BY StoreAssumption
  <2> QED BY <2>1, <2>2 DEF TableInv
<1>4. ClusterInv
  BY <1>2 DEF ClusterInv
<1> QED BY <1>1, <1>3, <1>4 DEF WriterInv

-----------------------------------------------------------------------------
(* Open starts with an empty table, behind which the first block begins. *)
LEMMA WriterOpens ==
  ASSUME WriterInv, NEW l \in Layouts, OpenWriter(l)
  PROVE  WriterInv'
<1>1. /\ writer' = "open" /\ layout' = l /\ current_offset' = FirstBlock
      /\ lookup_table' = << >> /\ cluster' = NoCluster
  BY DEF OpenWriter, WriterInv, TableInv
<1>2. WriterType'
  BY <1>1, StoreAssumption, Offsets DEF WriterType, WriterStates, AllLayouts
<1>3. ~ Active'
  BY <1>1 DEF Active, NoCluster
<1>4. TableInv'
  <2>1. Len(lookup_table') = 0 /\ Frontier' = FirstBlock
    BY <1>1, <1>3 DEF Frontier
  <2> QED BY <1>1, <2>1, Offsets DEF TableInv
<1>5. ClusterInv'
  BY <1>3 DEF ClusterInv
<1> QED BY <1>2, <1>4, <1>5 DEF WriterInv

(* BeginCluster takes an id that is not in the table and a block that       *)
(* begins at current_offset_.                                               *)
LEMMA WriterBegins ==
  ASSUME WriterInv, NEW id \in Ids \ WrittenIds, NEW n \in Sizes, BeginCluster(id, n)
  PROVE  WriterInv'
<1> DEFINE new == [stage |-> "begun", id |-> id, num_records |-> n,
                   block_start |-> current_offset, num_fastscan_blocks |-> 0, raw |-> << >>]
<1>1. /\ cluster = NoCluster /\ cluster' = new /\ writer = "open" /\ writer' = writer
      /\ layout' = layout /\ lookup_table' = lookup_table /\ current_offset' = current_offset
      /\ Len(lookup_table) < NumClusters
  BY DEF BeginCluster
<1>2. new \in ClusterSet
  <2>1. current_offset \in Nat
    BY DEF WriterInv, WriterType
  <2> QED BY <2>1 DEF ClusterSet
<1>3. Frontier = current_offset /\ Frontier' = current_offset
  BY <1>1 DEF Frontier, Active, NoCluster
<1>4. WriterType'
  BY <1>1, <1>2 DEF WriterInv, WriterType
<1>5. TableInv'
  BY <1>1, <1>3 DEF WriterInv, TableInv
<1>6. \A i \in 1..Len(lookup_table) : lookup_table[i].id # id
  <2>1. DOMAIN lookup_table = 1..Len(lookup_table)
    BY DEF WriterInv, WriterType
  <2> QED BY <2>1 DEF WrittenIds
<1>7. ClusterInv'
  BY <1>1, <1>6 DEF ClusterInv
<1> QED BY <1>4, <1>5, <1>7 DEF WriterInv

(* Cells written ahead of the entry: the stage moves on, the block stays.   *)
LEMMA WriterWrites ==
  ASSUME WriterInv, Active, NEW stage \in {"vectors", "addresses"}, NEW fs \in Nat,
         NEW raw \in Seq(RawSet), NEW size \in Nat,
         cluster' = [cluster EXCEPT !.stage = stage, !.num_fastscan_blocks = fs, !.raw = raw],
         current_offset' = current_offset + size,
         UNCHANGED <<writer, layout, lookup_table>>
  PROVE  /\ cluster \in ClusterSet /\ cluster' \in ClusterSet /\ Active'
         /\ cluster'.stage = stage /\ cluster'.id = cluster.id
         /\ cluster'.num_records = cluster.num_records
         /\ cluster'.block_start = cluster.block_start
         /\ cluster'.num_fastscan_blocks = fs /\ cluster'.raw = raw
         /\ WriterType' /\ TableInv'
<1>1. cluster \in ClusterSet
  BY DEF WriterInv, WriterType, Active, NoCluster
<1>2. cluster' \in ClusterSet
  BY <1>1 DEF ClusterSet
<1>3. /\ cluster'.stage = stage /\ cluster'.id = cluster.id
      /\ cluster'.num_records = cluster.num_records
      /\ cluster'.block_start = cluster.block_start
      /\ cluster'.num_fastscan_blocks = fs /\ cluster'.raw = raw
  BY <1>1 DEF ClusterSet
<1>4. Active'
  BY <1>3 DEF Active
<1>5. WriterType'
  <2>1. current_offset' \in Nat
    BY DEF WriterInv, WriterType
  <2> QED BY <1>2, <2>1 DEF WriterInv, WriterType
<1>6. TableInv'
  <2>1. Frontier' = Frontier
    BY <1>3, <1>4 DEF Frontier
  <2>2. writer # "closed"
    BY <1>1 DEF WriterInv, TableInv, Active, NoCluster
  <2> QED BY <2>1, <2>2 DEF WriterInv, TableInv
<1> QED BY <1>1, <1>2, <1>3, <1>4, <1>5, <1>6

(* WriteVectors moves current_offset_ past the codes. *)
LEMMA WriterVectors ==
  ASSUME WriterInv, WriteVectors
  PROVE  /\ WriterInv' /\ Active /\ Active'
         /\ cluster \in ClusterSet /\ cluster'.id = cluster.id
         /\ cluster'.num_records = cluster.num_records
         /\ cluster'.block_start = cluster.block_start
<1> DEFINE codes == Codes(layout, cluster.id, cluster.num_records)
           fs == FsRegion(cluster.id, cluster.num_records)
<1>1. /\ Active /\ cluster.stage = "begun"
      /\ cluster' = [cluster EXCEPT !.stage = "vectors", !.num_fastscan_blocks = Len(fs)]
      /\ current_offset' = current_offset + Len(codes)
      /\ UNCHANGED <<writer, layout, lookup_table>>
  BY DEF WriteVectors, Active, Codes
<1>2. cluster \in ClusterSet /\ layout \in AllLayouts
  BY <1>1 DEF WriterInv, WriterType, Active, NoCluster
<1>3. cluster.id \in Ids /\ cluster.num_records \in Sizes /\ cluster.raw \in Seq(RawSet)
  BY <1>2 DEF ClusterSet
<1>4. Len(codes) \in Nat
  BY <1>2, <1>3, BlockShape
<1>5. Len(fs) \in Nat
  <2>1. cluster.id \in Nat /\ cluster.num_records \in Nat
    BY <1>3, StoreAssumption
  <2>2. fs \in Seq(CellSet)
    BY <2>1, FsRegionShape
  <2> QED BY <2>2, LenProperties
<1> HIDE DEF codes, fs
<1>6. cluster' = [cluster EXCEPT !.stage = "vectors", !.num_fastscan_blocks = Len(fs), !.raw = cluster.raw]
  BY <1>1, <1>2 DEF ClusterSet
<1>7. /\ cluster' \in ClusterSet /\ Active' /\ cluster'.stage = "vectors"
      /\ cluster'.id = cluster.id /\ cluster'.num_records = cluster.num_records
      /\ cluster'.block_start = cluster.block_start
      /\ cluster'.num_fastscan_blocks = Len(fs) /\ WriterType' /\ TableInv'
  BY <1>1, <1>3, <1>4, <1>5, <1>6, WriterWrites
<1>8. /\ current_offset = cluster.block_start /\ Len(lookup_table) < NumClusters
      /\ \A i \in 1..Len(lookup_table) : lookup_table[i].id # cluster.id
  BY <1>1 DEF WriterInv, ClusterInv
<1>9. ClusterInv'
  BY <1>1, <1>7, <1>8 DEF ClusterInv, codes, fs
<1> QED BY <1>1, <1>2, <1>7, <1>9 DEF WriterInv

(* WriteAddressBlocks moves it past the raw table, whichever column the     *)
(* client passes.                                                           *)
LEMMA WriterAddresses ==
  ASSUME WriterInv, cluster.stage = "vectors",
         NEW column \in AddressColumnsOf(cluster.id, cluster.num_records),
         WriteAddressBlocks(column)
  PROVE  /\ WriterInv' /\ Active /\ Active'
         /\ cluster \in ClusterSet /\ cluster'.id = cluster.id
         /\ cluster'.num_records = cluster.num_records
         /\ cluster'.block_start = cluster.block_start
         /\ RawTableOf(column).raw_entries = RawTable(cluster.id, cluster.num_records)
<1> DEFINE raw == RawTableOf(column).raw_entries
           n == cluster.num_records
<1>1. /\ Active
      /\ cluster' = [cluster EXCEPT !.stage = "addresses", !.raw = raw]
      /\ current_offset' = current_offset + Len(raw)
      /\ UNCHANGED <<writer, layout, lookup_table>>
  BY DEF WriteAddressBlocks, Active
<1>2. cluster \in ClusterSet
  BY <1>1 DEF WriterInv, WriterType, Active, NoCluster
<1>3. cluster.id \in Ids /\ n \in Sizes /\ cluster.num_fastscan_blocks \in Nat
  BY <1>2 DEF ClusterSet
<1>4. raw = RawTable(cluster.id, n)
  BY <1>3, ColumnsBecomeTheTable
<1>5. raw \in Seq(RawSet) /\ Len(raw) = n /\ n \in Nat
  <2>1. RawTable(cluster.id, n) \in Seq(RawSet) /\ Len(RawTable(cluster.id, n)) = n
    BY <1>3, RawTableShape
  <2> QED BY <1>3, <1>4, <2>1, StoreAssumption
<1> HIDE DEF raw
<1>6. cluster' = [cluster EXCEPT !.stage = "addresses",
                     !.num_fastscan_blocks = cluster.num_fastscan_blocks, !.raw = raw]
  BY <1>1, <1>2 DEF ClusterSet
<1>7. /\ cluster' \in ClusterSet /\ Active' /\ cluster'.stage = "addresses"
      /\ cluster'.id = cluster.id /\ cluster'.num_records = n
      /\ cluster'.block_start = cluster.block_start /\ cluster'.raw = raw
      /\ cluster'.num_fastscan_blocks = cluster.num_fastscan_blocks /\ WriterType' /\ TableInv'
  <2> DEFINE size == Len(raw)
             fs == cluster.num_fastscan_blocks
  <2>1. size \in Nat /\ fs \in Nat /\ raw \in Seq(RawSet) /\ current_offset' = current_offset + size
    BY <1>1, <1>3, <1>5
  <2>2. cluster' = [cluster EXCEPT !.stage = "addresses", !.num_fastscan_blocks = fs, !.raw = raw]
    BY <1>6
  <2> HIDE DEF size, fs
  <2>3. /\ cluster' \in ClusterSet /\ Active' /\ cluster'.stage = "addresses"
        /\ cluster'.id = cluster.id /\ cluster'.num_records = cluster.num_records
        /\ cluster'.block_start = cluster.block_start /\ cluster'.raw = raw
        /\ cluster'.num_fastscan_blocks = fs /\ WriterType' /\ TableInv'
    <3>1. Active /\ UNCHANGED <<writer, layout, lookup_table>> /\ "addresses" \in {"vectors", "addresses"}
      BY <1>1
    <3> QED BY <2>1, <2>2, <3>1, WriterWrites
  <2> QED BY <2>3 DEF fs
<1>8. /\ current_offset = cluster.block_start + Len(Codes(layout, cluster.id, n))
      /\ cluster.num_fastscan_blocks = Len(FsRegion(cluster.id, n))
      /\ Len(lookup_table) < NumClusters
      /\ \A i \in 1..Len(lookup_table) : lookup_table[i].id # cluster.id
  BY <1>1 DEF WriterInv, ClusterInv
<1>9. current_offset' = cluster.block_start + Len(Codes(layout, cluster.id, n)) + n
  BY <1>1, <1>5, <1>8
<1>10. ClusterInv'
  BY <1>1, <1>4, <1>7, <1>8, <1>9 DEF ClusterInv
<1> QED BY <1>1, <1>2, <1>4, <1>7, <1>10 DEF WriterInv, raw

-----------------------------------------------------------------------------
(* The entry EndCluster patches in names the block of the cluster in        *)
(* progress, whole.                                                         *)
LEMMA EntryPatched ==
  ASSUME WriterInv, cluster.stage = "addresses"
  PROVE  LET C == Len(Codes(layout, cluster.id, cluster.num_records))
             n == cluster.num_records
         IN  /\ Active /\ cluster \in ClusterSet /\ cluster.id \in Ids /\ n \in Sizes
             /\ cluster.block_start \in Nat /\ C \in Nat /\ n \in Nat
             /\ current_offset = cluster.block_start + C + n
             /\ BlockEnd = cluster.block_start + C + n + 2
             /\ PatchedEntry = Entry(layout, cluster.id, n, cluster.block_start)
             /\ cluster.raw = RawTable(cluster.id, n)
             /\ PatchedEntry.block_offset = cluster.block_start
             /\ PatchedEntry.block_offset + PatchedEntry.block_size = BlockEnd
             /\ PatchedEntry \in EntrySet
             /\ Len(BlockCells(layout, cluster.id, n)) = C + n + 2
<1> DEFINE C == Len(Codes(layout, cluster.id, cluster.num_records))
           n == cluster.num_records
           e == Entry(layout, cluster.id, n, cluster.block_start)
<1>1. Active /\ cluster \in ClusterSet /\ layout \in AllLayouts
  BY DEF WriterInv, WriterType, Active, NoCluster
<1>2. cluster.id \in Ids /\ n \in Sizes /\ cluster.block_start \in Nat
  BY <1>1 DEF ClusterSet
<1>3. /\ current_offset = cluster.block_start + C + n
      /\ cluster.num_fastscan_blocks = Len(FsRegion(cluster.id, n))
      /\ cluster.raw = RawTable(cluster.id, n)
  BY <1>1 DEF WriterInv, ClusterInv
<1>4. /\ e \in EntrySet /\ e.block_offset = cluster.block_start
      /\ e.block_size = C + n + 2 /\ C \in Nat /\ n \in Nat
  BY <1>1, <1>2, EntryType
<1>5. Len(BlockCells(layout, cluster.id, n)) = C + n + 2
  BY <1>4 DEF Entry
<1> HIDE DEF C
<1>6. BlockEnd = cluster.block_start + C + n + 2 /\ BlockEnd - cluster.block_start = C + n + 2
  BY <1>2, <1>3, <1>4 DEF BlockEnd
<1>7. PatchedEntry = e
  BY <1>3, <1>5, <1>6 DEF PatchedEntry, Entry
<1> HIDE DEF e
<1>8. PatchedEntry.block_offset + PatchedEntry.block_size = BlockEnd
  BY <1>2, <1>4, <1>6, <1>7
<1> QED BY <1>1, <1>2, <1>3, <1>4, <1>5, <1>6, <1>7, <1>8 DEF C, e

(* EndCluster fills in one entry more and aligns current_offset_. *)
LEMMA WriterEnds ==
  ASSUME WriterInv, EndCluster
  PROVE  /\ WriterInv' /\ ~ Active'
         /\ lookup_table' = Append(lookup_table, PatchedEntry)
         /\ Len(lookup_table') = Len(lookup_table) + 1 /\ Len(lookup_table) \in Nat
         /\ \A i \in 1..Len(lookup_table) : lookup_table'[i] = lookup_table[i]
         /\ lookup_table'[Len(lookup_table) + 1] = PatchedEntry
         /\ current_offset' \in Nat /\ BlockEnd <= current_offset'
<1> DEFINE N == Len(lookup_table)
           n == cluster.num_records
           C == Len(Codes(layout, cluster.id, n))
           e == PatchedEntry
<1>1. /\ writer = "open" /\ cluster.stage = "addresses"
      /\ lookup_table' = Append(lookup_table, e)
      /\ current_offset' = RoundUpToMultiple(BlockEnd, AlignSize)
      /\ cluster' = [cluster EXCEPT !.stage = "ending"]
      /\ writer' = writer /\ layout' = layout
  BY DEF EndCluster
<1>2. /\ Active /\ cluster \in ClusterSet /\ cluster.id \in Ids /\ n \in Sizes
      /\ cluster.block_start \in Nat /\ C \in Nat /\ n \in Nat
      /\ BlockEnd = cluster.block_start + C + n + 2
      /\ e = Entry(layout, cluster.id, n, cluster.block_start)
      /\ e.block_offset = cluster.block_start
      /\ e.block_offset + e.block_size = BlockEnd /\ e \in EntrySet
  BY <1>1, EntryPatched
<1>3. e.id = cluster.id /\ e.num_records = n
  BY DEF PatchedEntry
<1>4. cluster' \in ClusterSet /\ cluster'.stage = "ending"
  BY <1>1, <1>2 DEF ClusterSet
<1>5. ~ Active' /\ Frontier' = current_offset' /\ Frontier = cluster.block_start
  BY <1>2, <1>4 DEF Active, Frontier
<1>6. BlockEnd \in Nat
  <2> HIDE DEF C
  <2> QED BY <1>2
<1>7. current_offset' \in Nat /\ BlockEnd <= current_offset'
  BY <1>1, <1>6, RoundUpBounds
<1> HIDE DEF e, C
<1>8. /\ lookup_table' \in Seq(EntrySet) /\ Len(lookup_table') = N + 1 /\ N \in Nat
      /\ \A i \in 1..N : lookup_table'[i] = lookup_table[i]
      /\ lookup_table'[N + 1] = e
  <2>1. lookup_table \in Seq(EntrySet)
    BY DEF WriterInv, WriterType
  <2> QED BY <1>1, <1>2, <2>1, AppendProperties, LenProperties
<1> HIDE DEF N
<1>9. WriterType'
  BY <1>1, <1>4, <1>7, <1>8 DEF WriterInv, WriterType
<1>10. N < NumClusters /\ \A i \in 1..N : lookup_table[i].id # e.id
  BY <1>2, <1>3 DEF WriterInv, ClusterInv, N
<1>11. /\ \A i \in 1..N :
           /\ lookup_table[i] = Entry(layout, lookup_table[i].id, lookup_table[i].num_records,
                                      lookup_table[i].block_offset)
           /\ FirstBlock <= lookup_table[i].block_offset
           /\ lookup_table[i].block_offset + lookup_table[i].block_size <= cluster.block_start
      /\ \A i, j \in 1..N : i < j =>
           /\ lookup_table[i].block_offset + lookup_table[i].block_size
                <= lookup_table[j].block_offset
           /\ lookup_table[i].id # lookup_table[j].id
  BY <1>1, <1>5 DEF WriterInv, TableInv, N
<1>12. FirstBlock <= cluster.block_start
  BY <1>1, <1>5 DEF WriterInv, TableInv
<1>13. ASSUME NEW i \in 1..N
       PROVE  /\ lookup_table[i].block_offset \in Nat /\ lookup_table[i].block_size \in Nat
  <2>1. lookup_table[i] \in EntrySet
    <3>1. i \in 1..Len(lookup_table)
      BY DEF N
    <3> QED BY <3>1, ElementOfSeq DEF WriterInv, WriterType
  <2> QED BY <2>1 DEF EntrySet
<1>14. cluster.block_start <= BlockEnd
  BY <1>2, <1>6
<1>15. TableInv'
  <2>1. Len(lookup_table') <= NumClusters
    BY <1>8, <1>10, Offsets
  <2>2. ASSUME NEW i \in 1..(N + 1)
        PROVE  /\ lookup_table'[i] = Entry(layout', lookup_table'[i].id,
                         lookup_table'[i].num_records, lookup_table'[i].block_offset)
               /\ FirstBlock <= lookup_table'[i].block_offset
               /\ lookup_table'[i].block_offset + lookup_table'[i].block_size <= Frontier'
    <3>1. CASE i \in 1..N
      <4>1. lookup_table[i].block_offset + lookup_table[i].block_size <= Frontier'
        <5> DEFINE z == lookup_table[i].block_offset + lookup_table[i].block_size
        <5>1. z \in Nat /\ z <= cluster.block_start
          BY <1>11, <1>13, <3>1
        <5> HIDE DEF z
        <5>2. z <= current_offset'
          BY <1>2, <1>6, <1>7, <1>14, <5>1
        <5> QED BY <1>5, <5>2 DEF z
      <4> QED BY <1>1, <1>8, <1>11, <3>1, <4>1
    <3>2. CASE i = N + 1
      <4>1. lookup_table'[i] = e
        BY <1>8, <3>2
      <4>2. e = Entry(layout', e.id, e.num_records, e.block_offset)
        BY <1>1, <1>2, <1>3
      <4>3. FirstBlock <= e.block_offset
        BY <1>2, <1>12
      <4>4. e.block_offset + e.block_size <= Frontier'
        BY <1>2, <1>5, <1>7
      <4> QED BY <4>1, <4>2, <4>3, <4>4
    <3> QED BY <1>8, <3>1, <3>2
  <2>3. ASSUME NEW i \in 1..(N + 1), NEW j \in 1..(N + 1), i < j
        PROVE  /\ lookup_table'[i].block_offset + lookup_table'[i].block_size
                    <= lookup_table'[j].block_offset
               /\ lookup_table'[i].id # lookup_table'[j].id
    <3>1. i \in 1..N
      BY <1>8, <2>3
    <3>2. CASE j \in 1..N
      BY <1>8, <1>11, <2>3, <3>1, <3>2
    <3>3. CASE j = N + 1
      <4>1. lookup_table'[j] = e /\ lookup_table'[i] = lookup_table[i]
        BY <1>8, <3>1, <3>3
      <4> QED BY <1>2, <1>10, <1>11, <3>1, <4>1
    <3> QED BY <1>8, <3>2, <3>3
  <2>4. writer' # "closed" /\ FirstBlock <= Frontier'
    <3>1. FirstBlock <= current_offset'
      <4>1. FirstBlock \in Nat
        BY Offsets
      <4>2. cluster.block_start \in Nat /\ FirstBlock <= cluster.block_start
        BY <1>2, <1>12
      <4> QED BY <1>6, <1>7, <1>14, <4>1, <4>2
    <3> QED BY <1>1, <1>5, <3>1
  <2> QED BY <1>8, <2>1, <2>2, <2>3, <2>4 DEF TableInv
<1>16. ClusterInv'
  BY <1>5 DEF ClusterInv
<1> QED BY <1>1, <1>5, <1>7, <1>8, <1>9, <1>15, <1>16 DEF WriterInv, N, e

(* A step that moves the writer's state alone keeps its invariant. *)
LEMMA WriterStands ==
  ASSUME WriterInv, UNCHANGED <<layout, current_offset, lookup_table, cluster>>,
         writer' \in WriterStates, writer # "closed", writer' # "closed"
  PROVE  WriterInv'
<1>1. Active' <=> Active
  BY DEF Active
<1>2. Frontier' = Frontier
  BY <1>1 DEF Frontier, Active
<1>3. WriterType'
  BY DEF WriterInv, WriterType
<1>4. TableInv'
  BY <1>2 DEF WriterInv, TableInv
<1>5. ClusterInv'
  BY <1>1 DEF WriterInv, ClusterInv
<1> QED BY <1>3, <1>4, <1>5 DEF WriterInv

(* EndCluster's return leaves no cluster in progress. *)
LEMMA WriterReturns ==
  ASSUME WriterInv, EndClusterReturns
  PROVE  WriterInv' /\ ~ Active /\ ~ Active'
<1>1. /\ writer = "open" /\ cluster.stage = "ending" /\ cluster' = NoCluster
      /\ UNCHANGED <<writer, layout, current_offset, lookup_table>>
  BY DEF EndClusterReturns, streamVars
<1>2. ~ Active /\ ~ Active'
  BY <1>1 DEF Active, NoCluster
<1>3. Frontier' = Frontier
  BY <1>1, <1>2 DEF Frontier
<1>4. WriterType'
  BY <1>1 DEF WriterInv, WriterType
<1>5. TableInv'
  BY <1>1, <1>3 DEF WriterInv, TableInv
<1>6. ClusterInv'
  BY <1>2 DEF ClusterInv
<1> QED BY <1>2, <1>4, <1>5, <1>6 DEF WriterInv

(* A step that is not the writer's keeps its invariant. *)
LEMMA WriterFrozen ==
  ASSUME WriterInv, UNCHANGED writerVars
  PROVE  WriterInv'
<1>1. UNCHANGED <<writer, layout, current_offset, lookup_table, cluster>>
  BY DEF writerVars
<1>2. (Active' <=> Active) /\ Frontier' = Frontier
  BY <1>1 DEF Frontier, Active
<1>3. WriterType' /\ TableInv'
  BY <1>1, <1>2 DEF WriterInv, WriterType, TableInv
<1>4. ClusterInv'
  BY <1>1, <1>2 DEF WriterInv, ClusterInv
<1> QED BY <1>3, <1>4 DEF WriterInv

-----------------------------------------------------------------------------
(* Where blocks are: those the table names, and the one in progress, which  *)
(* has its whole extent from BeginCluster on.                               *)
PlaceSet == [id : Ids, n : Sizes, at : Nat]
EntryPlace(e) == [id |-> e.id, n |-> e.num_records, at |-> e.block_offset]
OwnPlace == [id |-> cluster.id, n |-> cluster.num_records, at |-> cluster.block_start]
Places ==
  {p \in PlaceSet :
     \/ \E i \in 1..Len(lookup_table) : p = EntryPlace(lookup_table[i])
     \/ Active /\ p = OwnPlace}

CellsOf(l, p) == BlockCells(l, p.id, p.n)
PlaceEnd(l, p) == p.at + Len(CellsOf(l, p))
Within(l, p, o) == p.at <= o /\ o < PlaceEnd(l, p)

(* A block has cells, and ends behind its beginning. *)
LEMMA PlaceShape ==
  ASSUME NEW l \in AllLayouts, NEW p \in PlaceSet
  PROVE  /\ p.id \in Ids /\ p.n \in Sizes /\ p.at \in Nat
         /\ CellsOf(l, p) \in Seq(CellSet) /\ Len(CellsOf(l, p)) \in Nat
         /\ PlaceEnd(l, p) \in Nat /\ p.at < PlaceEnd(l, p)
<1>1. p.id \in Ids /\ p.n \in Sizes /\ p.at \in Nat
  BY DEF PlaceSet
<1> DEFINE C == Len(Codes(l, p.id, p.n))
<1>2. /\ CellsOf(l, p) \in Seq(CellSet) /\ C \in Nat /\ p.n \in Nat
      /\ Len(CellsOf(l, p)) = C + p.n + 2
  BY <1>1, BlockShape DEF CellsOf
<1> HIDE DEF C
<1>3. Len(CellsOf(l, p)) \in Nat /\ Len(CellsOf(l, p)) >= 2
  BY <1>2
<1>4. PlaceEnd(l, p) \in Nat /\ p.at < PlaceEnd(l, p)
  BY <1>1, <1>3 DEF PlaceEnd
<1> QED BY <1>1, <1>2, <1>3, <1>4

(* The place of an entry is its block. *)
LEMMA EntryPlaces ==
  ASSUME WriterInv, NEW i \in 1..Len(lookup_table)
  PROVE  LET e == lookup_table[i]
             p == EntryPlace(e)
         IN  /\ e \in EntrySet /\ p \in Places /\ p \in PlaceSet
             /\ e = Entry(layout, p.id, p.n, p.at)
             /\ p.id = e.id /\ p.n = e.num_records /\ p.at = e.block_offset
             /\ PlaceEnd(layout, p) = e.block_offset + e.block_size
             /\ FirstBlock <= p.at /\ PlaceEnd(layout, p) <= Frontier
             /\ e.block_size = Len(CellsOf(layout, p))
<1> DEFINE e == lookup_table[i]
           p == EntryPlace(e)
<1>1. e \in EntrySet
  BY ElementOfSeq DEF WriterInv, WriterType
<1>2. p \in PlaceSet /\ p.id = e.id /\ p.n = e.num_records /\ p.at = e.block_offset
  <2> HIDE DEF e
  <2> QED BY <1>1 DEF EntrySet, PlaceSet, EntryPlace
<1>3. p \in Places
  BY <1>2 DEF Places
<1>4. /\ e = Entry(layout, e.id, e.num_records, e.block_offset)
      /\ FirstBlock <= e.block_offset /\ e.block_offset + e.block_size <= Frontier
  BY DEF WriterInv, TableInv
<1> HIDE DEF e, p
<1>5. e.block_size = Len(CellsOf(layout, p))
  BY <1>2, <1>4 DEF Entry, CellsOf
<1>6. PlaceEnd(layout, p) = e.block_offset + e.block_size
  BY <1>2, <1>5 DEF PlaceEnd
<1>7. e = Entry(layout, p.id, p.n, p.at)
  BY <1>2, <1>4
<1> QED BY <1>1, <1>2, <1>3, <1>4, <1>5, <1>6, <1>7 DEF e, p

(* The block in progress is one of the blocks. *)
LEMMA OwnPlaces ==
  ASSUME WriterInv, Active
  PROVE  /\ cluster \in ClusterSet /\ OwnPlace \in Places /\ OwnPlace \in PlaceSet
         /\ OwnPlace.id = cluster.id /\ OwnPlace.n = cluster.num_records
         /\ OwnPlace.at = cluster.block_start
         /\ Frontier = OwnPlace.at /\ FirstBlock <= OwnPlace.at
         /\ CellsOf(layout, OwnPlace) = BlockCells(layout, cluster.id, cluster.num_records)
<1>1. cluster \in ClusterSet
  BY DEF WriterInv, WriterType, Active, NoCluster
<1>2. /\ OwnPlace \in PlaceSet /\ OwnPlace.id = cluster.id /\ OwnPlace.n = cluster.num_records
      /\ OwnPlace.at = cluster.block_start
  BY <1>1 DEF ClusterSet, PlaceSet, OwnPlace
<1>3. OwnPlace \in Places
  BY <1>2 DEF Places
<1>4. Frontier = OwnPlace.at
  BY <1>2 DEF Frontier
<1>5. FirstBlock <= Frontier
  <2>1. writer # "closed"
    BY <1>1 DEF WriterInv, TableInv, Active, NoCluster
  <2> QED BY <2>1 DEF WriterInv, TableInv
<1> QED BY <1>1, <1>2, <1>3, <1>4, <1>5 DEF CellsOf

(* Blocks are disjoint and beyond the table. *)
LEMMA PlacesApart ==
  ASSUME WriterInv, NEW p \in Places, NEW q \in Places
  PROVE  /\ p \in PlaceSet /\ FirstBlock <= p.at /\ p.at \in Nat
         /\ p # q => PlaceEnd(layout, p) <= q.at \/ PlaceEnd(layout, q) <= p.at
<1>1. p \in PlaceSet /\ q \in PlaceSet
  BY DEF Places
<1>2. p.at \in Nat
  BY <1>1 DEF PlaceSet
<1>3. FirstBlock <= p.at
  <2>1. CASE \E i \in 1..Len(lookup_table) : p = EntryPlace(lookup_table[i])
    BY <2>1, EntryPlaces
  <2>2. CASE Active /\ p = OwnPlace
    BY <2>2, OwnPlaces
  <2> QED BY <2>1, <2>2 DEF Places
<1>4. ASSUME p # q
      PROVE  PlaceEnd(layout, p) <= q.at \/ PlaceEnd(layout, q) <= p.at
  <2>1. CASE /\ \E i \in 1..Len(lookup_table) : p = EntryPlace(lookup_table[i])
             /\ \E i \in 1..Len(lookup_table) : q = EntryPlace(lookup_table[i])
    <3>1. PICK i \in 1..Len(lookup_table) : p = EntryPlace(lookup_table[i])
      BY <2>1
    <3>2. PICK j \in 1..Len(lookup_table) : q = EntryPlace(lookup_table[j])
      BY <2>1
    <3>3. /\ PlaceEnd(layout, p) = lookup_table[i].block_offset + lookup_table[i].block_size
          /\ p.at = lookup_table[i].block_offset
      BY <3>1, EntryPlaces
    <3>4. /\ PlaceEnd(layout, q) = lookup_table[j].block_offset + lookup_table[j].block_size
          /\ q.at = lookup_table[j].block_offset
      BY <3>2, EntryPlaces
    <3>5. i # j
      BY <1>4, <3>1, <3>2
    <3>6. i < j \/ j < i
      <4>1. i \in Int /\ j \in Int
        OBVIOUS
      <4> QED BY <3>5, <4>1
    <3>7. i < j => lookup_table[i].block_offset + lookup_table[i].block_size
                     <= lookup_table[j].block_offset
      BY DEF WriterInv, TableInv
    <3>8. j < i => lookup_table[j].block_offset + lookup_table[j].block_size
                     <= lookup_table[i].block_offset
      BY DEF WriterInv, TableInv
    <3> QED BY <3>3, <3>4, <3>6, <3>7, <3>8
  <2>2. CASE /\ \E i \in 1..Len(lookup_table) : p = EntryPlace(lookup_table[i])
             /\ Active /\ q = OwnPlace
    <3>1. PlaceEnd(layout, p) <= Frontier
      BY <2>2, EntryPlaces
    <3> QED BY <2>2, <3>1, OwnPlaces
  <2>3. CASE /\ \E i \in 1..Len(lookup_table) : q = EntryPlace(lookup_table[i])
             /\ Active /\ p = OwnPlace
    <3>1. PlaceEnd(layout, q) <= Frontier
      BY <2>3, EntryPlaces
    <3> QED BY <2>3, <3>1, OwnPlaces
  <2> QED BY <1>4, <2>1, <2>2, <2>3 DEF Places
<1> QED BY <1>1, <1>2, <1>3, <1>4
-----------------------------------------------------------------------------
(* What a step other than OpenWriter leaves as it is: the entries, and the  *)
(* places; a new place begins at current_offset_.                           *)
Grows ==
  /\ layout' = layout /\ current_offset' \in Nat /\ current_offset <= current_offset'
  /\ Len(lookup_table) \in Nat /\ Len(lookup_table') \in Nat
  /\ Len(lookup_table) <= Len(lookup_table')
  /\ \A i \in 1..Len(lookup_table) : lookup_table'[i] = lookup_table[i]
  /\ \A p \in PlaceSet : p \in Places => p \in Places'
  /\ \A p \in PlaceSet : p \in Places' => p \in Places \/ current_offset <= p.at

(* The numbers of the writer's state. *)
LEMMA WriterNumbers ==
  ASSUME WriterInv
  PROVE  current_offset \in Nat /\ Len(lookup_table) \in Nat
  BY LenProperties DEF WriterInv, WriterType

(* A step that fills in no entry and begins no cluster leaves the blocks. *)
LEMMA SamePlaces ==
  ASSUME WriterInv, WriterInv', layout' = layout, current_offset <= current_offset',
         lookup_table' = lookup_table, Active' <=> Active, Active => OwnPlace' = OwnPlace
  PROVE  Grows
<1>1. Places' = Places
  BY DEF Places
<1>2. /\ current_offset' \in Nat /\ Len(lookup_table) \in Nat
  BY WriterNumbers DEF WriterInv, WriterType
<1> QED BY <1>1, <1>2 DEF Grows

(* BeginCluster adds the block it begins. *)
LEMMA BeginGrows ==
  ASSUME WriterInv, NEW id \in Ids \ WrittenIds, NEW n \in Sizes, BeginCluster(id, n)
  PROVE  Grows
<1>1. /\ cluster = NoCluster /\ cluster'.stage = "begun" /\ cluster'.block_start = current_offset
      /\ layout' = layout /\ lookup_table' = lookup_table /\ current_offset' = current_offset
  BY DEF BeginCluster
<1>2. ~ Active /\ Active'
  BY <1>1 DEF Active, NoCluster
<1>3. current_offset \in Nat /\ Len(lookup_table) \in Nat
  BY WriterNumbers
<1>4. OwnPlace'.at = current_offset
  BY <1>1 DEF OwnPlace
<1>5. ASSUME NEW p \in PlaceSet, p \in Places PROVE p \in Places'
  BY <1>1, <1>2, <1>5 DEF Places
<1>6. ASSUME NEW p \in PlaceSet, p \in Places' PROVE p \in Places \/ current_offset <= p.at
  <2>1. CASE \E i \in 1..Len(lookup_table') : p = EntryPlace(lookup_table'[i])
    BY <1>1, <2>1 DEF Places
  <2>2. CASE p = OwnPlace'
    BY <1>3, <1>4, <2>2
  <2> QED BY <1>6, <2>1, <2>2 DEF Places
<1> QED BY <1>1, <1>3, <1>5, <1>6 DEF Grows

(* WriteVectors and WriteAddressBlocks add none. *)
LEMMA VectorsGrow ==
  ASSUME WriterInv, WriteVectors
  PROVE  Grows
<1>1. /\ WriterInv' /\ Active /\ Active' /\ cluster \in ClusterSet /\ cluster'.id = cluster.id
      /\ cluster'.num_records = cluster.num_records
      /\ cluster'.block_start = cluster.block_start
  BY WriterVectors
<1>2. /\ layout' = layout /\ lookup_table' = lookup_table
      /\ current_offset' = current_offset + Len(Codes(layout, cluster.id, cluster.num_records))
  BY DEF WriteVectors, Codes
<1>3. Len(Codes(layout, cluster.id, cluster.num_records)) \in Nat
  <2>1. layout \in AllLayouts /\ cluster.id \in Ids /\ cluster.num_records \in Sizes
    BY <1>1 DEF WriterInv, WriterType, ClusterSet
  <2> QED BY <2>1, BlockShape
<1>4. current_offset <= current_offset'
  BY <1>2, <1>3, WriterNumbers
<1>5. OwnPlace' = OwnPlace
  BY <1>1 DEF OwnPlace
<1> QED BY <1>1, <1>2, <1>4, <1>5, SamePlaces

(* The same of WriteAddressBlocks. *)
LEMMA AddressesGrow ==
  ASSUME WriterInv, cluster.stage = "vectors",
         NEW column \in AddressColumnsOf(cluster.id, cluster.num_records),
         WriteAddressBlocks(column)
  PROVE  Grows
<1>1. /\ WriterInv' /\ Active /\ Active' /\ cluster \in ClusterSet /\ cluster'.id = cluster.id
      /\ cluster'.num_records = cluster.num_records
      /\ cluster'.block_start = cluster.block_start
      /\ RawTableOf(column).raw_entries = RawTable(cluster.id, cluster.num_records)
  BY WriterAddresses
<1>2. /\ layout' = layout /\ lookup_table' = lookup_table
      /\ current_offset' = current_offset + Len(RawTable(cluster.id, cluster.num_records))
  BY <1>1 DEF WriteAddressBlocks
<1>3. Len(RawTable(cluster.id, cluster.num_records)) \in Nat
  <2>1. cluster.id \in Ids /\ cluster.num_records \in Sizes
    BY <1>1 DEF ClusterSet
  <2>2. RawTable(cluster.id, cluster.num_records) \in Seq(RawSet)
    BY <2>1, RawTableShape
  <2> QED BY <2>2, LenProperties
<1>4. current_offset <= current_offset'
  BY <1>2, <1>3, WriterNumbers
<1>5. OwnPlace' = OwnPlace
  BY <1>1 DEF OwnPlace
<1> QED BY <1>1, <1>2, <1>4, <1>5, SamePlaces

(* EndCluster makes the block in progress the entry's block. *)
LEMMA EndGrows ==
  ASSUME WriterInv, EndCluster
  PROVE  Grows /\ Places' = Places
<1> DEFINE N == Len(lookup_table)
<1>1. /\ WriterInv' /\ ~ Active'
      /\ Len(lookup_table') = N + 1 /\ N \in Nat
      /\ \A i \in 1..N : lookup_table'[i] = lookup_table[i]
      /\ lookup_table'[N + 1] = PatchedEntry
      /\ current_offset' \in Nat /\ BlockEnd <= current_offset'
  BY WriterEnds
<1>2. layout' = layout /\ cluster.stage = "addresses"
  BY DEF EndCluster
<1>3. Active
  BY <1>2 DEF Active
<1>4. EntryPlace(PatchedEntry) = OwnPlace
  BY DEF EntryPlace, PatchedEntry, OwnPlace
<1>5. current_offset <= current_offset'
  BY <1>1, WriterNumbers DEF BlockEnd
<1> HIDE DEF N
<1>6. ASSUME NEW p \in PlaceSet PROVE p \in Places <=> p \in Places'
  <2>1. ASSUME NEW i \in 1..N, p = EntryPlace(lookup_table[i]) PROVE p \in Places'
    <3>1. i \in 1..Len(lookup_table') /\ lookup_table'[i] = lookup_table[i]
      BY <1>1
    <3> QED BY <2>1, <3>1 DEF Places
  <2>2. ASSUME p = OwnPlace PROVE p \in Places'
    <3>1. N + 1 \in 1..Len(lookup_table') /\ p = EntryPlace(lookup_table'[N + 1])
      BY <1>1, <1>4, <2>2
    <3> QED BY <3>1 DEF Places
  <2>3. ASSUME NEW i \in 1..(N + 1), p = EntryPlace(lookup_table'[i]) PROVE p \in Places
    <3>1. CASE i \in 1..N
      BY <1>1, <2>3, <3>1 DEF Places, N
    <3>2. CASE i = N + 1
      BY <1>1, <1>3, <1>4, <2>3, <3>2 DEF Places
    <3> QED BY <1>1, <3>1, <3>2
  <2>4. p \in Places => p \in Places'
    BY <2>1, <2>2 DEF Places, N
  <2>5. p \in Places' => p \in Places
    BY <1>1, <2>3 DEF Places
  <2> QED BY <2>4, <2>5
<1>7. Places \subseteq PlaceSet /\ Places' \subseteq PlaceSet
  BY DEF Places
<1>8. Places' = Places
  BY <1>6, <1>7
<1>9. Len(lookup_table') \in Nat /\ Len(lookup_table) <= Len(lookup_table')
  BY <1>1 DEF N
<1> QED BY <1>1, <1>2, <1>5, <1>8, <1>9 DEF Grows, N

-----------------------------------------------------------------------------
(* What the file holds at an offset once the first p of the buffered writes *)
(* have reached the kernel: the cell of the last one of them that covers    *)
(* it, or what is there already.                                            *)
Whats == {"header", "pad", "block", "entry", "path"}
ChunkSet == [what : Whats, at : Nat, cells : Seq(CellSet)]
Covers(c, o) == c.at <= o /\ o < c.at + Len(c.cells)
CellIn(c, o) == c.cells[o - c.at + 1]

ShownIn(d, b, p, o, cell) ==
  \/ \E r \in 1..p :
       Covers(b[r], o) /\ CellIn(b[r], o) = cell /\ \A s \in (r + 1)..p : ~ Covers(b[s], o)
  \/ o \in DOMAIN d /\ d[o] = cell /\ \A s \in 1..p : ~ Covers(b[s], o)

Shown(p, o, cell) == ShownIn(disk, buffered, p, o, cell)

(* Before any buffered write the file shows the disk. *)
LEMMA ShownNone ==
  ASSUME NEW d, NEW b, NEW o, NEW cell
  PROVE  ShownIn(d, b, 0, o, cell) <=> (o \in DOMAIN d /\ d[o] = cell)
  BY DEF ShownIn

(* One write more shows its own cells, and elsewhere what was shown. *)
LEMMA ShownNext ==
  ASSUME NEW d, NEW b, NEW p \in Nat, NEW o, NEW cell
  PROVE  ShownIn(d, b, p + 1, o, cell) <=>
           \/ Covers(b[p + 1], o) /\ CellIn(b[p + 1], o) = cell
           \/ ~ Covers(b[p + 1], o) /\ ShownIn(d, b, p, o, cell)
<1> DEFINE H == {q \in 1..(p + 1) : Covers(b[q], o)}
           W == {q \in 1..(p + 1) : CellIn(b[q], o) = cell}
           K == o \in DOMAIN d /\ d[o] = cell
<1>1. ShownIn(d, b, p + 1, o, cell) <=>
        \/ \E r \in 1..(p + 1) : r \in H /\ r \in W /\ \A s \in (r + 1)..(p + 1) : s \notin H
        \/ K /\ \A s \in 1..(p + 1) : s \notin H
  <2>1. \A q \in 1..(p + 1) : (q \in H <=> Covers(b[q], o)) /\ (q \in W <=> CellIn(b[q], o) = cell)
    OBVIOUS
  <2>2. \A r \in 1..(p + 1) : \A s \in (r + 1)..(p + 1) : s \in 1..(p + 1)
    OBVIOUS
  <2> HIDE DEF H, W
  <2> QED BY <2>1, <2>2 DEF ShownIn
<1>2. ShownIn(d, b, p, o, cell) <=>
        \/ \E r \in 1..p : r \in H /\ r \in W /\ \A s \in (r + 1)..p : s \notin H
        \/ K /\ \A s \in 1..p : s \notin H
  <2>1. \A q \in 1..p : (q \in H <=> Covers(b[q], o)) /\ (q \in W <=> CellIn(b[q], o) = cell)
    OBVIOUS
  <2>2. \A r \in 1..p : \A s \in (r + 1)..p : s \in 1..p
    OBVIOUS
  <2> HIDE DEF H, W
  <2> QED BY <2>1, <2>2 DEF ShownIn
<1>3. /\ Covers(b[p + 1], o) <=> p + 1 \in H
      /\ CellIn(b[p + 1], o) = cell <=> p + 1 \in W
  BY p + 1 \in 1..(p + 1)
<1> HIDE DEF H, W, K
<1>4. CASE p + 1 \in H
  <2>1. \A r \in 1..(p + 1) : r # p + 1 => p + 1 \in (r + 1)..(p + 1)
    OBVIOUS
  <2>2. p + 1 \in 1..(p + 1) /\ \A s \in (p + 1 + 1)..(p + 1) : s \notin H
    OBVIOUS
  <2>3. ShownIn(d, b, p + 1, o, cell) <=> p + 1 \in W
    BY <1>1, <1>4, <2>1, <2>2
  <2> QED BY <1>3, <1>4, <2>3
<1>5. CASE p + 1 \notin H
  <2>1. \A r \in 1..(p + 1) : r \in H => r \in 1..p
    BY <1>5
  <2>2. \A r \in 1..p : r \in 1..(p + 1)
    OBVIOUS
  <2>3. \A r \in 1..p : (\A s \in (r + 1)..(p + 1) : s \notin H) <=> (\A s \in (r + 1)..p : s \notin H)
    BY <1>5
  <2>4. (\A s \in 1..(p + 1) : s \notin H) <=> (\A s \in 1..p : s \notin H)
    BY <1>5
  <2>5. ShownIn(d, b, p + 1, o, cell) <=> ShownIn(d, b, p, o, cell)
    BY <1>1, <1>2, <2>1, <2>2, <2>3, <2>4
  <2> QED BY <1>3, <1>5, <2>5
<1> QED BY <1>4, <1>5

(* What is shown depends only on the writes counted. *)
LEMMA ShownSame ==
  ASSUME NEW d, NEW b, NEW c, NEW p \in Nat, \A q \in 1..p : c[q] = b[q], NEW o, NEW cell
  PROVE  ShownIn(d, c, p, o, cell) <=> ShownIn(d, b, p, o, cell)
<1>1. \A r \in 1..p : \A s \in (r + 1)..p : s \in 1..p
  OBVIOUS
<1> QED BY <1>1 DEF ShownIn

(* Nothing is shown that was not written. *)
LEMMA ShownFrom ==
  ASSUME NEW d, NEW b, NEW p \in Nat, NEW o, NEW cell, ShownIn(d, b, p, o, cell)
  PROVE  \/ o \in DOMAIN d /\ d[o] = cell
         \/ \E q \in 1..p : Covers(b[q], o) /\ CellIn(b[q], o) = cell
  BY DEF ShownIn

(* Handing the oldest write to the kernel changes nothing of that. *)
LEMMA ShownFlushed ==
  ASSUME NEW d, NEW b \in Seq(ChunkSet), b # << >>, NEW e,
         \A o \in Nat : (o \in DOMAIN e) <=> (o \in DOMAIN d \/ Covers(b[1], o)),
         \A o \in DOMAIN e : e[o] = IF Covers(b[1], o) THEN CellIn(b[1], o) ELSE d[o],
         NEW p \in 0..(Len(b) - 1), NEW o \in Nat, NEW cell
  PROVE  ShownIn(e, Tail(b), p, o, cell) <=> ShownIn(d, b, p + 1, o, cell)
<1> DEFINE S == {k \in Nat : k <= Len(b) - 1 =>
                     (ShownIn(e, Tail(b), k, o, cell) <=> ShownIn(d, b, k + 1, o, cell))}
<1>1. /\ Len(b) \in Nat /\ Len(b) >= 1
      /\ \A q \in 1..(Len(b) - 1) : Tail(b)[q] = b[q + 1]
  BY LenProperties, EmptySeq, HeadTailProperties
<1>2. 0 \in S
  <2>1. ShownIn(e, Tail(b), 0, o, cell) <=> (o \in DOMAIN e /\ e[o] = cell)
    BY ShownNone
  <2>2. ShownIn(d, b, 0, o, cell) <=> (o \in DOMAIN d /\ d[o] = cell)
    BY ShownNone
  <2>3. ShownIn(d, b, 0 + 1, o, cell) <=>
          \/ Covers(b[0 + 1], o) /\ CellIn(b[0 + 1], o) = cell
          \/ ~ Covers(b[0 + 1], o) /\ ShownIn(d, b, 0, o, cell)
    BY ShownNext
  <2>4. b[0 + 1] = b[1]
    OBVIOUS
  <2>5. ShownIn(e, Tail(b), 0, o, cell) <=> ShownIn(d, b, 0 + 1, o, cell)
    BY <2>1, <2>2, <2>3, <2>4
  <2> QED BY <2>5
<1>3. ASSUME NEW k \in Nat, k \in S PROVE k + 1 \in S
  <2> SUFFICES ASSUME k + 1 <= Len(b) - 1
               PROVE  ShownIn(e, Tail(b), k + 1, o, cell) <=> ShownIn(d, b, k + 1 + 1, o, cell)
    OBVIOUS
  <2>1. ShownIn(e, Tail(b), k, o, cell) <=> ShownIn(d, b, k + 1, o, cell)
    BY <1>1, <1>3
  <2>2. Tail(b)[k + 1] = b[k + 1 + 1]
    BY <1>1
  <2>3. ShownIn(e, Tail(b), k + 1, o, cell) <=>
          \/ Covers(Tail(b)[k + 1], o) /\ CellIn(Tail(b)[k + 1], o) = cell
          \/ ~ Covers(Tail(b)[k + 1], o) /\ ShownIn(e, Tail(b), k, o, cell)
    BY ShownNext
  <2>4. k + 1 \in Nat
    OBVIOUS
  <2>5. ShownIn(d, b, k + 1 + 1, o, cell) <=>
          \/ Covers(b[k + 1 + 1], o) /\ CellIn(b[k + 1 + 1], o) = cell
          \/ ~ Covers(b[k + 1 + 1], o) /\ ShownIn(d, b, k + 1, o, cell)
    BY <2>4, ShownNext
  <2> HIDE DEF S
  <2> QED BY <2>1, <2>2, <2>3, <2>5
<1> HIDE DEF S
<1>4. \A k \in Nat : k \in S
  BY <1>2, <1>3, SubsetInduction, Zenon
<1>5. p \in S /\ p \in Nat /\ p <= Len(b) - 1
  BY <1>1, <1>4
<1> QED BY <1>5 DEF S

-----------------------------------------------------------------------------
(* Which cells the writer ever puts at an offset. *)
OfHeader(o, cell) ==
  \/ o = 0 /\ cell = HeaderCell(layout)
  \/ o = 1 /\ cell = PathCell(FALSE)
  \/ TableStart <= o /\ o < TableEnd /\ cell = Zero
OfEntry(o, cell) ==
  \E i \in 1..Len(lookup_table) :
    \/ o = EntryOffset(i) /\ cell = EntryHead(lookup_table[i])
    \/ o = EntryOffset(i) + 1 /\ cell = EntryTail(lookup_table[i])
OfBlock(o, cell) ==
  \E p \in Places : Within(layout, p, o) /\ cell = CellsOf(layout, p)[o - p.at + 1]
Loose(o, cell) ==
  \/ o = 1 /\ cell = PathCell(TRUE)
  \/ /\ TableEnd <= o /\ o < current_offset /\ cell = Zero
     /\ \A p \in Places : ~ Within(layout, p, o)
Fixed(o, cell) == OfEntry(o, cell) \/ OfBlock(o, cell)
Allowed(o, cell) == OfHeader(o, cell) \/ Fixed(o, cell) \/ Loose(o, cell)

(* The header's cells lie before the table's end. *)
LEMMA HeaderOffsets ==
  ASSUME NEW o, NEW cell, OfHeader(o, cell)
  PROVE  o = 0 \/ o = 1 \/ o < TableEnd
  BY Zenon DEF OfHeader

(* Finalize's path is in the header, padding beyond the table and outside   *)
(* every block.                                                             *)
LEMMA LooseOffsets ==
  ASSUME NEW o, NEW cell, Loose(o, cell)
  PROVE  \/ o = 1
         \/ /\ TableEnd <= o /\ o < current_offset /\ cell = Zero
            /\ \A p \in Places : ~ Within(layout, p, o)
  BY Zenon DEF Loose

(* The table ends behind the header. *)
LEMMA TableEndBounds == TableEnd \in Nat /\ TableEnd >= 4
<1>1. TableEnd = 2 + 2 * NumClusters /\ NumClusters \in Nat \ {0}
  BY Offsets
<1> QED BY <1>1

(* The cells of an entry lie in the table. *)
LEMMA EntryCells ==
  ASSUME WriterInv, NEW o, NEW cell, OfEntry(o, cell)
  PROVE  2 <= o /\ o < TableEnd /\ o \in Nat
<1>1. PICK i \in 1..Len(lookup_table) : o = EntryOffset(i) \/ o = EntryOffset(i) + 1
  BY DEF OfEntry
<1>2. i \in Nat /\ 1 <= i /\ i <= NumClusters
  <2>1. Len(lookup_table) \in Nat /\ Len(lookup_table) <= NumClusters
    BY WriterNumbers DEF WriterInv, TableInv
  <2> HIDE DEF WriterInv
  <2> QED BY <2>1, Offsets
<1>3. EntryOffset(i) = 2 * i
  BY <1>2, Offsets
<1>4. TableEnd = 2 + 2 * NumClusters /\ NumClusters \in Nat
  BY Offsets
<1>5. o \in Nat
  BY <1>1, <1>2, <1>3
<1>6. o >= 2 * i /\ o <= 2 * i + 1
  BY <1>1, <1>2, <1>3
<1> QED BY <1>2, <1>4, <1>5, <1>6

(* At an offset of a block only the block's cell is allowed ... *)
LEMMA BlockCellsOnce ==
  ASSUME WriterInv, NEW o \in Nat, NEW a, NEW b, OfBlock(o, a), Allowed(o, b)
  PROVE  a = b
<1>1. PICK p \in Places : Within(layout, p, o) /\ a = CellsOf(layout, p)[o - p.at + 1]
  BY DEF OfBlock
<1>2. p \in PlaceSet /\ FirstBlock <= p.at /\ p.at \in Nat
  BY PlacesApart
<1>3. o >= TableEnd /\ TableEnd >= 4 /\ TableEnd \in Nat
  BY <1>1, <1>2, Offsets, TableEndBounds DEF Within
<1>4. ~ OfHeader(o, b)
  BY <1>3, HeaderOffsets
<1>5. ~ OfEntry(o, b)
  BY <1>3, EntryCells, Offsets
<1>6. ~ Loose(o, b)
  BY <1>1, <1>3, LooseOffsets
<1>7. OfBlock(o, b)
  BY <1>4, <1>5, <1>6 DEF Allowed, Fixed
<1>8. PICK q \in Places : Within(layout, q, o) /\ b = CellsOf(layout, q)[o - q.at + 1]
  BY <1>7 DEF OfBlock
<1>9. p = q
  <2> SUFFICES ASSUME p # q PROVE FALSE
    OBVIOUS
  <2>1. PlaceEnd(layout, p) <= q.at \/ PlaceEnd(layout, q) <= p.at
    BY PlacesApart
  <2>2. q \in PlaceSet /\ q.at \in Nat
    BY PlacesApart
  <2>3. PlaceEnd(layout, p) \in Nat /\ PlaceEnd(layout, q) \in Nat
    <3>1. layout \in AllLayouts
      BY DEF WriterInv, WriterType
    <3> QED BY <1>2, <2>2, <3>1, PlaceShape
  <2> QED BY <1>1, <1>2, <1>8, <2>1, <2>2, <2>3 DEF Within
<1> QED BY <1>1, <1>8, <1>9

(* ... at one of an entry no other entry, block or padding ... *)
LEMMA EntryCellsOnce ==
  ASSUME WriterInv, NEW o \in Nat, NEW a, NEW b, OfEntry(o, a), Fixed(o, b) \/ Loose(o, b)
  PROVE  a = b
<1>1. 2 <= o /\ o < TableEnd
  BY EntryCells
<1>2. ~ Loose(o, b)
  BY <1>1, TableEndBounds, LooseOffsets
<1>3. ~ OfBlock(o, b)
  <2> SUFFICES ASSUME OfBlock(o, b) PROVE FALSE
    OBVIOUS
  <2>1. Allowed(o, a)
    BY DEF Allowed, Fixed
  <2>2. PICK p \in Places : Within(layout, p, o)
    BY DEF OfBlock
  <2>3. FirstBlock <= p.at /\ p.at \in Nat
    BY PlacesApart
  <2> QED BY <1>1, <2>2, <2>3, Offsets DEF Within
<1>4. OfEntry(o, b)
  BY <1>2, <1>3 DEF Fixed
<1>5. PICK i \in 1..Len(lookup_table) :
        \/ o = EntryOffset(i) /\ a = EntryHead(lookup_table[i])
        \/ o = EntryOffset(i) + 1 /\ a = EntryTail(lookup_table[i])
  BY DEF OfEntry
<1>6. PICK j \in 1..Len(lookup_table) :
        \/ o = EntryOffset(j) /\ b = EntryHead(lookup_table[j])
        \/ o = EntryOffset(j) + 1 /\ b = EntryTail(lookup_table[j])
  BY <1>4 DEF OfEntry
<1>7. i \in Nat \ {0} /\ j \in Nat \ {0}
  OBVIOUS
<1>8. EntryOffset(i) = 2 * i /\ EntryOffset(j) = 2 * j
  BY <1>7, Offsets
<1>9. i = j /\ (o = EntryOffset(i) => o # EntryOffset(j) + 1)
      /\ (o = EntryOffset(i) + 1 => o # EntryOffset(j))
  BY <1>5, <1>6, <1>7, <1>8
<1> QED BY <1>5, <1>6, <1>9

(* ... so a cell of an entry or a block is the only one a later write may   *)
(* bring.                                                                   *)
LEMMA FixedOnce ==
  ASSUME WriterInv, NEW o \in Nat, NEW a, NEW b, Fixed(o, a), Fixed(o, b) \/ Loose(o, b)
  PROVE  a = b
<1>1. CASE OfEntry(o, a)
  BY <1>1, EntryCellsOnce
<1>2. CASE OfBlock(o, a)
  <2>1. Allowed(o, b)
    BY DEF Allowed
  <2> QED BY <1>2, <2>1, BlockCellsOnce
<1> QED BY <1>1, <1>2 DEF Fixed

(* What was allowed stays allowed. *)
LEMMA StaysAllowed ==
  ASSUME WriterInv, Grows, NEW o \in Nat, NEW cell
  PROVE  /\ Fixed(o, cell) => Fixed(o, cell)'
         /\ Loose(o, cell) => Loose(o, cell)'
         /\ Allowed(o, cell) => Allowed(o, cell)'
<1>1. OfEntry(o, cell) => OfEntry(o, cell)'
  <2> SUFFICES ASSUME OfEntry(o, cell) PROVE OfEntry(o, cell)'
    OBVIOUS
  <2>1. PICK i \in 1..Len(lookup_table) :
        \/ o = EntryOffset(i) /\ cell = EntryHead(lookup_table[i])
        \/ o = EntryOffset(i) + 1 /\ cell = EntryTail(lookup_table[i])
    BY DEF OfEntry
  <2>2. i \in 1..Len(lookup_table') /\ lookup_table'[i] = lookup_table[i]
    BY DEF Grows
  <2> QED BY <2>1, <2>2 DEF OfEntry
<1>2. OfBlock(o, cell) => OfBlock(o, cell)'
  <2> SUFFICES ASSUME OfBlock(o, cell) PROVE OfBlock(o, cell)'
    OBVIOUS
  <2>1. PICK p \in Places : Within(layout, p, o) /\ cell = CellsOf(layout, p)[o - p.at + 1]
    BY DEF OfBlock
  <2>2. p \in Places' /\ layout' = layout
    BY <2>1 DEF Grows, Places
  <2> QED BY <2>1, <2>2 DEF OfBlock
<1>3. Loose(o, cell) => Loose(o, cell)'
  <2> SUFFICES ASSUME Loose(o, cell) PROVE Loose(o, cell)'
    OBVIOUS
  <2>1. CASE o = 1 /\ cell = PathCell(TRUE)
    BY <2>1 DEF Loose
  <2>2. CASE /\ TableEnd <= o /\ o < current_offset /\ cell = Zero
             /\ \A p \in Places : ~ Within(layout, p, o)
    <3>1. ASSUME NEW p \in Places' PROVE ~ Within(layout', p, o)
      <4>1. p \in PlaceSet /\ p.at \in Nat
        BY DEF Places, PlaceSet
      <4>2. CASE p \in Places
        BY <2>2, <4>2 DEF Grows
      <4>3. CASE current_offset <= p.at
        BY <2>2, <4>1, <4>3, WriterNumbers DEF Within
      <4> QED BY <4>1, <4>2, <4>3 DEF Grows
    <3>2. o < current_offset'
      BY <2>2, WriterNumbers DEF Grows
    <3> QED BY <2>2, <3>1, <3>2 DEF Loose
  <2> QED BY <2>1, <2>2 DEF Loose
<1>4. OfHeader(o, cell) => OfHeader(o, cell)'
  BY DEF OfHeader, Grows
<1> QED BY <1>1, <1>2, <1>3, <1>4 DEF Allowed, Fixed

-----------------------------------------------------------------------------
(* The stream: nothing else is on its way or on the disk. *)
StreamType ==
  /\ buffered \in Seq(ChunkSet) /\ DOMAIN disk \subseteq Nat
  /\ lost \in Whats \cup {"none"}
DiskInv == \A o \in DOMAIN disk : Allowed(o, disk[o])
BufferInv ==
  \A q \in 1..Len(buffered) : \A o \in Nat :
    Covers(buffered[q], o) => Allowed(o, CellIn(buffered[q], o))
ModeInv ==
  /\ lost # "none" => buffered = << >>
  /\ buffered # << >> => writer \in {"open", "finalizing", "failed"}
  /\ writer = "closed" => disk = << >> /\ lost = "none"
  /\ writer \in {"closed", "open"} =>
       lost # "path" /\ \A q \in 1..Len(buffered) : buffered[q].what # "path"
  /\ \A q, r \in 1..Len(buffered) :
       q < r /\ buffered[q].what = "path" => buffered[r].what = "path"
  /\ writer = "finalized" => buffered = << >> /\ lost \in {"none", "path"}
StreamInv == StreamType /\ DiskInv /\ BufferInv /\ ModeInv

(* After any number of the buffered writes an entry that names its block is *)
(* whole, and so is the block.                                              *)
HeadShown(p, i) == Shown(p, EntryOffset(i), EntryHead(lookup_table[i]))
TailShown(p, i) == Shown(p, EntryOffset(i) + 1, EntryTail(lookup_table[i]))
BlockShown(p, place) ==
  \A j \in 1..Len(CellsOf(layout, place)) :
    Shown(p, place.at + j - 1, CellsOf(layout, place)[j])
Published(p, i) == HeadShown(p, i) /\ BlockShown(p, EntryPlace(lookup_table[i]))
PublishInv ==
  \A p \in 0..Len(buffered) : \A i \in 1..Len(lookup_table) :
    TailShown(p, i) => Published(p, i)

(* After all of them, the path of Finalize left out, nothing is missing     *)
(* while no write has failed.                                               *)
Written(p, o) == o \in DOMAIN disk \/ \E q \in 1..p : Covers(buffered[q], o)
OwnShown(p) ==
  \A j \in 1..(current_offset - cluster.block_start) :
    Shown(p, cluster.block_start + j - 1, CellsOf(layout, OwnPlace)[j])
KeptAt(p) ==
  /\ \A o \in 0..(TableEnd - 1) : Written(p, o)
  /\ \A i \in 1..Len(lookup_table) : TailShown(p, i) /\ Published(p, i)
  /\ Active => OwnShown(p)
KeptInv ==
  writer \in {"open", "finalizing", "finalized"} /\ lost \in {"none", "path"} =>
    \A p \in 0..Len(buffered) :
      (\A q \in (p + 1)..Len(buffered) : buffered[q].what = "path") => KeptAt(p)

-----------------------------------------------------------------------------
(* The parts of a buffered write. *)
LEMMA ChunkShape ==
  ASSUME NEW c \in ChunkSet
  PROVE  c.at \in Nat /\ c.cells \in Seq(CellSet) /\ Len(c.cells) \in Nat /\ c.what \in Whats
<1>1. c.at \in Nat /\ c.cells \in Seq(CellSet) /\ c.what \in Whats
  BY DEF ChunkSet
<1> QED BY <1>1, LenProperties

(* The parts of the stream's state. *)
LEMMA StreamNumbers ==
  ASSUME StreamInv
  PROVE  /\ buffered \in Seq(ChunkSet) /\ Len(buffered) \in Nat /\ DOMAIN disk \subseteq Nat
         /\ \A q \in 1..Len(buffered) : buffered[q] \in ChunkSet
<1>1. buffered \in Seq(ChunkSet) /\ DOMAIN disk \subseteq Nat
  BY DEF StreamInv, StreamType
<1> QED BY <1>1, LenProperties, ElementOfSeq

(* Steps that write nothing. *)
LEMMA StreamStands ==
  ASSUME WriterInv, StreamInv, Grows, UNCHANGED streamVars, ModeInv'
  PROVE  StreamInv'
<1>1. disk' = disk /\ buffered' = buffered /\ lost' = lost
  BY DEF streamVars
<1>2. StreamType'
  BY <1>1 DEF StreamInv, StreamType
<1>3. DiskInv'
  <2> SUFFICES ASSUME NEW o \in DOMAIN disk PROVE Allowed(o, disk[o])'
    BY <1>1 DEF DiskInv
  <2>1. o \in Nat /\ Allowed(o, disk[o])
    BY DEF StreamInv, StreamType, DiskInv
  <2> QED BY <1>1, <2>1, StaysAllowed
<1>4. BufferInv'
  <2> SUFFICES ASSUME NEW q \in 1..Len(buffered), NEW o \in Nat, Covers(buffered[q], o)
               PROVE  Allowed(o, CellIn(buffered[q], o))'
    BY <1>1 DEF BufferInv
  <2>1. Allowed(o, CellIn(buffered[q], o))
    BY DEF StreamInv, BufferInv
  <2> DEFINE cell == CellIn(buffered[q], o)
  <2>2. cell' = cell
    BY <1>1
  <2> HIDE DEF cell
  <2>3. Allowed(o, cell)'
    <3> DEFINE x == cell
    <3>1. ASSUME NEW y, Allowed(o, y) PROVE Allowed(o, y)'
      BY <3>1, StaysAllowed
    <3> QED BY <2>1, <2>2, <3>1 DEF cell
  <2> QED BY <2>3 DEF cell
<1> QED BY <1>2, <1>3, <1>4 DEF StreamInv

(* Flush hands the oldest write to the kernel. *)
LEMMA FlushMoves ==
  ASSUME StreamInv, Flush
  PROVE  /\ buffered # << >> /\ buffered' = Tail(buffered) /\ lost' = lost
         /\ Len(buffered') = Len(buffered) - 1 /\ Len(buffered') \in Nat /\ Len(buffered) \in Nat
         /\ buffered' \in Seq(ChunkSet)
         /\ \A q \in 1..Len(buffered') : q + 1 \in 1..Len(buffered) /\ buffered'[q] = buffered[q + 1]
         /\ 1 \in 1..Len(buffered)
         /\ \A o \in Nat : (o \in DOMAIN disk') <=> (o \in DOMAIN disk \/ Covers(buffered[1], o))
         /\ DOMAIN disk' \subseteq Nat
         /\ \A o \in DOMAIN disk' :
              disk'[o] = IF Covers(buffered[1], o) THEN CellIn(buffered[1], o) ELSE disk[o]
<1> DEFINE c == buffered[1]
           last == c.at + Len(c.cells) - 1
<1>1. /\ buffered # << >> /\ buffered' = Tail(buffered) /\ lost' = lost
      /\ disk' = Applied(Head(buffered))
  BY DEF Flush
<1>2. buffered \in Seq(ChunkSet) /\ Len(buffered) \in Nat /\ DOMAIN disk \subseteq Nat
  BY StreamNumbers
<1>3. /\ Len(buffered') = Len(buffered) - 1 /\ buffered' \in Seq(ChunkSet)
      /\ \A q \in 1..Len(buffered') : buffered'[q] = buffered[q + 1]
      /\ Len(buffered) >= 1 /\ Head(buffered) = c
  BY <1>1, <1>2, EmptySeq, HeadTailProperties
<1>4. c \in ChunkSet
  <2>1. 1 \in 1..Len(buffered)
    BY <1>2, <1>3
  <2> QED BY <1>2, <2>1, ElementOfSeq
<1>5. c.at \in Nat /\ Len(c.cells) \in Nat
  BY <1>4, ChunkShape
<1> HIDE DEF c
<1>6. disk' = [o \in DOMAIN disk \cup c.at..last |->
                 IF o \in c.at..last THEN c.cells[o - c.at + 1] ELSE disk[o]]
  BY <1>1, <1>3 DEF Applied
<1>7. \A o \in Nat : o \in c.at..last <=> Covers(c, o)
  BY <1>5 DEF Covers
<1>8. c.at..last \subseteq Nat
  BY <1>5
<1> HIDE DEF last
<1>9. DOMAIN disk' = DOMAIN disk \cup c.at..last
  BY <1>6
<1>10. \A o \in DOMAIN disk' :
         disk'[o] = IF Covers(c, o) THEN CellIn(c, o) ELSE disk[o]
  <2> SUFFICES ASSUME NEW o \in DOMAIN disk'
               PROVE  disk'[o] = IF Covers(c, o) THEN CellIn(c, o) ELSE disk[o]
    OBVIOUS
  <2>1. o \in Nat /\ (o \in c.at..last <=> Covers(c, o))
    BY <1>2, <1>7, <1>8, <1>9
  <2>2. disk'[o] = IF o \in c.at..last THEN c.cells[o - c.at + 1] ELSE disk[o]
    BY <1>6, <1>9
  <2> QED BY <2>1, <2>2 DEF CellIn
<1>11. \A q \in 1..Len(buffered') : q + 1 \in 1..Len(buffered)
  BY <1>2, <1>3
<1>12. Len(buffered') \in Nat /\ 1 \in 1..Len(buffered)
  BY <1>2, <1>3
<1> QED BY <1>1, <1>2, <1>3, <1>7, <1>8, <1>9, <1>10, <1>11, <1>12 DEF c

(* After Flush, p writes show what p + 1 did. *)
LEMMA FlushShows ==
  ASSUME StreamInv, Flush, NEW p \in 0..Len(buffered'), NEW o \in Nat, NEW cell
  PROVE  Shown(p, o, cell)' <=> Shown(p + 1, o, cell)
<1>1. /\ buffered # << >> /\ buffered' = Tail(buffered)
      /\ Len(buffered') = Len(buffered) - 1
      /\ \A x \in Nat : (x \in DOMAIN disk') <=> (x \in DOMAIN disk \/ Covers(buffered[1], x))
      /\ \A x \in DOMAIN disk' :
           disk'[x] = IF Covers(buffered[1], x) THEN CellIn(buffered[1], x) ELSE disk[x]
  BY FlushMoves
<1>2. buffered \in Seq(ChunkSet)
  BY StreamNumbers
<1>3. p \in 0..(Len(buffered) - 1)
  BY <1>1
<1>4. ShownIn(disk', Tail(buffered), p, o, cell) <=> ShownIn(disk, buffered, p + 1, o, cell)
  BY <1>1, <1>2, <1>3, ShownFlushed
<1> QED BY <1>1, <1>4 DEF Shown

(* Flush keeps the stream's invariant. *)
LEMMA StreamFlush ==
  ASSUME WriterInv, StreamInv, Flush
  PROVE  StreamInv'
<1>1. /\ buffered # << >> /\ lost' = lost
      /\ buffered' \in Seq(ChunkSet)
      /\ \A q \in 1..Len(buffered') : q + 1 \in 1..Len(buffered) /\ buffered'[q] = buffered[q + 1]
      /\ 1 \in 1..Len(buffered)
      /\ \A o \in Nat : (o \in DOMAIN disk') <=> (o \in DOMAIN disk \/ Covers(buffered[1], o))
      /\ DOMAIN disk' \subseteq Nat
      /\ \A o \in DOMAIN disk' :
           disk'[o] = IF Covers(buffered[1], o) THEN CellIn(buffered[1], o) ELSE disk[o]
  BY FlushMoves
<1>2. /\ writer' = writer /\ layout' = layout /\ current_offset' = current_offset
      /\ lookup_table' = lookup_table /\ cluster' = cluster
  BY DEF Flush, writerVars
<1>3. ASSUME NEW o, NEW cell PROVE Allowed(o, cell)' <=> Allowed(o, cell)
  BY <1>2 DEF Allowed, OfHeader, Fixed, Loose, OfEntry, OfBlock, Places, Active, OwnPlace
<1>4. StreamType'
  BY <1>1 DEF StreamInv, StreamType
<1>5. DiskInv'
  <2> SUFFICES ASSUME NEW o \in DOMAIN disk' PROVE Allowed(o, disk[o])'
    BY DEF DiskInv
  <2>1. o \in Nat
    BY <1>1
  <2>2. CASE Covers(buffered[1], o)
    <3>1. Allowed(o, CellIn(buffered[1], o))
      BY <1>1, <2>1, <2>2 DEF StreamInv, BufferInv
    <3>2. disk'[o] = CellIn(buffered[1], o)
      BY <1>1, <2>2
    <3> QED BY <1>3, <3>1, <3>2
  <2>3. CASE ~ Covers(buffered[1], o)
    <3>1. o \in DOMAIN disk /\ disk'[o] = disk[o]
      BY <1>1, <2>1, <2>3
    <3>2. Allowed(o, disk[o])
      BY <3>1 DEF StreamInv, DiskInv
    <3> QED BY <1>3, <3>1, <3>2
  <2> QED BY <2>2, <2>3
<1>6. BufferInv'
  <2> SUFFICES ASSUME NEW q \in 1..Len(buffered'), NEW o \in Nat, Covers(buffered[q], o)'
               PROVE  Allowed(o, CellIn(buffered[q], o))'
    BY DEF BufferInv
  <2>1. q + 1 \in 1..Len(buffered) /\ buffered'[q] = buffered[q + 1]
    BY <1>1
  <2>2. Allowed(o, CellIn(buffered[q + 1], o))
    <3>1. Covers(buffered[q + 1], o)
      BY <2>1 DEF Covers
    <3> QED BY <2>1, <3>1 DEF StreamInv, BufferInv
  <2>3. CellIn(buffered'[q], o) = CellIn(buffered[q + 1], o)
    BY <2>1
  <2>4. CellIn(buffered[q], o)' = CellIn(buffered'[q], o)
    BY DEF CellIn
  <2> QED BY <1>3, <2>2, <2>3, <2>4
<1>7. ModeInv'
  <2>1. /\ lost = "none" /\ writer \in {"open", "finalizing", "failed"}
        /\ writer = "open" => \A q \in 1..Len(buffered) : buffered[q].what # "path"
        /\ \A q, r \in 1..Len(buffered) :
             q < r /\ buffered[q].what = "path" => buffered[r].what = "path"
    BY <1>1 DEF StreamInv, ModeInv
  <2>2. writer = "open" => \A q \in 1..Len(buffered') : buffered'[q].what # "path"
    BY <1>1, <2>1
  <2>3. \A q, r \in 1..Len(buffered') :
             q < r /\ buffered'[q].what = "path" => buffered'[r].what = "path"
    <3> SUFFICES ASSUME NEW q \in 1..Len(buffered'), NEW r \in 1..Len(buffered'),
                        q < r, buffered'[q].what = "path"
                 PROVE  buffered'[r].what = "path"
      OBVIOUS
    <3>1. q + 1 < r + 1
      OBVIOUS
    <3> QED BY <1>1, <2>1, <3>1
  <2> QED BY <1>1, <1>2, <2>1, <2>2, <2>3 DEF ModeInv
<1> QED BY <1>4, <1>5, <1>6, <1>7 DEF StreamInv

-----------------------------------------------------------------------------
(* A write that fails, or a crash: what was buffered is gone. *)
LEMMA StreamDrops ==
  ASSUME WriterInv, StreamInv, Grows, disk' = disk, buffered' = << >>,
         lost' \in Whats \cup {"none"}, ModeInv'
  PROVE  StreamInv'
<1>1. StreamType' /\ BufferInv'
  <2>1. Len(buffered') = 0
    OBVIOUS
  <2> QED BY <2>1 DEF StreamInv, StreamType, BufferInv
<1>2. DiskInv'
  <2> SUFFICES ASSUME NEW o \in DOMAIN disk PROVE Allowed(o, disk[o])'
    BY DEF DiskInv
  <2>1. o \in Nat /\ Allowed(o, disk[o])
    BY DEF StreamInv, StreamType, DiskInv
  <2> QED BY <2>1, StaysAllowed
<1> QED BY <1>1, <1>2 DEF StreamInv

(* A write that fails leaves nothing buffered and says so in lost. *)
LEMMA FlushFailsMode ==
  ASSUME StreamInv, FlushFails
  PROVE  /\ disk' = disk /\ buffered' = << >> /\ 1 \in 1..Len(buffered)
         /\ lost' = buffered[1].what /\ lost' \in Whats /\ lost = "none"
         /\ writer \in {"open", "finalizing", "failed"}
         /\ UNCHANGED writerVars
         /\ ModeInv'
<1>1. /\ buffered # << >> /\ disk' = disk /\ buffered' = << >> /\ lost' = Head(buffered).what
      /\ UNCHANGED writerVars /\ writer' = writer
  BY DEF FlushFails, writerVars
<1>2. buffered \in Seq(ChunkSet) /\ Len(buffered) \in Nat
  BY StreamNumbers
<1>3. 1 \in 1..Len(buffered) /\ Head(buffered) = buffered[1]
  BY <1>1, <1>2, EmptySeq, HeadTailProperties
<1>4. buffered[1].what \in Whats
  <2>1. buffered[1] \in ChunkSet
    BY <1>2, <1>3, ElementOfSeq
  <2> QED BY <2>1, ChunkShape
<1>5. /\ lost = "none" /\ writer \in {"open", "finalizing", "failed"}
      /\ writer = "open" => buffered[1].what # "path"
  BY <1>1, <1>3 DEF StreamInv, ModeInv
<1>6. ModeInv'
  <2>1. Len(buffered') = 0
    BY <1>1
  <2> QED BY <1>1, <1>3, <1>5, <2>1 DEF ModeInv
<1> QED BY <1>1, <1>3, <1>4, <1>5, <1>6

(* A crash leaves nothing buffered and the writer failed. *)
LEMMA CrashMode ==
  ASSUME StreamInv, Crash
  PROVE  /\ disk' = disk /\ buffered' = << >> /\ lost' = lost /\ lost' \in Whats \cup {"none"}
         /\ writer' = "failed" /\ writer # "closed"
         /\ UNCHANGED <<layout, current_offset, lookup_table, cluster>>
         /\ ModeInv'
<1>1. /\ disk' = disk /\ buffered' = << >> /\ lost' = lost /\ writer' = "failed"
      /\ writer # "closed"
      /\ UNCHANGED <<layout, current_offset, lookup_table, cluster>>
  BY DEF Crash
<1>2. Len(buffered') = 0
  BY <1>1
<1>3. ModeInv'
  BY <1>1, <1>2 DEF ModeInv
<1>4. lost \in Whats \cup {"none"}
  BY DEF StreamInv, StreamType
<1> QED BY <1>1, <1>3, <1>4
-----------------------------------------------------------------------------
(* Writing adds to the end of what is buffered, or does nothing. *)
LEMMA WriteAdds ==
  ASSUME StreamInv, NEW chunks \in Seq(ChunkSet), Write(chunks)
  PROVE  /\ disk' = disk /\ lost' = lost
         /\ lost # "none" => buffered' = buffered
         /\ buffered' \in Seq(ChunkSet) /\ Len(buffered') \in Nat /\ Len(buffered) \in Nat
         /\ lost = "none" =>
              /\ buffered' = buffered \o chunks
              /\ Len(buffered') = Len(buffered) + Len(chunks) /\ Len(chunks) \in Nat
              /\ \A j \in 1..Len(chunks) : buffered'[Len(buffered) + j] = chunks[j]
         /\ Len(buffered) <= Len(buffered')
         /\ \A q \in 1..Len(buffered) : buffered'[q] = buffered[q]
<1>1. disk' = disk /\ lost' = lost
      /\ buffered' = IF lost = "none" THEN buffered \o chunks ELSE buffered
  BY DEF Write
<1>2. buffered \in Seq(ChunkSet) /\ Len(buffered) \in Nat
  BY StreamNumbers
<1>3. CASE lost # "none"
  BY <1>1, <1>2, <1>3
<1>4. CASE lost = "none"
  <2> DEFINE all == buffered \o chunks
  <2>1. /\ all \in Seq(ChunkSet) /\ Len(chunks) \in Nat
        /\ Len(all) = Len(buffered) + Len(chunks)
        /\ \A q \in 1..Len(buffered) : all[q] = buffered[q]
        /\ \A j \in 1..Len(chunks) : all[Len(buffered) + j] = chunks[j]
    BY <1>2, ConcatElements
  <2>2. buffered' = all
    BY <1>1, <1>4
  <2> HIDE DEF all
  <2>3. Len(buffered') \in Nat /\ Len(buffered) <= Len(buffered')
    BY <1>2, <2>1, <2>2
  <2> QED BY <1>1, <1>2, <1>4, <2>1, <2>2, <2>3 DEF all
<1> QED BY <1>3, <1>4

(* A call that writes only what is allowed keeps the stream's invariant. *)
LEMMA StreamWrites ==
  ASSUME WriterInv, StreamInv, Grows, NEW chunks \in Seq(ChunkSet), Write(chunks),
         writer = "open",
         writer' = "open" \/ writer' = "finalizing",
         \A j \in 1..Len(chunks) : \A o \in Nat :
           Covers(chunks[j], o) => Allowed(o, CellIn(chunks[j], o))',
         \A j \in 1..Len(chunks) :
           chunks[j].what = "path" => writer' = "finalizing" /\ j = Len(chunks)
  PROVE  StreamInv'
<1>1. /\ disk' = disk /\ lost' = lost
      /\ lost # "none" => buffered' = buffered
      /\ buffered' \in Seq(ChunkSet) /\ Len(buffered') \in Nat /\ Len(buffered) \in Nat
      /\ Len(buffered) <= Len(buffered')
      /\ \A q \in 1..Len(buffered) : buffered'[q] = buffered[q]
  BY WriteAdds
<1>2. lost = "none" =>
        /\ Len(buffered') = Len(buffered) + Len(chunks) /\ Len(chunks) \in Nat
        /\ \A j \in 1..Len(chunks) : buffered'[Len(buffered) + j] = chunks[j]
  BY WriteAdds
<1>3. StreamType'
  BY <1>1 DEF StreamInv, StreamType
<1>4. DiskInv'
  <2> SUFFICES ASSUME NEW o \in DOMAIN disk PROVE Allowed(o, disk[o])'
    BY <1>1 DEF DiskInv
  <2>1. o \in Nat /\ Allowed(o, disk[o])
    BY DEF StreamInv, StreamType, DiskInv
  <2> QED BY <1>1, <2>1, StaysAllowed
<1>5. ASSUME NEW q \in 1..Len(buffered')
      PROVE  \/ q \in 1..Len(buffered)
             \/ /\ lost = "none" /\ q - Len(buffered) \in 1..Len(chunks)
                /\ buffered'[q] = chunks[q - Len(buffered)]
  <2>1. CASE lost # "none"
    BY <1>1, <2>1
  <2>2. CASE lost = "none" /\ q \notin 1..Len(buffered)
    <3>1. q - Len(buffered) \in 1..Len(chunks) /\ Len(buffered) + (q - Len(buffered)) = q
      BY <1>1, <1>2, <2>2
    <3>2. buffered'[Len(buffered) + (q - Len(buffered))] = chunks[q - Len(buffered)]
      BY <1>2, <2>2, <3>1
    <3> QED BY <2>2, <3>1, <3>2
  <2> QED BY <2>1, <2>2
<1>6. BufferInv'
  <2> SUFFICES ASSUME NEW q \in 1..Len(buffered'), NEW o \in Nat, Covers(buffered[q], o)'
               PROVE  Allowed(o, CellIn(buffered[q], o))'
    BY DEF BufferInv
  <2>0. CellIn(buffered[q], o)' = CellIn(buffered'[q], o) /\ Covers(buffered'[q], o)
    BY DEF CellIn, Covers
  <2>1. CASE q \in 1..Len(buffered)
    <3>1. buffered'[q] = buffered[q]
      BY <1>1, <2>1
    <3>2. Covers(buffered[q], o)
      BY <2>0, <3>1
    <3>3. Allowed(o, CellIn(buffered[q], o))
      BY <2>1, <3>2 DEF StreamInv, BufferInv
    <3>4. CellIn(buffered[q], o)' = CellIn(buffered[q], o)
      BY <2>0, <3>1
    <3> QED BY <3>3, <3>4, StaysAllowed
  <2>2. CASE q - Len(buffered) \in 1..Len(chunks) /\ buffered'[q] = chunks[q - Len(buffered)]
    <3>1. PICK j \in 1..Len(chunks) : buffered'[q] = chunks[j]
      BY <2>2
    <3>2. Covers(chunks[j], o) /\ CellIn(buffered[q], o)' = CellIn(chunks[j], o)
      BY <2>0, <3>1
    <3>3. Allowed(o, CellIn(chunks[j], o))'
      BY <3>2
    <3> QED BY <3>2, <3>3
  <2> QED BY <1>5, <2>1, <2>2
<1>7. ModeInv'
  <2>1. /\ lost # "none" => buffered = << >>
        /\ lost # "path" /\ \A q \in 1..Len(buffered) : buffered[q].what # "path"
    BY DEF StreamInv, ModeInv
  <2>2. ASSUME NEW q \in 1..Len(buffered'), buffered'[q].what = "path"
        PROVE  writer' = "finalizing" /\ q = Len(buffered')
    <3>1. CASE q \in 1..Len(buffered)
      BY <1>1, <2>1, <2>2, <3>1
    <3>2. CASE /\ lost = "none" /\ q - Len(buffered) \in 1..Len(chunks)
               /\ buffered'[q] = chunks[q - Len(buffered)]
      <4>1. writer' = "finalizing" /\ q - Len(buffered) = Len(chunks)
        BY <2>2, <3>2
      <4> QED BY <1>1, <1>2, <3>2, <4>1
    <3> QED BY <1>5, <3>1, <3>2
  <2>3. ASSUME NEW q \in 1..Len(buffered'), NEW r \in 1..Len(buffered'), q < r,
               buffered'[q].what = "path"
        PROVE  buffered'[r].what = "path"
    <3>1. q = Len(buffered')
      BY <2>2, <2>3
    <3> QED BY <1>1, <2>3, <3>1
  <2> QED BY <1>1, <2>1, <2>2, <2>3 DEF ModeInv
<1> QED BY <1>3, <1>4, <1>6, <1>7 DEF StreamInv

-----------------------------------------------------------------------------
(* Where the next state shows what this one does, the entries and blocks    *)
(* shown are the same.                                                      *)
LEMMA SameShown ==
  ASSUME WriterInv, NEW p, NEW q,
         \A o \in Nat : \A cell : Shown(p, o, cell)' <=> Shown(q, o, cell),
         layout' = layout, NEW i \in 1..Len(lookup_table), lookup_table'[i] = lookup_table[i]
  PROVE  /\ TailShown(p, i)' <=> TailShown(q, i)
         /\ Published(p, i)' <=> Published(q, i)
<1>1. EntryOffset(i) \in Nat /\ EntryOffset(i) + 1 \in Nat
  <2>1. i \in Nat \ {0}
    BY WriterNumbers
  <2>2. EntryOffset(i) \in Nat
    BY <2>1, Offsets
  <2> QED BY <2>2
<1>2. TailShown(p, i)' <=> TailShown(q, i)
  <2> DEFINE cell == EntryTail(lookup_table[i])
  <2>1. TailShown(p, i)' <=> Shown(p, EntryOffset(i) + 1, cell)'
    BY DEF TailShown
  <2>2. cell' = cell
    OBVIOUS
  <2>3. Shown(p, EntryOffset(i) + 1, cell)' <=> Shown(q, EntryOffset(i) + 1, cell)
    <3> HIDE DEF cell
    <3> QED BY <1>1, <2>2
  <2> QED BY <2>1, <2>3 DEF TailShown
<1>3. HeadShown(p, i)' <=> HeadShown(q, i)
  <2> DEFINE cell == EntryHead(lookup_table[i])
  <2>1. HeadShown(p, i)' <=> Shown(p, EntryOffset(i), cell)'
    BY DEF HeadShown
  <2>2. cell' = cell
    OBVIOUS
  <2>3. Shown(p, EntryOffset(i), cell)' <=> Shown(q, EntryOffset(i), cell)
    <3> HIDE DEF cell
    <3> QED BY <1>1, <2>2
  <2> QED BY <2>1, <2>3 DEF HeadShown
<1>4. ASSUME NEW place \in PlaceSet
      PROVE  BlockShown(p, place)' <=> BlockShown(q, place)
  <2> DEFINE cells == CellsOf(layout, place)
  <2>1. Len(cells) \in Nat /\ place.at \in Nat
    <3>1. layout \in AllLayouts
      BY DEF WriterInv, WriterType
    <3> QED BY <3>1, PlaceShape
  <2>2. cells' = cells
    OBVIOUS
  <2> HIDE DEF cells
  <2>3. \A j \in 1..Len(cells) : place.at + j - 1 \in Nat
    BY <2>1
  <2>4. BlockShown(p, place)' <=> \A j \in 1..Len(cells) : Shown(p, place.at + j - 1, cells[j])'
    BY <2>2 DEF BlockShown, cells
  <2>5. BlockShown(q, place) <=> \A j \in 1..Len(cells) : Shown(q, place.at + j - 1, cells[j])
    BY DEF BlockShown, cells
  <2>6. ASSUME NEW j \in 1..Len(cells)
        PROVE  Shown(p, place.at + j - 1, cells[j])' <=> Shown(q, place.at + j - 1, cells[j])
    BY <2>2, <2>3
  <2> QED BY <2>4, <2>5, <2>6
<1>5. Published(p, i)' <=> Published(q, i)
  <2> DEFINE place == EntryPlace(lookup_table[i])
  <2>1. place \in PlaceSet
    BY EntryPlaces
  <2>2. Published(q, i) <=> HeadShown(q, i) /\ BlockShown(q, place)
    BY DEF Published
  <2>3. Published(p, i)' <=> HeadShown(p, i)' /\ BlockShown(p, place)'
    BY DEF Published
  <2>4. place' = place
    OBVIOUS
  <2> HIDE DEF place
  <2>5. BlockShown(p, place)' <=> BlockShown(q, place)
    BY <1>4, <2>1, <2>4
  <2> QED BY <1>3, <2>2, <2>3, <2>5
<1> QED BY <1>2, <1>5

(* The same of the block in progress. *)
LEMMA SameOwn ==
  ASSUME WriterInv, Active, NEW p, NEW q,
         \A o \in Nat : \A cell : Shown(p, o, cell)' <=> Shown(q, o, cell),
         UNCHANGED <<layout, current_offset, cluster>>
  PROVE  OwnShown(p)' <=> OwnShown(q)
<1> DEFINE cells == CellsOf(layout, OwnPlace)
           at == cluster.block_start
           m == current_offset - cluster.block_start
<1>1. at \in Nat /\ m \in Int
  <2>1. cluster \in ClusterSet
    BY OwnPlaces
  <2> QED BY <2>1, WriterNumbers DEF ClusterSet
<1>2. cells' = cells /\ at' = at /\ m' = m
  BY DEF OwnPlace
<1>3. OwnShown(q) <=> \A j \in 1..m : Shown(q, at + j - 1, cells[j])
  BY DEF OwnShown
<1>4. OwnShown(p)' <=> \A j \in 1..m : Shown(p, at + j - 1, cells[j])'
  BY DEF OwnShown, OwnPlace
<1> HIDE DEF cells, at, m
<1>5. ASSUME NEW j \in 1..m
      PROVE  Shown(p, at + j - 1, cells[j])' <=> Shown(q, at + j - 1, cells[j])
  <2>1. at + j - 1 \in Nat
    BY <1>1
  <2> QED BY <1>2, <2>1
<1> QED BY <1>3, <1>4, <1>5

(* A step that leaves the entries alone and after whose p-th write the file *)
(* is what it was after the q-th.                                           *)
LEMMA SameKept ==
  ASSUME WriterInv, NEW p \in Nat, NEW q \in Nat,
         \A o \in Nat : \A cell : Shown(p, o, cell)' <=> Shown(q, o, cell),
         \A o \in Nat : Written(q, o) => Written(p, o)',
         UNCHANGED <<layout, lookup_table>>,
         Active' => Active /\ UNCHANGED <<current_offset, cluster>>,
         KeptAt(q)
  PROVE  KeptAt(p)'
<1>1. \A o \in 0..(TableEnd - 1) : Written(p, o)'
  <2>1. \A o \in 0..(TableEnd - 1) : o \in Nat
    BY TableEndBounds
  <2> QED BY <2>1 DEF KeptAt
<1>2. ASSUME NEW i \in 1..Len(lookup_table) PROVE TailShown(p, i)' /\ Published(p, i)'
  <2>1. TailShown(q, i) /\ Published(q, i)
    BY DEF KeptAt
  <2> QED BY <2>1, SameShown
<1>3. Active' => OwnShown(p)'
  BY SameOwn DEF KeptAt
<1> QED BY <1>1, <1>2, <1>3 DEF KeptAt

(* Where an entry was whole it still is. *)
LEMMA SamePublished ==
  ASSUME WriterInv, NEW p, NEW q \in 0..Len(buffered),
         \A o \in Nat : \A cell : Shown(p, o, cell)' <=> Shown(q, o, cell),
         UNCHANGED layout, PublishInv,
         NEW i \in 1..Len(lookup_table), lookup_table'[i] = lookup_table[i]
  PROVE  TailShown(p, i)' => Published(p, i)'
<1>1. TailShown(q, i) => Published(q, i)
  BY DEF PublishInv
<1> QED BY <1>1, SameShown

(* A step that leaves disk and buffer shows what was shown, *)
LEMMA StandShows ==
  ASSUME UNCHANGED <<disk, buffered>>, NEW p
  PROVE  /\ \A o \in Nat : \A cell : Shown(p, o, cell)' <=> Shown(p, o, cell)
         /\ \A o \in Nat : Written(p, o)' <=> Written(p, o)
  BY DEF Shown, ShownIn, Written, Covers, CellIn

(* keeps every entry that shows whole, *)
LEMMA PublishStands ==
  ASSUME WriterInv, StreamInv, PublishInv, UNCHANGED <<disk, buffered, layout, lookup_table>>
  PROVE  PublishInv'
<1> SUFFICES ASSUME NEW p \in 0..Len(buffered), NEW i \in 1..Len(lookup_table)
             PROVE  TailShown(p, i)' => Published(p, i)'
  BY DEF PublishInv
<1>1. \A o \in Nat : \A cell : Shown(p, o, cell)' <=> Shown(p, o, cell)
  BY StandShows
<1> QED BY <1>1, SamePublished

(* and loses nothing. *)
LEMMA KeptStands ==
  ASSUME WriterInv, StreamInv, KeptInv, UNCHANGED <<disk, buffered, lost, layout, lookup_table>>,
         Active' => Active /\ UNCHANGED <<current_offset, cluster>>,
         writer' \in {"open", "finalizing", "finalized"} =>
           writer \in {"open", "finalizing", "finalized"}
  PROVE  KeptInv'
<1> SUFFICES ASSUME writer \in {"open", "finalizing", "finalized"}, lost \in {"none", "path"},
                    NEW p \in 0..Len(buffered),
                    \A q \in (p + 1)..Len(buffered) : buffered[q].what = "path"
             PROVE  KeptAt(p)'
  BY DEF KeptInv
<1>1. KeptAt(p) /\ p \in Nat
  BY StreamNumbers DEF KeptInv
<1>2. /\ \A o \in Nat : \A cell : Shown(p, o, cell)' <=> Shown(p, o, cell)
      /\ \A o \in Nat : Written(p, o) => Written(p, o)'
  BY StandShows
<1> QED BY <1>1, <1>2, SameKept

(* Flush neither tears an entry from its block nor loses a cell. *)
LEMMA FlushKeeps ==
  ASSUME WriterInv, StreamInv, PublishInv, KeptInv, Flush
  PROVE  PublishInv' /\ KeptInv'
<1>1. /\ Len(buffered') = Len(buffered) - 1 /\ Len(buffered') \in Nat /\ Len(buffered) \in Nat
      /\ \A q \in 1..Len(buffered') : q + 1 \in 1..Len(buffered) /\ buffered'[q] = buffered[q + 1]
      /\ \A o \in Nat : (o \in DOMAIN disk') <=> (o \in DOMAIN disk \/ Covers(buffered[1], o))
      /\ lost' = lost
  BY FlushMoves
<1>2. /\ writer' = writer /\ layout' = layout /\ current_offset' = current_offset
      /\ lookup_table' = lookup_table /\ cluster' = cluster
  BY DEF Flush, writerVars
<1>3. ASSUME NEW p \in 0..Len(buffered')
      PROVE  /\ p \in Nat /\ p + 1 \in Nat /\ p + 1 \in 0..Len(buffered)
             /\ \A o \in Nat : \A cell : Shown(p, o, cell)' <=> Shown(p + 1, o, cell)
  <2>1. p \in Nat /\ p + 1 \in Nat /\ p + 1 \in 0..Len(buffered)
    BY <1>1
  <2> QED BY <2>1, FlushShows
<1>4. ASSUME NEW p \in 0..Len(buffered'), NEW o \in Nat, Written(p + 1, o)
      PROVE  Written(p, o)'
  <2>1. CASE o \in DOMAIN disk
    BY <1>1, <2>1 DEF Written
  <2>2. CASE \E q \in 1..(p + 1) : Covers(buffered[q], o)
    <3>1. PICK q \in 1..(p + 1) : Covers(buffered[q], o)
      BY <2>2
    <3>2. CASE q = 1
      BY <1>1, <3>1, <3>2 DEF Written
    <3>3. CASE q # 1
      <4>1. q - 1 \in 1..p /\ q - 1 \in 1..Len(buffered') /\ (q - 1) + 1 = q
        BY <1>1, <3>3
      <4>2. buffered'[q - 1] = buffered[q]
        BY <1>1, <4>1
      <4>3. \E r \in 1..p : Covers(buffered'[r], o)
        BY <3>1, <4>1, <4>2
      <4> QED BY <4>3 DEF Written, Covers
    <3> QED BY <3>2, <3>3
  <2> QED BY <1>4, <2>1, <2>2 DEF Written
<1>5. PublishInv'
  <2> SUFFICES ASSUME NEW p \in 0..Len(buffered'), NEW i \in 1..Len(lookup_table)
               PROVE  TailShown(p, i)' => Published(p, i)'
    BY <1>2 DEF PublishInv
  <2> QED BY <1>2, <1>3, SamePublished
<1>6. KeptInv'
  <2> SUFFICES ASSUME writer \in {"open", "finalizing", "finalized"}, lost \in {"none", "path"},
                      NEW p \in 0..Len(buffered'),
                      \A q \in (p + 1)..Len(buffered') : buffered'[q].what = "path"
               PROVE  KeptAt(p)'
    BY <1>1, <1>2 DEF KeptInv
  <2>1. \A q \in (p + 1 + 1)..Len(buffered) : buffered[q].what = "path"
    <3> SUFFICES ASSUME NEW q \in (p + 1 + 1)..Len(buffered) PROVE buffered[q].what = "path"
      OBVIOUS
    <3>1. q - 1 \in (p + 1)..Len(buffered') /\ q - 1 \in 1..Len(buffered') /\ (q - 1) + 1 = q
      BY <1>1
    <3> QED BY <1>1, <3>1
  <2>2. KeptAt(p + 1)
    BY <1>3, <2>1 DEF KeptInv
  <2>3. Active' => Active
    BY <1>2 DEF Active
  <2>4. \A o \in Nat : Written(p + 1, o) => Written(p, o)'
    BY <1>4
  <2>5. p \in Nat /\ p + 1 \in Nat /\ \A o \in Nat : \A cell : Shown(p, o, cell)' <=> Shown(p + 1, o, cell)
    BY <1>3
  <2> QED BY <1>2, <2>2, <2>3, <2>4, <2>5, SameKept
<1> QED BY <1>5, <1>6

(* What is buffered is dropped. *)
LEMMA DropShows ==
  ASSUME disk' = disk
  PROVE  /\ \A o \in Nat : \A cell : Shown(0, o, cell)' <=> Shown(0, o, cell)
         /\ \A o \in Nat : Written(0, o) => Written(0, o)'
<1>1. ASSUME NEW o \in Nat, NEW cell PROVE Shown(0, o, cell)' <=> Shown(0, o, cell)
  BY DEF Shown, ShownIn
<1>2. ASSUME NEW o \in Nat, Written(0, o) PROVE Written(0, o)'
  BY <1>2 DEF Written
<1> QED BY <1>1, <1>2

(* Dropping the buffer leaves the entries on the disk whole. *)
LEMMA PublishDrops ==
  ASSUME WriterInv, StreamInv, PublishInv, disk' = disk, buffered' = << >>,
         UNCHANGED <<layout, lookup_table>>
  PROVE  PublishInv'
<1>1. Len(buffered') = 0 /\ 0 \in 0..Len(buffered)
  BY StreamNumbers
<1> SUFFICES ASSUME NEW i \in 1..Len(lookup_table) PROVE TailShown(0, i)' => Published(0, i)'
  BY <1>1 DEF PublishInv
<1>2. \A o \in Nat : \A cell : Shown(0, o, cell)' <=> Shown(0, o, cell)
  BY DropShows
<1> QED BY <1>1, <1>2, SamePublished

(* After a failed write only a lost path still lets Finalize succeed, and a *)
(* path is no part of what is kept.                                         *)
LEMMA KeptFails ==
  ASSUME WriterInv, StreamInv, KeptInv, FlushFails
  PROVE  KeptInv'
<1>1. /\ disk' = disk /\ buffered' = << >> /\ 1 \in 1..Len(buffered)
      /\ lost' = buffered[1].what /\ lost' \in Whats /\ lost = "none"
  BY FlushFailsMode
<1>2. /\ writer' = writer /\ layout' = layout /\ current_offset' = current_offset
      /\ lookup_table' = lookup_table /\ cluster' = cluster
  BY DEF FlushFails, writerVars
<1>3. Len(buffered') = 0 /\ 0 \in 0..Len(buffered)
  BY <1>1, StreamNumbers
<1> SUFFICES ASSUME writer \in {"open", "finalizing", "finalized"}, lost' \in {"none", "path"}
             PROVE  KeptAt(0)'
  BY <1>2, <1>3 DEF KeptInv
<1>4. buffered[1].what = "path"
  BY <1>1 DEF Whats
<1>5. \A q \in (0 + 1)..Len(buffered) : buffered[q].what = "path"
  <2> SUFFICES ASSUME NEW q \in 1..Len(buffered) PROVE buffered[q].what = "path"
    OBVIOUS
  <2>1. q = 1 \/ 1 < q
    OBVIOUS
  <2> QED BY <1>1, <1>4, <2>1 DEF StreamInv, ModeInv
<1>6. KeptAt(0)
  BY <1>1, <1>3, <1>5 DEF KeptInv
<1>7. Active' => Active
  BY <1>2 DEF Active
<1>8. /\ \A o \in Nat : \A cell : Shown(0, o, cell)' <=> Shown(0, o, cell)
      /\ \A o \in Nat : Written(0, o) => Written(0, o)'
  BY <1>1, DropShows
<1>9. 0 \in Nat
  OBVIOUS
<1> QED BY <1>2, <1>6, <1>7, <1>8, <1>9, SameKept

-----------------------------------------------------------------------------
(* Writes that put cells of entries and blocks in their place, or loose     *)
(* cells where none is.                                                     *)
Fit(c) ==
  \A o \in Nat : Covers(c, o) => Fixed(o, CellIn(c, o)) \/ Loose(o, CellIn(c, o))

(* FixedOnce as a formula of the state ... *)
LEMMA FixedAlways ==
  WriterInv => \A o \in Nat : \A a, b : Fixed(o, a) /\ (Fixed(o, b) \/ Loose(o, b)) => a = b
  BY FixedOnce

(* ... and of the next one. *)
LEMMA FixedNext ==
  (WriterInv => \A o \in Nat : \A a, b : Fixed(o, a) /\ (Fixed(o, b) \/ Loose(o, b)) => a = b)'
  BY FixedAlways, PTL

(* A call that writes changes nothing of what the earlier writes show. *)
LEMMA WriteShows ==
  ASSUME StreamInv, NEW chunks \in Seq(ChunkSet), Write(chunks), NEW p \in 0..Len(buffered)
  PROVE  /\ p \in Nat
         /\ \A o \in Nat : \A cell : Shown(p, o, cell)' <=> Shown(p, o, cell)
         /\ \A o \in Nat : Written(p, o) => Written(p, o)'
<1>1. /\ disk' = disk /\ \A q \in 1..Len(buffered) : buffered'[q] = buffered[q]
  BY WriteAdds
<1>2. Len(buffered) \in Nat
  BY StreamNumbers
<1>3. p \in Nat /\ \A q \in 1..p : buffered'[q] = buffered[q]
  BY <1>1, <1>2
<1>4. ASSUME NEW o \in Nat, NEW cell PROVE Shown(p, o, cell)' <=> Shown(p, o, cell)
  <2>1. ShownIn(disk, buffered', p, o, cell) <=> ShownIn(disk, buffered, p, o, cell)
    BY <1>3, ShownSame
  <2> QED BY <1>1, <2>1 DEF Shown
<1>5. ASSUME NEW o \in Nat, Written(p, o) PROVE Written(p, o)'
  BY <1>1, <1>3, <1>5 DEF Written, Covers
<1> QED BY <1>3, <1>4, <1>5

(* ShownNext in the state after a step. *)
LEMMA LaterShows ==
  ASSUME NEW p \in Nat, NEW o, NEW cell
  PROVE  Shown(p + 1, o, cell)' <=>
           \/ Covers(buffered'[p + 1], o) /\ CellIn(buffered'[p + 1], o) = cell
           \/ ~ Covers(buffered'[p + 1], o) /\ Shown(p, o, cell)'
<1>1. ShownIn(disk', buffered', p + 1, o, cell) <=>
           \/ Covers(buffered'[p + 1], o) /\ CellIn(buffered'[p + 1], o) = cell
           \/ ~ Covers(buffered'[p + 1], o) /\ ShownIn(disk', buffered', p, o, cell)
  BY ShownNext
<1> QED BY <1>1 DEF Shown

(* A cell of an entry or a block, once shown, is shown after every later    *)
(* write.                                                                   *)
LEMMA WriteStays ==
  ASSUME StreamInv, WriterInv', NEW chunks \in Seq(ChunkSet), Write(chunks), lost = "none",
         \A j \in 1..Len(chunks) : Fit(chunks[j])',
         NEW q \in Len(buffered)..Len(buffered'), NEW o \in Nat, NEW cell,
         Fixed(o, cell)', Shown(q, o, cell)'
  PROVE  \A p \in q..Len(buffered') : Shown(p, o, cell)'
<1>1. /\ Len(buffered) \in Nat /\ Len(buffered') \in Nat /\ Len(chunks) \in Nat
      /\ Len(buffered') = Len(buffered) + Len(chunks)
      /\ \A j \in 1..Len(chunks) : buffered'[Len(buffered) + j] = chunks[j]
  BY WriteAdds
<1>2. q \in Nat
  BY <1>1
<1> DEFINE S == {k \in Nat : q + k <= Len(buffered') => Shown(q + k, o, cell)'}
<1>3. 0 \in S
  <2>1. q + 0 = q
    BY <1>2
  <2>2. Shown(q + 0, o, cell)'
    BY <2>1
  <2> QED BY <2>2
<1>4. ASSUME NEW k \in Nat, k \in S PROVE k + 1 \in S
  <2> SUFFICES ASSUME q + (k + 1) <= Len(buffered') PROVE Shown(q + (k + 1), o, cell)'
    OBVIOUS
  <2>1. Shown(q + k, o, cell)'
    BY <1>1, <1>2, <1>4
  <2>2. PICK j \in 1..Len(chunks) : q + k + 1 = Len(buffered) + j
    <3> DEFINE j == q + k + 1 - Len(buffered)
    <3>1. j \in 1..Len(chunks) /\ q + k + 1 = Len(buffered) + j
      BY <1>1, <1>2
    <3> QED BY <3>1
  <2>3. buffered'[q + k + 1] = chunks[j]
    BY <1>1, <2>2
  <2>4. q + k \in Nat /\ q + k + 1 = q + (k + 1)
    BY <1>2
  <2>5. Shown(q + k + 1, o, cell)' <=>
           \/ Covers(buffered'[q + k + 1], o) /\ CellIn(buffered'[q + k + 1], o) = cell
           \/ ~ Covers(buffered'[q + k + 1], o) /\ Shown(q + k, o, cell)'
    BY <2>4, LaterShows
  <2>6. Covers(chunks[j], o) => CellIn(chunks[j], o) = cell
    <3> SUFFICES ASSUME Covers(chunks[j], o) PROVE CellIn(chunks[j], o) = cell
      OBVIOUS
    <3>1. Fit(chunks[j])'
      OBVIOUS
    <3>2. Fixed(o, CellIn(chunks[j], o))' \/ Loose(o, CellIn(chunks[j], o))'
      BY <3>1 DEF Fit, Covers, CellIn
    <3> QED BY <3>2, FixedNext
  <2>7. Shown(q + k + 1, o, cell)'
    BY <2>1, <2>3, <2>5, <2>6
  <2> QED BY <2>4, <2>7
<1> HIDE DEF S
<1>5. \A k \in Nat : k \in S
  BY <1>3, <1>4, SubsetInduction, Zenon
<1> SUFFICES ASSUME NEW p \in q..Len(buffered') PROVE Shown(p, o, cell)'
  OBVIOUS
<1>6. p - q \in Nat /\ q + (p - q) = p /\ p <= Len(buffered')
  BY <1>1, <1>2
<1>7. p - q \in S
  BY <1>5, <1>6
<1>8. Shown(q + (p - q), o, cell)'
  BY <1>6, <1>7 DEF S
<1> QED BY <1>6, <1>8

(* A good stream has kept everything. *)
LEMMA KeptAtEnd ==
  ASSUME StreamInv, KeptInv, writer = "open", lost = "none"
  PROVE  KeptAt(Len(buffered)) /\ Len(buffered) \in 0..Len(buffered)
<1>1. Len(buffered) \in Nat /\ Len(buffered) \in 0..Len(buffered)
  BY StreamNumbers
<1>2. \A q \in (Len(buffered) + 1)..Len(buffered) : buffered[q].what = "path"
  BY <1>1
<1> QED BY <1>1, <1>2 DEF KeptInv

(* The cells of the entries, and of the blocks they name, are in place. *)
LEMMA PublishedCells ==
  ASSUME WriterInv, NEW i \in 1..Len(lookup_table)
  PROVE  LET place == EntryPlace(lookup_table[i])
         IN  /\ EntryOffset(i) \in Nat /\ EntryOffset(i) + 1 \in Nat
             /\ Fixed(EntryOffset(i), EntryHead(lookup_table[i]))
             /\ Fixed(EntryOffset(i) + 1, EntryTail(lookup_table[i]))
             /\ place \in Places
<1>1. EntryOffset(i) \in Nat
  <2>1. i \in Nat \ {0}
    BY WriterNumbers
  <2> QED BY <2>1, Offsets
<1>2. OfEntry(EntryOffset(i), EntryHead(lookup_table[i]))
  BY DEF OfEntry
<1>3. OfEntry(EntryOffset(i) + 1, EntryTail(lookup_table[i]))
  BY DEF OfEntry
<1>4. EntryPlace(lookup_table[i]) \in Places
  BY EntryPlaces
<1> QED BY <1>1, <1>2, <1>3, <1>4 DEF Fixed

(* Each cell of a block is fixed at its offset. *)
LEMMA PlaceCells ==
  ASSUME WriterInv, NEW place \in Places, NEW j \in 1..Len(CellsOf(layout, place))
  PROVE  /\ place.at + j - 1 \in Nat
         /\ Fixed(place.at + j - 1, CellsOf(layout, place)[j])
<1> DEFINE cells == CellsOf(layout, place)
           o == place.at + j - 1
<1>1. place.at \in Nat /\ Len(cells) \in Nat /\ PlaceEnd(layout, place) = place.at + Len(cells)
  <2>1. layout \in AllLayouts /\ place \in PlaceSet
    BY DEF WriterInv, WriterType, Places
  <2> QED BY <2>1, PlaceShape DEF PlaceEnd
<1> HIDE DEF cells
<1>2. o \in Nat /\ o - place.at + 1 = j
  BY <1>1 DEF cells
<1>3. Within(layout, place, o)
  BY <1>1 DEF Within, cells
<1> HIDE DEF o
<1>4. OfBlock(o, cells[o - place.at + 1])
  BY <1>3 DEF OfBlock, cells
<1>5. OfBlock(o, cells[j])
  BY <1>2, <1>4
<1> QED BY <1>2, <1>5 DEF Fixed, o, cells

(* No write disturbs what has been kept. *)
LEMMA WriteKeeps ==
  ASSUME WriterInv, WriterInv', StreamInv, KeptInv, Grows, writer = "open", lost = "none",
         NEW chunks \in Seq(ChunkSet), Write(chunks),
         \A j \in 1..Len(chunks) : Fit(chunks[j])',
         NEW p \in Len(buffered)..Len(buffered')
  PROVE  /\ \A o \in 0..(TableEnd - 1) : Written(p, o)'
         /\ \A i \in 1..Len(lookup_table) : TailShown(p, i)' /\ Published(p, i)'
<1>0. PICK n \in Nat : n = Len(buffered)
  BY StreamNumbers
<1>1. KeptAt(n) /\ n \in 0..Len(buffered)
  BY <1>0, KeptAtEnd
<1>2. /\ \A o \in Nat : \A cell : Shown(n, o, cell)' <=> Shown(n, o, cell)
      /\ \A o \in Nat : Written(n, o) => Written(n, o)'
  BY <1>1, WriteShows
<1>3. n \in Len(buffered)..Len(buffered') /\ p \in n..Len(buffered') /\ p \in Nat
  BY <1>0, WriteAdds
<1>4. ASSUME NEW o \in 0..(TableEnd - 1) PROVE Written(p, o)'
  <2>1. o \in Nat
    BY TableEndBounds
  <2>2. Written(n, o)'
    BY <1>1, <1>2, <2>1 DEF KeptAt
  <2>3. 1..n \subseteq 1..p
    BY <1>3
  <2> QED BY <2>2, <2>3 DEF Written
<1>5. ASSUME NEW o \in Nat, NEW cell, Fixed(o, cell), Shown(n, o, cell)
      PROVE  Shown(p, o, cell)'
  <2>1. Fixed(o, cell)'
    BY <1>5, StaysAllowed
  <2>2. Shown(n, o, cell)'
    BY <1>2, <1>5
  <2>3. \A r \in n..Len(buffered') : Shown(r, o, cell)'
    <3>1. n \in Len(buffered)..Len(buffered')
      BY <1>3
    <3> QED BY <2>1, <2>2, <3>1, WriteStays
  <2> QED BY <1>3, <2>3
<1>6. ASSUME NEW i \in 1..Len(lookup_table) PROVE TailShown(p, i)' /\ Published(p, i)'
  <2> DEFINE e == lookup_table[i]
             place == EntryPlace(e)
  <2>1. TailShown(n, i) /\ HeadShown(n, i) /\ BlockShown(n, place)
    BY <1>1 DEF KeptAt, Published
  <2>2. /\ EntryOffset(i) \in Nat /\ EntryOffset(i) + 1 \in Nat
        /\ Fixed(EntryOffset(i), EntryHead(e)) /\ Fixed(EntryOffset(i) + 1, EntryTail(e))
        /\ place \in Places
    BY PublishedCells
  <2>3. lookup_table'[i] = e /\ layout' = layout
    BY DEF Grows
  <2>4. Shown(p, EntryOffset(i) + 1, EntryTail(e))'
    <3> DEFINE cell == EntryTail(e)
    <3>1. Shown(n, EntryOffset(i) + 1, cell)
      BY <2>1 DEF TailShown
    <3>2. cell' = cell
      BY <2>3
    <3> HIDE DEF cell
    <3>3. Fixed(EntryOffset(i) + 1, cell)
      BY <2>2 DEF cell
    <3>4. Shown(p, EntryOffset(i) + 1, cell)'
      BY <1>5, <2>2, <3>1, <3>2, <3>3
    <3> QED BY <3>4 DEF cell
  <2>5. Shown(p, EntryOffset(i), EntryHead(e))'
    <3> DEFINE cell == EntryHead(e)
    <3>1. Shown(n, EntryOffset(i), cell)
      BY <2>1 DEF HeadShown
    <3>2. cell' = cell
      BY <2>3
    <3> HIDE DEF cell
    <3>3. Fixed(EntryOffset(i), cell)
      BY <2>2 DEF cell
    <3>4. Shown(p, EntryOffset(i), cell)'
      BY <1>5, <2>2, <3>1, <3>2, <3>3
    <3> QED BY <3>4 DEF cell
  <2>6. ASSUME NEW j \in 1..Len(CellsOf(layout, place))
        PROVE  Shown(p, place.at + j - 1, CellsOf(layout, place)[j])'
    <3> DEFINE cell == CellsOf(layout, place)[j]
               o == place.at + j - 1
    <3>1. o \in Nat /\ Fixed(o, cell)
      BY <2>2, PlaceCells
    <3>2. Shown(n, o, cell)
      BY <2>1 DEF BlockShown
    <3>3. cell' = cell /\ o' = o
      BY <2>3
    <3> HIDE DEF cell, o
    <3>4. Shown(p, o, cell)'
      BY <1>5, <3>1, <3>2, <3>3
    <3> QED BY <3>4 DEF cell, o
  <2>7. TailShown(p, i)' /\ HeadShown(p, i)'
    BY <2>4, <2>5 DEF TailShown, HeadShown
  <2>8. BlockShown(p, place)'
    BY <2>3, <2>6 DEF BlockShown
  <2> QED BY <2>7, <2>8 DEF Published
<1> QED BY <1>4, <1>6

-----------------------------------------------------------------------------
(* A write that continues the block in progress at its k-th cell. *)
Continues(c, cells, at, k) ==
  /\ c.at = at + k /\ k + Len(c.cells) <= Len(cells)
  /\ \A j \in 1..Len(c.cells) : c.cells[j] = cells[k + j]

(* The offset of a cell in a block, and its index in the write that brings  *)
(* it.                                                                      *)
LEMMA Lands ==
  ASSUME NEW a \in Nat, NEW b \in Nat, NEW k \in Nat, NEW m \in Nat, NEW i \in Nat,
         NEW o \in Nat, b = a + k, o = a + i - 1, k < i, i <= k + m
  PROVE  b <= o /\ o < b + m /\ o - b + 1 = i - k /\ i - k \in 1..m
OBVIOUS

(* Such a write brings only the block's own cells. *)
LEMMA ContinuesFits ==
  ASSUME WriterInv, NEW place \in Places, NEW c \in ChunkSet, NEW k \in Nat,
         Continues(c, CellsOf(layout, place), place.at, k)
  PROVE  \A o \in Nat : Covers(c, o) => Fixed(o, CellIn(c, o))
<1> DEFINE cells == CellsOf(layout, place)
<1>1. place.at \in Nat /\ Len(cells) \in Nat
  <2>1. layout \in AllLayouts /\ place \in PlaceSet
    BY DEF WriterInv, WriterType, Places
  <2> QED BY <2>1, PlaceShape
<1>2. c.at \in Nat /\ Len(c.cells) \in Nat
  BY ChunkShape
<1>3. /\ c.at = place.at + k /\ k + Len(c.cells) <= Len(cells)
      /\ \A j \in 1..Len(c.cells) : c.cells[j] = cells[k + j]
  BY DEF Continues
<1> SUFFICES ASSUME NEW o \in Nat, Covers(c, o) PROVE Fixed(o, CellIn(c, o))
  OBVIOUS
<1> DEFINE j == o - c.at + 1
<1>4. j \in 1..Len(c.cells) /\ k + j \in 1..Len(cells) /\ place.at + (k + j) - 1 = o
  <2>1. c.at <= o /\ o < c.at + Len(c.cells)
    BY DEF Covers
  <2>2. PICK a, m, t \in Nat : a = place.at /\ m = Len(c.cells) /\ t = Len(cells)
    BY <1>1, <1>2
  <2>3. c.at = a + k /\ k + m <= t
    BY <1>3, <2>2
  <2>4. a + k <= o /\ o < a + k + m
    BY <2>1, <2>2, <2>3
  <2>5. j = o - (a + k) + 1
    BY <2>3
  <2> HIDE DEF cells, j
  <2>6. j \in 1..m /\ k + j \in 1..t /\ a + (k + j) - 1 = o
    BY <2>3, <2>4, <2>5
  <2> QED BY <2>2, <2>6
<1>5. Fixed(place.at + (k + j) - 1, cells[k + j])
  <2> HIDE DEF j
  <2> QED BY <1>4, PlaceCells
<1>6. CellIn(c, o) = cells[k + j]
  <2> HIDE DEF cells
  <2> QED BY <1>3, <1>4 DEF CellIn
<1> HIDE DEF j, cells
<1> QED BY <1>4, <1>5, <1>6

(* After it the block in progress is shown up to where the write ends. *)
LEMMA OwnWritten ==
  ASSUME WriterInv, WriterInv', StreamInv, KeptInv, Grows, writer = "open", lost = "none",
         NEW chunks \in Seq(ChunkSet), Write(chunks), Len(chunks) >= 1,
         \A j \in 1..Len(chunks) : Fit(chunks[j])',
         Active, NEW place \in Places, place = OwnPlace,
         NEW cells, cells = CellsOf(layout, place),
         NEW k \in Nat, k = current_offset - cluster.block_start,
         Continues(chunks[1], cells, place.at, k),
         NEW p \in (Len(buffered) + 1)..Len(buffered')
  PROVE  \A j \in 1..(k + Len(chunks[1].cells)) : Shown(p, place.at + j - 1, cells[j])'
<1>0. PICK n \in Nat : n = Len(buffered)
  BY StreamNumbers
<1>1. /\ Len(buffered') = n + Len(chunks) /\ Len(chunks) \in Nat /\ Len(buffered') \in Nat
      /\ \A j \in 1..Len(chunks) : buffered'[n + j] = chunks[j]
  BY <1>0, WriteAdds
<1>2. /\ n \in 0..Len(buffered) /\ KeptAt(n)
      /\ \A o \in Nat : \A cell : Shown(n, o, cell)' <=> Shown(n, o, cell)
  <2>1. n \in 0..Len(buffered) /\ KeptAt(n)
    BY <1>0, KeptAtEnd
  <2> QED BY <2>1, WriteShows
<1>3. chunks[1] \in ChunkSet
  <2>1. 1 \in 1..Len(chunks)
    BY <1>1
  <2> QED BY <2>1, ElementOfSeq
<1>4. buffered'[n + 1] = chunks[1]
  BY <1>1
<1>5. /\ chunks[1].at \in Nat /\ Len(chunks[1].cells) \in Nat
      /\ chunks[1].at = place.at + k /\ k + Len(chunks[1].cells) <= Len(cells)
      /\ \A j \in 1..Len(chunks[1].cells) : chunks[1].cells[j] = cells[k + j]
  BY <1>3, ChunkShape DEF Continues
<1>6. place.at \in Nat /\ place.at = cluster.block_start /\ Len(cells) \in Nat
  <2>1. layout \in AllLayouts /\ place \in PlaceSet
    BY DEF WriterInv, WriterType, Places
  <2> QED BY <2>1, PlaceShape, OwnPlaces
<1> SUFFICES ASSUME NEW j \in 1..(k + Len(chunks[1].cells))
             PROVE  Shown(p, place.at + j - 1, cells[j])'
  OBVIOUS
<1>7. PICK o \in Nat : o = place.at + j - 1
  BY <1>6
<1>8. PICK cell : cell = cells[j]
  OBVIOUS
<1>9. j \in 1..Len(cells)
  BY <1>5, <1>6
<1>10. Fixed(o, cell)'
  <2>1. Fixed(o, cell)
    BY <1>7, <1>8, <1>9, PlaceCells
  <2> QED BY <2>1, StaysAllowed
<1>11. Shown(n + 1, o, cell)'
  <2>1. Shown(n + 1, o, cell)' <=>
           \/ Covers(chunks[1], o) /\ CellIn(chunks[1], o) = cell
           \/ ~ Covers(chunks[1], o) /\ Shown(n, o, cell)'
    BY <1>4, LaterShows
  <2>2. CASE j \in 1..k
    <3>1. Shown(n, o, cell)
      <4>1. OwnShown(n)
        BY <1>2 DEF KeptAt
      <4>2. Shown(n, cluster.block_start + j - 1, CellsOf(layout, OwnPlace)[j])
        BY <2>2, <4>1 DEF OwnShown
      <4> QED BY <1>6, <1>7, <1>8, <4>2
    <3>2. ~ Covers(chunks[1], o)
      BY <1>5, <1>6, <1>7, <2>2 DEF Covers
    <3> QED BY <1>2, <2>1, <3>1, <3>2
  <2>3. CASE j \notin 1..k
    <3>1. Covers(chunks[1], o) /\ o - chunks[1].at + 1 = j - k /\ j - k \in 1..Len(chunks[1].cells)
      <4>1. PICK a, b, m \in Nat : a = place.at /\ b = chunks[1].at /\ m = Len(chunks[1].cells)
        BY <1>5, <1>6
      <4>2. b = a + k /\ o = a + j - 1 /\ j \in 1..(k + m) /\ j \notin 1..k
        BY <1>5, <1>7, <2>3, <4>1
      <4>4. j \in Nat /\ k < j /\ j <= k + m
        BY <4>2
      <4>5. PICK i \in Nat : i = j
        BY <4>4
      <4>6. b = a + k /\ o = a + i - 1 /\ k < i /\ i <= k + m
        BY <4>2, <4>4, <4>5
      <4>7. b <= o /\ o < b + m /\ o - b + 1 = i - k /\ i - k \in 1..m
        BY ONLY <4>6, Lands, a \in Nat, b \in Nat, k \in Nat, m \in Nat, i \in Nat, o \in Nat
      <4>3. b <= o /\ o < b + m /\ o - b + 1 = j - k /\ j - k \in 1..m
        BY <4>5, <4>7
      <4> QED BY <4>1, <4>3 DEF Covers
    <3>2. CellIn(chunks[1], o) = cells[k + (j - k)]
      BY <1>5, <3>1 DEF CellIn
    <3>3. k + (j - k) = j
      OBVIOUS
    <3> QED BY <1>8, <2>1, <3>1, <3>2, <3>3
  <2> QED BY <2>2, <2>3
<1>12. n + 1 \in Len(buffered)..Len(buffered') /\ p \in (n + 1)..Len(buffered')
  BY <1>0, <1>1
<1>13. \A r \in (n + 1)..Len(buffered') : Shown(r, o, cell)'
  BY <1>10, <1>11, <1>12, WriteStays
<1>14. Shown(p, o, cell)'
  BY <1>12, <1>13
<1> QED BY <1>7, <1>8, <1>14

-----------------------------------------------------------------------------
(* While the writer is open no path is on its way: KeptInv speaks of the    *)
(* whole of what is buffered.                                               *)
LEMMA KeptWhileOpen ==
  StreamInv /\ writer = "open" /\ (lost = "none" => KeptAt(Len(buffered))) => KeptInv
<1> SUFFICES ASSUME StreamInv, writer = "open", lost = "none" => KeptAt(Len(buffered)),
                    lost \in {"none", "path"}, NEW p \in 0..Len(buffered),
                    \A q \in (p + 1)..Len(buffered) : buffered[q].what = "path"
             PROVE  KeptAt(p)
  BY DEF KeptInv
<1>1. /\ lost # "path" /\ \A q \in 1..Len(buffered) : buffered[q].what # "path"
  BY DEF StreamInv, ModeInv
<1>2. Len(buffered) \in Nat
  BY StreamNumbers
<1>3. p = Len(buffered)
  <2> SUFFICES ASSUME p < Len(buffered) PROVE FALSE
    BY <1>2
  <2>1. p + 1 \in (p + 1)..Len(buffered) /\ p + 1 \in 1..Len(buffered)
    BY <1>2
  <2> QED BY <1>1, <2>1
<1> QED BY <1>1, <1>3

(* The same of the next state. *)
LEMMA KeptWhileOpenNext ==
  (StreamInv /\ writer = "open" /\ (lost = "none" => KeptAt(Len(buffered))) => KeptInv)'
BY KeptWhileOpen, PTL

(* A write after which the entries are those of before. *)
LEMMA WritePublishes ==
  ASSUME WriterInv, WriterInv', StreamInv, PublishInv, KeptInv, Grows, writer = "open",
         NEW chunks \in Seq(ChunkSet), Write(chunks),
         \A j \in 1..Len(chunks) : Fit(chunks[j])',
         NEW p \in 0..Len(buffered'), NEW i \in 1..Len(lookup_table)
  PROVE  TailShown(p, i)' => Published(p, i)'
<1>1. layout' = layout /\ lookup_table'[i] = lookup_table[i]
  BY DEF Grows
<1>2. Len(buffered) \in Nat /\ Len(buffered') \in Nat
  BY WriteAdds
<1>3. CASE p \in 0..Len(buffered)
  <2>1. \A o \in Nat : \A cell : Shown(p, o, cell)' <=> Shown(p, o, cell)
    BY <1>3, WriteShows
  <2> QED BY <1>1, <1>3, <2>1, SamePublished
<1>4. CASE p \notin 0..Len(buffered)
  <2>1. lost = "none"
    <3> SUFFICES ASSUME lost # "none" PROVE FALSE
      OBVIOUS
    <3>1. buffered' = buffered
      BY WriteAdds
    <3> QED BY <1>4, <3>1
  <2>2. p \in Len(buffered)..Len(buffered')
    BY <1>2, <1>4
  <2>3. Published(p, i)'
    BY <2>1, <2>2, WriteKeeps
  <2> QED BY <2>3
<1> QED BY <1>3, <1>4

-----------------------------------------------------------------------------
(* WriteVectors and WriteAddressBlocks. *)
LEMMA BlockGoesOn ==
  ASSUME WriterInv, WriterInv', StreamInv, PublishInv, KeptInv, Grows,
         writer = "open", writer' = "open", lookup_table' = lookup_table,
         Active, Active', OwnPlace' = OwnPlace,
         cluster'.block_start = cluster.block_start,
         NEW c \in ChunkSet, c.what = "block", Write(<<c>>),
         NEW k \in Nat, k = current_offset - cluster.block_start,
         Continues(c, CellsOf(layout, OwnPlace), OwnPlace.at, k),
         current_offset' = current_offset + Len(c.cells)
  PROVE  StreamInv' /\ PublishInv' /\ KeptInv'
<1>1. PICK chunks : chunks = <<c>>
  OBVIOUS
<1>2. chunks \in Seq(ChunkSet) /\ Len(chunks) = 1 /\ chunks[1] = c /\ Write(chunks)
  BY <1>1
<1>3. layout' = layout /\ layout \in AllLayouts
  BY DEF Grows, WriterInv, WriterType
<1>4. \A o \in Nat : Covers(c, o) => Fixed(o, CellIn(c, o))
  BY OwnPlaces, ContinuesFits
<1>5. \A o \in Nat : Covers(c, o) => Fixed(o, CellIn(c, o))'
  BY <1>4, StaysAllowed
<1>6. \A j \in 1..Len(chunks) : Fit(chunks[j])'
  BY <1>2, <1>5 DEF Fit
<1>7. StreamInv'
  <2>1. \A j \in 1..Len(chunks) : \A o \in Nat :
          Covers(chunks[j], o) => Allowed(o, CellIn(chunks[j], o))'
    BY <1>2, <1>5 DEF Allowed
  <2>2. \A j \in 1..Len(chunks) : chunks[j].what # "path"
    BY <1>2
  <2> QED BY <1>2, <2>1, <2>2, StreamWrites
<1>8. PublishInv'
  <2> SUFFICES ASSUME NEW p \in 0..Len(buffered'), NEW i \in 1..Len(lookup_table')
               PROVE  TailShown(p, i)' => Published(p, i)'
    BY DEF PublishInv
  <2> QED BY <1>2, <1>6, WritePublishes
<1>9. lost' = "none" => KeptAt(Len(buffered))'
  <2> SUFFICES ASSUME lost' = "none" PROVE KeptAt(Len(buffered))'
    OBVIOUS
  <2>1. /\ lost = "none" /\ Len(buffered) \in Nat /\ Len(buffered') = Len(buffered) + 1
    BY <1>2, WriteAdds
  <2>2. PICK p \in Nat : p = Len(buffered')
    BY <2>1
  <2>3. p \in Len(buffered)..Len(buffered') /\ p \in (Len(buffered) + 1)..Len(buffered')
    BY <2>1, <2>2
  <2>4. /\ \A o \in 0..(TableEnd - 1) : Written(p, o)'
        /\ \A i \in 1..Len(lookup_table) : TailShown(p, i)' /\ Published(p, i)'
    BY <1>2, <1>6, <2>1, <2>3, WriteKeeps
  <2>5. PICK place, cells :
             place \in Places /\ place = OwnPlace /\ cells = CellsOf(layout, place)
    BY OwnPlaces
  <2>6. \A j \in 1..(k + Len(c.cells)) : Shown(p, place.at + j - 1, cells[j])'
    <3>1. /\ p \in (Len(buffered) + 1)..Len(buffered') /\ lost = "none"
          /\ chunks \in Seq(ChunkSet) /\ Write(chunks)
      BY <1>2, <2>1, <2>3
    <3>2. chunks[1] = c /\ Len(chunks) >= 1
      BY <1>2
    <3>3. Continues(chunks[1], cells, place.at, k)
      BY <2>5, <3>2
    <3>4. \A j \in 1..(k + Len(chunks[1].cells)) : Shown(p, place.at + j - 1, cells[j])'
      BY <1>6, <2>5, <3>1, <3>2, <3>3, OwnWritten
    <3> QED BY <3>2, <3>4
  <2>7. OwnShown(p)'
    <3>1. /\ place.at = cluster.block_start /\ cluster.block_start \in Nat
          /\ current_offset \in Nat /\ Len(c.cells) \in Nat
      <4>1. OwnPlace.at = cluster.block_start /\ cluster \in ClusterSet
        BY OwnPlaces
      <4>2. current_offset \in Nat
        BY DEF WriterInv, WriterType
      <4> QED BY <2>5, <4>1, <4>2, ChunkShape DEF ClusterSet
    <3>2. k + Len(c.cells) = current_offset' - cluster'.block_start
      <4>1. PICK a, b, m \in Nat :
              a = cluster.block_start /\ b = current_offset /\ m = Len(c.cells)
        BY <3>1
      <4>2. k = b - a /\ current_offset' = b + m
        BY <4>1
      <4>3. k + m = (b + m) - a
        BY ONLY <4>2, a \in Nat, b \in Nat, m \in Nat
      <4> QED BY <4>1, <4>2, <4>3
    <3>3. CellsOf(layout, OwnPlace)' = cells /\ cluster'.block_start = place.at
      BY <1>3, <2>5, <3>1 DEF CellsOf
    <3> QED BY <2>6, <3>2, <3>3 DEF OwnShown
  <2>8. KeptAt(p)'
    <3>1. TableEnd' = TableEnd
      BY DEF TableEnd
    <3> QED BY <2>4, <2>7 DEF KeptAt
  <2> QED BY <2>2, <2>8
<1>10. KeptInv'
  BY <1>7, <1>9, KeptWhileOpenNext
<1> QED BY <1>7, <1>8, <1>10

-----------------------------------------------------------------------------
(* The parts of a Chunk. *)
LEMMA ChunkOfBlock ==
  ASSUME NEW at \in Nat, NEW cells \in Seq(CellSet), NEW what \in Whats
  PROVE  /\ Chunk(what, at, cells) \in ChunkSet
         /\ Chunk(what, at, cells).at = at /\ Chunk(what, at, cells).what = what
         /\ Chunk(what, at, cells).cells = cells
BY DEF Chunk, ChunkSet

(* WriteVectors (cluster_store.cpp) writes the codes where the block begins. *)
LEMMA VectorsKeep ==
  ASSUME WriterInv, StreamInv, PublishInv, KeptInv, WriteVectors
  PROVE  WriterInv' /\ StreamInv' /\ PublishInv' /\ KeptInv'
<1>1. /\ WriterInv' /\ Active /\ Active' /\ cluster \in ClusterSet
      /\ cluster'.id = cluster.id /\ cluster'.num_records = cluster.num_records
      /\ cluster'.block_start = cluster.block_start
  BY WriterVectors
<1>2. Grows
  BY VectorsGrow
<1>3. PICK l, id, n : l = layout /\ id = cluster.id /\ n = cluster.num_records
  OBVIOUS
<1>4. l \in AllLayouts /\ id \in Ids /\ n \in Sizes /\ current_offset \in Nat
  BY <1>1, <1>3 DEF WriterInv, WriterType, ClusterSet
<1>5. PICK codes : codes = Codes(l, id, n)
  OBVIOUS
<1>6. /\ codes \in Seq(CellSet) /\ Len(codes) \in Nat /\ n \in Nat
      /\ Len(BlockCells(l, id, n)) = Len(codes) + n + 2
      /\ \A j \in 1..Len(codes) : BlockCells(l, id, n)[j] = codes[j]
  BY <1>4, <1>5, BlockShape
<1>7. PICK c : c = Chunk("block", current_offset, codes)
  OBVIOUS
<1>8. c \in ChunkSet /\ c.at = current_offset /\ c.what = "block" /\ c.cells = codes
  <2>1. "block" \in Whats
    BY DEF Whats
  <2>2. codes \in Seq(CellSet) /\ current_offset \in Nat
    BY <1>4, <1>6
  <2> QED BY <1>7, <2>1, <2>2, ChunkOfBlock
<1>9. /\ writer = "open" /\ writer' = "open" /\ lookup_table' = lookup_table
      /\ Write(<<c>>) /\ current_offset' = current_offset + Len(codes)
  BY <1>3, <1>5, <1>7 DEF WriteVectors, Codes
<1>10. OwnPlace' = OwnPlace
  BY <1>1 DEF OwnPlace
<1>11. /\ OwnPlace.at = cluster.block_start /\ cluster.block_start \in Nat
       /\ CellsOf(layout, OwnPlace) = BlockCells(l, id, n)
  BY <1>1, <1>3, OwnPlaces DEF ClusterSet
<1>12. current_offset = cluster.block_start
  <2>1. cluster.stage = "begun"
    BY DEF WriteVectors
  <2> QED BY <1>1, <2>1 DEF WriterInv, ClusterInv
<1>13. PICK k \in Nat : k = 0
  OBVIOUS
<1>14. k = current_offset - cluster.block_start
  BY <1>11, <1>12, <1>13
<1>15. Continues(c, CellsOf(layout, OwnPlace), OwnPlace.at, k)
  <2>1. c.at = OwnPlace.at + k
    BY <1>8, <1>11, <1>12, <1>13
  <2>2. k + Len(c.cells) <= Len(CellsOf(layout, OwnPlace))
    BY <1>6, <1>8, <1>11, <1>13
  <2>3. \A j \in 1..Len(c.cells) : c.cells[j] = CellsOf(layout, OwnPlace)[k + j]
    <3> SUFFICES ASSUME NEW j \in 1..Len(codes)
                 PROVE  codes[j] = BlockCells(l, id, n)[k + j]
      BY <1>8, <1>11
    <3>1. k + j = j
      BY <1>6, <1>13
    <3> QED BY <1>6, <3>1
  <2> QED BY <2>1, <2>2, <2>3 DEF Continues
<1>16. current_offset' = current_offset + Len(c.cells)
  BY <1>8, <1>9
<1>17. StreamInv' /\ PublishInv' /\ KeptInv'
  BY <1>1, <1>2, <1>8, <1>9, <1>10, <1>14, <1>15, <1>16, BlockGoesOn
<1> QED BY <1>1, <1>17

(* WriteAddressBlocks writes the raw table behind them. *)
LEMMA AddressesKeep ==
  ASSUME WriterInv, StreamInv, PublishInv, KeptInv, cluster.stage = "vectors",
         NEW column \in AddressColumnsOf(cluster.id, cluster.num_records),
         WriteAddressBlocks(column)
  PROVE  WriterInv' /\ StreamInv' /\ PublishInv' /\ KeptInv'
<1>1. /\ WriterInv' /\ Active /\ Active' /\ cluster \in ClusterSet
      /\ cluster'.id = cluster.id /\ cluster'.num_records = cluster.num_records
      /\ cluster'.block_start = cluster.block_start
      /\ RawTableOf(column).raw_entries = RawTable(cluster.id, cluster.num_records)
  BY WriterAddresses
<1>2. Grows
  BY AddressesGrow
<1>3. PICK l, id, n : l = layout /\ id = cluster.id /\ n = cluster.num_records
  OBVIOUS
<1>4. l \in AllLayouts /\ id \in Ids /\ n \in Sizes /\ current_offset \in Nat
  BY <1>1, <1>3 DEF WriterInv, WriterType, ClusterSet
<1>5. PICK raw : raw = RawTable(id, n)
  OBVIOUS
<1>6. raw \in Seq(RawSet) /\ Len(raw) = n
  BY <1>4, <1>5, RawTableShape
<1>7. PICK k : k = Len(Codes(l, id, n))
  OBVIOUS
<1>8. /\ k \in Nat /\ n \in Nat
      /\ Len(BlockCells(l, id, n)) = k + n + 2
      /\ \A j \in 1..n : BlockCells(l, id, n)[k + j] = [k |-> "address", raw |-> raw[j]]
  BY <1>4, <1>5, <1>7, BlockShape
<1>9. /\ AddressCells(raw) \in Seq(CellSet) /\ Len(AddressCells(raw)) = n
      /\ \A j \in 1..n : AddressCells(raw)[j] = [k |-> "address", raw |-> raw[j]]
  BY <1>6, <1>8, AddressCellsShape
<1>10. PICK c : c = Chunk("block", current_offset, AddressCells(raw))
  OBVIOUS
<1>11. c \in ChunkSet /\ c.at = current_offset /\ c.what = "block" /\ c.cells = AddressCells(raw)
  <2>1. "block" \in Whats
    BY DEF Whats
  <2>2. AddressCells(raw) \in Seq(CellSet) /\ current_offset \in Nat
    BY <1>4, <1>9
  <2> QED BY <1>10, <2>1, <2>2, ChunkOfBlock
<1>12. /\ writer = "open" /\ writer' = "open" /\ lookup_table' = lookup_table
       /\ Write(<<c>>) /\ current_offset' = current_offset + n
  BY <1>1, <1>3, <1>5, <1>6, <1>10 DEF WriteAddressBlocks
<1>13. OwnPlace' = OwnPlace
  BY <1>1 DEF OwnPlace
<1>14. /\ OwnPlace.at = cluster.block_start /\ cluster.block_start \in Nat
       /\ CellsOf(layout, OwnPlace) = BlockCells(l, id, n)
  BY <1>1, <1>3, OwnPlaces DEF ClusterSet
<1>15. current_offset = cluster.block_start + k
  BY <1>1, <1>3, <1>7 DEF WriterInv, ClusterInv
<1>16. k = current_offset - cluster.block_start
  BY <1>8, <1>14, <1>15
<1>17. Continues(c, CellsOf(layout, OwnPlace), OwnPlace.at, k)
  <2>1. c.at = OwnPlace.at + k
    BY <1>11, <1>14, <1>15
  <2>2. k + Len(c.cells) <= Len(CellsOf(layout, OwnPlace))
    BY <1>8, <1>9, <1>11, <1>14
  <2>3. \A j \in 1..Len(c.cells) : c.cells[j] = CellsOf(layout, OwnPlace)[k + j]
    BY <1>8, <1>9, <1>11, <1>14
  <2> QED BY <2>1, <2>2, <2>3 DEF Continues
<1>18. current_offset' = current_offset + Len(c.cells)
  BY <1>9, <1>11, <1>12
<1>19. StreamInv' /\ PublishInv' /\ KeptInv'
  BY <1>1, <1>2, <1>8, <1>11, <1>12, <1>13, <1>16, <1>17, <1>18, BlockGoesOn
<1> QED BY <1>1, <1>19

-----------------------------------------------------------------------------
(* Zeros, padding and single cells. *)
LEMMA ZerosShape ==
  ASSUME NEW n \in Nat
  PROVE  /\ Zeros(n) \in Seq(CellSet) /\ Len(Zeros(n)) = n
         /\ \A j \in 1..n : Zeros(n)[j] = Zero
<1>1. Zero \in CellSet
  BY DEF Zero, CellSet, LaneSet
<1>2. Zeros(n) \in [1..n -> CellSet]
  BY <1>1 DEF Zeros
<1>3. Zeros(n) \in Seq(CellSet) /\ Len(Zeros(n)) = n
  BY <1>2
<1> QED BY <1>3 DEF Zeros

(* A write of zeros covers its size with zeros, *)
LEMMA ZeroChunk ==
  ASSUME NEW at \in Nat, NEW size \in Nat, NEW what \in Whats, NEW c,
         c = Chunk(what, at, Zeros(size))
  PROVE  /\ c \in ChunkSet /\ c.what = what
         /\ \A o \in Nat : Covers(c, o) <=> (at <= o /\ o < at + size)
         /\ \A o \in Nat : Covers(c, o) => CellIn(c, o) = Zero
<1>1. /\ Zeros(size) \in Seq(CellSet) /\ Len(Zeros(size)) = size
      /\ \A j \in 1..size : Zeros(size)[j] = Zero
  BY ZerosShape
<1>2. c \in ChunkSet /\ c.at = at /\ c.what = what /\ c.cells = Zeros(size)
  BY <1>1, ChunkOfBlock
<1>3. \A o \in Nat : Covers(c, o) <=> (at <= o /\ o < at + size)
  BY <1>1, <1>2 DEF Covers
<1>4. ASSUME NEW o \in Nat, Covers(c, o) PROVE CellIn(c, o) = Zero
  <2>1. o - at + 1 \in 1..size
    BY <1>3, <1>4
  <2> QED BY <1>1, <1>2, <2>1 DEF CellIn
<1> QED BY <1>2, <1>3, <1>4

(* padding covers what is left up to the next aligned offset, *)
LEMMA PadChunk ==
  ASSUME NEW x \in Nat, NEW c, c = Chunk("pad", x, Padding(x))
  PROVE  /\ c \in ChunkSet /\ c.what = "pad"
         /\ \A o \in Nat : Covers(c, o) <=> (x <= o /\ o < RoundUpToMultiple(x, AlignSize))
         /\ \A o \in Nat : Covers(c, o) => CellIn(c, o) = Zero
<1>1. PICK r : r = RoundUpToMultiple(x, AlignSize)
  OBVIOUS
<1>2. r \in Nat /\ x <= r
  BY <1>1, RoundUpBounds
<1>3. PICK size \in Nat : size = r - x
  BY <1>2
<1>4. c = Chunk("pad", x, Zeros(size)) /\ "pad" \in Whats
  BY <1>1, <1>3 DEF Padding, Whats
<1>5. /\ c \in ChunkSet /\ c.what = "pad"
      /\ \A o \in Nat : Covers(c, o) <=> (x <= o /\ o < x + size)
      /\ \A o \in Nat : Covers(c, o) => CellIn(c, o) = Zero
  BY <1>4, ZeroChunk
<1>6. x + size = r
  BY <1>2, <1>3
<1> QED BY <1>1, <1>5, <1>6

(* a write of one cell its offset. *)
LEMMA CellChunk ==
  ASSUME NEW at \in Nat, NEW cell \in CellSet, NEW what \in Whats, NEW c,
         c = Chunk(what, at, <<cell>>)
  PROVE  /\ c \in ChunkSet /\ c.what = what
         /\ \A o \in Nat : Covers(c, o) <=> o = at
         /\ \A o \in Nat : Covers(c, o) => CellIn(c, o) = cell
<1>0. PICK cells : cells = <<cell>>
  OBVIOUS
<1>1. /\ cells \in Seq(CellSet) /\ Len(cells) = 1 /\ cells[1] = cell
  BY <1>0
<1>2. c \in ChunkSet /\ c.at = at /\ c.what = what /\ c.cells = cells
  <2>1. cells \in Seq(CellSet) /\ c = Chunk(what, at, cells)
    BY <1>0, <1>1
  <2> QED BY <2>1, ChunkOfBlock
<1>3. ASSUME NEW o \in Nat PROVE Covers(c, o) <=> o = at
  <2>1. Covers(c, o) <=> (at <= o /\ o < at + 1)
    BY <1>1, <1>2 DEF Covers
  <2> QED BY <2>1
<1>4. ASSUME NEW o \in Nat, Covers(c, o) PROVE CellIn(c, o) = cell
  <2>1. o - c.at + 1 = 1
    BY <1>2, <1>3, <1>4
  <2> QED BY <1>1, <1>2, <2>1 DEF CellIn
<1> QED BY <1>2, <1>3, <1>4
-----------------------------------------------------------------------------
(* EndCluster: the trailer ends the block ... *)
EndTrailer ==
  Chunk("block", current_offset,
        MiniTrailer(cluster.raw, current_offset - cluster.block_start - Len(cluster.raw)))
EndHead == Chunk("entry", EntryOffset(Len(lookup_table) + 1), <<EntryHead(PatchedEntry)>>)
EndTail == Chunk("entry", EntryOffset(Len(lookup_table) + 1) + 1, <<EntryTail(PatchedEntry)>>)
EndPad == Chunk("pad", BlockEnd, Padding(BlockEnd))

(* EndCluster's trailer is the rest of the block. *)
LEMMA TrailerEndsBlock ==
  ASSUME WriterInv, cluster.stage = "addresses", NEW c, c = EndTrailer
  PROVE  LET k == current_offset - cluster.block_start
             cells == CellsOf(layout, OwnPlace)
         IN  /\ c \in ChunkSet /\ c.what = "block" /\ c.at = current_offset
             /\ k \in Nat /\ Continues(c, cells, OwnPlace.at, k)
             /\ k + Len(c.cells) = Len(cells)
<1>1. PICK l, id, n : l = layout /\ id = cluster.id /\ n = cluster.num_records
  OBVIOUS
<1>2. PICK C : C = Len(Codes(l, id, n))
  OBVIOUS
<1>3. /\ Active /\ id \in Ids /\ n \in Sizes /\ l \in AllLayouts
      /\ cluster.block_start \in Nat /\ C \in Nat /\ n \in Nat
      /\ current_offset = cluster.block_start + C + n
      /\ cluster.raw = RawTable(id, n)
  <2>1. layout \in AllLayouts
    BY DEF WriterInv, WriterType
  <2> QED BY <1>1, <1>2, <2>1, EntryPatched
<1>4. PICK s \in Nat : s = cluster.block_start
  BY <1>3
<1>5. current_offset = s + C + n /\ current_offset \in Nat
  BY <1>3, <1>4
<1>6. PICK k \in Nat : k = C + n
  BY <1>3
<1>7. k = current_offset - cluster.block_start /\ current_offset = s + k
  BY <1>3, <1>4, <1>5, <1>6
<1>8. cluster.raw \in Seq(RawSet) /\ Len(cluster.raw) = n
  BY <1>3, RawTableShape
<1>9. current_offset - cluster.block_start - Len(cluster.raw) = C
  <2>1. current_offset - cluster.block_start = C + n
    BY <1>6, <1>7
  <2>2. (C + n) - n = C
    BY <1>3
  <2> QED BY <1>8, <2>1, <2>2
<1>10. PICK cells : cells = MiniTrailer(cluster.raw, C)
  OBVIOUS
<1>11. /\ cells \in Seq(CellSet) /\ Len(cells) = 2
       /\ cells[1] = Trailer(C, n) /\ cells[2] = Footer
  BY <1>3, <1>8, <1>10, TrailerShape
<1>12. c \in ChunkSet /\ c.at = current_offset /\ c.what = "block" /\ c.cells = cells
  <2>1. c = Chunk("block", current_offset, cells)
    BY <1>9, <1>10 DEF EndTrailer
  <2>2. "block" \in Whats /\ cells \in Seq(CellSet) /\ current_offset \in Nat
    BY <1>5, <1>11 DEF Whats
  <2> QED BY <2>1, <2>2, ChunkOfBlock
<1>13. /\ OwnPlace.at = s /\ CellsOf(layout, OwnPlace) = BlockCells(l, id, n)
  BY <1>1, <1>3, <1>4, OwnPlaces
<1>14. PICK block : block = BlockCells(l, id, n)
  OBVIOUS
<1>15. /\ Len(block) = C + n + 2
       /\ block[C + n + 1] = Trailer(C, n) /\ block[C + n + 2] = Footer
  BY <1>2, <1>3, <1>14, BlockShape
<1>16. Continues(c, block, s, k)
  <2>1. c.at = s + k
    BY <1>7, <1>12
  <2>2. k + Len(c.cells) <= Len(block)
    <3>1. Len(c.cells) = 2 /\ Len(block) = k + 2
      BY <1>6, <1>11, <1>12, <1>15
    <3> QED BY <3>1
  <2>3. ASSUME NEW j \in 1..Len(c.cells) PROVE c.cells[j] = block[k + j]
    <3>0. Len(c.cells) = 2
      BY <1>11, <1>12
    <3>1. j = 1 \/ j = 2
      BY <3>0
    <3>2. CASE j = 1
      BY <1>6, <1>11, <1>12, <1>15, <3>2
    <3>3. CASE j = 2
      BY <1>6, <1>11, <1>12, <1>15, <3>3
    <3> QED BY <3>1, <3>2, <3>3
  <2> QED BY <2>1, <2>2, <2>3 DEF Continues
<1>17. k + Len(c.cells) = Len(block)
  BY <1>3, <1>6, <1>11, <1>12, <1>15
<1> QED BY <1>7, <1>12, <1>13, <1>14, <1>16, <1>17

-----------------------------------------------------------------------------
(* The halves of an entry are cells. *)
LEMMA EntryCellSet ==
  ASSUME NEW e \in EntrySet
  PROVE  EntryHead(e) \in CellSet /\ EntryTail(e) \in CellSet
<1>1. e.id \in Nat /\ e.num_records \in Nat
  BY StoreAssumption DEF EntrySet
<1>2. e.block_offset \in Nat /\ e.block_size \in Nat /\ e.num_fastscan_blocks \in Nat
  BY DEF EntrySet
<1> QED BY <1>1, <1>2 DEF EntryHead, EntryTail, CellSet

(* The entries' cells are fixed at their offsets ... *)
LEMMA EntryCellsFixed ==
  WriterInv => \A i \in 1..Len(lookup_table) :
    /\ EntryOffset(i) \in Nat
    /\ Fixed(EntryOffset(i), EntryHead(lookup_table[i]))
    /\ Fixed(EntryOffset(i) + 1, EntryTail(lookup_table[i]))
BY PublishedCells

(* ... in the next state too. *)
LEMMA EntryCellsFixedNext ==
  (WriterInv => \A i \in 1..Len(lookup_table) :
    /\ EntryOffset(i) \in Nat
    /\ Fixed(EntryOffset(i), EntryHead(lookup_table[i]))
    /\ Fixed(EntryOffset(i) + 1, EntryTail(lookup_table[i])))'
BY EntryCellsFixed, PTL

(* ... the entry names it, and the padding starts where it ends. *)
LEMMA EntryChunks ==
  ASSUME WriterInv, EndCluster, NEW h, h = EndHead, NEW e, e = EndTail,
         NEW at, at = EntryOffset(Len(lookup_table) + 1)
  PROVE  /\ at \in Nat /\ at = 2 * (Len(lookup_table) + 1) /\ at + 1 < TableEnd
         /\ h \in ChunkSet /\ h.what = "entry"
         /\ \A o \in Nat : Covers(h, o) <=> o = at
         /\ \A o \in Nat : Covers(h, o) => CellIn(h, o) = EntryHead(PatchedEntry)
         /\ e \in ChunkSet /\ e.what = "entry"
         /\ \A o \in Nat : Covers(e, o) <=> o = at + 1
         /\ \A o \in Nat : Covers(e, o) => CellIn(e, o) = EntryTail(PatchedEntry)
<1>1. cluster.stage = "addresses"
  BY DEF EndCluster
<1>2. PatchedEntry \in EntrySet /\ Active
  BY <1>1, EntryPatched
<1>3. EntryHead(PatchedEntry) \in CellSet /\ EntryTail(PatchedEntry) \in CellSet
  BY <1>2, EntryCellSet
<1>4. Len(lookup_table) \in Nat /\ Len(lookup_table) < NumClusters
  BY <1>2, WriterNumbers DEF WriterInv, ClusterInv
<1>5. PICK n \in Nat : n = Len(lookup_table)
  BY <1>4
<1>6. at = 2 * (n + 1) /\ at \in Nat /\ TableEnd = 2 + 2 * NumClusters /\ NumClusters \in Nat
  <2>1. n + 1 \in Nat \ {0} /\ at = EntryOffset(n + 1)
    BY <1>5
  <2> QED BY <2>1, Offsets
<1>7. at + 1 < TableEnd
  <2>1. n < NumClusters
    BY <1>4, <1>5
  <2> QED BY <1>6, <2>1
<1>8. "entry" \in Whats
  BY DEF Whats
<1>9. /\ h \in ChunkSet /\ h.what = "entry"
      /\ \A o \in Nat : Covers(h, o) <=> o = at
      /\ \A o \in Nat : Covers(h, o) => CellIn(h, o) = EntryHead(PatchedEntry)
  <2>1. h = Chunk("entry", at, <<EntryHead(PatchedEntry)>>)
    BY DEF EndHead
  <2> QED BY <1>3, <1>6, <1>8, <2>1, CellChunk
<1>10. /\ e \in ChunkSet /\ e.what = "entry"
       /\ \A o \in Nat : Covers(e, o) <=> o = at + 1
       /\ \A o \in Nat : Covers(e, o) => CellIn(e, o) = EntryTail(PatchedEntry)
  <2>1. e = Chunk("entry", at + 1, <<EntryTail(PatchedEntry)>>)
    BY DEF EndTail
  <2>2. at + 1 \in Nat
    BY <1>6
  <2> QED BY <1>3, <1>8, <2>1, <2>2, CellChunk
<1> QED BY <1>5, <1>6, <1>7, <1>9, <1>10

(* None of EndCluster's four writes reaches a block or an entry of another  *)
(* cluster.                                                                 *)
LEMMA EndFits ==
  ASSUME WriterInv, EndCluster, NEW t, t = EndTrailer, NEW h, h = EndHead,
         NEW e, e = EndTail, NEW d, d = EndPad
  PROVE  /\ Fit(t)' /\ Fit(h)' /\ Fit(e)' /\ Fit(d)'
         /\ d \in ChunkSet /\ d.what = "pad"
<1>1. cluster.stage = "addresses" /\ current_offset' = RoundUpToMultiple(BlockEnd, AlignSize)
  BY DEF EndCluster
<1>2. /\ WriterInv' /\ Len(lookup_table') = Len(lookup_table) + 1 /\ Len(lookup_table) \in Nat
      /\ lookup_table'[Len(lookup_table) + 1] = PatchedEntry
      /\ current_offset' \in Nat /\ BlockEnd <= current_offset'
  BY WriterEnds
<1>3. Grows /\ Places' = Places
  BY EndGrows
<1>4. Active /\ cluster.block_start \in Nat /\ BlockEnd \in Nat
      /\ BlockEnd = PatchedEntry.block_offset + PatchedEntry.block_size
      /\ cluster.block_start <= BlockEnd
  BY <1>1, EntryPatched
<1>5. Fit(t)'
  <2>1. /\ t \in ChunkSet /\ current_offset - cluster.block_start \in Nat
        /\ Continues(t, CellsOf(layout, OwnPlace), OwnPlace.at,
                     current_offset - cluster.block_start)
    BY <1>1, TrailerEndsBlock
  <2>2. OwnPlace \in Places
    BY <1>4, OwnPlaces
  <2>3. \A o \in Nat : Covers(t, o) => Fixed(o, CellIn(t, o))
    BY <2>1, <2>2, ContinuesFits
  <2>4. \A o \in Nat : Covers(t, o) => Fixed(o, CellIn(t, o))'
    BY <1>3, <2>3, StaysAllowed
  <2> QED BY <2>4 DEF Fit
<1>6. PICK at, i : i = Len(lookup_table) + 1 /\ at = EntryOffset(i)
  OBVIOUS
<1>7. /\ at \in Nat
      /\ \A o \in Nat : Covers(h, o) <=> o = at
      /\ \A o \in Nat : Covers(h, o) => CellIn(h, o) = EntryHead(PatchedEntry)
      /\ \A o \in Nat : Covers(e, o) <=> o = at + 1
      /\ \A o \in Nat : Covers(e, o) => CellIn(e, o) = EntryTail(PatchedEntry)
  BY <1>6, EntryChunks
<1>8. PICK head, tail : head = EntryHead(PatchedEntry) /\ tail = EntryTail(PatchedEntry)
  OBVIOUS
<1>9. Fixed(at, head)' /\ Fixed(at + 1, tail)'
  <2>1. i \in 1..Len(lookup_table')
    BY <1>2, <1>6
  <2>2. lookup_table'[i] = PatchedEntry
    BY <1>2, <1>6
  <2>3. EntryHead(lookup_table'[i]) = head /\ EntryTail(lookup_table'[i]) = tail
    BY <1>8, <2>2
  <2>4. Fixed(EntryOffset(i), EntryHead(lookup_table[i]))'
        /\ Fixed(EntryOffset(i) + 1, EntryTail(lookup_table[i]))'
    BY <1>2, <2>1, EntryCellsFixedNext
  <2>5. EntryOffset(i)' = at
    BY <1>6 DEF EntryOffset, TableStart, lookup_entry_size
  <2> QED BY <2>3, <2>4, <2>5
<1>10. Fit(h)'
  BY <1>7, <1>8, <1>9 DEF Fit
<1>11. Fit(e)'
  BY <1>7, <1>8, <1>9 DEF Fit
<1>12. /\ d \in ChunkSet /\ d.what = "pad"
       /\ \A o \in Nat : Covers(d, o) <=> (BlockEnd <= o /\ o < current_offset')
       /\ \A o \in Nat : Covers(d, o) => CellIn(d, o) = Zero
  BY <1>1, <1>4, PadChunk DEF EndPad
<1>13. Fit(d)'
  <2> SUFFICES ASSUME NEW o \in Nat, Covers(d, o) PROVE Loose(o, CellIn(d, o))'
    BY DEF Fit
  <2>1. BlockEnd <= o /\ o < current_offset' /\ CellIn(d, o) = Zero
    BY <1>12
  <2>2. TableEnd <= BlockEnd /\ Frontier = cluster.block_start
    <3>1. FirstBlock <= OwnPlace.at /\ Frontier = OwnPlace.at /\ OwnPlace.at = cluster.block_start
      BY <1>4, OwnPlaces
    <3>2. TableEnd <= FirstBlock /\ FirstBlock \in Nat /\ TableEnd \in Nat
      BY Offsets
    <3> QED BY <1>4, <3>1, <3>2
  <2>3. ASSUME NEW p \in Places PROVE ~ Within(layout, p, o)
    <3>1. PlaceEnd(layout, p) <= BlockEnd /\ PlaceEnd(layout, p) \in Nat
      <4>1. p \in PlaceSet /\ layout \in AllLayouts
        BY DEF Places, WriterInv, WriterType
      <4>2. PlaceEnd(layout, p) \in Nat
        BY <4>1, PlaceShape
      <4>3. ASSUME NEW j \in 1..Len(lookup_table), p = EntryPlace(lookup_table[j])
            PROVE  PlaceEnd(layout, p) <= BlockEnd
        <5>1. PlaceEnd(layout, p) <= Frontier
          BY <4>3, EntryPlaces
        <5> QED BY <1>4, <2>2, <4>2, <5>1
      <4>4. ASSUME p = OwnPlace PROVE PlaceEnd(layout, p) <= BlockEnd
        <5>1. /\ BlockEnd = cluster.block_start + Len(Codes(layout, cluster.id, cluster.num_records))
                   + cluster.num_records + 2
              /\ Len(BlockCells(layout, cluster.id, cluster.num_records))
                   = Len(Codes(layout, cluster.id, cluster.num_records)) + cluster.num_records + 2
              /\ Len(Codes(layout, cluster.id, cluster.num_records)) \in Nat
              /\ cluster.num_records \in Nat
          BY <1>1, EntryPatched
        <5>2. /\ OwnPlace.at = cluster.block_start
              /\ CellsOf(layout, OwnPlace) = BlockCells(layout, cluster.id, cluster.num_records)
          BY <1>4, OwnPlaces
        <5>3. PlaceEnd(layout, p)
                = cluster.block_start + Len(BlockCells(layout, cluster.id, cluster.num_records))
          BY <4>4, <5>2 DEF PlaceEnd
        <5> QED BY <1>4, <5>1, <5>3
      <4> QED BY <4>2, <4>3, <4>4 DEF Places
    <3> QED BY <1>4, <2>1, <3>1 DEF Within
  <2>4. layout' = layout
    BY <1>3 DEF Grows
  <2>5. \A p \in Places : ~ Within(layout, p, o)'
    BY <2>3, <2>4 DEF Within, PlaceEnd, CellsOf
  <2>6. TableEnd' = TableEnd /\ TableEnd <= o
    <3>1. TableEnd' = TableEnd
      BY DEF TableEnd
    <3> QED BY <1>4, <2>1, <2>2, <3>1, TableEndBounds
  <2>7. PICK cell : cell = CellIn(d, o)
    OBVIOUS
  <2>8. Loose(o, cell)'
    BY <1>3, <2>1, <2>5, <2>6, <2>7 DEF Loose
  <2> QED BY <2>7, <2>8
<1> QED BY <1>5, <1>10, <1>11, <1>12, <1>13

-----------------------------------------------------------------------------
(* Before EndCluster nothing, on the disk or on its way there, names the    *)
(* block in progress.                                                       *)
LEMMA TailNotYet ==
  ASSUME WriterInv, StreamInv, EndCluster, NEW p \in 0..Len(buffered),
         NEW at, at = EntryOffset(Len(lookup_table) + 1)
  PROVE  ~ Shown(p, at + 1, EntryTail(PatchedEntry))
<1> SUFFICES ASSUME Shown(p, at + 1, EntryTail(PatchedEntry)) PROVE FALSE
  OBVIOUS
<1>1. PICK tail : tail = EntryTail(PatchedEntry)
  OBVIOUS
<1>2. tail.k = "tail"
  BY <1>1 DEF EntryTail
<1>3. PICK n \in Nat : n = Len(lookup_table)
  BY WriterNumbers
<1>4. /\ at \in Nat /\ at = 2 * (n + 1) /\ at + 1 < TableEnd
  BY <1>3, EntryChunks
<1>5. PICK o \in Nat : o = at + 1
  BY <1>4
<1>6. Allowed(o, tail)
  <2>1. Shown(p, o, tail) /\ p \in Nat
    BY <1>1, <1>5, StreamNumbers
  <2>2. \/ o \in DOMAIN disk /\ disk[o] = tail
        \/ \E q \in 1..p : Covers(buffered[q], o) /\ CellIn(buffered[q], o) = tail
    BY <2>1, ShownFrom DEF Shown
  <2>3. CASE o \in DOMAIN disk /\ disk[o] = tail
    BY <2>3 DEF StreamInv, DiskInv
  <2>4. CASE \E q \in 1..p : Covers(buffered[q], o) /\ CellIn(buffered[q], o) = tail
    <3>1. PICK q \in 1..p : Covers(buffered[q], o) /\ CellIn(buffered[q], o) = tail
      BY <2>4
    <3>2. q \in 1..Len(buffered)
      BY StreamNumbers
    <3> QED BY <3>1, <3>2 DEF StreamInv, BufferInv
  <2> QED BY <2>2, <2>3, <2>4
<1>7. ~ OfHeader(o, tail)
  <2>1. o # 0 /\ o # 1
    BY <1>4, <1>5
  <2>2. tail # Zero
    BY <1>2 DEF Zero
  <2> QED BY <2>1, <2>2 DEF OfHeader
<1>8. ~ OfEntry(o, tail)
  <2> SUFFICES ASSUME NEW i \in 1..n, o = EntryOffset(i) \/ o = EntryOffset(i) + 1 PROVE FALSE
    BY <1>3 DEF OfEntry
  <2>1. EntryOffset(i) = 2 * i
    BY Offsets
  <2> QED BY <1>4, <1>5, <2>1
<1>9. ~ OfBlock(o, tail)
  <2> SUFFICES ASSUME NEW q \in Places, Within(layout, q, o) PROVE FALSE
    BY DEF OfBlock
  <2>1. q.at <= o /\ FirstBlock <= q.at /\ q.at \in Nat
    BY PlacesApart DEF Within
  <2>2. TableEnd <= FirstBlock /\ FirstBlock \in Nat /\ TableEnd \in Nat
    BY Offsets
  <2> QED BY <1>4, <1>5, <2>1, <2>2
<1>10. ~ Loose(o, tail)
  <2>1. o # 1
    BY <1>4, <1>5
  <2>2. ~ (TableEnd <= o)
    BY <1>4, <1>5, TableEndBounds
  <2> QED BY <2>1, <2>2, LooseOffsets
<1> QED BY <1>6, <1>7, <1>8, <1>9, <1>10 DEF Allowed, Fixed

(* With EndCluster the entry shows only after its block does. *)
LEMMA EndShows ==
  ASSUME WriterInv, StreamInv, KeptInv, EndCluster,
         NEW chunks, chunks = <<EndTrailer, EndHead, EndTail, EndPad>>,
         NEW n \in Nat, n = Len(buffered), NEW i, i = Len(lookup_table) + 1,
         NEW p \in 0..Len(buffered')
  PROVE  /\ Len(buffered') = n + 4
         /\ TailShown(p, i)' => p >= n + 3
         /\ p >= n + 3 => TailShown(p, i)' /\ Published(p, i)'
<1>1. PICK t, h, e, d : t = EndTrailer /\ h = EndHead /\ e = EndTail /\ d = EndPad
  OBVIOUS
<1>2. chunks = <<t, h, e, d>>
  BY <1>1
<1>3. cluster.stage = "addresses" /\ lost = "none" /\ writer = "open"
  BY DEF EndCluster, Checked
<1>4. Active
  BY <1>3, EntryPatched
<1>5. /\ WriterInv' /\ Len(lookup_table') = i /\ Len(lookup_table) \in Nat
      /\ lookup_table'[i] = PatchedEntry
  BY WriterEnds
<1>6. Grows /\ Places' = Places
  BY EndGrows
<1>7. /\ Fit(t)' /\ Fit(h)' /\ Fit(e)' /\ Fit(d)' /\ d \in ChunkSet
  BY <1>1, EndFits
<1>8. PICK k, cells, place : /\ place = OwnPlace /\ cells = CellsOf(layout, place)
                             /\ k = current_offset - cluster.block_start
  OBVIOUS
<1>9. /\ t \in ChunkSet /\ t.at = current_offset /\ k \in Nat
      /\ Continues(t, cells, place.at, k) /\ k + Len(t.cells) = Len(cells)
  BY <1>1, <1>3, <1>8, TrailerEndsBlock
<1>10. PICK at : at = EntryOffset(Len(lookup_table) + 1)
  OBVIOUS
<1>11. PICK head, tail : head = EntryHead(PatchedEntry) /\ tail = EntryTail(PatchedEntry)
  OBVIOUS
<1>12. /\ at \in Nat /\ at + 1 < TableEnd
       /\ h \in ChunkSet /\ e \in ChunkSet
       /\ \A o \in Nat : Covers(h, o) <=> o = at
       /\ \A o \in Nat : Covers(h, o) => CellIn(h, o) = head
       /\ \A o \in Nat : Covers(e, o) <=> o = at + 1
       /\ \A o \in Nat : Covers(e, o) => CellIn(e, o) = tail
  BY <1>1, <1>10, <1>11, EntryChunks
<1>13. /\ chunks \in Seq(ChunkSet) /\ Len(chunks) = 4
       /\ chunks[1] = t /\ chunks[2] = h /\ chunks[3] = e /\ chunks[4] = d
  BY <1>2, <1>7, <1>9, <1>12
<1>14. Write(chunks)
  BY <1>1, <1>2 DEF EndCluster, EndChunks, EndTrailer, EndHead, EndTail, EndPad
<1>15. \A j \in 1..Len(chunks) : Fit(chunks[j])'
  <2> SUFFICES ASSUME NEW j \in 1..4 PROVE Fit(chunks[j])'
    BY <1>13
  <2>1. j = 1 \/ j = 2 \/ j = 3 \/ j = 4
    OBVIOUS
  <2>2. chunks[j] = t \/ chunks[j] = h \/ chunks[j] = e \/ chunks[j] = d
    BY <1>13, <2>1
  <2> QED BY <1>7, <2>2
<1>16. /\ Len(buffered') = n + 4 /\ Len(buffered) \in Nat
       /\ buffered'[n + 1] = t /\ buffered'[n + 2] = h /\ buffered'[n + 3] = e
  <2>1. /\ Len(buffered') = n + 4 /\ Len(buffered) \in Nat
        /\ \A j \in 1..4 : buffered'[n + j] = chunks[j]
    BY <1>3, <1>13, <1>14, WriteAdds
  <2>2. 1 \in 1..4 /\ 2 \in 1..4 /\ 3 \in 1..4
    OBVIOUS
  <2> QED BY <1>13, <2>1, <2>2
(* The entry's two cells and what the next state calls them. *)
<1>17. /\ EntryOffset(i)' = at /\ EntryHead(lookup_table[i])' = head
       /\ EntryTail(lookup_table[i])' = tail
  <2>1. EntryOffset(i)' = at
    BY <1>10 DEF EntryOffset, TableStart, lookup_entry_size
  <2>2. lookup_table'[i] = PatchedEntry
    BY <1>5
  <2> QED BY <1>11, <2>1, <2>2
<1>18. (TailShown(p, i)' <=> Shown(p, at + 1, tail)') /\ (HeadShown(p, i)' <=> Shown(p, at, head)')
  BY <1>17 DEF TailShown, HeadShown
<1>19. Fixed(at, head)' /\ Fixed(at + 1, tail)'
  <2>1. i \in 1..Len(lookup_table')
    BY <1>5
  <2>2. Fixed(EntryOffset(i), EntryHead(lookup_table[i]))'
        /\ Fixed(EntryOffset(i) + 1, EntryTail(lookup_table[i]))'
    BY <1>5, <2>1, EntryCellsFixedNext
  <2> QED BY <1>17, <2>2
<1>20. ~ Covers(t, at + 1)
  <2>1. TableEnd <= current_offset /\ current_offset \in Nat
    <3>1. /\ FirstBlock <= OwnPlace.at /\ OwnPlace.at = cluster.block_start
      BY <1>4, OwnPlaces
    <3>2. TableEnd <= FirstBlock /\ FirstBlock \in Nat /\ TableEnd \in Nat
      BY Offsets
    <3>3. current_offset \in Nat /\ cluster.block_start \in Nat
      BY <1>3, EntryPatched, WriterNumbers
    <3>4. cluster.block_start <= current_offset
      <4>1. k \in Nat /\ k = current_offset - cluster.block_start
        BY <1>8, <1>9
      <4> QED BY <3>3, <4>1
    <3> QED BY <3>1, <3>2, <3>3, <3>4
  <2>2. ~ (current_offset <= at + 1)
    BY <1>12, <2>1, TableEndBounds
  <2> QED BY <1>9, <2>2 DEF Covers
<1>21. at + 1 \in Nat /\ ~ Covers(h, at + 1)
  BY <1>12
<1>22. ASSUME NEW q \in 0..(n + 2) PROVE ~ Shown(q, at + 1, tail)'
  <2>1. ASSUME NEW r \in 0..n PROVE ~ Shown(r, at + 1, tail)'
    <3>1. r \in 0..Len(buffered)
      BY <1>16
    <3>2. ~ Shown(r, at + 1, tail)
      BY <1>10, <1>11, <3>1, TailNotYet
    <3>3. Shown(r, at + 1, tail)' <=> Shown(r, at + 1, tail)
      BY <1>13, <1>14, <1>21, <3>1, WriteShows
    <3> QED BY <3>2, <3>3
  <2>2. ~ Shown(n + 1, at + 1, tail)'
    <3>1. Shown(n + 1, at + 1, tail)' <=>
            \/ Covers(buffered'[n + 1], at + 1) /\ CellIn(buffered'[n + 1], at + 1) = tail
            \/ ~ Covers(buffered'[n + 1], at + 1) /\ Shown(n, at + 1, tail)'
      BY LaterShows
    <3>2. ~ Shown(n, at + 1, tail)'
      BY <2>1
    <3> QED BY <1>16, <1>20, <3>1, <3>2
  <2>3. ~ Shown(n + 2, at + 1, tail)'
    <3>0. PICK m \in Nat : m = n + 1
      OBVIOUS
    <3>1. Shown(m + 1, at + 1, tail)' <=>
            \/ Covers(buffered'[m + 1], at + 1) /\ CellIn(buffered'[m + 1], at + 1) = tail
            \/ ~ Covers(buffered'[m + 1], at + 1) /\ Shown(m, at + 1, tail)'
      BY LaterShows
    <3>2. m + 1 = n + 2
      BY <3>0
    <3> QED BY <1>16, <1>21, <2>2, <3>0, <3>1, <3>2
  <2>4. q \in 0..n \/ q = n + 1 \/ q = n + 2
    OBVIOUS
  <2> QED BY <2>1, <2>2, <2>3, <2>4
<1>23. TailShown(p, i)' => p >= n + 3
  <2> SUFFICES ASSUME ~ (p >= n + 3) PROVE ~ TailShown(p, i)'
    OBVIOUS
  <2>1. p \in 0..(n + 2)
    BY <1>16
  <2> QED BY <1>18, <1>22, <2>1
<1>24. ASSUME p >= n + 3 PROVE TailShown(p, i)' /\ Published(p, i)'
  <2>1. /\ n + 2 \in Len(buffered)..Len(buffered') /\ n + 3 \in Len(buffered)..Len(buffered')
        /\ p \in (n + 2)..Len(buffered') /\ p \in (n + 3)..Len(buffered')
        /\ p \in (Len(buffered) + 1)..Len(buffered')
    BY <1>16, <1>24
  <2>2. Shown(n + 3, at + 1, tail)'
    <3>0. PICK m \in Nat : m = n + 2
      OBVIOUS
    <3>1. Shown(m + 1, at + 1, tail)' <=>
            \/ Covers(buffered'[m + 1], at + 1) /\ CellIn(buffered'[m + 1], at + 1) = tail
            \/ ~ Covers(buffered'[m + 1], at + 1) /\ Shown(m, at + 1, tail)'
      BY LaterShows
    <3>2. m + 1 = n + 3
      BY <3>0
    <3>3. Covers(e, at + 1) /\ CellIn(e, at + 1) = tail
      BY <1>12, <1>21
    <3> QED BY <1>16, <3>1, <3>2, <3>3
  <2>3. Shown(n + 2, at, head)'
    <3>0. PICK m \in Nat : m = n + 1
      OBVIOUS
    <3>1. Shown(m + 1, at, head)' <=>
            \/ Covers(buffered'[m + 1], at) /\ CellIn(buffered'[m + 1], at) = head
            \/ ~ Covers(buffered'[m + 1], at) /\ Shown(m, at, head)'
      BY LaterShows
    <3>2. m + 1 = n + 2
      BY <3>0
    <3>3. Covers(h, at) /\ CellIn(h, at) = head
      BY <1>12
    <3> QED BY <1>16, <3>1, <3>2, <3>3
  <2>4. \A r \in (n + 3)..Len(buffered') : Shown(r, at + 1, tail)'
    BY <1>3, <1>5, <1>13, <1>14, <1>15, <1>19, <1>21, <2>1, <2>2, WriteStays
  <2>5. \A r \in (n + 2)..Len(buffered') : Shown(r, at, head)'
    BY <1>3, <1>5, <1>12, <1>13, <1>14, <1>15, <1>19, <2>1, <2>3, WriteStays
  <2>6. TailShown(p, i)' /\ HeadShown(p, i)'
    BY <1>18, <2>1, <2>4, <2>5
  <2>7. \A j \in 1..Len(cells) : Shown(p, place.at + j - 1, cells[j])'
    <3>1. place \in Places
      BY <1>4, <1>8, OwnPlaces
    <3>4. Len(chunks) >= 1
      BY <1>13
    <3>2. Continues(chunks[1], cells, place.at, k) /\ k + Len(chunks[1].cells) = Len(cells)
      BY <1>9, <1>13
    <3>5. /\ WriterInv' /\ Grows /\ writer = "open" /\ lost = "none" /\ Active
          /\ chunks \in Seq(ChunkSet) /\ p \in (Len(buffered) + 1)..Len(buffered')
      BY <1>3, <1>4, <1>5, <1>6, <1>13, <2>1
    <3>6. /\ place = OwnPlace /\ cells = CellsOf(layout, place) /\ k \in Nat
          /\ k = current_offset - cluster.block_start
      BY <1>8, <1>9
    <3>7. Continues(chunks[1], cells, place.at, k)
      BY <3>2
    <3>3. \A j \in 1..(k + Len(chunks[1].cells)) : Shown(p, place.at + j - 1, cells[j])'
      BY <1>14, <1>15, <3>1, <3>4, <3>5, <3>6, <3>7, OwnWritten
    <3> QED BY <3>2, <3>3
  <2>8. BlockShown(p, EntryPlace(lookup_table[i]))'
    <3>1. EntryPlace(lookup_table[i])' = place
      <4>1. lookup_table'[i] = PatchedEntry
        BY <1>5
      <4>2. EntryPlace(PatchedEntry) = OwnPlace
        BY DEF EntryPlace, PatchedEntry, OwnPlace
      <4> QED BY <1>8, <4>1, <4>2 DEF EntryPlace
    <3>2. CellsOf(layout, place)' = cells
      BY <1>6, <1>8 DEF Grows, CellsOf
    <3>3. BlockShown(p, place)'
      BY <2>7, <3>2 DEF BlockShown
    <3> QED BY <3>1, <3>3
  <2> QED BY <2>6, <2>8 DEF Published
<1> QED BY <1>16, <1>23, <1>24

-----------------------------------------------------------------------------
(* EndCluster keeps the file's invariants. *)
LEMMA EndKeeps ==
  ASSUME WriterInv, StreamInv, PublishInv, KeptInv, EndCluster
  PROVE  WriterInv' /\ StreamInv' /\ PublishInv' /\ KeptInv'
<1>1. PICK t, h, e, d : t = EndTrailer /\ h = EndHead /\ e = EndTail /\ d = EndPad
  OBVIOUS
<1>2. PICK chunks : chunks = <<t, h, e, d>>
  OBVIOUS
<1>3. PICK n \in Nat : n = Len(buffered)
  BY StreamNumbers
<1>4. PICK i : i = Len(lookup_table) + 1
  OBVIOUS
<1>5. /\ cluster.stage = "addresses" /\ lost = "none" /\ writer = "open" /\ writer' = "open"
  BY DEF EndCluster, Checked
<1>6. /\ WriterInv' /\ ~ Active' /\ Len(lookup_table') = i /\ Len(lookup_table) \in Nat
  BY <1>4, WriterEnds
<1>7. Grows
  BY EndGrows
<1>8. /\ Fit(t)' /\ Fit(h)' /\ Fit(e)' /\ Fit(d)' /\ d \in ChunkSet /\ d.what = "pad"
  BY <1>1, EndFits
<1>9. t \in ChunkSet /\ t.what = "block"
  BY <1>1, <1>5, TrailerEndsBlock
<1>10. h \in ChunkSet /\ h.what = "entry" /\ e \in ChunkSet /\ e.what = "entry"
  BY <1>1, EntryChunks
<1>11. /\ chunks \in Seq(ChunkSet) /\ Len(chunks) = 4
       /\ chunks[1] = t /\ chunks[2] = h /\ chunks[3] = e /\ chunks[4] = d
  BY <1>2, <1>8, <1>9, <1>10
<1>12. Write(chunks)
  BY <1>1, <1>2 DEF EndCluster, EndChunks, EndTrailer, EndHead, EndTail, EndPad
<1>13. ASSUME NEW j \in 1..Len(chunks)
       PROVE  chunks[j] = t \/ chunks[j] = h \/ chunks[j] = e \/ chunks[j] = d
  <2>1. j = 1 \/ j = 2 \/ j = 3 \/ j = 4
    BY <1>11
  <2> QED BY <1>11, <2>1
<1>14. \A j \in 1..Len(chunks) : Fit(chunks[j])' /\ chunks[j].what # "path"
  BY <1>8, <1>9, <1>10, <1>13
<1>15. StreamInv'
  <2>1. \A j \in 1..Len(chunks) : \A o \in Nat :
          Covers(chunks[j], o) => Allowed(o, CellIn(chunks[j], o))'
    BY <1>14 DEF Fit, Allowed
  <2> QED BY <1>5, <1>7, <1>11, <1>12, <1>14, <2>1, StreamWrites
<1>16. chunks = <<EndTrailer, EndHead, EndTail, EndPad>>
  BY <1>1, <1>2
<1>17. PublishInv'
  <2> SUFFICES ASSUME NEW p \in 0..Len(buffered'), NEW r \in 1..Len(lookup_table')
               PROVE  TailShown(p, r)' => Published(p, r)'
    BY DEF PublishInv
  <2>1. CASE r = i
    BY <1>3, <1>4, <1>16, <2>1, EndShows
  <2>2. CASE r # i
    <3>1. r \in 1..Len(lookup_table)
      BY <1>4, <1>6, <2>2
    <3>2. \A j \in 1..Len(chunks) : Fit(chunks[j])'
      BY <1>14
    <3> QED BY <1>5, <1>6, <1>7, <1>11, <1>12, <3>1, <3>2, WritePublishes
  <2> QED BY <2>1, <2>2
<1>18. KeptAt(Len(buffered))'
  <2>1. PICK p \in Nat : p = Len(buffered') /\ p \in 0..Len(buffered')
    BY <1>15, WriteAdds, <1>11, <1>12
  <2>2. TailShown(p, i)' /\ Published(p, i)' /\ Len(buffered') = n + 4
    BY <1>3, <1>4, <1>16, <2>1, EndShows
  <2>3. p \in Len(buffered)..Len(buffered')
    BY <1>3, <2>1, <2>2
  <2>4. /\ \A o \in 0..(TableEnd - 1) : Written(p, o)'
        /\ \A r \in 1..Len(lookup_table) : TailShown(p, r)' /\ Published(p, r)'
    <3>1. \A j \in 1..Len(chunks) : Fit(chunks[j])'
      BY <1>14
    <3> QED BY <1>5, <1>6, <1>7, <1>11, <1>12, <2>3, <3>1, WriteKeeps
  <2>5. \A r \in 1..Len(lookup_table') : TailShown(p, r)' /\ Published(p, r)'
    BY <1>4, <1>6, <2>2, <2>4
  <2>6. TableEnd' = TableEnd
    BY DEF TableEnd
  <2>7. KeptAt(p)'
    BY <1>6, <2>4, <2>5, <2>6 DEF KeptAt
  <2> QED BY <2>1, <2>7
<1>19. KeptInv'
  BY <1>5, <1>15, <1>18, KeptWhileOpenNext
<1> QED BY <1>6, <1>15, <1>17, <1>19

-----------------------------------------------------------------------------
(* Finalize writes the data file's path into the header. *)
LEMMA PathIsLoose ==
  \A cell : cell = PathCell(TRUE) => Loose(1, cell)
BY Zenon DEF Loose

(* In the next state too. *)
LEMMA PathIsLooseNext ==
  (\A cell : cell = PathCell(TRUE) => Loose(1, cell))'
BY PathIsLoose, PTL

(* The path is a cell. *)
LEMMA PathSet == \A cell : cell = PathCell(TRUE) => cell \in CellSet
<1>1. TRUE \in BOOLEAN
  BY Zenon
<1>2. PathCell(TRUE) \in [k : {"path"}, set : BOOLEAN]
  BY <1>1, Zenon DEF PathCell
<1> QED BY <1>2, Zenon DEF CellSet

(* Finalize keeps the file's invariants. *)
LEMMA FinalizeKeeps ==
  ASSUME WriterInv, StreamInv, PublishInv, KeptInv, Finalize
  PROVE  WriterInv' /\ StreamInv' /\ PublishInv' /\ KeptInv'
<1>1. /\ writer = "open" /\ writer' = "finalizing" /\ cluster = NoCluster
      /\ UNCHANGED <<layout, current_offset, lookup_table, cluster>>
  BY Zenon DEF Finalize
<1>2. ~ Active /\ ~ Active'
  BY <1>1 DEF Active, NoCluster
<1>3. WriterInv'
  <2>1. writer' \in WriterStates /\ writer # "closed" /\ writer' # "closed"
    BY <1>1 DEF WriterStates
  <2> QED BY <1>1, <2>1, WriterStands
<1>4. Grows
  BY <1>1, <1>2, <1>3, WriterNumbers, SamePlaces
<1>5. PICK cell : cell = PathCell(TRUE)
  BY Zenon
<1>6. PICK c : c = Chunk("path", 1, <<cell>>)
  OBVIOUS
<1>7. PICK chunks : chunks = <<c>>
  OBVIOUS
<1>8. Write(chunks)
  BY <1>5, <1>6, <1>7, Zenon DEF Finalize
<1>9. /\ c \in ChunkSet /\ c.what = "path"
      /\ \A o \in Nat : Covers(c, o) <=> o = 1
      /\ \A o \in Nat : Covers(c, o) => CellIn(c, o) = cell
  <2>1. "path" \in Whats
    BY DEF Whats
  <2>2. cell \in CellSet
    BY <1>5, PathSet
  <2> QED BY <1>6, <2>1, <2>2, CellChunk
<1>10. chunks \in Seq(ChunkSet) /\ Len(chunks) = 1 /\ chunks[1] = c
  BY <1>7, <1>9
<1>11. Fit(c)'
  <2>1. Loose(1, cell)'
    BY <1>5, PathIsLooseNext
  <2> QED BY <1>9, <2>1 DEF Fit
<1>12. \A j \in 1..Len(chunks) : Fit(chunks[j])'
  BY <1>10, <1>11
<1>13. StreamInv'
  <2>1. \A j \in 1..Len(chunks) : \A o \in Nat :
          Covers(chunks[j], o) => Allowed(o, CellIn(chunks[j], o))'
    BY <1>12 DEF Fit, Allowed
  <2>2. \A j \in 1..Len(chunks) :
          chunks[j].what = "path" => writer' = "finalizing" /\ j = Len(chunks)
    BY <1>1, <1>10
  <2> QED BY <1>1, <1>4, <1>8, <1>10, <2>1, <2>2, StreamWrites
<1>14. PublishInv'
  <2> SUFFICES ASSUME NEW p \in 0..Len(buffered'), NEW i \in 1..Len(lookup_table')
               PROVE  TailShown(p, i)' => Published(p, i)'
    BY DEF PublishInv
  <2>1. i \in 1..Len(lookup_table)
    BY <1>1
  <2> QED BY <1>1, <1>3, <1>4, <1>8, <1>10, <1>12, <2>1, WritePublishes
<1>15. KeptInv'
  <2> SUFFICES ASSUME lost' \in {"none", "path"}, NEW p \in 0..Len(buffered'),
                      \A q \in (p + 1)..Len(buffered') : buffered'[q].what = "path"
               PROVE  KeptAt(p)'
    BY DEF KeptInv
  <2>1. lost = "none" /\ \A q \in 1..Len(buffered) : buffered[q].what # "path"
    <3>1. lost' = lost
      BY DEF Write, Finalize
    <3> QED BY <1>1, <3>1 DEF StreamInv, ModeInv
  <2>2. PICK n \in Nat : n = Len(buffered)
    BY StreamNumbers
  <2>3. /\ Len(buffered') = n + 1
        /\ \A q \in 1..n : buffered'[q] = buffered[q]
    BY <1>8, <1>10, <2>1, <2>2, WriteAdds
  <2>4. KeptAt(n) /\ n \in 0..Len(buffered)
    BY <1>1, <2>1, <2>2, KeptAtEnd
  <2>5. p = n \/ p = n + 1
    <3> SUFFICES ASSUME p < n PROVE FALSE
      BY <2>3
    <3>1. p + 1 \in (p + 1)..Len(buffered') /\ p + 1 \in 1..n
      BY <2>3
    <3> QED BY <2>1, <2>2, <2>3, <3>1
  <2>6. CASE p = n
    <3>1. /\ \A o \in Nat : \A x : Shown(n, o, x)' <=> Shown(n, o, x)
          /\ \A o \in Nat : Written(n, o) => Written(n, o)'
      BY <1>8, <1>10, <2>4, WriteShows
    <3>2. KeptAt(n)'
      BY <1>1, <1>2, <2>4, <3>1, SameKept
    <3> QED BY <2>6, <3>2
  <2>7. CASE p = n + 1
    <3>1. p \in Len(buffered)..Len(buffered')
      BY <2>2, <2>3, <2>7
    <3>2. /\ \A o \in 0..(TableEnd - 1) : Written(p, o)'
          /\ \A i \in 1..Len(lookup_table) : TailShown(p, i)' /\ Published(p, i)'
      BY <1>1, <1>3, <1>4, <1>8, <1>10, <1>12, <2>1, <3>1, WriteKeeps
    <3>3. TableEnd' = TableEnd /\ Len(lookup_table') = Len(lookup_table)
      BY <1>1 DEF TableEnd
    <3> QED BY <1>2, <3>2, <3>3 DEF KeptAt
  <2> QED BY <2>5, <2>6, <2>7
<1> QED BY <1>3, <1>13, <1>14, <1>15

-----------------------------------------------------------------------------
(* Open writes the header, an empty table and padding. *)
LEMMA HeaderCells ==
  /\ \A cell : cell = HeaderCell(layout) => OfHeader(0, cell)
  /\ \A cell : cell = PathCell(FALSE) => OfHeader(1, cell)
BY Zenon DEF OfHeader

(* In the next state too. *)
LEMMA HeaderCellsNext ==
  (/\ \A cell : cell = HeaderCell(layout) => OfHeader(0, cell)
   /\ \A cell : cell = PathCell(FALSE) => OfHeader(1, cell))'
BY HeaderCells, PTL

(* The header's parts are cells. *)
LEMMA HeaderCellSet ==
  /\ \A l \in AllLayouts : HeaderCell(l) \in CellSet
  /\ \A cell : cell = PathCell(FALSE) => cell \in CellSet
<1>1. ASSUME NEW l \in AllLayouts PROVE HeaderCell(l) \in CellSet
  <2>1. kFileVersion[l] \in Nat
    BY DEF AllLayouts, kFileVersion
  <2> QED BY <2>1 DEF HeaderCell, CellSet
<1>2. FALSE \in BOOLEAN
  BY Zenon
<1>3. PathCell(FALSE) \in [k : {"path"}, set : BOOLEAN]
  BY <1>2, Zenon DEF PathCell
<1>4. \A cell : cell = PathCell(FALSE) => cell \in CellSet
  BY <1>3, Zenon DEF CellSet
<1> QED BY <1>1, <1>4

(* The write of the header covers its two offsets. *)
LEMMA HeaderChunk ==
  ASSUME NEW a \in CellSet, NEW b \in CellSet, NEW c, c = Chunk("header", 0, <<a, b>>)
  PROVE  /\ c \in ChunkSet /\ c.what = "header"
         /\ \A o \in Nat : Covers(c, o) <=> (o = 0 \/ o = 1)
         /\ CellIn(c, 0) = a /\ CellIn(c, 1) = b
<1>1. PICK cells : cells = <<a, b>>
  OBVIOUS
<1>2. cells \in Seq(CellSet) /\ Len(cells) = 2 /\ cells[1] = a /\ cells[2] = b
  BY <1>1
<1>3. c \in ChunkSet /\ c.at = 0 /\ c.what = "header" /\ c.cells = cells
  <2>1. "header" \in Whats /\ cells \in Seq(CellSet) /\ c = Chunk("header", 0, cells)
    BY <1>1, <1>2 DEF Whats
  <2> QED BY <2>1, ChunkOfBlock
<1>4. ASSUME NEW o \in Nat PROVE Covers(c, o) <=> (o = 0 \/ o = 1)
  <2>1. Covers(c, o) <=> (0 <= o /\ o < 0 + 2)
    BY <1>2, <1>3 DEF Covers
  <2> QED BY <2>1
<1>5. CellIn(c, 0) = a /\ CellIn(c, 1) = b
  BY <1>2, <1>3 DEF CellIn
<1> QED BY <1>3, <1>4, <1>5

(* OpenWriter establishes the file's invariants. *)
LEMMA OpenKeeps ==
  ASSUME WriterInv, StreamInv, PublishInv, KeptInv, NEW l \in Layouts, OpenWriter(l)
  PROVE  WriterInv' /\ StreamInv' /\ PublishInv' /\ KeptInv'
<1>1. /\ writer = "closed" /\ writer' = "open" /\ layout' = l
      /\ current_offset' = FirstBlock /\ UNCHANGED <<lookup_table, cluster>>
  BY Zenon DEF OpenWriter
<1>2. WriterInv'
  BY WriterOpens
<1>3. /\ lookup_table = << >> /\ cluster = NoCluster
      /\ disk = << >> /\ lost = "none" /\ buffered = << >>
  <2>1. buffered = << >> /\ disk = << >> /\ lost = "none"
    BY <1>1 DEF StreamInv, ModeInv
  <2> QED BY <1>1, <2>1 DEF WriterInv, TableInv
<1>4. Len(lookup_table') = 0 /\ ~ Active'
  BY <1>1, <1>3 DEF Active, NoCluster
<1>5. PICK a, b : a = HeaderCell(l) /\ b = PathCell(FALSE)
  BY Zenon
<1>6. a \in CellSet /\ b \in CellSet
  <2>1. l \in AllLayouts
    BY StoreAssumption DEF AllLayouts
  <2> QED BY <1>5, <2>1, HeaderCellSet
<1>7. PICK c : c = Chunk("header", 0, <<a, b>>)
  OBVIOUS
<1>8. PICK d : d = Chunk("header", TableStart, Zeros(NumClusters * lookup_entry_size))
  OBVIOUS
<1>9. PICK e : e = Chunk("pad", TableEnd, Padding(TableEnd))
  OBVIOUS
<1>10. PICK chunks : chunks = <<c, d, e>>
  OBVIOUS
<1>11. Write(chunks)
  BY <1>5, <1>7, <1>8, <1>9, <1>10, Zenon DEF OpenWriter, TableEnd
<1>12. /\ c \in ChunkSet /\ c.what = "header"
       /\ \A o \in Nat : Covers(c, o) <=> (o = 0 \/ o = 1)
       /\ CellIn(c, 0) = a /\ CellIn(c, 1) = b
  BY <1>6, <1>7, HeaderChunk
<1>13. /\ TableEnd \in Nat /\ TableEnd = 2 + 2 * NumClusters /\ NumClusters \in Nat
       /\ FirstBlock = RoundUpToMultiple(TableEnd, AlignSize) /\ FirstBlock \in Nat
       /\ TableEnd <= FirstBlock
  BY Offsets
<1>14. /\ d \in ChunkSet /\ d.what = "header"
       /\ \A o \in Nat : Covers(d, o) <=> (2 <= o /\ o < TableEnd)
       /\ \A o \in Nat : Covers(d, o) => CellIn(d, o) = Zero
  <2>1. PICK size \in Nat : size = NumClusters * lookup_entry_size /\ 2 + size = TableEnd
    BY <1>13 DEF lookup_entry_size
  <2>2. d = Chunk("header", 2, Zeros(size)) /\ "header" \in Whats
    BY <1>8, <2>1 DEF TableStart, Whats
  <2>3. /\ d \in ChunkSet /\ d.what = "header"
        /\ \A o \in Nat : Covers(d, o) <=> (2 <= o /\ o < 2 + size)
        /\ \A o \in Nat : Covers(d, o) => CellIn(d, o) = Zero
    BY <2>2, ZeroChunk
  <2> QED BY <2>1, <2>3
<1>15. /\ e \in ChunkSet /\ e.what = "pad"
       /\ \A o \in Nat : Covers(e, o) <=> (TableEnd <= o /\ o < FirstBlock)
       /\ \A o \in Nat : Covers(e, o) => CellIn(e, o) = Zero
  BY <1>9, <1>13, PadChunk
<1>16. /\ chunks \in Seq(ChunkSet) /\ Len(chunks) = 3
       /\ chunks[1] = c /\ chunks[2] = d /\ chunks[3] = e
  BY <1>10, <1>12, <1>14, <1>15
<1>17. /\ disk' = << >> /\ lost' = "none" /\ Len(buffered') = 3
       /\ buffered' \in Seq(ChunkSet)
       /\ buffered'[1] = c /\ buffered'[2] = d /\ buffered'[3] = e
  <2>1. /\ disk' = disk /\ lost' = lost /\ buffered' \in Seq(ChunkSet)
        /\ Len(buffered') = Len(buffered) + Len(chunks)
        /\ \A j \in 1..Len(chunks) : buffered'[Len(buffered) + j] = chunks[j]
    BY <1>3, <1>11, <1>16, WriteAdds
  <2>2. Len(buffered) = 0
    BY <1>3
  <2>3. \A j \in 1..3 : buffered'[j] = chunks[j]
    BY <1>16, <2>1, <2>2
  <2>4. buffered'[1] = chunks[1] /\ buffered'[2] = chunks[2] /\ buffered'[3] = chunks[3]
    BY <2>3
  <2> QED BY <1>3, <1>16, <2>1, <2>2, <2>4
<1>18. ASSUME NEW q \in 1..Len(buffered')
       PROVE  buffered'[q] = c \/ buffered'[q] = d \/ buffered'[q] = e
  <2>1. q = 1 \/ q = 2 \/ q = 3
    BY <1>17
  <2> QED BY <1>17, <2>1
<1>19. StreamType'
  <2>1. DOMAIN disk' = {}
    BY <1>17
  <2> QED BY <1>17, <2>1 DEF StreamType
<1>20. DiskInv'
  <2>1. DOMAIN disk' = {}
    BY <1>17
  <2> QED BY <2>1 DEF DiskInv
<1>21. BufferInv'
  <2>1. TableEnd' = TableEnd
    BY DEF TableEnd
  <2>2. ASSUME NEW o \in Nat, Covers(c, o) PROVE Allowed(o, CellIn(c, o))'
    <3>1. OfHeader(0, a)' /\ OfHeader(1, b)'
      <4>1. a = HeaderCell(layout)'
        BY <1>1, <1>5, Zenon DEF HeaderCell
      <4>2. b = PathCell(FALSE)
        BY <1>5
      <4> QED BY <4>1, <4>2, HeaderCellsNext
    <3>2. o = 0 \/ o = 1
      BY <1>12, <2>2
    <3> QED BY <1>12, <3>1, <3>2 DEF Allowed
  <2>3. ASSUME NEW o \in Nat, Covers(d, o) PROVE Allowed(o, CellIn(d, o))'
    <3>1. 2 <= o /\ o < TableEnd /\ CellIn(d, o) = Zero
      BY <1>14, <2>3
    <3>2. PICK cell : cell = CellIn(d, o)
      OBVIOUS
    <3>3. OfHeader(o, cell)'
      BY <2>1, <3>1, <3>2, Zenon DEF OfHeader, TableStart
    <3> QED BY <3>2, <3>3 DEF Allowed
  <2>4. ASSUME NEW o \in Nat, Covers(e, o) PROVE Allowed(o, CellIn(e, o))'
    <3>1. TableEnd <= o /\ o < current_offset' /\ CellIn(e, o) = Zero
      BY <1>1, <1>15, <2>4
    <3>2. PICK cell : cell = CellIn(e, o)
      OBVIOUS
    <3>3. Places' = {}
      BY <1>4 DEF Places
    <3>4. Loose(o, cell)'
      BY <2>1, <3>1, <3>2, <3>3 DEF Loose
    <3> QED BY <3>2, <3>4 DEF Allowed
  <2> SUFFICES ASSUME NEW q \in 1..Len(buffered'), NEW o \in Nat, Covers(buffered'[q], o)
               PROVE  Allowed(o, CellIn(buffered[q], o))'
    BY DEF BufferInv
  <2> QED BY <1>18, <2>2, <2>3, <2>4
<1>22. ModeInv'
  <2>1. \A q \in 1..Len(buffered') : buffered'[q].what # "path"
    BY <1>12, <1>14, <1>15, <1>18
  <2> QED BY <1>1, <1>17, <2>1 DEF ModeInv
<1>23. StreamInv'
  BY <1>19, <1>20, <1>21, <1>22 DEF StreamInv
<1>24. PublishInv'
  BY <1>4 DEF PublishInv
<1>25. KeptAt(Len(buffered))'
  <2>1. PICK p : p = 3
    OBVIOUS
  <2>2. ASSUME NEW o \in 0..(TableEnd - 1) PROVE Written(p, o)'
    <3>1. o \in Nat /\ (o = 0 \/ o = 1 \/ (2 <= o /\ o < TableEnd))
      BY <1>13
    <3>2. Covers(buffered'[1], o) \/ Covers(buffered'[2], o)
      BY <1>12, <1>14, <1>17, <3>1
    <3>3. 1 \in 1..p /\ 2 \in 1..p
      BY <2>1
    <3> QED BY <3>2, <3>3 DEF Written
  <2>3. TableEnd' = TableEnd
    BY DEF TableEnd
  <2>4. KeptAt(p)'
    BY <1>4, <2>2, <2>3 DEF KeptAt
  <2> QED BY <1>17, <2>1, <2>4
<1>26. KeptInv'
  BY <1>1, <1>23, <1>25, KeptWhileOpenNext
<1> QED BY <1>2, <1>23, <1>24, <1>26

-----------------------------------------------------------------------------
(* The steps that write nothing. *)
LEMMA BeginKeeps ==
  ASSUME WriterInv, StreamInv, PublishInv, KeptInv,
         NEW id \in Ids \ WrittenIds, NEW n \in Sizes, BeginCluster(id, n)
  PROVE  WriterInv' /\ StreamInv' /\ PublishInv' /\ KeptInv'
<1>1. /\ writer = "open" /\ cluster'.block_start = current_offset
      /\ UNCHANGED <<disk, buffered, lost, writer, layout, current_offset, lookup_table>>
  BY DEF BeginCluster, streamVars
<1>2. WriterInv' /\ Grows
  BY WriterBegins, BeginGrows
<1>3. StreamInv'
  <2>1. ModeInv'
    BY <1>1 DEF StreamInv, ModeInv
  <2> QED BY <1>1, <1>2, <2>1, StreamStands DEF streamVars
<1>4. PublishInv'
  BY <1>1, PublishStands
<1>5. lost' = "none" => KeptAt(Len(buffered))'
  <2> SUFFICES ASSUME lost = "none" PROVE KeptAt(Len(buffered))'
    BY <1>1
  <2>1. PICK p \in Nat : p = Len(buffered)
    BY StreamNumbers
  <2>2. KeptAt(p)
    BY <1>1, <2>1, KeptAtEnd
  <2>3. /\ \A o \in Nat : \A cell : Shown(p, o, cell)' <=> Shown(p, o, cell)
        /\ \A o \in Nat : Written(p, o)' <=> Written(p, o)
    BY <1>1, StandShows
  <2>4. \A o \in 0..(TableEnd - 1) : Written(p, o)'
    <3>1. \A o \in 0..(TableEnd - 1) : o \in Nat
      BY TableEndBounds
    <3> QED BY <2>2, <2>3, <3>1 DEF KeptAt
  <2>5. ASSUME NEW i \in 1..Len(lookup_table) PROVE TailShown(p, i)' /\ Published(p, i)'
    <3>1. TailShown(p, i) /\ Published(p, i)
      BY <2>2 DEF KeptAt
    <3>2. lookup_table'[i] = lookup_table[i] /\ layout' = layout
      BY <1>1
    <3> QED BY <2>3, <3>1, <3>2, SameShown
  <2>6. OwnShown(p)'
    <3>1. current_offset' - cluster'.block_start = 0
      BY <1>1, WriterNumbers
    <3> QED BY <3>1 DEF OwnShown
  <2>7. TableEnd' = TableEnd /\ Len(lookup_table') = Len(lookup_table)
    BY <1>1 DEF TableEnd
  <2>8. KeptAt(p)'
    BY <2>4, <2>5, <2>6, <2>7 DEF KeptAt
  <2> QED BY <1>1, <2>1, <2>8
<1>6. KeptInv'
  BY <1>1, <1>3, <1>5, KeptWhileOpenNext
<1> QED BY <1>2, <1>3, <1>4, <1>6

(* EndCluster's return writes nothing. *)
LEMMA ReturnKeeps ==
  ASSUME WriterInv, StreamInv, PublishInv, KeptInv, EndClusterReturns
  PROVE  WriterInv' /\ StreamInv' /\ PublishInv' /\ KeptInv'
<1>1. UNCHANGED <<disk, buffered, lost, writer, layout, current_offset, lookup_table>>
  BY DEF EndClusterReturns, streamVars
<1>2. WriterInv' /\ ~ Active /\ ~ Active'
  BY WriterReturns
<1>3. Grows
  BY <1>1, <1>2, WriterNumbers, SamePlaces
<1>4. StreamInv'
  <2>1. ModeInv'
    BY <1>1 DEF StreamInv, ModeInv
  <2> QED BY <1>1, <1>3, <2>1, StreamStands DEF streamVars
<1>5. PublishInv'
  BY <1>1, PublishStands
<1>6. KeptInv'
  BY <1>1, <1>2, KeptStands
<1> QED BY <1>2, <1>4, <1>5, <1>6

(* Finalize returns, or the builder gives up. *)
LEMMA StopKeeps ==
  ASSUME WriterInv, StreamInv, PublishInv, KeptInv, FinalizeReturns \/ Abandon
  PROVE  WriterInv' /\ StreamInv' /\ PublishInv' /\ KeptInv'
<1>1. /\ UNCHANGED <<disk, buffered, lost, layout, current_offset, lookup_table, cluster>>
      /\ writer \in {"open", "finalizing"} /\ writer' \in {"finalized", "failed"}
  BY DEF FinalizeReturns, Abandon, streamVars
<1>2. writer' = "finalized" => /\ writer = "finalizing" /\ buffered = << >>
                               /\ lost \in {"none", "path"}
  BY DEF FinalizeReturns, Abandon
<1>3. WriterInv'
  <2>1. writer' \in WriterStates /\ writer # "closed" /\ writer' # "closed"
    BY <1>1 DEF WriterStates
  <2> QED BY <1>1, <2>1, WriterStands
<1>4. Active' <=> Active
  BY <1>1 DEF Active
<1>5. Grows
  <2>1. OwnPlace' = OwnPlace
    BY <1>1 DEF OwnPlace
  <2> QED BY <1>1, <1>3, <1>4, <2>1, WriterNumbers, SamePlaces
<1>6. StreamInv'
  <2>1. ModeInv'
    <3>1. buffered # << >> => writer' = "failed"
      BY <1>1, <1>2
    <3> QED BY <1>1, <1>2, <3>1 DEF StreamInv, ModeInv
  <2> QED BY <1>1, <1>5, <2>1, StreamStands DEF streamVars
<1>7. PublishInv'
  BY <1>1, PublishStands
<1>8. KeptInv'
  BY <1>1, <1>4, KeptStands
<1> QED BY <1>3, <1>6, <1>7, <1>8

(* What leaves the writer alone: its entries and places stay. *)
LEMMA FrozenGrows ==
  ASSUME WriterInv, UNCHANGED <<layout, current_offset, lookup_table, cluster>>, WriterInv'
  PROVE  Grows
<1>1. (Active' <=> Active) /\ OwnPlace' = OwnPlace
  BY DEF Active, OwnPlace
<1> QED BY <1>1, WriterNumbers, SamePlaces

(* A crash: the disk keeps a prefix of the writes. *)
LEMMA CrashKeeps ==
  ASSUME WriterInv, StreamInv, PublishInv, KeptInv, Crash
  PROVE  WriterInv' /\ StreamInv' /\ PublishInv' /\ KeptInv'
<1>1. /\ disk' = disk /\ buffered' = << >> /\ lost' \in Whats \cup {"none"}
      /\ writer' = "failed" /\ writer # "closed"
      /\ UNCHANGED <<layout, current_offset, lookup_table, cluster>>
      /\ ModeInv'
  BY CrashMode
<1>2. WriterInv'
  <2>1. writer' \in WriterStates /\ writer' # "closed"
    BY <1>1 DEF WriterStates
  <2> QED BY <1>1, <2>1, WriterStands
<1>3. Grows
  BY <1>1, <1>2, FrozenGrows
<1>4. StreamInv'
  BY <1>1, <1>3, StreamDrops
<1>5. PublishInv'
  BY <1>1, PublishDrops
<1>6. KeptInv'
  BY <1>1 DEF KeptInv
<1> QED BY <1>2, <1>4, <1>5, <1>6

(* A write fails: the same prefix, and the stream is bad from then on. *)
LEMMA FailKeeps ==
  ASSUME WriterInv, StreamInv, PublishInv, KeptInv, FlushFails
  PROVE  WriterInv' /\ StreamInv' /\ PublishInv' /\ KeptInv'
<1>1. /\ disk' = disk /\ buffered' = << >> /\ lost' \in Whats \cup {"none"}
      /\ UNCHANGED writerVars /\ ModeInv'
  BY FlushFailsMode
<1>2. WriterInv'
  BY <1>1, WriterFrozen
<1>3. Grows
  BY <1>1, <1>2, FrozenGrows DEF writerVars
<1>4. StreamInv'
  BY <1>1, <1>3, StreamDrops
<1>5. PublishInv'
  BY <1>1, PublishDrops DEF writerVars
<1>6. KeptInv'
  BY KeptFails
<1> QED BY <1>2, <1>4, <1>5, <1>6

(* A write reaches the kernel. *)
LEMMA FlushStepKeeps ==
  ASSUME WriterInv, StreamInv, PublishInv, KeptInv, Flush
  PROVE  WriterInv' /\ StreamInv' /\ PublishInv' /\ KeptInv'
<1>1. WriterInv'
  BY WriterFrozen DEF Flush
<1> QED BY <1>1, StreamFlush, FlushKeeps

(* The reader writes nothing. *)
LEMMA ReaderKeeps ==
  ASSUME WriterInv, StreamInv, PublishInv, KeptInv, UNCHANGED <<streamVars, writerVars>>
  PROVE  WriterInv' /\ StreamInv' /\ PublishInv' /\ KeptInv'
<1>1. UNCHANGED <<disk, buffered, lost, writer, layout, current_offset, lookup_table, cluster>>
  BY DEF streamVars, writerVars
<1>2. WriterInv'
  BY WriterFrozen
<1>3. Grows
  BY <1>1, <1>2, FrozenGrows
<1>4. StreamInv'
  <2>1. ModeInv'
    BY <1>1 DEF StreamInv, ModeInv
  <2> QED BY <1>1, <1>3, <2>1, StreamStands DEF streamVars
<1>5. PublishInv'
  BY <1>1, PublishStands
<1>6. KeptInv'
  <2>1. Active' <=> Active
    BY <1>1 DEF Active
  <2> QED BY <1>1, <2>1, KeptStands
<1> QED BY <1>2, <1>4, <1>5, <1>6

-----------------------------------------------------------------------------
(* The file's invariant: each of its parts is inductive together with the   *)
(* others.                                                                  *)
FileInv == WriterInv /\ StreamInv /\ PublishInv /\ KeptInv

(* Before Open there is no file. *)
LEMMA FileInit == Init => FileInv
<1> SUFFICES ASSUME Init PROVE FileInv
  OBVIOUS
<1>1. /\ disk = << >> /\ buffered = << >> /\ lost = "none" /\ writer = "closed"
      /\ lookup_table = << >>
  BY DEF Init
<1>2. DOMAIN disk = {} /\ Len(buffered) = 0 /\ Len(lookup_table) = 0
  BY <1>1
<1>3. StreamInv
  <2>1. StreamType
    BY <1>1, <1>2 DEF StreamType
  <2>2. DiskInv /\ BufferInv
    BY <1>2 DEF DiskInv, BufferInv
  <2>3. ModeInv
    BY <1>1, <1>2 DEF ModeInv
  <2> QED BY <2>1, <2>2, <2>3 DEF StreamInv
<1>4. PublishInv /\ KeptInv
  BY <1>1, <1>2 DEF PublishInv, KeptInv
<1> QED BY <1>3, <1>4, WriterInit DEF FileInv

(* Every step of writer, stream and reader keeps the file's invariant. *)
LEMMA FileStep == FileInv /\ [Next]_storeVars => FileInv'
<1> SUFFICES ASSUME FileInv, [Next]_storeVars PROVE FileInv'
  OBVIOUS
<1>0. WriterInv /\ StreamInv /\ PublishInv /\ KeptInv
  BY DEF FileInv
<1> SUFFICES WriterInv' /\ StreamInv' /\ PublishInv' /\ KeptInv'
  BY DEF FileInv
<1>1. ASSUME NEW l \in Layouts, OpenWriter(l)
      PROVE  WriterInv' /\ StreamInv' /\ PublishInv' /\ KeptInv'
  BY <1>0, <1>1, OpenKeeps
<1>2. ASSUME NEW id \in Ids \ WrittenIds, NEW n \in Sizes, BeginCluster(id, n)
      PROVE  WriterInv' /\ StreamInv' /\ PublishInv' /\ KeptInv'
  BY <1>0, <1>2, BeginKeeps
<1>3. CASE WriteVectors
  BY <1>0, <1>3, VectorsKeep
<1>4. ASSUME cluster.stage = "vectors",
             NEW column \in AddressColumnsOf(cluster.id, cluster.num_records),
             WriteAddressBlocks(column)
      PROVE  WriterInv' /\ StreamInv' /\ PublishInv' /\ KeptInv'
  BY <1>0, <1>4, AddressesKeep
<1>5. CASE EndCluster
  BY <1>0, <1>5, EndKeeps
<1>6. CASE EndClusterReturns
  BY <1>0, <1>6, ReturnKeeps
<1>7. CASE Finalize
  BY <1>0, <1>7, FinalizeKeeps
<1>8. CASE FinalizeReturns \/ Abandon
  BY <1>0, <1>8, StopKeeps
<1>9. CASE Query
  <2>1. UNCHANGED <<streamVars, writerVars>>
    BY <1>9 DEF Query, OpenReader, EnsureClusterLoaded, UnloadCluster, PreloadAllClusters,
                Close, MoveReader
  <2> QED BY <1>0, <2>1, ReaderKeeps
<1>10. CASE Flush
  BY <1>0, <1>10, FlushStepKeeps
<1>11. CASE FlushFails
  BY <1>0, <1>11, FailKeeps
<1>12. CASE Crash
  BY <1>0, <1>12, CrashKeeps
<1>13. CASE UNCHANGED storeVars
  <2>1. UNCHANGED <<streamVars, writerVars>>
    BY <1>13 DEF storeVars
  <2> QED BY <1>0, <2>1, ReaderKeeps
<1> QED BY <1>1, <1>2, <1>3, <1>4, <1>5, <1>6, <1>7, <1>8, <1>9, <1>10, <1>11, <1>12, <1>13
        DEF Next, Build

(* Whatever is interleaved with the writer, the stream and the kernel, and  *)
(* wherever a write fails or the process dies: entries and blocks, in the   *)
(* file and on their way there, are those the writer meant.                 *)
THEOREM FileInvariant == Spec => []FileInv
<1>1. Init => FileInv
  BY FileInit
<1>2. FileInv /\ [Next]_storeVars => FileInv'
  BY FileStep
<1> QED BY <1>1, <1>2, PTL DEF Spec
-----------------------------------------------------------------------------
(* A cell of a block is where the writer put it, and stays.                 *)
LEMMA BlockCellsOfBlocks ==
  ASSUME NEW o, NEW cell, BlockCell(cell), Allowed(o, cell)
  PROVE  OfBlock(o, cell)
<1>1. cell.k \notin {"zero", "header", "path", "head", "tail"}
  BY DEF BlockCell
<1>2. ~ OfHeader(o, cell)
  <2>1. cell # Zero
    BY <1>1 DEF Zero
  <2>2. cell # HeaderCell(layout)
    BY <1>1 DEF HeaderCell
  <2>3. cell # PathCell(FALSE)
    <3> SUFFICES ASSUME cell = PathCell(FALSE) PROVE FALSE
      BY Zenon
    <3>1. cell.k = "path"
      BY Zenon DEF PathCell
    <3> QED BY <1>1, <3>1
  <2> QED BY <2>1, <2>2, <2>3, Zenon DEF OfHeader
<1>3. ~ OfEntry(o, cell)
  <2> SUFFICES ASSUME NEW i \in 1..Len(lookup_table),
                      \/ cell = EntryHead(lookup_table[i])
                      \/ cell = EntryTail(lookup_table[i])
               PROVE  FALSE
    BY DEF OfEntry
  <2>1. cell.k = "head" \/ cell.k = "tail"
    BY DEF EntryHead, EntryTail
  <2> QED BY <1>1, <2>1
<1>4. ~ Loose(o, cell)
  <2>1. cell # Zero
    BY <1>1 DEF Zero
  <2>2. cell # PathCell(TRUE)
    <3> SUFFICES ASSUME cell = PathCell(TRUE) PROVE FALSE
      BY Zenon
    <3>1. cell.k = "path"
      BY Zenon DEF PathCell
    <3> QED BY <1>1, <3>1
  <2> QED BY <2>1, <2>2, Zenon DEF Loose
<1> QED BY <1>2, <1>3, <1>4 DEF Allowed, Fixed

(* The action property of BlocksNeverOverwritten, from the invariant. *)
LEMMA BlockCellsStay ==
  FileInv /\ [Next]_storeVars =>
    [\A o \in DOMAIN disk :
       BlockCell(disk[o]) => o \in DOMAIN disk' /\ disk'[o] = disk[o]]_storeVars
<1> SUFFICES ASSUME FileInv, [Next]_storeVars, NEW o \in DOMAIN disk, BlockCell(disk[o])
             PROVE  o \in DOMAIN disk' /\ disk'[o] = disk[o]
  OBVIOUS
<1>1. WriterInv /\ StreamInv
  BY DEF FileInv
<1>2. CASE Flush
  <2>1. /\ \A x \in Nat : (x \in DOMAIN disk') <=> (x \in DOMAIN disk \/ Covers(buffered[1], x))
        /\ \A x \in DOMAIN disk' :
             disk'[x] = IF Covers(buffered[1], x) THEN CellIn(buffered[1], x) ELSE disk[x]
        /\ 1 \in 1..Len(buffered)
    BY <1>1, <1>2, FlushMoves
  <2>2. o \in Nat
    BY <1>1, StreamNumbers
  <2>3. o \in DOMAIN disk'
    BY <2>1, <2>2
  <2>4. ASSUME Covers(buffered[1], o) PROVE CellIn(buffered[1], o) = disk[o]
    <3>1. Allowed(o, disk[o]) /\ Allowed(o, CellIn(buffered[1], o))
      BY <1>1, <2>1, <2>2, <2>4 DEF StreamInv, DiskInv, BufferInv
    <3>2. OfBlock(o, disk[o])
      BY <3>1, BlockCellsOfBlocks
    <3> QED BY <1>1, <2>2, <3>1, <3>2, BlockCellsOnce
  <2> QED BY <2>1, <2>3, <2>4
<1>3. CASE ~ Flush
  <2>1. disk' = disk
    BY <1>3, Zenon
    DEF Next, Build, Query, OpenWriter, BeginCluster, WriteVectors, WriteAddressBlocks,
        EndCluster, EndClusterReturns, Finalize, FinalizeReturns, Abandon, OpenReader,
        EnsureClusterLoaded, UnloadCluster, PreloadAllClusters, Close, MoveReader, FlushFails,
        Crash, Write, streamVars, storeVars
  <2> QED BY <2>1
<1> QED BY <1>2, <1>3

(* A byte of a block that has reached the kernel is never written again:    *)
(* neither padding, a lookup entry, Finalize's path nor the next block      *)
(* (cluster_store.cpp) reaches it.                                          *)
THEOREM BlocksStay == Spec => BlocksNeverOverwritten
<1>1. FileInv /\ [Next]_storeVars =>
        [\A o \in DOMAIN disk :
           BlockCell(disk[o]) => o \in DOMAIN disk' /\ disk'[o] = disk[o]]_storeVars
  BY BlockCellsStay
<1> QED BY <1>1, FileInvariant, PTL DEF Spec, BlocksNeverOverwritten

-----------------------------------------------------------------------------
(* What Open reads for an entry whose two halves are on the disk. *)
LEMMA TableOffsets ==
  ASSUME NEW i \in 1..NumClusters
  PROVE  /\ EntryOffset(i) \in Nat /\ EntryOffset(i) = 2 * i
         /\ EntryOffset(i) \in 0..(TableEnd - 1) /\ EntryOffset(i) + 1 \in 0..(TableEnd - 1)
<1>1. TableEnd = 2 + 2 * NumClusters /\ NumClusters \in Nat /\ TableEnd \in Nat
  BY Offsets
<1>2. i \in Nat \ {0} /\ i <= NumClusters
  BY <1>1
<1>3. EntryOffset(i) = 2 * i
  BY <1>2, Offsets
<1> QED BY <1>1, <1>2, <1>3

(* Open reads it as EndCluster filled it in, and its block is there. *)
LEMMA EntryRead ==
  ASSUME WriterInv, NEW i \in 1..Len(lookup_table), TailShown(0, i), Published(0, i)
  PROVE  LET e == lookup_table[i]
         IN  /\ EntryOnDisk(i) = e /\ e \in EntrySet
             /\ e = Entry(layout, e.id, e.num_records, e.block_offset)
             /\ HoldsBlock(layout, e.id, e.num_records, e.block_offset)
             /\ e.id \in Ids /\ e.num_records \in Sizes /\ e.block_offset \in Nat
             /\ e.block_size # 0
<1>1. PICK e : e = lookup_table[i]
  OBVIOUS
<1>2. PICK place : place = EntryPlace(e)
  OBVIOUS
<1>3. /\ e \in EntrySet /\ e = Entry(layout, place.id, place.n, place.at)
      /\ place.id = e.id /\ place.n = e.num_records /\ place.at = e.block_offset
      /\ e.block_size = Len(CellsOf(layout, place))
  BY <1>1, <1>2, EntryPlaces
<1>4. e.id \in Ids /\ e.num_records \in Sizes /\ e.block_offset \in Nat
  BY <1>3 DEF EntrySet
<1>5. disk[EntryOffset(i)] = EntryHead(e) /\ disk[EntryOffset(i) + 1] = EntryTail(e)
  BY <1>1, ShownNone DEF Published, HeadShown, TailShown, Shown
<1>6. EntryOnDisk(i) = [id |-> e.id, num_records |-> e.num_records,
                        block_offset |-> e.block_offset, block_size |-> e.block_size,
                        num_fastscan_blocks |-> e.num_fastscan_blocks]
  BY <1>5 DEF EntryOnDisk, EntryHead, EntryTail
<1>7. EntryOnDisk(i) = e
  BY <1>3, <1>6 DEF EntrySet
<1>8. HoldsBlock(layout, e.id, e.num_records, e.block_offset)
  <2>1. BlockShown(0, place)
    BY <1>1, <1>2 DEF Published
  <2>2. CellsOf(layout, place) = BlockCells(layout, e.id, e.num_records)
    BY <1>3 DEF CellsOf
  <2>3. \A j \in 1..Len(CellsOf(layout, place)) :
          /\ place.at + j - 1 \in DOMAIN disk
          /\ disk[place.at + j - 1] = CellsOf(layout, place)[j]
    BY <2>1, ShownNone DEF BlockShown, Shown
  <2> QED BY <1>3, <2>2, <2>3 DEF HoldsBlock
<1>9. e.block_size # 0
  <2>1. layout \in AllLayouts
    BY DEF WriterInv, WriterType
  <2>2. PICK id \in Ids, n \in Sizes, at \in Nat :
          id = e.id /\ n = e.num_records /\ at = e.block_offset
    BY <1>4
  <2>3. e = Entry(layout, id, n, at)
    BY <1>3, <2>2
  <2>4. Entry(layout, id, n, at).block_size = Len(Codes(layout, id, n)) + n + 2
        /\ Len(Codes(layout, id, n)) \in Nat /\ n \in Nat
    BY <2>1, EntryType
  <2> QED BY <2>3, <2>4
<1>10. e = Entry(layout, e.id, e.num_records, e.block_offset)
  BY <1>3
<1> QED BY <1>1, <1>3, <1>4, <1>7, <1>8, <1>9, <1>10

(* A tail in the table is the tail of the entry whose place it is in. *)
LEMMA TailOfEntry ==
  ASSUME WriterInv, NEW i \in 1..NumClusters, NEW cell, cell.k = "tail",
         Allowed(EntryOffset(i) + 1, cell)
  PROVE  i \in 1..Len(lookup_table) /\ cell = EntryTail(lookup_table[i])
<1>1. PICK o \in Nat : o = EntryOffset(i) + 1
  BY TableOffsets
<1>2. o = 2 * i + 1 /\ o < TableEnd /\ TableEnd \in Nat /\ i \in Nat /\ i >= 1
  BY <1>1, TableOffsets, TableEndBounds
<1>3. ~ OfHeader(o, cell)
  <2>1. cell # Zero
    BY DEF Zero
  <2>2. o # 0 /\ o # 1
    BY <1>2
  <2> QED BY <2>1, <2>2, Zenon DEF OfHeader
<1>4. ~ OfBlock(o, cell)
  <2> SUFFICES ASSUME NEW q \in Places, Within(layout, q, o) PROVE FALSE
    BY DEF OfBlock
  <2>1. q.at <= o /\ FirstBlock <= q.at /\ q.at \in Nat
    BY PlacesApart DEF Within
  <2>2. TableEnd <= FirstBlock /\ FirstBlock \in Nat
    BY Offsets
  <2> QED BY <1>2, <2>1, <2>2
<1>5. ~ Loose(o, cell)
  <2>1. o # 1 /\ ~ (TableEnd <= o)
    BY <1>2
  <2> QED BY <2>1, LooseOffsets
<1>6. OfEntry(o, cell)
  BY <1>1, <1>3, <1>4, <1>5 DEF Allowed, Fixed
<1>7. PICK j \in 1..Len(lookup_table) :
        \/ o = EntryOffset(j) /\ cell = EntryHead(lookup_table[j])
        \/ o = EntryOffset(j) + 1 /\ cell = EntryTail(lookup_table[j])
  BY <1>6 DEF OfEntry
<1>8. EntryOffset(j) = 2 * j /\ j \in Nat
  BY WriterNumbers, Offsets
<1>9. j = i
  BY <1>2, <1>7, <1>8
<1>10. o # EntryOffset(j)
  BY <1>2, <1>8
<1> QED BY <1>7, <1>9, <1>10

(* An entry that names a block is one the writer filled in, and its block   *)
(* is on the disk.                                                          *)
LEMMA EntryOfTheFile ==
  ASSUME FileInv, TableOnDisk, NEW i \in 1..NumClusters, EntryOnDisk(i).block_size # 0
  PROVE  i \in 1..Len(lookup_table) /\ TailShown(0, i) /\ Published(0, i)
<1>1. WriterInv /\ StreamInv /\ PublishInv
  BY DEF FileInv
<1>2. PICK cell : cell = disk[EntryOffset(i) + 1]
  OBVIOUS
<1>3. EntryOffset(i) + 1 \in DOMAIN disk
  <2>1. 0..(TableEnd - 1) \subseteq DOMAIN disk
    BY DEF TableOnDisk, Has, TableEnd
  <2> QED BY <2>1, TableOffsets
<1>4. cell.k = "tail"
  BY <1>2 DEF EntryOnDisk
<1>5. Allowed(EntryOffset(i) + 1, cell)
  BY <1>1, <1>2, <1>3 DEF StreamInv, DiskInv
<1>6. i \in 1..Len(lookup_table) /\ cell = EntryTail(lookup_table[i])
  BY <1>1, <1>4, <1>5, TailOfEntry
<1>7. TailShown(0, i)
  <2>1. ShownIn(disk, buffered, 0, EntryOffset(i) + 1, cell)
    BY <1>2, <1>3, ShownNone
  <2> QED BY <1>6, <2>1 DEF TailShown, Shown
<1>8. Published(0, i)
  <2>1. 0 \in 0..Len(buffered)
    BY <1>1, StreamNumbers
  <2> QED BY <1>1, <1>6, <1>7, <2>1 DEF PublishInv
<1> QED BY <1>6, <1>7, <1>8

(* Every file version the writer writes has the V9 block format or a later  *)
(* one.                                                                     *)
LEMMA FileVersions == \A l \in AllLayouts : kFileVersion[l] \in Nat /\ kFileVersion[l] >= kFileVersionV9
BY DEF AllLayouts, kFileVersion, kFileVersionV9

(* The invariant gives the property of the published entries. *)
LEMMA EntriesParse == FileInv => PublishedEntryParses
<1> SUFFICES ASSUME FileInv, TableOnDisk, NEW i \in 1..NumClusters,
                    EntryOnDisk(i).block_size > 0
             PROVE  Faithful(layout, EntryOnDisk(i),
                      ParseClusterBlock(kFileVersion[layout], layout, EntryOnDisk(i)))
  BY DEF PublishedEntryParses
<1>1. WriterInv /\ layout \in AllLayouts
  BY DEF FileInv, WriterInv, WriterType
<1>2. EntryOnDisk(i).block_size # 0
  OBVIOUS
<1>3. i \in 1..Len(lookup_table) /\ TailShown(0, i) /\ Published(0, i)
  BY <1>2, EntryOfTheFile
<1>4. PICK e : e = lookup_table[i]
  OBVIOUS
<1>5. /\ EntryOnDisk(i) = e /\ e = Entry(layout, e.id, e.num_records, e.block_offset)
      /\ HoldsBlock(layout, e.id, e.num_records, e.block_offset)
      /\ e.id \in Ids /\ e.num_records \in Sizes /\ e.block_offset \in Nat
  BY <1>1, <1>3, <1>4, EntryRead
<1>6. kFileVersion[layout] \in Nat /\ kFileVersion[layout] >= kFileVersionV9
  BY <1>1, FileVersions
<1>7. ParseClusterBlock(kFileVersion[layout], layout,
        Entry(layout, e.id, e.num_records, e.block_offset)) = View(layout, e.id, e.num_records)
  BY <1>1, <1>5, <1>6, BlockParses
<1>8. Faithful(layout, Entry(layout, e.id, e.num_records, e.block_offset),
        View(layout, e.id, e.num_records))
  BY <1>1, <1>5, ViewFaithful
<1> QED BY <1>5, <1>7, <1>8

(* Whenever the builder dies, what of the file has reached the kernel has   *)
(* no entry that names a block which ParseClusterBlockView refuses, or from *)
(* which it reads other codes or addresses than WriteVectors and            *)
(* WriteAddressBlocks were given.                                           *)
THEOREM PublishedEntriesParse == Spec => []PublishedEntryParses
BY EntriesParse, FileInvariant, PTL

(* Only the header's own first cell is ever at its offset. *)
LEMMA HeaderOnDisk ==
  ASSUME WriterInv, NEW cell, Allowed(0, cell)
  PROVE  cell = HeaderCell(layout)
<1>1. ~ OfEntry(0, cell)
  BY EntryCells
<1>2. ~ OfBlock(0, cell)
  <2> SUFFICES ASSUME NEW q \in Places, Within(layout, q, 0) PROVE FALSE
    BY DEF OfBlock
  <2>1. q.at <= 0 /\ FirstBlock <= q.at /\ q.at \in Nat
    BY PlacesApart DEF Within
  <2>2. TableEnd <= FirstBlock /\ FirstBlock \in Nat
    BY Offsets
  <2> QED BY <2>1, <2>2, TableEndBounds
<1>3. ~ Loose(0, cell)
  <2>1. ~ (TableEnd <= 0) /\ 0 # 1
    BY TableEndBounds
  <2> QED BY <2>1, LooseOffsets
<1>4. OfHeader(0, cell)
  BY <1>1, <1>2, <1>3 DEF Allowed, Fixed
<1>5. ~ (TableStart <= 0) /\ 0 # 1
  BY DEF TableStart
<1> QED BY <1>4, <1>5, Zenon DEF OfHeader

(* The invariant gives the finished file's property. *)
LEMMA FinalizedComplete == FileInv => FinalizedFileComplete
<1> SUFFICES ASSUME FileInv, writer = "finalized"
             PROVE  TableOnDisk /\ \A i \in DOMAIN lookup_table : EntryOnDisk(i) = lookup_table[i]
  BY DEF FinalizedFileComplete
<1>1. WriterInv /\ StreamInv /\ KeptInv
  BY DEF FileInv
<1>2. buffered = << >> /\ lost \in {"none", "path"}
  BY <1>1 DEF StreamInv, ModeInv
<1>3. KeptAt(0)
  <2>1. Len(buffered) = 0
    BY <1>2
  <2> QED BY <1>1, <1>2, <2>1 DEF KeptInv
<1>4. 0..(TableEnd - 1) \subseteq DOMAIN disk
  <2>1. ASSUME NEW o \in 0..(TableEnd - 1) PROVE o \in DOMAIN disk
    <3>1. Written(0, o)
      BY <1>3 DEF KeptAt
    <3> QED BY <3>1 DEF Written
  <2> QED BY <2>1
<1>5. TableOnDisk
  <2>1. 0 \in DOMAIN disk
    <3>1. 0 \in 0..(TableEnd - 1)
      BY TableEndBounds
    <3> QED BY <1>4, <3>1
  <2>2. disk[0] = HeaderCell(layout)
    <3>1. Allowed(0, disk[0])
      BY <1>1, <2>1 DEF StreamInv, DiskInv
    <3> QED BY <1>1, <3>1, HeaderOnDisk
  <2>3. Kind(0) = "header"
    BY <2>1, <2>2 DEF Kind, HeaderCell
  <2> QED BY <1>4, <2>3 DEF TableOnDisk, Has, TableEnd
<1>6. ASSUME NEW i \in DOMAIN lookup_table PROVE EntryOnDisk(i) = lookup_table[i]
  <2>1. i \in 1..Len(lookup_table)
    BY <1>1 DEF WriterInv, WriterType
  <2>2. TailShown(0, i) /\ Published(0, i)
    BY <1>3, <2>1 DEF KeptAt
  <2> QED BY <1>1, <2>1, <2>2, EntryRead
<1> QED BY <1>5, <1>6

(* When Finalize has returned OK the header and the whole lookup table are  *)
(* on the disk and every entry reads as EndCluster filled it in: a write    *)
(* the kernel refused before, the path's own excepted, has made Finalize    *)
(* fail.                                                                    *)
THEOREM FinalizedFilesComplete == Spec => []FinalizedFileComplete
BY FinalizedComplete, FileInvariant, PTL

-----------------------------------------------------------------------------
(* The reader. *)
LEMMA LargestExists ==
  ASSUME NEW m \in Nat, NEW T \in SUBSET (1..m), T # {}
  PROVE  \E i \in T : \A j \in T : j <= i
<1> DEFINE Up(n) == T \cap (1..n)
           S == {n \in Nat : Up(n) # {} => \E i \in Up(n) : \A j \in Up(n) : j <= i}
<1>1. 0 \in S
  OBVIOUS
<1>2. ASSUME NEW n \in Nat, n \in S PROVE n + 1 \in S
  <2> SUFFICES ASSUME Up(n + 1) # {}
               PROVE  \E i \in Up(n + 1) : \A j \in Up(n + 1) : j <= i
    OBVIOUS
  <2>1. CASE n + 1 \in T
    <3>1. n + 1 \in Up(n + 1) /\ \A j \in Up(n + 1) : j <= n + 1
      BY <2>1
    <3> QED BY <3>1
  <2>2. CASE n + 1 \notin T
    <3>1. Up(n + 1) = Up(n)
      BY <2>2
    <3> QED BY <1>2, <3>1
  <2> QED BY <2>1, <2>2
<1> HIDE DEF S
<1>3. \A n \in Nat : n \in S
  BY <1>1, <1>2, SubsetInduction, Zenon
<1>4. Up(m) = T
  OBVIOUS
<1>5. m \in S
  BY <1>3
<1> QED BY <1>4, <1>5 DEF S

(* An open reader has the table of a file nobody writes any more. *)
OpenInv ==
  /\ buffered = << >> /\ writer \in {"finalized", "failed"}
  /\ TableOnDisk
  /\ file_version \in {0, kFileVersion[layout]}
  /\ info = [i \in 1..NumClusters |-> EntryOnDisk(i)]
ReaderInv ==
  /\ file_version # NotOpen => OpenInv
  /\ file_version = NotOpen => DOMAIN loaded = {} /\ DOMAIN resident = {} /\ ~ ready

(* Nobody but the reader moves while it is open. *)
LEMMA OnlyQueries ==
  ASSUME OpenInv, [Next]_storeVars, ~ Query
  PROVE  UNCHANGED storeVars
<1>1. ~ Build
  <2>1. writer \notin {"open", "closed", "finalizing"}
    BY DEF OpenInv
  <2> QED BY <2>1, Zenon
      DEF Build, OpenWriter, BeginCluster, WriteVectors, WriteAddressBlocks, EndCluster,
          EndClusterReturns, Finalize, FinalizeReturns, Abandon
<1>2. ~ Flush /\ ~ FlushFails /\ ~ Crash
  BY DEF OpenInv, Flush, FlushFails, Crash
<1> QED BY <1>1, <1>2 DEF Next

(* A query touches neither file nor writer. *)
LEMMA QueryLeaves ==
  ASSUME Query
  PROVE  UNCHANGED <<disk, buffered, lost, writer, layout, current_offset, lookup_table, cluster>>
BY DEF Query, OpenReader, EnsureClusterLoaded, UnloadCluster, PreloadAllClusters, Close,
       MoveReader, streamVars, writerVars

(* An open reader stays one while the file stands. *)
LEMMA OpenStands ==
  ASSUME OpenInv, UNCHANGED <<disk, buffered, writer, layout>>, info' = info,
         file_version' \in {0, file_version}
  PROVE  OpenInv'
<1>1. TableOnDisk'
  BY DEF OpenInv, TableOnDisk, Kind, Has
<1>2. \A i : EntryOnDisk(i)' = EntryOnDisk(i)
  BY DEF EntryOnDisk
<1> QED BY <1>1, <1>2 DEF OpenInv

(* The version Open finds in a header. *)
LEMMA Versions ==
  ASSUME WriterInv
  PROVE  /\ kFileVersion[layout] \in Nat /\ kFileVersion[layout] >= kFileVersionV9
         /\ kFileVersion[layout] # NotOpen /\ kFileVersion[layout] # 0 /\ NotOpen # 0
<1>1. layout \in AllLayouts
  BY DEF WriterInv, WriterType
<1>2. kFileVersion[layout] \in Nat /\ kFileVersion[layout] >= kFileVersionV9
  BY <1>1, FileVersions
<1> QED BY <1>2 DEF NotOpen, kFileVersionV9

(* Open, the queries and the preload keep the reader's invariant. *)
LEMMA ReaderStep ==
  ASSUME FileInv, ReaderInv, [Next]_storeVars
  PROVE  ReaderInv'
<1>1. WriterInv /\ StreamInv
  BY DEF FileInv
<1>2. CASE OpenReader
  <2>1. /\ file_version = NotOpen /\ writer \in {"finalized", "failed"} /\ buffered = << >>
        /\ TableOnDisk
        /\ file_version' = disk[0].version
        /\ info' = [i \in 1..NumClusters |-> EntryOnDisk(i)]
    BY <1>2 DEF OpenReader, TableOnDisk
  <2>2. UNCHANGED <<disk, buffered, writer, layout>>
    BY <1>2 DEF OpenReader, streamVars, writerVars
  <2>3. disk[0].version = kFileVersion[layout]
    <3>1. 0 \in DOMAIN disk
      BY <2>1 DEF TableOnDisk, Kind
    <3>2. disk[0] = HeaderCell(layout)
      BY <1>1, <3>1, HeaderOnDisk DEF StreamInv, DiskInv
    <3> QED BY <3>2 DEF HeaderCell
  <2>4. TableOnDisk'
    BY <2>1, <2>2 DEF TableOnDisk, Kind, Has
  <2>5. \A i : EntryOnDisk(i)' = EntryOnDisk(i)
    BY <2>2 DEF EntryOnDisk
  <2>6. OpenInv'
    BY <2>1, <2>2, <2>3, <2>4, <2>5 DEF OpenInv
  <2>7. file_version' # NotOpen
    BY <1>1, <2>1, <2>3, Versions
  <2> QED BY <2>6, <2>7 DEF ReaderInv
<1>3. CASE file_version # NotOpen
  <2>1. OpenInv
    BY <1>3 DEF ReaderInv
  <2>2. CASE ~ Query
    <3>1. UNCHANGED storeVars
      BY <2>1, <2>2, OnlyQueries
    <3>2. OpenInv'
      BY <2>1, <3>1, OpenStands DEF storeVars, streamVars, writerVars, readerVars
    <3>3. file_version' # NotOpen
      BY <1>3, <3>1 DEF storeVars, readerVars
    <3> QED BY <3>2, <3>3 DEF ReaderInv
  <2>3. CASE Close
    <3>1. /\ file_version' = NotOpen /\ DOMAIN loaded' = {} /\ DOMAIN resident' = {}
          /\ ready' = FALSE
      BY <2>3 DEF Close, EmptyMap
    <3> QED BY <3>1 DEF ReaderInv
  <2>4. CASE Query /\ ~ Close
    <3>1. UNCHANGED <<disk, buffered, writer, layout>>
      BY <2>4, QueryLeaves
    <3>2. info' = info /\ file_version' \in {0, file_version}
      BY <1>3, <2>4
      DEF Query, OpenReader, EnsureClusterLoaded, UnloadCluster, PreloadAllClusters, MoveReader
    <3>3. OpenInv'
      BY <2>1, <3>1, <3>2, OpenStands
    <3>4. file_version' # NotOpen
      BY <1>1, <1>3, <3>2, Versions
    <3> QED BY <3>3, <3>4 DEF ReaderInv
  <2> QED BY <2>2, <2>3, <2>4
<1>4. CASE file_version = NotOpen /\ ~ OpenReader
  <2>1. UNCHANGED readerVars
    <3>1. ~ Query
      <4>1. ~ (file_version > 0)
        BY <1>4 DEF NotOpen
      <4> QED BY <1>4, <4>1
          DEF Query, EnsureClusterLoaded, UnloadCluster, PreloadAllClusters, Close, MoveReader
    <3> QED BY <3>1, Zenon
        DEF Next, Build, OpenWriter, BeginCluster, WriteVectors, WriteAddressBlocks, EndCluster,
            EndClusterReturns, Finalize, FinalizeReturns, Abandon, Flush, FlushFails, Crash,
            storeVars
  <2> QED BY <1>4, <2>1 DEF ReaderInv, readerVars
<1> QED BY <1>2, <1>3, <1>4

(* EntryOf (cluster_index_) finds an entry with the id it is asked for. *)
LEMMA EntryFound ==
  ASSUME OpenInv, NEW id, Indexed(id)
  PROVE  \E i \in 1..NumClusters : EntryOf(id) = info[i] /\ info[i].id = id
<1>1. DOMAIN info = 1..NumClusters /\ NumClusters \in Nat
  BY StoreAssumption DEF OpenInv
<1> DEFINE T == {i \in 1..NumClusters : info[i].id = id}
<1>2. T # {}
  BY <1>1 DEF Indexed
<1>3. T \in SUBSET (1..NumClusters)
  OBVIOUS
<1> HIDE DEF T
<1>4. \E i \in T : \A j \in T : j <= i
  BY <1>1, <1>2, <1>3, LargestExists
<1>5. \E i \in DOMAIN info :
        /\ info[i].id = id
        /\ \A j \in DOMAIN info : info[j].id = id => j <= i
  BY <1>1, <1>4 DEF T
<1>6. PICK i \in DOMAIN info : info[i].id = id /\ EntryOf(id) = info[i]
  BY <1>5 DEF EntryOf
<1> QED BY <1>1, <1>6

(* What EnsureClusterLoaded takes from the file was written. *)
LEMMA LoadsWhatIsWritten ==
  ASSUME FileInv, OpenInv, NEW i \in 1..NumClusters,
         LoadCluster(file_version, EntryOnDisk(i)).ok
  PROVE  /\ i \in DOMAIN lookup_table /\ lookup_table[i] = EntryOnDisk(i)
         /\ Faithful(layout, EntryOnDisk(i), LoadCluster(file_version, EntryOnDisk(i)))
<1>1. WriterInv /\ StreamInv /\ layout \in AllLayouts
  BY DEF FileInv, WriterInv, WriterType
<1>2. PICK e : e = EntryOnDisk(i)
  OBVIOUS
<1>3. TrailerOk(file_version, e)
  <2> SUFFICES ASSUME ~ TrailerOk(file_version, e) PROVE FALSE
    OBVIOUS
  <2>1. LoadCluster(file_version, e) = Rejected
    BY DEF LoadCluster
  <2>2. ~ Rejected.ok
    BY DEF Rejected
  <2> QED BY <1>2, <2>1, <2>2
<1>4. file_version = kFileVersion[layout]
  <2>1. file_version >= kFileVersionV9
    BY <1>3 DEF TrailerOk
  <2> QED BY <2>1 DEF OpenInv, kFileVersionV9
<1>5. e.block_size # 0
  <2> SUFFICES ASSUME e.block_size = 0 PROVE FALSE
    OBVIOUS
  <2>1. PICK cell : cell = disk[EntryOffset(i) + 1]
    OBVIOUS
  <2>2. Kind((e.block_offset + e.block_size) - 1) = "footer"
    BY <1>3 DEF TrailerOk
  <2>3. cell.k # "tail"
    <3> SUFFICES ASSUME cell.k = "tail" PROVE FALSE
      OBVIOUS
    <3>1. EntryOffset(i) + 1 \in DOMAIN disk
      <4>1. 0..(TableEnd - 1) \subseteq DOMAIN disk
        BY DEF OpenInv, TableOnDisk, Has, TableEnd
      <4> QED BY <4>1, TableOffsets
    <3>2. Allowed(EntryOffset(i) + 1, cell)
      BY <1>1, <2>1, <3>1 DEF StreamInv, DiskInv
    <3>3. i \in 1..Len(lookup_table) /\ cell = EntryTail(lookup_table[i])
      BY <1>1, <3>2, TailOfEntry
    <3>4. e.block_size = lookup_table[i].block_size
      BY <1>2, <2>1, <3>3 DEF EntryOnDisk, EntryTail
    <3>5. lookup_table[i].block_size # 0
      <4>1. PICK p : p = EntryPlace(lookup_table[i])
        OBVIOUS
      <4>2. /\ p \in PlaceSet
            /\ lookup_table[i].block_size = Len(CellsOf(layout, p))
        BY <1>1, <3>3, <4>1, EntryPlaces
      <4>3. /\ p.at \in Nat /\ Len(CellsOf(layout, p)) \in Nat
            /\ p.at < PlaceEnd(layout, p)
        BY <1>1, <4>2, PlaceShape
      <4> QED BY <4>2, <4>3 DEF PlaceEnd
    <3> QED BY <3>4, <3>5
  <2>4. e.block_offset = 0
    BY <1>2, <2>1, <2>3 DEF EntryOnDisk
  <2>5. -1 \notin DOMAIN disk
    BY <1>1, StreamNumbers
  <2>6. (e.block_offset + e.block_size) - 1 = -1
    BY <2>4
  <2>7. Kind(-1) = "eof"
    BY <2>5 DEF Kind
  <2> QED BY <2>2, <2>6, <2>7
<1>6. i \in 1..Len(lookup_table) /\ TailShown(0, i) /\ Published(0, i)
  BY <1>2, <1>5, EntryOfTheFile DEF OpenInv
<1>7. /\ e = lookup_table[i] /\ e = Entry(layout, e.id, e.num_records, e.block_offset)
      /\ HoldsBlock(layout, e.id, e.num_records, e.block_offset)
      /\ e.id \in Ids /\ e.num_records \in Sizes /\ e.block_offset \in Nat
  BY <1>1, <1>2, <1>6, EntryRead
<1>8. PICK id \in Ids, n \in Sizes, at \in Nat :
        id = e.id /\ n = e.num_records /\ at = e.block_offset
  BY <1>7
<1>9. LoadCluster(file_version, Entry(layout, id, n, at)) = View(layout, id, n)
  <2>1. file_version \in Nat /\ file_version >= kFileVersionV9
    BY <1>1, <1>4, Versions
  <2>2. HoldsBlock(layout, id, n, at)
    BY <1>7, <1>8
  <2> QED BY <1>1, <2>1, <2>2, BlockLoads
<1>10. Faithful(layout, Entry(layout, id, n, at), View(layout, id, n))
  BY <1>1, ViewFaithful
<1>11. Faithful(layout, e, LoadCluster(file_version, e))
  BY <1>7, <1>8, <1>9, <1>10
<1>12. i \in DOMAIN lookup_table
  BY <1>1, <1>6 DEF WriterInv, WriterType
<1> QED BY <1>2, <1>7, <1>11, <1>12

-----------------------------------------------------------------------------
(* EnsureClusterLoaded keeps only what was written for the id it is asked   *)
(* for.                                                                     *)
LEMMA LoadedStep ==
  ASSUME FileInv, ReaderInv, LoadedIsWritten, [Next]_storeVars
  PROVE  LoadedIsWritten'
<1>1. WriterInv
  BY DEF FileInv
<1>2. CASE \E id \in Ids : EnsureClusterLoaded(id)
  <2>1. PICK id \in Ids : EnsureClusterLoaded(id)
    BY <1>2
  <2>2. /\ file_version # NotOpen /\ Indexed(id)
        /\ LoadCluster(file_version, EntryOf(id)).ok
        /\ loaded' = [j \in DOMAIN loaded \cup {id} |->
                       IF j = id THEN LoadCluster(file_version, EntryOf(id)) ELSE loaded[j]]
        /\ layout' = layout /\ lookup_table' = lookup_table
    BY <2>1 DEF EnsureClusterLoaded, writerVars
  <2>3. OpenInv
    BY <2>2 DEF ReaderInv
  <2>4. PICK i \in 1..NumClusters : EntryOf(id) = info[i] /\ info[i].id = id
    BY <2>2, <2>3, EntryFound
  <2>5. info[i] = EntryOnDisk(i)
    BY <2>3 DEF OpenInv
  <2>6. /\ i \in DOMAIN lookup_table /\ lookup_table[i] = EntryOf(id)
        /\ Faithful(layout, EntryOf(id), LoadCluster(file_version, EntryOf(id)))
    BY <2>2, <2>3, <2>4, <2>5, LoadsWhatIsWritten
  <2> SUFFICES ASSUME NEW j \in DOMAIN loaded'
               PROVE  \E r \in DOMAIN lookup_table :
                        /\ lookup_table[r].id = j
                        /\ Faithful(layout, lookup_table[r], loaded'[j])
    BY <2>2 DEF LoadedIsWritten
  <2>7. CASE j = id
    <3>1. loaded'[j] = LoadCluster(file_version, EntryOf(id))
      BY <2>2, <2>7
    <3> QED BY <2>4, <2>6, <2>7, <3>1
  <2>8. CASE j # id
    <3>1. j \in DOMAIN loaded /\ loaded'[j] = loaded[j]
      BY <2>2, <2>8
    <3> QED BY <3>1 DEF LoadedIsWritten
  <2> QED BY <2>7, <2>8
<1>3. CASE ~ (\E id \in Ids : EnsureClusterLoaded(id)) /\ file_version # NotOpen
  <2>1. OpenInv
    BY <1>3 DEF ReaderInv
  <2>2. /\ layout' = layout /\ lookup_table' = lookup_table
        /\ \A j \in DOMAIN loaded' : j \in DOMAIN loaded /\ loaded'[j] = loaded[j]
    <3>1. CASE ~ Query
      <4>1. UNCHANGED storeVars
        BY <2>1, <3>1, OnlyQueries
      <4> QED BY <4>1 DEF storeVars, writerVars, readerVars
    <3>2. CASE Query
      <4>1. layout' = layout /\ lookup_table' = lookup_table
        BY <3>2, QueryLeaves
      <4>2. ASSUME NEW id \in Ids, UnloadCluster(id)
            PROVE  \A j \in DOMAIN loaded' : j \in DOMAIN loaded /\ loaded'[j] = loaded[j]
        <5>1. loaded' = [j \in DOMAIN loaded \ {id} |-> loaded[j]]
          BY <4>2 DEF UnloadCluster
        <5> QED BY <5>1
      <4>3. CASE Close
        <5>1. DOMAIN loaded' = {}
          BY <4>3 DEF Close, EmptyMap
        <5> QED BY <4>1, <5>1
      <4>4. ASSUME ~ Close, \A id \in Ids : ~ UnloadCluster(id)
            PROVE  loaded' = loaded
        BY <1>3, <3>2, <4>4, Zenon DEF Query, OpenReader, PreloadAllClusters, MoveReader
      <4> QED BY <4>1, <4>2, <4>3, <4>4
    <3> QED BY <3>1, <3>2
  <2> SUFFICES ASSUME NEW j \in DOMAIN loaded'
               PROVE  \E r \in DOMAIN lookup_table :
                        /\ lookup_table[r].id = j
                        /\ Faithful(layout, lookup_table[r], loaded'[j])
    BY <2>2 DEF LoadedIsWritten
  <2> QED BY <2>2 DEF LoadedIsWritten
<1>4. CASE file_version = NotOpen /\ ~ (\E id \in Ids : EnsureClusterLoaded(id))
  <2>1. DOMAIN loaded = {}
    BY <1>4 DEF ReaderInv
  <2>2. loaded' = loaded
    <3>1. ~ (file_version > 0)
      BY <1>4 DEF NotOpen
    <3> QED BY <1>4, <3>1, Zenon
        DEF Next, Query, Build, OpenReader, UnloadCluster, PreloadAllClusters, Close, MoveReader,
            OpenWriter, BeginCluster, WriteVectors, WriteAddressBlocks, EndCluster,
            EndClusterReturns, Finalize, FinalizeReturns, Abandon, Flush, FlushFails, Crash,
            readerVars, storeVars
  <2> QED BY <2>1, <2>2 DEF LoadedIsWritten
<1> QED BY <1>2, <1>3, <1>4

-----------------------------------------------------------------------------
(* A table the writer has filled in completely, with every block in place.  *)
AllWritten ==
  /\ Len(lookup_table) = NumClusters /\ NumClusters \in Nat \ {0}
  /\ DOMAIN info = 1..NumClusters
  /\ file_version = kFileVersion[layout]
  /\ \A i \in 1..NumClusters :
       /\ i \in DOMAIN lookup_table /\ info[i] = lookup_table[i]
       /\ info[i].id \in Ids /\ info[i].num_records \in Sizes /\ info[i].block_offset \in Nat
       /\ info[i] = Entry(layout, info[i].id, info[i].num_records, info[i].block_offset)
       /\ HoldsBlock(layout, info[i].id, info[i].num_records, info[i].block_offset)

(* When PreloadAllClusters can read each entry, the table is such a one.    *)
LEMMA ReadableTable ==
  ASSUME FileInv, OpenInv, \A i \in DOMAIN info : Readable(info[i])
  PROVE  AllWritten
<1>1. WriterInv /\ StreamInv /\ layout \in AllLayouts /\ NumClusters \in Nat \ {0}
  BY StoreAssumption DEF FileInv, WriterInv, WriterType
<1>2. DOMAIN info = 1..NumClusters /\ \A i \in 1..NumClusters : info[i] = EntryOnDisk(i)
  BY DEF OpenInv
<1>3. ASSUME NEW i \in 1..NumClusters
      PROVE  /\ LoadCluster(file_version, EntryOnDisk(i)).ok
             /\ EntryOnDisk(i).block_size # 0
  <2>1. Readable(EntryOnDisk(i))
    BY <1>2
  <2>2. PICK e : e = EntryOnDisk(i)
    OBVIOUS
  <2>3. e.block_size > 0 /\ ParseClusterBlock(file_version, layout, e).ok
    BY <2>1, <2>2 DEF Readable
  <2>4. LoadCluster(file_version, e).ok
    <3> SUFFICES ASSUME ~ LoadCluster(file_version, e).ok PROVE FALSE
      OBVIOUS
    <3>1. ParseClusterBlock(file_version, layout, e) = Rejected
      BY DEF ParseClusterBlock
    <3> QED BY <2>3, <3>1 DEF Rejected
  <2>5. e.block_size # 0
    <3> SUFFICES ASSUME e.block_size = 0 PROVE FALSE
      OBVIOUS
    <3> QED BY <2>3
  <2> QED BY <2>2, <2>4, <2>5
<1>4. ASSUME NEW i \in 1..NumClusters
      PROVE  /\ i \in DOMAIN lookup_table /\ info[i] = lookup_table[i]
             /\ info[i].id \in Ids /\ info[i].num_records \in Sizes /\ info[i].block_offset \in Nat
             /\ info[i] = Entry(layout, info[i].id, info[i].num_records, info[i].block_offset)
             /\ HoldsBlock(layout, info[i].id, info[i].num_records, info[i].block_offset)
  <2>1. i \in DOMAIN lookup_table /\ lookup_table[i] = EntryOnDisk(i)
    BY <1>3, LoadsWhatIsWritten
  <2>2. i \in 1..Len(lookup_table) /\ TailShown(0, i) /\ Published(0, i)
    BY <1>3, EntryOfTheFile DEF OpenInv
  <2>3. PICK e : e = lookup_table[i]
    OBVIOUS
  <2>4. /\ e = Entry(layout, e.id, e.num_records, e.block_offset)
        /\ HoldsBlock(layout, e.id, e.num_records, e.block_offset)
        /\ e.id \in Ids /\ e.num_records \in Sizes /\ e.block_offset \in Nat
    BY <1>1, <2>2, <2>3, EntryRead
  <2> QED BY <1>2, <2>1, <2>3, <2>4
<1>5. file_version = kFileVersion[layout]
  <2>1. 1 \in 1..NumClusters
    BY <1>1
  <2>2. LoadCluster(file_version, EntryOnDisk(1)).ok
    BY <1>3, <2>1
  <2>3. TrailerOk(file_version, EntryOnDisk(1))
    <3> SUFFICES ASSUME ~ TrailerOk(file_version, EntryOnDisk(1)) PROVE FALSE
      OBVIOUS
    <3>1. LoadCluster(file_version, EntryOnDisk(1)) = Rejected
      BY DEF LoadCluster
    <3> QED BY <2>2, <3>1 DEF Rejected
  <2>4. file_version >= kFileVersionV9
    BY <2>3 DEF TrailerOk
  <2> QED BY <2>4 DEF OpenInv, kFileVersionV9
<1>6. Len(lookup_table) = NumClusters
  <2>1. Len(lookup_table) <= NumClusters /\ Len(lookup_table) \in Nat
    BY <1>1, WriterNumbers DEF WriterInv, TableInv
  <2>2. NumClusters \in 1..NumClusters
    BY <1>1
  <2>3. NumClusters \in 1..Len(lookup_table)
    BY <1>3, <2>2, EntryOfTheFile DEF OpenInv
  <2> QED BY <1>1, <2>1, <2>3
<1> QED BY <1>1, <1>2, <1>4, <1>5, <1>6 DEF AllWritten

(* Then sorting the table by block offset permutes it: blocks lie in the    *)
(* order of their entries.                                                  *)
LEMMA OrderedPermutes ==
  ASSUME WriterInv, AllWritten
  PROVE  /\ DOMAIN Ordered = 1..NumClusters
         /\ \A i \in 1..NumClusters : \E j \in 1..NumClusters : Ordered[i] = info[j]
         /\ \A i \in 1..NumClusters : \E j \in 1..NumClusters : Ordered[j] = info[i]
<1> DEFINE F == [DOMAIN info -> DOMAIN info]
           order == CHOOSE p \in F : InFileOrder(p)
           same == [i \in DOMAIN info |-> i]
<1>1. DOMAIN info = 1..NumClusters /\ NumClusters \in Nat
  BY DEF AllWritten
<1>2. same \in F /\ InFileOrder(same)
  <2>1. same \in F /\ \A i \in DOMAIN info : same[i] = i
    OBVIOUS
  <2>2. ASSUME NEW i \in DOMAIN info, NEW j \in DOMAIN info, i < j
        PROVE  info[i].block_offset <= info[j].block_offset
    <3>1. /\ i \in 1..Len(lookup_table) /\ j \in 1..Len(lookup_table)
          /\ info[i] = lookup_table[i] /\ info[j] = lookup_table[j]
      BY <1>1 DEF AllWritten
    <3>2. lookup_table[i].block_offset + lookup_table[i].block_size
            <= lookup_table[j].block_offset
      BY <2>2, <3>1 DEF WriterInv, TableInv
    <3>3. /\ lookup_table[i].block_offset \in Nat /\ lookup_table[j].block_offset \in Nat
          /\ lookup_table[i].block_size \in Nat
      BY <3>1, EntryPlaces DEF EntrySet
    <3> QED BY <3>1, <3>2, <3>3
  <2> HIDE DEF same
  <2> QED BY <2>1, <2>2 DEF InFileOrder
<1>3. order \in F /\ InFileOrder(order)
  <2> HIDE DEF same, F
  <2> QED BY <1>2
<1>4. Ordered = [i \in DOMAIN info |-> info[order[i]]]
  BY DEF Ordered
<1> HIDE DEF order
<1>5. \A i \in DOMAIN info : order[i] \in DOMAIN info
  BY <1>3
<1>6. \A i \in DOMAIN info : \E j \in DOMAIN info : order[j] = i
  BY <1>3 DEF InFileOrder
<1> QED BY <1>1, <1>4, <1>5, <1>6

(* Rounding up to the slab's alignment does not go back. *)
LEMMA SlabRounds ==
  ASSUME NEW x \in Nat
  PROVE  /\ RoundUpToMultiple(x, SlabAlign) \in Nat
         /\ x <= RoundUpToMultiple(x, SlabAlign)
<1>1. SlabAlign \in Nat \ {0}
  BY StoreAssumption
<1>2. CeilDiv(x, SlabAlign) \in Nat /\ CeilDiv(x, SlabAlign) * SlabAlign >= x
  BY <1>1, CeilDivBounds
<1>3. CeilDiv(x, SlabAlign) * SlabAlign \in Nat
  BY <1>1, <1>2, Z3
<1> QED BY <1>2, <1>3 DEF RoundUpToMultiple

(* Each region's place in the slab begins where those before it have ended. *)
LEMMA SlabPlaces ==
  ASSUME NEW N \in Nat \ {0}, NEW views, Len(views) = N,
         \A i \in 1..N : CodeBytes(views[i]) \in Nat
  PROVE  /\ \A i \in 1..N : SlabOffsets(views)[i] \in Nat
         /\ \A i, j \in 1..N : i < j =>
              SlabOffsets(views)[i] + CodeBytes(views[i]) <= SlabOffsets(views)[j]
<1> DEFINE size(i) == CodeBytes(views[i])
           step(x, i) == RoundUpToMultiple(x + size(i), SlabAlign)
           Eq(f) == f = [i \in 1..N |-> IF i = 1 THEN 0 ELSE step(f[i - 1], i - 1)]
           at == SlabOffsets(views)
<1>0. \A i \in 1..N : size(i) \in Nat
  OBVIOUS
<1>1. \A x \in Nat : \A i \in 1..N : step(x, i) \in Nat /\ x + size(i) <= step(x, i)
  <2> TAKE x \in Nat
  <2> TAKE i \in 1..N
  <2> HIDE DEF size
  <2>1. x + size(i) \in Nat
    BY <1>0
  <2> QED BY <2>1, SlabRounds
<1>2. \E f : Eq(f)
  <2> DEFINE D == [p \in Nat \X (1..(N - 1)) |-> step(p[1], p[2])]
  <2> HIDE DEF step, size
  <2>1. D \in [Nat \X (1..(N - 1)) -> Nat] /\ N - 1 \in Nat /\ 0 \in Nat
    <3>1. \A p \in Nat \X (1..(N - 1)) : p[1] \in Nat /\ p[2] \in 1..N
      OBVIOUS
    <3>2. \A p \in Nat \X (1..(N - 1)) : step(p[1], p[2]) \in Nat
      BY <1>1, <3>1
    <3> HIDE DEF step
    <3> QED BY <3>2 DEF D
  <2>2. PICK f : Recursive(f, Nat, 0, N - 1, D)
    <3> HIDE DEF D
    <3> QED BY <2>1, RecursionExists
  <2> DEFINE g == [i \in 1..N |-> f[i - 1]]
  <2>3. /\ f[0] = 0 /\ f \in [0..(N - 1) -> Nat]
        /\ \A i \in 1..(N - 1) : f[i] = D[<<f[i - 1], i>>]
    <3> HIDE DEF D
    <3> QED BY <2>2 DEF Recursive
  <2>4. \A i \in 1..N : g[i] = IF i = 1 THEN 0 ELSE step(g[i - 1], i - 1)
    <3> TAKE i \in 1..N
    <3>1. CASE i = 1
      BY <2>3, <3>1
    <3>2. CASE i # 1
      <4>1. i - 1 \in 1..(N - 1) /\ i - 1 \in 1..N /\ (i - 1) - 1 \in 0..(N - 1)
        BY <3>2
      <4>2. f[i - 1] = step(f[(i - 1) - 1], i - 1)
        <5>1. f[(i - 1) - 1] \in Nat
          BY <2>3, <4>1
        <5> QED BY <2>3, <4>1, <5>1
      <4> QED BY <3>2, <4>1, <4>2
    <3> QED BY <3>1, <3>2
  <2>5. Eq(g)
    BY <2>4
  <2> QED BY <2>5
<1>3. Eq(at)
  <2>1. at = CHOOSE f : Eq(f)
    BY Zenon DEF SlabOffsets
  <2> HIDE DEF at, step
  <2> QED BY <1>2, <2>1
<1> HIDE DEF at, step, size
<1>4. at[1] = 0 /\ \A i \in 1..N : i + 1 \in 1..N => at[i + 1] = step(at[i], i)
  <2>1. 1 \in 1..N
    OBVIOUS
  <2>2. ASSUME NEW i \in 1..N, i + 1 \in 1..N PROVE at[i + 1] = step(at[i], i)
    <3>1. i + 1 # 1 /\ (i + 1) - 1 = i
      OBVIOUS
    <3> QED BY <1>3, <2>2, <3>1
  <2> QED BY <1>3, <2>1, <2>2
<1> DEFINE S == {k \in Nat : k + 1 \in 1..N =>
                   /\ at[k + 1] \in Nat
                   /\ \A i \in 1..k : at[i] \in Nat /\ at[i] + size(i) <= at[k + 1]}
<1>5. 0 \in S
  BY <1>4
<1>6. ASSUME NEW k \in Nat, k \in S PROVE k + 1 \in S
  <2> SUFFICES ASSUME (k + 1) + 1 \in 1..N
               PROVE  /\ at[(k + 1) + 1] \in Nat
                      /\ \A i \in 1..(k + 1) :
                           at[i] \in Nat /\ at[i] + size(i) <= at[(k + 1) + 1]
    OBVIOUS
  <2>1. k + 1 \in 1..N
    OBVIOUS
  <2>2. at[k + 1] \in Nat /\ \A i \in 1..k : at[i] \in Nat /\ at[i] + size(i) <= at[k + 1]
    BY <1>6, <2>1
  <2>3. at[(k + 1) + 1] = step(at[k + 1], k + 1)
    BY <1>4, <2>1
  <2>4. /\ at[(k + 1) + 1] \in Nat /\ at[k + 1] + size(k + 1) <= at[(k + 1) + 1]
        /\ size(k + 1) \in Nat
    BY <1>0, <1>1, <2>1, <2>2, <2>3
  <2>5. ASSUME NEW i \in 1..(k + 1)
        PROVE  at[i] \in Nat /\ at[i] + size(i) <= at[(k + 1) + 1]
    <3>1. CASE i = k + 1
      BY <2>2, <2>4, <3>1
    <3>2. CASE i # k + 1
      <4>1. i \in 1..k /\ i \in 1..N
        BY <2>1, <3>2
      <4>2. at[i] \in Nat /\ at[i] + size(i) <= at[k + 1] /\ size(i) \in Nat
        BY <1>0, <2>2, <4>1
      <4> QED BY ONLY <2>2, <2>4, <4>2
    <3> QED BY <3>1, <3>2
  <2> QED BY <2>4, <2>5
<1>7. \A k \in Nat : k \in S
  <2> HIDE DEF S
  <2> QED BY <1>5, <1>6, SubsetInduction
<1>8. ASSUME NEW j \in 1..N
      PROVE  at[j] \in Nat /\ \A i \in 1..N : i < j => at[i] + size(i) <= at[j]
  <2>1. j - 1 \in Nat /\ (j - 1) + 1 = j
    OBVIOUS
  <2>2. j - 1 \in S
    BY <1>7, <2>1
  <2> QED BY <2>1, <2>2
<1> QED BY <1>8 DEF at, size

(* So none overwrites another, and a region read from the slab is the one   *)
(* that was copied there.                                                   *)
LEMMA SlabHoldsRegions ==
  ASSUME NEW views, Len(views) \in Nat \ {0},
         \A j \in 1..Len(views) : CodeBytes(views[j]) \in Nat,
         NEW i \in 1..Len(views), NEW k \in 1..CodeBytes(views[i])
  PROVE  CodeSlab(views)[SlabOffsets(views)[i] + k - 1] = views[i].codes[k]
<1> DEFINE N == Len(views)
           at == SlabOffsets(views)
           size(j) == CodeBytes(views[j])
           inside(j, o) == at[j] <= o /\ o < at[j] + size(j)
           writers(o) == {j \in 1..N : inside(j, o)}
           latest(o) == CHOOSE r \in writers(o) : \A j \in writers(o) : j <= r
           end == at[N] + size(N)
<1>1. /\ \A j \in 1..N : at[j] \in Nat
      /\ \A r, j \in 1..N : r < j => at[r] + size(r) <= at[j]
      /\ \A j \in 1..N : size(j) \in Nat
  BY SlabPlaces
<1>2. CodeSlab(views) =
        [o \in 0..(end - 1) |->
          IF writers(o) = {} THEN Zero ELSE views[latest(o)].codes[o - at[latest(o)] + 1]]
  BY Zenon DEF CodeSlab
<1> HIDE DEF at, size, N
<1>3. PICK o : o = at[i] + k - 1
  OBVIOUS
<1>4. k \in 1..size(i) /\ i \in Nat /\ i \in 1..N /\ N \in Nat \ {0}
  BY DEF size, N
<1>5. /\ o \in Nat /\ at[i] <= o /\ o < at[i] + size(i) /\ o - at[i] + 1 = k
      /\ at[i] + size(i) <= end /\ end \in Nat
  <2>1. at[i] \in Nat /\ size(i) \in Nat /\ N \in 1..N /\ at[N] \in Nat /\ size(N) \in Nat
    BY <1>1, <1>4
  <2>2. at[i] + size(i) <= end
    <3>1. CASE i = N
      BY <2>1, <3>1
    <3>2. CASE i # N
      <4>1. at[i] + size(i) <= at[N]
        BY <1>1, <1>4, <2>1, <3>2
      <4> QED BY <2>1, <4>1
    <3> QED BY <3>1, <3>2
  <2>3. end \in Nat
    BY <2>1
  <2> HIDE DEF end
  <2>4. PICK a, z : a = at[i] /\ z = size(i)
    OBVIOUS
  <2>5. a \in Nat /\ z \in Nat /\ k \in 1..z /\ o = a + k - 1
    BY <1>3, <1>4, <2>1, <2>4
  <2>6. o \in Nat /\ a <= o /\ o < a + z /\ o - a + 1 = k
    BY ONLY <2>5
  <2> QED BY <2>2, <2>3, <2>4, <2>6
<1>6. \A j \in 1..N : inside(j, o) => j = i
  <2> SUFFICES ASSUME NEW j \in 1..N, inside(j, o), j # i PROVE FALSE
    OBVIOUS
  <2>1. at[j] \in Nat /\ at[i] \in Nat /\ size(i) \in Nat /\ size(j) \in Nat
    BY <1>1, <1>4
  <2>2. CASE j < i
    <3>1. at[j] + size(j) <= at[i]
      BY <1>1, <1>4, <2>2
    <3> QED BY <1>5, <2>1, <3>1
  <2>3. CASE i < j
    <3>1. at[i] + size(i) <= at[j]
      BY <1>1, <1>4, <2>3
    <3> QED BY <1>5, <2>1, <3>1
  <2> QED BY <1>4, <2>2, <2>3
<1>7. i \in writers(o) /\ \A j \in writers(o) : j = i
  BY <1>4, <1>5, <1>6
<1>8. latest(o) = i
  <2> HIDE DEF inside
  <2>1. i <= i
    BY <1>4
  <2> QED BY <1>7, <2>1
<1> HIDE DEF latest, end
<1>9. o \in 0..(end - 1)
  <2>1. PICK a \in Nat, z \in Nat : a = at[i] /\ z = size(i)
    BY <1>1, <1>4
  <2>2. o < a + z /\ a + z <= end /\ end \in Nat /\ o \in Nat
    BY <1>5, <2>1
  <2> QED BY ONLY <2>2, a \in Nat, z \in Nat
<1>10. CodeSlab(views)[o] = views[i].codes[o - at[i] + 1]
  BY <1>2, <1>7, <1>8, <1>9
<1> QED BY <1>3, <1>5, <1>10 DEF at

(* A view with a code region, as View makes it. *)
Views == {View(layout, id, n) : id \in Ids, n \in Sizes}

(* Moving the regions into the slab changes no view. *)
LEMMA SlabKeepsViews ==
  ASSUME layout \in AllLayouts, NEW N \in Nat \ {0}, NEW views \in [1..N -> Views],
         NEW i \in 1..N
  PROVE  InSlab(views, i) = views[i]
<1>1. ASSUME NEW j \in 1..N
      PROVE  /\ views[j].codes \in Seq(CellSet) /\ Len(views[j].codes) \in Nat
             /\ CodeBytes(views[j]) = Len(views[j].codes)
             /\ views[j].codes = [o \in 1..Len(views[j].codes) |-> views[j].codes[o]]
             /\ \A c : [views[j] EXCEPT !.codes = c] = views[j] <=> c = views[j].codes
  <2>1. PICK id \in Ids, n \in Sizes : views[j] = View(layout, id, n)
    BY DEF Views
  <2>2. id \in Nat /\ n \in Nat
    BY AddressesStorable
  <2>3. PICK v, codes : v = views[j] /\ codes = Codes(layout, id, n)
    OBVIOUS
  <2>4. codes \in Seq(CellSet)
    BY <2>2, <2>3, CodesShape
  <2>5. v.codes = codes
    BY <2>1, <2>3 DEF View
  <2>6. \A c : [v EXCEPT !.codes = c] = v <=> c = v.codes
    BY <2>1, <2>3 DEF View
  <2>7. codes = [o \in 1..Len(codes) |-> codes[o]] /\ Len(codes) \in Nat
    BY <2>4
  <2> QED BY <2>3, <2>4, <2>5, <2>6, <2>7 DEF CodeBytes
<1>2. Len(views) = N
  OBVIOUS
<1>3. \A j \in 1..Len(views) : CodeBytes(views[j]) \in Nat
  BY <1>1, <1>2
<1>4. \A k \in 1..CodeBytes(views[i]) :
        CodeSlab(views)[SlabOffsets(views)[i] + k - 1] = views[i].codes[k]
  BY <1>2, <1>3, SlabHoldsRegions
<1>5. PICK v, slab, at : v = views[i] /\ slab = CodeSlab(views) /\ at = SlabOffsets(views)[i]
  OBVIOUS
<1>6. [k \in DOMAIN v.codes |-> slab[at + k - 1]] = v.codes
  <2>1. DOMAIN v.codes = 1..Len(v.codes) /\ v.codes = [o \in 1..Len(v.codes) |-> v.codes[o]]
    BY <1>1, <1>5
  <2>2. \A k \in 1..Len(v.codes) : slab[at + k - 1] = v.codes[k]
    BY <1>1, <1>4, <1>5
  <2> QED BY <2>1, <2>2
<1>7. InSlab(views, i) = [v EXCEPT !.codes = [k \in DOMAIN v.codes |-> slab[at + k - 1]]]
  BY <1>5 DEF InSlab
<1> QED BY <1>1, <1>5, <1>6, <1>7

(* PreloadAllClusters, whichever its mode, makes a faithful view of every   *)
(* written cluster resident, and no other.                                  *)
LEMMA PreloadServesTheFile ==
  ASSUME FileInv, OpenInv, NEW mode, PreloadAllClusters(mode)
  PROVE  /\ DOMAIN resident' = WrittenIds
         /\ \A id \in DOMAIN resident' :
              \E i \in DOMAIN lookup_table :
                /\ lookup_table[i].id = id
                /\ Faithful(layout, lookup_table[i], resident'[id])
         /\ Len(lookup_table) = NumClusters
<1> DEFINE N == NumClusters
           views == [i \in DOMAIN Ordered |->
                      ParseClusterBlock(file_version, layout, Ordered[i])]
           view(i) == IF mode = "code_slab" THEN InSlab(views, i) ELSE views[i]
           at(id) == CHOOSE i \in DOMAIN Ordered : Ordered[i].id = id
<1>1. /\ \A i \in DOMAIN info : Readable(info[i])
      /\ resident' = [id \in {Ordered[i].id : i \in DOMAIN Ordered} |-> view(at(id))]
  BY Zenon DEF PreloadAllClusters
<1>2. AllWritten /\ WriterInv /\ layout \in AllLayouts
  BY <1>1, ReadableTable DEF FileInv, WriterInv, WriterType
<1>3. /\ DOMAIN Ordered = 1..N
      /\ \A i \in 1..N : \E j \in 1..N : Ordered[i] = info[j]
      /\ \A i \in 1..N : \E j \in 1..N : Ordered[j] = info[i]
  BY <1>2, OrderedPermutes
<1>4. ASSUME NEW i \in 1..N
      PROVE  /\ views[i] \in Views
             /\ \E j \in DOMAIN lookup_table :
                  /\ Ordered[i] = lookup_table[j] /\ Faithful(layout, lookup_table[j], views[i])
  <2>1. PICK j \in 1..N : Ordered[i] = info[j]
    BY <1>3
  <2>2. PICK e : e = info[j]
    OBVIOUS
  <2>3. /\ j \in DOMAIN lookup_table /\ e = lookup_table[j]
        /\ e.id \in Ids /\ e.num_records \in Sizes /\ e.block_offset \in Nat
        /\ e = Entry(layout, e.id, e.num_records, e.block_offset)
        /\ HoldsBlock(layout, e.id, e.num_records, e.block_offset)
        /\ file_version = kFileVersion[layout]
    BY <1>2, <2>2 DEF AllWritten
  <2>4. PICK id \in Ids, n \in Sizes, o \in Nat :
          id = e.id /\ n = e.num_records /\ o = e.block_offset
    BY <2>3
  <2>5. file_version \in Nat /\ file_version >= kFileVersionV9
    BY <1>2, <2>3, Versions
  <2>6. ParseClusterBlock(file_version, layout, Entry(layout, id, n, o)) = View(layout, id, n)
    <3>1. HoldsBlock(layout, id, n, o)
      BY <2>3, <2>4
    <3> QED BY <1>2, <2>5, <3>1, BlockParses
  <2>7. views[i] = View(layout, id, n)
    <3>1. Ordered[i] = Entry(layout, id, n, o)
      BY <2>1, <2>2, <2>3, <2>4
    <3>2. views[i] = ParseClusterBlock(file_version, layout, Ordered[i])
      BY <1>3
    <3> QED BY <2>6, <3>1, <3>2
  <2>8. Faithful(layout, Entry(layout, id, n, o), View(layout, id, n))
    BY <1>2, ViewFaithful
  <2> HIDE DEF views
  <2>9. views[i] \in Views
    BY <2>7 DEF Views
  <2>10. Faithful(layout, lookup_table[j], views[i])
    BY <2>3, <2>4, <2>7, <2>8
  <2> QED BY <2>1, <2>2, <2>3, <2>9, <2>10
<1>5. \A i \in 1..N : view(i) = views[i]
  <2>1. N \in Nat \ {0}
    BY <1>2 DEF AllWritten
  <2>2. views \in [1..N -> Views]
    BY <1>3, <1>4
  <2> HIDE DEF views, N
  <2> QED BY <1>2, <2>1, <2>2, SlabKeepsViews
<1> HIDE DEF view, views
<1>6. DOMAIN resident' = {Ordered[i].id : i \in 1..N}
  BY <1>1, <1>3
<1>7. {Ordered[i].id : i \in 1..N} = WrittenIds
  <2>1. DOMAIN lookup_table = 1..N /\ \A i \in 1..N : info[i] = lookup_table[i]
    <3>1. DOMAIN lookup_table = 1..Len(lookup_table)
      BY <1>2 DEF WriterInv, WriterType
    <3> QED BY <1>2, <3>1 DEF AllWritten
  <2>2. \A i \in 1..N : \E j \in 1..N : Ordered[i].id = lookup_table[j].id
    <3> TAKE i \in 1..N
    <3>1. PICK j \in 1..N : Ordered[i] = info[j]
      BY <1>3
    <3> QED BY <2>1, <3>1
  <2>3. \A i \in 1..N : \E j \in 1..N : lookup_table[i].id = Ordered[j].id
    <3> TAKE i \in 1..N
    <3>1. PICK j \in 1..N : Ordered[j] = info[i]
      BY <1>3
    <3> QED BY <2>1, <3>1
  <2>4. WrittenIds = {lookup_table[i].id : i \in 1..N}
    BY <2>1 DEF WrittenIds
  <2> HIDE DEF N
  <2>5. \A i \in 1..N : Ordered[i].id \in WrittenIds
    <3> TAKE i \in 1..N
    <3>1. PICK j \in 1..N : Ordered[i].id = lookup_table[j].id
      BY <2>2
    <3> QED BY <2>4, <3>1
  <2>6. \A i \in 1..N : lookup_table[i].id \in {Ordered[j].id : j \in 1..N}
    <3> TAKE i \in 1..N
    <3>1. PICK j \in 1..N : lookup_table[i].id = Ordered[j].id
      BY <2>3
    <3> QED BY <3>1
  <2>7. {Ordered[j].id : j \in 1..N} \subseteq WrittenIds
    BY <2>5
  <2>8. WrittenIds \subseteq {Ordered[j].id : j \in 1..N}
    BY <2>4, <2>6
  <2> QED BY <2>7, <2>8
<1>8. ASSUME NEW id \in DOMAIN resident'
      PROVE  \E i \in DOMAIN lookup_table :
               /\ lookup_table[i].id = id
               /\ Faithful(layout, lookup_table[i], resident'[id])
  <2>1. id \in {Ordered[i].id : i \in 1..N}
    BY <1>6
  <2>2. at(id) \in 1..N /\ Ordered[at(id)].id = id
    BY <1>3, <2>1
  <2>3. resident'[id] = view(at(id))
    BY <1>1, <1>6, <1>3, <2>1
  <2> HIDE DEF at
  <2>4. resident'[id] = views[at(id)]
    BY <1>5, <2>2, <2>3
  <2> QED BY <1>4, <2>2, <2>4
<1>9. Len(lookup_table) = NumClusters
  BY <1>2 DEF AllWritten
<1> QED BY <1>6, <1>7, <1>8, <1>9

(* Every step keeps what is resident the file's. *)
LEMMA ResidentStep ==
  ASSUME FileInv, ReaderInv, ResidentIsTheFile, [Next]_storeVars
  PROVE  ResidentIsTheFile'
<1>1. CASE \E mode \in PreloadModes : PreloadAllClusters(mode)
  <2>1. PICK mode \in PreloadModes : PreloadAllClusters(mode)
    BY <1>1
  <2>2. file_version # NotOpen /\ layout' = layout /\ lookup_table' = lookup_table
    BY <2>1 DEF PreloadAllClusters, writerVars
  <2>3. OpenInv
    BY <2>2 DEF ReaderInv
  <2>4. /\ DOMAIN resident' = WrittenIds /\ Len(lookup_table) = NumClusters
        /\ \A id \in DOMAIN resident' :
             \E i \in DOMAIN lookup_table :
               lookup_table[i].id = id /\ Faithful(layout, lookup_table[i], resident'[id])
    BY <2>1, <2>3, PreloadServesTheFile
  <2>5. WrittenIds' = WrittenIds
    BY <2>2 DEF WrittenIds
  <2> QED BY <2>2, <2>4, <2>5 DEF ResidentIsTheFile
<1>2. CASE /\ ~ (\E mode \in PreloadModes : PreloadAllClusters(mode))
           /\ file_version # NotOpen
  <2>1. OpenInv
    BY <1>2 DEF ReaderInv
  <2>2. /\ layout' = layout /\ lookup_table' = lookup_table
        /\ \/ resident' = resident /\ ready' = ready
           \/ DOMAIN resident' = {} /\ ~ ready'
    <3>1. CASE ~ Query
      <4>1. UNCHANGED storeVars
        BY <2>1, <3>1, OnlyQueries
      <4> QED BY <4>1 DEF storeVars, writerVars, readerVars
    <3>2. CASE Query
      <4>1. layout' = layout /\ lookup_table' = lookup_table
        BY <3>2, QueryLeaves
      <4>2. CASE Close
        <5>1. DOMAIN resident' = {} /\ ~ ready'
          BY <4>2 DEF Close, EmptyMap
        <5> QED BY <4>1, <5>1
      <4>3. CASE ~ Close
        <5>1. resident' = resident /\ ready' = ready
          BY <1>2, <3>2, <4>3, Zenon
             DEF Query, OpenReader, EnsureClusterLoaded, UnloadCluster, MoveReader
        <5> QED BY <4>1, <5>1
      <4> QED BY <4>2, <4>3
    <3> QED BY <3>1, <3>2
  <2>3. WrittenIds' = WrittenIds
    BY <2>2 DEF WrittenIds
  <2> QED BY <2>2, <2>3 DEF ResidentIsTheFile
<1>3. CASE /\ ~ (\E mode \in PreloadModes : PreloadAllClusters(mode))
           /\ file_version = NotOpen
  <2>1. DOMAIN resident = {} /\ ~ ready
    BY <1>3 DEF ReaderInv
  <2>2. resident' = resident /\ ready' = ready
    <3>1. ~ (file_version > 0)
      BY <1>3 DEF NotOpen
    <3> QED BY <1>3, <3>1, Zenon
        DEF Next, Query, Build, OpenReader, EnsureClusterLoaded, UnloadCluster, Close, MoveReader,
            OpenWriter, BeginCluster, WriteVectors, WriteAddressBlocks, EndCluster,
            EndClusterReturns, Finalize, FinalizeReturns, Abandon, Flush, FlushFails, Crash,
            readerVars, storeVars
  <2> QED BY <2>1, <2>2 DEF ResidentIsTheFile
<1> QED BY <1>1, <1>2, <1>3

-----------------------------------------------------------------------------
(* The file, its reader, and what the reader has loaded. *)
StoreInv == FileInv /\ ReaderInv /\ LoadedIsWritten /\ ResidentIsTheFile

(* No cluster is loaded at the start, and none is resident. *)
LEMMA StoreInit == Init => StoreInv
<1> SUFFICES ASSUME Init PROVE ReaderInv /\ LoadedIsWritten /\ ResidentIsTheFile
  BY FileInit DEF StoreInv
<1>1. DOMAIN loaded = {} /\ DOMAIN resident = {} /\ ~ ready /\ file_version = NotOpen
  BY DEF Init, EmptyMap
<1> QED BY <1>1 DEF ReaderInv, LoadedIsWritten, ResidentIsTheFile

(* Every step keeps the store's invariant. *)
LEMMA StoreStep == StoreInv /\ [Next]_storeVars => StoreInv'
BY FileStep, ReaderStep, LoadedStep, ResidentStep DEF StoreInv

(* The store's invariant: the file's, the reader's (Open sees a file nobody *)
(* writes any more), and that each cluster EnsureClusterLoaded or            *)
(* PreloadAllClusters keeps is the one written.                              *)
THEOREM StoreInvariant == Spec => []StoreInv
BY StoreInit, StoreStep, PTL DEF Spec

(* What EnsureClusterLoaded keeps under an id is what the builder wrote for *)
(* that id, whatever of the file a builder that failed or died left behind. *)
THEOREM LoadedClustersAreWritten == Spec => []LoadedIsWritten
<1>1. StoreInv => LoadedIsWritten
  BY DEF StoreInv
<1> QED BY <1>1, StoreInvariant, PTL

(* What PreloadAllClusters makes resident, in each of its modes, is what the *)
(* builder wrote; it is every cluster or none, and moving the code regions  *)
(* into one slab in file order overwrites none with another's.              *)
THEOREM ResidentClustersAreTheFile == Spec => []ResidentIsTheFile
<1>1. StoreInv => ResidentIsTheFile
  BY DEF StoreInv
<1> QED BY <1>1, StoreInvariant, PTL
=============================================================================
