-------------------------- MODULE AddressColumnProofs --------------------------
(***************************************************************************)
(* Theorems about AddressColumn: what either encoding of addresses decodes  *)
(* to.                                                                      *)
(***************************************************************************)
EXTENDS AddressColumn, BasicLemmas

(* Whole pages survive the division and the multiplication. *)
LEMMA WholePages ==
  ASSUME NEW x \in Nat, NEW p \in Nat \ {0}, x % p = 0
  PROVE  /\ x \div p \in Nat
         /\ (x \div p) * p = x
  BY Z3

LEMMA U32Small ==
  ASSUME NEW x \in Nat, x < Word
  PROVE  U32(x) = x
  BY WordAssumption DEF U32

(* DecodeRawEntryV2 undoes what EncodeRawTableV2 does to one address that is *)
(* page-aligned and small enough.                                           *)
LEMMA RawEntryRoundTrip ==
  ASSUME NEW page_size \in Nat \ {0},
         NEW e \in [offset : Nat, size : Nat],
         e.offset % page_size = 0, e.size % page_size = 0,
         e.offset \div page_size < Word, e.size < Word
  PROVE  DecodeRawEntryV2([offset_pages |-> U32(e.offset \div page_size),
                           size_pages |-> U32(e.size \div page_size)],
                          page_size) = e
<1>1. /\ e.offset \div page_size \in Nat
      /\ (e.offset \div page_size) * page_size = e.offset
  BY WholePages
<1>2. /\ e.size \div page_size \in Nat
      /\ (e.size \div page_size) * page_size = e.size
  BY WholePages
<1>3. e.size \div page_size <= e.size
  <2> DEFINE q == e.size \div page_size
  <2>1. q \in Nat /\ q * page_size = e.size
    BY <1>2
  <2>2. q * page_size >= q * 1
    <3> HIDE DEF q
    <3> QED BY <2>1
  <2> QED BY <2>1, <2>2
<1>4. U32(e.offset \div page_size) = e.offset \div page_size
  BY <1>1, U32Small
<1>5. U32(e.size \div page_size) = e.size \div page_size
  <2>1. e.size \div page_size < Word
    BY <1>2, <1>3, WordAssumption
  <2> QED BY <1>2, <2>1, U32Small
<1>6. U32((e.size \div page_size) * page_size) = e.size
  BY <1>2, U32Small
<1> QED BY <1>1, <1>4, <1>5, <1>6 DEF DecodeRawEntryV2

(* The table the index builder writes (ivf_builder.cpp:850) decodes to the   *)
(* addresses it was built from: EncodeRawTableV2 rounds down and drops high  *)
(* bits, and neither shows when the addresses are aligned and fit.          *)
THEOREM RawTableRoundTrip ==
  ASSUME NEW page_size \in Nat \ {0},
         NEW entries \in Seq([offset : Nat, size : Nat]),
         ValidateRawTableV2Alignment(entries, page_size),
         FitsRawTable(entries, page_size)
  PROVE  Decode(EncodeRawTableV2(entries, page_size)) =
           [ok |-> TRUE, entries |-> entries]
<1> DEFINE column == EncodeRawTableV2(entries, page_size)
<1> DEFINE raw(i) == [offset_pages |-> U32(entries[i].offset \div page_size),
                      size_pages |-> U32(entries[i].size \div page_size)]
<1>1. /\ column.format = "V2RawTable" /\ column.page_size = page_size
      /\ column.total_records = Len(entries)
      /\ column.raw_entries = [i \in DOMAIN entries |-> raw(i)]
  BY DEF EncodeRawTableV2
<1>2. DOMAIN entries = 1..Len(entries) /\ Len(entries) \in Nat
  OBVIOUS
<1>3. Len(column.raw_entries) = column.total_records
  BY <1>1, <1>2
<1>4. \A i \in DOMAIN entries : DecodeRawEntryV2(raw(i), page_size) = entries[i]
  <2> SUFFICES ASSUME NEW i \in DOMAIN entries
               PROVE  DecodeRawEntryV2(raw(i), page_size) = entries[i]
    OBVIOUS
  <2>1. entries[i] \in [offset : Nat, size : Nat]
    BY <1>2, ElementOfSeq
  <2>2. entries[i].offset % page_size = 0 /\ entries[i].size % page_size = 0
    BY DEF ValidateRawTableV2Alignment
  <2>3. entries[i].offset \div page_size < Word /\ entries[i].size < Word
    BY DEF FitsRawTable
  <2> QED BY <2>1, <2>2, <2>3, RawEntryRoundTrip
<1>5. [i \in DOMAIN column.raw_entries |->
         DecodeRawEntryV2(column.raw_entries[i], column.page_size)] = entries
  <2> HIDE DEF column, raw
  <2>1. DOMAIN column.raw_entries = DOMAIN entries
    BY <1>1
  <2>2. \A i \in DOMAIN entries :
          DecodeRawEntryV2(column.raw_entries[i], column.page_size) = entries[i]
    BY <1>1, <1>4
  <2> QED BY <2>1, <2>2, <1>2
<1> HIDE DEF column
<1> QED BY <1>1, <1>3, <1>5 DEF Decode, DecodeRawTableV2, column
-----------------------------------------------------------------------------
(* The packed blocks. *)
LEMMA MinBitWidth ==
  ASSUME NEW n \in Nat, NEW values \in [1..n -> Nat], \A i \in 1..n : values[i] < Word
  PROVE  ComputeMinBitWidth(values) \in 1..32
<1> DEFINE S == {b \in 1..32 : \A i \in DOMAIN values : values[i] < 2^b}
           minimal(b) == b = 1 \/ \E i \in DOMAIN values : values[i] >= 2^(b - 1)
           T == {k \in Nat : \A b \in S : k < b}
<1>1. SUFFICES ASSUME \A b \in S : ~minimal(b) PROVE FALSE
  BY DEF ComputeMinBitWidth
<1>2. PICK top \in 1..32 : top \in S
  <2>1. PICK b \in 1..32 : Word <= 2^b
    BY WordAssumption
  <2>2. \A x \in Nat : x < Word => x < 2^b
    BY <2>1, WordAssumption
  <2> QED BY <2>2
<1>3. ASSUME NEW b \in S PROVE b \in 1..32 /\ b # 1 /\ b - 1 \in S
  <2>1. b \in 1..32 /\ b # 1
    BY <1>1
  <2>2. ~\E i \in DOMAIN values : values[i] >= 2^(b - 1)
    BY <1>1
  <2>3. ASSUME NEW i \in DOMAIN values PROVE values[i] < 2^(b - 1)
    <3>1. values[i] \in Nat /\ b - 1 \in Nat /\ ~(values[i] >= 2^(b - 1))
      BY <2>1, <2>2
    <3> QED BY <3>1
  <2>4. b - 1 \in 1..32
    BY <2>1
  <2> QED BY <2>1, <2>3, <2>4
<1> HIDE DEF S, minimal
<1>4. S \subseteq 1..32
  BY <1>3
<1>5. 0 \in T
  BY <1>4
<1>6. ASSUME NEW k \in Nat, k \in T PROVE k + 1 \in T
  <2> SUFFICES ASSUME NEW b \in S, ~(k + 1 < b) PROVE FALSE
    BY <1>4
  <2>1. k < b /\ b \in Nat
    BY <1>4, <1>6
  <2>2. b - 1 \in S /\ ~(k < b - 1)
    BY <1>3, <2>1
  <2> QED BY <1>6, <2>2
<1> HIDE DEF T
<1>7. \A k \in Nat : k \in T
  BY <1>5, <1>6, SubsetInduction
<1>8. 32 \in T
  BY <1>7
<1> QED BY <1>2, <1>8 DEF T

LEMMA CeilDivWhole ==
  ASSUME NEW x \in Nat, NEW p \in Nat \ {0}, x % p = 0
  PROVE  CeilDiv(x, p) = x \div p
<1>1. x \div p \in Nat /\ (x \div p) * p = x
  BY WholePages
<1> DEFINE q == x \div p
<1>2. q \in Nat /\ q * p = x
  BY <1>1
<1> HIDE DEF q
<1>3. (q * p + (p - 1)) \div p = q
  BY <1>2, Z3
<1>4. x + p - 1 = q * p + (p - 1)
  BY <1>2
<1> QED BY <1>3, <1>4 DEF CeilDiv, q

LEMMA CeilDivBounds ==
  ASSUME NEW a \in Nat, NEW b \in Nat \ {0}
  PROVE  /\ CeilDiv(a, b) \in Nat
         /\ CeilDiv(a, b) * b >= a
         /\ a > 0 => CeilDiv(a, b) >= 1 /\ (CeilDiv(a, b) - 1) * b < a
<1> DEFINE q == (a + b - 1) \div b
<1>1. a + b - 1 \in Nat /\ q \in Nat
  BY Z3
<1>2. q * b <= a + b - 1 /\ a + b - 1 < q * b + b
  BY <1>1, Z3
<1> HIDE DEF q
<1>3. q * b \in Nat /\ (q - 1) * b = q * b - b
  BY <1>1, Z3
<1>4. a > 0 => q >= 1
  <2> SUFFICES ASSUME a > 0, q = 0 PROVE FALSE
    BY <1>1
  <2>1. q * b = 0
    OBVIOUS
  <2> QED BY <1>2, <2>1
<1> QED BY <1>1, <1>2, <1>3, <1>4 DEF CeilDiv, q

Sums(s) ==
  CHOOSE sums : sums = [i \in 0..Len(s) |-> IF i = 0 THEN 0 ELSE U32(sums[i - 1] + s[i])]

LEMMA SumsUnfold ==
  ASSUME NEW s \in Seq(Nat)
  PROVE  /\ PrefixSums(s) = [i \in DOMAIN s |-> Sums(s)[i - 1]]
         /\ Sums(s)[0] = 0
         /\ \A i \in 1..Len(s) : Sums(s)[i] = U32(Sums(s)[i - 1] + s[i])
<1> DEFINE n == Len(s)
           Eq(f) == f = [i \in 0..n |-> IF i = 0 THEN 0 ELSE U32(f[i - 1] + s[i])]
           D == [p \in Nat \X (1..n) |-> U32(p[1] + s[p[2]])]
<1>1. n \in Nat /\ \A i \in 1..n : s[i] \in Nat
  BY LenProperties, ElementOfSeq
<1>2. D \in [Nat \X (1..n) -> Nat]
  <2>1. \A p \in Nat \X (1..n) : U32(p[1] + s[p[2]]) \in Nat
    <3> HIDE DEF n
    <3> TAKE p \in Nat \X (1..n)
    <3>1. p[1] \in Nat /\ s[p[2]] \in Nat
      BY <1>1
    <3> QED BY <3>1, WordAssumption DEF U32
  <2> QED BY <2>1
<1>3. PICK f : Recursive(f, Nat, 0, n, D)
  <2> HIDE DEF D, n
  <2> QED BY <1>1, <1>2, RecursionExists
<1>4. f \in [0..n -> Nat] /\ f[0] = 0 /\ \A i \in 1..n : f[i] = D[<<f[i - 1], i>>]
  <2> HIDE DEF D, n
  <2> QED BY <1>3 DEF Recursive
<1>5. ASSUME NEW i \in 1..n PROVE f[i] = U32(f[i - 1] + s[i])
  <2>1. i - 1 \in 0..n
    BY <1>1
  <2>2. f[i - 1] \in Nat
    BY <1>4, <2>1
  <2> QED BY <1>4, <2>2
<1>6. Eq(f)
  <2> DEFINE g == [i \in 0..n |-> IF i = 0 THEN 0 ELSE U32(f[i - 1] + s[i])]
  <2>1. \A i \in 0..n : f[i] = g[i]
    <3> HIDE DEF n, D
    <3> TAKE i \in 0..n
    <3>1. i = 0 \/ i \in 1..n
      BY <1>1
    <3> QED BY <1>4, <1>5, <3>1
  <2> QED BY <1>4, <2>1
<1>7. Eq(Sums(s))
  BY <1>6, Zenon DEF Sums
<1>8. PrefixSums(s) = [i \in DOMAIN s |-> Sums(s)[i - 1]]
  BY Zenon DEF PrefixSums, Sums
<1>9. Sums(s)[0] = 0
  BY <1>1, <1>7
<1>10. ASSUME NEW i \in 1..n PROVE Sums(s)[i] = U32(Sums(s)[i - 1] + s[i])
  <2>1. i \in 0..n /\ i # 0
    BY <1>1
  <2> QED BY <1>7, <2>1
<1> QED BY <1>8, <1>9, <1>10

(* Where pages[i] is the page the i-th of adjacent records starts at, the   *)
(* sums are the distances from the first, while they fit.                   *)
LEMMA SumsAreDistances ==
  ASSUME NEW n \in Nat, NEW s \in [1..n -> Nat], NEW pages \in [1..n -> Nat],
         \A i \in 1..(n - 1) : pages[i + 1] = pages[i] + s[i],
         \A i \in 1..n : pages[i] < Word
  PROVE  \A i \in 1..n : PrefixSums(s)[i] = pages[i] - pages[1]
<1>1. s \in Seq(Nat) /\ Len(s) = n /\ DOMAIN s = 1..n
  OBVIOUS
<1>2. /\ PrefixSums(s) = [i \in DOMAIN s |-> Sums(s)[i - 1]]
      /\ Sums(s)[0] = 0
      /\ \A i \in 1..n : Sums(s)[i] = U32(Sums(s)[i - 1] + s[i])
  BY <1>1, SumsUnfold
<1> DEFINE sum == Sums(s)
           T == {k \in Nat : k + 1 <= n => /\ sum[k] = pages[k + 1] - pages[1]
                                           /\ pages[k + 1] - pages[1] \in Nat}
<1>3. 0 \in T
  BY <1>2
<1>4. ASSUME NEW k \in Nat, k \in T PROVE k + 1 \in T
  <2> SUFFICES ASSUME (k + 1) + 1 <= n
               PROVE  /\ sum[k + 1] = pages[(k + 1) + 1] - pages[1]
                      /\ pages[(k + 1) + 1] - pages[1] \in Nat
    OBVIOUS
  <2> DEFINE d == pages[k + 1] - pages[1]
             e == pages[(k + 1) + 1] - pages[1]
  <2>1. /\ k + 1 \in 1..n /\ k + 1 \in 1..(n - 1) /\ (k + 1) + 1 \in 1..n /\ (k + 1) - 1 = k
        /\ 1 \in 1..n
    OBVIOUS
  <2>2. sum[k] = d /\ d \in Nat
    BY <1>4, <2>1
  <2>3. /\ pages[(k + 1) + 1] = pages[k + 1] + s[k + 1] /\ s[k + 1] \in Nat
        /\ pages[(k + 1) + 1] < Word /\ pages[1] \in Nat /\ pages[k + 1] \in Nat
        /\ pages[(k + 1) + 1] \in Nat
    BY <2>1
  <2>4. e = d + s[k + 1] /\ e \in Nat /\ e < Word
    <3> DEFINE p0 == pages[1]
               p1 == pages[k + 1]
               p2 == pages[(k + 1) + 1]
               x == s[k + 1]
    <3>1. /\ p2 = p1 + x /\ x \in Nat /\ p2 < Word /\ p0 \in Nat /\ p1 \in Nat
          /\ p2 \in Nat /\ p1 - p0 \in Nat
      BY <2>2, <2>3
    <3> HIDE DEF p0, p1, p2, x, sum
    <3>2. p2 - p0 = (p1 - p0) + x /\ p2 - p0 \in Nat /\ p2 - p0 < Word
      BY <3>1, WordAssumption
    <3> QED BY <3>2 DEF p0, p1, p2, x
  <2>5. sum[k + 1] = U32(sum[k] + s[k + 1])
    BY <1>2, <2>1
  <2> HIDE DEF sum, d, e
  <2>6. U32(e) = e
    BY <2>4, U32Small
  <2>7. sum[k + 1] = e /\ e \in Nat
    BY <2>2, <2>4, <2>5, <2>6
  <2> QED BY <2>7 DEF e
<1> HIDE DEF T
<1>5. \A k \in Nat : k \in T
  BY <1>3, <1>4, SubsetInduction
<1>6. ASSUME NEW i \in 1..n PROVE sum[i - 1] = pages[i] - pages[1]
  <2>1. i - 1 \in T /\ (i - 1) + 1 = i /\ i <= n
    BY <1>5
  <2> QED BY <2>1 DEF T
<1> QED BY <1>1, <1>2, <1>6

LEMMA HowManyFit ==
  ASSUME NEW x \in Nat, NEW n \in Nat, NEW b \in Nat \ {0}, x >= n * b
  PROVE  x \div b \in Nat /\ x \div b >= n
<1> DEFINE q == x \div b
<1>1. q \in Nat /\ x < q * b + b
  BY Z3
<1> HIDE DEF q
<1>2. SUFFICES ASSUME q < n PROVE FALSE
  BY <1>1 DEF q
<1>3. (q + 1) * b <= n * b
  BY <1>1, <1>2, Z3
<1>4. (q + 1) * b = q * b + b
  BY <1>1, Z3
<1>5. q * b \in Nat /\ n * b \in Nat
  BY <1>1, Z3
<1> QED BY <1>1, <1>3, <1>4, <1>5

ByteRanges == [offset : Nat, size : Nat]

(* A block decodes to the addresses it was encoded from. *)
LEMMA BlockRoundTrip ==
  ASSUME NEW page_size \in Nat \ {0}, NEW entries \in Seq(ByteRanges),
         entries # << >>, NEW bits \in Nat \ {0}, NEW padded \in Nat,
         ValidateRawTableV2Alignment(entries, page_size),
         FitsRawTable(entries, page_size), Adjacent(entries)
  PROVE  DecodeSingleBlock(page_size,
           EncodeSingleBlock(entries, page_size, bits, padded), Len(entries)) = entries
<1> DEFINE n == Len(entries)
           block == EncodeSingleBlock(entries, page_size, bits, padded)
           pages == [i \in 1..n |-> entries[i].offset \div page_size]
           sizes == [i \in 1..n |-> entries[i].size \div page_size]
<1>1. n \in Nat \ {0} /\ DOMAIN entries = 1..n
  BY EmptySeq, LenProperties
<1>2. ASSUME NEW i \in 1..n
      PROVE  /\ entries[i].offset \in Nat /\ entries[i].size \in Nat
             /\ entries[i].offset % page_size = 0 /\ entries[i].size % page_size = 0
             /\ entries[i].offset \div page_size < Word /\ entries[i].size < Word
             /\ entries[i] = [offset |-> entries[i].offset, size |-> entries[i].size]
  <2>1. entries[i] \in ByteRanges
    BY ElementOfSeq
  <2> QED BY <1>1, <2>1 DEF ByteRanges, ValidateRawTableV2Alignment, FitsRawTable
<1>3. ASSUME NEW i \in 1..n
      PROVE  /\ pages[i] \in Nat /\ pages[i] * page_size = entries[i].offset
             /\ sizes[i] \in Nat /\ sizes[i] * page_size = entries[i].size
             /\ pages[i] < Word
  BY <1>2, WholePages
<1>4. pages \in [1..n -> Nat] /\ sizes \in [1..n -> Nat]
  <2>1. \A i \in 1..n : entries[i].offset \div page_size \in Nat /\ entries[i].size \div page_size \in Nat
    BY <1>2, WholePages
  <2> QED BY <2>1
<1> HIDE DEF pages, sizes
<1>5. ASSUME NEW i \in 1..(n - 1) PROVE pages[i + 1] = pages[i] + sizes[i]
  <2>1. i \in 1..n /\ i + 1 \in 1..n
    BY <1>1
  <2>2. entries[i + 1].offset = entries[i].offset + entries[i].size
    BY DEF Adjacent
  <2> DEFINE p1 == pages[i + 1]
             p0 == pages[i]
             s == sizes[i]
  <2>3. p1 * page_size = p0 * page_size + s * page_size /\ p1 \in Nat /\ p0 \in Nat /\ s \in Nat
    BY <1>3, <2>1, <2>2
  <2> HIDE DEF p1, p0, s
  <2>4. p1 * page_size = (p0 + s) * page_size
    BY <2>3, Z3
  <2>5. p1 = p0 + s
    BY <2>3, <2>4, Z3
  <2> QED BY <2>5 DEF p1, p0, s
<1>6. \A i \in 1..n : PrefixSums(sizes)[i] = pages[i] - pages[1]
  <2> HIDE DEF n
  <2> QED BY <1>1, <1>3, <1>4, <1>5, SumsAreDistances
<1>7. PageSizes(entries, page_size) = sizes
  <2>1. \A i \in 1..n : CeilDiv(entries[i].size, page_size) = sizes[i]
    BY <1>2, CeilDivWhole DEF sizes
  <2>2. PageSizes(entries, page_size) = [i \in 1..n |-> CeilDiv(entries[i].size, page_size)]
    BY <1>1 DEF PageSizes
  <2> QED BY <1>4, <2>1, <2>2
<1> DEFINE bytes == CeilDiv(n * bits, 8)
           all == IF padded > bytes THEN padded ELSE bytes
           room == (all * 8) \div bits
<1>8. room \in Nat /\ room >= n
  <2> HIDE DEF n
  <2>1. n * bits \in Nat
    BY <1>1, Z3
  <2>2. bytes \in Nat /\ bytes * 8 >= n * bits
    <3> DEFINE y == n * bits
    <3>1. y \in Nat /\ 8 \in Nat \ {0}
      BY <2>1
    <3> HIDE DEF y
    <3>2. CeilDiv(y, 8) \in Nat /\ CeilDiv(y, 8) * 8 >= y
      BY <3>1, CeilDivBounds
    <3> QED BY <3>2 DEF y
  <2> HIDE DEF bytes
  <2>3. all \in Nat /\ all * 8 \in Nat /\ all * 8 >= n * bits
    BY <2>1, <2>2
  <2> HIDE DEF all
  <2> QED BY <1>1, <2>3, HowManyFit
<1>9. /\ block.base_offset = pages[1]
      /\ \A i \in 1..n : block.packed[i] = sizes[i]
  <2>1. entries[1].offset \div page_size = pages[1] /\ 1 \in 1..n
    BY <1>1 DEF pages
  <2>2. U32(pages[1]) = pages[1]
    BY <1>3, <2>1, U32Small
  <2>3. block.base_offset = U32(entries[1].offset \div page_size)
    BY DEF EncodeSingleBlock
  <2>4. block.packed = [i \in 1..room |-> IF i <= Len(sizes) THEN sizes[i] ELSE 0]
    BY <1>7 DEF EncodeSingleBlock
  <2>5. Len(sizes) = n
    BY <1>1, <1>4
  <2> HIDE DEF block, room, n
  <2>6. \A i \in 1..n : i \in 1..room /\ i <= Len(sizes)
    BY <1>1, <1>8, <2>5
  <2> QED BY <2>1, <2>2, <2>3, <2>4, <2>6
<1> HIDE DEF block
<1>10. [i \in 1..n |-> block.packed[i]] = sizes
  <2> HIDE DEF n
  <2> QED BY <1>4, <1>9
<1>11. DecodeSingleBlock(page_size, block, n) =
         [i \in 1..n |-> [offset |-> (block.base_offset + PrefixSums(sizes)[i]) * page_size,
                          size |-> U32(sizes[i] * page_size)]]
  <2> HIDE DEF n
  <2> QED BY <1>10 DEF DecodeSingleBlock
<1>12. ASSUME NEW i \in 1..n
       PROVE  [offset |-> (block.base_offset + PrefixSums(sizes)[i]) * page_size,
               size |-> U32(sizes[i] * page_size)] = entries[i]
  <2>1. block.base_offset + PrefixSums(sizes)[i] = pages[i]
    <3>1. pages[1] \in Nat /\ pages[i] \in Nat
      BY <1>1, <1>3
    <3> QED BY <1>6, <1>9, <3>1
  <2>2. U32(sizes[i] * page_size) = entries[i].size
    BY <1>2, <1>3, U32Small
  <2> QED BY <1>2, <1>3, <2>1, <2>2
<1>13. DecodeSingleBlock(page_size, block, n) = [i \in 1..n |-> entries[i]]
  <2> HIDE DEF n
  <2> QED BY <1>11, <1>12
<1> QED BY <1>1, <1>13 DEF block

(* How the addresses are cut into blocks of G: where a block ends. *)
Cut(n, G) == [b \in 0..Blocks(n, G) |-> IF b < Blocks(n, G) THEN b * G ELSE n]

LEMMA BlockCuts ==
  ASSUME NEW n \in Nat \ {0}, NEW G \in Nat \ {0}
  PROVE  /\ Blocks(n, G) \in Nat \ {0} /\ (Blocks(n, G) - 1) * G \in Nat
         /\ (Blocks(n, G) - 1) * G < n /\ n - (Blocks(n, G) - 1) * G <= G
         /\ Blocks(n, G) * G = (Blocks(n, G) - 1) * G + G
         /\ Cut(n, G) \in [0..Blocks(n, G) -> Nat]
         /\ Cut(n, G)[0] = 0 /\ Cut(n, G)[Blocks(n, G)] = n
         /\ \A b \in 1..Blocks(n, G) :
              /\ Cut(n, G)[b] = IF b < Blocks(n, G) THEN b * G ELSE n
              /\ Cut(n, G)[b - 1] = (b - 1) * G
              /\ Cut(n, G)[b - 1] \in Nat /\ Cut(n, G)[b] \in Nat
              /\ Cut(n, G)[b - 1] < Cut(n, G)[b] /\ Cut(n, G)[b] <= n
              /\ Cut(n, G)[b] - Cut(n, G)[b - 1] =
                   IF b < Blocks(n, G) THEN G ELSE n - (Blocks(n, G) - 1) * G
<1> DEFINE m == Blocks(n, G)
           cut == Cut(n, G)
<1>1. m \in Nat \ {0} /\ m * G >= n /\ (m - 1) * G < n
  BY CeilDivBounds DEF Blocks
<1>2. cut = [b \in 0..m |-> IF b < m THEN b * G ELSE n]
  BY DEF Cut
<1> HIDE DEF m, cut
<1>3. (m - 1) * G \in Nat /\ m * G = (m - 1) * G + G
  BY <1>1, Z3
<1>4. n - (m - 1) * G <= G
  BY <1>1, <1>3
<1>5. \A b \in 0..m : b * G \in Nat
  BY <1>1, Z3
<1>6. cut \in [0..m -> Nat]
  BY <1>2, <1>5
<1>7. cut[0] = 0 /\ cut[m] = n
  BY <1>1, <1>2
<1>8. ASSUME NEW b \in 1..m
      PROVE  /\ cut[b] = IF b < m THEN b * G ELSE n
             /\ cut[b - 1] = (b - 1) * G
             /\ cut[b - 1] \in Nat /\ cut[b] \in Nat
             /\ cut[b - 1] < cut[b] /\ cut[b] <= n
             /\ cut[b] - cut[b - 1] = IF b < m THEN G ELSE n - (m - 1) * G
  <2>1. b \in 0..m /\ b - 1 \in 0..m /\ b - 1 < m
    BY <1>1
  <2>2. cut[b] = (IF b < m THEN b * G ELSE n) /\ cut[b - 1] = (b - 1) * G
    BY <1>2, <2>1
  <2>3. cut[b - 1] \in Nat /\ cut[b] \in Nat
    BY <1>6, <2>1
  <2>4. b * G = (b - 1) * G + G /\ (b - 1) * G \in Nat /\ b * G \in Nat
    BY Z3
  <2>5. CASE b < m
    <3>1. b * G <= (m - 1) * G
      BY <1>1, <2>5, Z3
    <3>2. cut[b] = b * G
      BY <2>2, <2>5
    <3>3. b * G <= n
      BY <1>1, <1>3, <2>4, <3>1
    <3> QED BY <2>2, <2>3, <2>4, <2>5, <3>2, <3>3
  <2>6. CASE ~(b < m)
    <3>1. b = m
      BY <1>1, <2>6
    <3> QED BY <1>1, <1>3, <2>2, <2>3, <3>1
  <2> QED BY <2>5, <2>6
<1> QED BY <1>1, <1>3, <1>4, <1>6, <1>7, <1>8 DEF m, cut

(* What V1 stores without loss stays so in a slice of it. *)
LEMMA SliceIsStorable ==
  ASSUME NEW page_size \in Nat \ {0}, NEW entries \in Seq(ByteRanges),
         ValidateRawTableV2Alignment(entries, page_size),
         FitsRawTable(entries, page_size), Adjacent(entries),
         NEW a \in Nat, NEW b \in Nat, a < b, b <= Len(entries)
  PROVE  /\ SubSeq(entries, a + 1, b) \in Seq(ByteRanges)
         /\ Len(SubSeq(entries, a + 1, b)) = b - a
         /\ SubSeq(entries, a + 1, b) # << >>
         /\ ValidateRawTableV2Alignment(SubSeq(entries, a + 1, b), page_size)
         /\ FitsRawTable(SubSeq(entries, a + 1, b), page_size)
         /\ Adjacent(SubSeq(entries, a + 1, b))
<1> DEFINE s == SubSeq(entries, a + 1, b)
           n == b - a
<1>1. s \in Seq(ByteRanges) /\ Len(s) = n /\ \A i \in 1..n : s[i] = entries[a + i]
  BY SliceElements
<1>2. n \in Nat \ {0} /\ Len(entries) \in Nat /\ DOMAIN entries = 1..Len(entries)
  BY LenProperties
<1> HIDE DEF s
<1>3. s # << >> /\ DOMAIN s = 1..n
  BY <1>1, <1>2, EmptySeq
<1>4. ASSUME NEW i \in 1..n PROVE a + i \in DOMAIN entries
  BY <1>2
<1>5. ValidateRawTableV2Alignment(s, page_size)
  BY <1>1, <1>3, <1>4 DEF ValidateRawTableV2Alignment
<1>6. FitsRawTable(s, page_size)
  BY <1>1, <1>3, <1>4 DEF FitsRawTable
<1>7. Adjacent(s)
  <2>1. ASSUME NEW i \in 1..(n - 1)
        PROVE  s[i + 1].offset = s[i].offset + s[i].size
    <3>1. i \in 1..n /\ i + 1 \in 1..n /\ a + i \in 1..(Len(entries) - 1) /\ a + (i + 1) = (a + i) + 1
      BY <1>2
    <3>2. s[i] = entries[a + i] /\ s[i + 1] = entries[(a + i) + 1]
      BY <1>1, <3>1
    <3> QED BY <3>1, <3>2 DEF Adjacent
  <2> QED BY <1>1, <2>1 DEF Adjacent
<1> QED BY <1>1, <1>3, <1>5, <1>6, <1>7 DEF s

LEMMA GranularityPositive ==
  ASSUME NEW fixed \in Nat, NEW bits \in Nat \ {0}
  PROVE  ComputeBlockGranularity(fixed, bits) \in Nat \ {0}
<1>1. (fixed * 8) \div bits \in Nat
  BY Z3
<1> QED BY <1>1 DEF ComputeBlockGranularity

(* DecodeBatchBlocks on a column whose blocks were cut every G records: the  *)
(* counts add up and every block is decoded with its own number of records. *)
LEMMA BatchesCover ==
  ASSUME NEW n \in Nat \ {0}, NEW G \in Nat \ {0}, NEW column,
         column.num_address_blocks = Blocks(n, G), column.block_granularity = G,
         column.total_records = n, Len(column.blocks) = Blocks(n, G)
  PROVE  DecodeBatchBlocks(column) =
           [ok |-> TRUE,
            entries |->
              FlattenSeq([b \in 1..Blocks(n, G) |->
                DecodeSingleBlock(column.page_size, column.blocks[b],
                                  Cut(n, G)[b] - Cut(n, G)[b - 1])])]
<1> DEFINE m == Blocks(n, G)
           tail == BlockRecordCount(column, m)
           separate == tail < G \/ column.last_packed_size # column.fixed_packed_size
           regular == IF separate THEN m - 1 ELSE m
           count(b) == IF b <= regular THEN G ELSE tail
           cut == Cut(n, G)
<1>1. /\ m \in Nat \ {0} /\ (m - 1) * G \in Nat /\ (m - 1) * G < n
      /\ n - (m - 1) * G <= G /\ m * G = (m - 1) * G + G
      /\ \A b \in 1..m : cut[b] - cut[b - 1] = IF b < m THEN G ELSE n - (m - 1) * G
  BY BlockCuts
<1>2. tail = n - (m - 1) * G
  <2> DEFINE before == (m - 1) * G
  <2>1. /\ column.num_address_blocks = m /\ column.block_granularity = G
        /\ column.total_records = n /\ ~(m < m) /\ ~(n <= before)
    BY <1>1
  <2>2. BlockRecordCount(column, m) =
          IF m < m THEN G ELSE IF n <= before THEN 0 ELSE n - before
    <3> HIDE DEF m
    <3> QED BY <2>1 DEF BlockRecordCount
  <2> QED BY <2>1, <2>2
<1> HIDE DEF m, cut
<1>3. tail \in Nat \ {0} /\ tail <= G /\ (m - 1) * G + tail = n
  <2> DEFINE before == (m - 1) * G
  <2>1. before \in Nat /\ before < n /\ n - before <= G /\ tail = n - before
    BY <1>1, <1>2
  <2> HIDE DEF tail, before
  <2>2. tail \in Nat \ {0} /\ tail <= G /\ before + tail = n
    BY <2>1
  <2> QED BY <2>2 DEF before
<1> HIDE DEF tail
<1>4. ~separate => tail = G
  BY <1>3
<1>5. ASSUME NEW b \in 1..m PROVE count(b) = cut[b] - cut[b - 1]
  <2>1. CASE b < m
    BY <1>1, <2>1
  <2>2. CASE ~(b < m)
    <3>1. b = m
      BY <1>1, <2>2
    <3>2. cut[m] - cut[m - 1] = tail
      BY <1>1, <1>2
    <3>3. ~separate => count(m) = tail
      BY <1>4
    <3>4. separate => ~(m <= regular)
      BY <1>1
    <3> QED BY <3>1, <3>2, <3>3, <3>4
  <2> QED BY <2>1, <2>2
<1>6. regular * G + (IF separate THEN tail ELSE 0) = n
  <2>1. CASE separate
    <3>1. regular = m - 1 /\ (IF separate THEN tail ELSE 0) = tail
      BY <2>1
    <3>2. regular * G + (IF separate THEN tail ELSE 0) = (m - 1) * G + tail
      BY <3>1, Zenon
    <3> QED BY <1>3, <3>2
  <2>2. CASE ~separate
    <3>1. tail = G
      BY <1>4, <2>2
    <3>2. regular = m /\ (IF separate THEN tail ELSE 0) = 0
      BY <2>2
    <3>3. m * G = n /\ n + 0 = n
      BY <1>1, <1>3, <3>1
    <3> QED BY <3>2, <3>3
  <2> QED BY <2>1, <2>2
<1>7. DecodeBatchBlocks(column) =
        [ok |-> TRUE, entries |-> FlattenSeq([b \in 1..m |->
           DecodeSingleBlock(column.page_size, column.blocks[b], count(b))])]
  <2>1. m # 0 /\ G # 0
    BY <1>1
  <2>2. column.num_address_blocks = m /\ Len(column.blocks) = m
    BY DEF m
  <2>3. BlockRecordCount(column, m) = tail
    BY DEF tail
  <2> QED BY <1>6, <2>1, <2>2, <2>3 DEF DecodeBatchBlocks
<1>8. [b \in 1..m |-> DecodeSingleBlock(column.page_size, column.blocks[b], count(b))]
        = [b \in 1..m |-> DecodeSingleBlock(column.page_size, column.blocks[b], cut[b] - cut[b - 1])]
  <2> HIDE DEF count
  <2> QED BY <1>5
<1> QED BY <1>7, <1>8 DEF m, cut

LEMMA AddressesCut ==
  ASSUME NEW s \in Seq(ByteRanges), NEW m \in Nat, NEW cut \in [0..m -> Nat],
         cut[0] = 0, cut[m] = Len(s),
         \A b \in 1..m : cut[b - 1] <= cut[b] /\ cut[b] <= Len(s),
         NEW parts \in Seq(Seq(ByteRanges)), Len(parts) = m,
         \A b \in 1..m : parts[b] = SubSeq(s, cut[b - 1] + 1, cut[b])
  PROVE  FlattenSeq(parts) = s
  BY FlattenCuts

(* A packed column (address_column.cpp:151-230) decodes to the addresses it  *)
(* was built from, whatever the size of a packed block, when they are in     *)
(* whole pages, fit and lie one after another: sizes alone are packed, and   *)
(* decoding adds them up from the first record of each block.               *)
THEOREM PackedRoundTrip ==
  ASSUME NEW page_size \in Nat \ {0}, NEW fixed_packed_size \in Nat,
         NEW entries \in Seq(ByteRanges),
         ValidateRawTableV2Alignment(entries, page_size),
         FitsRawTable(entries, page_size), Adjacent(entries)
  PROVE  Decode(Encode(entries, fixed_packed_size, page_size)) =
           [ok |-> TRUE, entries |-> entries]
<1> DEFINE n == Len(entries)
           column == Encode(entries, fixed_packed_size, page_size)
<1>1. n \in Nat
  BY LenProperties
<1>2. CASE n = 0
  <2>1. entries = << >>
    BY <1>2, EmptySeq
  <2>2. column = EmptyColumn(page_size, fixed_packed_size)
    BY <1>2 DEF Encode
  <2>3. /\ column.format # "V2RawTable" /\ Len(column.blocks) = 0
        /\ column.num_address_blocks = 0 /\ column.total_records = 0
    BY <2>2 DEF EmptyColumn
  <2> HIDE DEF column
  <2>4. DecodeBatchBlocks(column) = [ok |-> TRUE, entries |-> << >>]
    BY <2>3 DEF DecodeBatchBlocks
  <2>5. Decode(column) = [ok |-> TRUE, entries |-> << >>]
    BY <2>3, <2>4 DEF Decode
  <2> QED BY <2>1, <2>5 DEF column
<1>3. CASE n # 0
  <2> DEFINE fixed == IF fixed_packed_size = 0 THEN kDefaultFixedPackedSize ELSE fixed_packed_size
             bits == ComputeMinBitWidth(PageSizes(entries, page_size))
             G == ComputeBlockGranularity(fixed, bits)
             m == Blocks(n, G)
             cut == Cut(n, G)
             slice(b) == SubSeq(entries, (b - 1) * G + 1, IF b < m THEN b * G ELSE n)
             block(b) == EncodeSingleBlock(slice(b), page_size, bits, IF b < m THEN fixed ELSE 0)
             blocks == [b \in 1..m |-> block(b)]
  <2>1. column = [format |-> "V1Packed", page_size |-> page_size, bit_width |-> bits,
            block_granularity |-> G, fixed_packed_size |-> fixed,
            last_packed_size |-> block(m).bytes, num_address_blocks |-> m,
            blocks |-> blocks, total_records |-> n]
    BY <1>3 DEF Encode
  <2>2. fixed \in Nat
    BY DEF kDefaultFixedPackedSize
  <2>3. bits \in 1..32
    <3> DEFINE sizes == PageSizes(entries, page_size)
    <3>1. DOMAIN entries = 1..n
      OBVIOUS
    <3>2. ASSUME NEW i \in 1..n
          PROVE  CeilDiv(entries[i].size, page_size) \in Nat /\ CeilDiv(entries[i].size, page_size) < Word
      <4> DEFINE x == entries[i].size
                 q == x \div page_size
      <4>1. x \in Nat /\ x % page_size = 0 /\ x < Word
        <5>1. entries[i] \in ByteRanges
          BY ElementOfSeq
        <5> QED BY <3>1, <5>1 DEF ByteRanges, ValidateRawTableV2Alignment, FitsRawTable
      <4> HIDE DEF x
      <4>2. CeilDiv(x, page_size) = q /\ q \in Nat /\ q * page_size = x
        BY <4>1, CeilDivWhole, WholePages
      <4> HIDE DEF q
      <4>3. q <= q * page_size
        BY <4>2, Z3
      <4>4. q < Word
        BY <4>1, <4>2, <4>3, WordAssumption
      <4> QED BY <4>2, <4>4 DEF x
    <3>3. sizes = [i \in 1..n |-> CeilDiv(entries[i].size, page_size)]
      BY <3>1 DEF PageSizes
    <3>4. sizes \in [1..n -> Nat] /\ \A i \in 1..n : sizes[i] < Word
      BY <3>2, <3>3
    <3> HIDE DEF sizes, n
    <3> QED BY <1>1, <3>4, MinBitWidth DEF sizes
  <2> HIDE DEF fixed, bits
  <2>4. G \in Nat \ {0}
    <3>1. bits \in Nat \ {0}
      BY <2>3
    <3> QED BY <2>2, <3>1, GranularityPositive
  <2> HIDE DEF G
  <2>5. n \in Nat \ {0}
    BY <1>1, <1>3
  <2> HIDE DEF n
  <2>6. /\ m \in Nat \ {0} /\ cut \in [0..m -> Nat] /\ cut[0] = 0 /\ cut[m] = n
        /\ \A b \in 1..m : /\ cut[b] = (IF b < m THEN b * G ELSE n)
                           /\ cut[b - 1] = (b - 1) * G
                           /\ cut[b - 1] \in Nat /\ cut[b] \in Nat
                           /\ cut[b - 1] < cut[b] /\ cut[b] <= n
    <3>1. /\ m \in Nat \ {0} /\ cut \in [0..m -> Nat] /\ cut[0] = 0 /\ cut[m] = n
      BY <2>4, <2>5, BlockCuts, Zenon
    <3>2. \A b \in 1..m :
            /\ cut[b] = IF b < m THEN b * G ELSE n
            /\ cut[b - 1] = (b - 1) * G
            /\ cut[b - 1] \in Nat /\ cut[b] \in Nat
            /\ cut[b - 1] < cut[b] /\ cut[b] <= n
            /\ cut[b] - cut[b - 1] = IF b < m THEN G ELSE n - (m - 1) * G
      BY <2>4, <2>5, BlockCuts, Zenon
    <3> HIDE DEF m, cut
    <3> QED BY <3>1, <3>2, Zenon
  <2> DEFINE part(b) == SubSeq(entries, cut[b - 1] + 1, cut[b])
             decoded == [b \in 1..m |-> DecodeSingleBlock(page_size, blocks[b], cut[b] - cut[b - 1])]
  <2> HIDE DEF m, cut
  <2>7. ASSUME NEW b \in 1..m
        PROVE  /\ part(b) \in Seq(ByteRanges)
               /\ DecodeSingleBlock(page_size, blocks[b], cut[b] - cut[b - 1]) = part(b)
    <3> DEFINE c0 == cut[b - 1]
               c1 == cut[b]
               padded == IF b < m THEN fixed ELSE 0
    <3>1. c0 \in Nat /\ c1 \in Nat /\ c0 < c1 /\ c1 <= Len(entries)
      BY <2>6 DEF n
    <3>2. blocks[b] = EncodeSingleBlock(part(b), page_size, bits, padded)
      BY <2>6
    <3> DEFINE s == SubSeq(entries, c0 + 1, c1)
    <3> HIDE DEF c0, c1
    <3>3. /\ s \in Seq(ByteRanges) /\ Len(s) = c1 - c0 /\ s # << >>
          /\ ValidateRawTableV2Alignment(s, page_size)
          /\ FitsRawTable(s, page_size) /\ Adjacent(s)
      BY <3>1, SliceIsStorable
    <3>4. padded \in Nat /\ bits \in Nat \ {0}
      BY <2>2, <2>3
    <3> HIDE DEF s, padded
    <3>5. DecodeSingleBlock(page_size, EncodeSingleBlock(s, page_size, bits, padded), Len(s)) = s
      BY <3>3, <3>4, BlockRoundTrip
    <3>6. part(b) = s
      BY DEF s, c0, c1
    <3> QED BY <3>2, <3>3, <3>5, <3>6 DEF c0, c1
  <2>8. FlattenSeq(decoded) = entries
    <3>1. decoded = [b \in 1..m |-> part(b)]
      <4> HIDE DEF part, blocks
      <4> QED BY <2>7
    <3>2. decoded \in Seq(Seq(ByteRanges)) /\ Len(decoded) = m
      <4>1. decoded \in [1..m -> Seq(ByteRanges)]
        <5> HIDE DEF part
        <5> QED BY <2>7, <3>1
      <4> HIDE DEF decoded
      <4> QED BY <2>6, <4>1
    <3>3. \A b \in 1..m : decoded[b] = SubSeq(entries, cut[b - 1] + 1, cut[b])
      <4> HIDE DEF decoded
      <4> QED BY <3>1
    <3>4. cut[m] = Len(entries)
      BY <2>6 DEF n
    <3>5. \A b \in 1..m : cut[b - 1] <= cut[b] /\ cut[b] <= Len(entries)
      BY <2>6 DEF n
    <3>6. m \in Nat /\ cut \in [0..m -> Nat] /\ cut[0] = 0
      BY <2>6
    <3> HIDE DEF decoded
    <3> QED BY <3>2, <3>3, <3>4, <3>5, <3>6, AddressesCut, Zenon
  <2> HIDE DEF blocks, block, decoded
  <2>9. /\ column.format # "V2RawTable" /\ column.page_size = page_size
        /\ column.num_address_blocks = m /\ column.block_granularity = G
        /\ column.total_records = n /\ column.blocks = blocks
    BY <2>1
  <2>10. Len(blocks) = m
    BY <2>6 DEF blocks
  <2> HIDE DEF column
  <2>11. DecodeBatchBlocks(column) = [ok |-> TRUE, entries |-> FlattenSeq(decoded)]
    <3>1. DecodeBatchBlocks(column) =
           [ok |-> TRUE,
            entries |->
              FlattenSeq([b \in 1..m |->
                DecodeSingleBlock(column.page_size, column.blocks[b], cut[b] - cut[b - 1])])]
      BY <2>4, <2>5, <2>9, <2>10, BatchesCover, SMTT(30) DEF m, cut
    <3> QED BY <2>9, <3>1 DEF decoded
  <2>12. Decode(column) = DecodeBatchBlocks(column)
    BY <2>9 DEF Decode
  <2> QED BY <2>8, <2>11, <2>12 DEF column
<1> QED BY <1>2, <1>3
=============================================================================
