---------------------------- MODULE AddressColumn ----------------------------
(***************************************************************************)
(* The address columns of a cluster (src/storage/address_column.cpp): where  *)
(* the record of each posting lies in data.dat.                             *)
(*                                                                         *)
(* An address is [offset |-> , size |-> ] in bytes.  Two encodings exist.   *)
(*   V1Packed   : blocks of sizes in pages; a block stores the page of its  *)
(*                first record and decoding adds the sizes up;              *)
(*   V2RawTable : a table of (page, pages) pairs.                           *)
(* What BitpackCodec packs is kept as the sequence of the packed values,    *)
(* zeros of the padding included, next to its length in bytes.              *)
(***************************************************************************)
EXTENDS Arithmetic

CONSTANT Word  \* number of values of a uint32_t

ASSUME WordAssumption == Word \in Nat \ {0} /\ \E b \in 1..32 : Word <= 2^b

U32(x) == x % Word


kDefaultFixedPackedSize == 64

Blocks(n, G) == CeilDiv(n, G)
-----------------------------------------------------------------------------
(* Sizes in whole pages: V1 rounds a size up. *)
PageSizes(entries, page_size) ==
  [i \in DOMAIN entries |-> CeilDiv(entries[i].size, page_size)]

ComputeMinBitWidth(values) ==
  CHOOSE b \in 1..32 :
    /\ \A i \in DOMAIN values : values[i] < 2^b
    /\ b = 1 \/ \E i \in DOMAIN values : values[i] >= 2^(b - 1)

ComputeBlockGranularity(fixed_packed_size, bit_width) ==
  LET fits == (fixed_packed_size * 8) \div bit_width
  IN  IF fits = 0 THEN 1 ELSE fits

(* A block of the values SubSeq(sizes, ...): its bytes, padded to padded_size, *)
(* and the values they unpack to.                                           *)
EncodeSingleBlock(entries, page_size, bit_width, padded_size) ==
  LET sizes == PageSizes(entries, page_size)
      bytes == CeilDiv(Len(entries) * bit_width, 8)
      all == IF padded_size > bytes THEN padded_size ELSE bytes
      room == (all * 8) \div bit_width
  IN  [base_offset |-> U32(entries[1].offset \div page_size),
       bytes |-> all,
       packed |-> [i \in 1..room |-> IF i <= Len(sizes) THEN sizes[i] ELSE 0]]

EmptyColumn(page_size, fixed_packed_size) ==
  [format |-> "V1Packed", page_size |-> page_size, bit_width |-> 1,
   block_granularity |-> 0, fixed_packed_size |-> fixed_packed_size,
   last_packed_size |-> 0, num_address_blocks |-> 0, blocks |-> << >>,
   total_records |-> 0]

Encode(entries, fixed_packed_size, page_size) ==
  LET n == Len(entries)
      fixed == IF fixed_packed_size = 0 THEN kDefaultFixedPackedSize
               ELSE fixed_packed_size
      bits == ComputeMinBitWidth(PageSizes(entries, page_size))
      G == ComputeBlockGranularity(fixed, bits)
      m == Blocks(n, G)
      block(b) ==
        EncodeSingleBlock(
          SubSeq(entries, (b - 1) * G + 1, IF b < m THEN b * G ELSE n),
          page_size, bits, IF b < m THEN fixed ELSE 0)
  IN  IF n = 0 THEN EmptyColumn(page_size, fixed_packed_size)
      ELSE [format |-> "V1Packed", page_size |-> page_size, bit_width |-> bits,
            block_granularity |-> G, fixed_packed_size |-> fixed,
            last_packed_size |-> block(m).bytes, num_address_blocks |-> m,
            blocks |-> [b \in 1..m |-> block(b)], total_records |-> n]
-----------------------------------------------------------------------------
(* Seeded fault: an inclusive prefix sum. *)
PrefixSumsInclusive(s) ==
  LET sums[i \in 0..Len(s)] == IF i = 0 THEN 0 ELSE U32(sums[i - 1] + s[i])
  IN  [i \in DOMAIN s |-> sums[i]]

(* ExclusivePrefixSum: sums[i] = s[1] + ... + s[i-1]. *)
PrefixSums(s) ==
  LET sums[i \in 0..Len(s)] == IF i = 0 THEN 0 ELSE U32(sums[i - 1] + s[i])
  IN  [i \in DOMAIN s |-> sums[i - 1]]

(* One block of `count` records.  DecodeMultiStream does the same to up to  *)
(* eight regular blocks side by side.                                       *)
DecodeSingleBlock(page_size, block, count) ==
  LET sizes == [i \in 1..count |-> block.packed[i]]
      prefix == PrefixSums(sizes)
  IN  [i \in 1..count |->
        [offset |-> (block.base_offset + prefix[i]) * page_size,
         size |-> U32(sizes[i] * page_size)]]

BlockRecordCount(column, block_idx) ==
  LET regular == (column.num_address_blocks - 1) * column.block_granularity
  IN  IF block_idx < column.num_address_blocks THEN column.block_granularity
      ELSE IF column.total_records <= regular THEN 0
      ELSE column.total_records - regular

Corrupt == [ok |-> FALSE, entries |-> << >>]

(* Regular blocks first, in batches, then the tail on its own; the counts   *)
(* must add up to total_records.                                            *)
DecodeBatchBlocks(column) ==
  LET m == column.num_address_blocks
      G == column.block_granularity
      tail == BlockRecordCount(column, m)
      separate ==
        tail < G \/ column.last_packed_size # column.fixed_packed_size
      regular == IF separate THEN m - 1 ELSE m
      decoded ==
        [b \in 1..m |->
          DecodeSingleBlock(column.page_size, column.blocks[b],
                            IF b <= regular THEN G ELSE tail)]
  IN  IF Len(column.blocks) # m THEN Corrupt
      ELSE IF m = 0 THEN [ok |-> column.total_records = 0, entries |-> << >>]
      ELSE IF G = 0 THEN Corrupt
      ELSE IF regular * G + (IF separate THEN tail ELSE 0) # column.total_records
      THEN Corrupt
      ELSE [ok |-> TRUE, entries |-> FlattenSeq(decoded)]
-----------------------------------------------------------------------------
(* V2 rounds offsets and sizes down to whole pages, and keeps 32 bits. *)
EncodeRawTableV2(entries, page_size) ==
  [format |-> "V2RawTable", page_size |-> page_size,
   total_records |-> Len(entries),
   raw_entries |->
     [i \in DOMAIN entries |->
       [offset_pages |-> U32(entries[i].offset \div page_size),
        size_pages |-> U32(entries[i].size \div page_size)]]]

DecodeRawEntryV2(entry, page_size) ==
  [offset |-> entry.offset_pages * page_size,
   size |-> U32(entry.size_pages * page_size)]

DecodeRawTableV2(column) ==
  IF Len(column.raw_entries) # column.total_records THEN Corrupt
  ELSE [ok |-> TRUE,
        entries |-> [i \in DOMAIN column.raw_entries |->
                      DecodeRawEntryV2(column.raw_entries[i], column.page_size)]]

Decode(column) ==
  IF column.format = "V2RawTable" THEN DecodeRawTableV2(column)
  ELSE DecodeBatchBlocks(column)
-----------------------------------------------------------------------------
(* The addresses V2 stores without loss: ValidateRawTableV2Alignment, and   *)
(* pages that fit 32 bits.                                                  *)
ValidateRawTableV2Alignment(entries, page_size) ==
  /\ page_size # 0
  /\ \A i \in DOMAIN entries :
       /\ entries[i].offset % page_size = 0
       /\ entries[i].size % page_size = 0

FitsRawTable(entries, page_size) ==
  \A i \in DOMAIN entries :
    entries[i].offset \div page_size < Word /\ entries[i].size < Word

(* The addresses V1 stores without loss: whole pages, and each record next   *)
(* to the one before it.                                                    *)
Adjacent(entries) ==
  \A i \in 1..(Len(entries) - 1) :
    entries[i + 1].offset = entries[i].offset + entries[i].size
=============================================================================
