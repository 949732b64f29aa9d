----------------------------- MODULE ClusterStore -----------------------------
(***************************************************************************)
(* cluster.clu (src/storage/cluster_store.cpp): the writer the index        *)
(* builder drives, the file it leaves behind when it finishes, gives up or  *)
(* dies, and the reader the queries use.                                    *)
(*                                                                         *)
(* The file is a function from offsets to cells.  A cell stands for a group *)
(* of bytes that is written and read as one: the header, the data file's    *)
(* path, half a lookup entry, a FastScan block, one lane of a batch, an     *)
(* entry of the address table, half a mini-trailer.  Offsets, sizes and     *)
(* alignment are counted in cells.  std::fstream keeps what was written in  *)
(* `buffered` and hands it to the kernel in order; seekp waits for that.    *)
(***************************************************************************)
EXTENDS AddressColumn

CONSTANTS
  NumClusters,  \* num_clusters
  Ids,          \* cluster ids the client may use
  Sizes,        \* record counts a cluster may have
  Layouts,      \* subset of {"none", "fixed", "variable"}: the ex region
  Addresses,    \* Addresses[id]: the addresses of the records of cluster id
  PageSize,     \* page_size of the address columns
  PackedSize,   \* fixed_packed_size of a V1 column
  FsLanes,      \* records of a FastScan block (32)
  ExLanes,      \* records of an ExRaBitQ batch (8)
  AlignSize,    \* kAlignSize
  SlabAlign     \* kCodeSlabClusterAlign

ASSUME StoreAssumption ==
  /\ NumClusters \in Nat \ {0}
  /\ Ids \subseteq Nat /\ Sizes \subseteq Nat
  /\ Layouts \subseteq {"none", "fixed", "variable"}
  /\ FsLanes \in Nat \ {0} /\ ExLanes \in Nat \ {0}
  /\ AlignSize \in Nat \ {0} /\ SlabAlign \in Nat \ {0}
  /\ PageSize \in Nat \ {0} /\ PackedSize \in Nat
  /\ \A id \in Ids :
       /\ Addresses[id] \in Seq([offset : Nat, size : Nat])
       /\ ValidateRawTableV2Alignment(Addresses[id], PageSize)
       /\ FitsRawTable(Addresses[id], PageSize)
       /\ \A n \in Sizes : n <= Len(Addresses[id])

VARIABLES
  disk,            \* what the kernel has of the file
  buffered,        \* writes the stream still holds, oldest first
  lost,            \* what the stream failed to write: "none" while it is good
  writer,          \* "closed", "open", "finalizing", "finalized" or "failed"
  layout,          \* effective_exdata_layout: a header field, read back by Open
  current_offset,  \* current_offset_
  lookup_table,    \* info_.lookup_table, as far as it is filled in
  cluster,         \* the cluster in progress, NoCluster outside of one
  file_version,    \* the reader's file_version_, NotOpen while fd_ < 0
  info,            \* the reader's lookup table, as cluster_index_ reaches it
  loaded,          \* loaded_clusters_
  resident,        \* resident_clusters_
  ready            \* resident_preload_ready_

streamVars == <<disk, buffered, lost>>
writerVars == <<writer, layout, current_offset, lookup_table, cluster>>
readerVars == <<file_version, info, loaded, resident, ready>>
storeVars == <<streamVars, writerVars, readerVars>>

kFileVersionV9 == 9
(* Versions 12 to 14 differ in the header only. *)
kFileVersion == [l \in {"none", "fixed", "variable"} |->
                  IF l = "variable" THEN 15 ELSE 14]
NotOpen == -1
NoCluster == [stage |-> "none"]
EmptyMap == << >>  \* the function with the empty domain
-----------------------------------------------------------------------------
(* Cells. *)
Zero == [k |-> "zero"]
Zeros(n) == [i \in 1..n |-> Zero]
HeaderCell(l) == [k |-> "header", version |-> kFileVersion[l]]
PathCell(set) == [k |-> "path", set |-> set]
EntryHead(e) == [k |-> "head", id |-> e.id, num_records |-> e.num_records]
EntryTail(e) ==
  [k |-> "tail", block_offset |-> e.block_offset, block_size |-> e.block_size,
   num_fastscan_blocks |-> e.num_fastscan_blocks]


TableStart == 2
lookup_entry_size == 2
EntryOffset(i) == TableStart + (i - 1) * lookup_entry_size
FirstBlock == RoundUpToMultiple(EntryOffset(NumClusters + 1), AlignSize)

Padding(offset) == Zeros(RoundUpToMultiple(offset, AlignSize) - offset)

(* The code of record i of a cluster, and what a lane without record holds. *)
Code(id, i) == [k |-> "code", id |-> id, rec |-> i]
Lane(id, n, i) == IF i <= n THEN Code(id, i) ELSE Zero

FsRegion(id, n) ==
  [b \in 1..Blocks(n, FsLanes) |->
    [k |-> "fastscan",
     lanes |-> [j \in 1..FsLanes |-> Lane(id, n, (b - 1) * FsLanes + j)]]]

ValidCount(n, bb) ==
  LET left == n - (bb - 1) * ExLanes
  IN  IF left < ExLanes THEN left ELSE ExLanes

BatchCells(id, n, bb, lanes) ==
  <<[k |-> "valid", count |-> ValidCount(n, bb)]>>
    \o [j \in 1..lanes |-> Lane(id, n, (bb - 1) * ExLanes + j)]

(* Batches of equal size, or a header, a table of offsets and batches that  *)
(* store valid lanes only.                                                  *)
FixedRegion(id, n) ==
  FlattenSeq([bb \in 1..Blocks(n, ExLanes) |-> BatchCells(id, n, bb, ExLanes)])

VariableRegion(id, n) ==
  LET m == Blocks(n, ExLanes)
      batch(bb) == BatchCells(id, n, bb, ValidCount(n, bb))
      begin[bb \in 1..(m + 1)] ==
        IF bb = 1 THEN m + 2 ELSE begin[bb - 1] + Len(batch(bb - 1))
  IN  <<[k |-> "exhead", batch_blocks |-> m]>>
        \o [bb \in 1..(m + 1) |-> [k |-> "exoffset", at |-> begin[bb]]]
        \o FlattenSeq([bb \in 1..m |-> batch(bb)])

ExRegion(l, id, n) ==
  CASE l = "none" -> << >>
    [] l = "fixed" -> FixedRegion(id, n)
    [] l = "variable" -> VariableRegion(id, n)

AddressCells(raw) == [i \in DOMAIN raw |-> [k |-> "address", raw |-> raw[i]]]

MiniTrailer(raw, payload_offset) ==
  <<[k |-> "trailer", page_size |-> PageSize, num_entries |-> Len(raw),
     payload_offset |-> payload_offset, payload_bytes |-> Len(raw)],
    [k |-> "footer", mini_trailer_size |-> 2]>>
-----------------------------------------------------------------------------
(* The stream. *)
Chunk(what, at, cells) == [what |-> what, at |-> at, cells |-> cells]

(* Once the stream is bad, writing does nothing. *)
Write(chunks) ==
  /\ buffered' = IF lost = "none" THEN buffered \o chunks ELSE buffered
  /\ UNCHANGED <<disk, lost>>

Applied(chunk) ==
  LET last == chunk.at + Len(chunk.cells) - 1
  IN  [o \in DOMAIN disk \cup chunk.at..last |->
        IF o \in chunk.at..last THEN chunk.cells[o - chunk.at + 1] ELSE disk[o]]

Flush ==
  /\ buffered # << >>
  /\ disk' = Applied(Head(buffered))
  /\ buffered' = Tail(buffered)
  /\ UNCHANGED <<lost, writerVars, readerVars>>

(* A write fails; the stream turns bad and drops what it holds. *)
FlushFails ==
  /\ buffered # << >>
  /\ lost' = Head(buffered).what
  /\ buffered' = << >>
  /\ UNCHANGED <<disk, writerVars, readerVars>>

NothingBuffered(kinds) == \A i \in DOMAIN buffered : buffered[i].what \notin kinds
-----------------------------------------------------------------------------
(* ClusterStoreWriter.  Where the code checks file_.good() after it wrote,  *)
(* the action is enabled only on a good stream: the other outcome is an     *)
(* error, after which the builder gives up (Abandon).                       *)
Checked == lost = "none"

OpenWriter(l) ==
  /\ writer = "closed"
  /\ writer' = "open"
  /\ layout' = l
  /\ Write(<<Chunk("header", 0, <<HeaderCell(l), PathCell(FALSE)>>),
             Chunk("header", TableStart,
                   Zeros(NumClusters * lookup_entry_size)),
             Chunk("pad", EntryOffset(NumClusters + 1),
                   Padding(EntryOffset(NumClusters + 1)))>>)
  /\ current_offset' = FirstBlock
  /\ UNCHANGED <<lookup_table, cluster, readerVars>>

BeginCluster(id, n) ==
  /\ writer = "open" /\ cluster = NoCluster
  /\ Len(lookup_table) < NumClusters
  /\ cluster' = [stage |-> "begun", id |-> id, num_records |-> n,
                 block_start |-> current_offset, num_fastscan_blocks |-> 0,
                 raw |-> << >>]
  /\ UNCHANGED <<streamVars, writer, layout, current_offset, lookup_table,
                 readerVars>>

WriteVectors ==
  /\ writer = "open" /\ cluster.stage = "begun"
  /\ LET fs == FsRegion(cluster.id, cluster.num_records)
         ex == ExRegion(layout, cluster.id, cluster.num_records)
     IN  /\ fs \o ex # << >> => Checked
         /\ Write(<<Chunk("block", current_offset, fs \o ex)>>)
         /\ current_offset' = current_offset + Len(fs \o ex)
         /\ cluster' = [cluster EXCEPT !.stage = "vectors",
                                       !.num_fastscan_blocks = Len(fs)]
  /\ UNCHANGED <<writer, layout, lookup_table, readerVars>>

ClusterAddresses(id, n) == SubSeq(Addresses[id], 1, n)

(* A V1 column is decoded and stored as a raw table as well. *)
RawTableOf(column) ==
  IF column.format = "V1Packed"
  THEN EncodeRawTableV2(Decode(column).entries, column.page_size)
  ELSE column

WriteAddressBlocks(column) ==
  /\ writer = "open" /\ cluster.stage = "vectors"
  /\ column.total_records = cluster.num_records
  /\ column.format = "V1Packed" => DecodeBatchBlocks(column).ok
  /\ LET raw == RawTableOf(column).raw_entries
     IN  /\ raw # << >> => Checked
         /\ Write(<<Chunk("block", current_offset, AddressCells(raw))>>)
         /\ current_offset' = current_offset + Len(raw)
         /\ cluster' = [cluster EXCEPT !.stage = "addresses", !.raw = raw]
  /\ UNCHANGED <<writer, layout, lookup_table, readerVars>>

(* Seeded fault: the block's end is where the trailer starts. *)
BlockEndBeforeTrailer == current_offset

(* The trailer, then the lookup entry, then padding.  The entry names a     *)
(* block that is complete before it.                                        *)
BlockEnd == current_offset + 2

PatchedEntry ==
  [id |-> cluster.id, num_records |-> cluster.num_records,
   block_offset |-> cluster.block_start,
   block_size |-> BlockEnd - cluster.block_start,
   num_fastscan_blocks |-> cluster.num_fastscan_blocks]

(* Seeded fault: the lookup entry is written before the trailer. *)
EndChunksEntryFirst ==
  LET trailer ==
        MiniTrailer(cluster.raw,
                    current_offset - cluster.block_start - Len(cluster.raw))
      entry == EntryOffset(Len(lookup_table) + 1)
  IN  <<Chunk("entry", entry, <<EntryHead(PatchedEntry)>>),
        Chunk("entry", entry + 1, <<EntryTail(PatchedEntry)>>),
        Chunk("block", current_offset, trailer),
        Chunk("pad", BlockEnd, Padding(BlockEnd))>>

EndChunks ==
  LET trailer ==
        MiniTrailer(cluster.raw,
                    current_offset - cluster.block_start - Len(cluster.raw))
      entry == EntryOffset(Len(lookup_table) + 1)
  IN  <<Chunk("block", current_offset, trailer),
        Chunk("entry", entry, <<EntryHead(PatchedEntry)>>),
        Chunk("entry", entry + 1, <<EntryTail(PatchedEntry)>>),
        Chunk("pad", BlockEnd, Padding(BlockEnd))>>

EndCluster ==
  /\ writer = "open" /\ cluster.stage = "addresses"
  /\ Checked
  /\ Write(EndChunks)
  /\ lookup_table' = Append(lookup_table, PatchedEntry)
  /\ current_offset' = RoundUpToMultiple(BlockEnd, AlignSize)
  /\ cluster' = [cluster EXCEPT !.stage = "ending"]
  /\ UNCHANGED <<writer, layout, readerVars>>

(* EndCluster returns OK when everything but the padding is with the        *)
(* kernel; that the entry itself was lost it may not notice.                *)
EndClusterReturns ==
  /\ writer = "open" /\ cluster.stage = "ending"
  /\ NothingBuffered({"header", "block", "entry"})
  /\ lost \in {"none", "entry", "pad"}
  /\ cluster' = NoCluster
  /\ UNCHANGED <<streamVars, writer, layout, current_offset, lookup_table,
                 readerVars>>

Finalize ==
  /\ writer = "open" /\ cluster = NoCluster
  /\ Write(<<Chunk("path", 1, <<PathCell(TRUE)>>)>>)
  /\ writer' = "finalizing"
  /\ UNCHANGED <<layout, current_offset, lookup_table, cluster, readerVars>>

(* Seeded fault: the stream is not checked after the path is written. *)
FinalizeReturnsUnchecked ==
  /\ writer = "finalizing"
  /\ buffered = << >>
  /\ writer' = "finalized"
  /\ UNCHANGED <<streamVars, layout, current_offset, lookup_table, cluster,
                 readerVars>>

(* The stream is checked before the path is flushed: Finalize returns OK    *)
(* when the path, and nothing else, was lost.                               *)
FinalizeReturns ==
  /\ writer = "finalizing"
  /\ buffered = << >>
  /\ lost \in {"none", "path"}
  /\ writer' = "finalized"
  /\ UNCHANGED <<streamVars, layout, current_offset, lookup_table, cluster,
                 readerVars>>

(* The builder gives up: the destructor closes the file, which flushes it.  *)
(* Or the process dies, and what is buffered with it.                       *)
Abandon ==
  /\ writer \in {"open", "finalizing"}
  /\ writer' = "failed"
  /\ UNCHANGED <<streamVars, layout, current_offset, lookup_table, cluster,
                 readerVars>>

Crash ==
  /\ writer \in {"open", "finalizing", "failed"}
  /\ buffered # << >>
  /\ writer' = "failed"
  /\ buffered' = << >>
  /\ UNCHANGED <<disk, lost, layout, current_offset, lookup_table, cluster,
                 readerVars>>
-----------------------------------------------------------------------------
(* Reading the file.  Every operator says whether it succeeds and with what. *)
Has(from, to) == from..to \subseteq DOMAIN disk
Cells(from, n) == [i \in 1..n |-> disk[from + i - 1]]
Kind(o) == IF o \in DOMAIN disk THEN disk[o].k ELSE "eof"

Rejected == [ok |-> FALSE]

(* A lookup entry as Open reads it; halves never written are zero. *)
EntryOnDisk(i) ==
  LET head == disk[EntryOffset(i)]
      tail == disk[EntryOffset(i) + 1]
  IN  [id |-> IF head.k = "head" THEN head.id ELSE 0,
       num_records |-> IF head.k = "head" THEN head.num_records ELSE 0,
       block_offset |-> IF tail.k = "tail" THEN tail.block_offset ELSE 0,
       block_size |-> IF tail.k = "tail" THEN tail.block_size ELSE 0,
       num_fastscan_blocks |->
         IF tail.k = "tail" THEN tail.num_fastscan_blocks ELSE 0]

(* The mini-trailer of a block: found from the block's end, of the V9       *)
(* layout, and in agreement with the lookup entry.  A trailer of the older  *)
(* layout is 29 + 4 * blocks bytes long, which the 32 bytes of this one     *)
(* never match: read as an older one it is rejected.                        *)
TrailerOk(version, e) ==
  LET end == e.block_offset + e.block_size
  IN  /\ version >= kFileVersionV9
      /\ Kind(end - 1) = "footer"
      /\ disk[end - 1].mini_trailer_size <= e.block_size
      /\ Kind(end - disk[end - 1].mini_trailer_size) = "trailer"
      /\ disk[end - disk[end - 1].mini_trailer_size].num_entries = e.num_records

(* The code region ends where the address table begins, and the table where *)
(* the trailer begins.                                                      *)
LoadCluster(version, e) ==
  LET end == e.block_offset + e.block_size
      size == disk[end - 1].mini_trailer_size
      trailer == disk[end - size]
      region1 == e.num_fastscan_blocks
      region2 == IF trailer.payload_offset >= region1
                 THEN trailer.payload_offset - region1 ELSE 0
      codes == region1 + region2
      table == e.block_offset + trailer.payload_offset
  IN  IF ~ TrailerOk(version, e) THEN Rejected
      ELSE IF \/ codes + size > e.block_size
              \/ e.block_size - codes - size # trailer.payload_bytes
              \/ ~ Has(e.block_offset, e.block_offset + codes - 1)
              \/ ~ Has(table, table + trailer.payload_bytes - 1)
      THEN Rejected
      ELSE [ok |-> TRUE, num_records |-> e.num_records, region1 |-> region1,
            codes |-> Cells(e.block_offset, codes),
            addresses |->
              [i \in 1..e.num_records |->
                DecodeRawEntryV2(disk[table + i - 1].raw, trailer.page_size)]]

(* The checks of ParseClusterBlockView on a region of varying batches. *)
VariableHeaderOk(n, region) ==
  LET m == Blocks(n, ExLanes)
  IN  /\ Len(region) >= m + 2
      /\ region[1].k = "exhead" /\ region[1].batch_blocks = m
      /\ region[2].at = m + 2
      /\ region[m + 2].at = Len(region)

ParseClusterBlock(version, l, e) ==
  LET view == LoadCluster(version, e)
  IN  IF ~ view.ok THEN Rejected
      ELSE IF l = "variable"
              /\ ~ VariableHeaderOk(e.num_records,
                     SubSeq(view.codes, view.region1 + 1, Len(view.codes)))
      THEN Rejected
      ELSE view

(* LoadCodes: the code of record i in the FastScan blocks and in the ex     *)
(* region, where it is lane (i - 1) % ExLanes of a batch.                   *)
FastScanCode(view, i) ==
  view.codes[((i - 1) \div FsLanes) + 1].lanes[((i - 1) % FsLanes) + 1]

ExCode(l, view, i) ==
  LET region == SubSeq(view.codes, view.region1 + 1, Len(view.codes))
      bb == (i - 1) \div ExLanes
      lane == (i - 1) % ExLanes
      at == IF l = "variable" THEN region[bb + 2].at
            ELSE bb * (1 + ExLanes)
  IN  IF lane < region[at + 1].count THEN region[at + lane + 2] ELSE Zero

(* What was written for a cluster, and whether a view of it is just that. *)
Faithful(l, e, view) ==
  /\ view.ok
  /\ view.num_records = e.num_records
  /\ view.addresses = ClusterAddresses(e.id, e.num_records)
  /\ \A i \in 1..e.num_records :
       /\ FastScanCode(view, i) = Code(e.id, i)
       /\ l # "none" => ExCode(l, view, i) = Code(e.id, i)
-----------------------------------------------------------------------------
(* ClusterStoreReader. *)
(* cluster_index_: of the entries with the same id the last one counts, and *)
(* an entry never written has id 0.                                         *)
Indexed(id) == \E i \in DOMAIN info : info[i].id = id

(* Seeded fault: the entry is taken by position, not by id. *)
EntryOfByPosition(id) == info[IF id < NumClusters THEN id + 1 ELSE 1]

EntryOf(id) ==
  info[CHOOSE i \in DOMAIN info :
         /\ info[i].id = id
         /\ \A j \in DOMAIN info : info[j].id = id => j <= i]

OpenReader ==
  /\ file_version = NotOpen
  /\ writer \in {"finalized", "failed"} /\ buffered = << >>
  /\ Kind(0) = "header" /\ Has(0, EntryOffset(NumClusters + 1) - 1)
  /\ file_version' = disk[0].version
  /\ info' = [i \in 1..NumClusters |-> EntryOnDisk(i)]
  /\ UNCHANGED <<loaded, resident, ready, streamVars, writerVars>>

EnsureClusterLoaded(id) ==
  /\ file_version # NotOpen
  /\ id \notin DOMAIN loaded
  /\ Indexed(id)
  /\ LET data == LoadCluster(file_version, EntryOf(id))
     IN  /\ data.ok
         /\ loaded' = [j \in DOMAIN loaded \cup {id} |->
                        IF j = id THEN data ELSE loaded[j]]
  /\ UNCHANGED <<file_version, info, resident, ready, streamVars, writerVars>>

(* Does nothing when the clusters are resident. *)
UnloadCluster(id) ==
  /\ file_version # NotOpen
  /\ ~ ready
  /\ id \in DOMAIN loaded
  /\ loaded' = [j \in DOMAIN loaded \ {id} |-> loaded[j]]
  /\ UNCHANGED <<file_version, info, resident, ready, streamVars, writerVars>>

(* The slab of the code regions: one after the other in the order of their  *)
(* blocks, each at an aligned offset, copied in that order.                 *)
CodeBytes(v) == Len(v.codes)

SlabOffsets(views) ==
  LET at[i \in 1..Len(views)] ==
        IF i = 1 THEN 0
        ELSE RoundUpToMultiple(at[i - 1] + CodeBytes(views[i - 1]), SlabAlign)
  IN  at

CodeSlab(views) ==
  LET at == SlabOffsets(views)
      last == Len(views)
      end == at[last] + CodeBytes(views[last])
      inside(i, o) == at[i] <= o /\ o < at[i] + CodeBytes(views[i])
      writers(o) == {i \in 1..last : inside(i, o)}
      latest(o) == CHOOSE i \in writers(o) : \A j \in writers(o) : j <= i
  IN  [o \in 0..(end - 1) |->
        IF writers(o) = {} THEN Zero
        ELSE views[latest(o)].codes[o - at[latest(o)] + 1]]

InSlab(views, i) ==
  LET slab == CodeSlab(views)
      at == SlabOffsets(views)
  IN  [views[i] EXCEPT !.codes =
        [o \in DOMAIN views[i].codes |-> slab[at[i] + o - 1]]]

(* PreloadAllClusters in its three modes: the whole file, the code regions  *)
(* cluster by cluster, or in one slab.  One block that cannot be read and   *)
(* parsed fails it, and nothing becomes resident.  Of the modes only the    *)
(* first keeps the raw address table.                                       *)
PreloadModes == {"full_file", "compact", "code_slab"}

(* An order of the lookup table by block offset, and the table in it. *)
InFileOrder(p) ==
  /\ \A i \in DOMAIN info : \E j \in DOMAIN info : p[j] = i
  /\ \A i, j \in DOMAIN info : i < j => info[p[i]].block_offset <= info[p[j]].block_offset

Ordered ==
  LET order == CHOOSE p \in [DOMAIN info -> DOMAIN info] : InFileOrder(p)
  IN  [i \in DOMAIN info |-> info[order[i]]]

Readable(e) ==
  /\ e.block_size > 0
  /\ Has(e.block_offset, e.block_offset + e.block_size - 1)
  /\ ParseClusterBlock(file_version, layout, e).ok

PreloadAllClusters(mode) ==
  /\ file_version # NotOpen
  /\ ~ ready
  /\ LET entries == Ordered
         views == [i \in DOMAIN entries |->
                    ParseClusterBlock(file_version, layout, entries[i])]
         view(i) == IF mode = "code_slab" THEN InSlab(views, i) ELSE views[i]
         at(id) == CHOOSE i \in DOMAIN entries : entries[i].id = id
     IN  /\ \A i \in DOMAIN info : Readable(info[i])
         /\ resident' = [id \in {entries[i].id : i \in DOMAIN entries} |->
                          view(at(id))]
  /\ ready' = TRUE
  /\ UNCHANGED <<file_version, info, loaded, streamVars, writerVars>>

Close ==
  /\ file_version # NotOpen
  /\ file_version' = NotOpen
  /\ info' = << >>
  /\ loaded' = EmptyMap
  /\ resident' = EmptyMap
  /\ ready' = FALSE
  /\ UNCHANGED <<streamVars, writerVars>>

(* The move constructor hands over everything but file_version_. *)
MoveReader ==
  /\ file_version > 0
  /\ file_version' = 0
  /\ UNCHANGED <<info, loaded, resident, ready, streamVars, writerVars>>
-----------------------------------------------------------------------------
Init ==
  /\ disk = << >> /\ buffered = << >> /\ lost = "none"
  /\ writer = "closed" /\ layout = "none" /\ current_offset = 0
  /\ lookup_table = << >> /\ cluster = NoCluster
  /\ file_version = NotOpen /\ info = << >>
  /\ loaded = EmptyMap /\ resident = EmptyMap /\ ready = FALSE

WrittenIds == {lookup_table[i].id : i \in DOMAIN lookup_table}

(* What a client passes to WriteAddressBlocks: a raw table, or, where the    *)
(* records lie next to each other, a V1 column.                             *)
AddressColumnsOf(id, n) ==
  LET entries == ClusterAddresses(id, n)
  IN  {EncodeRawTableV2(entries, PageSize)}
        \cup (IF Adjacent(entries)
              THEN {Encode(entries, PackedSize, PageSize)} ELSE {})

Build ==
  \/ \E l \in Layouts : OpenWriter(l)
  \/ \E id \in Ids \ WrittenIds, n \in Sizes : BeginCluster(id, n)
  \/ WriteVectors
  \/ /\ cluster.stage = "vectors"
     /\ \E column \in AddressColumnsOf(cluster.id, cluster.num_records) :
          WriteAddressBlocks(column)
  \/ EndCluster
  \/ EndClusterReturns
  \/ Finalize
  \/ FinalizeReturns
  \/ Abandon

Query ==
  \/ OpenReader
  \/ \E id \in Ids : EnsureClusterLoaded(id) \/ UnloadCluster(id)
  \/ \E mode \in PreloadModes : PreloadAllClusters(mode)
  \/ Close
  \/ MoveReader

Next == Build \/ Query \/ Flush \/ FlushFails \/ Crash

Spec == Init /\ [][Next]_storeVars
-----------------------------------------------------------------------------
(* Whenever the builder dies, whatever of the file has reached the kernel:  *)
(* an entry of the lookup table that names a block names one that parses    *)
(* and gives back each record's codes and address.  EndCluster writes the   *)
(* trailer, then the entry, and no block moves after that.                  *)
TableOnDisk == Kind(0) = "header" /\ Has(0, EntryOffset(NumClusters + 1) - 1)

PublishedEntryParses ==
  TableOnDisk =>
    \A i \in 1..NumClusters :
      LET e == EntryOnDisk(i)
      IN  e.block_size > 0 =>
            Faithful(layout, e, ParseClusterBlock(kFileVersion[layout], layout, e))

(* What EnsureClusterLoaded keeps under an id is what the builder wrote for *)
(* that id: codes and addresses, of a complete file or of the file a dead   *)
(* builder left.                                                            *)
LoadedIsWritten ==
  \A id \in DOMAIN loaded :
    \E i \in DOMAIN lookup_table :
      lookup_table[i].id = id /\ Faithful(layout, lookup_table[i], loaded[id])

(* The same of the views PreloadAllClusters builds, in each mode: moving    *)
(* the code regions into one slab mixes up no two clusters.  Preloading is  *)
(* all or nothing: once it reports success every one of the num_clusters    *)
(* clusters was written and is resident.  A file whose builder died is      *)
(* served from memory only if all of its blocks and entries had been        *)
(* written.                                                                 *)
ResidentIsTheFile ==
  /\ \A id \in DOMAIN resident :
       \E i \in DOMAIN lookup_table :
         lookup_table[i].id = id /\ Faithful(layout, lookup_table[i], resident[id])
  /\ ready => Len(lookup_table) = NumClusters /\ DOMAIN resident = WrittenIds

(* When Finalize returns OK, each cluster whose EndCluster returned OK can   *)
(* be read: a write that failed between the two has made Finalize fail.     *)
FinalizedFileComplete ==
  writer = "finalized" =>
    /\ TableOnDisk
    /\ \A i \in DOMAIN lookup_table : EntryOnDisk(i) = lookup_table[i]

(* A byte of a cluster's block that the kernel has is never written again:  *)
(* neither padding, nor a lookup entry, nor the next block reaches it.      *)
BlockCell(cell) ==
  cell.k \in {"fastscan", "valid", "code", "exhead", "exoffset", "address",
             "trailer", "footer"}

BlocksNeverOverwritten ==
  [][\A o \in DOMAIN disk :
       BlockCell(disk[o]) => o \in DOMAIN disk' /\ disk'[o] = disk[o]]_storeVars
=============================================================================
