--------------------------- MODULE IndexPartsProofs ---------------------------
(***************************************************************************)
(* Theorems about four of the parts of an index.                            *)
(*                                                                         *)
(* Columns, for any schema and any data: every row of the file reads back   *)
(* as what was ingested.                                                    *)
(*                                                                         *)
(* FastScan, for any query, any blocks and any dimension a lane has room    *)
(* for: every lane sums the query over the signs of its own vector, and the *)
(* masks follow from that vector's distance.                                *)
(*                                                                         *)
(* Rotation, for every draw, number of rounds and dimension whose blocks    *)
(* have whole scales (WholeScales): a generated rotation preserves inner    *)
(* products and is undone by its inverse, and what was loaded rotates as    *)
(* what was saved.                                                          *)
(*                                                                         *)
(* CoarseRouting, for any centroids, queries and settings: a query is       *)
(* answered with the nearest of the clusters scored for it, and under       *)
(* two-level routing these are the children of the nearest super centroids  *)
(* of the hierarchy its settings ask for.                                   *)
(***************************************************************************)
EXTENDS Columns, FastScan, Rotation, CoarseRouting, BasicLemmas

Cells == Bytes \cup Nat

Writers == [ColumnIds -> [data : Seq(Bytes), offsets : Seq(Nat)]]

Locators ==
  [ColumnIds -> [data_offset : Nat, data_length : Nat, offset_table_pos : Int]]

(* A row as its caller holds it: each value fits its column, and the        *)
(* locator has its length.                                                  *)
KeptRows ==
  {r \in [values : [ColumnIds -> Data], locs : Locators] :
     \A c \in ColumnIds :
       /\ Fits(c, r.values[c])
       /\ r.locs[c].data_length = Len(r.values[c])}

(* Each value lies in its column where its locator says.                    *)
WrittenInv ==
  /\ writers = NotOpen \/ writers \in Writers
  /\ writers = NotOpen => rows = << >>
  /\ rows \in Seq(KeptRows)
  /\ \A k \in DOMAIN rows, c \in ColumnIds :
       LiesAt(writers[c].data, rows[k].locs[c].data_offset, rows[k].values[c])

(* A whole buffer in which the rows lie behind the regions' offsets.        *)
HoldsRows(whole, held) ==
  /\ whole \in Seq(Cells) /\ HeaderSize <= Len(whole)
  /\ \A c \in ColumnIds : whole[1 + c] \in Nat
  /\ \A k \in DOMAIN held, c \in ColumnIds :
       LiesAt(whole, HeaderSize + whole[1 + c] + held[k].locs[c].data_offset,
              held[k].values[c])

(* A file is the start of such a buffer.                                    *)
FileOf(bytes, kept) ==
  /\ kept.rows \in Seq(KeptRows)
  /\ \E whole : /\ HoldsRows(whole, kept.rows)
                /\ \E n \in 0..Len(whole) :
                     /\ bytes = SubSeq(whole, 1, n)
                     /\ kept.whole => n = Len(whole)

ReaderOf(bytes, reader) ==
  /\ HeaderSize <= Len(bytes)
  /\ reader.buf = SubSeq(bytes, HeaderSize + 1, Len(bytes))
  /\ reader.region_offsets = SubSeq(bytes, 2, HeaderSize)
  /\ FileOf(bytes, reader.saved)

ColumnsInv ==
  /\ WrittenInv
  /\ FileOf(cols, saved)
  /\ reading.open => \E bytes : ReaderOf(bytes, reading)
-----------------------------------------------------------------------------
(* The columns are numbered from 1, and the header has one cell more.       *)
LEMMA ColumnCount ==
  /\ NumCols \in Nat \ {0} /\ ColumnIds = 1..NumCols
  /\ HeaderSize = 1 + NumCols /\ NumCols = HeaderSize - 1 /\ HeaderSize \in Nat
<1>1. NumCols \in Nat /\ ColumnIds = 1..NumCols /\ ColumnIds # {}
  BY ColumnsAssumption DEF NumCols
<1>2. NumCols # 0
  BY <1>1
<1> QED BY <1>1, <1>2 DEF HeaderSize

(* Values are sequences of bytes.                                           *)
LEMMA DataTypes ==
  ASSUME NEW value \in Data
  PROVE  value \in Seq(Bytes) /\ Len(value) \in Nat
BY ColumnsAssumption, LenProperties

(* No writers is not a state writers can be in.                             *)
LEMMA NotOpenIsNotWriters == NotOpen \notin Writers
<1>1. 1 \in ColumnIds
  BY ColumnCount
<1>2. DOMAIN NotOpen = {}
  BY DEF NotOpen
<1> QED BY <1>1, <1>2 DEF Writers

(* A column's writer holds bytes and offsets.                               *)
LEMMA WriterTypes ==
  ASSUME writers \in Writers, NEW c \in ColumnIds
  PROVE  /\ writers[c].data \in Seq(Bytes) /\ Len(writers[c].data) \in Nat
         /\ writers[c].offsets \in Seq(Nat) /\ Len(writers[c].offsets) \in Nat
         /\ RegionSize(writers[c]) \in Nat
<1>1. writers[c].data \in Seq(Bytes) /\ writers[c].offsets \in Seq(Nat)
  BY DEF Writers
<1>2. Len(writers[c].data) \in Nat /\ Len(writers[c].offsets) \in Nat
  BY <1>1, LenProperties
<1>3. \A m, n \in Nat : m + n \in Nat
  OBVIOUS
<1>4. RegionSize(writers[c]) \in Nat
  BY <1>2, <1>3, Zenon DEF RegionSize
<1> QED BY <1>1, <1>2, <1>4

-----------------------------------------------------------------------------
(* The regions' offsets. *)
Cursor ==
  CHOOSE cursor : cursor = [b \in ColumnIds |->
    IF b = 1 THEN 0 ELSE cursor[b - 1] + RegionSize(writers[b - 1])]

(* A region starts where the one before it ends.                            *)
LEMMA CursorUnfolds ==
  ASSUME writers \in Writers
  PROVE  /\ \A c \in ColumnIds : RegionOffset(c) = Cursor[c]
         /\ Cursor[1] = 0
         /\ \A c \in 2..NumCols : Cursor[c] = Cursor[c - 1] + RegionSize(writers[c - 1])
<1> DEFINE size(b) == RegionSize(writers[b])
           Eq(f) == f = [b \in ColumnIds |-> IF b = 1 THEN 0 ELSE f[b - 1] + size(b - 1)]
<1>1. NumCols \in Nat \ {0} /\ ColumnIds = 1..NumCols
  BY ColumnCount
<1>2. \A b \in ColumnIds : size(b) \in Nat
  BY WriterTypes
<1>3. \E f : Eq(f)
  <2> DEFINE D == [p \in Nat \X (1..NumCols) |-> p[1] + size(p[2])]
             n == NumCols
  <2>1. D \in [Nat \X (1..n) -> Nat]
    <3>1. \A p \in Nat \X (1..n) : p[1] + size(p[2]) \in Nat
      <4> HIDE DEF size
      <4> QED BY <1>1, <1>2
    <3> QED BY <3>1
  <2>2. PICK f : Recursive(f, Nat, 0, n, D)
    <3> HIDE DEF D, n
    <3>1. n \in Nat
      BY <1>1 DEF n
    <3> QED BY <2>1, <3>1, RecursionExists
  <2> DEFINE g == [b \in ColumnIds |-> f[b - 1]]
  <2>3. f[0] = 0 /\ f \in [0..n -> Nat]
    <3> HIDE DEF D, n
    <3> QED BY <2>2 DEF Recursive
  <2>4. \A i \in 1..n : f[i] = D[<<f[i - 1], i>>]
    <3> HIDE DEF D, n
    <3> QED BY <2>2 DEF Recursive
  <2> HIDE DEF size
  <2>5. \A b \in ColumnIds : g[b] = IF b = 1 THEN 0 ELSE g[b - 1] + size(b - 1)
    <3> TAKE b \in ColumnIds
    <3>1. CASE b = 1
      BY <2>3, <3>1
    <3>2. CASE b # 1
      <4>1. b - 1 \in 1..n /\ b - 1 \in ColumnIds /\ (b - 1) - 1 \in 0..n
        BY <1>1, <3>2
      <4>2. f[b - 1] = f[(b - 1) - 1] + size(b - 1)
        <5>1. f[(b - 1) - 1] \in Nat
          BY <2>3, <4>1
        <5> QED BY <2>4, <4>1, <5>1
      <4> QED BY <3>2, <4>1, <4>2
    <3> QED BY <3>1, <3>2
  <2>6. Eq(g)
    BY <2>5
  <2> QED BY <2>6
<1>4. Eq(Cursor)
  BY <1>3, Zenon DEF Cursor
<1>5. \A c \in ColumnIds : RegionOffset(c) = Cursor[c]
  BY Zenon DEF RegionOffset, Cursor
<1> HIDE DEF size
<1>6. Cursor[1] = 0
  BY <1>1, <1>4
<1>7. ASSUME NEW c \in 2..NumCols PROVE Cursor[c] = Cursor[c - 1] + size(c - 1)
  <2>1. c \in ColumnIds /\ c # 1
    BY <1>1
  <2> QED BY <1>4, <2>1
<1> QED BY <1>5, <1>6, <1>7 DEF size

Regions == [c \in ColumnIds |-> writers[c].data \o writers[c].offsets]

(* A region is its column's data, then its offsets, of the size counted.    *)
LEMMA RegionTypes ==
  ASSUME writers \in Writers
  PROVE  /\ Regions \in Seq(Seq(Cells)) /\ Len(Regions) = NumCols
         /\ \A c \in ColumnIds :
              /\ Regions[c] = writers[c].data \o writers[c].offsets
              /\ Len(Regions[c]) = RegionSize(writers[c])
              /\ Regions[c] \in Seq(Cells)
<1>1. NumCols \in Nat \ {0} /\ ColumnIds = 1..NumCols
  BY ColumnCount
<1>2. ASSUME NEW c \in ColumnIds
      PROVE  /\ writers[c].data \o writers[c].offsets \in Seq(Cells)
             /\ Len(writers[c].data \o writers[c].offsets) = RegionSize(writers[c])
  <2>1. writers[c].data \in Seq(Cells) /\ writers[c].offsets \in Seq(Cells)
    <3>1. writers[c].data \in Seq(Bytes) /\ writers[c].offsets \in Seq(Nat)
      BY WriterTypes
    <3>2. Bytes \subseteq Cells /\ Nat \subseteq Cells
      BY DEF Cells
    <3> QED BY <3>1, <3>2, WiderSeq
  <2> QED BY <2>1, ConcatElements DEF RegionSize
<1>3. \A c \in ColumnIds : Regions[c] = writers[c].data \o writers[c].offsets
  BY DEF Regions
<1>4. Regions \in [1..NumCols -> Seq(Cells)]
  <2>1. Regions = [c \in 1..NumCols |-> Regions[c]]
    BY <1>1 DEF Regions
  <2>2. \A c \in 1..NumCols : Regions[c] \in Seq(Cells)
    BY <1>1, <1>2, <1>3
  <2> QED BY <2>1, <2>2
<1>5. Regions \in Seq(Seq(Cells)) /\ Len(Regions) = NumCols
  BY <1>1, <1>4
<1> QED BY <1>2, <1>3, <1>5

(* The offset of a region is what the regions before it take.               *)
LEMMA OffsetIsWhatIsBefore ==
  ASSUME writers \in Writers, NEW c \in ColumnIds
  PROVE  /\ RegionOffset(c) \in Nat
         /\ RegionOffset(c) = Len(FlattenSeq(SubSeq(Regions, 1, c - 1)))
<1> DEFINE before(k) == FlattenSeq(SubSeq(Regions, 1, k))
           T == {k \in Nat : k + 1 <= NumCols =>
                   Cursor[k + 1] \in Nat /\ Cursor[k + 1] = Len(before(k))}
<1>1. NumCols \in Nat \ {0} /\ ColumnIds = 1..NumCols
  BY ColumnCount
<1>2. /\ Regions \in Seq(Seq(Cells)) /\ Len(Regions) = NumCols
      /\ \A k \in ColumnIds : Len(Regions[k]) = RegionSize(writers[k])
  BY RegionTypes
<1>3. 0 \in T
  <2>1. Cursor[1] = 0
    BY CursorUnfolds
  <2>2. SubSeq(Regions, 1, 0) = << >>
    BY <1>2, EmptySeq
  <2>3. Len(before(0)) = 0
    BY <2>2, FlattenNone, EmptySeq
  <2> QED BY <2>1, <2>3
<1>4. ASSUME NEW k \in Nat, k \in T PROVE k + 1 \in T
  <2> SUFFICES ASSUME (k + 1) + 1 <= NumCols
               PROVE  /\ Cursor[(k + 1) + 1] \in Nat
                      /\ Cursor[(k + 1) + 1] = Len(before(k + 1))
    OBVIOUS
  <2>1. /\ k + 1 \in ColumnIds /\ (k + 1) + 1 \in 2..NumCols
        /\ ((k + 1) + 1) - 1 = k + 1 /\ k + 1 <= NumCols /\ (k + 1) - 1 = k
    BY <1>1
  <2>2. Cursor[(k + 1) + 1] = Cursor[k + 1] + RegionSize(writers[k + 1])
    BY <2>1, CursorUnfolds
  <2>3. Cursor[k + 1] \in Nat /\ Cursor[k + 1] = Len(before(k))
    BY <1>4, <2>1
  <2>4. /\ before(k + 1) = before(k) \o Regions[k + 1]
        /\ before(k) \in Seq(Cells) /\ Regions[k + 1] \in Seq(Cells)
    BY <1>1, <1>2, <2>1, FlattenPart
  <2>5. Len(Regions[k + 1]) = RegionSize(writers[k + 1]) /\ RegionSize(writers[k + 1]) \in Nat
    BY <1>2, <2>1, WriterTypes
  <2> HIDE DEF before
  <2>6. Len(before(k + 1)) = Len(before(k)) + Len(Regions[k + 1])
    BY <2>4, ConcatProperties
  <2> QED BY <2>2, <2>3, <2>5, <2>6
<1> HIDE DEF T
<1>5. \A k \in Nat : k \in T
  BY <1>3, <1>4, SubsetInduction
<1>6. c - 1 \in T /\ (c - 1) + 1 <= NumCols /\ (c - 1) + 1 = c
  BY <1>1, <1>5
<1>7. RegionOffset(c) = Cursor[c]
  BY CursorUnfolds
<1> QED BY <1>6, <1>7 DEF T

(* The buffer SerialiseAll returns has the offsets of the regions in its    *)
(* header and each column's data behind its region's offset.                *)
LEMMA Serialised ==
  ASSUME writers \in Writers
  PROVE  /\ SerialiseAll \in Seq(Cells) /\ HeaderSize <= Len(SerialiseAll)
         /\ \A c \in ColumnIds :
              /\ SerialiseAll[1 + c] \in Nat
              /\ LiesAt(SerialiseAll, HeaderSize + SerialiseAll[1 + c], writers[c].data)
<1> DEFINE offsets == [c \in ColumnIds |-> RegionOffset(c)]
           body == FlattenSeq(Regions)
           header == <<NumCols>> \o offsets
<1>1. /\ NumCols \in Nat \ {0} /\ ColumnIds = 1..NumCols /\ HeaderSize = 1 + NumCols
  BY ColumnCount
<1>2. /\ Regions \in Seq(Seq(Cells)) /\ Len(Regions) = NumCols
      /\ \A c \in ColumnIds : Regions[c] = writers[c].data \o writers[c].offsets
  BY RegionTypes
<1>3. \A c \in ColumnIds : RegionOffset(c) \in Nat
  BY OffsetIsWhatIsBefore
<1>4. offsets \in Seq(Cells) /\ Len(offsets) = NumCols /\ \A c \in ColumnIds : offsets[c] = RegionOffset(c)
  <2>1. offsets \in [1..NumCols -> Nat]
    BY <1>1, <1>3
  <2>2. offsets \in Seq(Nat) /\ Len(offsets) = NumCols
    <3> HIDE DEF offsets
    <3> QED BY <1>1, <2>1
  <2>3. Nat \subseteq Cells
    BY DEF Cells
  <2> HIDE DEF offsets
  <2>4. offsets \in Seq(Cells)
    BY <2>2, <2>3, WiderSeq
  <2> QED BY <2>2, <2>4 DEF offsets
<1>5. body \in Seq(Cells)
  BY <1>2, FlattenType
<1>6. <<NumCols>> \in Seq(Cells) /\ Len(<<NumCols>>) = 1
  BY <1>1 DEF Cells
<1>7. SerialiseAll = header \o body
  BY Zenon DEF SerialiseAll, Regions
<1> HIDE DEF offsets, body
<1>8. /\ header \in Seq(Cells) /\ Len(header) = HeaderSize
      /\ \A c \in ColumnIds : header[1 + c] = RegionOffset(c)
  <2>1. /\ header \in Seq(Cells) /\ Len(header) = 1 + NumCols
        /\ \A j \in 1..NumCols : header[1 + j] = offsets[j]
    BY <1>4, <1>6, ConcatElements
  <2> QED BY <1>1, <1>4, <2>1
<1> HIDE DEF header
<1>9. /\ SerialiseAll \in Seq(Cells) /\ Len(SerialiseAll) = HeaderSize + Len(body)
      /\ Len(body) \in Nat
      /\ \A j \in 1..HeaderSize : SerialiseAll[j] = header[j]
  BY <1>5, <1>7, <1>8, ConcatElements
<1>10. LiesAt(SerialiseAll, HeaderSize, body)
  BY <1>5, <1>7, <1>8, LiesAtEnd
<1>11. ASSUME NEW c \in ColumnIds
       PROVE  /\ SerialiseAll[1 + c] = RegionOffset(c)
              /\ LiesAt(SerialiseAll, HeaderSize + RegionOffset(c), writers[c].data)
  <2>1. SerialiseAll[1 + c] = RegionOffset(c)
    <3>1. 1 + c \in 1..HeaderSize
      BY <1>1
    <3> QED BY <1>8, <1>9, <3>1
  <2>2. LiesAt(body, RegionOffset(c), Regions[c])
    <3>1. LiesAt(body, Len(FlattenSeq(SubSeq(Regions, 1, c - 1))), Regions[c])
      BY <1>1, <1>2, FlattenPartLies DEF body
    <3> QED BY <3>1, OffsetIsWhatIsBefore
  <2>3. /\ Regions[c] \in Seq(Cells) /\ Regions[c] = writers[c].data \o writers[c].offsets
        /\ writers[c].data \in Seq(Cells) /\ writers[c].offsets \in Seq(Cells)
    <3>1. writers[c].data \in Seq(Bytes) /\ writers[c].offsets \in Seq(Nat)
      BY WriterTypes
    <3>2. Bytes \subseteq Cells /\ Nat \subseteq Cells
      BY DEF Cells
    <3>3. writers[c].data \in Seq(Cells) /\ writers[c].offsets \in Seq(Cells)
      BY <3>1, <3>2, WiderSeq
    <3> QED BY <3>3, RegionTypes
  <2>4. LiesAt(body, RegionOffset(c), writers[c].data)
    <3>1. LiesAt(body, RegionOffset(c), writers[c].data \o writers[c].offsets)
      BY <2>2, <2>3
    <3> QED BY <1>3, <1>5, <2>3, <3>1, LiesAtParts
  <2>5. HeaderSize \in Nat
    BY <1>1
  <2> QED BY <1>3, <1>5, <1>9, <1>10, <2>1, <2>3, <2>4, <2>5, LiesAtWithin
<1> QED
  <2>1. HeaderSize <= Len(SerialiseAll)
    BY <1>1, <1>9
  <2> QED BY <1>3, <1>9, <1>11, <2>1
-----------------------------------------------------------------------------
(* Each action keeps the invariant. *)
LEMMA WrittenStarts == ColumnsInit => ColumnsInv
<1> SUFFICES ASSUME ColumnsInit PROVE ColumnsInv
  OBVIOUS
<1>1. WrittenInv
  BY EmptySeq DEF ColumnsInit, WrittenInv
<1>2. ~reading.open
  BY DEF ColumnsInit, NoReader
<1>3. FileOf(cols, saved)
  <2> DEFINE whole == [i \in 1..HeaderSize |-> 0]
  <2>1. HeaderSize \in Nat /\ ColumnIds = 1..NumCols /\ HeaderSize = 1 + NumCols /\ NumCols \in Nat
    BY ColumnCount
  <2>2. whole \in Seq(Cells) /\ Len(whole) = HeaderSize
    <3>1. whole \in [1..HeaderSize -> Cells]
      BY DEF Cells
    <3> HIDE DEF whole
    <3> QED BY <2>1, <3>1
  <2>3. \A c \in ColumnIds : whole[1 + c] \in Nat
    BY <2>1
  <2> HIDE DEF whole
  <2>4. cols = << >> /\ saved.rows = << >> /\ saved.whole = FALSE
    BY DEF ColumnsInit
  <2>5. HoldsRows(whole, saved.rows)
    BY <2>1, <2>2, <2>3, <2>4, EmptySeq DEF HoldsRows
  <2>6. 0 \in 0..Len(whole) /\ SubSeq(whole, 1, 0) = << >>
    BY <2>1, <2>2, EmptySeq
  <2>7. saved.rows \in Seq(KeptRows)
    BY <2>4, EmptySeq
  <2> QED BY <2>4, <2>5, <2>6, <2>7 DEF FileOf
<1> QED BY <1>1, <1>2, <1>3 DEF ColumnsInv

(* Open starts with columns nothing lies in.                                *)
LEMMA OpenWrites ==
  ASSUME OpenColumns
  PROVE  WrittenInv'
<1>1. writers' \in Writers
  <2>1. \A c \in ColumnIds : NewWriter(c) \in [data : Seq(Bytes), offsets : Seq(Nat)]
    <3> TAKE c \in ColumnIds
    <3>1. << >> \in Seq(Bytes) /\ << >> \in Seq(Nat) /\ <<0>> \in Seq(Nat)
      BY EmptySeq
    <3> QED BY <3>1 DEF NewWriter
  <2> QED BY <2>1 DEF OpenColumns, Writers
<1>2. rows' = << >> /\ rows' \in Seq(KeptRows) /\ DOMAIN rows' = {}
  BY EmptySeq DEF OpenColumns
<1> QED BY <1>1, <1>2 DEF WrittenInv

(* What ingesting a value appends, and the locator it returns.              *)
LEMMA IngestTypes ==
  ASSUME writers \in Writers, NEW row \in Row, NEW c \in ColumnIds,
         c \in DOMAIN row, Fits(c, row[c])
  PROVE  /\ row[c] \in Data
         /\ Appended(c, writers[c], row[c]) \in [data : Seq(Bytes), offsets : Seq(Nat)]
         /\ Appended(c, writers[c], row[c]).data = writers[c].data \o row[c]
         /\ Locator(c, writers[c], row[c])
              \in [data_offset : Nat, data_length : Nat, offset_table_pos : Int]
         /\ Locator(c, writers[c], row[c]).data_offset = Len(writers[c].data)
         /\ Locator(c, writers[c], row[c]).data_length = Len(row[c])
<1>1. row[c] \in Data
  BY DEF Row
<1>2. row[c] \in Seq(Bytes) /\ Len(row[c]) \in Nat
  BY <1>1, DataTypes
<1>3. /\ writers[c].data \in Seq(Bytes) /\ Len(writers[c].data) \in Nat
      /\ writers[c].offsets \in Seq(Nat) /\ Len(writers[c].offsets) \in Nat
  BY WriterTypes
<1>4. writers[c].data \o row[c] \in Seq(Bytes)
  BY <1>2, <1>3, ConcatProperties
<1>5. Append(writers[c].offsets, Len(writers[c].data) + Len(row[c])) \in Seq(Nat)
  <2>1. \A m, n \in Nat : m + n \in Nat
    OBVIOUS
  <2>2. Len(writers[c].data) + Len(row[c]) \in Nat
    BY <1>2, <1>3, <2>1, Zenon
  <2> QED BY <1>3, <2>2, AppendProperties
<1>6. << >> \in Seq(Nat)
  BY EmptySeq
<1>7. Len(writers[c].offsets) - 1 \in Int
  <2>1. \A m \in Nat : m - 1 \in Int
    OBVIOUS
  <2> QED BY <1>3, <2>1, Zenon
<1>8. Appended(c, writers[c], row[c]) \in [data : Seq(Bytes), offsets : Seq(Nat)]
  BY <1>4, <1>5, <1>6 DEF Appended
<1>9. Locator(c, writers[c], row[c])
        \in [data_offset : Nat, data_length : Nat, offset_table_pos : Int]
  BY <1>2, <1>3, <1>7 DEF Locator
<1> QED BY <1>1, <1>8, <1>9 DEF Appended, Locator

(* Ingesting keeps every row where it lies.                                 *)
LEMMA IngestWrites ==
  ASSUME WrittenInv, NEW row \in Row, Ingest(row)
  PROVE  WrittenInv'
<1> DEFINE Bad(c) == c \notin DOMAIN row \/ ~Fits(c, row[c])
           taken == {c \in ColumnIds : \A b \in 1..c : ~Bad(b)}
           kept == [values |-> row,
                    locs |-> [c \in ColumnIds |-> Locator(c, writers[c], row[c])]]
<1>1. NumCols \in Nat \ {0} /\ ColumnIds = 1..NumCols
  BY ColumnCount
<1>2. writers # NotOpen /\ writers \in Writers /\ rows \in Seq(KeptRows)
  BY DEF Ingest, WrittenInv
<1>3. /\ writers' = [c \in ColumnIds |->
           IF c \in taken THEN Appended(c, writers[c], row[c]) ELSE writers[c]]
      /\ IF taken = ColumnIds THEN rows' = Append(rows, kept) ELSE rows' = rows
  BY DEF Ingest
<1>4. \A c \in taken : c \in ColumnIds /\ ~Bad(c)
  BY <1>1
<1>5. taken = ColumnIds => \A c \in ColumnIds : ~Bad(c)
  BY <1>4
<1> HIDE DEF taken, kept
<1>6. ASSUME NEW c \in ColumnIds
      PROVE  /\ writers'[c] \in [data : Seq(Bytes), offsets : Seq(Nat)]
             /\ \E more \in Seq(Bytes) : writers'[c].data = writers[c].data \o more
  <2>1. writers[c] \in [data : Seq(Bytes), offsets : Seq(Nat)] /\ writers[c].data \in Seq(Bytes)
    BY <1>2 DEF Writers
  <2>2. CASE c \in taken
    <3>1. writers'[c] = Appended(c, writers[c], row[c])
      BY <1>3, <2>2
    <3>2. /\ row[c] \in Data
          /\ Appended(c, writers[c], row[c]) \in [data : Seq(Bytes), offsets : Seq(Nat)]
          /\ Appended(c, writers[c], row[c]).data = writers[c].data \o row[c]
      BY <1>2, <1>4, <2>2, IngestTypes
    <3>3. row[c] \in Seq(Bytes)
      BY <3>2, DataTypes
    <3> QED BY <3>1, <3>2, <3>3
  <2>3. CASE c \notin taken
    <3>1. writers'[c] = writers[c]
      BY <1>3, <2>3
    <3>2. << >> \in Seq(Bytes) /\ writers[c].data \o << >> = writers[c].data
      BY <2>1, EmptySeq, ConcatEmptySeq
    <3>3. writers'[c].data = writers[c].data \o << >>
      BY <3>1, <3>2
    <3> QED BY <2>1, <3>1, <3>2, <3>3
  <2> QED BY <2>2, <2>3
<1>7. writers' \in Writers
  <2>1. \A c \in ColumnIds :
          (IF c \in taken THEN Appended(c, writers[c], row[c]) ELSE writers[c])
            \in [data : Seq(Bytes), offsets : Seq(Nat)]
    BY <1>3, <1>6
  <2> QED BY <1>3, <2>1 DEF Writers
<1>8. ASSUME NEW k \in DOMAIN rows, NEW c \in ColumnIds
      PROVE  LiesAt(writers'[c].data, rows[k].locs[c].data_offset, rows[k].values[c])
  <2>1. LiesAt(writers[c].data, rows[k].locs[c].data_offset, rows[k].values[c])
    BY DEF WrittenInv
  <2>2. rows[k] \in KeptRows
    BY <1>2, ElementOfSeq, LenProperties
  <2>3. rows[k].locs[c].data_offset \in Nat /\ rows[k].values[c] \in Data
    BY <2>2 DEF KeptRows, Locators
  <2>4. PICK more \in Seq(Bytes) : writers'[c].data = writers[c].data \o more
    BY <1>6
  <2>5. writers[c].data \in Seq(Bytes)
    BY <1>2, WriterTypes
  <2>6. rows[k].values[c] \in Seq(Bytes)
    BY <2>3, DataTypes
  <2> QED BY <2>1, <2>3, <2>4, <2>5, <2>6, LiesAtGrows
<1>9. CASE taken # ColumnIds
  <2>1. rows' = rows
    BY <1>3, <1>9
  <2> QED BY <1>2, <1>7, <1>8, <2>1, NotOpenIsNotWriters DEF WrittenInv
<1>10. CASE taken = ColumnIds
  <2>1. rows' = Append(rows, kept)
    BY <1>3, <1>10
  <2>2. ASSUME NEW c \in ColumnIds
        PROVE  /\ row[c] \in Data /\ Fits(c, row[c])
               /\ Locator(c, writers[c], row[c])
                    \in [data_offset : Nat, data_length : Nat, offset_table_pos : Int]
               /\ Locator(c, writers[c], row[c]).data_offset = Len(writers[c].data)
               /\ Locator(c, writers[c], row[c]).data_length = Len(row[c])
               /\ writers'[c].data = writers[c].data \o row[c]
    <3>1. c \in DOMAIN row /\ Fits(c, row[c])
      BY <1>5, <1>10
    <3>2. writers'[c] = Appended(c, writers[c], row[c])
      BY <1>3, <1>10
    <3> QED BY <1>2, <3>1, <3>2, IngestTypes
  <2>3. kept \in KeptRows
    <3>1. row \in [ColumnIds -> Data]
      <4>1. PICK ids \in SUBSET ColumnIds : row \in [ids -> Data]
        BY DEF Row
      <4>2. \A c \in ColumnIds : c \in ids
        BY <1>5, <1>10, <4>1
      <4> QED BY <4>1, <4>2
    <3>2. [c \in ColumnIds |-> Locator(c, writers[c], row[c])] \in Locators
      BY <2>2 DEF Locators
    <3>3. kept.values = row /\ kept.locs = [c \in ColumnIds |-> Locator(c, writers[c], row[c])]
      BY DEF kept
    <3>4. kept \in [values : [ColumnIds -> Data], locs : Locators]
      BY <3>1, <3>2 DEF kept
    <3>5. \A c \in ColumnIds :
            Fits(c, kept.values[c]) /\ kept.locs[c].data_length = Len(kept.values[c])
      BY <2>2, <3>3
    <3> QED BY <3>4, <3>5 DEF KeptRows
  <2>4. /\ rows' \in Seq(KeptRows) /\ Len(rows') = Len(rows) + 1 /\ Len(rows) \in Nat
        /\ DOMAIN rows = 1..Len(rows) /\ DOMAIN rows' = 1..Len(rows')
        /\ rows'[Len(rows) + 1] = kept
        /\ \A k \in 1..Len(rows) : rows'[k] = rows[k]
    BY <1>2, <2>1, <2>3, AppendProperties, LenProperties
  <2>5. ASSUME NEW k \in DOMAIN rows', NEW c \in ColumnIds
        PROVE  LiesAt(writers'[c].data, rows'[k].locs[c].data_offset, rows'[k].values[c])
    <3>1. CASE k \in DOMAIN rows
      BY <1>8, <2>4, <3>1
    <3>2. CASE k = Len(rows) + 1
      <4>1. /\ rows'[k].values[c] = row[c]
            /\ rows'[k].locs[c].data_offset = Len(writers[c].data)
        <5>1. rows'[k] = kept
          BY <2>4, <3>2
        <5>2. kept.values = row /\ kept.locs[c] = Locator(c, writers[c], row[c])
          BY DEF kept
        <5> QED BY <2>2, <5>1, <5>2
      <4>2. row[c] \in Seq(Bytes) /\ writers[c].data \in Seq(Bytes)
        BY <1>2, <2>2, DataTypes, WriterTypes
      <4>3. LiesAt(writers[c].data \o row[c], Len(writers[c].data), row[c])
        BY <4>2, LiesAtEnd
      <4> QED BY <2>2, <4>1, <4>3
    <3> QED BY <2>4, <2>5, <3>1, <3>2
  <2> QED BY <1>7, <2>4, <2>5, NotOpenIsNotWriters DEF WrittenInv
<1> QED BY <1>9, <1>10

(* What Flush wrote is the start of a buffer that the rows lie in.          *)
LEMMA FlushKeeps ==
  ASSUME WrittenInv, Flush
  PROVE  FileOf(cols', saved')
<1>1. writers \in Writers /\ rows \in Seq(KeptRows)
  BY DEF Flush, WrittenInv
<1>2. PICK n \in 0..Len(SerialiseAll) :
        /\ cols' = SubSeq(SerialiseAll, 1, n)
        /\ saved' = [rows |-> rows, whole |-> n = Len(SerialiseAll)]
  BY DEF Flush
<1>3. saved'.rows = rows /\ (saved'.whole => n = Len(SerialiseAll))
  BY <1>2
<1>4. HoldsRows(SerialiseAll, rows)
  <2> DEFINE all == SerialiseAll
  <2>1. /\ all \in Seq(Cells) /\ HeaderSize <= Len(all)
        /\ \A c \in ColumnIds :
             /\ all[1 + c] \in Nat
             /\ LiesAt(all, HeaderSize + all[1 + c], writers[c].data)
    BY <1>1, Serialised
  <2> HIDE DEF all
  <2>2. ASSUME NEW k \in DOMAIN rows, NEW c \in ColumnIds
        PROVE  LiesAt(all, HeaderSize + all[1 + c] + rows[k].locs[c].data_offset,
                      rows[k].values[c])
    <3> DEFINE at == HeaderSize + all[1 + c]
               from == rows[k].locs[c].data_offset
               value == rows[k].values[c]
               data == writers[c].data
    <3>1. rows[k] \in KeptRows
      BY <1>1, ElementOfSeq, LenProperties
    <3>2. from \in Nat /\ value \in Data
      BY <3>1 DEF KeptRows, Locators
    <3>3. value \in Seq(Cells) /\ data \in Seq(Cells)
      <4>1. value \in Seq(Bytes) /\ data \in Seq(Bytes)
        BY <1>1, <3>2, DataTypes, WriterTypes
      <4>2. Bytes \subseteq Cells
        BY DEF Cells
      <4> HIDE DEF value, data
      <4> QED BY <4>1, <4>2, WiderSeq
    <3>4. at \in Nat
      <4>1. \A i, j \in Nat : i + j \in Nat
        OBVIOUS
      <4>2. HeaderSize \in Nat /\ all[1 + c] \in Nat
        BY <2>1, ColumnCount
      <4> QED BY <4>1, <4>2, Zenon
    <3>5. LiesAt(all, at, data) /\ LiesAt(data, from, value)
      BY <2>1 DEF WrittenInv
    <3> HIDE DEF at, from, value, data
    <3>6. LiesAt(all, at + from, value)
      BY <2>1, <3>2, <3>3, <3>4, <3>5, LiesAtWithin
    <3> QED BY <3>6 DEF at, from, value
  <2> QED BY <2>1, <2>2 DEF HoldsRows, all
<1> QED BY <1>1, <1>2, <1>3, <1>4 DEF FileOf

(* Opening for reading takes a file apart where its header says.            *)
LEMMA OpenReads ==
  ASSUME FileOf(cols, saved), OpenForRead, reading'.open
  PROVE  ReaderOf(cols, reading')
<1> DEFINE reader == [open |-> TRUE,
                      buf |-> SubSeq(cols, HeaderSize + 1, Len(cols)),
                      region_offsets |-> SubSeq(cols, 2, HeaderSize),
                      saved |-> saved]
<1>1. ~(Len(cols) < HeaderSize) /\ reading' = reader
  <2>1. ~NoReader.open
    BY DEF NoReader
  <2> QED BY <2>1 DEF OpenForRead
<1>2. HeaderSize <= Len(cols)
  <2>1. PICK whole : HoldsRows(whole, saved.rows) /\ \E n \in 0..Len(whole) : cols = SubSeq(whole, 1, n)
    BY DEF FileOf
  <2>2. whole \in Seq(Cells)
    BY <2>1 DEF HoldsRows
  <2>3. cols \in Seq(Cells)
    <3>1. PICK n \in 0..Len(whole) : cols = SubSeq(whole, 1, n)
      BY <2>1
    <3>2. \A i \in 1..n : whole[i] \in Cells
      BY <2>2, ElementOfSeq, LenProperties
    <3>3. n \in Int /\ 1 \in Int
      BY <2>2, LenProperties
    <3> QED BY <2>2, <3>1, <3>2, <3>3, SubSeqProperties
  <2>4. Len(cols) \in Nat /\ HeaderSize \in Nat
    BY <2>3, LenProperties, ColumnCount
  <2> QED BY <1>1, <2>4
<1>3. /\ reader.buf = SubSeq(cols, HeaderSize + 1, Len(cols))
      /\ reader.region_offsets = SubSeq(cols, 2, HeaderSize) /\ reader.saved = saved
  OBVIOUS
<1> HIDE DEF reader
<1> QED BY <1>1, <1>2, <1>3 DEF ReaderOf

(* ColumnsInv is inductive.                                                 *)
LEMMA ColumnsStep == ColumnsInv /\ [ColumnsNext]_columnsVars => ColumnsInv'
<1> SUFFICES ASSUME ColumnsInv, [ColumnsNext]_columnsVars PROVE ColumnsInv'
  OBVIOUS
<1>1. /\ WrittenInv /\ FileOf(cols, saved)
      /\ reading.open => \E bytes : ReaderOf(bytes, reading)
  BY DEF ColumnsInv
<1>2. CASE OpenColumns
  <2>1. WrittenInv'
    BY <1>2, OpenWrites
  <2>2. cols' = cols /\ saved' = saved /\ reading' = reading
    BY <1>2 DEF OpenColumns
  <2> QED BY <1>1, <2>1, <2>2 DEF ColumnsInv
<1>3. ASSUME NEW row \in Row, Ingest(row) PROVE ColumnsInv'
  <2>1. WrittenInv'
    BY <1>1, <1>3, IngestWrites
  <2>2. cols' = cols /\ saved' = saved /\ reading' = reading
    BY <1>3 DEF Ingest
  <2> QED BY <1>1, <2>1, <2>2 DEF ColumnsInv
<1>4. CASE Flush
  <2>1. FileOf(cols', saved')
    BY <1>1, <1>4, FlushKeeps
  <2>2. writers' = writers /\ rows' = rows /\ reading' = reading
    BY <1>4 DEF Flush
  <2>3. WrittenInv'
    BY <1>1, <2>2 DEF WrittenInv
  <2> QED BY <1>1, <2>1, <2>2, <2>3 DEF ColumnsInv
<1>5. CASE OpenForRead
  <2>1. writers' = writers /\ rows' = rows /\ cols' = cols /\ saved' = saved
    BY <1>5 DEF OpenForRead
  <2>2. WrittenInv'
    BY <1>1, <2>1 DEF WrittenInv
  <2>3. reading'.open => ReaderOf(cols, reading')
    BY <1>1, <1>5, OpenReads
  <2> QED BY <1>1, <2>1, <2>2, <2>3 DEF ColumnsInv
<1>6. CASE UNCHANGED columnsVars
  <2>1. /\ writers' = writers /\ rows' = rows /\ cols' = cols /\ saved' = saved
        /\ reading' = reading
    BY <1>6 DEF columnsVars
  <2>2. WrittenInv'
    BY <1>1, <2>1 DEF WrittenInv
  <2> QED BY <1>1, <2>1, <2>2 DEF ColumnsInv
<1> QED BY <1>2, <1>3, <1>4, <1>5, <1>6 DEF ColumnsNext

(* Each value lies in its writer, in the file and behind the reader's       *)
(* regions where its locator says (ColumnStore::Ingest, SerialiseAll,       *)
(* OpenForRead).                                                            *)
THEOREM ColumnsInvariant == ColumnsSpec => []ColumnsInv
BY WrittenStarts, ColumnsStep, PTL DEF ColumnsSpec
-----------------------------------------------------------------------------
(* A column reads a kept row's value back, or an error of a cut file.       *)
LEMMA ColumnReadsBack ==
  ASSUME NEW bytes, ReaderOf(bytes, reading), NEW k \in DOMAIN reading.saved.rows,
         NEW c \in ColumnIds
  PROVE  LET ingested == reading.saved.rows[k]
             read == ReadColumn(c, ingested.locs[c])
         IN \/ read = [ok |-> TRUE, datum |-> ingested.values[c]]
            \/ read = Error /\ ~reading.saved.whole
<1> DEFINE held == reading.saved.rows
           loc == held[k].locs[c]
           value == held[k].values[c]
           from == loc.data_offset
<1>0. PICK whole : /\ HoldsRows(whole, held)
                   /\ \E n \in 0..Len(whole) :
                        /\ bytes = SubSeq(whole, 1, n)
                        /\ reading.saved.whole => n = Len(whole)
  BY DEF ReaderOf, FileOf
<1>1. PICK n \in 0..Len(whole) :
        /\ HoldsRows(whole, held)
        /\ bytes = SubSeq(whole, 1, n)
        /\ reading.saved.whole => n = Len(whole)
  BY <1>0
<1> DEFINE at == whole[1 + c]
<1>2. held[k] \in KeptRows
  <2>1. held \in Seq(KeptRows)
    BY DEF ReaderOf, FileOf
  <2>2. k \in DOMAIN held
    OBVIOUS
  <2> HIDE DEF held
  <2> QED BY <2>1, <2>2, ElementOfSeq, LenProperties
<1>3. /\ from \in Nat /\ value \in Data /\ loc.data_length = Len(value) /\ Fits(c, value)
  BY <1>2 DEF KeptRows, Locators
<1>4. /\ value \in Seq(Bytes) /\ Len(value) \in Nat
  BY <1>3, DataTypes
<1>5. /\ whole \in Seq(Cells) /\ at \in Nat /\ Len(whole) \in Nat
      /\ LiesAt(whole, HeaderSize + at + from, value)
  BY <1>1, LenProperties DEF HoldsRows
<1>6. /\ HeaderSize \in Nat /\ 1 + c \in 2..HeaderSize /\ c \in 1..(HeaderSize - 1)
      /\ c \in Nat
  BY ColumnCount
<1>7. /\ HeaderSize <= Len(bytes)
      /\ reading.buf = SubSeq(bytes, HeaderSize + 1, Len(bytes))
      /\ reading.region_offsets = SubSeq(bytes, 2, HeaderSize)
  BY DEF ReaderOf
<1> HIDE DEF held, loc, value, from, at
<1>8. bytes \in Seq(Cells) /\ Len(bytes) = n /\ \A j \in 1..n : bytes[j] = whole[j]
  <2>1. n \in Nat /\ n <= Len(whole)
    BY <1>5
  <2>2. \A j \in 1..n : whole[j] \in Cells
    BY <1>5, <2>1, ElementOfSeq
  <2> QED BY <1>1, <1>5, <2>1, <2>2, SubSeqProperties
<1>9. reading.region_offsets[c] = at
  <2>1. \A j \in 1..(HeaderSize - 1) : reading.region_offsets[j] = bytes[2 + j - 1]
    <3>1. 2 \in Int /\ HeaderSize \in Int /\ \A j \in 2..HeaderSize : bytes[j] \in Cells
      BY <1>6, <1>7, <1>8, ElementOfSeq
    <3> QED BY <1>6, <1>7, <1>8, <3>1, SubSeqProperties
  <2>2. reading.region_offsets[c] = bytes[2 + c - 1] /\ 2 + c - 1 = 1 + c /\ 1 + c \in 1..n
    BY <1>6, <1>7, <1>8, <2>1
  <2> QED BY <1>8, <2>2 DEF at
<1>10. /\ reading.buf \in Seq(Cells) /\ Len(reading.buf) = n - HeaderSize
       /\ \A j \in 1..(n - HeaderSize) : reading.buf[j] = whole[HeaderSize + j]
  <2>1. \A j \in (HeaderSize + 1)..n : bytes[j] \in Cells
    BY <1>6, <1>7, <1>8, ElementOfSeq
  <2>2. n \in Nat /\ HeaderSize <= n
    BY <1>5, <1>7, <1>8
  <2>3. /\ reading.buf \in Seq(Cells)
        /\ Len(reading.buf) = IF HeaderSize + 1 <= n THEN n - (HeaderSize + 1) + 1 ELSE 0
        /\ \A j \in 1..(n - (HeaderSize + 1) + 1) :
             reading.buf[j] = bytes[(HeaderSize + 1) + j - 1]
    BY <1>6, <1>7, <1>8, <2>1, <2>2, SubSeqProperties
  <2>4. Len(reading.buf) = n - HeaderSize
    BY <1>6, <2>2, <2>3
  <2>5. ASSUME NEW j \in 1..(n - HeaderSize) PROVE reading.buf[j] = whole[HeaderSize + j]
    <3>1. /\ j \in 1..(n - (HeaderSize + 1) + 1) /\ (HeaderSize + 1) + j - 1 = HeaderSize + j
          /\ HeaderSize + j \in 1..n
      BY <1>6, <2>2
    <3> QED BY <1>8, <2>3, <3>1
  <2> QED BY <2>3, <2>4, <2>5
<1> DEFINE start == from + at
           end == start + loc.data_length
<1>11. ReadColumn(c, loc) =
         IF loc.data_length = 0 /\ Width[c] = 0 THEN [ok |-> TRUE, datum |-> << >>]
         ELSE IF end > Len(reading.buf) THEN Error
              ELSE [ok |-> TRUE, datum |-> SubSeq(reading.buf, start + 1, end)]
  BY <1>9 DEF ReadColumn, from
<1>12. /\ start \in Nat /\ end = start + Len(value) /\ end \in Nat
       /\ HeaderSize + at + from = HeaderSize + start
  BY <1>3, <1>4, <1>5, <1>6
<1> HIDE DEF start
<1>13. LiesAt(whole, HeaderSize + start, value)
  BY <1>5, <1>12
<1>14. CASE loc.data_length = 0 /\ Width[c] = 0
  <2>1. value = << >>
    BY <1>3, <1>4, <1>14, EmptySeq
  <2> QED BY <1>11, <1>14, <2>1 DEF loc, value, held
<1>15. CASE ~(loc.data_length = 0 /\ Width[c] = 0) /\ end > Len(reading.buf)
  <2>1. ReadColumn(c, loc) = Error
    BY <1>11, <1>15
  <2>2. ~reading.saved.whole
    <3> SUFFICES ASSUME reading.saved.whole PROVE FALSE
      OBVIOUS
    <3>1. n = Len(whole) /\ HeaderSize + start + Len(value) <= Len(whole)
      BY <1>1, <1>13 DEF LiesAt
    <3> QED BY <1>4, <1>5, <1>6, <1>10, <1>12, <1>15, <3>1
  <2> QED BY <2>1, <2>2 DEF loc, held
<1>16. CASE ~(loc.data_length = 0 /\ Width[c] = 0) /\ ~(end > Len(reading.buf))
  <2>1. Len(reading.buf) \in Nat /\ end <= Len(reading.buf)
    BY <1>10, <1>12, <1>16, LenProperties
  <2>2. LiesAt(reading.buf, start, value)
    <3>1. start + Len(value) <= Len(reading.buf)
      BY <1>12, <2>1
    <3>2. ASSUME NEW j \in 1..Len(value) PROVE reading.buf[start + j] = value[j]
      <4>1. /\ start + j \in 1..(n - HeaderSize)
            /\ HeaderSize + (start + j) = (HeaderSize + start) + j
        BY <1>4, <1>6, <1>10, <1>12, <2>1, <3>1
      <4>2. whole[(HeaderSize + start) + j] = value[j]
        BY <1>13 DEF LiesAt
      <4> QED BY <1>10, <4>1, <4>2
    <3> QED BY <3>1, <3>2 DEF LiesAt
  <2>3. value \in Seq(Cells)
    <3>1. Bytes \subseteq Cells
      BY DEF Cells
    <3> QED BY <1>4, <3>1, WiderSeq
  <2>4. SubSeq(reading.buf, start + 1, start + Len(value)) = value
    BY <1>10, <1>12, <2>2, <2>3, LiesAtRead
  <2>5. ReadColumn(c, loc) = [ok |-> TRUE, datum |-> value]
    BY <1>11, <1>12, <1>16, <2>4
  <2> QED BY <2>5 DEF loc, value, held
<1> QED BY <1>14, <1>15, <1>16

(* Under ColumnsInv every row reads back.                                   *)
LEMMA RowsRead == ColumnsInv => RowsReadBack
<1> SUFFICES ASSUME ColumnsInv, reading.open,
                    NEW k \in DOMAIN reading.saved.rows, NEW ids \in SUBSET ColumnIds
             PROVE  LET ingested == reading.saved.rows[k]
                        read == ReadColumns(ingested.locs, ids)
                    IN \/ read.ok /\ read.row = [c \in ids |-> ingested.values[c]]
                       \/ ~read.ok /\ ~reading.saved.whole
  BY DEF RowsReadBack
<1> DEFINE ingested == reading.saved.rows[k]
           Column(c) == ReadColumn(c, ingested.locs[c])
           read == [c \in ids |-> Column(c)]
           Good(c) == [ok |-> TRUE, datum |-> ingested.values[c]]
<1>1. PICK bytes : ReaderOf(bytes, reading)
  BY DEF ColumnsInv
<1>2. \A c \in ids : Column(c) = Good(c) \/ (Column(c) = Error /\ ~reading.saved.whole)
  BY <1>1, ColumnReadsBack
<1>3. ReadColumns(ingested.locs, ids) =
        IF \E c \in ids : ~read[c].ok THEN Error
        ELSE [ok |-> TRUE, row |-> [c \in ids |-> read[c].datum]]
  BY DEF ReadColumns
<1>4. \A c : Good(c).ok /\ Good(c).datum = ingested.values[c]
  OBVIOUS
<1>5. ~Error.ok
  BY DEF Error
<1>6. \A c \in ids : read[c] = Column(c)
  OBVIOUS
<1> HIDE DEF ingested, Column, Good, read
<1>7. CASE \E c \in ids : ~read[c].ok
  <2>1. ReadColumns(ingested.locs, ids) = Error
    BY <1>3, <1>7
  <2>2. ~reading.saved.whole
    BY <1>2, <1>4, <1>6, <1>7
  <2> QED BY <1>5, <2>1, <2>2 DEF ingested
<1>8. CASE ~\E c \in ids : ~read[c].ok
  <2>1. \A c \in ids : read[c].datum = ingested.values[c]
    BY <1>2, <1>4, <1>5, <1>6, <1>8
  <2> DEFINE row == [c \in ids |-> read[c].datum]
  <2>2. row = [c \in ids |-> ingested.values[c]]
    BY <2>1
  <2> HIDE DEF row
  <2>3. ReadColumns(ingested.locs, ids) = [ok |-> TRUE, row |-> row]
    BY <1>3, <1>8 DEF row
  <2> QED BY <2>2, <2>3 DEF ingested
<1> QED BY <1>7, <1>8

(* Every row ingested before the file was written reads back, in any        *)
(* projection, as its own values, or as an error from a file cut off, for   *)
(* any schema and data, whatever rows failed between or came after          *)
(* (ColumnStore::ReadColumns, ColumnChunkReader::ReadFixed, ReadVariable).  *)
THEOREM EveryRowReadsBack == ColumnsSpec => []RowsReadBack
BY ColumnsInvariant, RowsRead, PTL
-----------------------------------------------------------------------------
Bit == {0, 1}
SignCodes == [Components -> Bit]
Quantised == [Components -> (-MaxVal)..MaxVal]
Planes == {0, 1}

(* The numbers the code writes as powers of two.                            *)
LEMMA Powers ==
  /\ ByteRange = 256 /\ LaneRange = 65536
  /\ 2^(3 - 0) = 8 /\ 2^(3 - 1) = 4 /\ 2^(3 - 2) = 2 /\ 2^(3 - 3) = 1
BY DEF ByteRange, LaneRange

(* The groups of a build: whole iterations, and whole shares of lanes.      *)
LEMMA Sizes ==
  ASSUME lut_per_iter \in LutPerIters
  PROVE  /\ Dim \in Nat /\ MaxVal \in Nat /\ 4 * MaxVal < LaneRange
         /\ Groups \in Nat /\ Dim = Groups * 4
         /\ LutSize = Groups * 32 /\ PackedSize = Groups * 16
         /\ \/ /\ lut_per_iter = 2 /\ LaneShares = 1 /\ LaneGroups = Groups
               /\ Groups % 2 = 0
            \/ /\ lut_per_iter = 4 /\ LaneShares = 2 /\ LaneGroups \in Nat
               /\ Groups = LaneGroups * 2 /\ Groups % 4 = 0
<1>1. Dim \in Nat /\ MaxVal \in Nat /\ 4 * MaxVal < LaneRange /\ lut_per_iter \in {2, 4}
      /\ Dim % (4 * lut_per_iter) = 0
  BY FastScanAssumption, Powers
<1>2. CASE lut_per_iter = 2
  <2>1. Dim % 8 = 0
    BY <1>1, <1>2
  <2>2. Dim \div 4 \in Nat /\ Dim = (Dim \div 4) * 4 /\ (Dim \div 4) % 2 = 0
        /\ 2 \div 2 = 1 /\ (Dim \div 4) \div 1 = Dim \div 4
    BY <1>1, <2>1
  <2> QED BY <1>1, <1>2, <2>2 DEF Groups, LutSize, PackedSize, Half, LaneShares, LaneGroups
<1>3. CASE lut_per_iter = 4
  <2>1. Dim % 16 = 0
    BY <1>1, <1>3
  <2>2. Dim \div 4 \in Nat /\ Dim = (Dim \div 4) * 4 /\ (Dim \div 4) % 4 = 0
        /\ 4 \div 2 = 2 /\ (Dim \div 4) \div 2 \in Nat
        /\ Dim \div 4 = ((Dim \div 4) \div 2) * 2
    BY <1>1, <2>1
  <2> QED BY <1>1, <1>3, <2>2 DEF Groups, LutSize, PackedSize, Half, LaneShares, LaneGroups
<1> QED BY <1>1, <1>2, <1>3
-----------------------------------------------------------------------------
(* Codes.                                                                   *)
LEMMA SignsAreBits ==
  ASSUME NEW rotated
  PROVE  /\ EncodeSigns(rotated) \in SignCodes
         /\ \A d \in Components :
              EncodeSigns(rotated)[d] = IF rotated[d] >= 0 THEN 1 ELSE 0
BY TableIs DEF EncodeSigns, SignCodes, Bit

(* A nibble holds the four bits of its group, the first one highest.        *)
LEMMA NibbleHoldsBits ==
  ASSUME lut_per_iter \in LutPerIters, NEW codes \in Seq(SignCodes), NEW v \in Nat,
         NEW m \in 0..(Groups - 1)
  PROVE  /\ Nibble(codes, v, m) \in 0..15
         /\ v < Len(codes) =>
              \A b \in 0..3 : (Nibble(codes, v, m) \div 2^(3 - b)) % 2 = codes[v + 1][4 * m + b]
<1>0. Len(codes) \in Nat
  BY LenProperties
<1>1. CASE v >= Len(codes)
  <2>1. Nibble(codes, v, m) = 0
    BY <1>1, Zenon DEF Nibble
  <2>2. ~(v < Len(codes))
    BY <1>0, <1>1
  <2> QED BY <2>1, <2>2
<1>2. CASE ~(v >= Len(codes))
  <2> DEFINE f == [b \in 0..3 |-> codes[v + 1][4 * m + b] * 2^(3 - b)]
             c(b) == codes[v + 1][4 * m + b]
  <2>1. codes[v + 1] \in SignCodes
    <3>1. v + 1 \in 1..Len(codes)
      BY <1>2
    <3> QED BY <3>1
  <2>2. \A b \in 0..3 : 4 * m + b \in Components
    <3>1. Groups \in Nat /\ Dim = Groups * 4
      BY Sizes
    <3> QED BY <3>1 DEF Components
  <2>3. \A b \in 0..3 : c(b) \in {0, 1}
    BY <2>1, <2>2 DEF SignCodes, Bit
  <2>4. c(0) \in {0, 1} /\ c(1) \in {0, 1} /\ c(2) \in {0, 1} /\ c(3) \in {0, 1}
    BY <2>3
  <2>5. f[0] = c(0) * 8 /\ f[1] = c(1) * 4 /\ f[2] = c(2) * 2 /\ f[3] = c(3) * 1
    BY Powers
  <2>6. f \in [0..3 -> Int]
    <3>1. f[0] \in Int /\ f[1] \in Int /\ f[2] \in Int /\ f[3] \in Int
      <4> HIDE DEF f, c
      <4> QED BY <2>4, <2>5
    <3>2. \A b \in 0..3 : f[b] \in Int
      <4> HIDE DEF f
      <4>1. \A b \in 0..3 : b = 0 \/ b = 1 \/ b = 2 \/ b = 3
        OBVIOUS
      <4> QED BY <3>1, <4>1
    <3>3. f = [b \in 0..3 |-> f[b]]
      OBVIOUS
    <3> HIDE DEF f
    <3> QED BY <3>2, <3>3
  <2>7. Nibble(codes, v, m) = f[0] + f[1] + f[2] + f[3]
    <3>1. Nibble(codes, v, m) = Total(4, [b \in 0..(4 - 1) |-> codes[v + 1][4 * m + b] * 2^(3 - b)])
      BY <1>2 DEF Nibble, SumTo
    <3>2. 4 - 1 = 3
      OBVIOUS
    <3>3. Nibble(codes, v, m) = Total(4, f)
      BY <3>1, <3>2
    <3> HIDE DEF f
    <3> QED BY <2>6, <3>3, TotalOfFour
  <2> DEFINE n == Nibble(codes, v, m)
  <2>8. n = c(0) * 8 + c(1) * 4 + c(2) * 2 + c(3)
    <3> HIDE DEF f, c, n
    <3>1. c(3) * 1 = c(3)
      BY <2>4
    <3> QED BY <2>5, <2>7, <3>1 DEF n
  <2> HIDE DEF n
  <2>9. /\ n \in 0..15
        /\ (n \div 8) % 2 = c(0) /\ (n \div 4) % 2 = c(1)
        /\ (n \div 2) % 2 = c(2) /\ (n \div 1) % 2 = c(3)
    <3> HIDE DEF c
    <3> QED BY <2>4, <2>8
  <2>10. ASSUME NEW b \in 0..3 PROVE (n \div 2^(3 - b)) % 2 = c(b)
    <3> HIDE DEF c
    <3>1. CASE b = 0
      BY <2>9, <3>1, Powers
    <3>2. CASE b = 1
      BY <2>9, <3>2, Powers
    <3>3. CASE b = 2
      BY <2>9, <3>3, Powers
    <3>4. CASE b = 3
      BY <2>9, <3>4, Powers
    <3> QED BY <3>1, <3>2, <3>3, <3>4
  <2> QED BY <2>9, <2>10 DEF n
<1> QED BY <1>1, <1>2

(* Where a vector's nibble is packed to.                                    *)
LEMMA PermutationIsUndone ==
  ASSUME NEW r \in 0..15
  PROVE  kInvPerm(r) \in 0..15 /\ kPerm(kInvPerm(r)) = r
<1>1. CASE r < 8
  <2>1. kInvPerm(r) = 2 * r
    BY <1>1 DEF kInvPerm, Half
  <2>2. (2 * r) % 2 = 0 /\ (2 * r) \div 2 = r /\ 2 * r \in 0..15
    BY <1>1
  <2> QED BY <2>1, <2>2 DEF kPerm
<1>2. CASE ~(r < 8)
  <2>1. kInvPerm(r) = 2 * (r - 8) + 1
    BY <1>2 DEF kInvPerm, Half
  <2>2. (2 * (r - 8) + 1) % 2 = 1 /\ (2 * (r - 8) + 1) \div 2 = r - 8
        /\ 2 * (r - 8) + 1 \in 0..15
    BY <1>2
  <2> QED BY <2>1, <2>2 DEF kPerm, Half
<1> QED BY <1>1, <1>2

(* The byte and the half of it a vector's lane looks at hold its nibble.    *)
LEMMA PackedNibble ==
  ASSUME lut_per_iter \in LutPerIters, NEW codes \in Seq(SignCodes),
         NEW v \in 0..31, NEW m \in 0..(Groups - 1)
  PROVE  NibbleOf(PackSignBitsForFastScan(codes)[m * Half + kInvPerm(v % Half)], v >= Half)
           = Nibble(codes, v, m)
<1> DEFINE r == v % 16
           p == m * 16 + kInvPerm(r)
           lowN == Nibble(codes, r, m)
           highN == Nibble(codes, r + 16, m)
<1>1. r \in 0..15 /\ (v >= 16 => v = r + 16) /\ (~(v >= 16) => v = r)
  OBVIOUS
<1>2. kInvPerm(r) \in 0..15 /\ kPerm(kInvPerm(r)) = r
  <2> HIDE DEF r
  <2> QED BY <1>1, PermutationIsUndone
<1>3. p \in 0..(PackedSize - 1) /\ p \div 16 = m /\ p % 16 = kInvPerm(r)
  <2> DEFINE k == kInvPerm(r)
  <2>1. k \in 0..15
    BY <1>2
  <2>2. PackedSize = Groups * 16 /\ Groups \in Nat
    BY Sizes
  <2> HIDE DEF k, r
  <2>3. m * 16 + k \in 0..(Groups * 16 - 1) /\ (m * 16 + k) \div 16 = m
        /\ (m * 16 + k) % 16 = k
    BY <2>1, <2>2
  <2> QED BY <2>2, <2>3 DEF k
<1>4. PackSignBitsForFastScan(codes)[p] = lowN + 16 * highN
  <2>1. PackSignBitsForFastScan(codes)[p] =
          Nibble(codes, kPerm(p % 16), p \div 16)
            + 16 * Nibble(codes, kPerm(p % 16) + 16, p \div 16)
    <3>1. PackSignBitsForFastScan(codes) =
            [i \in 0..(PackedSize - 1) |->
               Nibble(codes, kPerm(i % Half), i \div Half)
                 + 16 * Nibble(codes, kPerm(i % Half) + Half, i \div Half)]
      BY TableIs, Zenon DEF PackSignBitsForFastScan
    <3> HIDE DEF p, r
    <3> QED BY <1>3, <3>1 DEF Half
  <2> HIDE DEF r, p
  <2> QED BY <1>2, <1>3, <2>1 DEF r
<1>5. lowN \in 0..15 /\ highN \in 0..15
  <2>1. r \in Nat /\ r + 16 \in Nat
    BY <1>1
  <2> HIDE DEF r
  <2> QED BY <2>1, NibbleHoldsBits
<1>6. (lowN + 16 * highN) % 16 = lowN /\ (lowN + 16 * highN) \div 16 = highN
  <2> HIDE DEF lowN, highN
  <2> QED BY <1>5
<1>7. NibbleOf(lowN + 16 * highN, v >= 16) = Nibble(codes, v, m)
  <2>1. CASE v >= 16
    BY <1>1, <1>6, <2>1 DEF NibbleOf
  <2>2. CASE ~(v >= 16)
    BY <1>1, <1>6, <2>2 DEF NibbleOf
  <2> QED BY <2>1, <2>2
<1> HIDE DEF lowN, highN
<1> QED BY <1>4, <1>7 DEF Half

(* The bits of a packed vector unpack to its code.                          *)
LEMMA UnpackedIsPacked ==
  ASSUME lut_per_iter \in LutPerIters, NEW codes \in Seq(SignCodes),
         NEW v \in 0..31, v < Len(codes)
  PROVE  UnpackSignBitsFromFastScan(PackSignBitsForFastScan(codes), v) = codes[v + 1]
<1> DEFINE packed == PackSignBitsForFastScan(codes)
           found == UnpackSignBitsFromFastScan(packed, v)
<1>1. codes[v + 1] \in SignCodes
  <2>1. v + 1 \in 1..Len(codes)
    OBVIOUS
  <2> QED BY <2>1
<1>2. ASSUME NEW d \in Components PROVE found[d] = codes[v + 1][d]
  <2> DEFINE m == d \div 4
             b == d % 4
  <2>1. m \in 0..(Groups - 1) /\ b \in 0..3 /\ d = 4 * m + b
    <3>1. Groups \in Nat /\ Dim = Groups * 4
      BY Sizes
    <3> QED BY <3>1 DEF Components
  <2> HIDE DEF m, b
  <2>2. found[d] = (NibbleOf(packed[m * Half + kInvPerm(v % Half)], v >= Half) \div 2^(3 - b)) % 2
    <3> HIDE DEF packed
    <3> QED BY DEF UnpackSignBitsFromFastScan, m, b
  <2>3. found[d] = (Nibble(codes, v, m) \div 2^(3 - b)) % 2
    BY <2>1, <2>2, PackedNibble, Zenon
  <2> HIDE DEF found
  <2>4. found[d] = codes[v + 1][4 * m + b]
    <3>1. v \in Nat
      OBVIOUS
    <3> QED BY <2>1, <2>3, <3>1, NibbleHoldsBits
  <2> QED BY <2>1, <2>4
<1>3. found = [d \in Components |-> found[d]] /\ codes[v + 1] = [d \in Components |-> codes[v + 1][d]]
  <2>1. found = [d \in Components |-> found[d]]
    <3> HIDE DEF packed
    <3> QED BY DEF UnpackSignBitsFromFastScan
  <2> HIDE DEF found
  <2> QED BY <1>1, <2>1 DEF SignCodes
<1> HIDE DEF found
<1> QED BY <1>2, <1>3 DEF found

-----------------------------------------------------------------------------
(* The query.                                                               *)

(* A query has a largest component.                                         *)
LEMMA LargestComponent ==
  ASSUME NEW q \in [Components -> Int]
  PROVE  MaxAbs(q) \in Nat /\ \A d \in Components : Magnitude(q[d]) <= MaxAbs(q)
<1> DEFINE mag(d) == Magnitude(q[d])
           S == {n \in Nat : n + 1 <= Dim => \E e \in 0..n : \A d \in 0..n : mag(d) <= mag(e)}
<1>1. Dim \in Nat \ {0} /\ Components = 0..(Dim - 1)
  BY FastScanAssumption DEF Components
<1>2. \A d \in Components : mag(d) \in Nat
  BY DEF Magnitude
<1>3. 0 \in S
  <2>1. 0 \in Components /\ \A d \in 0..0 : d = 0
    BY <1>1
  <2>2. mag(0) <= mag(0)
    <3> HIDE DEF mag
    <3> QED BY <1>2, <2>1
  <2> HIDE DEF mag
  <2> QED BY <2>1, <2>2
<1>4. ASSUME NEW n \in Nat, n \in S PROVE n + 1 \in S
  <2> SUFFICES ASSUME (n + 1) + 1 <= Dim
               PROVE  \E e \in 0..(n + 1) : \A d \in 0..(n + 1) : mag(d) <= mag(e)
    OBVIOUS
  <2> HIDE DEF mag
  <2>1. PICK e \in 0..n : \A d \in 0..n : mag(d) <= mag(e)
    BY <1>1, <1>4
  <2>2. \A d \in 0..(n + 1) : d \in Components /\ mag(d) \in Nat /\ (d \in 0..n \/ d = n + 1)
    BY <1>1, <1>2
  <2>3. e \in 0..(n + 1) /\ n + 1 \in 0..(n + 1)
    OBVIOUS
  <2>4. CASE mag(n + 1) <= mag(e)
    BY <2>1, <2>2, <2>3, <2>4
  <2>5. CASE ~(mag(n + 1) <= mag(e))
    <3>1. ASSUME NEW d \in 0..(n + 1) PROVE mag(d) <= mag(n + 1)
      <4>1. mag(e) \in Nat /\ mag(n + 1) \in Nat /\ mag(d) \in Nat
        BY <2>2, <2>3
      <4>2. CASE d \in 0..n
        <5>1. mag(d) <= mag(e)
          BY <2>1, <4>2
        <5> QED BY <2>5, <4>1, <5>1
      <4>3. CASE d = n + 1
        BY <4>1, <4>3
      <4> QED BY <2>2, <4>2, <4>3
    <3> QED BY <2>3, <3>1
  <2> QED BY <2>4, <2>5
<1>5. Dim - 1 \in S
  <2> HIDE DEF S
  <2>1. \A n \in Nat : n \in S
    BY <1>3, <1>4, SubsetInduction
  <2> QED BY <1>1, <2>1
<1>6. PICK e \in Components : \A d \in Components : mag(d) <= mag(e)
  <2> HIDE DEF mag
  <2> QED BY <1>1, <1>5
<1> DEFINE M == {mag(d) : d \in Components}
           Top(m) == \A d \in Components : mag(d) <= m
<1>7. \E m \in M : Top(m)
  <2> HIDE DEF mag
  <2> QED BY <1>6
<1>8. MaxAbs(q) = CHOOSE m \in M : Top(m)
  BY Zenon DEF MaxAbs
<1>9. MaxAbs(q) \in M /\ Top(MaxAbs(q))
  <2> HIDE DEF M, Top
  <2> QED BY <1>7, <1>8, Zenon
<1>10. MaxAbs(q) \in Nat
  <2> HIDE DEF mag
  <2> QED BY <1>2, <1>9
<1> QED BY <1>9, <1>10

(* The unit of a quantised component, MaxVal to the largest one.            *)
StepOf(vmax) == IF vmax = 0 THEN MaxVal ELSE vmax

(* Quantised, a component is at most MaxVal and half a step off.            *)
LEMMA LaneIsNearest ==
  ASSUME NEW value \in Int, NEW vmax \in Nat, Magnitude(value) <= vmax
  PROVE  /\ QuantizeLane14Bit(value, vmax) \in (-MaxVal)..MaxVal
         /\ 2 * (QuantizeLane14Bit(value, vmax) * StepOf(vmax) - MaxVal * value)
              \in (-StepOf(vmax))..StepOf(vmax)
<1> DEFINE a == Magnitude(value)
           n == QuantizeLane14Bit(value, vmax)
<1>0. MaxVal \in Nat \ {0} /\ a \in Nat /\ a <= vmax /\ (value < 0 => value = -a)
      /\ (~(value < 0) => value = a)
  BY FastScanAssumption DEF Magnitude
<1>1. CASE vmax = 0
  <2>1. value = 0
    BY <1>0, <1>1
  <2>2. n = 0
    BY <1>1, <2>1 DEF QuantizeLane14Bit
  <2>3. StepOf(vmax) = MaxVal
    BY <1>1 DEF StepOf
  <2>4. 0 * MaxVal - MaxVal * 0 = 0
    BY <1>0
  <2>5. 2 * (n * StepOf(vmax) - MaxVal * value) = 0
    BY <2>1, <2>2, <2>3, <2>4
  <2>6. 0 \in (-MaxVal)..MaxVal
    BY <1>0
  <2> HIDE DEF n
  <2> QED BY <2>2, <2>3, <2>5, <2>6 DEF n
<1>2. CASE vmax # 0
  <2> DEFINE k == (2 * a * MaxVal + vmax) \div (2 * vmax)
  <2>1. StepOf(vmax) = vmax /\ n = IF value < 0 THEN -k ELSE k
    BY <1>2 DEF StepOf, QuantizeLane14Bit
  <2> DEFINE z == a * MaxVal
             y == k * vmax
  <2>2. z \in Nat /\ z <= vmax * MaxVal
    BY <1>0
  <2>3. /\ k \in Nat
        /\ 2 * y <= 2 * z + vmax
        /\ 2 * z + vmax < 2 * y + 2 * vmax
    <3>1. 2 * a * MaxVal = 2 * z
      BY <1>0
    <3> DEFINE num == 2 * z + vmax
               den == 2 * vmax
    <3>2. num \in Nat /\ den \in Nat \ {0} /\ k = num \div den
      <4> HIDE DEF z
      <4> QED BY <1>2, <2>2, <3>1
    <3> HIDE DEF num, den, k
    <3>3. k \in Nat /\ den * k <= num /\ num < den * k + den
      BY <3>2
    <3>4. den * k = 2 * (k * vmax)
      BY <3>2, <3>3 DEF den
    <3> QED BY <3>3, <3>4 DEF num, den
  <2>4. k <= MaxVal
    <3> SUFFICES ASSUME k >= MaxVal + 1 PROVE FALSE
      <4> HIDE DEF k
      <4> QED BY <1>0, <2>3
    <3> HIDE DEF k
    <3>1. k * vmax >= (MaxVal + 1) * vmax
      BY <1>0, <2>3
    <3>2. (MaxVal + 1) * vmax = vmax * MaxVal + vmax /\ vmax * MaxVal \in Nat
      BY <1>0
    <3>3. k * vmax \in Nat
      BY <2>3
    <3> HIDE DEF z
    <3> QED BY <1>2, <2>2, <2>3, <3>1, <3>2, <3>3
  <2>5. n \in (-MaxVal)..MaxVal
    <3> HIDE DEF k, n
    <3> QED BY <1>0, <2>1, <2>3, <2>4
  <2>6. 2 * (n * vmax - MaxVal * value) = IF value < 0 THEN -(2 * (y - z)) ELSE 2 * (y - z)
    <3> HIDE DEF k, n, a
    <3>1. CASE value < 0
      <4>1. n = -k /\ value = -a /\ k \in Nat /\ a \in Nat /\ MaxVal \in Nat
        BY <1>0, <2>1, <2>3, <3>1
      <4>2. n * vmax = -(k * vmax) /\ MaxVal * value = -(a * MaxVal)
        BY <4>1
      <4>3. k * vmax \in Int /\ a * MaxVal \in Int
        BY <4>1
      <4> QED BY <3>1, <4>2, <4>3
    <3>2. CASE ~(value < 0)
      <4>1. n = k /\ value = a /\ k \in Nat /\ a \in Nat /\ MaxVal \in Nat
        BY <1>0, <2>1, <2>3, <3>2
      <4>2. n * vmax = k * vmax /\ MaxVal * value = a * MaxVal
        BY <4>1
      <4> QED BY <3>2, <4>2
    <3> QED BY <3>1, <3>2
  <2>7. 2 * (y - z) \in (-vmax)..vmax
    <3>1. y \in Nat
      <4> HIDE DEF k
      <4> QED BY <2>3
    <3> HIDE DEF y, z
    <3> QED BY <2>2, <2>3, <3>1
  <2>8. 2 * (n * vmax - MaxVal * value) \in (-vmax)..vmax
    <3> DEFINE w == 2 * (y - z)
    <3> HIDE DEF w, n
    <3> QED BY <2>6, <2>7
  <2> QED BY <2>1, <2>5, <2>8, Zenon
<1> QED BY <1>1, <1>2

(* Of the whole query. *)
LEMMA QueryIsQuantised ==
  ASSUME NEW q \in [Components -> Int]
  PROVE  /\ MaxAbs(q) \in Nat
         /\ QuantizeQuery14BitWithMax(q, MaxAbs(q)) \in Quantised
         /\ \A d \in Components :
              2 * (QuantizeQuery14BitWithMax(q, MaxAbs(q))[d] * StepOf(MaxAbs(q)) - MaxVal * q[d])
                \in (-StepOf(MaxAbs(q)))..StepOf(MaxAbs(q))
<1> DEFINE vmax == MaxAbs(q)
           quant == QuantizeQuery14BitWithMax(q, vmax)
<1>1. quant = [d \in Components |-> QuantizeLane14Bit(q[d], vmax)]
  BY TableIs, Zenon DEF QuantizeQuery14BitWithMax
<1>2. vmax \in Nat /\ \A d \in Components : Magnitude(q[d]) <= vmax
  BY LargestComponent
<1> HIDE DEF vmax, quant
<1>3. ASSUME NEW d \in Components
      PROVE  /\ QuantizeLane14Bit(q[d], vmax) \in (-MaxVal)..MaxVal
             /\ 2 * (QuantizeLane14Bit(q[d], vmax) * StepOf(vmax) - MaxVal * q[d])
                  \in (-StepOf(vmax))..StepOf(vmax)
  <2>1. q[d] \in Int
    OBVIOUS
  <2> QED BY <1>2, <2>1, LaneIsNearest, Zenon
<1>4. quant \in Quantised
  BY <1>1, <1>3 DEF Quantised
<1>5. \A d \in Components : quant[d] = QuantizeLane14Bit(q[d], vmax)
  BY <1>1
<1> QED BY <1>2, <1>3, <1>4, <1>5 DEF vmax, quant
-----------------------------------------------------------------------------
(* The table.  A group of four quantised components and the sum of those    *)
(* whose bits are set.                                                      *)
Chosen(quant, m, bits) == Total(4, [b \in 0..3 |-> bits[b] * quant[4 * m + b]])

BitsOf(nibble) == [b \in 0..3 |-> (nibble \div 2^(3 - b)) % 2]

(* A group is four components of the query.                                 *)
LEMMA GroupOfFour ==
  ASSUME lut_per_iter \in LutPerIters, NEW quant \in Quantised, NEW m \in 0..(Groups - 1)
  PROVE  /\ \A b \in 0..3 : 4 * m + b \in Components /\ quant[4 * m + b] \in (-MaxVal)..MaxVal
         /\ MaxVal \in Nat /\ 4 * MaxVal < LaneRange
<1>1. Groups \in Nat /\ Dim = Groups * 4 /\ MaxVal \in Nat /\ 4 * MaxVal < LaneRange
  BY Sizes
<1>2. \A b \in 0..3 : 4 * m + b \in Components
  BY <1>1 DEF Components
<1> QED BY <1>1, <1>2 DEF Quantised

(* The least sum is of the negative components of the group.                *)
LEMMA LeastOfGroup ==
  ASSUME lut_per_iter \in LutPerIters, NEW quant \in Quantised, NEW m \in 0..(Groups - 1)
  PROVE  GroupMin(quant, m) =
           AtMost(quant[4 * m], 0) + AtMost(quant[4 * m + 1], 0)
             + AtMost(quant[4 * m + 2], 0) + AtMost(quant[4 * m + 3], 0)
<1> DEFINE f == [b \in 0..3 |-> AtMost(quant[4 * m + b], 0)]
<1>1. f \in [0..3 -> Int]
  <2>1. \A b \in 0..3 : quant[4 * m + b] \in Int
    BY GroupOfFour
  <2> QED BY <2>1 DEF AtMost
<1>2. GroupMin(quant, m) = Total(4, f)
  <2>1. 4 - 1 = 3
    OBVIOUS
  <2> QED BY <2>1, Zenon DEF GroupMin, SumTo
<1>3. 4 * m + 0 = 4 * m
  OBVIOUS
<1>4. f[0] = AtMost(quant[4 * m], 0) /\ f[1] = AtMost(quant[4 * m + 1], 0)
      /\ f[2] = AtMost(quant[4 * m + 2], 0) /\ f[3] = AtMost(quant[4 * m + 3], 0)
  BY <1>3
<1> HIDE DEF f
<1> QED BY <1>1, <1>2, <1>4, TotalOfFour

(* An entry is the sum of the components its nibble chooses, above the      *)
(* least; it fits the two bytes it is stored in.                            *)
LEMMA EntryIsChosenSum ==
  ASSUME lut_per_iter \in LutPerIters, NEW quant \in Quantised, NEW m \in 0..(Groups - 1),
         NEW nibble \in 0..15
  PROVE  /\ BuildLut16(quant, m, nibble) \in Nat /\ BuildLut16(quant, m, nibble) < LaneRange
         /\ GroupMin(quant, m) \in Int /\ Chosen(quant, m, BitsOf(nibble)) \in Int
         /\ BuildLut16(quant, m, nibble) + GroupMin(quant, m)
              = Chosen(quant, m, BitsOf(nibble))
<1> DEFINE f == [b \in 0..3 |-> BitsOf(nibble)[b] * quant[4 * m + b]]
<1>1. \A b \in 0..3 : BitsOf(nibble)[b] \in {0, 1}
  <2>1. 2^(3 - 0) = 8 /\ 2^(3 - 1) = 4 /\ 2^(3 - 2) = 2 /\ 2^(3 - 3) = 1
    BY Powers
  <2> TAKE b \in 0..3
  <2>2. BitsOf(nibble)[b] = (nibble \div 2^(3 - b)) % 2
    BY DEF BitsOf
  <2>3. CASE b = 0
    BY <2>1, <2>2, <2>3
  <2>4. CASE b = 1
    BY <2>1, <2>2, <2>4
  <2>5. CASE b = 2
    BY <2>1, <2>2, <2>5
  <2>6. CASE b = 3
    BY <2>1, <2>2, <2>6
  <2> QED BY <2>3, <2>4, <2>5, <2>6
<1>2. \A b \in 0..3 : quant[4 * m + b] \in (-MaxVal)..MaxVal
  BY GroupOfFour
<1>3. \A b \in 0..3 : f[b] = quant[4 * m + b] \/ f[b] = 0
  <2> TAKE b \in 0..3
  <2>1. quant[4 * m + b] \in Int /\ BitsOf(nibble)[b] \in {0, 1}
    <3>1. MaxVal \in Nat
      BY GroupOfFour
    <3> QED BY <1>1, <1>2, <3>1
  <2>2. f[b] = BitsOf(nibble)[b] * quant[4 * m + b]
    OBVIOUS
  <2>3. \A x \in Int : 0 * x = 0 /\ 1 * x = x
    OBVIOUS
  <2> HIDE DEF f
  <2> QED BY <2>1, <2>2, <2>3
<1>4. f \in [0..3 -> Int]
  <2>1. \A b \in 0..3 : quant[4 * m + b] \in Int
    <3>1. MaxVal \in Nat
      BY GroupOfFour
    <3> QED BY <1>2, <3>1
  <2>2. \A b \in 0..3 : f[b] \in Int
    <3> HIDE DEF f
    <3> QED BY <1>3, <2>1
  <2>3. f = [b \in 0..3 |-> f[b]]
    OBVIOUS
  <2> HIDE DEF f
  <2> QED BY <2>2, <2>3
<1>5. Chosen(quant, m, BitsOf(nibble)) = Total(4, f)
  BY Zenon DEF Chosen
<1>6. BuildLut16(quant, m, nibble) = Total(4, f) - GroupMin(quant, m)
  <2>1. 4 - 1 = 3
    OBVIOUS
  <2>2. f = [b \in 0..3 |-> ((nibble \div 2^(3 - b)) % 2) * quant[4 * m + b]]
    BY DEF BitsOf
  <2> HIDE DEF f
  <2> QED BY <2>1, <2>2, Zenon DEF BuildLut16, SumTo
<1>7. Total(4, f) = f[0] + f[1] + f[2] + f[3]
  <2> HIDE DEF f
  <2> QED BY <1>4, TotalOfFour
<1>8. 4 * m + 0 = 4 * m
  OBVIOUS
<1> HIDE DEF f
<1>9. /\ f[0] = quant[4 * m] \/ f[0] = 0
      /\ f[1] = quant[4 * m + 1] \/ f[1] = 0
      /\ f[2] = quant[4 * m + 2] \/ f[2] = 0
      /\ f[3] = quant[4 * m + 3] \/ f[3] = 0
  BY <1>3, <1>8
<1> DEFINE a == quant[4 * m]
           b == quant[4 * m + 1]
           c == quant[4 * m + 2]
           d == quant[4 * m + 3]
           least == GroupMin(quant, m)
<1>10. a \in (-MaxVal)..MaxVal /\ b \in (-MaxVal)..MaxVal /\ c \in (-MaxVal)..MaxVal
       /\ d \in (-MaxVal)..MaxVal /\ MaxVal \in Nat /\ 4 * MaxVal < LaneRange
  <2>1. MaxVal \in Nat /\ 4 * MaxVal < LaneRange
    BY GroupOfFour
  <2> QED BY <1>2, <1>8, <2>1
<1>11. least = AtMost(a, 0) + AtMost(b, 0) + AtMost(c, 0) + AtMost(d, 0)
  BY LeastOfGroup
<1> HIDE DEF a, b, c, d, least
<1>12. least \in Int
  BY <1>10, <1>11 DEF AtMost
<1>13. Total(4, f) \in Int /\ Total(4, f) - least \in Nat /\ Total(4, f) - least < LaneRange
  <2> DEFINE w == f[0]
             x == f[1]
             y == f[2]
             z == f[3]
  <2>1. (w = a \/ w = 0) /\ (x = b \/ x = 0) /\ (y = c \/ y = 0) /\ (z = d \/ z = 0)
    BY <1>9 DEF a, b, c, d
  <2> HIDE DEF w, x, y, z
  <2> DEFINE la == AtMost(a, 0)
             lb == AtMost(b, 0)
             lc == AtMost(c, 0)
             ld == AtMost(d, 0)
  <2>2. /\ w \in Int /\ la \in Int /\ w - la \in 0..MaxVal
        /\ x \in Int /\ lb \in Int /\ x - lb \in 0..MaxVal
        /\ y \in Int /\ lc \in Int /\ y - lc \in 0..MaxVal
        /\ z \in Int /\ ld \in Int /\ z - ld \in 0..MaxVal
    <3>2. /\ la = IF a < 0 THEN a ELSE 0
          /\ lb = IF b < 0 THEN b ELSE 0
          /\ lc = IF c < 0 THEN c ELSE 0
          /\ ld = IF d < 0 THEN d ELSE 0
      BY DEF AtMost
    <3> HIDE DEF la, lb, lc, ld
    <3>3. w \in Int /\ la \in Int /\ w - la \in 0..MaxVal
      BY <1>10, <2>1, <3>2
    <3>4. x \in Int /\ lb \in Int /\ x - lb \in 0..MaxVal
      BY <1>10, <2>1, <3>2
    <3>5. y \in Int /\ lc \in Int /\ y - lc \in 0..MaxVal
      BY <1>10, <2>1, <3>2
    <3>6. z \in Int /\ ld \in Int /\ z - ld \in 0..MaxVal
      BY <1>10, <2>1, <3>2
    <3> QED BY <3>3, <3>4, <3>5, <3>6
  <2>3. least = la + lb + lc + ld /\ Total(4, f) = w + x + y + z
    BY <1>7, <1>11 DEF w, x, y, z
  <2> HIDE DEF la, lb, lc, ld
  <2> DEFINE e1 == w - la
             e2 == x - lb
             e3 == y - lc
             e4 == z - ld
  <2>4. e1 + e2 + e3 + e4 \in Nat /\ e1 + e2 + e3 + e4 < LaneRange
    <3>1. e1 \in 0..MaxVal /\ e2 \in 0..MaxVal /\ e3 \in 0..MaxVal /\ e4 \in 0..MaxVal
      BY <2>2
    <3>2. MaxVal \in Nat /\ 4 * MaxVal < LaneRange /\ LaneRange \in Int
      BY <1>10, Powers
    <3> HIDE DEF e1, e2, e3, e4
    <3> QED BY ONLY <3>1, <3>2
  <2>5. (w + x + y + z) - (la + lb + lc + ld) = e1 + e2 + e3 + e4
        /\ w + x + y + z \in Int
    <3>1. /\ w \in Int /\ x \in Int /\ y \in Int /\ z \in Int
          /\ la \in Int /\ lb \in Int /\ lc \in Int /\ ld \in Int
      BY <2>2
    <3> QED BY ONLY <3>1
  <2> HIDE DEF e1, e2, e3, e4
  <2> QED BY <2>3, <2>4, <2>5
<1> DEFINE total == Total(4, f)
<1>14. (total - least) + least = total
  <2>1. total \in Int
    BY <1>13
  <2> HIDE DEF total
  <2> QED BY <1>12, <2>1
<1> QED BY <1>5, <1>6, <1>12, <1>13, <1>14 DEF least

(* Its bytes lie where the lanes look them up.                              *)
LEMMA TableFindsEntry ==
  ASSUME lut_per_iter \in LutPerIters, NEW quant, NEW m \in 0..(Groups - 1),
         NEW plane \in Planes, NEW nibble \in 0..15
  PROVE  BuildFastScanLUT(quant)[LutGroupBase(m) + plane * Half * lut_per_iter + nibble]
           = BytePlane(BuildLut16(quant, m, nibble), plane = 1)
<1> DEFINE l == lut_per_iter
           p == LutGroupBase(m) + plane * Half * l + nibble
<1>1. /\ p \in 0..(LutSize - 1)
      /\ (p \div (2 * Half * l)) * l + ((p \div Half) % l) = m
      /\ ((p \div (Half * l)) % 2 = 1) <=> (plane = 1)
      /\ p % Half = nibble
  <2>1. Groups \in Nat /\ LutSize = Groups * 32 /\ ((l = 2 /\ Groups % 2 = 0) \/ (l = 4 /\ Groups % 4 = 0))
    BY Sizes
  <2>2. p = (m \div l) * 2 * 16 * l + (m % l) * 16 + plane * 16 * l + nibble
    BY DEF LutGroupBase, Half
  <2> HIDE DEF p, l
  <2>3. CASE l = 2 /\ Groups % 2 = 0
    <3> DEFINE h == m \div 2
               r == m % 2
    <3>1. h \in Nat /\ r \in {0, 1} /\ m = 2 * h + r /\ 2 * h + 2 <= Groups
      BY <2>1, <2>3
    <3>2. p = h * 64 + r * 16 + plane * 32 + nibble
      BY <2>2, <2>3, <3>1 DEF Planes
    <3> HIDE DEF h, r
    <3>3. p \in 0..(Groups * 32 - 1) /\ p \div 64 = h /\ p \div 16 = 4 * h + 2 * plane + r
          /\ p \div 32 = 2 * h + plane /\ p % 16 = nibble
      BY <2>1, <3>1, <3>2 DEF Planes
    <3>4. (4 * h + 2 * plane + r) % 2 = r /\ (2 * h + plane) % 2 = plane
      BY <3>1 DEF Planes
    <3>5. 2 * 16 * l = 64 /\ 16 * l = 32
      BY <2>3
    <3>6. Half = 16 /\ h * l + r = m /\ (p \div 16) % l = r
      BY <2>3, <3>1, <3>3, <3>4 DEF Half
    <3>7. 2 * Half * l = 64 /\ Half * l = 32
      BY <3>5, <3>6
    <3> QED BY <2>1, <3>3, <3>4, <3>6, <3>7
  <2>4. CASE l = 4 /\ Groups % 4 = 0
    <3> DEFINE h == m \div 4
               r == m % 4
    <3>1. h \in Nat /\ r \in 0..3 /\ m = 4 * h + r /\ 4 * h + 4 <= Groups
      BY <2>1, <2>4
    <3>2. p = h * 128 + r * 16 + plane * 64 + nibble
      BY <2>2, <2>4, <3>1 DEF Planes
    <3> HIDE DEF h, r
    <3>3. p \in 0..(Groups * 32 - 1) /\ p \div 128 = h /\ p \div 16 = 8 * h + 4 * plane + r
          /\ p \div 64 = 2 * h + plane /\ p % 16 = nibble
      BY <2>1, <3>1, <3>2 DEF Planes
    <3>4. (8 * h + 4 * plane + r) % 4 = r /\ (2 * h + plane) % 2 = plane
      BY <3>1 DEF Planes
    <3>5. 2 * 16 * l = 128 /\ 16 * l = 64
      BY <2>4
    <3>6. Half = 16 /\ h * l + r = m /\ (p \div 16) % l = r
      BY <2>4, <3>1, <3>3, <3>4 DEF Half
    <3>7. 2 * Half * l = 128 /\ Half * l = 64
      BY <3>5, <3>6
    <3> QED BY <2>1, <3>3, <3>4, <3>6, <3>7
  <2> QED BY <2>1, <2>3, <2>4
<1>2. BuildFastScanLUT(quant) =
        [i \in 0..(LutSize - 1) |->
           BytePlane(BuildLut16(quant, (i \div (2 * Half * l)) * l + ((i \div Half) % l), i % Half),
                     (i \div (Half * l)) % 2 = 1)]
  BY TableIs, Zenon DEF BuildFastScanLUT
<1> HIDE DEF p, l
<1>3. BuildFastScanLUT(quant)[p] =
        BytePlane(BuildLut16(quant, (p \div (2 * Half * l)) * l + ((p \div Half) % l), p % Half),
                  (p \div (Half * l)) % 2 = 1)
  BY <1>1, <1>2, Zenon
<1>4. ((p \div (Half * l)) % 2 = 1) = (plane = 1)
  BY <1>1
<1>5. BuildFastScanLUT(quant)[p] = BytePlane(BuildLut16(quant, m, nibble), plane = 1)
  BY <1>1, <1>3, <1>4, Zenon
<1> QED BY <1>5 DEF p, l

-----------------------------------------------------------------------------
(* The lanes.  No more groups than a lane of 16 bits has room for bytes:    *)
(* the code takes this for granted.                                         *)
LanesSuffice == \A n \in LutPerIters : 255 * (Groups \div (n \div 2)) < LaneRange

(* The table is of a quantised query, the block of sign codes.              *)
Scanning(quant, codes) ==
  /\ lut_per_iter \in LutPerIters
  /\ quant \in Quantised /\ prepared.lut = BuildFastScanLUT(quant)
  /\ codes \in Seq(SignCodes) /\ block.packed = PackSignBitsForFastScan(codes)

Entry(quant, codes, v, m) == BuildLut16(quant, m, Nibble(codes, v, m))

(* The bytes of a vector's entries, one for each group.                     *)
EntryBytes(quant, codes, v, plane) ==
  [m \in 0..(Groups - 1) |-> BytePlane(Entry(quant, codes, v, m), plane = 1)]

(* Nibbles and entries of a block are numbers that fit.                     *)
LEMMA EntryType ==
  ASSUME NEW quant, NEW codes, Scanning(quant, codes), NEW v \in 0..31,
         NEW m \in 0..(Groups - 1)
  PROVE  /\ Nibble(codes, v, m) \in 0..15
         /\ Entry(quant, codes, v, m) \in Nat /\ Entry(quant, codes, v, m) < LaneRange
<1>1. v \in Nat
  OBVIOUS
<1>2. Nibble(codes, v, m) \in 0..15
  BY <1>1, NibbleHoldsBits DEF Scanning
<1>3. lut_per_iter \in LutPerIters /\ quant \in Quantised
  BY DEF Scanning
<1> DEFINE nibble == Nibble(codes, v, m)
<1>4. BuildLut16(quant, m, nibble) \in Nat /\ BuildLut16(quant, m, nibble) < LaneRange
  <2>1. nibble \in 0..15
    BY <1>2
  <2> HIDE DEF nibble
  <2> QED BY <1>3, <2>1, EntryIsChosenSum
<1> QED BY <1>2, <1>4 DEF Entry

(* The bytes of an entry are bytes and make it up.                          *)
LEMMA EntryBytesType ==
  ASSUME NEW quant, NEW codes, Scanning(quant, codes), NEW v \in 0..31, NEW plane \in Planes
  PROVE  /\ EntryBytes(quant, codes, v, plane) \in [0..(Groups - 1) -> Int]
         /\ \A m \in 0..(Groups - 1) : EntryBytes(quant, codes, v, plane)[m] \in 0..255
         /\ \A m \in 0..(Groups - 1) :
              EntryBytes(quant, codes, v, 0)[m] + 256 * EntryBytes(quant, codes, v, 1)[m]
                = Entry(quant, codes, v, m)
<1> DEFINE e(m) == Entry(quant, codes, v, m)
           low(m) == BytePlane(e(m), 0 = 1)
           high(m) == BytePlane(e(m), 1 = 1)
<1>1. ASSUME NEW m \in 0..(Groups - 1)
      PROVE  low(m) \in 0..255 /\ high(m) \in 0..255 /\ low(m) + 256 * high(m) = e(m)
  <2>1. e(m) \in Nat /\ e(m) < LaneRange
    BY EntryType
  <2>2. low(m) = e(m) % 256 /\ high(m) = e(m) \div 256
    BY Powers DEF BytePlane
  <2>3. LaneRange = 65536
    BY Powers
  <2> HIDE DEF e, low, high
  <2> QED BY <2>1, <2>2, <2>3
<1>2. \A m \in 0..(Groups - 1) :
        /\ EntryBytes(quant, codes, v, 0)[m] = low(m)
        /\ EntryBytes(quant, codes, v, 1)[m] = high(m)
  BY DEF EntryBytes
<1> HIDE DEF e, low, high
<1>3. \A m \in 0..(Groups - 1) : EntryBytes(quant, codes, v, plane)[m] \in 0..255
  BY <1>1, <1>2 DEF Planes
<1>4. EntryBytes(quant, codes, v, plane) \in [0..(Groups - 1) -> Int]
  <2>1. EntryBytes(quant, codes, v, plane) =
          [m \in 0..(Groups - 1) |-> EntryBytes(quant, codes, v, plane)[m]]
    BY DEF EntryBytes
  <2>2. \A m \in 0..(Groups - 1) : EntryBytes(quant, codes, v, plane)[m] \in Int
    BY <1>3
  <2> QED BY <2>1, <2>2
<1> QED BY <1>1, <1>2, <1>3, <1>4 DEF e

(* A lookup finds the byte of the vector whose bits the shuffle was fed.    *)
LEMMA LooksUpOwnEntry ==
  ASSUME NEW quant, NEW codes, Scanning(quant, codes), NEW v \in 0..31,
         NEW m \in 0..(Groups - 1), NEW plane \in Planes
  PROVE  Looked(m, plane, kInvPerm(v % Half), v >= Half)
           = EntryBytes(quant, codes, v, plane)[m]
<1>1. NibbleOf(block.packed[m * Half + kInvPerm(v % Half)], v >= Half) = Nibble(codes, v, m)
  BY PackedNibble, Zenon DEF Scanning
<1>2. Looked(m, plane, kInvPerm(v % Half), v >= Half) =
        BuildFastScanLUT(quant)[LutGroupBase(m) + plane * Half * lut_per_iter
                                  + Nibble(codes, v, m)]
  BY <1>1, Zenon DEF Looked, Scanning
<1>3. Nibble(codes, v, m) \in 0..15
  BY EntryType
<1>4. Looked(m, plane, kInvPerm(v % Half), v >= Half)
        = BytePlane(Entry(quant, codes, v, m), plane = 1)
  BY <1>2, <1>3, TableFindsEntry, Zenon DEF Scanning, Entry
<1> QED BY <1>4, Zenon DEF EntryBytes

(* What a lane's share adds up for a vector.                                *)
ShareSum(quant, codes, v, plane, share) ==
  Total(LaneGroups,
        [k \in 0..(LaneGroups - 1) |-> EntryBytes(quant, codes, v, plane)[LaneGroup(share, k)]])

(* The groups of a share are groups.                                        *)
LEMMA ShareGroups ==
  ASSUME lut_per_iter \in LutPerIters, NEW share \in 0..(LaneShares - 1)
  PROVE  /\ LaneGroups \in Nat
         /\ \A k \in 0..(LaneGroups - 1) : LaneGroup(share, k) \in 0..(Groups - 1)
<1>1. CASE LaneShares = 1 /\ LaneGroups = Groups
  <2>1. share = 0 /\ Groups \in Nat
    BY <1>1, Sizes
  <2> QED BY <1>1, <2>1 DEF LaneGroup
<1>2. CASE LaneShares = 2 /\ LaneGroups \in Nat /\ Groups = LaneGroups * 2
  BY <1>2 DEF LaneGroup
<1> QED BY <1>1, <1>2, Sizes

(* No lane overflows.                                                       *)
LEMMA ShareSumFits ==
  ASSUME NEW quant, NEW codes, Scanning(quant, codes), LanesSuffice,
         NEW v \in 0..31, NEW plane \in Planes, NEW share \in 0..(LaneShares - 1)
  PROVE  /\ ShareSum(quant, codes, v, plane, share) \in Nat
         /\ ShareSum(quant, codes, v, plane, share) < LaneRange
<1> DEFINE f == [k \in 0..(LaneGroups - 1) |->
                   EntryBytes(quant, codes, v, plane)[LaneGroup(share, k)]]
<1>1. LaneGroups \in Nat /\ \A k \in 0..(LaneGroups - 1) : LaneGroup(share, k) \in 0..(Groups - 1)
  BY ShareGroups DEF Scanning
<1>2. \A k \in 0..(LaneGroups - 1) : f[k] \in 0..255
  BY <1>1, EntryBytesType
<1>3. f \in [0..(LaneGroups - 1) -> Int]
  <2>1. f = [k \in 0..(LaneGroups - 1) |-> f[k]]
    OBVIOUS
  <2> HIDE DEF f
  <2>2. \A k \in 0..(LaneGroups - 1) : f[k] \in Int
    BY <1>2
  <2> QED BY <2>1, <2>2
<1>4. LaneGroups * 0 <= Total(LaneGroups, f) /\ Total(LaneGroups, f) <= LaneGroups * 255
      /\ Total(LaneGroups, f) \in Int
  <2>1. \A k \in 0..(LaneGroups - 1) : 0 <= f[k] /\ f[k] <= 255
    <3> HIDE DEF f
    <3> QED BY <1>2
  <2>2. 0 \in Int /\ 255 \in Int
    OBVIOUS
  <2> HIDE DEF f
  <2> QED BY <1>1, <1>3, <2>1, <2>2, TotalBounds, TotalType
<1>5. 255 * LaneGroups < LaneRange
  <2>1. 255 * (Groups \div (lut_per_iter \div 2)) < LaneRange
    BY Zenon DEF LanesSuffice, Scanning
  <2> QED BY <2>1, Powers DEF LaneGroups, LaneShares
<1>6. ShareSum(quant, codes, v, plane, share) = Total(LaneGroups, f)
  BY Zenon DEF ShareSum
<1> HIDE DEF f
<1>7. LaneRange \in Int
  BY Powers
<1> QED BY <1>1, <1>4, <1>5, <1>6, <1>7

(* The sum of one byte position over a share is that of the vector it is of.*)
LEMMA ShareOfPosition ==
  ASSUME NEW quant, NEW codes, Scanning(quant, codes), NEW v \in 0..31, NEW plane \in Planes,
         NEW share \in 0..(LaneShares - 1)
  PROVE  \A k \in 0..(LaneGroups - 1) :
           Looked(LaneGroup(share, k), plane, kInvPerm(v % Half), v >= Half)
             = EntryBytes(quant, codes, v, plane)[LaneGroup(share, k)]
<1>1. \A k \in 0..(LaneGroups - 1) : LaneGroup(share, k) \in 0..(Groups - 1)
  BY ShareGroups DEF Scanning
<1> QED BY <1>1, LooksUpOwnEntry, Zenon

(* A lane's odd byte: the sum of its vector.                                *)
LEMMA OddSumIsShare ==
  ASSUME NEW quant, NEW codes, Scanning(quant, codes), LanesSuffice, NEW v \in 0..31,
         NEW plane \in Planes, NEW share \in 0..(LaneShares - 1),
         NEW i, 2 * i + 1 = kInvPerm(v % Half), NEW high, high = (v >= Half)
  PROVE  OddSum(plane, i, high, share) = ShareSum(quant, codes, v, plane, share)
<1> DEFINE f == [k \in 0..(LaneGroups - 1) |-> Looked(LaneGroup(share, k), plane, 2 * i + 1, high)]
<1>1. OddSum(plane, i, high, share) = Total(LaneGroups, f) % LaneRange
  BY Zenon DEF OddSum, SumTo
<1>2. f = [k \in 0..(LaneGroups - 1) |-> EntryBytes(quant, codes, v, plane)[LaneGroup(share, k)]]
  <2>1. \A k \in 0..(LaneGroups - 1) :
          Looked(LaneGroup(share, k), plane, kInvPerm(v % Half), v >= Half)
            = EntryBytes(quant, codes, v, plane)[LaneGroup(share, k)]
    BY ShareOfPosition
  <2>2. \A k \in 0..(LaneGroups - 1) :
          Looked(LaneGroup(share, k), plane, 2 * i + 1, high)
            = EntryBytes(quant, codes, v, plane)[LaneGroup(share, k)]
    BY <2>1, Zenon
  <2> QED BY <2>2, Zenon
<1>3. Total(LaneGroups, f) = ShareSum(quant, codes, v, plane, share)
  BY <1>2, Zenon DEF ShareSum
<1> HIDE DEF f
<1>4. ShareSum(quant, codes, v, plane, share) \in Nat
      /\ ShareSum(quant, codes, v, plane, share) < LaneRange
  BY ShareSumFits
<1> QED BY <1>1, <1>3, <1>4, Powers

(* A lane's even byte, once the odd one is taken out again.                 *)
LEMMA EvenSumIsShare ==
  ASSUME NEW quant, NEW codes, Scanning(quant, codes), LanesSuffice, NEW v \in 0..31,
         v % 16 < 8, NEW plane \in Planes, NEW share \in 0..(LaneShares - 1)
  PROVE  EvenSum(plane, v % Half, v >= Half, share) = ShareSum(quant, codes, v, plane, share)
<1>a. Half = 16
  BY DEF Half
<1>b. PICK w \in 0..31 : w = v + 8
  OBVIOUS
<1>c. PICK i \in Int : i = v % 16
  OBVIOUS
<1>d. PICK high : high = (v >= Half)
  OBVIOUS
<1>e. w % 16 = i + 8 /\ (w >= 16 <=> v >= 16) /\ i \in 0..7
  BY <1>b, <1>c
<1>f. 2 * i = kInvPerm(v % Half) /\ 2 * i + 1 = kInvPerm(w % Half)
  <2>1. kInvPerm(i) = 2 * i
    BY <1>a, <1>e DEF kInvPerm
  <2>2. kInvPerm(i + 8) = 2 * ((i + 8) - 8) + 1
    BY <1>a, <1>e DEF kInvPerm
  <2>3. (i + 8) - 8 = i
    OBVIOUS
  <2> QED BY <1>a, <1>c, <1>e, <2>1, <2>2, <2>3
<1>g. high = (w >= Half)
  BY <1>a, <1>d, <1>e
<1> DEFINE f == [k \in 0..(LaneGroups - 1) |-> EntryBytes(quant, codes, v, plane)[LaneGroup(share, k)]]
           g == [k \in 0..(LaneGroups - 1) |-> EntryBytes(quant, codes, w, plane)[LaneGroup(share, k)]]
           both == [k \in 0..(LaneGroups - 1) |-> 1 * f[k] + 256 * g[k]]
<1>1. LaneGroups \in Nat /\ \A k \in 0..(LaneGroups - 1) : LaneGroup(share, k) \in 0..(Groups - 1)
  BY ShareGroups DEF Scanning
<1>2. f \in [0..(LaneGroups - 1) -> Int] /\ g \in [0..(LaneGroups - 1) -> Int]
  <2>1. \A k \in 0..(LaneGroups - 1) : /\ EntryBytes(quant, codes, v, plane)[LaneGroup(share, k)] \in Int
                                       /\ EntryBytes(quant, codes, w, plane)[LaneGroup(share, k)] \in Int
    <3> DEFINE F == EntryBytes(quant, codes, v, plane)
               G == EntryBytes(quant, codes, w, plane)
    <3>0. F \in [0..(Groups - 1) -> Int]
      BY EntryBytesType
    <3>2. G \in [0..(Groups - 1) -> Int]
      BY EntryBytesType
    <3> HIDE DEF F, G
    <3>1. \A m \in 0..(Groups - 1) : F[m] \in Int /\ G[m] \in Int
      BY <3>0, <3>2
    <3>3. \A k \in 0..(LaneGroups - 1) :
            F[LaneGroup(share, k)] \in Int /\ G[LaneGroup(share, k)] \in Int
      BY <1>1, <3>1
    <3> QED BY <3>3 DEF F, G
  <2> QED BY <2>1
<1>3. BothSum(plane, i, high, share) = Total(LaneGroups, both)
  <2>1. BothSum(plane, i, high, share) =
          Total(LaneGroups, [k \in 0..(LaneGroups - 1) |->
            Looked(LaneGroup(share, k), plane, 2 * i, high)
              + ByteRange * Looked(LaneGroup(share, k), plane, 2 * i + 1, high)])
    BY Zenon DEF BothSum, SumTo
  <2>2. \A k \in 0..(LaneGroups - 1) :
          /\ Looked(LaneGroup(share, k), plane, 2 * i, high) = f[k]
          /\ Looked(LaneGroup(share, k), plane, 2 * i + 1, high) = g[k]
    <3>1. \A k \in 0..(LaneGroups - 1) :
            Looked(LaneGroup(share, k), plane, 2 * i, high)
              = EntryBytes(quant, codes, v, plane)[LaneGroup(share, k)]
      <4>1. \A k \in 0..(LaneGroups - 1) :
              Looked(LaneGroup(share, k), plane, kInvPerm(v % Half), v >= Half)
                = EntryBytes(quant, codes, v, plane)[LaneGroup(share, k)]
        BY ShareOfPosition
      <4> QED BY <1>d, <1>f, <4>1, Zenon
    <3>2. \A k \in 0..(LaneGroups - 1) :
            Looked(LaneGroup(share, k), plane, 2 * i + 1, high)
              = EntryBytes(quant, codes, w, plane)[LaneGroup(share, k)]
      <4>1. \A k \in 0..(LaneGroups - 1) :
              Looked(LaneGroup(share, k), plane, kInvPerm(w % Half), w >= Half)
                = EntryBytes(quant, codes, w, plane)[LaneGroup(share, k)]
        BY ShareOfPosition
      <4> QED BY <1>f, <1>g, <4>1, Zenon
    <3> QED BY <3>1, <3>2, Zenon
  <2>3. \A k \in 0..(LaneGroups - 1) : 1 * f[k] = f[k]
    <3> HIDE DEF f
    <3> QED BY <1>2
  <2> HIDE DEF f, g
  <2>4. \A k \in 0..(LaneGroups - 1) :
          Looked(LaneGroup(share, k), plane, 2 * i, high)
            + ByteRange * Looked(LaneGroup(share, k), plane, 2 * i + 1, high)
          = 1 * f[k] + 256 * g[k]
    <3>1. ByteRange = 256
      BY Powers
    <3> QED BY <2>2, <2>3, <3>1, SMT
  <2>5. [k \in 0..(LaneGroups - 1) |->
            Looked(LaneGroup(share, k), plane, 2 * i, high)
              + ByteRange * Looked(LaneGroup(share, k), plane, 2 * i + 1, high)] = both
    BY <2>4
  <2> HIDE DEF both
  <2> QED BY <2>1, <2>5
<1>4. Total(LaneGroups, both) = 1 * Total(LaneGroups, f) + 256 * Total(LaneGroups, g)
  <2> HIDE DEF f, g
  <2>1. PICK c \in Int : c = 256
    OBVIOUS
  <2>2. PICK d \in Int : d = 1
    OBVIOUS
  <2>3. Total(LaneGroups, [k \in 0..(LaneGroups - 1) |-> d * f[k] + c * g[k]])
          = d * Total(LaneGroups, f) + c * Total(LaneGroups, g)
    BY <1>1, <1>2, TotalLinear
  <2> QED BY <2>1, <2>2, <2>3
<1> DEFINE even == ShareSum(quant, codes, v, plane, share)
           odd == ShareSum(quant, codes, w, plane, share)
<1>5. Total(LaneGroups, f) = even /\ Total(LaneGroups, g) = odd
  BY Zenon DEF ShareSum
<1>6. OddSum(plane, i, high, share) = odd
  BY <1>f, <1>g, OddSumIsShare
<1>7. even \in Nat /\ even < 65536 /\ odd \in Nat
  BY ShareSumFits, Powers
<1>8. EvenSum(plane, i, high, share)
        = (BothSum(plane, i, high, share) - ByteRange * OddSum(plane, i, high, share)) % LaneRange
  BY DEF EvenSum
<1> HIDE DEF f, g, both, even, odd
<1>9. (1 * even + 256 * odd) - 256 * odd = even /\ even % 65536 = even
  BY <1>7
<1>10. EvenSum(plane, i, high, share) = ((1 * even + 256 * odd) - 256 * odd) % 65536
  BY <1>3, <1>4, <1>5, <1>6, <1>8, Powers
<1>11. EvenSum(plane, i, high, share) = ShareSum(quant, codes, v, plane, share)
  BY <1>9, <1>10 DEF even
<1> QED BY <1>a, <1>c, <1>d, <1>11

(* Both halves of the lanes: the even bytes are of the vectors before Half / *)
(* 2, the odd ones of those behind.                                         *)
LEMMA LaneKeepsShare ==
  ASSUME NEW quant, NEW codes, Scanning(quant, codes), LanesSuffice, NEW v \in 0..31,
         NEW plane \in Planes, NEW share \in 0..(LaneShares - 1)
  PROVE  (IF v % Half < Half \div 2 THEN EvenSum(plane, v % Half, v >= Half, share)
          ELSE OddSum(plane, (v % Half) - Half \div 2, v >= Half, share))
           = ShareSum(quant, codes, v, plane, share)
<1>0. Half = 16 /\ Half \div 2 = 8
  BY DEF Half
<1> DEFINE r == v % Half
<1>1. r \in 0..15 /\ r = v % 16
  BY <1>0
<1>2. CASE r < 8
  <2>5. EvenSum(plane, r, v >= Half, share) = ShareSum(quant, codes, v, plane, share)
    BY <1>1, <1>2, EvenSumIsShare
  <2> QED BY <1>0, <1>2, <2>5
<1>3. CASE ~(r < 8)
  <2>1. kInvPerm(r) = 2 * (r - 8) + 1
    BY <1>0, <1>1, <1>3 DEF kInvPerm
  <2>2. OddSum(plane, r - 8, v >= Half, share) = ShareSum(quant, codes, v, plane, share)
    BY <2>1, OddSumIsShare
  <2> QED BY <1>0, <1>3, <2>2
<1> QED BY <1>2, <1>3

(* The shares together are all the groups.                                  *)
LEMMA PlaneSumIsWhole ==
  ASSUME NEW quant, NEW codes, Scanning(quant, codes), LanesSuffice, NEW v \in 0..31,
         NEW plane \in Planes
  PROVE  PlaneSum(plane, v) = Total(Groups, EntryBytes(quant, codes, v, plane))
<1> DEFINE F == EntryBytes(quant, codes, v, plane)
           S(share) == ShareSum(quant, codes, v, plane, share)
<1>1. PlaneSum(plane, v) = Total(LaneShares, [share \in 0..(LaneShares - 1) |-> S(share)])
  <2>1. PlaneSum(plane, v) = Total(LaneShares, [share \in 0..(LaneShares - 1) |->
           IF v % Half < Half \div 2 THEN EvenSum(plane, v % Half, v >= Half, share)
           ELSE OddSum(plane, (v % Half) - Half \div 2, v >= Half, share)])
    BY Zenon DEF PlaneSum, SumTo
  <2>2. [share \in 0..(LaneShares - 1) |->
           IF v % Half < Half \div 2 THEN EvenSum(plane, v % Half, v >= Half, share)
           ELSE OddSum(plane, (v % Half) - Half \div 2, v >= Half, share)]
          = [share \in 0..(LaneShares - 1) |-> S(share)]
    BY LaneKeepsShare, Zenon
  <2> QED BY <2>1, <2>2, Zenon
<1>2. F \in [0..(Groups - 1) -> Int]
  BY EntryBytesType
<1>3. \A share \in 0..(LaneShares - 1) : S(share) \in Int
  BY ShareSumFits
<1>4. CASE LaneShares = 1 /\ LaneGroups = Groups
  <2>1. Total(1, [share \in 0..0 |-> S(share)]) = S(0)
    <3> DEFINE h == [share \in 0..0 |-> S(share)]
    <3>1. h \in [0..0 -> Int] /\ h[0] = S(0)
      <4> HIDE DEF S
      <4> QED BY <1>3, <1>4
    <3> HIDE DEF h
    <3> QED BY <3>1, TotalOfFew
  <2>2. S(0) = Total(Groups, [k \in 0..(Groups - 1) |-> F[LaneGroup(0, k)]])
    BY <1>4, Zenon DEF ShareSum
  <2>3. \A k \in 0..(Groups - 1) : LaneGroup(0, k) = k
    BY <1>4, Sizes DEF LaneGroup, Scanning
  <2> HIDE DEF F, S
  <2>4. [k \in 0..(Groups - 1) |-> F[LaneGroup(0, k)]] = F
    BY <1>2, <2>3
  <2>5. 1 - 1 = 0
    OBVIOUS
  <2> QED BY <1>1, <1>4, <2>1, <2>2, <2>4, <2>5 DEF F
<1>5. CASE LaneShares = 2 /\ LaneGroups \in Nat /\ Groups = LaneGroups * 2
  <2> DEFINE even == [k \in 0..(LaneGroups - 1) |-> F[2 * k]]
             odd == [k \in 0..(LaneGroups - 1) |-> F[2 * k + 1]]
             pair(k) == [j \in 0..1 |-> F[2 * k + j]]
  <2>1. Total(2, [share \in 0..1 |-> S(share)]) = S(0) + S(1)
    <3> DEFINE h == [share \in 0..1 |-> S(share)]
    <3>1. h \in [0..1 -> Int] /\ h[0] = S(0) /\ h[1] = S(1)
      <4> HIDE DEF S
      <4> QED BY <1>3, <1>5
    <3> HIDE DEF h
    <3> QED BY <3>1, TotalOfFew
  <2>2. S(0) = Total(LaneGroups, even) /\ S(1) = Total(LaneGroups, odd)
    <3>1. \A k \in 0..(LaneGroups - 1) : LaneGroup(0, k) = 2 * k /\ LaneGroup(1, k) = 2 * k + 1
      BY <1>5 DEF LaneGroup
    <3>2. S(0) = Total(LaneGroups, [k \in 0..(LaneGroups - 1) |-> F[LaneGroup(0, k)]])
          /\ S(1) = Total(LaneGroups, [k \in 0..(LaneGroups - 1) |-> F[LaneGroup(1, k)]])
      BY Zenon DEF ShareSum
    <3> HIDE DEF F, S
    <3>3. [k \in 0..(LaneGroups - 1) |-> F[LaneGroup(0, k)]] = even
          /\ [k \in 0..(LaneGroups - 1) |-> F[LaneGroup(1, k)]] = odd
      BY <3>1, Zenon
    <3> QED BY <3>2, <3>3, Zenon
  <2> HIDE DEF F, S
  <2>3. ASSUME NEW k \in 0..(LaneGroups - 1)
        PROVE  /\ even[k] = F[2 * k] /\ odd[k] = F[2 * k + 1]
               /\ even[k] \in Int /\ odd[k] \in Int
               /\ pair(k)[0] = F[2 * k] /\ pair(k)[1] = F[2 * k + 1]
               /\ pair(k) \in [0..1 -> Int]
    <3>1. 2 * k \in 0..(Groups - 1) /\ 2 * k + 1 \in 0..(Groups - 1) /\ 2 * k + 0 = 2 * k
      BY <1>5
    <3>2. F[2 * k] \in Int /\ F[2 * k + 1] \in Int
      BY <1>2, <3>1
    <3>3. \A j \in 0..1 : F[2 * k + j] \in Int
      <4>1. \A j \in 0..1 : j = 0 \/ j = 1
        OBVIOUS
      <4> QED BY <3>1, <3>2, <4>1
    <3> QED BY <3>1, <3>2, <3>3
  <2>4. Total(LaneGroups * 2, F) = Total(LaneGroups, [k \in 0..(LaneGroups - 1) |-> Total(2, pair(k))])
    <3>1. 2 \in Nat /\ 2 - 1 = 1 /\ F \in [0..(LaneGroups * 2 - 1) -> Int] /\ LaneGroups \in Nat
      BY <1>2, <1>5
    <3> QED BY <3>1, TotalInGroups
  <2> DEFINE sum == [k \in 0..(LaneGroups - 1) |-> 1 * even[k] + 1 * odd[k]]
  <2>5. [k \in 0..(LaneGroups - 1) |-> Total(2, pair(k))] = sum
    <3>1. ASSUME NEW k \in 0..(LaneGroups - 1) PROVE Total(2, pair(k)) = 1 * even[k] + 1 * odd[k]
      <4>1. Total(2, pair(k)) = pair(k)[0] + pair(k)[1]
        <5> HIDE DEF pair
        <5> QED BY <2>3, TotalOfFew
      <4> HIDE DEF pair, even, odd
      <4>2. 1 * even[k] = even[k] /\ 1 * odd[k] = odd[k]
        BY <2>3
      <4> QED BY <2>3, <4>1, <4>2
    <3> HIDE DEF pair, even, odd
    <3> QED BY <3>1
  <2>6. Total(LaneGroups, sum) = 1 * Total(LaneGroups, even) + 1 * Total(LaneGroups, odd)
    <3>1. even \in [0..(LaneGroups - 1) -> Int] /\ odd \in [0..(LaneGroups - 1) -> Int]
      <4>1. even = [k \in 0..(LaneGroups - 1) |-> even[k]]
            /\ odd = [k \in 0..(LaneGroups - 1) |-> odd[k]]
        OBVIOUS
      <4> HIDE DEF even, odd
      <4> QED BY <2>3, <4>1
    <3>2. 1 \in Int
      OBVIOUS
    <3> HIDE DEF even, odd
    <3> QED BY <1>5, <3>1, <3>2, TotalLinear
  <2>7. 1 * S(0) + 1 * S(1) = S(0) + S(1)
    BY <1>3, <1>5
  <2>8. 2 - 1 = 1
    OBVIOUS
  <2> HIDE DEF even, odd, pair, sum
  <2> QED BY <1>1, <1>5, <2>1, <2>2, <2>4, <2>5, <2>6, <2>7, <2>8 DEF F
<1>6. lut_per_iter \in LutPerIters
  BY DEF Scanning
<1> QED BY <1>4, <1>5, <1>6, Sizes

(* The planes together are the entries ...                                  *)
LEMMA RawIsEntries ==
  ASSUME NEW quant, NEW codes, Scanning(quant, codes), LanesSuffice, NEW v \in 0..31
  PROVE  AccumulateBlock[v] = Total(Groups, [m \in 0..(Groups - 1) |-> Entry(quant, codes, v, m)])
<1> DEFINE low == EntryBytes(quant, codes, v, 0)
           high == EntryBytes(quant, codes, v, 1)
<1>1. Groups \in Nat
  BY Sizes DEF Scanning
<1>2. low \in [0..(Groups - 1) -> Int]
  BY EntryBytesType DEF Planes
<1>3. high \in [0..(Groups - 1) -> Int]
  BY EntryBytesType DEF Planes
<1>4. AccumulateBlock[v] = PlaneSum(0, v) + ByteRange * PlaneSum(1, v)
  <2>1. AccumulateBlock = [u \in 0..(2 * Half - 1) |-> PlaneSum(0, u) + ByteRange * PlaneSum(1, u)]
    BY TableIs, Zenon DEF AccumulateBlock
  <2>2. v \in 0..(2 * Half - 1)
    BY DEF Half
  <2> QED BY <2>1, <2>2
<1>5. PlaneSum(0, v) = Total(Groups, low)
  BY PlaneSumIsWhole DEF Planes
<1>6. PlaneSum(1, v) = Total(Groups, high)
  BY PlaneSumIsWhole DEF Planes
<1>7. \A m \in 0..(Groups - 1) : low[m] + 256 * high[m] = Entry(quant, codes, v, m)
  <2>1. 0 \in Planes
    BY DEF Planes
  <2> QED BY <2>1, EntryBytesType, Zenon
<1> HIDE DEF low, high
<1>8. PICK one \in Int : one = 1
  OBVIOUS
<1>9. PICK c \in Int : c = 256
  OBVIOUS
<1>10. Total(Groups, [m \in 0..(Groups - 1) |-> one * low[m] + c * high[m]])
         = one * Total(Groups, low) + c * Total(Groups, high)
  BY <1>1, <1>2, <1>3, TotalLinear
<1>11. ASSUME NEW m \in 0..(Groups - 1)
       PROVE  one * low[m] + c * high[m] = Entry(quant, codes, v, m)
  <2>1. low[m] \in Int /\ high[m] \in Int
    BY <1>2, <1>3
  <2>2. one * low[m] = low[m] /\ c * high[m] = 256 * high[m]
    BY <1>8, <1>9, <2>1
  <2> QED BY <1>7, <2>2
<1>12. one * Total(Groups, low) + c * Total(Groups, high) = Total(Groups, low) + 256 * Total(Groups, high)
  <2>1. Total(Groups, low) \in Int
    BY <1>1, <1>2, TotalType
  <2> QED BY <1>8, <1>9, <2>1
<1>13. [m \in 0..(Groups - 1) |-> one * low[m] + c * high[m]]
         = [m \in 0..(Groups - 1) |-> Entry(quant, codes, v, m)]
  BY <1>11
<1>14. ByteRange = 256
  BY Powers
<1> QED BY <1>4, <1>5, <1>6, <1>10, <1>12, <1>13, <1>14

(* The products of a code and the query, a component each.                  *)
Products(code, quant) == [d \in Components |-> code[d] * quant[d]]

(* Products are integers.                                                   *)
LEMMA ProductsType ==
  ASSUME NEW code \in SignCodes, NEW quant \in [Components -> Int]
  PROVE  Products(code, quant) \in [0..(Dim - 1) -> Int]
<1>1. ASSUME NEW d \in Components PROVE code[d] * quant[d] \in Int
  <2>1. code[d] \in Int /\ quant[d] \in Int
    BY DEF SignCodes, Bit
  <2>2. \A x, y \in Int : x * y \in Int
    OBVIOUS
  <2> QED BY <2>1, <2>2
<1> QED BY <1>1 DEF Products, Components

(* Quantised components are integers.                                       *)
LEMMA QuantisedType ==
  ASSUME NEW quant \in Quantised
  PROVE  quant \in [Components -> Int]
<1>1. MaxVal \in Nat
  BY FastScanAssumption
<1>2. \A d \in Components : quant[d] \in Int
  BY <1>1 DEF Quantised
<1>3. quant = [d \in Components |-> quant[d]]
  BY DEF Quantised
<1> QED BY <1>2, <1>3

(* ... and above their least sums, the code's product with the query.       *)
LEMMA ChosenIsProducts ==
  ASSUME NEW quant, NEW codes, Scanning(quant, codes), NEW v \in 0..31, v < Len(codes),
         NEW m \in 0..(Groups - 1)
  PROVE  Chosen(quant, m, BitsOf(Nibble(codes, v, m)))
           = Total(4, [b \in 0..3 |-> Products(codes[v + 1], quant)[4 * m + b]])
<1>1. \A b \in 0..3 : BitsOf(Nibble(codes, v, m))[b] = codes[v + 1][4 * m + b]
  <2>1. v \in Nat
    OBVIOUS
  <2>2. \A b \in 0..3 : (Nibble(codes, v, m) \div 2^(3 - b)) % 2 = codes[v + 1][4 * m + b]
    BY <2>1, NibbleHoldsBits DEF Scanning
  <2>3. \A b \in 0..3 : BitsOf(Nibble(codes, v, m))[b] = (Nibble(codes, v, m) \div 2^(3 - b)) % 2
    BY Zenon DEF BitsOf
  <2> QED BY <2>2, <2>3, Zenon
<1>2. \A b \in 0..3 : 4 * m + b \in Components
  <2>1. lut_per_iter \in LutPerIters /\ quant \in Quantised
    BY DEF Scanning
  <2> QED BY <2>1, GroupOfFour, Zenon
<1>3. \A b \in 0..3 : Products(codes[v + 1], quant)[4 * m + b]
        = codes[v + 1][4 * m + b] * quant[4 * m + b]
  BY <1>2, Zenon DEF Products
<1> QED BY <1>1, <1>3, Zenon DEF Chosen

(* Together: the lane's sum is its code's product with the query.           *)
LEMMA IpRawIsProduct ==
  ASSUME NEW quant, NEW codes, Scanning(quant, codes), LanesSuffice,
         NEW v \in 0..31, v < Len(codes)
  PROVE  AccumulateBlock[v] + SumTo(Groups, LAMBDA m : GroupMin(quant, m))
           = Total(Dim, Products(codes[v + 1], quant))
<1> DEFINE e == [m \in 0..(Groups - 1) |-> Entry(quant, codes, v, m)]
           g == [m \in 0..(Groups - 1) |-> GroupMin(quant, m)]
           P == Products(codes[v + 1], quant)
           four(m) == [b \in 0..3 |-> P[4 * m + b]]
           c == [m \in 0..(Groups - 1) |-> Total(4, four(m))]
<1>1. Groups \in Nat /\ Dim = Groups * 4 /\ lut_per_iter \in LutPerIters /\ quant \in Quantised
      /\ codes \in Seq(SignCodes)
  BY Sizes DEF Scanning
<1>2. AccumulateBlock[v] = Total(Groups, e)
  BY RawIsEntries
<1>3. SumTo(Groups, LAMBDA m : GroupMin(quant, m)) = Total(Groups, g)
  BY Zenon DEF SumTo
<1>4. ASSUME NEW m \in 0..(Groups - 1)
      PROVE  /\ Entry(quant, codes, v, m) \in Int /\ GroupMin(quant, m) \in Int
             /\ Entry(quant, codes, v, m) + GroupMin(quant, m) = Total(4, four(m))
  <2> DEFINE nibble == Nibble(codes, v, m)
  <2>0. nibble \in 0..15 /\ Entry(quant, codes, v, m) \in Nat
    BY EntryType, Zenon
  <2>1. nibble \in 0..15 /\ Entry(quant, codes, v, m) \in Int
    <3> HIDE DEF nibble
    <3> QED BY <2>0
  <2>2. Entry(quant, codes, v, m) = BuildLut16(quant, m, nibble)
    BY DEF Entry
  <2>3. Chosen(quant, m, BitsOf(nibble)) = Total(4, four(m))
    BY ChosenIsProducts
  <2> HIDE DEF nibble, four
  <2>4. GroupMin(quant, m) \in Int
        /\ BuildLut16(quant, m, nibble) + GroupMin(quant, m) = Chosen(quant, m, BitsOf(nibble))
    <3>1. lut_per_iter \in LutPerIters /\ quant \in Quantised /\ nibble \in 0..15
      BY <1>1, <2>1
    <3> QED BY <3>1, EntryIsChosenSum, Zenon
  <2> QED BY <2>1, <2>2, <2>3, <2>4
<1>5. e \in [0..(Groups - 1) -> Int] /\ g \in [0..(Groups - 1) -> Int]
  <2> HIDE DEF four
  <2> QED BY <1>4
<1>6. \A m \in 0..(Groups - 1) : e[m] + g[m] = Total(4, four(m))
  <2> HIDE DEF four
  <2> QED BY <1>4
<1>7. Total(Groups * 4, P) = Total(Groups, c)
  <2>1. codes[v + 1] \in SignCodes
    <3>1. v + 1 \in 1..Len(codes)
      OBVIOUS
    <3> QED BY <1>1, <3>1
  <2>2. P \in [0..(Groups * 4 - 1) -> Int]
    BY <1>1, <2>1, QuantisedType, ProductsType
  <2>3. 4 \in Nat /\ 4 - 1 = 3
    OBVIOUS
  <2> HIDE DEF P
  <2> QED BY <1>1, <2>2, <2>3, TotalInGroups
<1> HIDE DEF e, g, P
<1>8. PICK one \in Int : one = 1
  OBVIOUS
<1>9. Total(Groups, [m \in 0..(Groups - 1) |-> one * e[m] + one * g[m]])
        = one * Total(Groups, e) + one * Total(Groups, g)
  BY <1>1, <1>5, TotalLinear
<1>10. [m \in 0..(Groups - 1) |-> one * e[m] + one * g[m]] = c
  <2>1. ASSUME NEW m \in 0..(Groups - 1) PROVE one * e[m] + one * g[m] = Total(4, four(m))
    <3>1. e[m] \in Int /\ g[m] \in Int
      BY <1>5
    <3>2. one * e[m] = e[m] /\ one * g[m] = g[m]
      BY <1>8, <3>1
    <3> HIDE DEF four
    <3> QED BY <1>6, <3>2
  <2> HIDE DEF four
  <2> QED BY <2>1
<1>11. one * Total(Groups, e) + one * Total(Groups, g) = Total(Groups, e) + Total(Groups, g)
  <2>1. Total(Groups, e) \in Int
    BY <1>1, <1>5, TotalType
  <2>2. Total(Groups, g) \in Int
    BY <1>1, <1>5, TotalType
  <2> QED BY <1>8, <2>1, <2>2
<1> HIDE DEF c
<1> QED BY <1>1, <1>2, <1>3, <1>7, <1>9, <1>10, <1>11 DEF P

(* Half a step off for each component, the sums are as many half steps off. *)
LEMMA ProductsAreClose ==
  ASSUME NEW code \in SignCodes, NEW q \in [Components -> Int],
         NEW quant \in [Components -> Int], NEW step \in Nat,
         \A d \in Components : 2 * (quant[d] * step - MaxVal * q[d]) \in (-step)..step
  PROVE  2 * (Total(Dim, Products(code, quant)) * step
                - MaxVal * Total(Dim, Products(code, q))) \in (-(Dim * step))..(Dim * step)
<1> DEFINE f == Products(code, quant)
           g == Products(code, q)
<1>1. Dim \in Nat /\ MaxVal \in Nat /\ Components = 0..(Dim - 1)
  BY FastScanAssumption DEF Components
<1>2. f \in [0..(Dim - 1) -> Int]
  BY ProductsType
<1>3. g \in [0..(Dim - 1) -> Int]
  BY ProductsType
<1>4. \A d \in 0..(Dim - 1) : f[d] = code[d] * quant[d] /\ g[d] = code[d] * q[d]
  BY <1>1, Zenon DEF Products
<1> HIDE DEF f, g
<1>5. PICK a \in Int : a = 2 * step
  OBVIOUS
<1>6. PICK b \in Int : b = -(2 * MaxVal)
  BY <1>1
<1> DEFINE h == [d \in 0..(Dim - 1) |-> a * f[d] + b * g[d]]
<1>7. Total(Dim, h) = a * Total(Dim, f) + b * Total(Dim, g)
  BY <1>1, <1>2, <1>3, TotalLinear
<1>8. ASSUME NEW d \in 0..(Dim - 1)
      PROVE  a * f[d] + b * g[d] \in Int /\ -step <= a * f[d] + b * g[d]
             /\ a * f[d] + b * g[d] <= step
  <2>1. f[d] \in Int /\ g[d] \in Int /\ quant[d] \in Int /\ q[d] \in Int
        /\ (code[d] = 0 \/ code[d] = 1)
    BY <1>1, <1>2, <1>3 DEF SignCodes, Bit
  <2>2. f[d] = code[d] * quant[d] /\ g[d] = code[d] * q[d]
    BY <1>4
  <2>3. 2 * (quant[d] * step - MaxVal * q[d]) \in (-step)..step
    BY <1>1
  <2>4. CASE code[d] = 0
    <3>1. f[d] = 0 /\ g[d] = 0
      BY <2>1, <2>2, <2>4
    <3>2. a * f[d] + b * g[d] = 0
      BY <3>1
    <3> QED BY <3>2
  <2>5. CASE code[d] = 1
    <3>1. f[d] = quant[d] /\ g[d] = q[d]
      BY <2>1, <2>2, <2>5
    <3>2. PICK x \in Int : x = quant[d]
      BY <2>1
    <3>3. PICK y \in Int : y = q[d]
      BY <2>1
    <3>4. a * x + b * y = 2 * (x * step - MaxVal * y)
      <4>1. a * x = 2 * (x * step) /\ b * y = -(2 * (MaxVal * y))
        BY <1>1, <1>5, <1>6
      <4>2. x * step \in Int /\ MaxVal * y \in Int
        BY <1>1
      <4> QED BY <4>1, <4>2
    <3>5. a * f[d] + b * g[d] = 2 * (x * step - MaxVal * y)
      BY <3>1, <3>2, <3>3, <3>4
    <3>6. 2 * (x * step - MaxVal * y) \in (-step)..step
      BY <2>3, <3>2, <3>3
    <3> QED BY <3>5, <3>6
  <2> QED BY <2>1, <2>4, <2>5
<1>9. h \in [0..(Dim - 1) -> Int] /\ \A d \in 0..(Dim - 1) : -step <= h[d] /\ h[d] <= step
  BY <1>8
<1>10. Dim * (-step) <= Total(Dim, h) /\ Total(Dim, h) <= Dim * step /\ Total(Dim, h) \in Int
  <2>1. -step \in Int /\ step \in Int
    OBVIOUS
  <2> HIDE DEF h
  <2> QED BY <1>1, <1>9, <2>1, TotalBounds, TotalType
<1>11. PICK F \in Int : F = Total(Dim, f)
  BY <1>1, <1>2, TotalType
<1>12. PICK G \in Int : G = Total(Dim, g)
  BY <1>1, <1>3, TotalType
<1>13. a * F + b * G = 2 * (F * step - MaxVal * G)
  <2>1. a * F = 2 * (F * step) /\ b * G = -(2 * (MaxVal * G))
    BY <1>1, <1>5, <1>6
  <2>2. PICK x \in Int : x = F * step
    OBVIOUS
  <2>3. PICK y \in Int : y = MaxVal * G
    BY <1>1
  <2>4. a * F = 2 * x /\ b * G = -(2 * y)
    BY <2>1, <2>2, <2>3
  <2>5. 2 * x + -(2 * y) = 2 * (x - y)
    OBVIOUS
  <2> QED BY ONLY <2>2, <2>3, <2>4, <2>5, Zenon
<1>14. Dim * (-step) = -(Dim * step) /\ Dim * step \in Int
  BY <1>1
<1>15. 2 * (F * step - MaxVal * G) = Total(Dim, h)
  BY <1>7, <1>11, <1>12, <1>13
<1>16. 2 * (F * step - MaxVal * G) \in (-(Dim * step))..(Dim * step)
  <2> DEFINE t == Total(Dim, h)
             z == Dim * step
  <2>1. t \in Int /\ z \in Int /\ -z <= t /\ t <= z
    BY <1>10, <1>14
  <2> HIDE DEF t, z
  <2>2. t \in (-z)..z
    BY <2>1
  <2> QED BY <1>15, <2>2 DEF t, z
<1> QED BY <1>11, <1>12, <1>16 DEF f, g

-----------------------------------------------------------------------------
(* The state.  A prepared query, its table for the build's iterations.      *)
TableFor(n, quant) ==
  [p \in 0..(LutSize - 1) |->
    LET m == (p \div (2 * Half * n)) * n + ((p \div Half) % n)
        high == (p \div (Half * n)) % 2 = 1
    IN BytePlane(BuildLut16(quant, m, p % Half), high)]

QuantisedQuery(q) == QuantizeQuery14BitWithMax(q, MaxAbs(q))

IsPrepared(p, n) ==
  /\ p.query \in RotatedQueries /\ p.norm_qc \in NormsQc
  /\ p.sum_q = SumTo(Dim, LAMBDA d : p.query[d])
  /\ p.vmax = StepOf(MaxAbs(p.query))
  /\ p.fs_shift = SumTo(Groups, LAMBDA m : GroupMin(QuantisedQuery(p.query), m))
  /\ p.lut = TableFor(n, QuantisedQuery(p.query))

CodesOf(vectors) == [i \in DOMAIN vectors |-> EncodeSigns(vectors[i].rotated)]

IsBlock(b) ==
  /\ b.vectors \in VectorBlocks
  /\ b.packed = PackSignBitsForFastScan(CodesOf(b.vectors))

(* The sum a lane stands for, and an estimate.                              *)
OwnIp(p, b, v) == Total(Dim, Products(EncodeSigns(b.vectors[v + 1].rotated), p.query))

Estimate(p, norm, ip, steps) ==
  AtLeast(0, Unit * (norm * norm + p.norm_qc * p.norm_qc)
             - 2 * norm * p.norm_qc * (2 * ip * steps - MaxVal * p.sum_q))

(* What LaneSumsOwnSigns and MasksAreOfOwnDistance say of the variables.    *)
LanesOf(s, p, b) ==
  \A v \in 0..(s.count - 1) :
    /\ 2 * (s.ip_raw[v] * p.vmax - MaxVal * OwnIp(p, b, v)) \in (-(Dim * p.vmax))..(Dim * p.vmax)
    /\ s.ip_raw[v] \in Int
    /\ UnpackSignBitsFromFastScan(b.packed, v) = EncodeSigns(b.vectors[v + 1].rotated)

MasksOf(s, p, b) ==
  \A v \in 0..(s.count - 1) :
    LET norm == b.vectors[v + 1].norm
        exact == Estimate(p, norm, MaxVal * OwnIp(p, b, v), 1)
        rounding == 2 * norm * p.norm_qc * Dim * p.vmax
    IN /\ v \in s.safeout_mask =>
            exact + rounding > Unit * (s.frontier + s.margin * norm)
       /\ v \in s.safein_mask =>
            exact - rounding < Unit * (s.base - s.margin * norm)

FastScanInv ==
  /\ lut_per_iter \in LutPerIters
  /\ prepared = NotEvaluated \/ IsPrepared(prepared, lut_per_iter)
  /\ block = NotEvaluated \/ IsBlock(block)
  /\ stage1 = NotEvaluated
       \/ /\ IsPrepared(prepared, lut_per_iter) /\ IsBlock(block)
          /\ stage1.count = Len(block.vectors)
          /\ LanesOf(stage1, prepared, block) /\ MasksOf(stage1, prepared, block)

(* A block's codes.                                                         *)
LEMMA BlockCodes ==
  ASSUME NEW b, IsBlock(b)
  PROVE  /\ Len(b.vectors) \in 1..32
         /\ CodesOf(b.vectors) \in Seq(SignCodes) /\ Len(CodesOf(b.vectors)) = Len(b.vectors)
         /\ \A v \in 0..(Len(b.vectors) - 1) :
              /\ v \in 0..31
              /\ b.vectors[v + 1].norm \in Nat
              /\ CodesOf(b.vectors)[v + 1] = EncodeSigns(b.vectors[v + 1].rotated)
<1> DEFINE vectors == b.vectors
<1>1. vectors \in Seq([rotated : [0..(Dim - 1) -> Int], norm : Nat]) /\ Len(vectors) \in 1..32
  <2>1. /\ vectors \in Seq([rotated : [0..(Dim - 1) -> Int], norm : Nat])
        /\ Len(vectors) \in 1..(2 * Half)
    BY FastScanAssumption, Zenon DEF IsBlock
  <2>2. 2 * Half = 32
    BY DEF Half
  <2> QED BY <2>1, <2>2
<1> HIDE DEF vectors
<1>2. DOMAIN vectors = 1..Len(vectors)
  BY <1>1
<1>3. CodesOf(vectors) = [i \in 1..Len(vectors) |-> EncodeSigns(vectors[i].rotated)]
  BY <1>2 DEF CodesOf
<1>4. \A i \in 1..Len(vectors) : EncodeSigns(vectors[i].rotated) \in SignCodes
  BY SignsAreBits
<1>5. CodesOf(vectors) \in [1..Len(vectors) -> SignCodes]
  BY <1>3, <1>4
<1>6. Len(vectors) \in Nat
  BY <1>1
<1>7. CodesOf(vectors) \in Seq(SignCodes) /\ Len(CodesOf(vectors)) = Len(vectors)
  <2>1. CodesOf(vectors) \in Seq(SignCodes)
    BY <1>5, <1>6, SeqDef
  <2>2. DOMAIN CodesOf(vectors) = 1..Len(vectors)
    BY <1>3
  <2> QED BY <1>6, <2>1, <2>2, LenProperties
<1>8. ASSUME NEW v \in 0..(Len(vectors) - 1)
      PROVE  v \in 0..31 /\ v + 1 \in 1..Len(vectors) /\ vectors[v + 1].norm \in Nat
  <2>1. v \in 0..31 /\ v + 1 \in 1..Len(vectors)
    <3>1. PICK n \in 1..32 : n = Len(vectors)
      BY <1>1
    <3>2. v \in 0..(n - 1)
      BY <3>1
    <3>3. v \in 0..31 /\ v + 1 \in 1..n
      BY ONLY <3>2, n \in 1..32
    <3> QED BY <3>1, <3>3
  <2>2. vectors[v + 1] \in [rotated : [0..(Dim - 1) -> Int], norm : Nat]
    BY <1>1, <2>1, ElementOfSeq
  <2> QED BY <2>1, <2>2
<1> QED BY <1>1, <1>3, <1>7, <1>8 DEF vectors

(* A prepared query: the numbers are numbers, the table that of the model,  *)
(* and half a step is what a component is off.                              *)
LEMMA PreparedQuery ==
  ASSUME lut_per_iter \in LutPerIters, NEW p, IsPrepared(p, lut_per_iter)
  PROVE  /\ p.query \in [Components -> Int] /\ p.norm_qc \in Nat
         /\ p.sum_q \in Int /\ p.vmax \in Nat
         /\ QuantisedQuery(p.query) \in Quantised
         /\ p.lut = BuildFastScanLUT(QuantisedQuery(p.query))
         /\ \A d \in Components :
              2 * (QuantisedQuery(p.query)[d] * p.vmax - MaxVal * p.query[d])
                \in (-p.vmax)..p.vmax
<1> DEFINE q == p.query
<1>1. q \in [Components -> Int] /\ p.norm_qc \in Nat
  BY FastScanAssumption DEF IsPrepared, Components
<1>2. p.vmax = StepOf(MaxAbs(q)) /\ p.lut = TableFor(lut_per_iter, QuantisedQuery(q))
  BY DEF IsPrepared
<1>3. p.sum_q = Total(Dim, [d \in 0..(Dim - 1) |-> q[d]])
  BY Zenon DEF IsPrepared, SumTo
<1>4. p.lut = BuildFastScanLUT(QuantisedQuery(q))
  <2>1. BuildFastScanLUT(QuantisedQuery(q)) = TableFor(lut_per_iter, QuantisedQuery(q))
    BY TableIs, Zenon DEF BuildFastScanLUT, TableFor
  <2> QED BY <1>2, <2>1
<1> HIDE DEF q
<1>5. [d \in 0..(Dim - 1) |-> q[d]] \in [0..(Dim - 1) -> Int] /\ Dim \in Nat
  BY <1>1, FastScanAssumption DEF Components
<1>6. p.sum_q \in Int
  BY <1>3, <1>5, TotalType
<1>7. /\ MaxAbs(q) \in Nat /\ QuantisedQuery(q) \in Quantised
      /\ \A d \in Components :
           2 * (QuantisedQuery(q)[d] * StepOf(MaxAbs(q)) - MaxVal * q[d])
             \in (-StepOf(MaxAbs(q)))..StepOf(MaxAbs(q))
  BY <1>1, QueryIsQuantised, Zenon DEF QuantisedQuery
<1>8. p.vmax \in Nat
  BY <1>2, <1>7, FastScanAssumption DEF StepOf
<1> QED BY <1>1, <1>2, <1>4, <1>6, <1>7, <1>8, Zenon DEF q

(* The unit of the distances.                                               *)
LEMMA UnitType == Unit \in Int
<1>1. \E r \in 1..Dim : r * r = Dim
  BY FastScanAssumption
<1>2. RootDim \in 1..Dim
  BY <1>1, Zenon DEF RootDim
<1>3. RootDim \in Int /\ MaxVal \in Int
  BY <1>2, FastScanAssumption
<1> QED BY <1>3 DEF Unit

(* Estimates from sums that close are close.                                *)
LEMMA EstimatesAreClose ==
  ASSUME NEW p, p.norm_qc \in Nat, p.sum_q \in Int, NEW norm \in Nat, NEW ip \in Int,
         NEW own \in Int, NEW step \in Nat,
         2 * (ip * step - MaxVal * own) \in (-(Dim * step))..(Dim * step)
  PROVE  /\ Estimate(p, norm, ip, step) \in Int
         /\ Estimate(p, norm, MaxVal * own, 1) \in Int
         /\ 2 * norm * p.norm_qc * Dim * step \in Int
         /\ Estimate(p, norm, ip, step)
              <= Estimate(p, norm, MaxVal * own, 1) + 2 * norm * p.norm_qc * Dim * step
         /\ Estimate(p, norm, ip, step)
              >= Estimate(p, norm, MaxVal * own, 1) - 2 * norm * p.norm_qc * Dim * step
<1>1. PICK c \in Nat : c = p.norm_qc
  OBVIOUS
<1>2. PICK S \in Int : S = MaxVal * p.sum_q
  <2>1. MaxVal \in Int
    BY FastScanAssumption
  <2> QED BY <2>1
<1>3. PICK A \in Int : A = 2 * ip * step
  OBVIOUS
<1>4. PICK B \in Int : B = 2 * (MaxVal * own) * 1
  BY FastScanAssumption
<1>5. PICK k \in Nat : k = 2 * norm * c
  OBVIOUS
<1>6. PICK R \in Int : R = Dim * step
  BY FastScanAssumption
<1>7. PICK U \in Int : U = Unit * (norm * norm + c * c)
  BY UnitType
<1>8. Estimate(p, norm, ip, step) = AtLeast(0, U - k * (A - S))
      /\ Estimate(p, norm, MaxVal * own, 1) = AtLeast(0, U - k * (B - S))
  BY <1>1, <1>2, <1>3, <1>4, <1>5, <1>7, Zenon DEF Estimate
<1>9. 2 * norm * p.norm_qc * Dim * step = k * R
  <2>1. k * Dim * step = k * (Dim * step)
    BY FastScanAssumption
  <2> QED BY <1>1, <1>5, <1>6, <2>1
<1>10. -R <= A - B /\ A - B <= R
  <2>1. PICK x \in Int : x = ip * step
    OBVIOUS
  <2>2. PICK y \in Int : y = MaxVal * own
    BY FastScanAssumption
  <2>3. 2 * (x - y) \in (-R)..R
    BY <1>6, <2>1, <2>2
  <2>4. A = 2 * x /\ B = 2 * y
    BY <1>3, <1>4, <2>1, <2>2
  <2> QED BY <2>3, <2>4
<1>11. PICK z \in Int : z = k * (A - B)
  OBVIOUS
<1>12. PICK r \in Int : r = k * R
  OBVIOUS
<1>13. -r <= z /\ z <= r
  <2>1. \A s, t \in Int : s <= t => k * s <= k * t
    OBVIOUS
  <2>2. k * (-R) = -(k * R)
    OBVIOUS
  <2> QED BY <1>10, <1>11, <1>12, <2>1, <2>2
<1>14. PICK a \in Int : a = k * (A - S)
  OBVIOUS
<1>15. PICK b \in Int : b = k * (B - S)
  OBVIOUS
<1>16. a - b = z
  BY <1>11, <1>14, <1>15
<1>17. /\ AtLeast(0, U - a) \in Int /\ AtLeast(0, U - b) \in Int
       /\ AtLeast(0, U - a) <= AtLeast(0, U - b) + r
       /\ AtLeast(0, U - a) >= AtLeast(0, U - b) - r
  BY <1>13, <1>16 DEF AtLeast
<1> QED BY <1>8, <1>9, <1>12, <1>14, <1>15, <1>17

-----------------------------------------------------------------------------
(* What EvaluateStage1FastScan returns.                                     *)
Lanes == 0..(Len(block.vectors) - 1)
LaneNorms == [v \in Lanes |-> block.vectors[v + 1].norm]
LaneIps == [v \in Lanes |-> AccumulateBlock[v] + prepared.fs_shift]
LaneDists ==
  [v \in Lanes |-> EstimateDistance(LaneNorms[v], LaneIps[v], prepared.vmax)]

Evaluated(frontier, margin, base, enable_safein) ==
  [count |-> Len(block.vectors), frontier |-> frontier, margin |-> margin, base |-> base,
   ip_raw |-> LaneIps,
   safeout_mask |-> FastScanSafeOutMask(LaneDists, LaneNorms, frontier, margin),
   safein_mask |-> IF enable_safein
                   THEN FastScanSafeInMask(LaneDists, LaneNorms, base, margin) ELSE {}]

(* It is what the action leaves in stage1.                                  *)
LEMMA StageIsEvaluated ==
  ASSUME NEW f, NEW m, NEW b, NEW e, EvaluateStage1FastScan(f, m, b, e)
  PROVE  stage1' = Evaluated(f, m, b, e)
BY TableIs, Zenon DEF EvaluateStage1FastScan, Evaluated, Lanes, LaneNorms, LaneIps, LaneDists

(* Its lanes: own sums, estimates of them, and masks of the estimates.      *)
LEMMA LanesAreOwn ==
  ASSUME LanesSuffice, lut_per_iter \in LutPerIters,
         IsPrepared(prepared, lut_per_iter), IsBlock(block), NEW v \in Lanes
  PROVE  /\ LaneIps[v] \in Int /\ OwnIp(prepared, block, v) \in Int
         /\ 2 * (LaneIps[v] * prepared.vmax - MaxVal * OwnIp(prepared, block, v))
              \in (-(Dim * prepared.vmax))..(Dim * prepared.vmax)
         /\ UnpackSignBitsFromFastScan(block.packed, v)
              = EncodeSigns(block.vectors[v + 1].rotated)
<1> DEFINE q == prepared.query
           quant == QuantisedQuery(q)
           codes == CodesOf(block.vectors)
           code == EncodeSigns(block.vectors[v + 1].rotated)
<1>1. /\ q \in [Components -> Int] /\ prepared.vmax \in Nat
      /\ quant \in Quantised /\ prepared.lut = BuildFastScanLUT(quant)
      /\ \A d \in Components :
           2 * (quant[d] * prepared.vmax - MaxVal * q[d]) \in (-prepared.vmax)..prepared.vmax
  BY PreparedQuery, Zenon
<1>2. /\ codes \in Seq(SignCodes) /\ Len(codes) = Len(block.vectors)
      /\ v \in 0..31 /\ codes[v + 1] = code /\ Len(block.vectors) \in 1..32
  BY BlockCodes, Zenon DEF Lanes
<1>3. block.packed = PackSignBitsForFastScan(codes)
  BY DEF IsBlock
<1>4. prepared.fs_shift = SumTo(Groups, LAMBDA m : GroupMin(quant, m))
  BY Zenon DEF IsPrepared
<1>5. code \in SignCodes
  BY SignsAreBits
<1> HIDE DEF quant, codes, code, q
<1>6. Scanning(quant, codes)
  BY <1>1, <1>2, <1>3 DEF Scanning
<1>7. v < Len(codes)
  <2>1. PICK n \in 1..32 : n = Len(block.vectors)
    BY <1>2
  <2> QED BY <1>2, <2>1 DEF Lanes
<1>8. LaneIps[v] = Total(Dim, Products(code, quant))
  <2>1. LaneIps[v] = AccumulateBlock[v] + prepared.fs_shift
    BY DEF LaneIps
  <2>2. AccumulateBlock[v] + SumTo(Groups, LAMBDA m : GroupMin(quant, m))
          = Total(Dim, Products(codes[v + 1], quant))
    BY <1>2, <1>6, <1>7, IpRawIsProduct
  <2> QED BY <1>2, <1>4, <2>1, <2>2, Zenon
<1>9. quant \in [Components -> Int]
  BY <1>1, QuantisedType
<1>10. OwnIp(prepared, block, v) = Total(Dim, Products(code, q))
  BY Zenon DEF OwnIp, q, code
<1>11. Dim \in Nat
  BY FastScanAssumption
<1>12. Products(code, quant) \in [0..(Dim - 1) -> Int]
  BY <1>5, <1>9, ProductsType
<1>13. Products(code, q) \in [0..(Dim - 1) -> Int]
  BY <1>1, <1>5, ProductsType
<1>14. LaneIps[v] \in Int
  BY <1>8, <1>11, <1>12, TotalType
<1>15. OwnIp(prepared, block, v) \in Int
  BY <1>10, <1>11, <1>13, TotalType
<1>16. 2 * (LaneIps[v] * prepared.vmax - MaxVal * OwnIp(prepared, block, v))
         \in (-(Dim * prepared.vmax))..(Dim * prepared.vmax)
  BY <1>1, <1>5, <1>8, <1>9, <1>10, ProductsAreClose, Zenon
<1>17. UnpackSignBitsFromFastScan(PackSignBitsForFastScan(codes), v) = codes[v + 1]
  BY <1>2, <1>7, UnpackedIsPacked
<1> QED BY <1>2, <1>3, <1>14, <1>15, <1>16, <1>17 DEF code

(* What LaneSumsOwnSigns says holds of what is evaluated ...                *)
LEMMA EvaluatedLanes ==
  ASSUME LanesSuffice, lut_per_iter \in LutPerIters,
         IsPrepared(prepared, lut_per_iter), IsBlock(block),
         NEW f, NEW m, NEW b, NEW e
  PROVE  LanesOf(Evaluated(f, m, b, e), prepared, block)
<1>1. Evaluated(f, m, b, e).count = Len(block.vectors)
      /\ Evaluated(f, m, b, e).ip_raw = LaneIps
  BY DEF Evaluated
<1>2. \A v \in Lanes :
        /\ 2 * (LaneIps[v] * prepared.vmax - MaxVal * OwnIp(prepared, block, v))
             \in (-(Dim * prepared.vmax))..(Dim * prepared.vmax)
        /\ LaneIps[v] \in Int
        /\ UnpackSignBitsFromFastScan(block.packed, v)
             = EncodeSigns(block.vectors[v + 1].rotated)
  BY LanesAreOwn, Zenon
<1> QED BY <1>1, <1>2, Zenon DEF LanesOf, Lanes

(* ... and what MasksAreOfOwnDistance says.                                 *)
LEMMA EvaluatedMasks ==
  ASSUME LanesSuffice, lut_per_iter \in LutPerIters,
         IsPrepared(prepared, lut_per_iter), IsBlock(block),
         NEW f \in Int, NEW m \in Int, NEW b \in Int, NEW e \in BOOLEAN
  PROVE  MasksOf(Evaluated(f, m, b, e), prepared, block)
<1> DEFINE s == Evaluated(f, m, b, e)
<1>1. /\ s.count = Len(block.vectors) /\ s.frontier = f /\ s.margin = m /\ s.base = b
      /\ s.safeout_mask = FastScanSafeOutMask(LaneDists, LaneNorms, f, m)
      /\ s.safein_mask = IF e THEN FastScanSafeInMask(LaneDists, LaneNorms, b, m) ELSE {}
  BY DEF Evaluated
<1> HIDE DEF s
<1>2. ASSUME NEW v \in Lanes
      PROVE  LET norm == block.vectors[v + 1].norm
                 exact == Estimate(prepared, norm, MaxVal * OwnIp(prepared, block, v), 1)
                 rounding == 2 * norm * prepared.norm_qc * Dim * prepared.vmax
             IN /\ v \in s.safeout_mask => exact + rounding > Unit * (f + m * norm)
                /\ v \in s.safein_mask => exact - rounding < Unit * (b - m * norm)
  <2> DEFINE norm == block.vectors[v + 1].norm
             dist == Estimate(prepared, norm, LaneIps[v], prepared.vmax)
             exact == Estimate(prepared, norm, MaxVal * OwnIp(prepared, block, v), 1)
             rounding == 2 * norm * prepared.norm_qc * Dim * prepared.vmax
             own == OwnIp(prepared, block, v)
  <2>1. LaneIps[v] \in Int /\ own \in Int
        /\ 2 * (LaneIps[v] * prepared.vmax - MaxVal * own)
             \in (-(Dim * prepared.vmax))..(Dim * prepared.vmax)
    BY LanesAreOwn, Zenon
  <2>2. norm \in Nat
    BY BlockCodes, Zenon DEF Lanes
  <2>3. prepared.norm_qc \in Nat /\ prepared.sum_q \in Int /\ prepared.vmax \in Nat
    BY PreparedQuery, Zenon
  <2>4. /\ dist \in Int /\ exact \in Int /\ rounding \in Int
        /\ dist <= exact + rounding /\ dist >= exact - rounding
    <3> HIDE DEF norm, own
    <3> QED BY <2>1, <2>2, <2>3, EstimatesAreClose, Zenon DEF own
  <2>5. LaneNorms[v] = norm /\ LaneDists[v] = dist
        /\ DOMAIN LaneDists = Lanes
    <3>1. LaneNorms[v] = norm
      BY DEF LaneNorms
    <3>2. LaneDists[v] = EstimateDistance(LaneNorms[v], LaneIps[v], prepared.vmax)
          /\ DOMAIN LaneDists = Lanes
      BY DEF LaneDists
    <3> HIDE DEF norm
    <3> QED BY <3>1, <3>2, Zenon DEF EstimateDistance, Estimate
  <2> DEFINE far == Unit * (f + m * norm)
             near == Unit * (b - m * norm)
  <2>6. far \in Int /\ near \in Int
    <3>1. PICK x \in Int : x = m * norm
      BY <2>2
    <3>2. PICK y \in Int : y = Unit
      BY UnitType
    <3>3. y * (f + x) \in Int /\ y * (b - x) \in Int
      OBVIOUS
    <3> HIDE DEF norm
    <3> QED BY <3>1, <3>2, <3>3
  <2>7. v \in s.safeout_mask => dist > far
    <3> HIDE DEF dist, norm
    <3> QED BY <1>1, <2>5, Zenon DEF FastScanSafeOutMask
  <2>8. v \in s.safein_mask => dist < near
    <3> HIDE DEF dist, norm
    <3> QED BY <1>1, <2>5, Zenon DEF FastScanSafeInMask
  <2> HIDE DEF dist, exact, rounding, far, near, norm, own
  <2>9. (v \in s.safeout_mask => exact + rounding > far)
        /\ (v \in s.safein_mask => exact - rounding < near)
    BY <2>4, <2>6, <2>7, <2>8
  <2> QED BY <2>9 DEF exact, rounding, far, near, norm
<1> QED BY <1>1, <1>2, Zenon DEF MasksOf, Lanes, s

(* Nothing evaluated says nothing of a lane.                                *)
LEMMA NoLanes == LanesOf(NotEvaluated, prepared, block) /\ MasksOf(NotEvaluated, prepared, block)
<1>1. 0..(NotEvaluated.count - 1) = {}
  BY DEF NotEvaluated
<1> QED BY <1>1, Zenon DEF LanesOf, MasksOf

(* Nothing is there at first.                                               *)
LEMMA FastScanInitially == FastScanInit => FastScanInv
BY DEF FastScanInit, FastScanInv

(* A query is prepared from one of the queries; nothing is evaluated of it. *)
LEMMA PrepareKeeps ==
  ASSUME FastScanInv, NEW q \in RotatedQueries, NEW n \in NormsQc, PrepareQuery(q, n)
  PROVE  FastScanInv'
<1> DEFINE quant == QuantizeQuery14BitWithMax(q, MaxAbs(q))
           p == [query |-> q, norm_qc |-> n, sum_q |-> SumTo(Dim, LAMBDA d : q[d]),
                 vmax |-> IF MaxAbs(q) = 0 THEN MaxVal ELSE MaxAbs(q),
                 fs_shift |-> SumTo(Groups, LAMBDA m : GroupMin(quant, m)),
                 lut |-> BuildFastScanLUT(quant)]
<1>1. prepared' = p /\ stage1' = NotEvaluated /\ lut_per_iter' = lut_per_iter /\ block' = block
  BY Zenon DEF PrepareQuery
<1>2. IsPrepared(p, lut_per_iter)
  <2>1. BuildFastScanLUT(quant) = TableFor(lut_per_iter, QuantisedQuery(q))
    BY TableIs, Zenon DEF BuildFastScanLUT, TableFor, QuantisedQuery
  <2>2. p.query = q /\ p.norm_qc = n /\ p.vmax = StepOf(MaxAbs(q))
        /\ p.lut = BuildFastScanLUT(quant)
    BY Zenon DEF StepOf
  <2>3. p.sum_q = SumTo(Dim, LAMBDA d : p.query[d])
    <3>1. [d \in 0..(Dim - 1) |-> p.query[d]] = [d \in 0..(Dim - 1) |-> q[d]]
      OBVIOUS
    <3>2. p.sum_q = Total(Dim, [d \in 0..(Dim - 1) |-> q[d]])
      BY Zenon DEF SumTo
    <3> HIDE DEF p
    <3> QED BY <3>1, <3>2, Zenon DEF SumTo
  <2>4. p.fs_shift = SumTo(Groups, LAMBDA m : GroupMin(QuantisedQuery(p.query), m))
    <3>1. QuantisedQuery(p.query) = quant
      BY <2>2, Zenon DEF QuantisedQuery
    <3>2. p.fs_shift = Total(Groups, [m \in 0..(Groups - 1) |-> GroupMin(quant, m)])
      BY Zenon DEF SumTo
    <3> HIDE DEF p, quant
    <3> QED BY <3>1, <3>2, Zenon DEF SumTo
  <2> HIDE DEF p
  <2> QED BY <2>1, <2>2, <2>3, <2>4, Zenon DEF IsPrepared
<1>3. IsPrepared(prepared', lut_per_iter')
  <2> HIDE DEF p
  <2> QED BY <1>1, <1>2, Zenon
<1>4. lut_per_iter' \in LutPerIters /\ (block' = NotEvaluated \/ IsBlock(block'))
  BY <1>1, Zenon DEF FastScanInv
<1> QED BY <1>1, <1>3, <1>4, Zenon DEF FastScanInv

(* A block is packed from one of the blocks; nothing is evaluated of it.    *)
LEMMA LoadKeeps ==
  ASSUME FastScanInv, NEW b \in VectorBlocks, LoadBlock(b)
  PROVE  FastScanInv'
<1> DEFINE packed == PackSignBitsForFastScan(CodesOf(b))
           new == [vectors |-> b, packed |-> packed]
<1>1. block' = new /\ stage1' = NotEvaluated /\ lut_per_iter' = lut_per_iter
      /\ prepared' = prepared
  <2>1. Table([i \in DOMAIN b |-> EncodeSigns(b[i].rotated)]) = CodesOf(b)
    BY TableIs, Zenon DEF CodesOf
  <2> QED BY <2>1, Zenon DEF LoadBlock
<1>2. IsBlock(new)
  <2>1. new.vectors = b /\ new.packed = packed
    OBVIOUS
  <2> HIDE DEF new
  <2> QED BY <2>1, Zenon DEF IsBlock
<1>3. IsBlock(block')
  <2> HIDE DEF new
  <2> QED BY <1>1, <1>2, Zenon
<1>4. lut_per_iter' \in LutPerIters
      /\ (prepared' = NotEvaluated \/ IsPrepared(prepared', lut_per_iter'))
  BY <1>1, Zenon DEF FastScanInv
<1> QED BY <1>1, <1>3, <1>4, Zenon DEF FastScanInv

(* What is evaluated is of the query and the block that are there.          *)
LEMMA EvaluateKeeps ==
  ASSUME LanesSuffice, FastScanInv, NEW f \in Frontiers, NEW m \in Margins,
         NEW b \in SafeInBases, NEW e \in BOOLEAN, EvaluateStage1FastScan(f, m, b, e)
  PROVE  FastScanInv'
<1>1. lut_per_iter' = lut_per_iter /\ prepared' = prepared /\ block' = block
      /\ prepared # NotEvaluated /\ block # NotEvaluated
  BY Zenon DEF EvaluateStage1FastScan
<1>2. stage1' = Evaluated(f, m, b, e)
  BY StageIsEvaluated
<1>3. lut_per_iter \in LutPerIters /\ IsPrepared(prepared, lut_per_iter) /\ IsBlock(block)
  BY <1>1, Zenon DEF FastScanInv
<1>4. f \in Int /\ m \in Int /\ b \in Int
  BY FastScanAssumption
<1>5. LanesOf(stage1', prepared', block')
  BY <1>1, <1>2, <1>3, EvaluatedLanes, Zenon
<1>6. MasksOf(stage1', prepared', block')
  BY <1>1, <1>2, <1>3, <1>4, EvaluatedMasks, Zenon
<1>7. stage1'.count = Len(block'.vectors)
  <2>1. Evaluated(f, m, b, e).count = Len(block.vectors)
    BY DEF Evaluated
  <2> QED BY <1>1, <1>2, <2>1, Zenon
<1>8. lut_per_iter' \in LutPerIters /\ IsPrepared(prepared', lut_per_iter') /\ IsBlock(block')
  BY <1>1, <1>3, Zenon
<1> QED BY <1>5, <1>6, <1>7, <1>8, Zenon DEF FastScanInv

(* FastScanInv is inductive.                                                *)
LEMMA FastScanStepKeeps ==
  ASSUME LanesSuffice, FastScanInv, [FastScanNext]_fastScanVars
  PROVE  FastScanInv'
<1>1. CASE UNCHANGED fastScanVars
  BY <1>1, Zenon DEF FastScanInv, fastScanVars
<1>2. CASE FastScanNext
  BY <1>2, PrepareKeeps, LoadKeeps, EvaluateKeeps, Zenon DEF FastScanNext
<1> QED BY <1>1, <1>2

(* The state the first stage is in, on every build and for every dimension  *)
(* whose groups' bytes fit a lane (LanesSuffice): what is evaluated is      *)
(* evaluated of the prepared query and the block that are there.            *)
THEOREM FastScanInvariant ==
  ASSUME LanesSuffice
  PROVE  FastScanSpec => []FastScanInv
<1>1. FastScanInit => FastScanInv
  BY FastScanInitially
<1>2. FastScanInv /\ [FastScanNext]_fastScanVars => FastScanInv'
  BY FastScanStepKeeps
<1> QED BY <1>1, <1>2, PTL DEF FastScanSpec

(* The sum of the query's components where the vector is not negative.      *)
LEMMA OwnIpIsExact ==
  ASSUME lut_per_iter \in LutPerIters, IsPrepared(prepared, lut_per_iter), NEW v
  PROVE  OwnIp(prepared, block, v) = ExactIp(v)
<1> DEFINE q == prepared.query
           rotated == block.vectors[v + 1].rotated
           code == EncodeSigns(rotated)
<1>1. q \in [Components -> Int] /\ Components = 0..(Dim - 1)
  BY PreparedQuery, Zenon DEF Components
<1>2. ASSUME NEW d \in Components
      PROVE  code[d] * q[d] = IF rotated[d] >= 0 THEN q[d] ELSE 0
  <2>1. q[d] \in Int
    <3> HIDE DEF q
    <3> QED BY <1>1
  <2>2. code[d] = IF rotated[d] >= 0 THEN 1 ELSE 0
    BY SignsAreBits, Zenon
  <2>3. 1 * q[d] = q[d] /\ 0 * q[d] = 0
    BY <2>1
  <2> HIDE DEF q, rotated, code
  <2> QED BY <2>2, <2>3, Zenon
<1>3. Products(code, q) = [d \in 0..(Dim - 1) |-> IF rotated[d] >= 0 THEN q[d] ELSE 0]
  <2> HIDE DEF q, rotated, code
  <2> QED BY <1>1, <1>2, Zenon DEF Products
<1>4. ExactIp(v) = Total(Dim, [d \in 0..(Dim - 1) |-> IF rotated[d] >= 0 THEN q[d] ELSE 0])
  BY Zenon DEF ExactIp, SumTo
<1>5. OwnIp(prepared, block, v) = Total(Dim, Products(code, q))
  BY Zenon DEF OwnIp
<1> HIDE DEF q, rotated, code
<1> QED BY <1>3, <1>4, <1>5, Zenon

(* FastScanInv says what the two invariants the runs check say.             *)
LEMMA InvariantGivesLanes ==
  FastScanInv => LaneSumsOwnSigns
<1> SUFFICES ASSUME FastScanInv, NEW v \in 0..(stage1.count - 1)
             PROVE  /\ 2 * Magnitude(stage1.ip_raw[v] * prepared.vmax - MaxVal * ExactIp(v))
                         <= Dim * prepared.vmax
                    /\ UnpackSignBitsFromFastScan(block.packed, v)
                         = EncodeSigns(block.vectors[v + 1].rotated)
  BY Zenon DEF LaneSumsOwnSigns
<1>1. stage1 # NotEvaluated
  BY DEF NotEvaluated
<1>2. lut_per_iter \in LutPerIters /\ IsPrepared(prepared, lut_per_iter) /\ IsBlock(block)
      /\ stage1.count = Len(block.vectors) /\ LanesOf(stage1, prepared, block)
  BY <1>1, Zenon DEF FastScanInv
<1>3. OwnIp(prepared, block, v) = ExactIp(v)
  BY <1>2, OwnIpIsExact
<1>4. /\ 2 * (stage1.ip_raw[v] * prepared.vmax - MaxVal * ExactIp(v))
           \in (-(Dim * prepared.vmax))..(Dim * prepared.vmax)
      /\ stage1.ip_raw[v] \in Int
      /\ UnpackSignBitsFromFastScan(block.packed, v)
           = EncodeSigns(block.vectors[v + 1].rotated)
  BY <1>2, <1>3, Zenon DEF LanesOf
<1>5. PICK x \in Int : x = stage1.ip_raw[v] * prepared.vmax
  <2>1. prepared.vmax \in Int
    BY <1>2, PreparedQuery
  <2> QED BY <1>4, <2>1
<1>6. PICK y \in Int : y = MaxVal * ExactIp(v)
  <2>1. ExactIp(v) \in Int
    <3>1. prepared.query \in [Components -> Int]
      BY <1>2, PreparedQuery, Zenon
    <3>2. EncodeSigns(block.vectors[v + 1].rotated) \in SignCodes
      BY SignsAreBits, Zenon
    <3>3. Products(EncodeSigns(block.vectors[v + 1].rotated), prepared.query)
            \in [0..(Dim - 1) -> Int]
      BY <3>1, <3>2, ProductsType, Zenon
    <3>4. Dim \in Nat
      BY FastScanAssumption
    <3> QED BY <1>3, <3>3, <3>4, TotalType, Zenon DEF OwnIp
  <2>2. MaxVal \in Int
    BY FastScanAssumption
  <2> QED BY <2>1, <2>2
<1>7. PICK r \in Int : r = Dim * prepared.vmax
  <2>1. prepared.vmax \in Int /\ Dim \in Int
    BY <1>2, PreparedQuery, FastScanAssumption
  <2> QED BY <2>1
<1>8. 2 * Magnitude(x - y) <= r
  BY <1>4, <1>5, <1>6, <1>7 DEF Magnitude
<1> QED BY <1>4, <1>5, <1>6, <1>7, <1>8

(* ... and of the masks.                                                    *)
LEMMA InvariantGivesMasks ==
  FastScanInv => MasksAreOfOwnDistance
<1> SUFFICES ASSUME FastScanInv, NEW v \in 0..(stage1.count - 1)
             PROVE  LET norm == block.vectors[v + 1].norm
                        exact == EstimateDistance(norm, MaxVal * ExactIp(v), 1)
                        rounding == 2 * norm * prepared.norm_qc * Dim * prepared.vmax
                    IN /\ v \in stage1.safeout_mask =>
                            exact + rounding > Unit * (stage1.frontier + stage1.margin * norm)
                       /\ v \in stage1.safein_mask =>
                            exact - rounding < Unit * (stage1.base - stage1.margin * norm)
  BY Zenon DEF MasksAreOfOwnDistance
<1>1. stage1 # NotEvaluated
  BY DEF NotEvaluated
<1>2. lut_per_iter \in LutPerIters /\ IsPrepared(prepared, lut_per_iter) /\ IsBlock(block)
      /\ MasksOf(stage1, prepared, block)
  BY <1>1, Zenon DEF FastScanInv
<1>3. OwnIp(prepared, block, v) = ExactIp(v)
  BY <1>2, OwnIpIsExact
<1> QED BY <1>2, <1>3, Zenon DEF MasksOf, EstimateDistance, Estimate

(* Every lane sums its own vector's signs, at most half a quantisation step *)
(* for each component off, and unpacks to the code that was packed.         *)
THEOREM LanesSumOwnSigns ==
  ASSUME LanesSuffice
  PROVE  FastScanSpec => []LaneSumsOwnSigns
BY FastScanInvariant, InvariantGivesLanes, PTL

(* A lane is dropped or accepted by its own vector's estimate.              *)
THEOREM MasksFollowOwnDistance ==
  ASSUME LanesSuffice
  PROVE  FastScanSpec => []MasksAreOfOwnDistance
BY FastScanInvariant, InvariantGivesMasks, PTL
-----------------------------------------------------------------------------
(* Rotation: linear algebra over the integers. *)

(* A component is the inner product with a basis vector.                    *)
LEMMA InnerBasis ==
  ASSUME NEW n \in Nat, NEW k \in 0..(n - 1), NEW v \in Vec(n)
  PROVE  /\ Basis(n, k) \in Vec(n)
         /\ Inner(Basis(n, k), v) = v[k] /\ Inner(v, Basis(n, k)) = v[k]
<1> DEFINE e == Basis(n, k)
           f == [i \in 0..(n - 1) |-> v[i] * e[i]]
<1>1. e \in Vec(n) /\ \A i \in 0..(n - 1) : e[i] = IF k = i THEN 1 ELSE 0
  BY DEF Basis, Vec
<1>2. Inner(v, e) = Total(n, f) /\ f \in Vec(n)
  BY <1>1, InnerIs
<1>3. f[k] = v[k] /\ \A i \in 0..(n - 1) : i # k => f[i] = 0
  <2>1. \A i \in 0..(n - 1) : v[i] \in Int
    BY DEF Vec
  <2>2. \A i \in 0..(n - 1) : f[i] = v[i] * e[i]
    OBVIOUS
  <2> HIDE DEF f, e
  <2>3. \A x \in Int : x * 0 = 0 /\ x * 1 = x
    OBVIOUS
  <2> QED BY <1>1, <2>1, <2>2, <2>3
<1> HIDE DEF f, e
<1>4. Total(n, f) = f[k]
  BY <1>2, <1>3, TotalOfOne DEF Vec
<1>5. Inner(e, v) = Inner(v, e)
  BY <1>1, InnerCommutes
<1> QED BY <1>1, <1>2, <1>3, <1>4, <1>5 DEF e

(* What a scaled isometry says of the basis vectors, of its matrix and of   *)
(* the way back.                                                            *)
LEMMA IsometryGives ==
  ASSUME NEW n \in Nat, NEW T, NEW S, NEW s, ScaledIsometry(T, S, s, n)
  PROVE  /\ \A i, j \in 0..(n - 1) :
              Inner(T[Basis(n, i)], T[Basis(n, j)]) = IF i = j THEN s ELSE 0
         /\ \A v \in Vec(n) : S[T[v]] = [i \in 0..(n - 1) |-> s * v[i]]
         /\ \A v \in Vec(n) : S[v] =
              [i \in 0..(n - 1) |->
                 Total(n, [j \in 0..(n - 1) |-> T[Basis(n, i)][j] * v[j]])]
         /\ \A v \in Vec(n) : T[v] =
              [j \in 0..(n - 1) |->
                 Total(n, [i \in 0..(n - 1) |-> T[Basis(n, i)][j] * v[i]])]
<1>0. /\ \A v \in Vec(n) : T[v] \in Vec(n) /\ S[v] \in Vec(n)
      /\ s \in Int
      /\ \A u, v \in Vec(n) : Inner(T[u], v) = Inner(u, S[v])
      /\ \A u, v \in Vec(n) : Inner(T[u], T[v]) = s * Inner(u, v)
  BY DEF ScaledIsometry
<1>1. \A i \in 0..(n - 1) : Basis(n, i) \in Vec(n) /\ T[Basis(n, i)] \in Vec(n)
  <2> TAKE i \in 0..(n - 1)
  <2>1. [j \in 0..(n - 1) |-> 0] \in Vec(n)
    BY DEF Vec
  <2>2. Basis(n, i) \in Vec(n)
    BY <2>1, InnerBasis
  <2> QED BY <1>0, <2>2
<1>2. ASSUME NEW i \in 0..(n - 1), NEW j \in 0..(n - 1)
      PROVE  Inner(T[Basis(n, i)], T[Basis(n, j)]) = IF i = j THEN s ELSE 0
  <2>1. Inner(Basis(n, i), Basis(n, j)) = Basis(n, j)[i]
    BY <1>1, InnerBasis
  <2>2. Basis(n, j)[i] = IF j = i THEN 1 ELSE 0
    BY DEF Basis
  <2>3. s * 1 = s /\ s * 0 = 0
    BY <1>0
  <2>4. Inner(T[Basis(n, i)], T[Basis(n, j)]) = s * Inner(Basis(n, i), Basis(n, j))
    BY <1>0, <1>1
  <2> QED BY <2>1, <2>2, <2>3, <2>4
<1>3. ASSUME NEW v \in Vec(n), NEW i \in 0..(n - 1)
      PROVE  /\ S[v][i] = Inner(T[Basis(n, i)], v)
             /\ S[T[v]][i] = s * v[i]
  <2>1. S[v] \in Vec(n) /\ T[v] \in Vec(n) /\ S[T[v]] \in Vec(n)
    BY <1>0
  <2>2. S[v][i] = Inner(Basis(n, i), S[v])
    BY <2>1, InnerBasis
  <2>3. S[T[v]][i] = Inner(Basis(n, i), S[T[v]])
    BY <2>1, InnerBasis
  <2>4. Inner(Basis(n, i), S[T[v]]) = Inner(T[Basis(n, i)], T[v])
    BY <1>0, <1>1, <2>1
  <2>5. Inner(T[Basis(n, i)], T[v]) = s * Inner(Basis(n, i), v)
    BY <1>0, <1>1
  <2>6. Inner(Basis(n, i), v) = v[i]
    BY InnerBasis
  <2> QED BY <1>0, <1>1, <2>2, <2>3, <2>4, <2>5, <2>6
<1>4. ASSUME NEW v \in Vec(n)
      PROVE  S[v] = [i \in 0..(n - 1) |->
                 Total(n, [j \in 0..(n - 1) |-> T[Basis(n, i)][j] * v[j]])]
  <2>1. ASSUME NEW i \in 0..(n - 1)
        PROVE  S[v][i] = Total(n, [j \in 0..(n - 1) |-> T[Basis(n, i)][j] * v[j]])
    <3>1. Inner(T[Basis(n, i)], v) = Total(n, [j \in 0..(n - 1) |-> T[Basis(n, i)][j] * v[j]])
      BY <1>1, InnerIs
    <3> QED BY <1>3, <3>1
  <2>2. S[v] \in [0..(n - 1) -> Int]
    BY <1>0 DEF Vec
  <2> QED BY <2>1, <2>2
<1>5. ASSUME NEW v \in Vec(n) PROVE S[T[v]] = [i \in 0..(n - 1) |-> s * v[i]]
  <2>1. S[T[v]] \in [0..(n - 1) -> Int]
    BY <1>0 DEF Vec
  <2> QED BY <1>3, <2>1
<1>6. ASSUME NEW v \in Vec(n)
      PROVE  T[v] = [j \in 0..(n - 1) |->
                 Total(n, [i \in 0..(n - 1) |-> T[Basis(n, i)][j] * v[i]])]
  <2>1. ASSUME NEW j \in 0..(n - 1)
        PROVE  T[v][j] = Total(n, [i \in 0..(n - 1) |-> T[Basis(n, i)][j] * v[i]])
    <3> DEFINE e == Basis(n, j)
               r == S[e]
    <3>1. e \in Vec(n) /\ r \in Vec(n) /\ T[v] \in Vec(n)
      BY <1>0, <1>1
    <3>2. T[v][j] = Inner(T[v], e)
      BY <3>1, InnerBasis
    <3>3. Inner(T[v], e) = Inner(v, r) /\ Inner(v, r) = Inner(r, v)
      BY <1>0, <3>1, InnerCommutes
    <3>4. Inner(r, v) = Total(n, [i \in 0..(n - 1) |-> r[i] * v[i]])
      BY <3>1, InnerIs
    <3>5. ASSUME NEW i \in 0..(n - 1) PROVE r[i] = T[Basis(n, i)][j]
      <4>1. r[i] = Inner(T[Basis(n, i)], e)
        BY <1>3, <3>1
      <4>2. Inner(T[Basis(n, i)], e) = T[Basis(n, i)][j]
        BY <1>1, InnerBasis
      <4> QED BY <4>1, <4>2
    <3> HIDE DEF r, e
    <3>6. [i \in 0..(n - 1) |-> r[i] * v[i]]
            = [i \in 0..(n - 1) |-> T[Basis(n, i)][j] * v[i]]
      BY <3>5
    <3> QED BY <3>2, <3>3, <3>4, <3>6
  <2>2. T[v] \in [0..(n - 1) -> Int]
    BY <1>0 DEF Vec
  <2> QED BY <2>1, <2>2
<1> QED BY <1>2, <1>4, <1>5, <1>6

(* A matrix whose rows are orthogonal and equally long, with its transpose. *)
LEMMA MatrixIsometry ==
  ASSUME NEW n \in Nat, NEW s \in Int, NEW M \in [0..(n - 1) -> Vec(n)],
         \A i, k \in 0..(n - 1) : Inner(M[i], M[k]) = IF i = k THEN s ELSE 0
  PROVE  ScaledIsometry(
           [v \in Vec(n) |-> [j \in 0..(n - 1) |->
              Total(n, [i \in 0..(n - 1) |-> M[i][j] * v[i]])]],
           [v \in Vec(n) |-> [i \in 0..(n - 1) |->
              Total(n, [j \in 0..(n - 1) |-> M[i][j] * v[j]])]], s, n)
<1> DEFINE down(v, j) == [i \in 0..(n - 1) |-> M[i][j] * v[i]]
           along(v, i) == [j \in 0..(n - 1) |-> M[i][j] * v[j]]
           T == [v \in Vec(n) |-> [j \in 0..(n - 1) |-> Total(n, down(v, j))]]
           S == [v \in Vec(n) |-> [i \in 0..(n - 1) |-> Total(n, along(v, i))]]
<1>0. \A i \in 0..(n - 1) : M[i] \in Vec(n) /\ \A j \in 0..(n - 1) : M[i][j] \in Int
  BY DEF Vec
<1>1. ASSUME NEW v \in Vec(n), NEW j \in 0..(n - 1)
      PROVE  down(v, j) \in Vec(n) /\ along(v, j) \in Vec(n)
  <2>1. \A i \in 0..(n - 1) : v[i] \in Int
    BY DEF Vec
  <2>2. \A x, y \in Int : x * y \in Int
    OBVIOUS
  <2>3. \A i \in 0..(n - 1) : M[i][j] * v[i] \in Int /\ M[j][i] * v[i] \in Int
    BY <1>0, <2>1, <2>2
  <2> QED BY <2>3 DEF Vec
<1>2. ASSUME NEW v \in Vec(n)
      PROVE  /\ T[v] \in Vec(n) /\ S[v] \in Vec(n)
             /\ \A i \in 0..(n - 1) : S[v][i] = Inner(M[i], v)
             /\ \A j \in 0..(n - 1) : T[v][j] = Total(n, down(v, j))
  <2>1. T[v] = [j \in 0..(n - 1) |-> Total(n, down(v, j))]
        /\ S[v] = [j \in 0..(n - 1) |-> Total(n, along(v, j))]
    <3> HIDE DEF down, along
    <3> QED OBVIOUS
  <2>2. \A j \in 0..(n - 1) : Total(n, down(v, j)) \in Int /\ Total(n, along(v, j)) \in Int
    <3> HIDE DEF down, along
    <3> QED BY <1>1, TotalType DEF Vec
  <2>3. \A i \in 0..(n - 1) : Inner(M[i], v) = Total(n, along(v, i))
    BY <1>0, InnerIs
  <2> HIDE DEF T, S, down, along
  <2> QED BY <2>1, <2>2, <2>3 DEF Vec
<1>3. ASSUME NEW u \in Vec(n), NEW v \in Vec(n) PROVE Inner(T[u], v) = Inner(u, S[v])
  <2> DEFINE N == [j \in 0..(n - 1) |-> [i \in 0..(n - 1) |-> (M[i][j] * u[i]) * v[j]]]
             byColumn == [j \in 0..(n - 1) |-> Total(n, N[j])]
             column(i) == [j \in 0..(n - 1) |-> N[j][i]]
             byRow == [i \in 0..(n - 1) |-> Total(n, column(i))]
  <2>0. \A i \in 0..(n - 1) : u[i] \in Int /\ v[i] \in Int
    BY DEF Vec
  <2>1. ASSUME NEW i \in 0..(n - 1), NEW j \in 0..(n - 1)
        PROVE  /\ (M[i][j] * u[i]) * v[j] \in Int
               /\ (M[i][j] * u[i]) * v[j] = v[j] * (M[i][j] * u[i])
               /\ (M[i][j] * u[i]) * v[j] = u[i] * (M[i][j] * v[j])
    <3>1. PICK a \in Int, b \in Int, c \in Int : a = M[i][j] /\ b = u[i] /\ c = v[j]
      BY <1>0, <2>0
    <3>2. (a * b) * c \in Int /\ (a * b) * c = c * (a * b) /\ (a * b) * c = b * (a * c)
      OBVIOUS
    <3> QED BY <3>1, <3>2
  <2>2. N \in [0..(n - 1) -> [0..(n - 1) -> Int]]
    BY <2>1
  <2>3. Total(n, byColumn) = Total(n, byRow)
    <3> HIDE DEF N
    <3> QED BY <2>2, TotalSwap
  <2>4. ASSUME NEW j \in 0..(n - 1) PROVE T[u][j] * v[j] = byColumn[j]
    <3>1. N[j] = [i \in 0..(n - 1) |-> v[j] * down(u, j)[i]]
      <4>1. \A i \in 0..(n - 1) : down(u, j)[i] = M[i][j] * u[i]
        OBVIOUS
      <4>2. N[j] = [i \in 0..(n - 1) |-> (M[i][j] * u[i]) * v[j]]
        OBVIOUS
      <4> HIDE DEF N, down
      <4> QED BY <2>1, <4>1, <4>2
    <3>2. byColumn[j] = Total(n, N[j])
      <4> HIDE DEF N
      <4> QED OBVIOUS
    <3>3. down(u, j) \in Vec(n) /\ v[j] \in Int
      BY <1>1, <2>0
    <3>4. T[u][j] = Total(n, down(u, j))
      BY <1>2
    <3> HIDE DEF N, byColumn, down, T
    <3>5. Total(n, [i \in 0..(n - 1) |-> v[j] * down(u, j)[i]]) = v[j] * Total(n, down(u, j))
      BY <3>3, TotalTimes
    <3>6. PICK t \in Int, c \in Int : t = Total(n, down(u, j)) /\ c = v[j]
      BY <3>3, TotalType DEF Vec
    <3>7. t * c = c * t
      OBVIOUS
    <3> QED BY <3>1, <3>2, <3>4, <3>5, <3>6, <3>7
  <2>5. ASSUME NEW i \in 0..(n - 1) PROVE u[i] * S[v][i] = byRow[i]
    <3>1. column(i) = [j \in 0..(n - 1) |-> u[i] * along(v, i)[j]]
      <4>1. \A j \in 0..(n - 1) : along(v, i)[j] = M[i][j] * v[j]
        OBVIOUS
      <4>2. \A j \in 0..(n - 1) : N[j][i] = (M[i][j] * u[i]) * v[j]
        OBVIOUS
      <4> HIDE DEF N, along
      <4> QED BY <2>1, <4>1, <4>2
    <3>2. byRow[i] = Total(n, column(i))
      <4> HIDE DEF column
      <4> QED OBVIOUS
    <3>3. along(v, i) \in Vec(n) /\ u[i] \in Int
      BY <1>1, <2>0
    <3>4. S[v][i] = Inner(M[i], v) /\ Inner(M[i], v) = Total(n, along(v, i))
      BY <1>0, <1>2, InnerIs
    <3> HIDE DEF N, byRow, column, along, S
    <3>5. Total(n, [j \in 0..(n - 1) |-> u[i] * along(v, i)[j]]) = u[i] * Total(n, along(v, i))
      BY <3>3, TotalTimes
    <3> QED BY <3>1, <3>2, <3>4, <3>5
  <2>6. Inner(T[u], v) = Total(n, [j \in 0..(n - 1) |-> T[u][j] * v[j]])
        /\ Inner(u, S[v]) = Total(n, [i \in 0..(n - 1) |-> u[i] * S[v][i]])
    <3>1. T[u] \in Vec(n) /\ S[v] \in Vec(n)
      BY <1>2
    <3> HIDE DEF T, S
    <3> QED BY <3>1, InnerIs
  <2>7. byColumn = [j \in 0..(n - 1) |-> byColumn[j]] /\ byRow = [i \in 0..(n - 1) |-> byRow[i]]
    <3> HIDE DEF N, column
    <3> QED OBVIOUS
  <2> HIDE DEF T, S, N, byColumn, byRow
  <2>8. byColumn = [j \in 0..(n - 1) |-> T[u][j] * v[j]]
        /\ byRow = [i \in 0..(n - 1) |-> u[i] * S[v][i]]
    BY <2>4, <2>5, <2>7
  <2> QED BY <2>3, <2>6, <2>8
<1>4. ASSUME NEW v \in Vec(n) PROVE S[T[v]] = [i \in 0..(n - 1) |-> s * v[i]]
  <2>1. ASSUME NEW i \in 0..(n - 1) PROVE S[T[v]][i] = s * v[i]
    <3> DEFINE e == Basis(n, i)
    <3>1. M[i] \in Vec(n) /\ T[v] \in Vec(n) /\ S[M[i]] \in Vec(n) /\ e \in Vec(n)
      BY <1>0, <1>2, InnerBasis
    <3>2. S[T[v]][i] = Inner(M[i], T[v]) /\ Inner(M[i], T[v]) = Inner(T[v], M[i])
      <4>1. \A u \in Vec(n) : S[u][i] = Inner(M[i], u)
        BY <1>2
      <4>2. Inner(M[i], T[v]) = Inner(T[v], M[i])
        BY <3>1, InnerCommutes
      <4> HIDE DEF S, T
      <4> QED BY <3>1, <4>1, <4>2
    <3>3. Inner(T[v], M[i]) = Inner(v, S[M[i]])
      BY <1>3, <3>1
    <3>4. ASSUME NEW k \in 0..(n - 1) PROVE S[M[i]][k] = s * e[k]
      <4>1. S[M[i]][k] = Inner(M[k], M[i])
        BY <1>2, <3>1
      <4>2. e[k] = IF i = k THEN 1 ELSE 0
        BY DEF Basis
      <4>3. s * 1 = s /\ s * 0 = 0
        OBVIOUS
      <4> HIDE DEF e, S
      <4> QED BY <4>1, <4>2, <4>3
    <3>5. S[M[i]] = [k \in 0..(n - 1) |-> s * e[k]]
      <4>1. S[M[i]] \in [0..(n - 1) -> Int]
        <5> HIDE DEF S, T, e
        <5> QED BY <3>1 DEF Vec
      <4> HIDE DEF S, T, e
      <4>2. \A k \in 0..(n - 1) : S[M[i]][k] = s * e[k]
        BY <3>4
      <4>3. \A f \in [0..(n - 1) -> Int] : f = [k \in 0..(n - 1) |-> f[k]]
        OBVIOUS
      <4> QED BY <4>1, <4>2, <4>3
    <3>6. Inner(v, [k \in 0..(n - 1) |-> s * e[k]]) = s * Inner(v, e)
      BY <3>1, InnerScales
    <3>7. Inner(v, e) = v[i]
      BY InnerBasis
    <3> HIDE DEF S, T, e
    <3> QED BY <3>2, <3>3, <3>5, <3>6, <3>7
  <2>0. T[v] \in Vec(n)
    BY <1>2
  <2>2. S[T[v]] \in Vec(n)
    BY <1>2, <2>0
  <2> HIDE DEF S, T
  <2>3. S[T[v]] \in [0..(n - 1) -> Int]
    BY <2>2 DEF Vec
  <2>4. \A f \in [0..(n - 1) -> Int] : f = [k \in 0..(n - 1) |-> f[k]]
    OBVIOUS
  <2> QED BY <2>1, <2>3, <2>4
<1>5. ASSUME NEW u \in Vec(n), NEW v \in Vec(n) PROVE Inner(T[u], T[v]) = s * Inner(u, v)
  <2>1. T[v] \in Vec(n)
    BY <1>2
  <2> HIDE DEF T, S
  <2>2. Inner(T[u], T[v]) = Inner(u, S[T[v]])
    BY <1>3, <2>1
  <2>3. S[T[v]] = [i \in 0..(n - 1) |-> s * v[i]]
    BY <1>4
  <2>4. Inner(u, [i \in 0..(n - 1) |-> s * v[i]]) = s * Inner(u, v)
    BY InnerScales
  <2> QED BY <2>2, <2>3, <2>4
<1>6. T \in [Vec(n) -> Vec(n)] /\ S \in [Vec(n) -> Vec(n)]
  <2>1. T = [v \in Vec(n) |-> T[v]] /\ S = [v \in Vec(n) |-> S[v]]
    <3> HIDE DEF down, along
    <3> QED OBVIOUS
  <2> HIDE DEF T, S, down, along
  <2>2. \A v \in Vec(n) : T[v] \in Vec(n) /\ S[v] \in Vec(n)
    BY <1>2
  <2> QED BY <2>1, <2>2
<1> HIDE DEF T, S
<1>7. ScaledIsometry(T, S, s, n)
  BY <1>3, <1>5, <1>6 DEF ScaledIsometry
<1> QED BY <1>7 DEF T, S, down, along

-----------------------------------------------------------------------------
(* The Hadamard matrix, whose signs are parities of common bits. *)

(* The sign OddPopcount stands for.                                         *)
W(i, j) == IF OddPopcount(i, j) THEN -1 ELSE 1

(* Zero has no bits in common with anything.                                *)
LEMMA WalshZero == W(0, 0) = 1
<1>1. \A k \in 0..0 : (0 \div 2^k) % 2 # 1
  <2>1. 2^0 = 1 /\ 0 \div 1 = 0 /\ 0 % 2 # 1
    OBVIOUS
  <2>2. \A k \in 0..0 : k = 0
    OBVIOUS
  <2> QED BY <2>1, <2>2
<1>2. Common(0, 0) = {}
  BY <1>1, Zenon DEF Common
<1>3. Cardinality(Common(0, 0)) = 0
  BY <1>2, FS_EmptySet
<1>4. 0 % 2 = 0
  OBVIOUS
<1> QED BY <1>3, <1>4 DEF W, OddPopcount, Common

(* One more bit turns the sign where both have it.                          *)
LEMMA WalshStep ==
  ASSUME NEW m \in Nat, NEW a \in 0..(2^m - 1), NEW b \in 0..(2^m - 1),
         NEW p \in 0..1, NEW q \in 0..1
  PROVE  W(a + p * 2^m, b + q * 2^m) = W(a, b) * (IF p = 1 /\ q = 1 THEN -1 ELSE 1)
<1> DEFINE x == a + p * 2^m
           y == b + q * 2^m
<1>0. 2^m \in Nat /\ a \in Nat /\ b \in Nat /\ x \in Nat /\ y \in Nat
  BY PowersOfTwo
<1>1. Common(a, b) = {k \in Nat : BitOf(a, k) = 1 /\ BitOf(b, k) = 1}
  <2>1. ASSUME NEW k \in Nat, BitOf(a, k) = 1 PROVE k \in 0..a
    <3>0. TopBit(a, a, 0, m)
      BY <1>0 DEF TopBit
    <3>1. k < a
      BY <2>1, <3>0, Bits
    <3> QED BY <1>0, <3>1
  <2>2. \A k \in 0..a : k \in Nat
    BY <1>0
  <2> QED BY <2>1, <2>2 DEF Common, BitOf
<1>2. Common(x, y) = {k \in Nat : BitOf(x, k) = 1 /\ BitOf(y, k) = 1}
  <2>1. ASSUME NEW k \in Nat, BitOf(x, k) = 1 PROVE k \in 0..x
    <3>0. TopBit(x, a, p, m)
      BY DEF TopBit
    <3> HIDE DEF x
    <3>1. k < x
      BY <2>1, <3>0, Bits
    <3> QED BY <1>0, <3>1
  <2>2. \A k \in 0..x : k \in Nat
    BY <1>0
  <2> HIDE DEF x, y
  <2> QED BY <2>1, <2>2 DEF Common, BitOf
<1>3. /\ \A k \in Nat : BitOf(x, k) = 1 => k <= m
      /\ \A k \in Nat : BitOf(a, k) = 1 => k < m
      /\ \A k \in 0..(m - 1) : BitOf(x, k) = BitOf(a, k)
      /\ BitOf(x, m) = p
  <2>1. TopBit(x, a, p, m)
    BY DEF TopBit
  <2> HIDE DEF x
  <2>2. \A k \in Nat : BitOf(x, k) = 1 => k <= m
    BY <2>1, Bits
  <2>3. \A k \in Nat : BitOf(a, k) = 1 => k < m
    BY <2>1, Bits
  <2>4. \A k \in 0..(m - 1) : BitOf(x, k) = BitOf(a, k)
    BY <2>1, Bits
  <2>5. BitOf(x, m) = p
    BY <2>1, Bits
  <2> QED BY <2>2, <2>3, <2>4, <2>5
<1>5. /\ \A k \in 0..(m - 1) : BitOf(y, k) = BitOf(b, k)
      /\ BitOf(y, m) = q
  <2>1. TopBit(y, b, q, m)
    BY DEF TopBit
  <2> HIDE DEF y
  <2>2. \A k \in 0..(m - 1) : BitOf(y, k) = BitOf(b, k)
    BY <2>1, Bits
  <2>3. BitOf(y, m) = q
    BY <2>1, Bits
  <2> QED BY <2>2, <2>3
<1>7. Common(x, y) = Common(a, b) \cup (IF p = 1 /\ q = 1 THEN {m} ELSE {})
  <2> HIDE DEF x, y
  <2>1. ASSUME NEW k \in Nat
        PROVE  k \in Common(x, y) <=> k \in Common(a, b) \/ (k = m /\ p = 1 /\ q = 1)
    <3>1. CASE k < m
      <4>1. k \in 0..(m - 1) /\ k # m
        BY <3>1
      <4> QED BY <1>1, <1>2, <1>3, <1>5, <4>1
    <3>2. CASE k = m
      BY <1>1, <1>2, <1>3, <1>5, <3>2
    <3>3. CASE k > m
      <4>1. ~(k <= m) /\ ~(k < m) /\ k # m
        BY <3>3
      <4> QED BY <1>1, <1>2, <1>3, <4>1
    <3> QED BY <3>1, <3>2, <3>3
  <2>2. Common(x, y) \subseteq Nat /\ Common(a, b) \subseteq Nat
    BY <1>1, <1>2
  <2> QED BY <2>1, <2>2
<1>8. m \notin Common(a, b)
  BY <1>1, <1>3
<1>9. IsFiniteSet(Common(a, b)) /\ Cardinality(Common(a, b)) \in Nat
  <2>1. IsFiniteSet(0..a)
    BY <1>0, FS_Interval
  <2>2. Common(a, b) \in SUBSET (0..a)
    BY DEF Common
  <2> QED BY <2>1, <2>2, FS_Subset, FS_CardinalityType
<1>10. Cardinality(Common(x, y)) = Cardinality(Common(a, b)) + (IF p = 1 /\ q = 1 THEN 1 ELSE 0)
  <2> HIDE DEF x, y
  <2>1. CASE p = 1 /\ q = 1
    BY <1>7, <1>8, <1>9, <2>1, FS_AddElement
  <2>2. CASE ~(p = 1 /\ q = 1)
    <3>1. Common(x, y) = Common(a, b)
      BY <1>7, <2>2
    <3> QED BY <1>9, <2>2, <3>1
  <2> QED BY <2>1, <2>2
<1>11. PICK n \in Nat : n = Cardinality(Common(a, b))
  BY <1>9
<1>12. (n + 1) % 2 = 1 <=> ~(n % 2 = 1)
  OBVIOUS
<1>13. OddPopcount(a, b) <=> n % 2 = 1
  BY <1>11 DEF OddPopcount, Common
<1>14. OddPopcount(x, y) <=> (n + (IF p = 1 /\ q = 1 THEN 1 ELSE 0)) % 2 = 1
  <2> HIDE DEF x, y
  <2> QED BY <1>10, <1>11 DEF OddPopcount, Common
<1> HIDE DEF x, y
<1>15. W(x, y) = W(a, b) * (IF p = 1 /\ q = 1 THEN -1 ELSE 1)
  <2>1. CASE p = 1 /\ q = 1
    BY <1>12, <1>13, <1>14, <2>1 DEF W
  <2>2. CASE ~(p = 1 /\ q = 1)
    <3>1. n + 0 = n
      OBVIOUS
    <3> QED BY <1>13, <1>14, <2>2, <3>1 DEF W
  <2> QED BY <2>1, <2>2
<1> QED BY <1>15 DEF x, y

(* WalshStep, of numbers taken apart so.                                    *)
LEMMA WalshTop ==
  ASSUME NEW m \in Nat, NEW a, NEW p, NEW x, TopBit(x, a, p, m),
         NEW b, NEW q, NEW y, TopBit(y, b, q, m)
  PROVE  W(x, y) = W(a, b) * (IF p = 1 /\ q = 1 THEN -1 ELSE 1)
<1>1. /\ a \in 0..(2^m - 1) /\ p \in 0..1 /\ x = a + p * 2^m
      /\ b \in 0..(2^m - 1) /\ q \in 0..1 /\ y = b + q * 2^m
  BY DEF TopBit
<1>2. W(a + p * 2^m, b + q * 2^m) = W(a, b) * (IF p = 1 /\ q = 1 THEN -1 ELSE 1)
  BY <1>1, WalshStep
<1> QED BY <1>1, <1>2

(* It is a sign ...                                                         *)
LEMMA WalshType == \A i, j : W(i, j) \in {-1, 1} /\ W(i, j) \in Int
  BY DEF W

(* ... and symmetric.                                                       *)
LEMMA WalshSymmetric ==
  ASSUME NEW i \in Nat, NEW j \in Nat
  PROVE  W(i, j) = W(j, i)
<1>1. ASSUME NEW x \in Nat, NEW k \in Nat, BitOf(x, k) = 1 PROVE k \in 0..x
  <2>1. TopBit(x, x, 0, x)
    <3>1. x < 2^x /\ 2^x \in Nat
      BY PowersGrow, PowersOfTwo
    <3>2. PICK w \in Nat : w = 2^x
      BY <3>1
    <3>3. x \in 0..(w - 1) /\ 0 \in 0..1 /\ x = x + 0 * w
      BY <3>1, <3>2
    <3> QED BY <3>2, <3>3 DEF TopBit
  <2>2. k < x
    BY <1>1, <2>1, Bits
  <2> QED BY <2>2
<1>2. Common(i, j) = {k \in Nat : BitOf(i, k) = 1 /\ BitOf(j, k) = 1}
  <2>1. \A k \in 0..i : k \in Nat
    OBVIOUS
  <2> QED BY <1>1, <2>1 DEF Common, BitOf
<1>3. Common(j, i) = {k \in Nat : BitOf(j, k) = 1 /\ BitOf(i, k) = 1}
  <2>1. \A k \in 0..j : k \in Nat
    OBVIOUS
  <2> QED BY <1>1, <2>1 DEF Common, BitOf
<1>4. Common(i, j) = Common(j, i)
  BY <1>2, <1>3
<1> QED BY <1>4 DEF W, OddPopcount, Common

(* Two rows of the Hadamard matrix.                                         *)
LEMMA WalshOrthogonal ==
  ASSUME NEW m \in Nat, NEW i \in 0..(2^m - 1), NEW k \in 0..(2^m - 1)
  PROVE  Total(2^m, [j \in 0..(2^m - 1) |-> W(i, j) * W(k, j)]) = IF i = k THEN 2^m ELSE 0
<1> DEFINE row(n, x, y) == [j \in 0..(2^n - 1) |-> W(x, j) * W(y, j)]
           Good(n) == \A x, y \in 0..(2^n - 1) :
                        Total(2^n, row(n, x, y)) = IF x = y THEN 2^n ELSE 0
           S == {n \in Nat : Good(n)}
<1>1. 0 \in S
  <2>1. 2^0 = 1
    OBVIOUS
  <2>2. row(0, 0, 0) = [j \in 0..0 |-> 1]
    <3>1. \A j \in 0..0 : W(0, j) * W(0, j) = 1
      BY WalshZero
    <3> QED BY <2>1, <3>1
  <2>3. Total(1, [j \in 0..0 |-> 1]) = 1
    <3> DEFINE one == [j \in 0..0 |-> 1]
    <3>1. 0 \in 0..(1 - 1) /\ one \in [0..(1 - 1) -> Int]
          /\ (\A j \in 0..(1 - 1) : j # 0 => one[j] = 0) /\ one[0] = 1
      OBVIOUS
    <3> HIDE DEF one
    <3>2. Total(1, one) = one[0]
      BY <3>1, TotalOfOne
    <3> QED BY <3>1, <3>2 DEF one
  <2>4. \A x \in 0..(2^0 - 1) : x = 0
    BY <2>1
  <2> HIDE DEF row
  <2>5. Good(0)
    BY <2>1, <2>2, <2>3, <2>4
  <2> QED BY <2>5
<1>2. ASSUME NEW n \in Nat, n \in S PROVE n + 1 \in S
  <2>1. PICK h \in Nat \ {0} : h = 2^n /\ 2^(n + 1) = 2 * h
    BY PowersOfTwo
  <2>2. ASSUME NEW x \in 0..(2^(n + 1) - 1), NEW y \in 0..(2^(n + 1) - 1)
        PROVE  Total(2^(n + 1), row(n + 1, x, y)) = IF x = y THEN 2^(n + 1) ELSE 0
    <3>1. PICK a, p : TopBit(x, a, p, n)
      BY TopBits
    <3>2. PICK b, q : TopBit(y, b, q, n)
      BY TopBits
    <3>3. /\ a \in 0..(h - 1) /\ p \in 0..1 /\ x = a + p * h
          /\ b \in 0..(h - 1) /\ q \in 0..1 /\ y = b + q * h
      BY <2>1, <3>1, <3>2 DEF TopBit
    <3> DEFINE f == row(n + 1, x, y)
               g == row(n, a, b)
    <3>4. ASSUME NEW j \in 0..(h - 1)
          PROVE  /\ f[j] = g[j] /\ g[j] \in Int
                 /\ f[h + j] = IF p = q THEN g[j] ELSE -g[j]
      <4>1. TopBit(j, j, 0, n) /\ TopBit(h + j, j, 1, n)
        BY <2>1 DEF TopBit
      <4>2. W(x, j) = W(a, j) * (IF p = 1 /\ 0 = 1 THEN -1 ELSE 1)
        BY <3>1, <4>1, WalshTop
      <4>3. W(y, j) = W(b, j) * (IF q = 1 /\ 0 = 1 THEN -1 ELSE 1)
        BY <3>2, <4>1, WalshTop
      <4>4. W(x, h + j) = W(a, j) * (IF p = 1 /\ 1 = 1 THEN -1 ELSE 1)
        BY <3>1, <4>1, WalshTop
      <4>5. W(y, h + j) = W(b, j) * (IF q = 1 /\ 1 = 1 THEN -1 ELSE 1)
        BY <3>2, <4>1, WalshTop
      <4>6. j \in 0..(2^(n + 1) - 1) /\ h + j \in 0..(2^(n + 1) - 1) /\ j \in 0..(2^n - 1)
        BY <2>1
      <4>7. f[j] = W(x, j) * W(y, j) /\ f[h + j] = W(x, h + j) * W(y, h + j)
            /\ g[j] = W(a, j) * W(b, j)
        BY <4>6
      <4>8. PICK s \in {-1, 1}, t \in {-1, 1} : s = W(a, j) /\ t = W(b, j)
        BY WalshType
      <4> HIDE DEF f, g
      <4> QED BY <3>3, <4>2, <4>3, <4>4, <4>5, <4>7, <4>8
    <3>5. f \in [0..(2 * h - 1) -> Int] /\ g \in [0..(h - 1) -> Int]
      <4>1. \A u, v, j : W(u, j) * W(v, j) \in Int
        BY WalshType
      <4> QED BY <2>1, <4>1
    <3>6. Total(2 * h, f) = Total(h, [j \in 0..(h - 1) |-> f[j] + f[h + j]])
      <4> HIDE DEF f, g
      <4> QED BY <2>1, <3>5, TotalOfHalves
    <3>7. Total(h, g) = IF a = b THEN h ELSE 0
      <4>1. Total(2^n, row(n, a, b)) = IF a = b THEN 2^n ELSE 0
        <5> HIDE DEF row, f
        <5> QED BY <1>2, <2>1, <3>3
      <4> QED BY <2>1, <4>1
    <3> HIDE DEF f, g
    <3> DEFINE c == IF p = q THEN 2 ELSE 0
    <3>8. [j \in 0..(h - 1) |-> f[j] + f[h + j]] = [j \in 0..(h - 1) |-> c * g[j]]
      <4>1. ASSUME NEW j \in 0..(h - 1) PROVE f[j] + f[h + j] = c * g[j]
        <5>1. PICK z \in Int : z = g[j]
          BY <3>4
        <5>2. z + z = 2 * z /\ z + (-z) = 0 * z
          OBVIOUS
        <5> QED BY <3>4, <5>1, <5>2
      <4> QED BY <4>1
    <3>9. Total(h, [j \in 0..(h - 1) |-> c * g[j]]) = c * Total(h, g)
      <4>1. c \in Int
        OBVIOUS
      <4> HIDE DEF c
      <4> QED BY <2>1, <3>5, <4>1, TotalTimes DEF Vec
    <3>10. Total(2 * h, f) = IF x = y THEN 2 * h ELSE 0
      <4>1. x = y <=> (a = b /\ p = q)
        <5>1. p = 0 \/ p = 1
          BY <3>3
        <5>2. q = 0 \/ q = 1
          BY <3>3
        <5> QED BY <2>1, <3>3, <5>1, <5>2
      <4> QED BY <3>6, <3>7, <3>8, <3>9, <4>1
    <3> QED BY <2>1, <3>10 DEF f
  <2> HIDE DEF row
  <2>3. Good(n + 1)
    BY <2>2
  <2> QED BY <2>3
<1> HIDE DEF Good
<1>3. \A n \in Nat : n \in S
  <2> HIDE DEF S
  <2> QED BY <1>1, <1>2, SubsetInduction
<1>4. Good(m)
  BY <1>3
<1> QED BY <1>4 DEF Good

-----------------------------------------------------------------------------
(* The fast Walsh-Hadamard transform computes it. *)

(* What the first levels have made of a window: sums over its parts of      *)
(* length 2^k, with the signs of a Hadamard matrix of that size.            *)
Level(u, v, start, k, m) ==
  \A G \in Nat, a \in 0..(2^k - 1) :
    (G + 1) * 2^k <= 2^m =>
      u[start + G * 2^k + a] =
        Total(2^k, [j \in 0..(2^k - 1) |-> W(a, j) * v[start + G * 2^k + j]])

(* A pair at distance 2^k lies within the window.                           *)
LEMMA WindowParts ==
  ASSUME NEW m \in Nat, NEW k \in 0..(m - 1), NEW x \in 0..(2^m - 1)
  PROVE  /\ x % (2 * 2^k) \in 0..(2 * 2^k - 1)
         /\ x % (2 * 2^k) < 2^k => x + 2^k < 2^m
         /\ ~(x % (2 * 2^k) < 2^k) => 2^k <= x
<1>1. PICK d \in Nat : m = (k + 1) + d
  <2>1. m - (k + 1) \in Nat /\ m = (k + 1) + (m - (k + 1))
    OBVIOUS
  <2> QED BY <2>1
<1>2. PICK c \in Nat \ {0}, e \in Nat, w \in Nat : c = 2^k /\ e = 2^d /\ w = 2^m /\ w = (2 * c) * e
  <2>1. k \in Nat /\ k + 1 \in Nat
    OBVIOUS
  <2>2. 2^m = 2^(k + 1) * 2^d
    BY <1>1, <2>1, PowersMultiply
  <2>3. 2^(k + 1) = 2 * 2^k
    BY <2>1, PowersOfTwo
  <2>4. 2^k \in Nat \ {0} /\ 2^d \in Nat /\ 2^m \in Nat
    BY <2>1, PowersOfTwo
  <2> QED BY <2>2, <2>3, <2>4
<1>3. 2 * c \in Nat \ {0} /\ x \in Nat /\ x < w
  BY <1>2
<1>4. PICK q \in Nat, r \in 0..(2 * c - 1) : x = (2 * c) * q + r /\ x % (2 * c) = r
  BY <1>3, QuotientOfNat
<1>5. q < e
  <2>1. ASSUME q >= e PROVE FALSE
    <3>1. PICK f \in Nat : q = e + f
      <4>1. q - e \in Nat /\ q = e + (q - e)
        BY <2>1
      <4> QED BY <4>1
    <3>2. (2 * c) * q = (2 * c) * e + (2 * c) * f
      BY <3>1
    <3>3. PICK g \in Nat : g = (2 * c) * f
      BY <1>3
    <3> QED BY <1>2, <1>3, <1>4, <3>2, <3>3
  <2> QED BY <2>1
<1>6. PICK f \in Nat : e = q + 1 + f
  <2>1. e - q - 1 \in Nat /\ e = q + 1 + (e - q - 1)
    BY <1>5
  <2> QED BY <2>1
<1>7. w = (2 * c) * q + 2 * c + (2 * c) * f
  BY <1>2, <1>6
<1>8. PICK g \in Nat, h \in Nat : g = (2 * c) * f /\ h = (2 * c) * q
  BY <1>3
<1>9. r < c => x + c < w
  BY <1>4, <1>7, <1>8
<1>10. ~(r < c) => c <= x
  BY <1>4, <1>8
<1> QED BY <1>2, <1>4, <1>9, <1>10

(* One level, component by component; it leaves the rest alone.             *)
LEMMA ButterfliesType ==
  ASSUME NEW n \in Nat, NEW start \in Nat, NEW m \in Nat, NEW k \in 0..(m - 1),
         start + 2^m <= n, NEW u \in Vec(n)
  PROVE  /\ Butterflies(u, start, 2^m, 2^k) \in Vec(n)
         /\ \A i \in 0..(n - 1) : Butterflies(u, start, 2^m, 2^k)[i] =
              IF i < start \/ i >= start + 2^m THEN u[i]
              ELSE IF (i - start) % (2 * 2^k) < 2^k THEN u[i] + u[i + 2^k]
              ELSE u[i - 2^k] - u[i]
         /\ \A i \in 0..(n - 1) : ~(i \in start..(start + 2^m - 1)) =>
              Butterflies(u, start, 2^m, 2^k)[i] = u[i]
<1> DEFINE B(i) == IF i < start \/ i >= start + 2^m THEN u[i]
                   ELSE IF (i - start) % (2 * 2^k) < 2^k THEN u[i] + u[i + 2^k]
                   ELSE u[i - 2^k] - u[i]
           t == Butterflies(u, start, 2^m, 2^k)
<1>1. t = [i \in 0..(n - 1) |-> B(i)]
  <2>1. DOMAIN u = 0..(n - 1)
    BY DEF Vec
  <2> QED BY <2>1, TableIs DEF Butterflies
<1>2. PICK w \in Nat, c \in Nat : w = 2^m /\ c = 2^k
  BY PowersOfTwo
<1>3. ASSUME NEW i \in 0..(n - 1) PROVE B(i) \in Int
  <2>1. \A j \in 0..(n - 1) : u[j] \in Int
    BY DEF Vec
  <2>2. CASE i < start \/ i >= start + 2^m
    BY <2>1, <2>2
  <2>3. CASE ~(i < start \/ i >= start + 2^m)
    <3> DEFINE x == i - start
    <3>1. x \in 0..(2^m - 1) /\ x + start = i
      BY <1>2, <2>3
    <3> HIDE DEF x
    <3>2. x % (2 * 2^k) < 2^k => x + 2^k < 2^m
      BY <3>1, WindowParts
    <3>3. ~(x % (2 * 2^k) < 2^k) => 2^k <= x
      BY <3>1, WindowParts
    <3>4. x % (2 * 2^k) < 2^k => i + 2^k \in 0..(n - 1)
      BY <1>2, <3>1, <3>2
    <3>5. ~(x % (2 * 2^k) < 2^k) => i - 2^k \in 0..(n - 1)
      BY <1>2, <3>1, <3>3
    <3>6. B(i) = IF x % (2 * 2^k) < 2^k THEN u[i] + u[i + 2^k] ELSE u[i - 2^k] - u[i]
      BY <2>3 DEF x
    <3> QED BY <2>1, <3>4, <3>5, <3>6
  <2> QED BY <2>2, <2>3
<1>4. \A i \in 0..(n - 1) : ~(i \in start..(start + 2^m - 1)) => B(i) = u[i]
  <2> TAKE i \in 0..(n - 1)
  <2> HAVE ~(i \in start..(start + 2^m - 1))
  <2>1. i < start \/ i >= start + 2^m
    BY <1>2
  <2> QED BY <2>1
<1>5. \A i \in 0..(n - 1) : t[i] = B(i)
  <2> HIDE DEF t, B
  <2> QED BY <1>1
<1>6. t \in Vec(n)
  <2> HIDE DEF t, B
  <2> QED BY <1>1, <1>3 DEF Vec
<1>7. \A i \in 0..(n - 1) : ~(i \in start..(start + 2^m - 1)) => t[i] = u[i]
  <2> HIDE DEF t, B
  <2> QED BY <1>4, <1>5
<1> HIDE DEF t
<1>8. /\ t \in Vec(n) /\ \A i \in 0..(n - 1) : t[i] = B(i)
      /\ \A i \in 0..(n - 1) : ~(i \in start..(start + 2^m - 1)) => t[i] = u[i]
  BY <1>5, <1>6, <1>7
<1> QED BY <1>8 DEF t

(* A level makes of the transforms of parts those of parts twice as long.   *)
LEMMA ButterfliesLevel ==
  ASSUME NEW n \in Nat, NEW start \in Nat, NEW m \in Nat, NEW k \in 0..(m - 1),
         start + 2^m <= n, NEW u \in Vec(n), NEW v \in Vec(n), Level(u, v, start, k, m)
  PROVE  Level(Butterflies(u, start, 2^m, 2^k), v, start, k + 1, m)
<1> DEFINE t == Butterflies(u, start, 2^m, 2^k)
<1>1. PICK w \in Nat, c \in Nat \ {0} : w = 2^m /\ c = 2^k /\ 2^(k + 1) = 2 * c
  BY PowersOfTwo
<1>2. \A i \in 0..(n - 1) : t[i] =
        IF i < start \/ i >= start + w THEN u[i]
        ELSE IF (i - start) % (2 * c) < c THEN u[i] + u[i + c] ELSE u[i - c] - u[i]
  BY <1>1, ButterfliesType
<1>3. \A i \in 0..(n - 1) : u[i] \in Int /\ v[i] \in Int
  BY DEF Vec
<1> HIDE DEF t
<1>4. ASSUME NEW G \in Nat, NEW x \in 0..(2 * c - 1), (G + 1) * (2 * c) <= w
      PROVE  t[start + G * (2 * c) + x] =
               Total(2 * c, [j \in 0..(2 * c - 1) |-> W(x, j) * v[start + G * (2 * c) + j]])
  <2>1. PICK g \in Nat : g = G * (2 * c)
    OBVIOUS
  <2>2. g + 2 * c <= w
    BY <1>4, <2>1
  <2>3. PICK a, p : TopBit(x, a, p, k)
    BY <1>1, TopBits
  <2>4. a \in 0..(c - 1) /\ p \in 0..1 /\ x = a + p * c
    BY <1>1, <2>3 DEF TopBit
  <2> DEFINE f0 == [j \in 0..(c - 1) |-> W(a, j) * v[start + g + j]]
             f1 == [j \in 0..(c - 1) |-> W(a, j) * v[start + (g + c) + j]]
             F == [j \in 0..(2 * c - 1) |-> W(x, j) * v[start + g + j]]
             s == IF p = 1 THEN -1 ELSE 1
  <2>5. u[start + g + a] = Total(c, f0)
    <3>1. 2 * G \in Nat /\ (2 * G) * c = g /\ ((2 * G) + 1) * c = g + c
      BY <2>1
    <3>2. PICK H \in Nat : H = 2 * G
      OBVIOUS
    <3>3. (H + 1) * 2^k <= 2^m /\ H * 2^k = g
      BY <1>1, <2>2, <3>1, <3>2
    <3>4. a \in 0..(2^k - 1)
      BY <1>1, <2>4
    <3>5. u[start + H * 2^k + a] = Total(2^k, [j \in 0..(2^k - 1) |-> W(a, j) * v[start + H * 2^k + j]])
      BY <3>3, <3>4 DEF Level
    <3> QED BY <1>1, <3>3, <3>5
  <2>6. u[start + (g + c) + a] = Total(c, f1)
    <3>1. 2 * G + 1 \in Nat /\ (2 * G + 1) * c = g + c /\ ((2 * G + 1) + 1) * c = g + 2 * c
      BY <2>1
    <3>2. PICK H \in Nat : H = 2 * G + 1
      OBVIOUS
    <3>3. (H + 1) * 2^k <= 2^m /\ H * 2^k = g + c
      BY <1>1, <2>2, <3>1, <3>2
    <3>4. a \in 0..(2^k - 1)
      BY <1>1, <2>4
    <3>5. u[start + H * 2^k + a] = Total(2^k, [j \in 0..(2^k - 1) |-> W(a, j) * v[start + H * 2^k + j]])
      BY <3>3, <3>4 DEF Level
    <3> QED BY <1>1, <3>3, <3>5
  <2>7. \A j \in 0..(c - 1) : v[start + g + j] \in Int /\ v[start + (g + c) + j] \in Int
    <3> TAKE j \in 0..(c - 1)
    <3>1. start + g + j \in 0..(n - 1) /\ start + (g + c) + j \in 0..(n - 1)
      BY <1>1, <2>2
    <3> QED BY <1>3, <3>1
  <2>8. f0 \in [0..(c - 1) -> Int] /\ f1 \in [0..(c - 1) -> Int] /\ s \in Int
    <3>1. ASSUME NEW j \in 0..(c - 1)
          PROVE  W(a, j) * v[start + g + j] \in Int /\ W(a, j) * v[start + (g + c) + j] \in Int
      <4>1. PICK z \in Int, y0 \in Int, y1 \in Int :
              z = W(a, j) /\ y0 = v[start + g + j] /\ y1 = v[start + (g + c) + j]
        BY <2>7, WalshType
      <4> QED BY <4>1
    <3> QED BY <3>1
  <2>9. F \in [0..(2 * c - 1) -> Int]
    <3>1. \A j \in 0..(2 * c - 1) : v[start + g + j] \in Int
      <4> TAKE j \in 0..(2 * c - 1)
      <4>1. start + g + j \in 0..(n - 1)
        BY <1>1, <2>2
      <4> QED BY <1>3, <4>1
    <3>2. ASSUME NEW j \in 0..(2 * c - 1) PROVE W(x, j) * v[start + g + j] \in Int
      <4>1. PICK z \in Int, y \in Int : z = W(x, j) /\ y = v[start + g + j]
        BY <3>1, WalshType
      <4> QED BY <4>1
    <3> QED BY <3>2
  <2>10. ASSUME NEW j \in 0..(c - 1) PROVE F[j] + F[c + j] = 1 * f0[j] + s * f1[j]
    <3>1. TopBit(j, j, 0, k) /\ TopBit(c + j, j, 1, k)
      BY <1>1 DEF TopBit
    <3>2. W(x, j) = W(a, j) * (IF p = 1 /\ 0 = 1 THEN -1 ELSE 1)
      BY <2>3, <3>1, WalshTop
    <3>3. W(x, c + j) = W(a, j) * (IF p = 1 /\ 1 = 1 THEN -1 ELSE 1)
      BY <2>3, <3>1, WalshTop
    <3>4. j \in 0..(2 * c - 1) /\ c + j \in 0..(2 * c - 1)
          /\ start + g + (c + j) = start + (g + c) + j
      OBVIOUS
    <3>5. F[j] = W(x, j) * v[start + g + j] /\ F[c + j] = W(x, c + j) * v[start + (g + c) + j]
          /\ f0[j] = W(a, j) * v[start + g + j] /\ f1[j] = W(a, j) * v[start + (g + c) + j]
      BY <3>4
    <3>6. PICK z \in {-1, 1}, y0 \in Int, y1 \in Int :
            z = W(a, j) /\ y0 = v[start + g + j] /\ y1 = v[start + (g + c) + j]
      BY <2>7, WalshType
    <3> HIDE DEF F, f0, f1
    <3> QED BY <3>2, <3>3, <3>5, <3>6
  <2> HIDE DEF F, f0, f1
  <2>11. Total(2 * c, F) = 1 * Total(c, f0) + s * Total(c, f1)
    <3>1. Total(2 * c, F) = Total(c, [j \in 0..(c - 1) |-> F[j] + F[c + j]])
      BY <2>9, TotalOfHalves
    <3>2. [j \in 0..(c - 1) |-> F[j] + F[c + j]] = [j \in 0..(c - 1) |-> 1 * f0[j] + s * f1[j]]
      BY <2>10
    <3> DEFINE o == 1
    <3>0. o \in Int
      OBVIOUS
    <3> HIDE DEF o, s
    <3>3. Total(c, [j \in 0..(c - 1) |-> o * f0[j] + s * f1[j]]) = o * Total(c, f0) + s * Total(c, f1)
      BY <2>8, <3>0, TotalLinear, ZenonT(60)
    <3> QED BY <3>1, <3>2, <3>3 DEF o
  <2>12. PICK y0 \in Int, y1 \in Int : y0 = Total(c, f0) /\ y1 = Total(c, f1)
    BY <2>8, TotalType
  <2>13. PICK i \in 0..(n - 1) : i = start + g + x /\ i >= start /\ i < start + w
    BY <1>1, <2>2
  <2>14. (i - start) % (2 * c) = x
    <3>1. PICK d \in Nat \ {0} : d = 2 * c
      OBVIOUS
    <3>2. i - start = d * G + x /\ x \in 0..(d - 1)
      BY <2>1, <2>13, <3>1
    <3>3. (d * G + x) % d = x
      BY <3>2, Quotients
    <3> QED BY <3>1, <3>2, <3>3
  <2>15. t[i] = IF x < c THEN u[i] + u[i + c] ELSE u[i - c] - u[i]
    BY <1>2, <2>13, <2>14
  <2>16. t[i] = Total(2 * c, F)
    <3>1. CASE p = 0
      <4>1. x = a /\ x < c /\ i = start + g + a /\ i + c = start + (g + c) + a
        BY <2>4, <2>13, <3>1
      <4> QED BY <2>5, <2>6, <2>11, <2>12, <2>15, <3>1, <4>1
    <3>2. CASE p = 1
      <4>1. ~(x < c) /\ i = start + (g + c) + a /\ i - c = start + g + a
        BY <2>4, <2>13, <3>2
      <4>2. y0 - y1 = 1 * y0 + (-1) * y1
        OBVIOUS
      <4> QED BY <2>5, <2>6, <2>11, <2>12, <2>15, <3>2, <4>1, <4>2
    <3> QED BY <2>4, <3>1, <3>2
  <2> QED BY <2>1, <2>13, <2>16 DEF F
<1>5. Level(t, v, start, k + 1, m)
  <2>1. ASSUME NEW G \in Nat, NEW a \in 0..(2^(k + 1) - 1), (G + 1) * 2^(k + 1) <= 2^m
        PROVE  t[start + G * 2^(k + 1) + a] =
                 Total(2^(k + 1), [j \in 0..(2^(k + 1) - 1) |->
                                     W(a, j) * v[start + G * 2^(k + 1) + j]])
    <3>1. a \in 0..(2 * c - 1) /\ (G + 1) * (2 * c) <= w
      BY <1>1, <2>1
    <3>2. t[start + G * (2 * c) + a] =
            Total(2 * c, [j \in 0..(2 * c - 1) |-> W(a, j) * v[start + G * (2 * c) + j]])
      BY <1>4, <3>1
    <3>3. 2 * c = 2^(k + 1)
      BY <1>1
    <3> QED BY <3>2, <3>3, Zenon
  <2> QED BY <2>1 DEF Level
<1> QED BY <1>5 DEF t

(* FWHT goes through as many levels as the window has bits.                 *)
LEMMA LevelCount ==
  ASSUME NEW m \in Nat
  PROVE  Cardinality({p \in 0..2^m : 2^p < 2^m}) = m
<1>1. m < 2^m /\ 2^m \in Nat
  BY PowersGrow, PowersOfTwo
<1>2. ASSUME NEW p \in Nat PROVE 2^p < 2^m <=> p < m
  <2>1. PICK a \in Nat, b \in Nat : a = 2^p /\ b = 2^m
    BY PowersOfTwo
  <2>2. m <= p <=> b <= a
    BY <2>1, PowersGrow
  <2> QED BY <2>1, <2>2
<1>3. PICK w \in Nat : w = 2^m /\ m < w
  BY <1>1
<1>4. {p \in 0..w : 2^p < 2^m} = 0..(m - 1)
  <2>1. ASSUME NEW p \in 0..w, 2^p < 2^m PROVE p \in 0..(m - 1)
    BY <1>2, <2>1
  <2>2. ASSUME NEW p \in 0..(m - 1) PROVE p \in 0..w /\ 2^p < 2^m
    <3>1. p \in 0..w /\ p \in Nat /\ p < m
      BY <1>3
    <3> QED BY <1>2, <3>1
  <2> QED BY <2>1, <2>2
<1>5. Cardinality(0..(m - 1)) = m
  <2>1. 0 \in Int /\ m - 1 \in Int /\ (IF 0 > m - 1 THEN 0 ELSE m - 1 - 0 + 1) = m
    OBVIOUS
  <2> QED BY <2>1, FS_Interval
<1> QED BY <1>3, <1>4, <1>5

(* The fast transform of a window is its Hadamard matrix.                   *)
LEMMA FWHTIs ==
  ASSUME NEW n \in Nat, NEW start \in Nat, NEW m \in Nat, start + 2^m <= n, NEW v \in Vec(n)
  PROVE  /\ FWHT(v, start, 2^m) \in Vec(n)
         /\ \A i \in 0..(n - 1) : ~(i \in start..(start + 2^m - 1)) =>
              FWHT(v, start, 2^m)[i] = v[i]
         /\ \A a \in 0..(2^m - 1) : FWHT(v, start, 2^m)[start + a] =
              Total(2^m, [j \in 0..(2^m - 1) |-> W(a, j) * v[start + j]])
<1> DEFINE B(u, k) == Butterflies(u, start, 2^m, 2^k)
           Unfolds(x) == x = [k \in 0..m |-> IF k = 0 THEN v ELSE B(x[k - 1], k - 1)]
           D == [p \in Vec(n) \X (0..(m - 1)) |-> B(p[1], p[2])]
<1>1. ASSUME NEW u \in Vec(n), NEW k \in 0..(m - 1)
      PROVE  /\ B(u, k) \in Vec(n)
             /\ \A i \in 0..(n - 1) : ~(i \in start..(start + 2^m - 1)) => B(u, k)[i] = u[i]
             /\ Level(u, v, start, k, m) => Level(B(u, k), v, start, k + 1, m)
  BY ButterfliesType, ButterfliesLevel
<1> HIDE DEF B
<1>2. PICK f : Steps(f, Vec(n), v, m, D)
  <2>1. D \in [Vec(n) \X (0..(m - 1)) -> Vec(n)]
    BY <1>1
  <2> HIDE DEF D
  <2> QED BY <2>1, StepsExist
<1>3. Unfolds(f)
  <2>0. /\ f \in [0..m -> Vec(n)] /\ f[0] = v
        /\ \A k \in 1..m : f[k] = D[<<f[k - 1], k - 1>>]
    <3> HIDE DEF D
    <3> QED BY <1>2 DEF Steps
  <2>1. ASSUME NEW k \in 1..m PROVE f[k] = B(f[k - 1], k - 1)
    <3>1. k - 1 \in 0..(m - 1) /\ k - 1 \in 0..m
      OBVIOUS
    <3>2. f[k - 1] \in Vec(n)
      BY <2>0, <3>1
    <3> QED BY <2>0, <3>1, <3>2
  <2>2. \A k \in 0..m : k = 0 \/ k \in 1..m
    OBVIOUS
  <2> HIDE DEF D
  <2> QED BY <2>0, <2>1, <2>2
<1> DEFINE x == CHOOSE y : Unfolds(y)
<1>4. Unfolds(x)
  <2> HIDE DEF Unfolds
  <2> QED BY <1>3
<1>5. FWHT(v, start, 2^m) = x[m]
  BY LevelCount DEF FWHT, Iterate, B
<1> HIDE DEF x, D
<1>6. x[0] = v /\ \A k \in 1..m : x[k] = B(x[k - 1], k - 1)
  BY <1>4
<1> DEFINE outside(u) == \A i \in 0..(n - 1) : ~(i \in start..(start + 2^m - 1)) => u[i] = v[i]
           Good(u, k) == u \in Vec(n) /\ outside(u) /\ Level(u, v, start, k, m)
           S == {k \in Nat : k <= m => Good(x[k], k)}
<1>7. 0 \in S
  <2>1. Level(v, v, start, 0, m)
    <3>1. 2^0 = 1
      OBVIOUS
    <3>2. ASSUME NEW G \in Nat, NEW a \in 0..(1 - 1), (G + 1) * 1 <= 2^m
          PROVE  v[start + G * 1 + a] = Total(1, [j \in 0..(1 - 1) |-> W(a, j) * v[start + G * 1 + j]])
      <4> DEFINE g == [j \in 0..(1 - 1) |-> W(a, j) * v[start + G * 1 + j]]
      <4>1. a = 0 /\ start + G * 1 + 0 = start + G
        OBVIOUS
      <4>2. start + G \in 0..(n - 1)
        <5>1. PICK w \in Nat : w = 2^m
          BY PowersOfTwo
        <5> QED BY <3>2, <5>1
      <4>3. v[start + G] \in Int
        BY <4>2 DEF Vec
      <4>4. g[0] = v[start + G]
        <5>1. g[0] = W(0, 0) * v[start + G]
          BY <4>1
        <5>2. \A z \in Int : 1 * z = z
          OBVIOUS
        <5> HIDE DEF g
        <5> QED BY <4>3, <5>1, <5>2, WalshZero
      <4>5. g \in [0..(1 - 1) -> Int] /\ 0 \in 0..(1 - 1) /\ \A j \in 0..(1 - 1) : j # 0 => g[j] = 0
        <5>1. \A j \in 0..(1 - 1) : j = 0
          OBVIOUS
        <5>2. g = [j \in 0..(1 - 1) |-> g[j]]
          OBVIOUS
        <5> HIDE DEF g
        <5> QED BY <4>3, <4>4, <5>1, <5>2
      <4> HIDE DEF g
      <4>6. Total(1, g) = g[0]
        BY <4>5, TotalOfOne
      <4> QED BY <4>1, <4>4, <4>6 DEF g
    <3> QED BY <3>1, <3>2 DEF Level
  <2> HIDE DEF Unfolds
  <2>2. Good(v, 0)
    BY <2>1
  <2> QED BY <1>6, <2>2
<1>8. ASSUME NEW k \in Nat, k \in S PROVE k + 1 \in S
  <2> SUFFICES ASSUME k + 1 <= m PROVE Good(x[k + 1], k + 1)
    OBVIOUS
  <2>1. k \in 0..(m - 1) /\ k + 1 \in 1..m /\ (k + 1) - 1 = k
    OBVIOUS
  <2>2. x[k + 1] = B(x[k], k)
    BY <1>6, <2>1
  <2>3. Good(x[k], k)
    BY <1>8, <2>1
  <2> HIDE DEF Unfolds
  <2>4. B(x[k], k) \in Vec(n) /\ Level(B(x[k], k), v, start, k + 1, m)
    BY <1>1, <2>1, <2>3
  <2>5. \A i \in 0..(n - 1) : ~(i \in start..(start + 2^m - 1)) => B(x[k], k)[i] = x[k][i]
    BY <1>1, <2>1, <2>3
  <2>6. outside(B(x[k], k))
    BY <2>3, <2>5
  <2> HIDE DEF outside
  <2> QED BY <2>2, <2>4, <2>6
<1> HIDE DEF Good, Unfolds
<1>9. \A k \in Nat : k \in S
  <2> HIDE DEF S
  <2> QED BY <1>7, <1>8, SubsetInduction
<1>10. Good(x[m], m)
  BY <1>9
<1>11. \A a \in 0..(2^m - 1) : x[m][start + a] =
         Total(2^m, [j \in 0..(2^m - 1) |-> W(a, j) * v[start + j]])
  <2> TAKE a \in 0..(2^m - 1)
  <2>1. PICK w \in Nat : w = 2^m
    BY PowersOfTwo
  <2>2. 0 \in Nat /\ (0 + 1) * w <= w /\ 0 * w = 0 /\ a \in 0..(w - 1)
    BY <2>1
  <2>3. Level(x[m], v, start, m, m)
    BY <1>10 DEF Good
  <2>4. x[m][start + 0 * w + a] = Total(w, [j \in 0..(w - 1) |-> W(a, j) * v[start + 0 * w + j]])
    BY <2>1, <2>2, <2>3 DEF Level
  <2>5. start + 0 = start
    OBVIOUS
  <2> QED BY <2>1, <2>2, <2>4, <2>5
<1> QED BY <1>5, <1>10, <1>11 DEF Good

-----------------------------------------------------------------------------
(* The transforms that rotations are put together from. *)

(* A basis vector is a vector.                                              *)
LEMMA BasisIsVec ==
  ASSUME NEW n \in Nat, NEW k
  PROVE  Basis(n, k) \in Vec(n)
  BY DEF Basis, Vec

(* Random signs.                                                            *)
LEMMA SignedIsometry ==
  ASSUME NEW n \in Nat, NEW s \in [0..(n - 1) -> {-1, 1}]
  PROVE  ScaledIsometry([v \in Vec(n) |-> Signed(v, s)], [v \in Vec(n) |-> Signed(v, s)], 1, n)
<1> DEFINE T == [v \in Vec(n) |-> Signed(v, s)]
<1>1. ASSUME NEW v \in Vec(n)
      PROVE  T[v] \in Vec(n) /\ \A i \in 0..(n - 1) : T[v][i] = v[i] * s[i] /\ v[i] \in Int
  <2>1. DOMAIN v = 0..(n - 1) /\ \A i \in 0..(n - 1) : v[i] \in Int
    BY DEF Vec
  <2>2. T[v] = [i \in 0..(n - 1) |-> v[i] * s[i]]
    BY <2>1, TableIs DEF Signed
  <2> HIDE DEF T
  <2>3. ASSUME NEW i \in 0..(n - 1) PROVE v[i] * s[i] \in Int
    <3>1. v[i] \in Int /\ (s[i] = -1 \/ s[i] = 1)
      BY <2>1
    <3> QED BY <3>1
  <2> QED BY <2>1, <2>2, <2>3 DEF Vec
<1>2. T \in [Vec(n) -> Vec(n)]
  <2>1. T = [v \in Vec(n) |-> T[v]]
    OBVIOUS
  <2> HIDE DEF T
  <2> QED BY <1>1, <2>1
<1> HIDE DEF T
<1>3. ASSUME NEW u \in Vec(n), NEW v \in Vec(n)
      PROVE  Inner(T[u], v) = Inner(u, T[v]) /\ Inner(T[u], T[v]) = 1 * Inner(u, v)
  <2>1. ASSUME NEW i \in 0..(n - 1)
        PROVE  T[u][i] * v[i] = u[i] * T[v][i] /\ T[u][i] * T[v][i] = u[i] * v[i]
    <3>1. s[i] = -1 \/ s[i] = 1
      OBVIOUS
    <3>2. PICK a \in Int, b \in Int : a = u[i] /\ b = v[i]
      BY <1>1
    <3>3. T[u][i] = a * s[i] /\ T[v][i] = b * s[i]
      BY <1>1, <3>2
    <3> QED BY <3>1, <3>2, <3>3
  <2>2. T[u] \in Vec(n) /\ T[v] \in Vec(n)
    BY <1>1
  <2>3. Inner(T[u], v) = Inner(u, T[v])
    <3>1. SameProducts(n, T[u], v, u, T[v])
      BY <2>1 DEF SameProducts
    <3> QED BY <2>2, <3>1, InnerSame
  <2>4. Inner(T[u], T[v]) = Inner(u, v)
    <3>1. SameProducts(n, T[u], T[v], u, v)
      BY <2>1 DEF SameProducts
    <3> QED BY <2>2, <3>1, InnerSame
  <2>5. Inner(u, v) \in Int
    BY InnerIs
  <2> QED BY <2>3, <2>4, <2>5
<1>4. ScaledIsometry(T, T, 1, n)
  BY <1>2, <1>3 DEF ScaledIsometry
<1> QED BY <1>4 DEF T

(* A permutation.                                                           *)
Permutes(p, n) ==
  /\ p \in [0..(n - 1) -> 0..(n - 1)]
  /\ \A d \in 0..(n - 1) : \E i \in 0..(n - 1) : p[i] = d
  /\ \A i, j \in 0..(n - 1) : p[i] = p[j] => i = j

(* Permuting is undone by looking up where each index went.                 *)
LEMMA PermutationIsometry ==
  ASSUME NEW n \in Nat, NEW p, Permutes(p, n)
  PROVE  ScaledIsometry(
           [v \in Vec(n) |-> Table([i \in DOMAIN v |-> v[p[i]]])],
           [v \in Vec(n) |-> [d \in DOMAIN v |-> v[CHOOSE i \in DOMAIN v : p[i] = d]]], 1, n)
<1> DEFINE q == [d \in 0..(n - 1) |-> CHOOSE i \in 0..(n - 1) : p[i] = d]
           M == [i \in 0..(n - 1) |-> Basis(n, q[i])]
<1>0. p \in [0..(n - 1) -> 0..(n - 1)]
  BY DEF Permutes
<1>1. \A d \in 0..(n - 1) : q[d] \in 0..(n - 1) /\ p[q[d]] = d
  BY DEF Permutes
<1>2. \A i \in 0..(n - 1) : q[p[i]] = i
  <2> HIDE DEF q
  <2>1. \A i, j \in 0..(n - 1) : p[i] = p[j] => i = j
    BY DEF Permutes
  <2> QED BY <1>0, <1>1, <2>1
<1> HIDE DEF q
<1>3. /\ M \in [0..(n - 1) -> Vec(n)] /\ \A i \in 0..(n - 1) : M[i] = Basis(n, q[i])
      /\ \A i, j \in 0..(n - 1) : M[i][j] = IF q[i] = j THEN 1 ELSE 0
  <2>1. \A i \in 0..(n - 1) : M[i] = Basis(n, q[i])
    OBVIOUS
  <2>2. \A i \in 0..(n - 1) : Basis(n, q[i]) \in Vec(n)
    BY BasisIsVec
  <2>3. \A i, j \in 0..(n - 1) : Basis(n, q[i])[j] = IF q[i] = j THEN 1 ELSE 0
    BY DEF Basis
  <2>4. M \in [0..(n - 1) -> Vec(n)]
    BY <2>2
  <2> HIDE DEF M
  <2> QED BY <2>1, <2>3, <2>4
<1>4. \A i, k \in 0..(n - 1) : Inner(M[i], M[k]) = IF i = k THEN 1 ELSE 0
  <2> HIDE DEF M
  <2> TAKE i, k \in 0..(n - 1)
  <2>0. q[i] \in 0..(n - 1) /\ M[k] \in Vec(n)
    BY <1>1, <1>3
  <2>1. Inner(Basis(n, q[i]), M[k]) = M[k][q[i]]
    BY <2>0, InnerBasis
  <2>2. M[k][q[i]] = IF q[k] = q[i] THEN 1 ELSE 0
    BY <1>1, <1>3
  <2>3. q[k] = q[i] <=> k = i
    BY <1>1
  <2> QED BY <1>3, <2>1, <2>2, <2>3
<1> HIDE DEF M
<1> DEFINE o == 1
           T == [v \in Vec(n) |-> [j \in 0..(n - 1) |->
                   Total(n, [i \in 0..(n - 1) |-> M[i][j] * v[i]])]]
           S == [v \in Vec(n) |-> [i \in 0..(n - 1) |->
                   Total(n, [j \in 0..(n - 1) |-> M[i][j] * v[j]])]]
<1>5. ScaledIsometry(T, S, o, n)
  <2>1. o \in Int /\ \A i, k \in 0..(n - 1) : Inner(M[i], M[k]) = IF i = k THEN o ELSE 0
    BY <1>4
  <2> HIDE DEF o
  <2> QED BY <1>3, <2>1, MatrixIsometry
<1> HIDE DEF T, S
<1>6. ASSUME NEW v \in Vec(n)
      PROVE  T[v] = Table([i \in DOMAIN v |-> v[p[i]]])
  <2>1. DOMAIN v = 0..(n - 1) /\ \A i \in 0..(n - 1) : v[i] \in Int
    BY DEF Vec
  <2>2. ASSUME NEW j \in 0..(n - 1)
        PROVE  Total(n, [i \in 0..(n - 1) |-> M[i][j] * v[i]]) = v[p[j]]
    <3> DEFINE f == [i \in 0..(n - 1) |-> M[i][j] * v[i]]
    <3>1. ASSUME NEW i \in 0..(n - 1) PROVE f[i] = IF i = p[j] THEN v[i] ELSE 0
      <4>1. M[i][j] = IF q[i] = j THEN 1 ELSE 0
        BY <1>3
      <4>2. q[i] = j <=> i = p[j]
        BY <1>1, <1>2
      <4>3. \A z \in Int : 1 * z = z /\ 0 * z = 0
        OBVIOUS
      <4>4. f[i] = M[i][j] * v[i]
        OBVIOUS
      <4> HIDE DEF f
      <4> QED BY <2>1, <4>1, <4>2, <4>3, <4>4
    <3>2. p[j] \in 0..(n - 1) /\ f = [i \in 0..(n - 1) |-> f[i]]
      BY <1>0
    <3> HIDE DEF f
    <3>3. f \in [0..(n - 1) -> Int]
      BY <2>1, <3>1, <3>2
    <3>4. Total(n, f) = f[p[j]]
      BY <3>1, <3>2, <3>3, TotalOfOne
    <3> QED BY <3>1, <3>2, <3>4 DEF f
  <2> QED BY <2>1, <2>2, TableIs DEF T
<1>7. ASSUME NEW v \in Vec(n)
      PROVE  S[v] = [d \in DOMAIN v |-> v[CHOOSE i \in DOMAIN v : p[i] = d]]
  <2>1. DOMAIN v = 0..(n - 1) /\ \A i \in 0..(n - 1) : v[i] \in Int
    BY DEF Vec
  <2>2. ASSUME NEW i \in 0..(n - 1)
        PROVE  Total(n, [j \in 0..(n - 1) |-> M[i][j] * v[j]]) = v[q[i]]
    <3>0. q[i] \in 0..(n - 1) /\ M[i] \in Vec(n)
      BY <1>1, <1>3
    <3>1. Inner(M[i], v) = Total(n, [j \in 0..(n - 1) |-> M[i][j] * v[j]])
      BY <3>0, InnerIs
    <3>2. Inner(Basis(n, q[i]), v) = v[q[i]]
      BY <3>0, InnerBasis
    <3> QED BY <1>3, <3>1, <3>2
  <2> DEFINE e(d) == CHOOSE i \in DOMAIN v : p[i] = d
  <2>3. ASSUME NEW d \in 0..(n - 1) PROVE q[d] = e(d)
    <3>1. q[d] \in DOMAIN v /\ p[q[d]] = d
      BY <1>1, <2>1
    <3>2. e(d) \in DOMAIN v /\ p[e(d)] = d
      BY <3>1
    <3> HIDE DEF e
    <3>3. e(d) \in 0..(n - 1)
      BY <2>1, <3>2
    <3>4. q[p[e(d)]] = e(d)
      BY <1>2, <3>3
    <3> QED BY <3>2, <3>4
  <2> HIDE DEF e
  <2>4. S[v] = [i \in 0..(n - 1) |-> v[q[i]]]
    BY <2>2 DEF S
  <2>5. S[v] = [d \in DOMAIN v |-> v[e(d)]]
    BY <2>1, <2>3, <2>4
  <2> QED BY <2>5, Zenon DEF e
<1>8. /\ T = [v \in Vec(n) |-> Table([i \in DOMAIN v |-> v[p[i]]])]
      /\ S = [v \in Vec(n) |-> [d \in DOMAIN v |-> v[CHOOSE i \in DOMAIN v : p[i] = d]]]
  <2>1. T = [v \in Vec(n) |-> T[v]] /\ S = [v \in Vec(n) |-> S[v]]
    BY DEF T, S
  <2> QED BY <1>6, <1>7, <2>1
<1> QED BY <1>5, <1>8

(* Sums and differences of the two halves.                                  *)
LEMMA HalfMixIsometry ==
  ASSUME NEW n \in Nat, n % 2 = 0
  PROVE  ScaledIsometry([v \in Vec(n) |-> ApplyNormalizedHalfMix(v, n)],
                        [v \in Vec(n) |-> ApplyNormalizedHalfMix(v, n)], 2, n)
<1> DEFINE T == [v \in Vec(n) |-> ApplyNormalizedHalfMix(v, n)]
<1>0. PICK h \in Nat : h = n \div 2 /\ n = 2 * h
  OBVIOUS
<1>1. ASSUME NEW v \in Vec(n)
      PROVE  /\ T[v] \in Vec(n) /\ \A i \in 0..(n - 1) : v[i] \in Int
             /\ \A i \in 0..(h - 1) : T[v][i] = v[i] + v[h + i] /\ T[v][h + i] = v[i] - v[h + i]
  <2>1. DOMAIN v = 0..(n - 1) /\ \A i \in 0..(n - 1) : v[i] \in Int
    BY DEF Vec
  <2>2. T[v] = [i \in 0..(n - 1) |-> IF i < h THEN v[i] + v[i + h] ELSE v[i - h] - v[i]]
    BY <1>0, <2>1, TableIs DEF ApplyNormalizedHalfMix
  <2> HIDE DEF T
  <2>3. ASSUME NEW i \in 0..(n - 1)
        PROVE  (IF i < h THEN v[i] + v[i + h] ELSE v[i - h] - v[i]) \in Int
    <3>1. i < h => i + h \in 0..(n - 1)
      BY <1>0
    <3>2. ~(i < h) => i - h \in 0..(n - 1)
      BY <1>0
    <3> QED BY <2>1, <3>1, <3>2
  <2>4. ASSUME NEW i \in 0..(h - 1)
        PROVE  T[v][i] = v[i] + v[h + i] /\ T[v][h + i] = v[i] - v[h + i]
    <3>1. i \in 0..(n - 1) /\ h + i \in 0..(n - 1) /\ i < h /\ ~(h + i < h)
          /\ i + h = h + i /\ (h + i) - h = i
      BY <1>0
    <3> QED BY <2>2, <3>1
  <2> QED BY <2>1, <2>2, <2>3, <2>4 DEF Vec
<1>2. T \in [Vec(n) -> Vec(n)]
  <2>1. T = [v \in Vec(n) |-> T[v]]
    OBVIOUS
  <2> HIDE DEF T
  <2> QED BY <1>1, <2>1
<1> HIDE DEF T
<1>3. ASSUME NEW u \in Vec(n), NEW v \in Vec(n)
      PROVE  Inner(u, v) = Total(h, [i \in 0..(h - 1) |-> u[i] * v[i] + u[h + i] * v[h + i]])
             /\ [i \in 0..(h - 1) |-> u[i] * v[i] + u[h + i] * v[h + i]] \in [0..(h - 1) -> Int]
  <2> DEFINE f == [i \in 0..(n - 1) |-> u[i] * v[i]]
  <2>1. Inner(u, v) = Total(n, f) /\ f \in Vec(n)
    BY InnerIs
  <2>2. f \in [0..(2 * h - 1) -> Int]
    BY <1>0, <2>1 DEF Vec
  <2>3. \A i \in 0..(h - 1) : f[i] = u[i] * v[i] /\ f[h + i] = u[h + i] * v[h + i]
                              /\ i \in 0..(2 * h - 1) /\ h + i \in 0..(2 * h - 1)
    BY <1>0
  <2> HIDE DEF f
  <2>4. Total(2 * h, f) = Total(h, [i \in 0..(h - 1) |-> f[i] + f[h + i]])
    BY <2>2, TotalOfHalves
  <2>5. [i \in 0..(h - 1) |-> f[i] + f[h + i]]
          = [i \in 0..(h - 1) |-> u[i] * v[i] + u[h + i] * v[h + i]]
    BY <2>3
  <2>6. [i \in 0..(h - 1) |-> f[i] + f[h + i]] \in [0..(h - 1) -> Int]
    BY <2>2, <2>3
  <2> QED BY <1>0, <2>1, <2>4, <2>5, <2>6
<1>4. ASSUME NEW u \in Vec(n), NEW v \in Vec(n)
      PROVE  Inner(T[u], v) = Inner(u, T[v]) /\ Inner(T[u], T[v]) = 2 * Inner(u, v)
  <2>0. T[u] \in Vec(n) /\ T[v] \in Vec(n)
    BY <1>1
  <2> DEFINE g == [i \in 0..(h - 1) |-> u[i] * v[i] + u[h + i] * v[h + i]]
  <2>1. ASSUME NEW i \in 0..(h - 1)
        PROVE  /\ T[u][i] * v[i] + T[u][h + i] * v[h + i] = u[i] * T[v][i] + u[h + i] * T[v][h + i]
               /\ T[u][i] * T[v][i] + T[u][h + i] * T[v][h + i] = 2 * g[i]
    <3>1. i \in 0..(n - 1) /\ h + i \in 0..(n - 1)
      BY <1>0
    <3>2. PICK a \in Int, b \in Int, c \in Int, d \in Int :
            a = u[i] /\ b = u[h + i] /\ c = v[i] /\ d = v[h + i]
      BY <1>1, <3>1
    <3>3. T[u][i] = a + b /\ T[u][h + i] = a - b /\ T[v][i] = c + d /\ T[v][h + i] = c - d
      BY <1>1, <3>2
    <3>4. g[i] = a * c + b * d
      BY <3>2
    <3> HIDE DEF g
    <3>5. (a + b) * c + (a - b) * d = a * (c + d) + b * (c - d)
      OBVIOUS
    <3>6. (a + b) * (c + d) + (a - b) * (c - d) = 2 * (a * c + b * d)
      OBVIOUS
    <3> QED BY <3>2, <3>3, <3>4, <3>5, <3>6
  <2>2. Inner(T[u], v) = Total(h, [i \in 0..(h - 1) |-> T[u][i] * v[i] + T[u][h + i] * v[h + i]])
    BY <1>3, <2>0
  <2>3. Inner(u, T[v]) = Total(h, [i \in 0..(h - 1) |-> u[i] * T[v][i] + u[h + i] * T[v][h + i]])
    BY <1>3, <2>0
  <2>4. Inner(T[u], T[v]) =
          Total(h, [i \in 0..(h - 1) |-> T[u][i] * T[v][i] + T[u][h + i] * T[v][h + i]])
    BY <1>3, <2>0
  <2>5. Inner(u, v) = Total(h, g) /\ g \in Vec(h)
    BY <1>3 DEF Vec
  <2> HIDE DEF g
  <2>6. [i \in 0..(h - 1) |-> T[u][i] * v[i] + T[u][h + i] * v[h + i]]
          = [i \in 0..(h - 1) |-> u[i] * T[v][i] + u[h + i] * T[v][h + i]]
    BY <2>1
  <2>7. [i \in 0..(h - 1) |-> T[u][i] * T[v][i] + T[u][h + i] * T[v][h + i]]
          = [i \in 0..(h - 1) |-> 2 * g[i]]
    BY <2>1
  <2>8. Total(h, [i \in 0..(h - 1) |-> 2 * g[i]]) = 2 * Total(h, g)
    BY <2>5, TotalTimes
  <2> QED BY <2>2, <2>3, <2>4, <2>5, <2>6, <2>7, <2>8
<1>5. ScaledIsometry(T, T, 2, n)
  BY <1>2, <1>4 DEF ScaledIsometry
<1> QED BY <1>5 DEF T

(* Hadamard transforms of windows that lie side by side: st is where the    *)
(* window of a component starts, 2^ex how long it is and fac what the       *)
(* window is multiplied by, such that all of them have the same scale.      *)
Windows(st, ex, fac, s, n) ==
  /\ s \in Int
  /\ \A i \in 0..(n - 1) :
       /\ st[i] \in Nat /\ ex[i] \in Nat /\ fac[i] \in Int
       /\ st[i] <= i /\ i < st[i] + 2^ex[i] /\ st[i] + 2^ex[i] <= n
       /\ (fac[i] * fac[i]) * 2^ex[i] = s
  /\ \A i, j \in 0..(n - 1) :
       st[i] <= j /\ j < st[i] + 2^ex[i] => st[j] = st[i] /\ ex[j] = ex[i] /\ fac[j] = fac[i]

WindowSum(v, i, st, ex, fac) ==
  fac[i] * Total(2^ex[i], [j \in 0..(2^ex[i] - 1) |-> W(i - st[i], j) * v[st[i] + j]])

WalshEntry(i, j, st, ex, fac) ==
  IF st[i] <= j /\ j < st[i] + 2^ex[i] THEN fac[i] * W(i - st[i], j - st[i]) ELSE 0

(* The matrix of the windows is one of integers, and symmetric.             *)
LEMMA WindowEntryType ==
  ASSUME NEW n \in Nat, NEW st, NEW ex, NEW fac, NEW s, Windows(st, ex, fac, s, n),
         NEW i \in 0..(n - 1), NEW j \in 0..(n - 1)
  PROVE  /\ WalshEntry(i, j, st, ex, fac) \in Int
         /\ WalshEntry(i, j, st, ex, fac) = WalshEntry(j, i, st, ex, fac)
<1>1. /\ st[i] \in Nat /\ ex[i] \in Nat /\ fac[i] \in Int /\ st[i] <= i /\ i < st[i] + 2^ex[i]
      /\ st[j] \in Nat /\ ex[j] \in Nat /\ fac[j] \in Int /\ st[j] <= j /\ j < st[j] + 2^ex[j]
  BY DEF Windows
<1>2. W(i - st[i], j - st[i]) \in Int
  BY WalshType
<1>3. WalshEntry(i, j, st, ex, fac) \in Int
  BY <1>1, <1>2 DEF WalshEntry
<1>4. CASE st[i] <= j /\ j < st[i] + 2^ex[i]
  <2>1. st[j] = st[i] /\ ex[j] = ex[i] /\ fac[j] = fac[i]
    BY <1>4 DEF Windows
  <2>2. PICK a \in Nat, b \in Nat : a = i - st[i] /\ b = j - st[i]
    <3>1. i - st[i] \in Nat /\ j - st[i] \in Nat
      BY <1>1, <1>4
    <3> QED BY <3>1
  <2>3. W(a, b) = W(b, a)
    BY WalshSymmetric
  <2>4. st[j] <= i /\ i < st[j] + 2^ex[j]
    BY <1>1, <2>1
  <2> QED BY <1>3, <1>4, <2>1, <2>2, <2>3, <2>4 DEF WalshEntry
<1>5. CASE ~(st[i] <= j /\ j < st[i] + 2^ex[i])
  <2>1. ~(st[j] <= i /\ i < st[j] + 2^ex[j])
    <3>1. ASSUME st[j] <= i /\ i < st[j] + 2^ex[j] PROVE FALSE
      <4>1. st[j] = st[i] /\ ex[j] = ex[i]
        BY <3>1 DEF Windows
      <4> QED BY <1>1, <1>5, <4>1
    <3> QED BY <3>1
  <2> QED BY <1>3, <1>5, <2>1 DEF WalshEntry
<1> QED BY <1>3, <1>4, <1>5

(* Its rows are orthogonal and equally long.                                *)
LEMMA RowsOfWindows ==
  ASSUME NEW n \in Nat, NEW st, NEW ex, NEW fac, NEW s, Windows(st, ex, fac, s, n),
         NEW i \in 0..(n - 1), NEW k \in 0..(n - 1)
  PROVE  Total(n, [j \in 0..(n - 1) |-> WalshEntry(i, j, st, ex, fac) * WalshEntry(k, j, st, ex, fac)])
           = IF i = k THEN s ELSE 0
<1> DEFINE f == [j \in 0..(n - 1) |-> WalshEntry(i, j, st, ex, fac) * WalshEntry(k, j, st, ex, fac)]
<1>1. /\ st[i] \in Nat /\ ex[i] \in Nat /\ fac[i] \in Int /\ st[i] <= i /\ i < st[i] + 2^ex[i]
      /\ st[i] + 2^ex[i] <= n /\ (fac[i] * fac[i]) * 2^ex[i] = s
      /\ st[k] \in Nat /\ ex[k] \in Nat /\ fac[k] \in Int /\ st[k] <= k /\ k < st[k] + 2^ex[k]
  BY DEF Windows
<1>2. PICK w \in Nat \ {0}, x \in Int : w = 2^ex[i] /\ x = fac[i] /\ (x * x) * w = s
  BY <1>1, PowersOfTwo
<1>3. f \in [0..(n - 1) -> Int] /\ \A j \in 0..(n - 1) :
        f[j] = WalshEntry(i, j, st, ex, fac) * WalshEntry(k, j, st, ex, fac)
  <2>1. ASSUME NEW j \in 0..(n - 1)
        PROVE  WalshEntry(i, j, st, ex, fac) * WalshEntry(k, j, st, ex, fac) \in Int
    <3>1. WalshEntry(i, j, st, ex, fac) \in Int
      BY WindowEntryType
    <3>2. WalshEntry(k, j, st, ex, fac) \in Int
      BY WindowEntryType
    <3> QED BY <3>1, <3>2
  <2> QED BY <2>1
<1> HIDE DEF f
<1>4. CASE st[i] <= k /\ k < st[i] + w
  <2>1. st[k] = st[i] /\ ex[k] = ex[i] /\ fac[k] = fac[i]
    BY <1>2, <1>4 DEF Windows
  <2>2. PICK o \in Nat, a \in 0..(w - 1), b \in 0..(w - 1) :
          o = st[i] /\ a = i - o /\ b = k - o
    <3>1. i - st[i] \in 0..(w - 1) /\ k - st[i] \in 0..(w - 1)
      BY <1>1, <1>2, <1>4
    <3> QED BY <1>1, <3>1
  <2>3. \A j \in 0..(n - 1) : ~(j \in o..(o + w - 1)) => f[j] = 0
    <3> TAKE j \in 0..(n - 1)
    <3> HAVE ~(j \in o..(o + w - 1))
    <3>1. WalshEntry(i, j, st, ex, fac) = 0 /\ WalshEntry(k, j, st, ex, fac) = 0
      <4>1. ~(st[i] <= j /\ j < st[i] + 2^ex[i])
        BY <1>2, <2>2
      <4> QED BY <2>1, <4>1 DEF WalshEntry
    <3> QED BY <1>3, <3>1
  <2> DEFINE g == [j \in 0..(w - 1) |-> W(a, j) * W(b, j)]
  <2>4. ASSUME NEW j \in 0..(w - 1) PROVE f[o + j] = (x * x) * g[j]
    <3>1. o + j \in 0..(n - 1) /\ st[i] <= o + j /\ o + j < st[i] + 2^ex[i]
          /\ (o + j) - st[i] = j
      BY <1>1, <1>2, <2>2
    <3>2. WalshEntry(i, o + j, st, ex, fac) = x * W(a, j)
      BY <1>2, <2>2, <3>1 DEF WalshEntry
    <3>3. WalshEntry(k, o + j, st, ex, fac) = x * W(b, j)
      BY <1>2, <2>1, <2>2, <3>1 DEF WalshEntry
    <3>4. PICK y \in Int, z \in Int : y = W(a, j) /\ z = W(b, j)
      BY WalshType
    <3>5. (x * y) * (x * z) = (x * x) * (y * z)
      OBVIOUS
    <3> QED BY <1>3, <3>1, <3>2, <3>3, <3>4, <3>5
  <2>5. g \in Vec(w)
    <3>1. ASSUME NEW j \in 0..(w - 1) PROVE W(a, j) * W(b, j) \in Int
      <4>1. PICK y \in Int, z \in Int : y = W(a, j) /\ z = W(b, j)
        BY WalshType
      <4> QED BY <4>1
    <3> QED BY <3>1 DEF Vec
  <2>6. Total(w, g) = IF a = b THEN w ELSE 0
    <3>1. ex[i] \in Nat /\ a \in 0..(2^ex[i] - 1) /\ b \in 0..(2^ex[i] - 1)
      BY <1>1, <1>2
    <3>2. Total(2^ex[i], [j \in 0..(2^ex[i] - 1) |-> W(a, j) * W(b, j)]) = IF a = b THEN 2^ex[i] ELSE 0
      BY <3>1, WalshOrthogonal
    <3> QED BY <1>2, <3>2
  <2> HIDE DEF g
  <2>7. Total(n, f) = Total(w, [j \in 0..(w - 1) |-> f[o + j]])
    <3>1. o + w <= n
      BY <1>1, <1>2, <2>2
    <3> QED BY <1>3, <2>3, <3>1, TotalOfWindow
  <2>8. PICK xx \in Int : xx = x * x
    OBVIOUS
  <2>9. [j \in 0..(w - 1) |-> f[o + j]] = [j \in 0..(w - 1) |-> xx * g[j]]
    BY <2>4, <2>8
  <2>10. Total(w, [j \in 0..(w - 1) |-> xx * g[j]]) = xx * Total(w, g)
    BY <2>5, TotalTimes
  <2>11. a = b <=> i = k
    BY <2>2
  <2>12. xx * w = s /\ xx * 0 = 0
    BY <1>2, <2>8
  <2> QED BY <2>6, <2>7, <2>9, <2>10, <2>11, <2>12 DEF f
<1>5. CASE ~(st[i] <= k /\ k < st[i] + w)
  <2>1. ASSUME NEW j \in 0..(n - 1) PROVE f[j] = 0
    <3>1. ~((st[i] <= j /\ j < st[i] + 2^ex[i]) /\ (st[k] <= j /\ j < st[k] + 2^ex[k]))
      <4>1. ASSUME st[i] <= j /\ j < st[i] + 2^ex[i], st[k] <= j /\ j < st[k] + 2^ex[k] PROVE FALSE
        <5>1. st[j] = st[i] /\ ex[j] = ex[i]
          BY <4>1 DEF Windows
        <5>2. st[j] = st[k] /\ ex[j] = ex[k]
          BY <4>1 DEF Windows
        <5> QED BY <1>1, <1>2, <1>5, <5>1, <5>2
      <4> QED BY <4>1
    <3>2. WalshEntry(i, j, st, ex, fac) = 0 \/ WalshEntry(k, j, st, ex, fac) = 0
      BY <3>1 DEF WalshEntry
    <3>3. WalshEntry(i, j, st, ex, fac) \in Int
      BY WindowEntryType
    <3>4. WalshEntry(k, j, st, ex, fac) \in Int
      BY WindowEntryType
    <3>5. f[j] = WalshEntry(i, j, st, ex, fac) * WalshEntry(k, j, st, ex, fac)
      BY <1>3
    <3>6. PICK y \in Int, z \in Int :
            y = WalshEntry(i, j, st, ex, fac) /\ z = WalshEntry(k, j, st, ex, fac)
      BY <3>3, <3>4
    <3>7. y * 0 = 0 /\ 0 * z = 0
      OBVIOUS
    <3> QED BY <3>2, <3>5, <3>6, <3>7
  <2>2. Total(n, f) = f[i]
    BY <1>3, <2>1, TotalOfOne
  <2>3. i # k
    BY <1>1, <1>2, <1>5
  <2> QED BY <2>1, <2>2, <2>3 DEF f
<1> QED BY <1>4, <1>5

AlongRow(v, i, n, st, ex, fac) ==
  Total(n, [j \in 0..(n - 1) |-> WalshEntry(i, j, st, ex, fac) * v[j]])
DownColumn(v, i, n, st, ex, fac) ==
  Total(n, [j \in 0..(n - 1) |-> WalshEntry(j, i, st, ex, fac) * v[j]])

(* A sum along one of its rows or columns is one over the window.           *)
LEMMA SumOfWindow ==
  ASSUME NEW n \in Nat, NEW st, NEW ex, NEW fac, NEW s, Windows(st, ex, fac, s, n),
         NEW i \in 0..(n - 1), NEW v \in Vec(n)
  PROVE  /\ AlongRow(v, i, n, st, ex, fac) = WindowSum(v, i, st, ex, fac)
         /\ DownColumn(v, i, n, st, ex, fac) = WindowSum(v, i, st, ex, fac)
         /\ WindowSum(v, i, st, ex, fac) \in Int
<1> DEFINE f == [j \in 0..(n - 1) |-> WalshEntry(i, j, st, ex, fac) * v[j]]
<1>1. /\ st[i] \in Nat /\ ex[i] \in Nat /\ fac[i] \in Int /\ st[i] <= i /\ i < st[i] + 2^ex[i]
      /\ st[i] + 2^ex[i] <= n
  BY DEF Windows
<1>2. PICK w \in Nat \ {0}, x \in Int, o \in Nat : w = 2^ex[i] /\ x = fac[i] /\ o = st[i]
  BY <1>1, PowersOfTwo
<1>3. \A j \in 0..(n - 1) : v[j] \in Int
  BY DEF Vec
<1>4. f \in [0..(n - 1) -> Int] /\ \A j \in 0..(n - 1) : f[j] = WalshEntry(i, j, st, ex, fac) * v[j]
  <2>1. ASSUME NEW j \in 0..(n - 1) PROVE WalshEntry(i, j, st, ex, fac) * v[j] \in Int
    <3>1. WalshEntry(i, j, st, ex, fac) \in Int
      BY WindowEntryType
    <3> QED BY <1>3, <3>1
  <2> QED BY <2>1
<1> HIDE DEF f
<1>5. \A j \in 0..(n - 1) : ~(j \in o..(o + w - 1)) => f[j] = 0
  <2> TAKE j \in 0..(n - 1)
  <2> HAVE ~(j \in o..(o + w - 1))
  <2>1. WalshEntry(i, j, st, ex, fac) = 0
    <3>1. ~(st[i] <= j /\ j < st[i] + 2^ex[i])
      BY <1>2
    <3> QED BY <3>1 DEF WalshEntry
  <2>2. v[j] \in Int /\ \A z \in Int : 0 * z = 0
    BY <1>3
  <2> QED BY <1>4, <2>1, <2>2
<1>6. PICK a \in 0..(w - 1) : a = i - o
  <2>1. i - o \in 0..(w - 1)
    BY <1>1, <1>2
  <2> QED BY <2>1
<1> DEFINE g == [j \in 0..(w - 1) |-> W(a, j) * v[o + j]]
<1>7. ASSUME NEW j \in 0..(w - 1) PROVE f[o + j] = x * g[j] /\ g[j] \in Int
  <2>1. o + j \in 0..(n - 1) /\ st[i] <= o + j /\ o + j < st[i] + 2^ex[i] /\ (o + j) - st[i] = j
    BY <1>1, <1>2
  <2>2. WalshEntry(i, o + j, st, ex, fac) = x * W(a, j)
    BY <1>2, <1>6, <2>1 DEF WalshEntry
  <2>3. PICK y \in Int, z \in Int : y = W(a, j) /\ z = v[o + j]
    BY <1>3, <2>1, WalshType
  <2>4. (x * y) * z = x * (y * z) /\ y * z \in Int
    OBVIOUS
  <2> QED BY <1>4, <2>1, <2>2, <2>3, <2>4
<1>8. g \in Vec(w)
  <2>1. g = [j \in 0..(w - 1) |-> g[j]]
    OBVIOUS
  <2> HIDE DEF g
  <2> QED BY <1>7, <2>1 DEF Vec
<1>9. WindowSum(v, i, st, ex, fac) = x * Total(w, g)
  BY <1>2, <1>6 DEF WindowSum
<1> HIDE DEF g
<1>10. Total(n, f) = Total(w, [j \in 0..(w - 1) |-> f[o + j]])
  <2>1. o + w <= n
    BY <1>1, <1>2
  <2> QED BY <1>4, <1>5, <2>1, TotalOfWindow
<1>11. [j \in 0..(w - 1) |-> f[o + j]] = [j \in 0..(w - 1) |-> x * g[j]]
  BY <1>7
<1>12. Total(w, [j \in 0..(w - 1) |-> x * g[j]]) = x * Total(w, g)
  BY <1>8, TotalTimes
<1>13. Total(n, f) = WindowSum(v, i, st, ex, fac)
  BY <1>9, <1>10, <1>11, <1>12
<1>14. Total(n, f) \in Int
  BY <1>4, TotalType
<1>15. f = [j \in 0..(n - 1) |-> WalshEntry(j, i, st, ex, fac) * v[j]]
  <2>1. ASSUME NEW j \in 0..(n - 1) PROVE WalshEntry(i, j, st, ex, fac) = WalshEntry(j, i, st, ex, fac)
    BY WindowEntryType
  <2> QED BY <2>1 DEF f
<1> QED BY <1>13, <1>14, <1>15 DEF f, AlongRow, DownColumn

(* So the transform of the windows is an isometry, and undoes itself.       *)
LEMMA WindowsIsometry ==
  ASSUME NEW n \in Nat, NEW st, NEW ex, NEW fac, NEW s, Windows(st, ex, fac, s, n)
  PROVE  ScaledIsometry([v \in Vec(n) |-> [i \in 0..(n - 1) |-> WindowSum(v, i, st, ex, fac)]],
                        [v \in Vec(n) |-> [i \in 0..(n - 1) |-> WindowSum(v, i, st, ex, fac)]], s, n)
<1> DEFINE M == [i \in 0..(n - 1) |-> [j \in 0..(n - 1) |-> WalshEntry(i, j, st, ex, fac)]]
           Z == [v \in Vec(n) |-> [i \in 0..(n - 1) |-> WindowSum(v, i, st, ex, fac)]]
           T == [v \in Vec(n) |-> [j \in 0..(n - 1) |->
                   Total(n, [i \in 0..(n - 1) |-> M[i][j] * v[i]])]]
           S == [v \in Vec(n) |-> [i \in 0..(n - 1) |->
                   Total(n, [j \in 0..(n - 1) |-> M[i][j] * v[j]])]]
<1>1. /\ M \in [0..(n - 1) -> Vec(n)]
      /\ \A i, j \in 0..(n - 1) : M[i][j] = WalshEntry(i, j, st, ex, fac)
  <2>1. \A i, j \in 0..(n - 1) : WalshEntry(i, j, st, ex, fac) \in Int
    <3> TAKE i, j \in 0..(n - 1)
    <3> QED BY WindowEntryType
  <2> QED BY <2>1 DEF Vec
<1> HIDE DEF M
<1>2. ASSUME NEW i \in 0..(n - 1), NEW k \in 0..(n - 1)
      PROVE  Inner(M[i], M[k]) = IF i = k THEN s ELSE 0
  <2>1. M[i] \in Vec(n) /\ M[k] \in Vec(n)
    BY <1>1
  <2>2. Inner(M[i], M[k]) = Total(n, [j \in 0..(n - 1) |-> M[i][j] * M[k][j]])
    BY <2>1, InnerIs
  <2>3. [j \in 0..(n - 1) |-> M[i][j] * M[k][j]]
          = [j \in 0..(n - 1) |-> WalshEntry(i, j, st, ex, fac) * WalshEntry(k, j, st, ex, fac)]
    BY <1>1
  <2>4. Total(n, [j \in 0..(n - 1) |-> WalshEntry(i, j, st, ex, fac) * WalshEntry(k, j, st, ex, fac)])
          = IF i = k THEN s ELSE 0
    BY RowsOfWindows
  <2> QED BY <2>2, <2>3, <2>4
<1>3. ScaledIsometry(T, S, s, n)
  <2>1. s \in Int
    BY DEF Windows
  <2> QED BY <1>1, <1>2, <2>1, MatrixIsometry
<1>4. ASSUME NEW v \in Vec(n) PROVE T[v] = Z[v] /\ S[v] = Z[v]
  <2>1. ASSUME NEW i \in 0..(n - 1)
        PROVE  /\ Total(n, [j \in 0..(n - 1) |-> M[i][j] * v[j]]) = WindowSum(v, i, st, ex, fac)
               /\ Total(n, [j \in 0..(n - 1) |-> M[j][i] * v[j]]) = WindowSum(v, i, st, ex, fac)
    <3>1. [j \in 0..(n - 1) |-> M[i][j] * v[j]]
            = [j \in 0..(n - 1) |-> WalshEntry(i, j, st, ex, fac) * v[j]]
      <4>1. \A j \in 0..(n - 1) : M[i][j] = WalshEntry(i, j, st, ex, fac)
        BY <1>1
      <4> QED BY <4>1
    <3>2. [j \in 0..(n - 1) |-> M[j][i] * v[j]]
            = [j \in 0..(n - 1) |-> WalshEntry(j, i, st, ex, fac) * v[j]]
      <4>1. \A j \in 0..(n - 1) : M[j][i] = WalshEntry(j, i, st, ex, fac)
        BY <1>1
      <4> QED BY <4>1
    <3>3. AlongRow(v, i, n, st, ex, fac) = WindowSum(v, i, st, ex, fac)
      BY SumOfWindow
    <3>4. DownColumn(v, i, n, st, ex, fac) = WindowSum(v, i, st, ex, fac)
      BY SumOfWindow
    <3> QED BY <3>1, <3>2, <3>3, <3>4 DEF AlongRow, DownColumn
  <2> QED BY <2>1
<1>5. T = Z /\ S = Z
  <2>1. T = [v \in Vec(n) |-> T[v]] /\ S = [v \in Vec(n) |-> S[v]] /\ Z = [v \in Vec(n) |-> Z[v]]
    OBVIOUS
  <2> HIDE DEF T, S, Z
  <2> QED BY <1>4, <2>1
<1> HIDE DEF T, S, Z
<1>6. ScaledIsometry(Z, Z, s, n)
  BY <1>3, <1>5
<1> QED BY <1>6 DEF Z

-----------------------------------------------------------------------------
(* Blocks of powers of two. *)

(* OffsetOf is the sum of what is before.                                   *)
LEMMA OffsetIs ==
  ASSUME NEW b, NEW m \in Nat, NEW k \in Nat, k = m + 1
  PROVE  OffsetOf(b, k) = Total(m, [i \in 0..(m - 1) |-> b[i + 1]])
<1>1. OffsetOf(b, k) = Total(k - 1, [i \in 0..(k - 1 - 1) |-> b[i + 1]])
  BY DEF OffsetOf, SumTo
<1>2. k - 1 = m
  OBVIOUS
<1> QED BY <1>1, <1>2

(* Each block lies behind the one before.                                   *)
LEMMA Offsets ==
  ASSUME NEW b \in Seq(Nat)
  PROVE  /\ OffsetOf(b, 1) = 0
         /\ \A k \in 1..Len(b) : OffsetOf(b, k + 1) = OffsetOf(b, k) + b[k]
         /\ \A k \in 1..(Len(b) + 1) : OffsetOf(b, k) \in Nat
<1> DEFINE f(k) == [i \in 0..(k - 1 - 1) |-> b[i + 1]]
<1>0. Len(b) \in Nat /\ \A k \in 1..Len(b) : b[k] \in Nat
  BY ElementOfSeq, LenProperties
<1>1. \A k : OffsetOf(b, k) = Total(k - 1, f(k))
  BY DEF OffsetOf, SumTo
<1> HIDE DEF f
<1>2. OffsetOf(b, 1) = 0
  <2>1. 1 - 1 = 0
    OBVIOUS
  <2> QED BY <1>1, <2>1, TotalOfNone
<1>3. ASSUME NEW k \in 1..Len(b)
      PROVE  OffsetOf(b, k + 1) = OffsetOf(b, k) + b[k]
  <2>1. PICK m \in Nat : m = k - 1 /\ k = m + 1 /\ (k + 1) - 1 = m + 1
    OBVIOUS
  <2> DEFINE g == [i \in 0..m |-> b[i + 1]]
  <2>2. g \in [0..m -> Int] /\ g[m] = b[k]
    <3>1. \A i \in 0..m : i + 1 \in 1..Len(b)
      BY <2>1
    <3>2. \A i \in 0..m : b[i + 1] \in Int
      BY <1>0, <3>1
    <3> QED BY <2>1, <3>2
  <2>3. f(k + 1) = g
    <3>1. (k + 1) - 1 - 1 = m
      BY <2>1
    <3> QED BY <3>1 DEF f
  <2>4. [i \in 0..(m - 1) |-> g[i]] = f(k)
    <3>1. k - 1 - 1 = m - 1
      BY <2>1
    <3>2. \A i \in 0..(m - 1) : i \in 0..m
      OBVIOUS
    <3> QED BY <3>1, <3>2 DEF f
  <2> HIDE DEF g
  <2>5. Total(m + 1, g) = Total(m, [i \in 0..(m - 1) |-> g[i]]) + g[m]
    BY <2>2, TotalNext
  <2> QED BY <1>1, <2>1, <2>2, <2>3, <2>4, <2>5
<1>4. \A k \in 1..(Len(b) + 1) : OffsetOf(b, k) \in Nat
  <2> DEFINE S == {m \in Nat : m + 1 <= Len(b) + 1 => OffsetOf(b, m + 1) \in Nat}
  <2>1. 0 \in S
    BY <1>2
  <2>2. ASSUME NEW m \in Nat, m \in S PROVE m + 1 \in S
    <3>1. ASSUME (m + 1) + 1 <= Len(b) + 1 PROVE OffsetOf(b, (m + 1) + 1) \in Nat
      <4>1. m + 1 \in 1..Len(b)
        BY <1>0, <3>1
      <4>2. OffsetOf(b, m + 1) \in Nat
        BY <1>0, <2>2, <3>1
      <4>3. OffsetOf(b, (m + 1) + 1) = OffsetOf(b, m + 1) + b[m + 1] /\ b[m + 1] \in Nat
        BY <1>0, <1>3, <4>1
      <4> QED BY <4>2, <4>3
    <3> QED BY <3>1
  <2> HIDE DEF S
  <2>3. \A m \in Nat : m \in S
    BY <2>1, <2>2, SubsetInduction
  <2>4. \A k \in 1..(Len(b) + 1) : k - 1 \in Nat /\ (k - 1) + 1 = k /\ (k - 1) + 1 <= Len(b) + 1
    BY <1>0
  <2> TAKE k \in 1..(Len(b) + 1)
  <2>5. k - 1 \in S
    BY <2>3, <2>4
  <2> QED BY <2>4, <2>5 DEF S
<1> QED BY <1>2, <1>3, <1>4

(* One more block in front moves all of them.                               *)
LEMMA OffsetOfCons ==
  ASSUME NEW p \in Nat, NEW b \in Seq(Nat)
  PROVE  OffsetOf(<<p>> \o b, Len(<<p>> \o b) + 1) = p + OffsetOf(b, Len(b) + 1)
<1> DEFINE c == <<p>> \o b
           n == Len(b)
           f == [i \in 0..n |-> c[i + 1]]
           g == [i \in 0..(n - 1) |-> b[i + 1]]
<1>1. /\ c \in Seq(Nat) /\ Len(c) = n + 1 /\ c[1] = p /\ n \in Nat
      /\ \A j \in 1..n : c[j + 1] = b[j]
  BY ConsElements, LenProperties
<1> HIDE DEF c, n
<1>2. \A j \in 1..(n + 1) : c[j] \in Nat
  BY <1>1, ElementOfSeq
<1>3. f \in [0..n -> Int] /\ f[0] = p
  <2>1. \A i \in 0..n : i + 1 \in 1..(n + 1)
    BY <1>1
  <2>2. \A i \in 0..n : c[i + 1] \in Int
    BY <1>2, <2>1
  <2> QED BY <1>1, <2>2
<1>4. g = [i \in 0..(n - 1) |-> f[i + 1]]
  <2>1. ASSUME NEW i \in 0..(n - 1) PROVE f[i + 1] = b[i + 1]
    <3>1. i + 1 \in 0..n /\ i + 1 \in 1..n
      BY <1>1
    <3> QED BY <1>1, <3>1
  <2> QED BY <2>1
<1>5. OffsetOf(c, Len(c) + 1) = Total(n + 1, f)
  <2>1. PICK m \in Nat, k \in Nat : m = n + 1 /\ k = m + 1 /\ m - 1 = n
    BY <1>1
  <2>2. OffsetOf(c, k) = Total(m, [i \in 0..(m - 1) |-> c[i + 1]])
    BY <2>1, OffsetIs
  <2> QED BY <1>1, <2>1, <2>2
<1>6. OffsetOf(b, n + 1) = Total(n, g)
  <2>1. PICK k \in Nat : k = n + 1
    BY <1>1
  <2>2. OffsetOf(b, k) = Total(n, [i \in 0..(n - 1) |-> b[i + 1]])
    BY <1>1, <2>1, OffsetIs
  <2> QED BY <2>1, <2>2
<1> HIDE DEF f, g
<1>7. Total(n + 1, f) = f[0] + Total(n, [i \in 0..(n - 1) |-> f[i + 1]])
  BY <1>1, <1>3, TotalNext
<1>8. OffsetOf(c, Len(c) + 1) = p + OffsetOf(b, n + 1)
  BY <1>3, <1>4, <1>5, <1>6, <1>7
<1> QED BY <1>8 DEF c, n

(* Root finds a whole root where there is one.                              *)
LEMMA RootIs ==
  ASSUME NEW n \in Nat, \E r \in 1..n : r * r = n
  PROVE  Root(n) \in 1..n /\ Root(n) * Root(n) = n
  BY DEF Root

(* What the blocks of a dimension are: powers of two, none longer than the  *)
(* first, that add up to it.                                                *)
BlocksOf(b, n) ==
  /\ b \in Seq(Nat) /\ Len(b) \in Nat \ {0}
  /\ b[1] = FloorPowerOf2(n)
  /\ \A k \in 1..Len(b) : b[k] <= b[1] /\ \E e \in Nat : b[k] = 2^e
  /\ OffsetOf(b, Len(b) + 1) = n

(* GreedyPowerOf2Blocks makes such blocks.                                  *)
LEMMA GreedyIs ==
  ASSUME NEW n \in Nat, n >= 1
  PROVE  BlocksOf(GreedyPowerOf2Blocks(n), n)
<1> DEFINE V == Seq(Nat)
           P(i) == FloorPowerOf2(i)
           prev == [i \in 1..n |-> i - P(i)]
           D == [p \in V \X (1..n) |-> <<P(p[2])>> \o p[1]]
           Unfolds(x) == x = [i \in 0..n |-> IF i = 0 THEN << >>
                                            ELSE <<FloorPowerOf2(i)>> \o x[i - FloorPowerOf2(i)]]
<1>1. \A i \in 1..n : P(i) \in 1..i /\ P(i) \in Nat
  <2> TAKE i \in 1..n
  <2>1. i \in Nat /\ i >= 1
    OBVIOUS
  <2>2. FloorPowerOf2(i) \in 1..i
    BY <2>1, FloorIs
  <2> QED BY <2>2
<1> HIDE DEF P
<1>2. \A i \in 1..n : prev[i] \in 0..(i - 1) /\ prev[i] = i - P(i)
  BY <1>1
<1> HIDE DEF prev
<1>3. D \in [V \X (1..n) -> V] /\ << >> \in V
  <2>1. ASSUME NEW i \in 1..n, NEW s \in Seq(Nat) PROVE <<P(i)>> \o s \in Seq(Nat)
    BY <1>1, ConsElements
  <2>2. << >> \in Seq(Nat)
    OBVIOUS
  <2> QED BY <2>1, <2>2
<1>4. PICK f : Descending(f, V, << >>, n, prev, D)
  <2>1. \A i \in 1..n : prev[i] \in 0..(i - 1)
    BY <1>2
  <2> HIDE DEF D, V
  <2> QED BY <1>3, <2>1, DescentExists
<1>5. /\ f \in [0..n -> V] /\ f[0] = << >>
      /\ \A i \in 1..n : f[i] = D[<<f[prev[i]], i>>]
  <2> HIDE DEF D, V
  <2> QED BY <1>4 DEF Descending
<1>6. Unfolds(f)
  <2>1. ASSUME NEW i \in 1..n PROVE f[i] = <<P(i)>> \o f[i - P(i)]
    <3>1. prev[i] \in 0..n
      BY <1>2
    <3>2. f[prev[i]] \in V
      <4> HIDE DEF V, D
      <4> QED BY <1>5, <3>1
    <3>3. D[<<f[prev[i]], i>>] = <<P(i)>> \o f[prev[i]]
      <4> HIDE DEF V
      <4> QED BY <3>2
    <3> HIDE DEF D, V
    <3> QED BY <1>2, <1>5, <3>3
  <2>2. \A i \in 0..n : i = 0 \/ i \in 1..n
    OBVIOUS
  <2> HIDE DEF D, V
  <2> QED BY <1>5, <2>1, <2>2 DEF P
<1> DEFINE x == CHOOSE y : Unfolds(y)
<1>7. Unfolds(x)
  <2> HIDE DEF Unfolds
  <2> QED BY <1>6
<1>8. GreedyPowerOf2Blocks(n) = x[n]
  BY DEF GreedyPowerOf2Blocks
<1> HIDE DEF x, D
<1>9. x[0] = << >> /\ \A i \in 1..n : x[i] = <<P(i)>> \o x[i - P(i)]
  <2> DEFINE R(i) == IF i = 0 THEN << >> ELSE <<FloorPowerOf2(i)>> \o x[i - FloorPowerOf2(i)]
  <2>1. x = [i \in 0..n |-> R(i)]
    BY <1>7
  <2>2. \A i \in 0..n : x[i] = R(i)
    <3> HIDE DEF R
    <3> QED BY <2>1
  <2>3. 0 \in 0..n /\ \A i \in 1..n : i \in 0..n /\ i # 0
    OBVIOUS
  <2>4. R(0) = << >> /\ \A i \in 1..n : R(i) = <<P(i)>> \o x[i - P(i)]
    BY <2>3 DEF P
  <2> HIDE DEF R
  <2> QED BY <2>2, <2>3, <2>4
<1> HIDE DEF Unfolds
<1> DEFINE Upto(k) == \A i \in 1..n : i <= k => BlocksOf(x[i], i)
           S == {k \in Nat : Upto(k)}
<1>10. 0 \in S
  OBVIOUS
<1>11. ASSUME NEW k \in Nat, k \in S PROVE k + 1 \in S
  <2>1. ASSUME NEW i \in 1..n, i = k + 1 PROVE BlocksOf(x[i], i)
    <3>1. PICK p \in Nat : p = P(i) /\ p \in 1..i
      BY <1>1
    <3>2. PICK e \in Nat : p = 2^e /\ 2 * p > i
      <4>1. i \in Nat /\ i >= 1
        OBVIOUS
      <4>2. (\E e \in Nat : FloorPowerOf2(i) = 2^e) /\ 2 * FloorPowerOf2(i) > i
        BY <4>1, FloorIs
      <4> QED BY <3>1, <4>2 DEF P
    <3>3. x[i] = <<p>> \o x[i - p]
      BY <1>9, <3>1
    <3>4. CASE i = p
      <4>1. x[i] = <<p>> \o << >>
        <5>1. i - p = 0
          BY <3>4
        <5> QED BY <1>9, <3>3, <5>1
      <4>2. << >> \in Seq(Nat) /\ Len(<< >>) = 0
        OBVIOUS
      <4>3. x[i] \in Seq(Nat) /\ Len(x[i]) = 1 /\ x[i][1] = p
        BY <4>1, <4>2, ConsElements
      <4>4. OffsetOf(x[i], Len(x[i]) + 1) = p
        <5>1. OffsetOf(<<p>> \o << >>, Len(<<p>> \o << >>) + 1) = p + OffsetOf(<< >>, 0 + 1)
          BY <4>2, OffsetOfCons
        <5>2. OffsetOf(<< >>, 0 + 1) = 0
          <6>1. 0 + 1 = 1
            OBVIOUS
          <6> QED BY <4>2, <6>1, Offsets
        <5> QED BY <4>1, <5>1, <5>2
      <4>5. \A j \in 1..Len(x[i]) : x[i][j] = p
        BY <4>3
      <4> QED BY <3>1, <3>2, <3>4, <4>3, <4>4, <4>5 DEF BlocksOf, P
    <3>5. CASE i # p
      <4>1. PICK m \in 1..n : m = i - p /\ m <= k /\ m < p
        BY <2>1, <3>1, <3>2, <3>5
      <4>2. BlocksOf(x[m], m)
        BY <1>11, <4>1
      <4> DEFINE b == x[m]
      <4>3. /\ b \in Seq(Nat) /\ Len(b) \in Nat \ {0} /\ b[1] = FloorPowerOf2(m)
            /\ \A j \in 1..Len(b) : b[j] <= b[1] /\ \E d \in Nat : b[j] = 2^d
            /\ OffsetOf(b, Len(b) + 1) = m
        BY <4>2 DEF BlocksOf
      <4> DEFINE c == x[i]
      <4>4. c = <<p>> \o b
        BY <3>3, <4>1
      <4>5. P(m) = b[1] /\ P(m) \in 1..m
        BY <1>1, <4>1, <4>3 DEF P
      <4> HIDE DEF b, c
      <4>6. c \in Seq(Nat) /\ Len(c) = Len(b) + 1 /\ c[1] = p
            /\ \A j \in 1..Len(b) : c[j + 1] = b[j]
        BY <4>3, <4>4, ConsElements
      <4>7. OffsetOf(c, Len(c) + 1) = i
        <5>1. OffsetOf(c, Len(c) + 1) = p + OffsetOf(b, Len(b) + 1)
          BY <4>3, <4>4, OffsetOfCons
        <5> QED BY <3>1, <4>1, <4>3, <5>1
      <4>8. ASSUME NEW j \in 1..Len(c) PROVE c[j] <= c[1] /\ \E d \in Nat : c[j] = 2^d
        <5>1. CASE j = 1
          BY <3>2, <4>6, <5>1
        <5>2. CASE j # 1
          <6>1. PICK h \in 1..Len(b) : j = h + 1
            <7>1. j - 1 \in 1..Len(b) /\ j = (j - 1) + 1
              BY <4>3, <4>6, <5>2
            <7> QED BY <7>1
          <6>2. c[j] = b[h] /\ b[h] <= b[1] /\ \E d \in Nat : b[h] = 2^d
            BY <4>3, <4>6, <6>1
          <6>3. b[h] \in Nat
            BY <4>3, ElementOfSeq
          <6> QED BY <4>1, <4>5, <4>6, <6>2, <6>3
        <5> QED BY <5>1, <5>2
      <4>9. BlocksOf(c, i)
        BY <3>1, <4>3, <4>6, <4>7, <4>8 DEF BlocksOf, P
      <4> QED BY <4>9 DEF c
    <3> QED BY <3>4, <3>5
  <2>2. \A i \in 1..n : i <= k + 1 => i <= k \/ i = k + 1
    OBVIOUS
  <2>3. Upto(k + 1)
    BY <1>11, <2>1, <2>2
  <2> QED BY <2>3
<1> HIDE DEF Upto
<1>12. \A k \in Nat : k \in S
  <2> HIDE DEF S
  <2> QED BY <1>10, <1>11, SubsetInduction
<1>13. Upto(n)
  BY <1>12
<1> QED BY <1>8, <1>13 DEF Upto

(* The blocks as windows.                                                   *)
BlockAt(b, i) ==
  CHOOSE k \in 1..Len(b) : OffsetOf(b, k) <= i /\ i < OffsetOf(b, k) + b[k]

(* Every component lies in one block, and in no other.                      *)
LEMMA BlockAtIs ==
  ASSUME NEW b \in Seq(Nat), NEW i \in Nat, i < OffsetOf(b, Len(b) + 1)
  PROVE  /\ BlockAt(b, i) \in 1..Len(b)
         /\ OffsetOf(b, BlockAt(b, i)) <= i
         /\ i < OffsetOf(b, BlockAt(b, i)) + b[BlockAt(b, i)]
         /\ \A k \in 1..Len(b) :
              OffsetOf(b, k) <= i /\ i < OffsetOf(b, k) + b[k] => k = BlockAt(b, i)
<1> DEFINE In(k) == OffsetOf(b, k) <= i /\ i < OffsetOf(b, k) + b[k]
           L == Len(b)
<1>0. L \in Nat /\ \A k \in 1..L : b[k] \in Nat
  BY ElementOfSeq, LenProperties
<1>1. /\ OffsetOf(b, 1) = 0
      /\ \A k \in 1..L : OffsetOf(b, k + 1) = OffsetOf(b, k) + b[k]
      /\ \A k \in 1..(L + 1) : OffsetOf(b, k) \in Nat
  BY Offsets
<1>2. \E k \in 1..L : In(k)
  <2> DEFINE S == {m \in Nat : m <= L => (i < OffsetOf(b, m + 1) => \E k \in 1..L : In(k))}
  <2>1. 0 \in S
    <3>1. 0 + 1 = 1
      OBVIOUS
    <3> QED BY <1>1, <3>1
  <2>2. ASSUME NEW m \in Nat, m \in S PROVE m + 1 \in S
    <3> SUFFICES ASSUME m + 1 <= L, i < OffsetOf(b, (m + 1) + 1) PROVE \E k \in 1..L : In(k)
      OBVIOUS
    <3>1. m + 1 \in 1..L /\ m <= L /\ m + 1 \in 1..(L + 1)
      BY <1>0
    <3>2. OffsetOf(b, (m + 1) + 1) = OffsetOf(b, m + 1) + b[m + 1] /\ OffsetOf(b, m + 1) \in Nat
      BY <1>1, <3>1
    <3>3. CASE i < OffsetOf(b, m + 1)
      BY <2>2, <3>1, <3>3
    <3>4. CASE ~(i < OffsetOf(b, m + 1))
      <4>1. In(m + 1)
        BY <3>2, <3>4
      <4> QED BY <3>1, <4>1
    <3> QED BY <3>3, <3>4
  <2> HIDE DEF S
  <2>3. \A m \in Nat : m \in S
    BY <2>1, <2>2, SubsetInduction
  <2>4. L \in S /\ L <= L
    BY <1>0, <2>3
  <2> QED BY <2>4 DEF S
<1>3. ASSUME NEW j \in 1..L, NEW k \in 1..L, j < k
      PROVE  OffsetOf(b, j) + b[j] <= OffsetOf(b, k)
  <2> DEFINE o == [h \in 1..(L + 1) |-> OffsetOf(b, h)]
             f == [h \in 1..L |-> b[h]]
  <2>1. \A h \in 1..L : h \in 1..(L + 1) /\ h + 1 \in 1..(L + 1)
    BY <1>0
  <2>2. o \in [1..(L + 1) -> Nat] /\ f \in [1..L -> Nat] /\ \A h \in 1..L : o[h + 1] = o[h] + f[h]
    BY <1>0, <1>1, <2>1
  <2>3. o[j] = OffsetOf(b, j) /\ o[k] = OffsetOf(b, k) /\ f[j] = b[j]
    BY <2>1
  <2> HIDE DEF o, f, L
  <2>4. o[j] + f[j] <= o[k]
    BY <1>0, <1>3, <2>2, SumsGrow
  <2> QED BY <2>3, <2>4
<1>4. ASSUME NEW j \in 1..L, NEW k \in 1..L, In(j), In(k) PROVE j = k
  <2>1. OffsetOf(b, j) \in Nat /\ OffsetOf(b, k) \in Nat /\ b[j] \in Nat /\ b[k] \in Nat
    BY <1>0, <1>1
  <2>2. ~(j < k)
    BY <1>3, <1>4, <2>1
  <2>3. ~(k < j)
    BY <1>3, <1>4, <2>1
  <2> QED BY <1>0, <2>2, <2>3
<1> DEFINE c == CHOOSE k \in 1..L : In(k)
<1>5. c \in 1..L /\ In(c)
  <2> HIDE DEF In
  <2> QED BY <1>2
<1>6. BlockAt(b, i) = c
  BY DEF BlockAt
<1> HIDE DEF c
<1> QED BY <1>4, <1>5, <1>6

(* The transform of the blocks, component by component: where the window of *)
(* each starts, its length as a power of two, and its factor.               *)
BlockStart(b, n) == [i \in 0..(n - 1) |-> OffsetOf(b, BlockAt(b, i))]
BlockExponent(b, n) == [i \in 0..(n - 1) |-> CHOOSE e \in Nat : b[BlockAt(b, i)] = 2^e]
BlockFactor(b, n) == [i \in 0..(n - 1) |-> Root(b[1]) \div Root(b[BlockAt(b, i)])]

(* The factor of a block squared and its length make the scale of the first.*)
LEMMA BlockFactorIs ==
  ASSUME NEW n \in Nat, NEW b, BlocksOf(b, n), WholeScales(b), NEW k \in 1..Len(b),
         NEW e \in Nat, b[k] = 2^e
  PROVE  /\ Root(b[1]) \div Root(b[k]) \in Nat
         /\ ((Root(b[1]) \div Root(b[k])) * (Root(b[1]) \div Root(b[k]))) * 2^e = b[1]
<1>1. /\ 1 \in 1..Len(b) /\ b[1] \in Nat /\ b[k] \in Nat /\ b[k] <= b[1]
      /\ \E d \in Nat : b[1] = 2^d
  <2>1. b \in Seq(Nat) /\ Len(b) \in Nat \ {0}
        /\ \A j \in 1..Len(b) : b[j] <= b[1] /\ \E d \in Nat : b[j] = 2^d
    BY DEF BlocksOf
  <2>2. 1 \in 1..Len(b)
    BY <2>1
  <2>3. b[1] \in Nat /\ b[k] \in Nat
    BY <2>1, <2>2, ElementOfSeq
  <2> QED BY <2>1, <2>2, <2>3
<1>2. PICK d \in Nat : b[1] = 2^d
  BY <1>1
<1>3. \A j \in 1..Len(b) : \E r \in 1..b[j] : r * r = b[j]
  <2>1. DOMAIN b = 1..Len(b)
    BY DEF BlocksOf
  <2> QED BY <2>1 DEF WholeScales
<1>4. PICK R \in Nat, r \in Nat : R = Root(b[1]) /\ R * R = 2^d /\ r = Root(b[k]) /\ r * r = 2^e
  <2>1. Root(b[1]) \in 1..b[1] /\ Root(b[1]) * Root(b[1]) = b[1]
    BY <1>1, <1>3, RootIs
  <2>2. Root(b[k]) \in 1..b[k] /\ Root(b[k]) * Root(b[k]) = b[k]
    BY <1>1, <1>3, RootIs
  <2>3. Root(b[1]) \in Nat /\ Root(b[k]) \in Nat
    BY <2>1, <2>2, <1>1
  <2> QED BY <1>2, <2>1, <2>2, <2>3
<1>5. PICK x \in Nat : R = 2^x /\ d = x + x
  BY <1>4, RootOfPower
<1>6. PICK y \in Nat : r = 2^y /\ e = y + y
  BY <1>4, RootOfPower
<1>7. e <= d
  BY <1>1, <1>2, PowersGrow
<1>8. PICK z \in Nat : x = y + z
  <2>1. x - y \in Nat /\ x = y + (x - y)
    BY <1>5, <1>6, <1>7
  <2> QED BY <2>1
<1>9. PICK f \in Nat \ {0}, c \in Nat \ {0} : f = 2^z /\ c = 2^y
  BY PowersOfTwo
<1>10. R = c * f /\ r = c
  BY <1>5, <1>6, <1>8, <1>9, PowersMultiply
<1>11. R \div r = f
  <2>1. 0 \in 0..(c - 1) /\ f \in Int /\ c * f + 0 = c * f
    BY <1>9
  <2>2. (c * f + 0) \div c = f
    BY <1>9, <2>1, Quotients
  <2>3. (c * f) \div c = f
    BY <2>1, <2>2
  <2> QED BY <1>10, <2>3
<1>12. (f * f) * (c * c) = (c * f) * (c * f)
  OBVIOUS
<1>13. c * c = 2^e /\ (c * f) * (c * f) = 2^d
  BY <1>4, <1>10
<1> QED BY <1>2, <1>4, <1>11, <1>12, <1>13

(* A block lies within the vector.                                          *)
LEMMA BlocksFit ==
  ASSUME NEW n \in Nat, NEW b, BlocksOf(b, n), NEW k \in 1..Len(b)
  PROVE  OffsetOf(b, k) + b[k] <= n
<1> DEFINE L == Len(b)
           o == [h \in 1..(L + 1) |-> OffsetOf(b, h)]
           f == [h \in 1..L |-> b[h]]
<1>1. b \in Seq(Nat) /\ L \in Nat \ {0} /\ OffsetOf(b, L + 1) = n
  BY DEF BlocksOf
<1>2. /\ \A h \in 1..L : OffsetOf(b, h + 1) = OffsetOf(b, h) + b[h] /\ b[h] \in Nat
      /\ \A h \in 1..(L + 1) : OffsetOf(b, h) \in Nat
  BY <1>1, Offsets, ElementOfSeq
<1>3. \A h \in 1..L : h \in 1..(L + 1) /\ h + 1 \in 1..(L + 1)
  BY <1>1
<1>4. o \in [1..(L + 1) -> Nat] /\ f \in [1..L -> Nat] /\ \A h \in 1..L : o[h + 1] = o[h] + f[h]
  BY <1>1, <1>2, <1>3
<1>5. o[k] = OffsetOf(b, k) /\ f[k] = b[k] /\ L \in 1..L /\ o[L + 1] = n /\ L + 1 \in 1..(L + 1)
  BY <1>1, <1>3
<1> HIDE DEF o, f, L
<1>6. k \in 1..L
  BY DEF L
<1>7. CASE k = L
  <2>1. o[L + 1] = o[L] + f[L]
    BY <1>4, <1>5
  <2> QED BY <1>5, <1>7, <2>1
<1>8. CASE k # L
  <2>1. k < L /\ L \in Nat
    BY <1>1, <1>6, <1>8
  <2>2. o[k] + f[k] <= o[L]
    BY <1>4, <1>5, <1>6, <2>1, SumsGrow
  <2>3. o[L + 1] = o[L] + f[L]
    BY <1>4, <1>5
  <2>4. PICK x \in Nat, y \in Nat, z \in Nat, w \in Nat : x = o[L] /\ y = f[L] /\ z = o[k] /\ w = f[k]
    <3>1. o[L] \in Nat /\ f[L] \in Nat
      BY <1>3, <1>4, <1>5
    <3>2. o[k] \in Nat /\ f[k] \in Nat
      BY <1>3, <1>4, <1>6
    <3> QED BY <3>1, <3>2
  <2>5. z + w <= x + y
    BY <2>2, <2>4
  <2> QED BY <1>5, <2>3, <2>4, <2>5
<1> QED BY <1>7, <1>8

(* Blocks lie side by side, and all have the scale of the first.            *)
LEMMA BlocksAreWindows ==
  ASSUME NEW n \in Nat, NEW b, BlocksOf(b, n), WholeScales(b)
  PROVE  Windows(BlockStart(b, n), BlockExponent(b, n), BlockFactor(b, n), b[1], n)
<1> DEFINE st == BlockStart(b, n)
           ex == BlockExponent(b, n)
           fac == BlockFactor(b, n)
           L == Len(b)
<1>1. /\ b \in Seq(Nat) /\ L \in Nat \ {0} /\ OffsetOf(b, L + 1) = n
      /\ \A k \in 1..L : b[k] \in Nat /\ \E e \in Nat : b[k] = 2^e
  <2>1. b \in Seq(Nat) /\ Len(b) \in Nat \ {0} /\ OffsetOf(b, Len(b) + 1) = n
        /\ \A j \in 1..Len(b) : \E d \in Nat : b[j] = 2^d
    BY DEF BlocksOf
  <2>2. \A k \in 1..Len(b) : b[k] \in Nat
    BY <2>1, ElementOfSeq
  <2> QED BY <2>1, <2>2
<1>2. /\ \A k \in 1..L : OffsetOf(b, k + 1) = OffsetOf(b, k) + b[k]
      /\ \A k \in 1..(L + 1) : OffsetOf(b, k) \in Nat
  BY <1>1, Offsets
<1>3. b[1] \in Int
  <2>1. 1 \in 1..L
    BY <1>1
  <2> QED BY <1>1, <2>1
<1>4. ASSUME NEW k \in 1..L PROVE OffsetOf(b, k) + b[k] <= n
  BY BlocksFit
<1> HIDE DEF L
<1>5. ASSUME NEW i \in 0..(n - 1)
      PROVE  /\ BlockAt(b, i) \in 1..L
             /\ OffsetOf(b, BlockAt(b, i)) <= i
             /\ i < OffsetOf(b, BlockAt(b, i)) + b[BlockAt(b, i)]
             /\ \A k \in 1..L :
                  OffsetOf(b, k) <= i /\ i < OffsetOf(b, k) + b[k] => k = BlockAt(b, i)
  <2>1. i \in Nat /\ i < OffsetOf(b, L + 1)
    BY <1>1
  <2> QED BY <1>1, <2>1, BlockAtIs DEF L
<1>6. ASSUME NEW i \in 0..(n - 1)
      PROVE  /\ st[i] = OffsetOf(b, BlockAt(b, i))
             /\ ex[i] \in Nat /\ b[BlockAt(b, i)] = 2^ex[i]
             /\ fac[i] = Root(b[1]) \div Root(b[BlockAt(b, i)])
  <2>1. ex[i] = CHOOSE e \in Nat : b[BlockAt(b, i)] = 2^e
    BY DEF BlockExponent
  <2>2. \E e \in Nat : b[BlockAt(b, i)] = 2^e
    BY <1>1, <1>5
  <2>3. ex[i] \in Nat /\ b[BlockAt(b, i)] = 2^ex[i]
    <3> HIDE DEF ex
    <3> QED BY <2>1, <2>2
  <2> QED BY <2>3 DEF BlockStart, BlockFactor
<1> HIDE DEF st, ex, fac
<1>7. ASSUME NEW i \in 0..(n - 1)
      PROVE  /\ st[i] \in Nat /\ ex[i] \in Nat /\ fac[i] \in Int
             /\ st[i] <= i /\ i < st[i] + 2^ex[i] /\ st[i] + 2^ex[i] <= n
             /\ (fac[i] * fac[i]) * 2^ex[i] = b[1]
  <2>1. PICK k \in 1..L : k = BlockAt(b, i)
    BY <1>5
  <2>2. st[i] = OffsetOf(b, k) /\ ex[i] \in Nat /\ b[k] = 2^ex[i]
        /\ fac[i] = Root(b[1]) \div Root(b[k])
    BY <1>6, <2>1
  <2>3. OffsetOf(b, k) \in Nat
    <3>1. k \in 1..(L + 1)
      BY <1>1
    <3> QED BY <1>2, <3>1
  <2>4. fac[i] \in Nat /\ (fac[i] * fac[i]) * 2^ex[i] = b[1]
    BY <2>2, BlockFactorIs DEF L
  <2>5. st[i] <= i /\ i < st[i] + 2^ex[i]
    BY <1>5, <2>1, <2>2
  <2>6. st[i] + 2^ex[i] <= n
    BY <1>4, <2>2
  <2> QED BY <2>2, <2>3, <2>4, <2>5, <2>6
<1>8. ASSUME NEW i \in 0..(n - 1), NEW j \in 0..(n - 1), st[i] <= j, j < st[i] + 2^ex[i]
      PROVE  st[j] = st[i] /\ ex[j] = ex[i] /\ fac[j] = fac[i]
  <2>1. PICK k \in 1..L : k = BlockAt(b, i)
    BY <1>5
  <2>2. OffsetOf(b, k) <= j /\ j < OffsetOf(b, k) + b[k]
    BY <1>6, <1>8, <2>1
  <2>3. BlockAt(b, j) = BlockAt(b, i)
    BY <1>5, <2>1, <2>2
  <2> QED BY <1>6, <2>3 DEF st, ex, fac, BlockStart, BlockExponent, BlockFactor
<1> QED BY <1>3, <1>7, <1>8 DEF Windows, st, ex, fac

(* One block's step of TransformBlocks.                                     *)
BlockStep(blocks, u, k) ==
  LET width == blocks[k + 1]
      start == OffsetOf(blocks, k + 1)
      w == FWHT(u, start, width)
      rescale == Root(blocks[1]) \div Root(width)
  IN Table([i \in DOMAIN u |->
       IF i \in start..(start + width - 1) THEN w[i] * rescale ELSE w[i]])

BlockSum(v, i, b, n) ==
  WindowSum(v, i, BlockStart(b, n), BlockExponent(b, n), BlockFactor(b, n))

(* The first k blocks are transformed.                                      *)
Transformed(u, v, k, b, n) ==
  /\ u \in Vec(n)
  /\ \A i \in 0..(n - 1) : u[i] = IF BlockAt(b, i) <= k THEN BlockSum(v, i, b, n) ELSE v[i]

(* A step transforms one block more.                                        *)
LEMMA BlockStepIs ==
  ASSUME NEW n \in Nat, NEW b, BlocksOf(b, n), WholeScales(b), NEW v \in Vec(n),
         NEW u \in Vec(n), NEW k \in 0..(Len(b) - 1)
  PROVE  /\ BlockStep(b, u, k) \in Vec(n)
         /\ Transformed(u, v, k, b, n) => Transformed(BlockStep(b, u, k), v, k + 1, b, n)
<1> DEFINE L == Len(b)
           h == k + 1
<1>1. /\ b \in Seq(Nat) /\ L \in Nat \ {0} /\ OffsetOf(b, L + 1) = n
      /\ \A j \in 1..L : b[j] \in Nat /\ \E e \in Nat : b[j] = 2^e
  <2>1. b \in Seq(Nat) /\ Len(b) \in Nat \ {0} /\ OffsetOf(b, Len(b) + 1) = n
        /\ \A j \in 1..Len(b) : \E d \in Nat : b[j] = 2^d
    BY DEF BlocksOf
  <2>2. \A j \in 1..Len(b) : b[j] \in Nat
    BY <2>1, ElementOfSeq
  <2> QED BY <2>1, <2>2
<1>2. h \in 1..L /\ k \in Nat
  BY <1>1
<1>3. PICK m \in Nat : b[h] = 2^m
  BY <1>1, <1>2
<1> DEFINE o == OffsetOf(b, h)
           r == Root(b[1]) \div Root(b[h])
           w == FWHT(u, o, 2^m)
           R(i) == IF i \in o..(o + 2^m - 1) THEN w[i] * r ELSE w[i]
<1> HIDE DEF h
<1>4. /\ o \in Nat
      /\ \A i \in 0..(n - 1) : /\ BlockAt(b, i) \in 1..L
                               /\ o <= i /\ i < o + 2^m <=> BlockAt(b, i) = h
  <2>1. o \in Nat
    <3>1. h \in 1..(L + 1)
      BY <1>1, <1>2
    <3> QED BY <1>1, <3>1, Offsets
  <2>2. ASSUME NEW i \in 0..(n - 1)
        PROVE  BlockAt(b, i) \in 1..L /\ (o <= i /\ i < o + 2^m <=> BlockAt(b, i) = h)
    <3>1. i \in Nat /\ i < OffsetOf(b, L + 1)
      BY <1>1
    <3>2. /\ BlockAt(b, i) \in 1..L
          /\ OffsetOf(b, BlockAt(b, i)) <= i
          /\ i < OffsetOf(b, BlockAt(b, i)) + b[BlockAt(b, i)]
          /\ \A j \in 1..L : OffsetOf(b, j) <= i /\ i < OffsetOf(b, j) + b[j] => j = BlockAt(b, i)
      <4> HIDE DEF o
      <4> QED BY <1>1, <3>1, BlockAtIs
    <3> QED BY <1>2, <1>3, <3>2
  <2> QED BY <2>1, <2>2
<1>5. r \in Nat
  BY <1>2, <1>3, BlockFactorIs
<1>6. o + 2^m <= n
  BY <1>2, <1>3, BlocksFit
<1>7. /\ w \in Vec(n)
      /\ \A i \in 0..(n - 1) : ~(i \in o..(o + 2^m - 1)) => w[i] = u[i]
      /\ \A a \in 0..(2^m - 1) : w[o + a] =
           Total(2^m, [j \in 0..(2^m - 1) |-> W(a, j) * u[o + j]])
  <2> HIDE DEF o, r
  <2> QED BY <1>4, <1>6, FWHTIs
<1>8. BlockStep(b, u, k) = [i \in 0..(n - 1) |-> R(i)]
  <2>1. DOMAIN u = 0..(n - 1)
    BY DEF Vec
  <2>2. BlockStep(b, u, k) = [i \in DOMAIN u |-> R(i)]
    BY <1>3, TableIs DEF BlockStep, h
  <2> HIDE DEF R
  <2> QED BY <2>1, <2>2
<1> HIDE DEF o, r, w
<1>9. \A i \in 0..(n - 1) : R(i) \in Int
  <2>1. \A i \in 0..(n - 1) : w[i] \in Int
    BY <1>7 DEF Vec
  <2> QED BY <1>5, <2>1
<1>10. BlockStep(b, u, k) \in Vec(n) /\ \A i \in 0..(n - 1) : BlockStep(b, u, k)[i] = R(i)
  <2> HIDE DEF R
  <2> QED BY <1>8, <1>9 DEF Vec
<1>11. ASSUME Transformed(u, v, k, b, n), NEW i \in 0..(n - 1)
       PROVE  R(i) = IF BlockAt(b, i) <= h THEN BlockSum(v, i, b, n) ELSE v[i]
  <2>1. \A j \in 0..(n - 1) : u[j] = IF BlockAt(b, j) <= k THEN BlockSum(v, j, b, n) ELSE v[j]
    BY <1>11 DEF Transformed
  <2>2. PICK c \in Nat \ {0} : c = 2^m
    BY PowersOfTwo
  <2>3. h = k + 1 /\ h \in Nat
    BY <1>2 DEF h
  <2>4. CASE ~(o <= i /\ i < o + 2^m)
    <3>1. R(i) = u[i]
      <4>1. ~(i \in o..(o + c - 1))
        BY <1>4, <2>2, <2>4
      <4> QED BY <1>7, <2>2, <4>1
    <3>2. BlockAt(b, i) # h /\ BlockAt(b, i) \in 1..L
      BY <1>4, <2>4
    <3>3. BlockAt(b, i) <= k <=> BlockAt(b, i) <= h
      BY <1>1, <1>2, <2>3, <3>2
    <3> HIDE DEF R
    <3> QED BY <2>1, <3>1, <3>3
  <2>5. CASE o <= i /\ i < o + 2^m
    <3>1. BlockAt(b, i) = h
      BY <1>4, <2>5
    <3>2. PICK a \in 0..(c - 1) : i = o + a /\ i - o = a
      <4>1. i - o \in 0..(c - 1) /\ i = o + (i - o)
        BY <1>4, <2>2, <2>5
      <4> QED BY <4>1
    <3>3. i \in o..(o + c - 1)
      BY <1>4, <2>2, <2>5
    <3>4. R(i) = w[i] * r
      BY <2>2, <3>3
    <3>5. \A j \in 0..(c - 1) : u[o + j] = v[o + j]
      <4> TAKE j \in 0..(c - 1)
      <4>1. o + j \in 0..(n - 1) /\ o <= o + j /\ o + j < o + c
        BY <1>4, <1>6, <2>2
      <4>2. BlockAt(b, o + j) = h
        BY <1>4, <2>2, <4>1
      <4> QED BY <2>1, <2>3, <4>1, <4>2
    <3>6. w[i] = Total(c, [j \in 0..(c - 1) |-> W(a, j) * v[o + j]])
      <4>1. w[o + a] = Total(c, [j \in 0..(c - 1) |-> W(a, j) * u[o + j]])
        BY <1>7, <2>2
      <4>2. [j \in 0..(c - 1) |-> W(a, j) * u[o + j]] = [j \in 0..(c - 1) |-> W(a, j) * v[o + j]]
        BY <3>5
      <4> QED BY <3>2, <4>1, <4>2
    <3> DEFINE st == BlockStart(b, n)
               ex == BlockExponent(b, n)
               fac == BlockFactor(b, n)
    <3>7. st[i] = o /\ fac[i] = r /\ 2^ex[i] = c
      <4>1. ex[i] = CHOOSE e \in Nat : b[h] = 2^e
        BY <3>1 DEF BlockExponent
      <4>2. b[h] = 2^ex[i]
        <5> HIDE DEF ex
        <5> QED BY <1>3, <4>1
      <4> QED BY <1>3, <2>2, <3>1, <4>2 DEF BlockStart, BlockFactor, o, r
    <3>8. BlockSum(v, i, b, n) = r * Total(c, [j \in 0..(c - 1) |-> W(a, j) * v[o + j]])
      BY <3>2, <3>7 DEF BlockSum, WindowSum
    <3>9. w[i] \in Int
      BY <1>7 DEF Vec
    <3>10. R(i) = BlockSum(v, i, b, n)
      BY <1>5, <3>4, <3>6, <3>8, <3>9
    <3> HIDE DEF R
    <3> QED BY <2>3, <3>1, <3>10
  <2> QED BY <2>4, <2>5
<1> QED BY <1>10, <1>11 DEF Transformed, h

(* TransformBlocks is the sum over the block of each component.             *)
LEMMA TransformIs ==
  ASSUME NEW n \in Nat, NEW b, BlocksOf(b, n), WholeScales(b), NEW v \in Vec(n)
  PROVE  TransformBlocks(v, b) = [i \in 0..(n - 1) |-> BlockSum(v, i, b, n)]
<1> DEFINE m == Len(b)
           B(u, k) == BlockStep(b, u, k)
           Unfolds(x) == x = [k \in 0..m |-> IF k = 0 THEN v ELSE B(x[k - 1], k - 1)]
           D == [p \in Vec(n) \X (0..(m - 1)) |-> B(p[1], p[2])]
<1>0. m \in Nat \ {0} /\ b \in Seq(Nat) /\ OffsetOf(b, m + 1) = n
  BY DEF BlocksOf
<1>1. ASSUME NEW u \in Vec(n), NEW k \in 0..(m - 1)
      PROVE  /\ B(u, k) \in Vec(n)
             /\ Transformed(u, v, k, b, n) => Transformed(B(u, k), v, k + 1, b, n)
  BY BlockStepIs
<1> HIDE DEF B
<1>2. PICK f : Steps(f, Vec(n), v, m, D)
  <2>1. D \in [Vec(n) \X (0..(m - 1)) -> Vec(n)]
    BY <1>1
  <2> HIDE DEF D, m
  <2> QED BY <1>0, <2>1, StepsExist
<1>3. Unfolds(f)
  <2>0. /\ f \in [0..m -> Vec(n)] /\ f[0] = v
        /\ \A k \in 1..m : f[k] = D[<<f[k - 1], k - 1>>]
    <3> HIDE DEF D, m
    <3> QED BY <1>2 DEF Steps
  <2> HIDE DEF m
  <2>1. ASSUME NEW k \in 1..m PROVE f[k] = B(f[k - 1], k - 1)
    <3>1. k - 1 \in 0..(m - 1) /\ k - 1 \in 0..m
      BY <1>0
    <3>2. f[k - 1] \in Vec(n)
      BY <2>0, <3>1
    <3> QED BY <2>0, <3>1, <3>2
  <2>2. \A k \in 0..m : k = 0 \/ k \in 1..m
    BY <1>0
  <2> HIDE DEF D
  <2> QED BY <2>0, <2>1, <2>2
<1> DEFINE x == CHOOSE y : Unfolds(y)
<1>4. Unfolds(x)
  <2> HIDE DEF Unfolds
  <2> QED BY <1>3
<1>5. TransformBlocks(v, b) = x[m]
  BY DEF TransformBlocks, Iterate, B, BlockStep
<1> HIDE DEF x, D, m
<1>6. x[0] = v /\ \A k \in 1..m : x[k] = B(x[k - 1], k - 1)
  <2>1. 0 \in 0..m /\ \A k \in 1..m : k \in 0..m /\ k # 0
    BY <1>0
  <2> QED BY <1>4, <2>1
<1> DEFINE S == {k \in Nat : k <= m => Transformed(x[k], v, k, b, n)}
<1> HIDE DEF Unfolds
<1>7. 0 \in S
  <2>1. ASSUME NEW i \in 0..(n - 1) PROVE ~(BlockAt(b, i) <= 0)
    <3>1. i \in Nat /\ i < OffsetOf(b, m + 1)
      BY <1>0
    <3>2. BlockAt(b, i) \in 1..m
      BY <1>0, <3>1, BlockAtIs DEF m
    <3> QED BY <1>0, <3>2
  <2>2. Transformed(v, v, 0, b, n)
    BY <2>1 DEF Transformed
  <2> QED BY <1>6, <2>2
<1>8. ASSUME NEW k \in Nat, k \in S PROVE k + 1 \in S
  <2> SUFFICES ASSUME k + 1 <= m PROVE Transformed(x[k + 1], v, k + 1, b, n)
    OBVIOUS
  <2>1. k \in 0..(m - 1) /\ k + 1 \in 1..m /\ (k + 1) - 1 = k
    BY <1>0
  <2>2. x[k + 1] = B(x[k], k)
    BY <1>6, <2>1
  <2>3. Transformed(x[k], v, k, b, n)
    BY <1>0, <1>8, <2>1
  <2>4. x[k] \in Vec(n)
    BY <2>3 DEF Transformed
  <2>5. Transformed(B(x[k], k), v, k + 1, b, n)
    BY <1>1, <2>1, <2>3, <2>4
  <2> QED BY <2>2, <2>5
<1>9. \A k \in Nat : k \in S
  <2> HIDE DEF S
  <2> QED BY <1>7, <1>8, SubsetInduction
<1>10. Transformed(x[m], v, m, b, n)
  BY <1>0, <1>9
<1>11. \A i \in 0..(n - 1) : x[m][i] = BlockSum(v, i, b, n)
  <2> TAKE i \in 0..(n - 1)
  <2>1. i \in Nat /\ i < OffsetOf(b, m + 1)
    BY <1>0
  <2>2. BlockAt(b, i) \in 1..m
    BY <1>0, <2>1, BlockAtIs DEF m
  <2>3. BlockAt(b, i) <= m
    BY <1>0, <2>2
  <2> QED BY <1>10, <2>3 DEF Transformed
<1>12. x[m] = [i \in 0..(n - 1) |-> x[m][i]]
  BY <1>10 DEF Transformed, Vec
<1> QED BY <1>5, <1>11, <1>12

(* The transform of the blocks is its own adjoint.                          *)
LEMMA BlocksIsometry ==
  ASSUME NEW n \in Nat, NEW b, BlocksOf(b, n), WholeScales(b)
  PROVE  ScaledIsometry([v \in Vec(n) |-> TransformBlocks(v, b)],
                        [v \in Vec(n) |-> TransformBlocks(v, b)], b[1], n)
<1> DEFINE Z == [v \in Vec(n) |-> TransformBlocks(v, b)]
           st == BlockStart(b, n)
           ex == BlockExponent(b, n)
           fac == BlockFactor(b, n)
           Y == [v \in Vec(n) |-> [i \in 0..(n - 1) |-> WindowSum(v, i, st, ex, fac)]]
<1>1. Windows(st, ex, fac, b[1], n)
  BY BlocksAreWindows
<1> HIDE DEF st, ex, fac
<1>2. ScaledIsometry(Y, Y, b[1], n)
  BY <1>1, WindowsIsometry
<1>3. Z = Y
  <2>1. ASSUME NEW v \in Vec(n)
        PROVE  TransformBlocks(v, b) = [i \in 0..(n - 1) |-> WindowSum(v, i, st, ex, fac)]
    BY TransformIs DEF BlockSum, st, ex, fac
  <2> QED BY <2>1
<1> QED BY <1>2, <1>3

-----------------------------------------------------------------------------
(* A window of FHT-Kac. *)

(* A transform of one window, the rest scaled alike; of everything, none is *)
(* left to scale.                                                           *)
WindowFits(start, m, n) ==
  /\ start \in Nat /\ m \in Nat /\ start + 2^m <= n
  /\ 2^m # n => \E r \in 1..(2^m) : r * r = 2^m

WalshSum(v, start, c, a) == Total(c, [j \in 0..(c - 1) |-> W(a, j) * v[start + j]])

(* FWHTIs, with the length of the window given a name.                      *)
LEMMA FWHTWithin ==
  ASSUME NEW n \in Nat, NEW start \in Nat, NEW m \in Nat, NEW c, c = 2^m, start + c <= n,
         NEW v \in Vec(n)
  PROVE  /\ FWHT(v, start, c) \in Vec(n)
         /\ \A a \in 0..(c - 1) : FWHT(v, start, c)[start + a] = WalshSum(v, start, c, a)
         /\ \A k \in 0..(n - 1) : ~(k \in start..(start + c - 1)) => FWHT(v, start, c)[k] = v[k]
<1>1. start + 2^m <= n
  OBVIOUS
<1>2. /\ FWHT(v, start, 2^m) \in Vec(n)
      /\ \A i \in 0..(n - 1) : ~(i \in start..(start + 2^m - 1)) =>
           FWHT(v, start, 2^m)[i] = v[i]
      /\ \A a \in 0..(2^m - 1) : FWHT(v, start, 2^m)[start + a] =
           Total(2^m, [j \in 0..(2^m - 1) |-> W(a, j) * v[start + j]])
  BY <1>1, FWHTIs
<1> QED BY <1>2 DEF WalshSum

(* ApplyNormalizedFwhtWindow, component by component.                       *)
LEMMA WindowIs ==
  ASSUME NEW n \in Nat, NEW start, NEW m, WindowFits(start, m, n), NEW v \in Vec(n)
  PROVE  LET w == FWHT(v, start, 2^m)
         IN /\ w \in Vec(n)
            /\ ApplyNormalizedFwhtWindow(v, start, 2^m) \in Vec(n)
            /\ \A i \in 0..(n - 1) : ApplyNormalizedFwhtWindow(v, start, 2^m)[i] =
                 IF start <= i /\ i < start + 2^m THEN w[i] ELSE w[i] * Root(2^m)
<1> DEFINE w == FWHT(v, start, 2^m)
           t == ApplyNormalizedFwhtWindow(v, start, 2^m)
           R(i) == IF i \in start..(start + 2^m - 1) THEN w[i] ELSE w[i] * Root(2^m)
<1>1. start \in Nat /\ m \in Nat /\ start + 2^m <= n
  BY DEF WindowFits
<1>2. PICK c \in Nat \ {0} : c = 2^m
  BY <1>1, PowersOfTwo
<1>3. w \in Vec(n)
  BY <1>1, FWHTIs
<1>4. t = [i \in 0..(n - 1) |-> R(i)]
  <2>1. DOMAIN v = 0..(n - 1)
    BY DEF Vec
  <2>2. t = [i \in DOMAIN v |-> R(i)]
    BY TableIs DEF ApplyNormalizedFwhtWindow
  <2> HIDE DEF R
  <2> QED BY <2>1, <2>2
<1> HIDE DEF w, t
<1>5. \A i \in 0..(n - 1) : R(i) \in Int
                           /\ R(i) = IF start <= i /\ i < start + 2^m THEN w[i] ELSE w[i] * Root(2^m)
  <2> TAKE i \in 0..(n - 1)
  <2>1. w[i] \in Int
    BY <1>3 DEF Vec
  <2>2. i \in start..(start + 2^m - 1) <=> start <= i /\ i < start + 2^m
    BY <1>1, <1>2
  <2>3. CASE start <= i /\ i < start + 2^m
    BY <2>1, <2>2, <2>3
  <2>4. CASE ~(start <= i /\ i < start + 2^m)
    <3>1. c # n
      BY <1>1, <1>2, <2>4
    <3>2. Root(c) \in 1..c
      BY <1>2, <3>1, RootIs DEF WindowFits
    <3>3. w[i] * Root(c) \in Int
      BY <2>1, <3>2
    <3> QED BY <1>2, <2>2, <2>4, <3>3
  <2> QED BY <2>3, <2>4
<1> HIDE DEF R
<1>6. t \in Vec(n) /\ \A i \in 0..(n - 1) : t[i] = R(i)
  BY <1>4, <1>5 DEF Vec
<1> QED BY <1>3, <1>5, <1>6 DEF t, w

(* The transform of a window, and the rest scaled, is an isometry.          *)
LEMMA WindowIsometry ==
  ASSUME NEW n \in Nat, NEW start \in Nat, NEW m \in Nat, WindowFits(start, m, n)
  PROVE  ScaledIsometry([v \in Vec(n) |-> ApplyNormalizedFwhtWindow(v, start, 2^m)],
                        [v \in Vec(n) |-> ApplyNormalizedFwhtWindow(v, start, 2^m)], 2^m, n)
<1> DEFINE In(i) == start <= i /\ i < start + 2^m
           st == [i \in 0..(n - 1) |-> IF In(i) THEN start ELSE i]
           ex == [i \in 0..(n - 1) |-> IF In(i) THEN m ELSE 0]
           fac == [i \in 0..(n - 1) |-> IF In(i) THEN 1 ELSE Root(2^m)]
           Z == [v \in Vec(n) |-> ApplyNormalizedFwhtWindow(v, start, 2^m)]
           Y == [v \in Vec(n) |-> [i \in 0..(n - 1) |-> WindowSum(v, i, st, ex, fac)]]
<1>1. start \in Nat /\ m \in Nat /\ start + 2^m <= n
  BY DEF WindowFits
<1>2. PICK c \in Nat \ {0} : c = 2^m /\ 2^0 = 1
  BY <1>1, PowersOfTwo
<1>3. ASSUME NEW i \in 0..(n - 1), ~In(i)
      PROVE  Root(c) \in Nat /\ Root(c) * Root(c) = c
  <2>1. c # n
    BY <1>1, <1>2, <1>3
  <2> QED BY <1>2, <2>1, RootIs DEF WindowFits
<1>4. ASSUME NEW i \in 0..(n - 1)
      PROVE  /\ In(i) => st[i] = start /\ ex[i] = m /\ fac[i] = 1
             /\ ~In(i) => st[i] = i /\ ex[i] = 0 /\ fac[i] = Root(c)
  BY <1>2
<1> HIDE DEF st, ex, fac
<1>5. Windows(st, ex, fac, c, n)
  <2>1. ASSUME NEW i \in 0..(n - 1)
        PROVE  /\ st[i] \in Nat /\ ex[i] \in Nat /\ fac[i] \in Int
               /\ st[i] <= i /\ i < st[i] + 2^ex[i] /\ st[i] + 2^ex[i] <= n
               /\ (fac[i] * fac[i]) * 2^ex[i] = c
    <3>1. CASE In(i)
      BY <1>1, <1>2, <1>4, <3>1
    <3>2. CASE ~In(i)
      <4>1. PICK r \in Nat : r = Root(c) /\ r * r = c
        BY <1>3, <3>2
      <4>2. st[i] = i /\ ex[i] = 0 /\ fac[i] = r
        BY <1>4, <3>2, <4>1
      <4>3. (r * r) * 1 = c
        BY <1>2, <4>1
      <4> QED BY <1>2, <4>2, <4>3
    <3> QED BY <3>1, <3>2
  <2>2. ASSUME NEW i \in 0..(n - 1), NEW j \in 0..(n - 1), st[i] <= j, j < st[i] + 2^ex[i]
        PROVE  st[j] = st[i] /\ ex[j] = ex[i] /\ fac[j] = fac[i]
    <3>1. CASE In(i)
      <4>1. In(j)
        BY <1>4, <2>2, <3>1
      <4> QED BY <1>4, <3>1, <4>1
    <3>2. CASE ~In(i)
      <4>1. st[i] = i /\ ex[i] = 0
        BY <1>4, <3>2
      <4>2. i = j
        BY <1>2, <2>2, <4>1
      <4> QED BY <4>2
    <3> QED BY <3>1, <3>2
  <2>3. c \in Int
    OBVIOUS
  <2> HIDE DEF In
  <2> QED BY <2>1, <2>2, <2>3 DEF Windows
<1>6. ScaledIsometry(Y, Y, c, n)
  <2> HIDE DEF In
  <2>1. c \in Int
    OBVIOUS
  <2> QED BY <1>5, <2>1, WindowsIsometry
<1>7. ASSUME NEW v \in Vec(n), NEW i \in 0..(n - 1)
      PROVE  WindowSum(v, i, st, ex, fac) = ApplyNormalizedFwhtWindow(v, start, 2^m)[i]
  <2> DEFINE w == FWHT(v, start, c)
  <2>1. /\ w \in Vec(n)
        /\ \A a \in 0..(c - 1) : w[start + a] = WalshSum(v, start, c, a)
        /\ \A k \in 0..(n - 1) : ~(k \in start..(start + c - 1)) => w[k] = v[k]
    <3> HIDE DEF Z, Y, In
    <3> QED BY <1>1, <1>2, FWHTWithin
  <2>2. ApplyNormalizedFwhtWindow(v, start, 2^m)[i] = IF In(i) THEN w[i] ELSE w[i] * Root(c)
    BY <1>2, WindowIs
  <2> HIDE DEF w
  <2>3. w[i] \in Int /\ v[i] \in Int
    BY <2>1 DEF Vec
  <2>4. CASE In(i)
    <3>1. PICK a \in 0..(c - 1) : i = start + a /\ i - start = a
      <4>1. i - start \in 0..(c - 1) /\ i = start + (i - start)
        BY <1>1, <1>2, <2>4
      <4> QED BY <4>1
    <3>2. WindowSum(v, i, st, ex, fac) =
            1 * Total(c, [j \in 0..(c - 1) |-> W(a, j) * v[start + j]])
      BY <1>2, <1>4, <2>4, <3>1 DEF WindowSum
    <3>3. WindowSum(v, i, st, ex, fac) = 1 * w[i]
      BY <2>1, <3>1, <3>2 DEF WalshSum
    <3> QED BY <2>2, <2>3, <2>4, <3>3
  <2>5. CASE ~In(i)
    <3>1. PICK r \in Nat : r = Root(c)
      BY <1>3, <2>5
    <3> DEFINE g == [j \in 0..(1 - 1) |-> W(i - i, j) * v[i + j]]
    <3>2. WindowSum(v, i, st, ex, fac) = r * Total(1, g)
      BY <1>2, <1>4, <2>5, <3>1 DEF WindowSum
    <3>3. g[0] = v[i]
      <4>1. g[0] = W(0, 0) * v[i]
        <5>1. i - i = 0 /\ i + 0 = i /\ 0 \in 0..(1 - 1)
          OBVIOUS
        <5> QED BY <5>1
      <4>2. \A z \in Int : 1 * z = z
        OBVIOUS
      <4> HIDE DEF g
      <4> QED BY <2>3, <4>1, <4>2, WalshZero
    <3>4. g \in [0..(1 - 1) -> Int] /\ 0 \in 0..(1 - 1) /\ \A j \in 0..(1 - 1) : j # 0 => g[j] = 0
      <4>1. \A j \in 0..(1 - 1) : j = 0
        OBVIOUS
      <4>2. g = [j \in 0..(1 - 1) |-> g[j]]
        OBVIOUS
      <4> HIDE DEF g
      <4> QED BY <2>3, <3>3, <4>1, <4>2
    <3> HIDE DEF g
    <3>5. Total(1, g) = g[0]
      BY <3>4, TotalOfOne
    <3>6. w[i] = v[i]
      <4>1. ~(i \in start..(start + c - 1))
        BY <1>1, <1>2, <2>5
      <4> QED BY <2>1, <4>1
    <3>7. r * v[i] = v[i] * r
      BY <2>3
    <3> HIDE DEF In
    <3> QED BY <2>2, <2>5, <3>1, <3>2, <3>3, <3>5, <3>6, <3>7
  <2> QED BY <2>4, <2>5
<1>8. Z = Y
  <2>1. ASSUME NEW v \in Vec(n)
        PROVE  ApplyNormalizedFwhtWindow(v, start, 2^m) =
                 [i \in 0..(n - 1) |-> WindowSum(v, i, st, ex, fac)]
    <3>1. ApplyNormalizedFwhtWindow(v, start, 2^m) =
            [i \in 0..(n - 1) |-> ApplyNormalizedFwhtWindow(v, start, 2^m)[i]]
      BY WindowIs DEF Vec
    <3> QED BY <1>7, <3>1
  <2> QED BY <2>1
<1> HIDE DEF Y, Z
<1> QED BY <1>2, <1>6, <1>8 DEF Z

(* The transform of the whole vector is a Hadamard matrix.                  *)
LEMMA WholeWindow ==
  ASSUME NEW m \in Nat, NEW n \in Nat, n = 2^m
  PROVE  /\ ScaledIsometry([v \in Vec(n) |-> FWHT(v, 0, n)], [v \in Vec(n) |-> FWHT(v, 0, n)], n, n)
         /\ \A v \in Vec(n) : \A i \in 0..(n - 1) :
              FWHT(v, 0, n)[i] = Total(n, [j \in 0..(n - 1) |-> W(i, j) * v[j]])
<1> DEFINE Z == [v \in Vec(n) |-> ApplyNormalizedFwhtWindow(v, 0, 2^m)]
           Y == [v \in Vec(n) |-> FWHT(v, 0, n)]
<1>1. WindowFits(0, m, n)
  BY DEF WindowFits
<1>2. ScaledIsometry(Z, Z, 2^m, n)
  BY <1>1, WindowIsometry
<1>3. ASSUME NEW v \in Vec(n) PROVE ApplyNormalizedFwhtWindow(v, 0, 2^m) = FWHT(v, 0, n)
  <2>1. /\ FWHT(v, 0, n) \in Vec(n) /\ ApplyNormalizedFwhtWindow(v, 0, 2^m) \in Vec(n)
        /\ \A i \in 0..(n - 1) : ApplyNormalizedFwhtWindow(v, 0, 2^m)[i] =
             IF 0 <= i /\ i < 0 + n THEN FWHT(v, 0, n)[i] ELSE FWHT(v, 0, n)[i] * Root(2^m)
    BY <1>1, WindowIs
  <2>2. \A i \in 0..(n - 1) : 0 <= i /\ i < 0 + n
    OBVIOUS
  <2> QED BY <2>1, <2>2 DEF Vec
<1>4. Z = Y
  BY <1>3
<1>5. ASSUME NEW v \in Vec(n), NEW i \in 0..(n - 1)
      PROVE  FWHT(v, 0, n)[i] = Total(n, [j \in 0..(n - 1) |-> W(i, j) * v[j]])
  <2>1. 0 + n <= n /\ 0 + i = i /\ \A j \in 0..(n - 1) : 0 + j = j
    OBVIOUS
  <2>2. FWHT(v, 0, n)[0 + i] = Total(n, [j \in 0..(n - 1) |-> W(i, j) * v[0 + j]])
    BY <2>1, FWHTIs
  <2> QED BY <2>1, <2>2
<1> HIDE DEF Z
<1> QED BY <1>2, <1>4, <1>5

-----------------------------------------------------------------------------
(* Rounds. *)

(* The rounds of FHT-Kac, by the fields they read.                          *)
KacSigns(n, signs, k) == [i \in 0..(n - 1) |-> signs[k * n + i]]
KacStart(n, w, k) == IF w # n /\ k % 2 = 1 THEN n - w ELSE 0

KacRound(n, w, signs, u, k) ==
  ApplyNormalizedHalfMix(
    ApplyNormalizedFwhtWindow(Signed(u, KacSigns(n, signs, k)), KacStart(n, w, k), w), n)

KacUndo(n, w, signs, u, k) ==
  Signed(ApplyNormalizedFwhtWindow(ApplyNormalizedHalfMix(u, n), KacStart(n, w, k), w),
         KacSigns(n, signs, k))

KacTransform(n, R, w, signs, v) == Iterate(R, v, LAMBDA u, k : KacRound(n, w, signs, u, k))
KacInverse(n, R, w, signs, v) == Iterate(R, v, LAMBDA u, k : KacUndo(n, w, signs, u, R - 1 - k))

(* They are what the transform goes through.                                *)
LEMMA ApplyFhtKacIs ==
  \A r, v : /\ ApplyFhtKacFast(r, v) = KacTransform(r.dim, r.num_rounds, r.trunc_dim, r.kac_signs, v)
            /\ ApplyFhtKacFastInverse(r, v) =
                 KacInverse(r.dim, r.num_rounds, r.trunc_dim, r.kac_signs, v)
<1> TAKE r, v
<1>1. ApplyFhtKacFast(r, v) = KacTransform(r.dim, r.num_rounds, r.trunc_dim, r.kac_signs, v)
  BY Zenon DEF ApplyFhtKacFast, KacTransform, Iterate, KacRound, KacSigns, KacStart, RoundSigns, WindowStart
<1>2. ApplyFhtKacFastInverse(r, v) = KacInverse(r.dim, r.num_rounds, r.trunc_dim, r.kac_signs, v)
  BY Zenon DEF ApplyFhtKacFastInverse, KacInverse, Iterate, KacUndo, UndoRound, KacSigns, KacStart, RoundSigns, WindowStart
<1> QED BY <1>1, <1>2

(* What the generator makes sure of.                                        *)
KacFits(n, R, m, signs) ==
  /\ n \in Nat \ {0} /\ n % 2 = 0 /\ R \in Nat /\ m \in Nat /\ 2^m <= n
  /\ 2^m # n => \E r \in 1..(2^m) : r * r = 2^m
  /\ signs \in [0..(R * n - 1) -> {-1, 1}]

(* One round: signs, a window and a mix of the halves.                      *)
LEMMA KacRoundIsometry ==
  ASSUME NEW n, NEW R, NEW m, NEW signs, KacFits(n, R, m, signs), NEW k \in 0..(R - 1)
  PROVE  ScaledIsometry([v \in Vec(n) |-> KacRound(n, 2^m, signs, v, k)],
                        [v \in Vec(n) |-> KacUndo(n, 2^m, signs, v, k)], 2 * 2^m, n)
<1> DEFINE s == KacSigns(n, signs, k)
           o == KacStart(n, 2^m, k)
           F == [v \in Vec(n) |-> Signed(v, s)]
           G == [v \in Vec(n) |-> ApplyNormalizedFwhtWindow(v, o, 2^m)]
           H == [v \in Vec(n) |-> ApplyNormalizedHalfMix(v, n)]
           FG == [v \in Vec(n) |-> G[F[v]]]
           GF == [v \in Vec(n) |-> F[G[v]]]
           T == [v \in Vec(n) |-> KacRound(n, 2^m, signs, v, k)]
           U == [v \in Vec(n) |-> KacUndo(n, 2^m, signs, v, k)]
           one == 1
           two == 2
<1>1. n \in Nat \ {0} /\ n % 2 = 0 /\ R \in Nat /\ m \in Nat /\ 2^m <= n
  BY DEF KacFits
<1>2. PICK c \in Nat \ {0} : c = 2^m
  BY <1>1, PowersOfTwo
<1>3. s \in [0..(n - 1) -> {-1, 1}]
  <2>1. ASSUME NEW i \in 0..(n - 1) PROVE k * n + i \in 0..(R * n - 1)
    <3>1. PICK d \in Nat : R = k + 1 + d
      <4>1. R - k - 1 \in Nat /\ R = k + 1 + (R - k - 1)
        BY <1>1
      <4> QED BY <4>1
    <3>2. k \in Nat /\ R * n = k * n + n + d * n
      BY <1>1, <3>1
    <3>3. PICK x \in Nat, y \in Nat : x = k * n /\ y = d * n
      BY <1>1, <3>2
    <3> QED BY <1>1, <3>2, <3>3
  <2>2. signs \in [0..(R * n - 1) -> {-1, 1}]
    BY DEF KacFits
  <2>3. \A i \in 0..(n - 1) : signs[k * n + i] \in {-1, 1}
    BY <2>1, <2>2
  <2> QED BY <2>3 DEF KacSigns
<1>4. o \in Nat /\ WindowFits(o, m, n)
  <2>1. o \in {0, n - c}
    BY <1>2 DEF KacStart
  <2>2. n - c \in Nat /\ 0 \in Nat /\ (n - c) + c = n /\ 0 + c <= n
    BY <1>1, <1>2
  <2>3. o \in Nat /\ o + c <= n
    BY <2>1, <2>2
  <2> QED BY <1>1, <1>2, <2>3 DEF WindowFits, KacFits
<1> HIDE DEF s, o
<1>5. ScaledIsometry(F, F, one, n)
  BY <1>1, <1>3, SignedIsometry
<1>6. ScaledIsometry(G, G, c, n)
  BY <1>1, <1>2, <1>4, WindowIsometry
<1>7. ScaledIsometry(H, H, two, n)
  BY <1>1, HalfMixIsometry
<1> HIDE DEF one, two
<1>8. /\ F \in [Vec(n) -> Vec(n)] /\ \A v \in Vec(n) : F[v] = Signed(v, s)
      /\ G \in [Vec(n) -> Vec(n)] /\ \A v \in Vec(n) : G[v] = ApplyNormalizedFwhtWindow(v, o, 2^m)
      /\ H \in [Vec(n) -> Vec(n)] /\ \A v \in Vec(n) : H[v] = ApplyNormalizedHalfMix(v, n)
  BY <1>5, <1>6, <1>7 DEF ScaledIsometry
<1> HIDE DEF F, G, H
<1>9. ScaledIsometry(FG, GF, c * one, n)
  BY <1>1, <1>5, <1>6, IsometriesCompose
<1>10. FG \in [Vec(n) -> Vec(n)] /\ \A v \in Vec(n) : FG[v] = G[F[v]] /\ GF[v] = F[G[v]]
  BY <1>8
<1> HIDE DEF FG, GF
<1>11. ScaledIsometry([v \in Vec(n) |-> H[FG[v]]], [v \in Vec(n) |-> GF[H[v]]], two * (c * one), n)
  BY <1>1, <1>7, <1>9, IsometriesCompose
<1>12. T = [v \in Vec(n) |-> H[FG[v]]]
  <2>1. ASSUME NEW v \in Vec(n) PROVE KacRound(n, 2^m, signs, v, k) = H[FG[v]]
    <3>1. F[v] \in Vec(n) /\ FG[v] \in Vec(n)
      BY <1>8, <1>10
    <3>2. FG[v] = ApplyNormalizedFwhtWindow(Signed(v, s), o, 2^m)
      BY <1>8, <1>10, <3>1
    <3>3. H[FG[v]] = ApplyNormalizedHalfMix(FG[v], n)
      BY <1>8, <3>1
    <3> QED BY <3>2, <3>3 DEF KacRound, s, o
  <2> QED BY <2>1
<1>13. U = [v \in Vec(n) |-> GF[H[v]]]
  <2>1. ASSUME NEW v \in Vec(n) PROVE KacUndo(n, 2^m, signs, v, k) = GF[H[v]]
    <3>1. H[v] \in Vec(n) /\ H[v] = ApplyNormalizedHalfMix(v, n)
      BY <1>8
    <3>2. G[H[v]] \in Vec(n) /\ G[H[v]] = ApplyNormalizedFwhtWindow(H[v], o, 2^m)
      BY <1>8, <3>1
    <3>3. GF[H[v]] = Signed(G[H[v]], s)
      BY <1>8, <1>10, <3>1, <3>2
    <3> QED BY <3>1, <3>2, <3>3 DEF KacUndo, s, o
  <2> QED BY <2>1
<1>14. two * (c * one) = 2 * 2^m
  BY <1>2 DEF one, two
<1> HIDE DEF T, U
<1> QED BY <1>11, <1>12, <1>13, <1>14 DEF T, U

KacSteps(D, n, R, w, signs) ==
  /\ D \in [Vec(n) \X (0..(R - 1)) -> Vec(n)]
  /\ \A u \in Vec(n) : \A k \in 0..(R - 1) : D[<<u, k>>] = KacRound(n, w, signs, u, k)

KacUndoes(E, n, R, w, signs) ==
  /\ E \in [Vec(n) \X (0..(R - 1)) -> Vec(n)]
  /\ \A u \in Vec(n) : \A k \in 0..(R - 1) : E[<<u, k>>] = KacUndo(n, w, signs, u, k)

(* The transform is a run of steps onward ...                               *)
LEMMA KacUnfolds ==
  ASSUME NEW n \in Nat, NEW R \in Nat, NEW w, NEW signs, NEW v \in Vec(n),
         NEW D, KacSteps(D, n, R, w, signs)
  PROVE  \E x : Onward(x, v, D, n, R) /\ x[R] = KacTransform(n, R, w, signs, v)
<1> DEFINE B(u, k) == KacRound(n, w, signs, u, k)
           Unfolds(x) == x = [k \in 0..R |-> IF k = 0 THEN v ELSE B(x[k - 1], k - 1)]
<1>1. \A u \in Vec(n) : \A k \in 0..(R - 1) : D[<<u, k>>] = B(u, k) /\ B(u, k) \in Vec(n)
  BY DEF KacSteps
<1> HIDE DEF B
<1>2. PICK f : Steps(f, Vec(n), v, R, D)
  BY StepsExist DEF KacSteps
<1>3. Unfolds(f)
  <2>0. /\ f \in [0..R -> Vec(n)] /\ f[0] = v
        /\ \A k \in 1..R : f[k] = D[<<f[k - 1], k - 1>>]
    BY <1>2 DEF Steps
  <2>1. ASSUME NEW k \in 1..R PROVE f[k] = B(f[k - 1], k - 1)
    <3>1. k - 1 \in 0..(R - 1) /\ k - 1 \in 0..R
      OBVIOUS
    <3>2. f[k - 1] \in Vec(n)
      BY <2>0, <3>1
    <3> QED BY <1>1, <2>0, <3>1, <3>2
  <2>2. \A k \in 0..R : k = 0 \/ k \in 1..R
    OBVIOUS
  <2> QED BY <2>0, <2>1, <2>2
<1> DEFINE x == CHOOSE y : Unfolds(y)
<1>4. Unfolds(x)
  <2> HIDE DEF Unfolds
  <2> QED BY <1>3
<1>5. KacTransform(n, R, w, signs, v) = x[R]
  BY Zenon DEF KacTransform, Iterate, B
<1> HIDE DEF x
<1>6. DOMAIN x = 0..R /\ x[0] = v /\ \A k \in 1..R : x[k] = B(x[k - 1], k - 1)
  <2>1. 0 \in 0..R /\ \A k \in 1..R : k \in 0..R /\ k # 0
    OBVIOUS
  <2> QED BY <1>4, <2>1
<1>7. x = [k \in 0..R |-> x[k]]
  BY <1>4
<1> HIDE DEF Unfolds
<1>8. ASSUME NEW k \in 1..R, x[k - 1] \in Vec(n) PROVE x[k] \in Vec(n)
  <2>1. k - 1 \in 0..(R - 1)
    OBVIOUS
  <2> QED BY <1>1, <1>6, <1>8, <2>1
<1>9. \A k \in 0..R : x[k] \in Vec(n)
  BY <1>6, <1>8, StepsStay
<1>10. ASSUME NEW k \in 0..(R - 1) PROVE x[k + 1] = D[<<x[k], k>>]
  <2>1. k + 1 \in 1..R /\ (k + 1) - 1 = k /\ k \in 0..R
    OBVIOUS
  <2> QED BY <1>1, <1>6, <1>9, <2>1
<1>11. Onward(x, v, D, n, R)
  BY <1>6, <1>7, <1>9, <1>10 DEF Onward
<1> QED BY <1>5, <1>11

(* ... and the inverse one backward.                                        *)
LEMMA KacInverseUnfolds ==
  ASSUME NEW n \in Nat, NEW R \in Nat, NEW w, NEW signs, NEW v \in Vec(n),
         NEW E, KacUndoes(E, n, R, w, signs)
  PROVE  \E y : Backward(y, v, E, n, R) /\ y[R] = KacInverse(n, R, w, signs, v)
<1> DEFINE B(u, k) == KacUndo(n, w, signs, u, R - 1 - k)
           D == [p \in Vec(n) \X (0..(R - 1)) |-> E[<<p[1], R - 1 - p[2]>>]]
           Unfolds(x) == x = [k \in 0..R |-> IF k = 0 THEN v ELSE B(x[k - 1], k - 1)]
<1>0. \A k \in 0..(R - 1) : R - 1 - k \in 0..(R - 1)
  OBVIOUS
<1>1. \A u \in Vec(n) : \A k \in 0..(R - 1) :
        /\ D[<<u, k>>] = E[<<u, R - 1 - k>>]
        /\ D[<<u, k>>] = B(u, k) /\ B(u, k) \in Vec(n)
  BY <1>0 DEF KacUndoes
<1>2. D \in [Vec(n) \X (0..(R - 1)) -> Vec(n)]
  BY <1>0 DEF KacUndoes
<1> HIDE DEF B, D
<1>3. PICK f : Steps(f, Vec(n), v, R, D)
  BY <1>2, StepsExist
<1>4. Unfolds(f)
  <2>0. /\ f \in [0..R -> Vec(n)] /\ f[0] = v
        /\ \A k \in 1..R : f[k] = D[<<f[k - 1], k - 1>>]
    BY <1>3 DEF Steps
  <2>1. ASSUME NEW k \in 1..R PROVE f[k] = B(f[k - 1], k - 1)
    <3>1. k - 1 \in 0..(R - 1) /\ k - 1 \in 0..R
      OBVIOUS
    <3>2. f[k - 1] \in Vec(n)
      BY <2>0, <3>1
    <3>3. PICK j \in 0..(R - 1) : j = k - 1
      BY <3>1
    <3>4. D[<<f[j], j>>] = B(f[j], j)
      BY <1>1, <3>2, <3>3
    <3> QED BY <2>0, <3>3, <3>4
  <2>2. \A k \in 0..R : k = 0 \/ k \in 1..R
    OBVIOUS
  <2> QED BY <2>0, <2>1, <2>2
<1> DEFINE x == CHOOSE y : Unfolds(y)
<1>5. Unfolds(x)
  <2> HIDE DEF Unfolds
  <2> QED BY <1>4
<1>6. KacInverse(n, R, w, signs, v) = x[R]
  BY DEF KacInverse, Iterate, B
<1> HIDE DEF x
<1>7. x[0] = v /\ \A k \in 1..R : x[k] = B(x[k - 1], k - 1)
  <2>1. 0 \in 0..R /\ \A k \in 1..R : k \in 0..R /\ k # 0
    OBVIOUS
  <2> QED BY <1>5, <2>1
<1>8. x = [k \in 0..R |-> x[k]]
  BY <1>5
<1> HIDE DEF Unfolds
<1>9. ASSUME NEW k \in 1..R, x[k - 1] \in Vec(n) PROVE x[k] \in Vec(n)
  <2>1. k - 1 \in 0..(R - 1)
    OBVIOUS
  <2> QED BY <1>1, <1>7, <1>9, <2>1
<1>10. \A k \in 0..R : x[k] \in Vec(n)
  BY <1>7, <1>9, StepsStay
<1>11. ASSUME NEW k \in 0..(R - 1) PROVE x[k + 1] = E[<<x[k], R - 1 - k>>]
  <2>1. k + 1 \in 1..R /\ (k + 1) - 1 = k /\ k \in 0..R
    OBVIOUS
  <2>2. x[k] \in Vec(n)
    BY <1>10, <2>1
  <2>3. x[k + 1] = B(x[k], k)
    BY <1>7, <2>1
  <2> QED BY <1>1, <2>2, <2>3
<1>12. Backward(x, v, E, n, R)
  BY <1>7, <1>8, <1>10, <1>11 DEF Backward
<1> QED BY <1>6, <1>12

(* All rounds of FHT-Kac are an isometry, and the inverse undoes them.      *)
LEMMA KacIsometry ==
  ASSUME NEW n, NEW R, NEW m, NEW signs, KacFits(n, R, m, signs)
  PROVE  ScaledIsometry([v \in Vec(n) |-> KacTransform(n, R, 2^m, signs, v)],
                        [v \in Vec(n) |-> KacInverse(n, R, 2^m, signs, v)],
                        Power(2 * 2^m, R), n)
<1> DEFINE w == 2^m
           D == [p \in Vec(n) \X (0..(R - 1)) |-> KacRound(n, w, signs, p[1], p[2])]
           E == [p \in Vec(n) \X (0..(R - 1)) |-> KacUndo(n, w, signs, p[1], p[2])]
           X == [v \in Vec(n) |-> CHOOSE x : Onward(x, v, D, n, R)
                                             /\ x[R] = KacTransform(n, R, w, signs, v)]
           Y == [v \in Vec(n) |-> CHOOSE y : Backward(y, v, E, n, R)
                                             /\ y[R] = KacInverse(n, R, w, signs, v)]
<1>1. n \in Nat /\ R \in Nat /\ w \in Nat
  BY PowersOfTwo DEF KacFits
<1>2. PICK b \in Int : b = 2 * 2^m
  BY <1>1
<1>3. ASSUME NEW k \in 0..(R - 1)
      PROVE  /\ \A u \in Vec(n) : KacRound(n, w, signs, u, k) \in Vec(n)
                                  /\ KacUndo(n, w, signs, u, k) \in Vec(n)
             /\ \A u, v \in Vec(n) :
                  /\ Inner(KacRound(n, w, signs, u, k), v) = Inner(u, KacUndo(n, w, signs, v, k))
                  /\ Inner(KacRound(n, w, signs, u, k), KacRound(n, w, signs, v, k)) = b * Inner(u, v)
  <2> DEFINE T == [v \in Vec(n) |-> KacRound(n, w, signs, v, k)]
             U == [v \in Vec(n) |-> KacUndo(n, w, signs, v, k)]
  <2>1. ScaledIsometry(T, U, b, n)
    BY <1>2, KacRoundIsometry
  <2>2. \A v \in Vec(n) : T[v] = KacRound(n, w, signs, v, k) /\ U[v] = KacUndo(n, w, signs, v, k)
    OBVIOUS
  <2> HIDE DEF T, U, w
  <2> QED BY <2>1, <2>2 DEF ScaledIsometry
<1> HIDE DEF w
<1>4. KacSteps(D, n, R, w, signs)
  BY <1>3 DEF KacSteps
<1>5. KacUndoes(E, n, R, w, signs)
  BY <1>3 DEF KacUndoes
<1> HIDE DEF D, E
<1>6. Rounds(D, E, b, n, R)
  BY <1>3, <1>4, <1>5 DEF Rounds, KacSteps, KacUndoes
<1>7. ASSUME NEW v \in Vec(n)
      PROVE  Onward(X[v], v, D, n, R) /\ X[v][R] = KacTransform(n, R, w, signs, v)
  <2>1. \E x : Onward(x, v, D, n, R) /\ x[R] = KacTransform(n, R, w, signs, v)
    BY <1>1, <1>4, KacUnfolds
  <2>2. X[v] = CHOOSE x : Onward(x, v, D, n, R) /\ x[R] = KacTransform(n, R, w, signs, v)
    OBVIOUS
  <2> HIDE DEF X
  <2> QED BY <2>1, <2>2
<1>8. ASSUME NEW v \in Vec(n)
      PROVE  Backward(Y[v], v, E, n, R) /\ Y[v][R] = KacInverse(n, R, w, signs, v)
  <2>1. \E y : Backward(y, v, E, n, R) /\ y[R] = KacInverse(n, R, w, signs, v)
    BY <1>1, <1>5, KacInverseUnfolds
  <2>2. Y[v] = CHOOSE y : Backward(y, v, E, n, R) /\ y[R] = KacInverse(n, R, w, signs, v)
    OBVIOUS
  <2> HIDE DEF Y
  <2> QED BY <2>1, <2>2
<1> HIDE DEF X, Y
<1>9. ScaledIsometry([v \in Vec(n) |-> X[v][R]], [v \in Vec(n) |-> Y[v][R]], Power(b, R), n)
  BY <1>1, <1>6, <1>7, <1>8, FoldIsometry
<1>10. [v \in Vec(n) |-> X[v][R]] = [v \in Vec(n) |-> KacTransform(n, R, w, signs, v)]
  BY <1>7
<1>11. [v \in Vec(n) |-> Y[v][R]] = [v \in Vec(n) |-> KacInverse(n, R, w, signs, v)]
  BY <1>8
<1> QED BY <1>2, <1>9, <1>10, <1>11 DEF w

-----------------------------------------------------------------------------
(* The kinds of rotation. *)

(* The matrix of a transform, applied.                                      *)
DenseOf(r, F, n) == r.dim = n /\ r.data = [i \in 0..(n - 1) |-> F[Basis(n, i)]]

(* The matrix of the transformed basis vectors, applied, is the transform.  *)
LEMMA DenseIs ==
  ASSUME NEW n \in Nat, NEW F, NEW G, NEW s, ScaledIsometry(F, G, s, n), NEW r, DenseOf(r, F, n),
         NEW v \in Vec(n)
  PROVE  ApplyDense(r, v) = F[v] /\ ApplyDenseInverse(r, v) = G[v]
<1>1. /\ r.dim = n /\ \A i \in 0..(n - 1) : r.data[i] = F[Basis(n, i)]
  BY DEF DenseOf
<1>2. DOMAIN v = 0..(n - 1)
  BY DEF Vec
<1>3. F[v] = [j \in 0..(n - 1) |-> Total(n, [i \in 0..(n - 1) |-> F[Basis(n, i)][j] * v[i]])]
  BY IsometryGives
<1>4. G[v] = [i \in 0..(n - 1) |-> Total(n, [j \in 0..(n - 1) |-> F[Basis(n, i)][j] * v[j]])]
  BY IsometryGives
<1>5. ASSUME NEW j \in 0..(n - 1)
      PROVE  [i \in 0..(n - 1) |-> r.data[i][j] * v[i]] = [i \in 0..(n - 1) |-> F[Basis(n, i)][j] * v[i]]
  BY <1>1
<1>6. ASSUME NEW i \in 0..(n - 1)
      PROVE  [j \in 0..(n - 1) |-> r.data[i][j] * v[j]] = [j \in 0..(n - 1) |-> F[Basis(n, i)][j] * v[j]]
  BY <1>1
<1>7. ApplyDense(r, v) = [j \in 0..(n - 1) |-> Total(n, [i \in 0..(n - 1) |-> r.data[i][j] * v[i]])]
  BY <1>1, <1>2 DEF ApplyDense, SumTo
<1>8. ApplyDenseInverse(r, v) =
        [i \in 0..(n - 1) |-> Total(n, [j \in 0..(n - 1) |-> r.data[i][j] * v[j]])]
  BY <1>1, <1>2 DEF ApplyDenseInverse, SumTo
<1> QED BY <1>3, <1>4, <1>5, <1>6, <1>7, <1>8

(* A matrix whose rows are orthogonal is the transform of its rows.         *)
RowsOf(M, n) == [v \in Vec(n) |-> [j \in 0..(n - 1) |-> Total(n, [i \in 0..(n - 1) |-> M[i][j] * v[i]])]]
ColumnsOf(M, n) == [v \in Vec(n) |-> [i \in 0..(n - 1) |-> Total(n, [j \in 0..(n - 1) |-> M[i][j] * v[j]])]]

(* It is the identity of ScaledIsometry with scale one.                     *)
LEMMA RowsIsometry ==
  ASSUME NEW n \in Nat, NEW M \in [0..(n - 1) -> Vec(n)],
         \A i, j \in 0..(n - 1) : Inner(M[i], M[j]) = IF i = j THEN 1 ELSE 0,
         NEW r, r.dim = n, r.data = M
  PROVE  ScaledIsometry(RowsOf(M, n), ColumnsOf(M, n), 1, n) /\ DenseOf(r, RowsOf(M, n), n)
<1> DEFINE one == 1
<1>1. one \in Int /\ \A i, j \in 0..(n - 1) : Inner(M[i], M[j]) = IF i = j THEN one ELSE 0
  OBVIOUS
<1> HIDE DEF one
<1>2. ScaledIsometry(RowsOf(M, n), ColumnsOf(M, n), one, n)
  BY <1>1, MatrixIsometry DEF RowsOf, ColumnsOf
<1>3. ASSUME NEW k \in 0..(n - 1) PROVE RowsOf(M, n)[Basis(n, k)] = M[k]
  <2> DEFINE e == Basis(n, k)
  <2>1. e \in Vec(n)
    BY BasisIsVec
  <2> HIDE DEF e
  <2>2. RowsOf(M, n)[e] = [j \in 0..(n - 1) |-> Total(n, [i \in 0..(n - 1) |-> M[i][j] * e[i]])]
    BY <2>1 DEF RowsOf
  <2>3. ASSUME NEW j \in 0..(n - 1)
        PROVE  Total(n, [i \in 0..(n - 1) |-> M[i][j] * e[i]]) = M[k][j]
    <3> DEFINE u == [i \in 0..(n - 1) |-> M[i][j]]
    <3>1. u \in Vec(n) /\ u[k] = M[k][j]
      BY DEF Vec
    <3>2. [i \in 0..(n - 1) |-> M[i][j] * e[i]] = [i \in 0..(n - 1) |-> u[i] * e[i]]
      OBVIOUS
    <3> HIDE DEF u
    <3>3. Inner(u, e) = Total(n, [i \in 0..(n - 1) |-> u[i] * e[i]])
      BY <2>1, <3>1, InnerIs
    <3>4. Inner(u, e) = u[k]
      BY <3>1, InnerBasis DEF e
    <3> QED BY <3>1, <3>2, <3>3, <3>4
  <2>4. M[k] = [j \in 0..(n - 1) |-> M[k][j]]
    BY DEF Vec
  <2> QED BY <2>2, <2>3, <2>4 DEF e
<1>4. M = [i \in 0..(n - 1) |-> RowsOf(M, n)[Basis(n, i)]]
  BY <1>3
<1> QED BY <1>2, <1>4 DEF DenseOf, one

(* The transforms of the kinds that have one, by the fields they read.      *)
HadamardTransform(n, s) == [v \in Vec(n) |-> Signed(FWHT(v, 0, n), s)]
HadamardInverse(n, s) == [v \in Vec(n) |-> FWHT(Signed(v, s), 0, n)]

(* Kind hadamard: its transform is an isometry with the matrix generated.   *)
LEMMA HadamardIsometry ==
  ASSUME NEW n \in Nat, IsPowerOf2(n), NEW s \in [0..(n - 1) -> {-1, 1}]
  PROVE  /\ ScaledIsometry(HadamardTransform(n, s), HadamardInverse(n, s), n, n)
         /\ \A i \in 0..(n - 1) : HadamardTransform(n, s)[Basis(n, i)] =
              [j \in 0..(n - 1) |-> IF OddPopcount(i, j) THEN -s[j] ELSE s[j]]
<1> DEFINE T == [v \in Vec(n) |-> FWHT(v, 0, n)]
           F == [v \in Vec(n) |-> Signed(v, s)]
           one == 1
<1>1. PICK m \in Nat : n = 2^m
  BY PowerOf2Is
<1>2. /\ ScaledIsometry(T, T, n, n)
      /\ \A v \in Vec(n) : \A i \in 0..(n - 1) :
           FWHT(v, 0, n)[i] = Total(n, [j \in 0..(n - 1) |-> W(i, j) * v[j]])
  BY <1>1, WholeWindow
<1>3. ScaledIsometry(F, F, one, n)
  BY SignedIsometry
<1> HIDE DEF one
<1>4. /\ T \in [Vec(n) -> Vec(n)] /\ \A v \in Vec(n) : T[v] = FWHT(v, 0, n)
      /\ F \in [Vec(n) -> Vec(n)] /\ \A v \in Vec(n) : F[v] = Signed(v, s)
  BY <1>2, <1>3 DEF ScaledIsometry
<1> HIDE DEF T, F
<1>5. ScaledIsometry([v \in Vec(n) |-> F[T[v]]], [v \in Vec(n) |-> T[F[v]]], one * n, n)
  BY <1>2, <1>3, IsometriesCompose
<1>6. \A v \in Vec(n) : F[T[v]] = Signed(FWHT(v, 0, n), s) /\ T[F[v]] = FWHT(Signed(v, s), 0, n)
  BY <1>4
<1>7. one * n = n
  BY DEF one
<1>8. ScaledIsometry(HadamardTransform(n, s), HadamardInverse(n, s), n, n)
  BY <1>5, <1>6, <1>7 DEF HadamardTransform, HadamardInverse
<1>9. ASSUME NEW i \in 0..(n - 1)
      PROVE  HadamardTransform(n, s)[Basis(n, i)] =
               [j \in 0..(n - 1) |-> IF OddPopcount(i, j) THEN -s[j] ELSE s[j]]
  <2> DEFINE e == Basis(n, i)
             w == FWHT(e, 0, n)
  <2>1. e \in Vec(n)
    BY BasisIsVec
  <2>2. w \in Vec(n)
    BY <1>4, <2>1
  <2>3. HadamardTransform(n, s)[e] = Signed(w, s)
    BY <2>1 DEF HadamardTransform
  <2>4. ASSUME NEW j \in 0..(n - 1) PROVE w[j] = W(i, j)
    <3> DEFINE u == [k \in 0..(n - 1) |-> W(j, k)]
    <3>1. u \in Vec(n) /\ u[i] = W(j, i)
      BY WalshType DEF Vec
    <3>2. w[j] = Total(n, [k \in 0..(n - 1) |-> W(j, k) * e[k]])
      <4> HIDE DEF e
      <4> QED BY <1>2, <2>1
    <3>3. [k \in 0..(n - 1) |-> W(j, k) * e[k]] = [k \in 0..(n - 1) |-> u[k] * e[k]]
      OBVIOUS
    <3> HIDE DEF u, w
    <3>4. Inner(u, e) = Total(n, [k \in 0..(n - 1) |-> u[k] * e[k]])
      <4> HIDE DEF e
      <4> QED BY <2>1, <3>1, InnerIs
    <3>5. Inner(u, e) = u[i]
      BY <3>1, InnerBasis
    <3>6. W(i, j) = W(j, i)
      BY WalshSymmetric
    <3> HIDE DEF e
    <3> QED BY <3>1, <3>2, <3>3, <3>4, <3>5, <3>6
  <2> HIDE DEF w, e
  <2>5. Signed(w, s) = [j \in 0..(n - 1) |-> w[j] * s[j]]
    <3>1. DOMAIN w = 0..(n - 1)
      BY <2>2 DEF Vec
    <3> QED BY <3>1, TableIs DEF Signed
  <2>6. ASSUME NEW j \in 0..(n - 1)
        PROVE  w[j] * s[j] = IF OddPopcount(i, j) THEN -s[j] ELSE s[j]
    <3>1. PICK x \in Int : x = s[j] /\ x \in {-1, 1}
      OBVIOUS
    <3>2. (-1) * x = -x /\ 1 * x = x
      OBVIOUS
    <3> QED BY <2>4, <3>1, <3>2 DEF W
  <2> QED BY <2>3, <2>5, <2>6 DEF e
<1> QED BY <1>8, <1>9

BlockedTransform(n, p, b, s) ==
  [v \in Vec(n) |-> Signed(TransformBlocks(Table([i \in DOMAIN v |-> v[p[i]]]), b), s)]
BlockedInverse(n, p, b, s) ==
  [v \in Vec(n) |->
     LET w == TransformBlocks(Signed(v, s), b)
     IN [d \in DOMAIN v |-> w[CHOOSE i \in DOMAIN v : p[i] = d]]]

(* A permutation undone on an index set.                                    *)
Unpermuted(w, D, p) == [d \in D |-> w[CHOOSE i \in D : p[i] = d]]

(* Kind blocked: shuffled, transformed in blocks, and signed.               *)
LEMMA BlockedIsometry ==
  ASSUME NEW n \in Nat, NEW p, Permutes(p, n), NEW b, BlocksOf(b, n), WholeScales(b),
         NEW s \in [0..(n - 1) -> {-1, 1}]
  PROVE  ScaledIsometry(BlockedTransform(n, p, b, s), BlockedInverse(n, p, b, s), b[1], n)
<1> DEFINE T == [v \in Vec(n) |-> TransformBlocks(v, b)]
           F == [v \in Vec(n) |-> Signed(v, s)]
           P == [v \in Vec(n) |-> Table([i \in DOMAIN v |-> v[p[i]]])]
           Q == [v \in Vec(n) |-> [d \in DOMAIN v |-> v[CHOOSE i \in DOMAIN v : p[i] = d]]]
           TP == [v \in Vec(n) |-> T[P[v]]]
           QT == [v \in Vec(n) |-> Q[T[v]]]
           one == 1
<1>1. PICK c \in Int : c = b[1]
  <2>1. b \in Seq(Nat) /\ 1 \in 1..Len(b)
    BY DEF BlocksOf
  <2>2. b[1] \in Nat
    BY <2>1, ElementOfSeq
  <2> QED BY <2>2
<1>2. ScaledIsometry(T, T, c, n)
  BY <1>1, BlocksIsometry
<1>3. ScaledIsometry(F, F, one, n)
  BY SignedIsometry
<1>4. ScaledIsometry(P, Q, one, n)
  BY PermutationIsometry
<1> HIDE DEF one
<1>5. /\ T \in [Vec(n) -> Vec(n)] /\ \A v \in Vec(n) : T[v] = TransformBlocks(v, b)
      /\ F \in [Vec(n) -> Vec(n)] /\ \A v \in Vec(n) : F[v] = Signed(v, s)
      /\ P \in [Vec(n) -> Vec(n)] /\ \A v \in Vec(n) : P[v] = Table([i \in DOMAIN v |-> v[p[i]]])
      /\ Q \in [Vec(n) -> Vec(n)] /\ \A v \in Vec(n) : DOMAIN v = 0..(n - 1)
      /\ \A v \in Vec(n) : Q[v] = Unpermuted(v, 0..(n - 1), p)
  <2>1. \A v \in Vec(n) : DOMAIN v = 0..(n - 1)
    BY DEF Vec
  <2>2. \A v \in Vec(n) : Q[v] = Unpermuted(v, 0..(n - 1), p)
    <3> TAKE v \in Vec(n)
    <3>1. Q[v] = Unpermuted(v, DOMAIN v, p)
      BY Zenon DEF Unpermuted
    <3> HIDE DEF Q
    <3> QED BY <2>1, <3>1
  <2>3. \A v \in Vec(n) : T[v] = TransformBlocks(v, b) /\ F[v] = Signed(v, s)
                          /\ P[v] = Table([i \in DOMAIN v |-> v[p[i]]])
    OBVIOUS
  <2> HIDE DEF T, F, P, Q
  <2> QED BY <1>2, <1>3, <1>4, <2>1, <2>2, <2>3 DEF ScaledIsometry
<1> HIDE DEF T, F, P, Q
<1>6. ScaledIsometry(TP, QT, c * one, n)
  BY <1>2, <1>4, IsometriesCompose
<1>7. TP \in [Vec(n) -> Vec(n)] /\ QT \in [Vec(n) -> Vec(n)]
      /\ \A v \in Vec(n) : TP[v] = T[P[v]] /\ QT[v] = Q[T[v]]
  BY <1>5
<1> HIDE DEF TP, QT
<1>8. ScaledIsometry([v \in Vec(n) |-> F[TP[v]]], [v \in Vec(n) |-> QT[F[v]]], one * (c * one), n)
  BY <1>3, <1>6, IsometriesCompose
<1>9. one * (c * one) = b[1]
  BY <1>1 DEF one
<1>10. ASSUME NEW v \in Vec(n)
       PROVE  F[TP[v]] = Signed(TransformBlocks(Table([i \in DOMAIN v |-> v[p[i]]]), b), s)
  <2>1. P[v] \in Vec(n) /\ TP[v] \in Vec(n)
    BY <1>5, <1>7
  <2>2. TP[v] = TransformBlocks(Table([i \in DOMAIN v |-> v[p[i]]]), b)
    BY <1>5, <1>7, <2>1
  <2> QED BY <1>5, <2>1, <2>2
<1>11. ASSUME NEW v \in Vec(n)
       PROVE  QT[F[v]] = LET w == TransformBlocks(Signed(v, s), b)
                         IN [d \in DOMAIN v |-> w[CHOOSE i \in DOMAIN v : p[i] = d]]
  <2>1. F[v] \in Vec(n) /\ T[F[v]] \in Vec(n) /\ F[v] = Signed(v, s)
    BY <1>5
  <2>2. T[F[v]] = TransformBlocks(Signed(v, s), b)
    BY <1>5, <2>1
  <2>3. QT[F[v]] = Q[T[F[v]]]
    BY <1>7, <2>1
  <2>4. DOMAIN v = 0..(n - 1)
    BY <1>5
  <2>5. QT[F[v]] = Unpermuted(TransformBlocks(Signed(v, s), b), DOMAIN v, p)
    BY <1>5, <2>1, <2>2, <2>3, <2>4
  <2> QED BY <2>5, Zenon DEF Unpermuted
<1>12. [v \in Vec(n) |-> F[TP[v]]] = BlockedTransform(n, p, b, s)
  BY <1>10 DEF BlockedTransform
<1>13. [v \in Vec(n) |-> QT[F[v]]] = BlockedInverse(n, p, b, s)
  BY <1>11 DEF BlockedInverse
<1> QED BY <1>8, <1>9, <1>12, <1>13

(* The transform a matrix of its kind stands for.                           *)
KacRotation(n, R, w, signs) == [v \in Vec(n) |-> KacTransform(n, R, w, signs, v)]
KacRotationInverse(n, R, w, signs) == [v \in Vec(n) |-> KacInverse(n, R, w, signs, v)]

Matches(r, F, G, n) ==
  \/ /\ r.kind = "hadamard"
     /\ F = HadamardTransform(n, r.diag_signs) /\ G = HadamardInverse(n, r.diag_signs)
  \/ /\ r.kind = "blocked"
     /\ F = BlockedTransform(n, r.permutation, r.block_sizes, r.diag_signs)
     /\ G = BlockedInverse(n, r.permutation, r.block_sizes, r.diag_signs)
  \/ /\ r.kind = "fht_kac"
     /\ F = KacRotation(n, r.num_rounds, r.trunc_dim, r.kac_signs)
     /\ G = KacRotationInverse(n, r.num_rounds, r.trunc_dim, r.kac_signs)

Rotates(r, F, G, n) ==
  /\ r.dim = n /\ r.fast \in BOOLEAN
  /\ DenseOf(r, F, n)
  /\ r.fast => Matches(r, F, G, n)

(* Either path of Apply and of ApplyInverse is that transform.              *)
LEMMA RotatesGives ==
  ASSUME NEW n \in Nat, NEW F, NEW G, NEW s, ScaledIsometry(F, G, s, n), NEW r, Rotates(r, F, G, n),
         NEW v \in Vec(n)
  PROVE  Apply(r, v) = F[v] /\ ApplyInverse(r, v) = G[v]
         /\ ApplyDense(r, v) = F[v] /\ ApplyDenseInverse(r, v) = G[v]
<1>1. r.dim = n /\ r.fast \in BOOLEAN /\ (r.fast => Matches(r, F, G, n))
  BY DEF Rotates
<1>2. ApplyDense(r, v) = F[v] /\ ApplyDenseInverse(r, v) = G[v]
  BY DenseIs DEF Rotates
<1>3. CASE ~r.fast
  BY <1>2, <1>3 DEF Apply, ApplyInverse
<1>4. CASE r.fast /\ r.kind = "hadamard"
  <2>1. F = HadamardTransform(n, r.diag_signs) /\ G = HadamardInverse(n, r.diag_signs)
    BY <1>1, <1>4 DEF Matches
  <2>2. Apply(r, v) = Signed(FWHT(v, 0, n), r.diag_signs)
        /\ ApplyInverse(r, v) = FWHT(Signed(v, r.diag_signs), 0, n)
    BY <1>1, <1>4 DEF Apply, ApplyInverse
  <2> QED BY <1>2, <2>1, <2>2 DEF HadamardTransform, HadamardInverse
<1>5. CASE r.fast /\ r.kind = "blocked"
  <2>1. /\ F = BlockedTransform(n, r.permutation, r.block_sizes, r.diag_signs)
        /\ G = BlockedInverse(n, r.permutation, r.block_sizes, r.diag_signs)
    BY <1>1, <1>5 DEF Matches
  <2>2. Apply(r, v) = ApplyBlockedFast(r, v) /\ ApplyInverse(r, v) = ApplyBlockedFastInverse(r, v)
    BY <1>5 DEF Apply, ApplyInverse
  <2>3. BlockedTransform(n, r.permutation, r.block_sizes, r.diag_signs)[v] = ApplyBlockedFast(r, v)
    BY DEF BlockedTransform, ApplyBlockedFast
  <2>4. BlockedInverse(n, r.permutation, r.block_sizes, r.diag_signs)[v] = ApplyBlockedFastInverse(r, v)
    BY Zenon DEF BlockedInverse, ApplyBlockedFastInverse
  <2> QED BY <1>2, <2>1, <2>2, <2>3, <2>4
<1>6. CASE r.fast /\ r.kind = "fht_kac"
  <2>1. /\ F = KacRotation(n, r.num_rounds, r.trunc_dim, r.kac_signs)
        /\ G = KacRotationInverse(n, r.num_rounds, r.trunc_dim, r.kac_signs)
    BY <1>1, <1>6 DEF Matches
  <2>2. Apply(r, v) = ApplyFhtKacFast(r, v) /\ ApplyInverse(r, v) = ApplyFhtKacFastInverse(r, v)
    BY <1>6 DEF Apply, ApplyInverse
  <2> QED BY <1>1, <1>2, <2>1, <2>2, ApplyFhtKacIs DEF KacRotation, KacRotationInverse
<1>7. r.fast => r.kind = "hadamard" \/ r.kind = "blocked" \/ r.kind = "fht_kac"
  BY <1>1 DEF Matches
<1> QED BY <1>1, <1>3, <1>4, <1>5, <1>6, <1>7

(* What a generator that succeeds has made.                                 *)
Made(r) ==
  /\ r.dim \in Dims
  /\ \E F, G : /\ ScaledIsometry(F, G, ScaleSquared(r), r.dim)
               /\ Rotates(r, F, G, r.dim)
               /\ (r.kind = "random" /\ ~r.fast) \/ Matches(r, F, G, r.dim)

(* The probe is a vector.                                                   *)
LEMMA ProbeIsVec == \A n \in Nat : Probe(n) \in Vec(n)
  BY DEF Probe, Vec

(* Rotating preserves inner products but for the scale, of every two        *)
(* vectors, and is undone but for it; the transform is the matrix.          *)
RotatesEveryVector(r) ==
  \A u, v \in Vec(r.dim) :
    /\ Inner(Apply(r, u), Apply(r, v)) = ScaleSquared(r) * Inner(u, v)
    /\ ApplyInverse(r, Apply(r, v)) = [i \in 0..(r.dim - 1) |-> ScaleSquared(r) * v[i]]
    /\ Apply(r, v) = ApplyDense(r, v) /\ ApplyInverse(r, v) = ApplyDenseInverse(r, v)

(* What was made rotates so.                                                *)
LEMMA MadeRotates ==
  ASSUME NEW r, Made(r)
  PROVE  RotatesEveryVector(r)
<1>1. PICK n, s : n \in Nat /\ n = r.dim /\ s = ScaleSquared(r)
  BY RotationAssumption DEF Made
<1>2. PICK F, G : ScaledIsometry(F, G, s, n) /\ Rotates(r, F, G, n)
  BY <1>1 DEF Made
<1>3. \A v \in Vec(n) : F[v] \in Vec(n)
  BY <1>2 DEF ScaledIsometry
<1>4. \A v \in Vec(n) : /\ Apply(r, v) = F[v] /\ ApplyInverse(r, v) = G[v]
                        /\ ApplyDense(r, v) = F[v] /\ ApplyDenseInverse(r, v) = G[v]
  BY <1>1, <1>2, RotatesGives
<1>5. ASSUME NEW u \in Vec(n), NEW v \in Vec(n)
      PROVE  /\ Inner(Apply(r, u), Apply(r, v)) = s * Inner(u, v)
             /\ ApplyInverse(r, Apply(r, v)) = [i \in 0..(n - 1) |-> s * v[i]]
             /\ Apply(r, v) = ApplyDense(r, v) /\ ApplyInverse(r, v) = ApplyDenseInverse(r, v)
  <2>1. Inner(F[u], F[v]) = s * Inner(u, v)
    BY <1>2 DEF ScaledIsometry
  <2>2. G[F[v]] = [i \in 0..(n - 1) |-> s * v[i]]
    BY <1>1, <1>2, IsometryGives
  <2>3. Apply(r, u) = F[u] /\ Apply(r, v) = F[v] /\ ApplyInverse(r, F[v]) = G[F[v]]
    BY <1>3, <1>4
  <2> QED BY <1>4, <2>1, <2>2, <2>3
<1> QED BY <1>1, <1>5, Zenon DEF RotatesEveryVector

(* What was made is what RotationIsIsometry says.                           *)
LEMMA MadeIsIsometry ==
  ASSUME NEW r, Made(r)
  PROVE  LET image == Table([i \in 0..(r.dim - 1) |-> Apply(r, Basis(r.dim, i))])
             rotated == Apply(r, Probe(r.dim))
         IN /\ \A i, j \in 0..(r.dim - 1) :
                 Inner(image[i], image[j]) = IF i = j THEN ScaleSquared(r) ELSE 0
            /\ ApplyInverse(r, rotated) = [i \in 0..(r.dim - 1) |-> ScaleSquared(r) * Probe(r.dim)[i]]
            /\ rotated = ApplyDense(r, Probe(r.dim))
            /\ ApplyInverse(r, rotated) = ApplyDenseInverse(r, rotated)
<1> DEFINE n == r.dim
           s == ScaleSquared(r)
           p == Probe(n)
           image == Table([i \in 0..(n - 1) |-> Apply(r, Basis(n, i))])
           rotated == Apply(r, p)
<1>1. n \in Nat
  BY RotationAssumption DEF Made
<1>2. PICK F, G : ScaledIsometry(F, G, s, n) /\ Rotates(r, F, G, n)
  BY DEF Made
<1> HIDE DEF n, s
<1>3. p \in Vec(n)
  BY <1>1, ProbeIsVec
<1>4. rotated = F[p] /\ F[p] \in Vec(n) /\ ApplyDense(r, p) = F[p]
  <2>1. F \in [Vec(n) -> Vec(n)]
    BY <1>2 DEF ScaledIsometry
  <2> QED BY <1>1, <1>2, <1>3, <2>1, RotatesGives
<1>5. image = [i \in 0..(n - 1) |-> F[Basis(n, i)]]
  <2>1. ASSUME NEW i \in 0..(n - 1) PROVE Apply(r, Basis(n, i)) = F[Basis(n, i)]
    BY <1>1, <1>2, BasisIsVec, RotatesGives
  <2> QED BY <2>1, TableIs
<1>6. \A i, j \in 0..(n - 1) : Inner(image[i], image[j]) = IF i = j THEN s ELSE 0
  <2>1. \A i, j \in 0..(n - 1) : Inner(F[Basis(n, i)], F[Basis(n, j)]) = IF i = j THEN s ELSE 0
    <3> HIDE DEF p, image, rotated
    <3> TAKE i, j \in 0..(n - 1)
    <3>1. ScaledIsometry(F, G, s, n)
      BY <1>2
    <3>2. CASE i = j
      BY <1>1, <3>1, <3>2, IsometryGives
    <3>3. CASE i # j
      BY <1>1, <3>1, <3>3, IsometryGives
    <3> QED BY <3>2, <3>3
  <2> HIDE DEF image
  <2> QED BY <1>5, <2>1
<1>7. G[F[p]] = [i \in 0..(n - 1) |-> s * p[i]]
  BY <1>1, <1>2, <1>3, IsometryGives
<1> HIDE DEF p, rotated, image
<1>8. ApplyInverse(r, rotated) = G[F[p]] /\ ApplyDenseInverse(r, rotated) = G[F[p]]
  BY <1>1, <1>2, <1>4, RotatesGives
<1> QED BY <1>4, <1>6, <1>7, <1>8 DEF n, s, p, rotated, image

-----------------------------------------------------------------------------
(* The generators. *)

(* A number its multiple rounds up to is a multiple.                        *)
LEMMA RoundedIsEven ==
  ASSUME NEW n \in Nat \ {0}, RoundUpToMultiple(n, RoundMultiple) = n
  PROVE  n % 2 = 0
<1>1. PICK c \in Nat : RoundMultiple = 2 * c
  <2>1. RoundMultiple \in Nat /\ RoundMultiple % 2 = 0
    BY RotationAssumption
  <2>2. (RoundMultiple \div 2) \in Nat /\ RoundMultiple = 2 * (RoundMultiple \div 2)
    BY <2>1
  <2> QED BY <2>2
<1>2. PICK q \in Int : n = q * RoundMultiple
  <2>1. RoundMultiple \in Nat \ {0}
    BY RotationAssumption
  <2>2. ((n + RoundMultiple - 1) \div RoundMultiple) \in Int
    BY <2>1
  <2> QED BY <2>2 DEF RoundUpToMultiple, CeilDiv
<1>3. n = 2 * (q * c)
  BY <1>1, <1>2
<1>4. PICK e \in Int : e = q * c
  OBVIOUS
<1>5. n = 2 * e
  BY <1>3, <1>4
<1> QED BY <1>5

Succeeded(q) == q.ok /\ Made(q.matrix)

(* GenerateRandom makes a rotation.                                         *)
LEMMA RandomMade ==
  ASSUME NEW r, r.dim \in Dims, GenerateRandom(r)
  PROVE  Succeeded(rotation')
<1>1. PICK n \in Nat : n = r.dim /\ n \in Dims
  BY RotationAssumption
<1>2. PICK M \in Orthogonal(n) : rotation' = [ok |-> TRUE, matrix |-> [Empty(n) EXCEPT !.data = M]]
  BY <1>1 DEF GenerateRandom, Attempt
<1>3. /\ M \in [0..(n - 1) -> Vec(n)]
      /\ \A i, j \in 0..(n - 1) : Inner(M[i], M[j]) = IF i = j THEN 1 ELSE 0
  <2>1. \A m \in Orthogonal(n) :
          /\ m \in [0..(n - 1) -> [0..(n - 1) -> Int]]
          /\ \A i, j \in 0..(n - 1) : Inner(m[i], m[j]) = IF i = j THEN 1 ELSE 0
    BY <1>1, RotationAssumption, Zenon
  <2> QED BY <2>1 DEF Vec
<1>4. PICK t : t = [Empty(n) EXCEPT !.data = M]
  OBVIOUS
<1>5. t.dim = n /\ t.data = M /\ t.kind = "random" /\ t.fast = FALSE
  BY <1>4 DEF Empty
<1>6. ScaledIsometry(RowsOf(M, n), ColumnsOf(M, n), 1, n) /\ DenseOf(t, RowsOf(M, n), n)
  BY <1>3, <1>5, RowsIsometry
<1>7. ScaleSquared(t) = 1
  BY <1>5 DEF ScaleSquared
<1>8. Rotates(t, RowsOf(M, n), ColumnsOf(M, n), n)
  BY <1>5, <1>6 DEF Rotates
<1>9. Made(t)
  BY <1>1, <1>5, <1>6, <1>7, <1>8 DEF Made
<1> QED BY <1>2, <1>4, <1>9 DEF Succeeded

(* GenerateHadamard refuses a dimension or makes a rotation.                *)
LEMMA HadamardMade ==
  ASSUME NEW r, r.dim \in Dims, NEW fast \in BOOLEAN, GenerateHadamard(r, fast)
  PROVE  (rotation'.ok = FALSE /\ rotation'.matrix = r) \/ Succeeded(rotation')
<1>1. PICK n \in Nat : n = r.dim /\ n \in Dims
  BY RotationAssumption
<1>2. CASE ~IsPowerOf2(n)
  <2>1. Attempt(r, FALSE)
    BY <1>1, <1>2, Zenon DEF GenerateHadamard
  <2> QED BY <2>1 DEF Attempt
<1>3. CASE IsPowerOf2(n)
  <2> DEFINE M(s) == [i \in 0..(n - 1) |-> [j \in 0..(n - 1) |->
                        IF OddPopcount(i, j) THEN -s[j] ELSE s[j]]]
  <2>1. PICK s \in Signs(n) :
          rotation' = [ok |-> TRUE, matrix |->
            [Empty(n) EXCEPT !.kind = "hadamard", !.fast = fast, !.diag_signs = s, !.data = M(s)]]
    BY <1>1, <1>3 DEF GenerateHadamard, Attempt
  <2>2. s \in [0..(n - 1) -> {-1, 1}]
    BY <1>1, RotationAssumption
  <2> DEFINE F == HadamardTransform(n, s)
             G == HadamardInverse(n, s)
  <2>3. /\ ScaledIsometry(F, G, n, n)
        /\ \A i \in 0..(n - 1) : F[Basis(n, i)] =
             [j \in 0..(n - 1) |-> IF OddPopcount(i, j) THEN -s[j] ELSE s[j]]
    BY <1>3, <2>2, HadamardIsometry
  <2> HIDE DEF F, G
  <2>4. M(s) = [i \in 0..(n - 1) |-> F[Basis(n, i)]]
    BY <2>3
  <2> HIDE DEF M
  <2>5. PICK t : t = [Empty(n) EXCEPT !.kind = "hadamard", !.fast = fast, !.diag_signs = s,
                                      !.data = M(s)]
    OBVIOUS
  <2>6. t.dim = n /\ t.data = M(s) /\ t.kind = "hadamard" /\ t.fast = fast /\ t.diag_signs = s
    BY <2>5 DEF Empty
  <2>7. ScaleSquared(t) = n
    BY <2>6 DEF ScaleSquared
  <2>8. Matches(t, F, G, n) /\ DenseOf(t, F, n)
    BY <2>4, <2>6 DEF Matches, DenseOf, F, G
  <2>9. Rotates(t, F, G, n)
    BY <2>6, <2>8 DEF Rotates
  <2>10. Made(t)
    BY <1>1, <2>3, <2>6, <2>7, <2>8, <2>9 DEF Made
  <2> QED BY <2>1, <2>5, <2>10 DEF Succeeded
<1> QED BY <1>2, <1>3

(* GenerateBlockedHadamardPermuted makes a rotation.                        *)
LEMMA BlockedMade ==
  ASSUME NEW r, r.dim \in Dims, NEW fast \in BOOLEAN, GenerateBlockedHadamardPermuted(r, fast)
  PROVE  Succeeded(rotation')
<1>1. PICK n \in Nat \ {0} : n = r.dim /\ n \in Dims
  BY RotationAssumption
<1>2. PICK b : b = GreedyPowerOf2Blocks(n) /\ BlocksOf(b, n)
  BY <1>1, GreedyIs
<1>3. WholeScales(b)
  BY <1>1, <1>2 DEF GenerateBlockedHadamardPermuted
<1> DEFINE B(s, p) == [Empty(n) EXCEPT !.kind = "blocked", !.fast = fast, !.diag_signs = s,
                                       !.block_sizes = b, !.permutation = p]
           M(s, p) == [i \in 0..(n - 1) |-> ApplyBlockedFast(B(s, p), Basis(n, i))]
<1>4. PICK s \in Signs(n), p \in Shuffles(n) :
        rotation' = [ok |-> TRUE, matrix |-> [B(s, p) EXCEPT !.data = M(s, p)]]
  BY <1>1, <1>2 DEF GenerateBlockedHadamardPermuted, Attempt
<1>5. s \in [0..(n - 1) -> {-1, 1}] /\ Permutes(p, n)
  <2>1. Signs(n) \subseteq [0..(n - 1) -> {-1, 1}]
    BY <1>1, RotationAssumption
  <2>2. \A q \in Shuffles(n) : Permutes(q, n)
    BY <1>1, RotationAssumption, Zenon DEF Permutes
  <2> QED BY <2>1, <2>2
<1> DEFINE F == BlockedTransform(n, p, b, s)
           G == BlockedInverse(n, p, b, s)
<1>6. ScaledIsometry(F, G, b[1], n)
  BY <1>2, <1>3, <1>5, BlockedIsometry
<1>7. ASSUME NEW v \in Vec(n) PROVE ApplyBlockedFast(B(s, p), v) = F[v]
  <2>1. PICK t : t = B(s, p)
    OBVIOUS
  <2>2. t.permutation = p /\ t.block_sizes = b /\ t.diag_signs = s
    BY <2>1 DEF Empty
  <2> HIDE DEF B
  <2>3. ApplyBlockedFast(t, v) = F[v]
    BY <2>2 DEF ApplyBlockedFast, BlockedTransform
  <2> QED BY <2>1, <2>3
<1>8. M(s, p) = [i \in 0..(n - 1) |-> F[Basis(n, i)]]
  <2>1. \A i \in 0..(n - 1) : Basis(n, i) \in Vec(n)
    BY BasisIsVec
  <2> HIDE DEF F, B
  <2> QED BY <1>7, <2>1
<1> HIDE DEF F, G, M
<1>9. PICK t : t = [B(s, p) EXCEPT !.data = M(s, p)]
  OBVIOUS
<1>10. /\ t.dim = n /\ t.data = M(s, p) /\ t.kind = "blocked" /\ t.fast = fast
       /\ t.diag_signs = s /\ t.block_sizes = b /\ t.permutation = p
  BY <1>9 DEF Empty
<1>11. ScaleSquared(t) = b[1]
  BY <1>10 DEF ScaleSquared
<1>12. Matches(t, F, G, n) /\ DenseOf(t, F, n)
  BY <1>8, <1>10 DEF Matches, DenseOf, F, G
<1>13. Rotates(t, F, G, n)
  BY <1>10, <1>12 DEF Rotates
<1>14. Made(t)
  BY <1>1, <1>6, <1>10, <1>11, <1>12, <1>13 DEF Made
<1> QED BY <1>4, <1>9, <1>14 DEF Succeeded

(* GenerateFhtKacRotator refuses a dimension or makes a rotation.           *)
LEMMA FhtKacMade ==
  ASSUME NEW r, r.dim \in Dims, NEW fast \in BOOLEAN, GenerateFhtKacRotator(r, fast)
  PROVE  (rotation'.ok = FALSE /\ rotation'.matrix.dim = r.dim) \/ Succeeded(rotation')
<1>1. PICK n \in Nat \ {0} : n = r.dim /\ n \in Dims
  BY RotationAssumption
<1> DEFINE R == NumRounds
           w == FloorPowerOf2(n)
           K == [Empty(n) EXCEPT !.kind = "fht_kac", !.fast = fast, !.data = r.data,
                                 !.padded_dim = RoundUpToMultiple(n, RoundMultiple),
                                 !.trunc_dim = w, !.num_rounds = R]
           A(s) == [K EXCEPT !.kac_signs = s]
           M(s) == [i \in 0..(n - 1) |-> ApplyFhtKacFast(A(s), Basis(n, i))]
<1>2. /\ K.padded_dim = RoundUpToMultiple(n, RoundMultiple) /\ K.dim = n /\ K.trunc_dim = w
      /\ K.num_rounds = R /\ K.kind = "fht_kac" /\ K.fast = fast
  BY DEF Empty
<1>3. \/ rotation' = [ok |-> FALSE, matrix |-> A(r.kac_signs)]
      \/ /\ RoundUpToMultiple(n, RoundMultiple) = n
         /\ w # n => WholeScales(<<w>>)
         /\ \E s \in Signs(R * n) : rotation' = [ok |-> TRUE, matrix |-> [A(s) EXCEPT !.data = M(s)]]
  <2>1. \/ Attempt(A(r.kac_signs), FALSE)
        \/ /\ K.padded_dim = n /\ (K.trunc_dim # n => WholeScales(<<K.trunc_dim>>))
           /\ \E s \in Signs(R * n) : Attempt([A(s) EXCEPT !.data = M(s)], TRUE)
    BY <1>1, Zenon DEF GenerateFhtKacRotator
  <2> HIDE DEF K, A, M, w, R
  <2>2. \A q, ok : Attempt(q, ok) => rotation' = [ok |-> ok, matrix |-> q]
    BY DEF Attempt
  <2> QED BY <1>2, <2>1, <2>2
<1>4. ASSUME NEW s
      PROVE  /\ A(s).dim = n /\ A(s).trunc_dim = w /\ A(s).num_rounds = R /\ A(s).kac_signs = s
             /\ [A(s) EXCEPT !.data = M(s)].data = M(s)
             /\ [A(s) EXCEPT !.data = M(s)].dim = n
             /\ [A(s) EXCEPT !.data = M(s)].kind = "fht_kac"
             /\ [A(s) EXCEPT !.data = M(s)].fast = fast
             /\ [A(s) EXCEPT !.data = M(s)].trunc_dim = w
             /\ [A(s) EXCEPT !.data = M(s)].num_rounds = R
             /\ [A(s) EXCEPT !.data = M(s)].kac_signs = s
  <2> HIDE DEF M, w, R
  <2> QED BY DEF Empty
<1> HIDE DEF A, K
<1>5. CASE rotation' = [ok |-> FALSE, matrix |-> A(r.kac_signs)]
  BY <1>1, <1>4, <1>5
<1>6. ASSUME RoundUpToMultiple(n, RoundMultiple) = n, w # n => WholeScales(<<w>>),
             NEW s \in Signs(R * n),
             rotation' = [ok |-> TRUE, matrix |-> [A(s) EXCEPT !.data = M(s)]]
      PROVE  Succeeded(rotation')
  <2>1. PICK m \in Nat : w = 2^m /\ w <= n
    BY <1>1, FloorIs
  <2>2. KacFits(n, R, m, s)
    <3>1. n % 2 = 0 /\ R \in Nat
      BY <1>6, RoundedIsEven, RotationAssumption
    <3>2. s \in [0..(R * n - 1) -> {-1, 1}]
      BY <1>1, <1>6, RotationAssumption
    <3>3. w # n => \E q \in 1..w : q * q = w
      <4>1. 1 \in DOMAIN <<w>> /\ <<w>>[1] = w
        OBVIOUS
      <4> HIDE DEF w
      <4> QED BY <1>6, <4>1 DEF WholeScales
    <3> HIDE DEF w
    <3> QED BY <2>1, <3>1, <3>2, <3>3 DEF KacFits
  <2> HIDE DEF w, R
  <2> DEFINE F == KacRotation(n, R, w, s)
             G == KacRotationInverse(n, R, w, s)
  <2>3. ScaledIsometry(F, G, Power(2 * w, R), n)
    BY <2>1, <2>2, KacIsometry DEF KacRotation, KacRotationInverse
  <2>4. ASSUME NEW v \in Vec(n) PROVE ApplyFhtKacFast(A(s), v) = F[v]
    BY <1>4, ApplyFhtKacIs DEF KacRotation
  <2>5. M(s) = [i \in 0..(n - 1) |-> F[Basis(n, i)]]
    <3>1. \A i \in 0..(n - 1) : Basis(n, i) \in Vec(n)
      BY BasisIsVec
    <3> HIDE DEF F
    <3> QED BY <2>4, <3>1
  <2> HIDE DEF F, G, M
  <2>6. PICK t : t = [A(s) EXCEPT !.data = M(s)]
    OBVIOUS
  <2>7. /\ t.dim = n /\ t.data = M(s) /\ t.kind = "fht_kac" /\ t.fast = fast
        /\ t.trunc_dim = w /\ t.num_rounds = R /\ t.kac_signs = s
    BY <1>4, <2>6
  <2>8. ScaleSquared(t) = Power(2 * w, R)
    BY <2>7 DEF ScaleSquared
  <2>9. Matches(t, F, G, n) /\ DenseOf(t, F, n)
    BY <2>5, <2>7 DEF Matches, DenseOf, F, G
  <2>10. Rotates(t, F, G, n)
    BY <2>7, <2>9 DEF Rotates
  <2>11. Made(t)
    BY <1>1, <2>3, <2>7, <2>8, <2>9, <2>10 DEF Made
  <2> QED BY <1>6, <2>6, <2>11 DEF Succeeded
<1> QED BY <1>3, <1>5, <1>6

-----------------------------------------------------------------------------
(* The file. *)

IsCut(g, f, k) == g = SubSeq(f, 1, k)

(* A file of three parts, cut off somewhere.                                *)
CutIs(g, f, a, b, c, k, m, l) ==
  /\ Len(f) = 3 + m + l /\ Len(g) = k
  /\ \A i \in 1..3 : i <= k => g[i] = a[i]
  /\ (m > 0 /\ k > 3) => g[4] = b[1]
  /\ k >= 3 + m => /\ Len(SubSeq(g, 3 + m + 1, k)) = k - (3 + m)
                   /\ \A i \in 1..(k - (3 + m)) : SubSeq(g, 3 + m + 1, k)[i] = c[i]
  /\ k = 3 + m + l => g = f

(* They follow from where the parts lie.                                    *)
LEMMA CutJoined ==
  ASSUME NEW S, NEW a \in Seq(S), NEW b \in Seq(S), NEW c \in Seq(S), NEW m \in Nat, NEW l \in Nat,
         Len(a) = 3, Len(b) = m, Len(c) = l,
         NEW ab, IsJoin(ab, a, b), NEW f, IsJoin(f, ab, c), NEW k \in 1..Len(f), NEW g, IsCut(g, f, k)
  PROVE  CutIs(g, f, a, b, c, k, m, l)
<1> DEFINE three == 3
<1>0. PICK p \in Nat : p = three + m /\ p = 3 + m
  OBVIOUS
<1> HIDE DEF three
<1>1. /\ ab \in Seq(S) /\ Len(ab) = p
      /\ \A i \in 1..3 : ab[i] = a[i]
      /\ \A i \in 1..m : ab[3 + i] = b[i]
  <2>1. Len(a) = three
    BY DEF three
  <2>2. /\ ab \in Seq(S) /\ Len(ab) = three + m
        /\ \A i \in 1..three : ab[i] = a[i]
        /\ \A i \in 1..m : ab[three + i] = b[i]
    <3>1. ab \in Seq(S) /\ JoinIs(ab, a, b, three, m)
      BY <2>1, Joined
    <3> QED BY <3>1 DEF JoinIs
  <2> QED BY <1>0, <2>2 DEF three
<1>2. /\ f \in Seq(S) /\ Len(f) = p + l
      /\ \A i \in 1..p : f[i] = ab[i]
      /\ \A i \in 1..l : f[p + i] = c[i]
  <2>1. f \in Seq(S) /\ JoinIs(f, ab, c, p, l)
    BY <1>1, Joined
  <2> QED BY <2>1 DEF JoinIs
<1>3. k \in Nat /\ k <= Len(f) /\ k >= 1 /\ Len(f) = 3 + m + l
  BY <1>0, <1>2
<1>4. g \in Seq(S) /\ Len(g) = k /\ \A i \in 1..k : g[i] = f[i]
  <2> DEFINE z == 0
  <2>1. z \in Nat /\ z + 1 = 1 /\ k - z = k /\ z <= k /\ \A i \in 1..k : z + i = i
    BY <1>3
  <2> HIDE DEF z
  <2>2. /\ SubSeq(f, z + 1, k) \in Seq(S) /\ Len(SubSeq(f, z + 1, k)) = k - z
        /\ \A i \in 1..(k - z) : SubSeq(f, z + 1, k)[i] = f[z + i]
    BY <1>2, <1>3, <2>1, SliceElements
  <2> QED BY <2>1, <2>2 DEF IsCut
<1>5. ASSUME NEW i \in 1..3, i <= k PROVE g[i] = a[i]
  <2>1. i \in 1..k /\ i \in 1..p
    BY <1>0, <1>3, <1>5
  <2> QED BY <1>1, <1>2, <1>4, <2>1
<1>6. ASSUME m > 0, k > 3 PROVE g[4] = b[1]
  <2>1. 1 \in 1..m /\ 3 + 1 = 4 /\ 4 \in 1..(3 + m) /\ 4 \in 1..k
    BY <1>3, <1>6
  <2>2. ab[4] = b[1]
    BY <1>1, <2>1
  <2> QED BY <1>0, <1>2, <1>4, <2>1, <2>2
<1>7. ASSUME k >= 3 + m
      PROVE  /\ Len(SubSeq(g, 3 + m + 1, k)) = k - (3 + m)
             /\ \A i \in 1..(k - (3 + m)) : SubSeq(g, 3 + m + 1, k)[i] = c[i]
  <2> DEFINE rest == SubSeq(g, (3 + m) + 1, k)
  <2>1. /\ Len(rest) = k - (3 + m)
        /\ \A i \in 1..(k - (3 + m)) : rest[i] = g[(3 + m) + i]
    <3>1. 3 + m \in Nat /\ 3 + m <= k
      BY <1>7
    <3> QED BY <1>3, <1>4, <3>1, SliceElements
  <2> HIDE DEF rest
  <2>2. ASSUME NEW i \in 1..(k - (3 + m)) PROVE rest[i] = c[i]
    <3>1. (3 + m) + i \in 1..k /\ i \in 1..l
      BY <1>3
    <3>2. f[(3 + m) + i] = c[i]
      BY <1>0, <1>2, <3>1
    <3>3. g[(3 + m) + i] = f[(3 + m) + i]
      BY <1>4, <3>1
    <3> QED BY <2>1, <3>2, <3>3
  <2> QED BY <2>1, <2>2 DEF rest
<1>8. ASSUME k = 3 + m + l PROVE g = f
  <2>1. DOMAIN g = 1..k /\ DOMAIN f = 1..k
    BY <1>2, <1>3, <1>4, <1>8, LenProperties
  <2>2. g = [i \in 1..k |-> g[i]] /\ f = [i \in 1..k |-> f[i]]
    <3>1. g \in [1..Len(g) -> S] /\ f \in [1..Len(f) -> S]
      BY <1>2, <1>4, LenProperties
    <3> QED BY <2>1, <3>1
  <2> QED BY <1>4, <2>2
<1> QED BY <1>3, <1>4, <1>5, <1>6, <1>7, <1>8 DEF CutIs

(* What Load makes of a file that was cut off, kind by kind.               *)
LEMMA LoadedIs ==
  ASSUME NEW r, r.dim \in Nat, r.fast \in BOOLEAN,
         r.kind \in {"random", "hadamard", "blocked", "fht_kac"}, r.kind = "random" => ~r.fast,
         NEW k \in 1..Len(Fields(r)), NEW dim, NEW l,
         l = LoadFields(SubSeq(Fields(r), 1, k), dim), l # Refused
  PROVE  /\ SubSeq(Fields(r), 1, k) = Fields(r)
         /\ l.dim = r.dim /\ l.data = r.data /\ l.fast \in BOOLEAN
         /\ l.fast => (l.kind = r.kind /\ r.kind # "random")
         /\ (l.fast /\ l.kind # "fht_kac") => l.diag_signs = r.diag_signs
         /\ (l.fast /\ l.kind = "blocked") =>
              (l.permutation = r.permutation /\ l.block_sizes = r.block_sizes)
         /\ (l.fast /\ l.kind = "fht_kac") =>
              (l.num_rounds = r.num_rounds /\ l.trunc_dim = r.trunc_dim /\ l.kac_signs = r.kac_signs)
<1> DEFINE fl == Flags(r)
           n == r.dim
           a == <<n, r.data, fl>>
           b == IF HasSigns(fl) THEN <<r.diag_signs>> ELSE <<>>
           sizes == Len(r.block_sizes)
           layout == <<r.block_sizes, r.permutation>>
           meta == <<r.padded_dim, r.trunc_dim, r.num_rounds>>
           c == CASE r.kind = "blocked" -> <<sizes, layout>>
                  [] r.kind = "fht_kac" -> <<meta, r.kac_signs>>
                  [] OTHER -> <<>>
           f == Fields(r)
           g == SubSeq(f, 1, k)
           S == {n, r.data, fl, r.diag_signs, sizes, layout, meta, r.kac_signs}
           ab == a \o b
           m == IF HasSigns(fl) THEN 1 ELSE 0
           w == IF r.kind \in {"blocked", "fht_kac"} THEN 2 ELSE 0
<1>1. fl = (IF r.fast THEN {1} ELSE {})
           \cup (IF r.kind = "blocked" THEN {2} ELSE IF r.kind = "fht_kac" THEN {4} ELSE {})
  BY DEF Flags
<1>2. HasSigns(fl) <=> r.fast /\ r.kind # "fht_kac"
  BY <1>1 DEF HasSigns
<1>3. (2 \in fl <=> r.kind = "blocked") /\ (4 \in fl <=> r.kind = "fht_kac") /\ (1 \in fl <=> r.fast)
  BY <1>1
<1> HIDE DEF fl, sizes, layout, meta
<1>4. a \in Seq(S) /\ Len(a) = 3 /\ a[1] = n /\ a[2] = r.data /\ a[3] = fl
  OBVIOUS
<1>5. b \in Seq(S) /\ Len(b) = m /\ m \in Nat /\ (m = 1 => b[1] = r.diag_signs)
  OBVIOUS
<1>6. /\ c \in Seq(S) /\ Len(c) = w /\ w \in Nat
      /\ r.kind = "blocked" => c[2] = layout
      /\ r.kind = "fht_kac" => c[1] = meta /\ c[2] = r.kac_signs
  <2>1. CASE r.kind = "blocked"
    <3>1. c = <<sizes, layout>>
      BY <2>1
    <3> HIDE DEF c
    <3> QED BY <2>1, <3>1
  <2>2. CASE r.kind = "fht_kac"
    <3>1. c = <<meta, r.kac_signs>>
      BY <2>2
    <3> HIDE DEF c
    <3> QED BY <2>2, <3>1
  <2>3. CASE r.kind \notin {"blocked", "fht_kac"}
    <3>1. c = <<>>
      BY <2>3
    <3> HIDE DEF c
    <3> QED BY <2>3, <3>1
  <2> QED BY <2>1, <2>2, <2>3
<1>7. IsJoin(ab, a, b) /\ IsJoin(f, ab, c)
  BY Zenon DEF IsJoin, Fields, fl, sizes, layout, meta
<1>8. IsCut(g, f, k)
  BY DEF IsCut
<1>9. k \in 1..Len(f)
  OBVIOUS
<1> HIDE DEF a, b, c, ab, f, g, S, w
<1>10. CutIs(g, f, a, b, c, k, m, w)
  <2> HIDE DEF m
  <2> QED BY <1>4, <1>5, <1>6, <1>7, <1>8, <1>9, CutJoined
<1>11. l = LoadFields(g, dim)
  BY DEF f, g
<1>12. k \in Nat /\ Len(g) = k /\ Len(f) = 3 + m + w /\ k <= 3 + m + w
  BY <1>5, <1>6, <1>9, <1>10 DEF CutIs
<1> DEFINE signed == HasSigns(fl)
           r0 == [Empty(dim) EXCEPT
                    !.data = g[2], !.fast = HasSigns(g[3]) \/ 4 \in g[3],
                    !.kind = IF 1 \in g[3] THEN "hadamard" ELSE "random",
                    !.diag_signs = IF HasSigns(g[3]) /\ Len(g) > 3 THEN g[4] ELSE <<>>]
           rest == SubSeq(g, IF HasSigns(g[3]) THEN 5 ELSE 4, Len(g))
<1>13. /\ Len(g) >= 3 /\ g[1] = dim
       /\ l = IF HasSigns(g[3]) /\ Len(g) < 4 THEN Refused
           ELSE IF 2 \in g[3] THEN LoadBlocked(r0, rest)
           ELSE IF 4 \in g[3] THEN LoadFhtKac(r0, rest)
           ELSE r0
  <2> HIDE DEF m, fl
  <2>1. ~(Len(g) < 3 \/ g[1] # dim)
    BY <1>11, Zenon DEF LoadFields
  <2>2. l = IF HasSigns(g[3]) /\ Len(g) < 4 THEN Refused
           ELSE IF 2 \in g[3] THEN LoadBlocked(r0, rest)
           ELSE IF 4 \in g[3] THEN LoadFhtKac(r0, rest)
           ELSE r0
    BY <1>11, <2>1, Zenon DEF LoadFields
  <2> QED BY <1>12, <2>1, <2>2
<1>14. k >= 3 /\ dim = n /\ g[2] = r.data /\ g[3] = fl
  BY <1>4, <1>10, <1>12, <1>13 DEF CutIs
<1>15. signed => (k >= 4 /\ g[4] = r.diag_signs)
  BY <1>5, <1>10, <1>12, <1>13, <1>14 DEF CutIs
<1>16. /\ Len(rest) = k - (3 + m)
       /\ \A i \in 1..(k - (3 + m)) : rest[i] = c[i]
       /\ k - (3 + m) \in Nat
  <2>1. k >= 3 + m /\ k - (3 + m) \in Nat
    BY <1>12, <1>14, <1>15
  <2>2. (IF HasSigns(g[3]) THEN 5 ELSE 4) = 3 + m + 1
    BY <1>14
  <2>3. rest = SubSeq(g, 3 + m + 1, k)
    BY <1>12, <2>2, Zenon
  <2> HIDE DEF rest, m
  <2> QED BY <1>10, <2>1, <2>3 DEF CutIs
<1>17. /\ r0.dim = n /\ r0.data = r.data /\ r0.fast = (signed \/ r.kind = "fht_kac")
       /\ r0.kind = (IF r.fast THEN "hadamard" ELSE "random")
       /\ signed => r0.diag_signs = r.diag_signs
  BY <1>3, <1>12, <1>13, <1>14, <1>15 DEF Empty
<1>18. PICK t : t = r0
  OBVIOUS
<1> HIDE DEF r0, rest
<1>19. CASE r.kind = "blocked"
  <2>1. l = LoadBlocked(t, rest)
    BY <1>3, <1>12, <1>13, <1>14, <1>15, <1>18, <1>19
  <2>2. /\ Len(rest) = 2
        /\ l = [t EXCEPT !.kind = "blocked", !.block_sizes = rest[2][1], !.permutation = rest[2][2]]
    <3> HIDE DEF m, fl
    <3> QED BY <2>1, Zenon DEF LoadBlocked
  <2>3. k = 3 + m + w /\ rest[2] = layout
    BY <1>6, <1>12, <1>16, <1>19, <2>2 DEF w
  <2>4. g = f
    BY <1>10, <2>3 DEF CutIs
  <2>5. layout[1] = r.block_sizes /\ layout[2] = r.permutation
    BY DEF layout
  <2>6. /\ t.dim = n /\ t.data = r.data /\ t.fast = r.fast
        /\ r.fast => t.diag_signs = r.diag_signs
    BY <1>2, <1>17, <1>18, <1>19
  <2>7. /\ l.kind = "blocked" /\ l.dim = t.dim /\ l.data = t.data /\ l.fast = t.fast
        /\ l.diag_signs = t.diag_signs /\ l.block_sizes = r.block_sizes /\ l.permutation = r.permutation
    <3> HIDE DEF layout
    <3> QED BY <2>2, <2>3, <2>5, <1>18 DEF r0, Empty
  <2> QED BY <1>19, <2>4, <2>6, <2>7 DEF f, g
<1>20. CASE r.kind = "fht_kac"
  <2>1. l = LoadFhtKac(t, rest)
    BY <1>3, <1>12, <1>13, <1>14, <1>15, <1>18, <1>20
  <2>2. /\ Len(rest) = 2
        /\ l = [t EXCEPT !.kind = "fht_kac", !.padded_dim = rest[1][1], !.trunc_dim = rest[1][2],
                         !.num_rounds = rest[1][3], !.kac_signs = rest[2]]
    <3> HIDE DEF m, fl
    <3> QED BY <2>1, Zenon DEF LoadFhtKac
  <2>3. k = 3 + m + w /\ rest[1] = meta /\ rest[2] = r.kac_signs
    BY <1>6, <1>12, <1>16, <1>20, <2>2 DEF w
  <2>4. g = f
    BY <1>10, <2>3 DEF CutIs
  <2>5. meta[2] = r.trunc_dim /\ meta[3] = r.num_rounds
    BY DEF meta
  <2>6. t.dim = n /\ t.data = r.data /\ t.fast = TRUE
    BY <1>2, <1>17, <1>18, <1>20
  <2>7. /\ l.kind = "fht_kac" /\ l.dim = t.dim /\ l.data = t.data /\ l.fast = t.fast
        /\ l.trunc_dim = r.trunc_dim /\ l.num_rounds = r.num_rounds /\ l.kac_signs = r.kac_signs
    <3> HIDE DEF meta
    <3> QED BY <2>2, <2>3, <2>5, <1>18 DEF r0, Empty
  <2> QED BY <1>20, <2>4, <2>6, <2>7 DEF f, g
<1>21. CASE r.kind \in {"random", "hadamard"}
  <2>1. l = t
    BY <1>3, <1>12, <1>13, <1>14, <1>15, <1>18, <1>21
  <2>2. k = 3 + m + w
    BY <1>6, <1>12, <1>14, <1>15, <1>21 DEF w
  <2>3. g = f
    BY <1>10, <2>2 DEF CutIs
  <2>4. t.fast => (r.kind # "random" /\ r.fast)
    BY <1>2, <1>17, <1>18, <1>21
  <2> QED BY <1>2, <1>17, <1>18, <1>21, <2>1, <2>3, <2>4 DEF f, g
<1> QED BY <1>19, <1>20, <1>21

-----------------------------------------------------------------------------
(* The rotation of the builder and that of the search. *)

(* The builder's matrix is one a generator makes, once one has succeeded;   *)
(* the file is a front part of its fields, and what was loaded was read     *)
(* from the file.                                                           *)
RotationInv ==
  /\ rotation.matrix.dim \in Dims
  /\ rotation.ok => Made(rotation.matrix)
  /\ file # <<>> => (rotation.ok /\ \E k \in 1..Len(Fields(rotation.matrix)) :
                                      file = SubSeq(Fields(rotation.matrix), 1, k))
  /\ loaded # Nothing => (file # <<>> /\ \E dim \in Dims : loaded = LoadFields(file, dim))

(* It holds of a matrix nothing was generated for ...                       *)
LEMMA InitRotationInv == RotationInit => RotationInv
  BY DEF RotationInit, RotationInv, Empty

(* ... and every action keeps it.                                           *)
LEMMA NextRotationInv ==
  RotationInv /\ [RotationNext]_rotationVars => RotationInv'
<1> SUFFICES ASSUME RotationInv, [RotationNext]_rotationVars PROVE RotationInv'
  OBVIOUS
<1>1. CASE Generate
  <2>1. /\ rotation.matrix.dim \in Dims /\ ~rotation.ok
        /\ file = <<>> /\ loaded = Nothing /\ file' = file /\ loaded' = loaded
    BY <1>1, Zenon DEF Generate, RotationInv
  <2>2. (rotation'.ok = FALSE /\ rotation'.matrix.dim = rotation.matrix.dim) \/ Succeeded(rotation')
    <3>1. CASE GenerateRandom(rotation.matrix)
      BY <2>1, <3>1, RandomMade
    <3>2. ASSUME NEW fast \in BOOLEAN, GenerateHadamard(rotation.matrix, fast)
          PROVE (rotation'.ok = FALSE /\ rotation'.matrix.dim = rotation.matrix.dim) \/ Succeeded(rotation')
      BY <2>1, <3>2, HadamardMade
    <3>3. ASSUME NEW fast \in BOOLEAN, GenerateBlockedHadamardPermuted(rotation.matrix, fast)
          PROVE Succeeded(rotation')
      BY <2>1, <3>3, BlockedMade
    <3>4. ASSUME NEW fast \in BOOLEAN, GenerateFhtKacRotator(rotation.matrix, fast)
          PROVE (rotation'.ok = FALSE /\ rotation'.matrix.dim = rotation.matrix.dim) \/ Succeeded(rotation')
      BY <2>1, <3>4, FhtKacMade
    <3> QED BY <1>1, <3>1, <3>2, <3>3, <3>4 DEF Generate
  <2>3. Succeeded(rotation') => (Made(rotation'.matrix) /\ rotation'.matrix.dim \in Dims)
    BY DEF Succeeded, Made
  <2> QED BY <2>1, <2>2, <2>3 DEF RotationInv
<1>2. CASE Save
  <2>1. PICK k \in 1..Len(Fields(rotation.matrix)) : file' = SubSeq(Fields(rotation.matrix), 1, k)
    BY <1>2, Zenon DEF Save
  <2>2. rotation.ok /\ file = <<>> /\ rotation' = rotation /\ loaded' = loaded
    BY <1>2, Zenon DEF Save
  <2> QED BY <2>1, <2>2, Zenon DEF RotationInv
<1>3. ASSUME NEW dim \in Dims, Load(dim) PROVE RotationInv'
  BY <1>3, Zenon DEF RotationInv, Load
<1>4. CASE UNCHANGED rotationVars
  BY <1>4, Zenon DEF RotationInv, rotationVars
<1> QED BY <1>1, <1>2, <1>3, <1>4 DEF RotationNext

(* RotationInv is invariant.                                                *)
LEMMA RotationInvAlways == RotationSpec => []RotationInv
  BY InitRotationInv, NextRotationInv, PTL DEF RotationSpec

(* For every dimension whose blocks have whole scales, every draw of signs, *)
(* shuffle and orthogonal matrix, and any number of rounds: a rotation a    *)
(* generator has returned preserves inner products, its inverse undoes it,  *)
(* and its fast transform is its matrix (RotationMatrix::Apply,             *)
(* ApplyInverse and the Generate functions).                                *)
THEOREM RotationsAreIsometries == RotationSpec => []RotationIsIsometry
<1>1. RotationInv => RotationIsIsometry
  <2> SUFFICES ASSUME RotationInv, rotation.ok PROVE RotationIsIsometry
    BY DEF RotationIsIsometry
  <2>1. Made(rotation.matrix)
    BY DEF RotationInv
  <2>2. PICK r : r = rotation.matrix
    OBVIOUS
  <2> QED BY <2>1, <2>2, MadeIsIsometry, Zenon DEF RotationIsIsometry
<1> QED BY <1>1, RotationInvAlways, PTL

(* Two rotations with the same transforms.                                  *)
RotateAlike(l, r) ==
  /\ l.dim = r.dim
  /\ \A v \in Vec(r.dim) : /\ Apply(l, v) = Apply(r, v)
                          /\ ApplyInverse(l, v) = ApplyInverse(r, v)

(* A loaded rotation is the transform of the saved one.                     *)
LEMMA LoadedRotates ==
  ASSUME NEW r, Made(r), NEW k \in 1..Len(Fields(r)), NEW dim, NEW l,
         l = LoadFields(SubSeq(Fields(r), 1, k), dim), l # Refused
  PROVE  SubSeq(Fields(r), 1, k) = Fields(r) /\ RotateAlike(l, r)
<1>1. PICK n \in Nat : n = r.dim
  BY RotationAssumption DEF Made
<1>2. PICK F, G : /\ ScaledIsometry(F, G, ScaleSquared(r), n) /\ Rotates(r, F, G, n)
                  /\ (r.kind = "random" /\ ~r.fast) \/ Matches(r, F, G, n)
  BY <1>1 DEF Made
<1>3. /\ r.fast \in BOOLEAN /\ DenseOf(r, F, n)
      /\ r.kind \in {"random", "hadamard", "blocked", "fht_kac"} /\ (r.kind = "random" => ~r.fast)
  BY <1>2 DEF Rotates, Matches
<1>4. /\ SubSeq(Fields(r), 1, k) = Fields(r)
      /\ l.dim = r.dim /\ l.data = r.data /\ l.fast \in BOOLEAN
      /\ l.fast => (l.kind = r.kind /\ r.kind # "random")
      /\ (l.fast /\ l.kind # "fht_kac") => l.diag_signs = r.diag_signs
      /\ (l.fast /\ l.kind = "blocked") =>
           (l.permutation = r.permutation /\ l.block_sizes = r.block_sizes)
      /\ (l.fast /\ l.kind = "fht_kac") =>
           (l.num_rounds = r.num_rounds /\ l.trunc_dim = r.trunc_dim /\ l.kac_signs = r.kac_signs)
  BY <1>1, <1>3, LoadedIs
<1>5. DenseOf(l, F, n)
  BY <1>3, <1>4 DEF DenseOf
<1>6. l.fast => Matches(l, F, G, n)
  <2> SUFFICES ASSUME l.fast PROVE Matches(l, F, G, n)
    OBVIOUS
  <2>1. Matches(r, F, G, n)
    BY <1>2, <1>4
  <2> QED BY <1>4, <2>1 DEF Matches
<1>7. Rotates(l, F, G, n)
  BY <1>1, <1>4, <1>5, <1>6 DEF Rotates
<1>8. ASSUME NEW v \in Vec(n)
      PROVE  Apply(l, v) = Apply(r, v) /\ ApplyInverse(l, v) = ApplyInverse(r, v)
  <2>1. /\ Apply(r, v) = F[v] /\ ApplyInverse(r, v) = G[v]
        /\ Apply(l, v) = F[v] /\ ApplyInverse(l, v) = G[v]
    BY <1>2, <1>7, RotatesGives
  <2> QED BY <2>1
<1> QED BY <1>1, <1>4, <1>8 DEF RotateAlike

(* For every rotation that can be saved and wherever the file was cut off:  *)
(* what Load accepts was read from the whole file and rotates as the saved  *)
(* one (RotationMatrix::Save, Load).                                        *)
THEOREM LoadedRotationsRotateAlike == RotationSpec => []LoadedRotatesAlike
<1>1. RotationInv => LoadedRotatesAlike
  <2> SUFFICES ASSUME RotationInv, loaded # Nothing, loaded # Refused PROVE LoadedRotatesAlike
    BY DEF LoadedRotatesAlike
  <2>1. PICK r : r = rotation.matrix /\ Made(r)
    BY DEF RotationInv
  <2>2. PICK k \in 1..Len(Fields(r)) : file = SubSeq(Fields(r), 1, k)
    BY <2>1, Zenon DEF RotationInv
  <2>3. PICK dim \in Dims : loaded = LoadFields(SubSeq(Fields(r), 1, k), dim)
    BY <2>2, Zenon DEF RotationInv
  <2>4. SubSeq(Fields(r), 1, k) = Fields(r) /\ RotateAlike(loaded, r)
    BY <2>1, <2>3, LoadedRotates
  <2>5. Probe(r.dim) \in Vec(r.dim)
    <3>1. r.dim \in Nat
      BY <2>1, RotationAssumption DEF Made
    <3> QED BY <3>1, ProbeIsVec
  <2> QED BY <2>1, <2>2, <2>4, <2>5, Zenon DEF LoadedRotatesAlike, RotateAlike
<1> QED BY <1>1, RotationInvAlways, PTL

(* And so for every vector, of which TLC evaluates some: the rotation a     *)
(* generator has returned, and the one that was loaded from its file.       *)
EveryVectorRotates ==
  /\ rotation.ok => RotatesEveryVector(rotation.matrix)
  /\ loaded \notin {Nothing, Refused} =>
       /\ file = Fields(rotation.matrix) /\ RotateAlike(loaded, rotation.matrix)
       /\ RotatesEveryVector(rotation.matrix)

(* For every dimension whose blocks have whole scales, every draw, and      *)
(* every two vectors: rotating preserves their inner product, the inverse   *)
(* gives each of them back, the stored matrix is the fast transform, and a  *)
(* loaded rotation does the same as the saved one (RotationMatrix::Apply,   *)
(* ApplyInverse, Save, Load).                                               *)
THEOREM EveryVectorRotatesAlike == RotationSpec => []EveryVectorRotates
<1>1. RotationInv => EveryVectorRotates
  <2> SUFFICES ASSUME RotationInv PROVE EveryVectorRotates
    OBVIOUS
  <2>1. PICK r : r = rotation.matrix
    OBVIOUS
  <2>2. rotation.ok => Made(r)
    BY <2>1 DEF RotationInv
  <2>3. rotation.ok => RotatesEveryVector(r)
    BY <2>2, MadeRotates
  <2>4. ASSUME loaded \notin {Nothing, Refused}
        PROVE  rotation.ok /\ file = Fields(r) /\ RotateAlike(loaded, r)
    <3>1. PICK k \in 1..Len(Fields(r)) : rotation.ok /\ file = SubSeq(Fields(r), 1, k)
      BY <2>1, <2>4, Zenon DEF RotationInv
    <3>2. PICK dim \in Dims : loaded = LoadFields(SubSeq(Fields(r), 1, k), dim)
      BY <2>4, <3>1, Zenon DEF RotationInv
    <3>3. SubSeq(Fields(r), 1, k) = Fields(r) /\ RotateAlike(loaded, r)
      BY <2>2, <2>4, <3>1, <3>2, LoadedRotates
    <3> QED BY <3>1, <3>3
  <2> QED BY <2>1, <2>3, <2>4 DEF EveryVectorRotates
<1> QED BY <1>1, RotationInvAlways, PTL

-----------------------------------------------------------------------------
(* Coarse routing: orders by score. *)

(* TopKScoreLess is a strict total order.                                   *)
LEMMA ScoreOrder ==
  ASSUME NEW S \in SUBSET Int, NEW scores, \A c \in S : scores[c] \in Int
  PROVE  /\ \A c \in S : ~TopKScoreLess(scores, c, c)
         /\ \A c, d \in S : c = d \/ TopKScoreLess(scores, c, d) \/ TopKScoreLess(scores, d, c)
         /\ \A c, d \in S : ~(TopKScoreLess(scores, c, d) /\ TopKScoreLess(scores, d, c))
         /\ \A c, d, e \in S : TopKScoreLess(scores, c, d) /\ TopKScoreLess(scores, d, e) =>
              TopKScoreLess(scores, c, e)
<1>1. ASSUME NEW c \in S PROVE ~TopKScoreLess(scores, c, c)
  BY DEF TopKScoreLess
<1>2. ASSUME NEW c \in S, NEW d \in S
      PROVE  /\ c = d \/ TopKScoreLess(scores, c, d) \/ TopKScoreLess(scores, d, c)
             /\ ~(TopKScoreLess(scores, c, d) /\ TopKScoreLess(scores, d, c))
  <2>1. c \in Int /\ d \in Int /\ scores[c] \in Int /\ scores[d] \in Int
    OBVIOUS
  <2> QED BY <2>1 DEF TopKScoreLess
<1>3. ASSUME NEW c \in S, NEW d \in S, NEW e \in S,
             TopKScoreLess(scores, c, d), TopKScoreLess(scores, d, e)
      PROVE  TopKScoreLess(scores, c, e)
  <2>1. c \in Int /\ d \in Int /\ e \in Int
        /\ scores[c] \in Int /\ scores[d] \in Int /\ scores[e] \in Int
    OBVIOUS
  <2> QED BY <1>3, <2>1 DEF TopKScoreLess
<1> QED BY <1>1, <1>2, <1>3

Worst(scores, S, w) == w \in S /\ \A c \in S \ {w} : TopKScoreLess(scores, c, w)

(* A finite set has a worst element, and only one.                          *)
LEMMA WorstExists ==
  ASSUME NEW U \in SUBSET Int, NEW scores, \A c \in U : scores[c] \in Int
  PROVE  \A n \in Nat : \A S \in SUBSET U :
           IsFiniteSet(S) /\ Cardinality(S) = n + 1 => \E w : Worst(scores, S, w)
<1> DEFINE Good(n) == \A S \in SUBSET U :
             IsFiniteSet(S) /\ Cardinality(S) = n + 1 => \E w : Worst(scores, S, w)
           N == {n \in Nat : Good(n)}
<1>1. 0 \in N
  <2>1. ASSUME NEW S \in SUBSET U, IsFiniteSet(S), Cardinality(S) = 1 PROVE \E w : Worst(scores, S, w)
    <3>1. PICK w : S = {w}
      BY <2>1, FS_Singleton
    <3> QED BY <3>1 DEF Worst
  <2> QED BY <2>1
<1>2. ASSUME NEW n \in Nat, n \in N PROVE n + 1 \in N
  <2>1. ASSUME NEW S \in SUBSET U, IsFiniteSet(S), Cardinality(S) = n + 2
        PROVE  \E w : Worst(scores, S, w)
    <3>1. PICK x : x \in S
      <4>1. S # {}
        BY <2>1, FS_EmptySet
      <4> QED BY <4>1
    <3>2. IsFiniteSet(S \ {x}) /\ Cardinality(S \ {x}) = n + 1
      BY <2>1, <3>1, FS_RemoveElement
    <3>3. PICK w : Worst(scores, S \ {x}, w)
      BY <1>2, <3>2
    <3>4. x \in U /\ w \in U /\ x # w
      BY <3>1, <3>3 DEF Worst
    <3>5. CASE TopKScoreLess(scores, x, w)
      BY <3>1, <3>3, <3>5 DEF Worst
    <3>6. CASE ~TopKScoreLess(scores, x, w)
      <4>1. TopKScoreLess(scores, w, x)
        BY <3>4, <3>6, ScoreOrder
      <4>2. \A c \in S \ {x} : TopKScoreLess(scores, c, x)
        <5> TAKE c \in S \ {x}
        <5>1. c = w \/ TopKScoreLess(scores, c, w)
          BY <3>3 DEF Worst
        <5>2. c \in U
          OBVIOUS
        <5> QED BY <3>4, <4>1, <5>1, <5>2, ScoreOrder
      <4> QED BY <3>1, <4>2 DEF Worst
    <3> QED BY <3>5, <3>6
  <2>2. (n + 1) + 1 = n + 2
    OBVIOUS
  <2> QED BY <2>1, <2>2
<1> HIDE DEF N
<1>3. \A n \in Nat : n \in N
  BY <1>1, <1>2, SubsetInduction
<1> QED BY <1>3 DEF N

Ascends(scores, o, n) == \A i, j \in 1..n : i < j => TopKScoreLess(scores, o[i], o[j])

(* There is an order by score ...                                           *)
LEMMA OrderExists ==
  ASSUME NEW U \in SUBSET Int, NEW scores, \A c \in U : scores[c] \in Int
  PROVE  \A n \in Nat : \A S \in SUBSET U :
           IsFiniteSet(S) /\ Cardinality(S) = n => \E o : Enumerates(o, S) /\ Ascends(scores, o, n)
<1> DEFINE Good(n) == \A S \in SUBSET U :
             IsFiniteSet(S) /\ Cardinality(S) = n => \E o : Enumerates(o, S) /\ Ascends(scores, o, n)
           N == {n \in Nat : Good(n)}
<1>1. 0 \in N
  <2>1. ASSUME NEW S \in SUBSET U, IsFiniteSet(S), Cardinality(S) = 0
        PROVE  \E o : Enumerates(o, S) /\ Ascends(scores, o, 0)
    <3>1. S = {}
      BY <2>1, FS_EmptySet
    <3>2. PICK o : o = [i \in 1..0 |-> i]
      OBVIOUS
    <3>3. 1..0 = {}
      OBVIOUS
    <3>4. o \in [1..0 -> S]
      BY <3>2, <3>3
    <3> QED BY <2>1, <3>1, <3>3, <3>4 DEF Enumerates, Ascends
  <2> QED BY <2>1
<1>2. ASSUME NEW n \in Nat, n \in N PROVE n + 1 \in N
  <2>1. ASSUME NEW S \in SUBSET U, IsFiniteSet(S), Cardinality(S) = n + 1
        PROVE  \E o : Enumerates(o, S) /\ Ascends(scores, o, n + 1)
    <3>1. PICK w : Worst(scores, S, w)
      BY <2>1, WorstExists
    <3>2. w \in S /\ \A c \in S \ {w} : TopKScoreLess(scores, c, w)
      BY <3>1 DEF Worst
    <3>3. IsFiniteSet(S \ {w}) /\ Cardinality(S \ {w}) = n
      <4>1. Cardinality(S \ {w}) = (n + 1) - 1
        BY <2>1, <3>2, FS_RemoveElement
      <4>2. IsFiniteSet(S \ {w})
        BY <2>1, FS_RemoveElement
      <4> QED BY <4>1, <4>2
    <3>4. PICK p : Enumerates(p, S \ {w}) /\ Ascends(scores, p, n)
      BY <1>2, <3>3
    <3>5. /\ p \in [1..n -> S \ {w}] /\ \A i, j \in 1..n : p[i] = p[j] => i = j
          /\ \A c \in S \ {w} : \E i \in 1..n : p[i] = c
      BY <3>3, <3>4 DEF Enumerates
    <3> DEFINE o == [i \in 1..(n + 1) |-> IF i = n + 1 THEN w ELSE p[i]]
    <3>6. /\ \A i \in 1..n : i \in 1..(n + 1) /\ o[i] = p[i] /\ p[i] \in S \ {w}
          /\ n + 1 \in 1..(n + 1) /\ o[n + 1] = w
          /\ \A i \in 1..(n + 1) : i = n + 1 \/ i \in 1..n
      BY <3>5
    <3>7. o \in [1..(n + 1) -> S]
      BY <3>2, <3>5
    <3> HIDE DEF o
    <3>8. \A i, j \in 1..(n + 1) : o[i] = o[j] => i = j
      BY <3>5, <3>6
    <3>9. \A c \in S : \E i \in 1..(n + 1) : o[i] = c
      <4> TAKE c \in S
      <4>1. CASE c = w
        BY <3>6, <4>1
      <4>2. CASE c # w
        BY <3>5, <3>6, <4>2
      <4> QED BY <4>1, <4>2
    <3>10. Ascends(scores, o, n + 1)
      <4>1. ASSUME NEW i \in 1..(n + 1), NEW j \in 1..(n + 1), i < j
            PROVE  TopKScoreLess(scores, o[i], o[j])
        <5>1. i \in 1..n
          BY <4>1
        <5>2. CASE j = n + 1
          BY <3>2, <3>6, <5>1, <5>2
        <5>3. CASE j \in 1..n
          BY <3>4, <3>6, <4>1, <5>1, <5>3 DEF Ascends
        <5> QED BY <3>6, <5>2, <5>3
      <4> QED BY <4>1 DEF Ascends
    <3> QED BY <2>1, <3>7, <3>8, <3>9, <3>10 DEF Enumerates
  <2> QED BY <2>1
<1> HIDE DEF N
<1>3. \A n \in Nat : n \in N
  BY <1>1, <1>2, SubsetInduction
<1> QED BY <1>3 DEF N

(* ... which SortedByScore returns.                                         *)
LEMMA SortedByScoreIs ==
  ASSUME NEW S \in SUBSET Int, IsFiniteSet(S), NEW scores, \A c \in S : scores[c] \in Int
  PROVE  /\ Enumerates(SortedByScore(scores, S), S)
         /\ Ascends(scores, SortedByScore(scores, S), Cardinality(S))
<1> DEFINE n == Cardinality(S)
           P(o) == \A i, j \in DOMAIN o : i < j => TopKScoreLess(scores, o[i], o[j])
<1>1. n \in Nat
  BY FS_CardinalityType
<1> HIDE DEF n
<1>2. PICK p : Enumerates(p, S) /\ Ascends(scores, p, n)
  BY <1>1, OrderExists DEF n
<1>3. p \in SetToSeqs(S)
  BY <1>2, EnumerationIsSetToSeqs
<1>4. DOMAIN p = 1..n
  BY <1>2 DEF Enumerates, n
<1>5. P(p)
  BY <1>2, <1>4 DEF Ascends
<1> DEFINE o == SortedByScore(scores, S)
<1>6. o = CHOOSE q \in SetToSeqs(S) : P(q)
  BY DEF SortedByScore
<1> HIDE DEF P, o
<1>7. o \in SetToSeqs(S) /\ P(o)
  BY <1>3, <1>5, <1>6
<1>8. Enumerates(o, S)
  BY <1>7, SetToSeqsEnumerates
<1>9. DOMAIN o = 1..n
  BY <1>8 DEF Enumerates, n
<1>10. Ascends(scores, o, n)
  BY <1>7, <1>9 DEF P, Ascends
<1> QED BY <1>8, <1>10 DEF o, n

-----------------------------------------------------------------------------
(* The two selections of the best. *)

(* r goes through n of C, nearest first, and none left out is nearer.       *)
Best(scores, C, n, r) ==
  /\ r \in Seq(C) /\ Len(r) = n
  /\ \A i, j \in 1..n : r[i] = r[j] => i = j
  /\ \A i, j \in 1..n : i < j => scores[r[i]] <= scores[r[j]]
  /\ \A c \in C \ ToSet(r), i \in 1..n : scores[r[i]] <= scores[c]

BestSet(scores, C, S) ==
  S \in SUBSET C /\ \A i \in S, j \in C \ S : scores[i] <= scores[j]

(* A sorted order of the best is a best answer.                             *)
LEMMA SortedBest ==
  ASSUME NEW C \in SUBSET Int, NEW scores \in [C -> Int],
         NEW S, IsFiniteSet(S), BestSet(scores, C, S), NEW r \in SortedOrders(scores, S)
  PROVE  Best(scores, C, Cardinality(S), r)
<1>1. PICK n \in Nat : n = Cardinality(S)
  BY FS_CardinalityType
<1>2. r \in SetToSeqs(S) /\ \A i \in 1..(Len(r) - 1) : scores[r[i]] <= scores[r[i + 1]]
  BY DEF SortedOrders
<1>3. Enumerates(r, S)
  BY <1>2, SetToSeqsEnumerates
<1>4. r \in Seq(S) /\ Len(r) = n /\ ToSet(r) = S
  BY <1>1, <1>3, EnumerationIsSeq
<1>5. r \in [1..n -> S] /\ \A i, j \in 1..n : r[i] = r[j] => i = j
  BY <1>1, <1>3 DEF Enumerates
<1>6. S \in SUBSET C
  BY DEF BestSet
<1>7. r \in Seq(C)
  <2>1. r \in [1..n -> C]
    BY <1>5, <1>6
  <2> QED BY <2>1
<1> DEFINE s == [i \in 1..n |-> scores[r[i]]]
<1>8. s \in [1..n -> Int] /\ \A i \in 1..n : s[i] = scores[r[i]]
  BY <1>5, <1>6
<1>9. \A i \in 1..(n - 1) : s[i] <= s[i + 1]
  <2>1. \A i \in 1..(n - 1) : i \in 1..n /\ i + 1 \in 1..n
    OBVIOUS
  <2> QED BY <1>2, <1>4, <1>8, <2>1
<1> HIDE DEF s
<1>10. \A i, j \in 1..n : i < j => s[i] <= s[j]
  BY <1>8, <1>9, NeighboursOrder
<1>11. \A i, j \in 1..n : i < j => scores[r[i]] <= scores[r[j]]
  BY <1>8, <1>10
<1>12. \A c \in C \ ToSet(r), i \in 1..n : scores[r[i]] <= scores[c]
  BY <1>4, <1>5 DEF BestSet
<1>13. Best(scores, C, n, r)
  <2>1. \A i, j \in 1..n : r[i] = r[j] => i = j
    BY <1>5
  <2> QED BY <1>4, <1>7, <1>11, <1>12, <2>1 DEF Best
<1> QED BY <1>1, <1>13

(* nth_element and a sort find them ...                                     *)
LEMMA SmallBest ==
  ASSUME NEW count \in Nat, NEW scores \in [0..(count - 1) -> Int], NEW n \in Nat,
         NEW r \in SelectTopNProbeSmall(scores, count, n)
  PROVE  Best(scores, 0..(count - 1), n, r)
<1> DEFINE C == 0..(count - 1)
<1>1. PICK S \in kSubset(n, C) :
        (\A i \in S, j \in C \ S : scores[i] <= scores[j]) /\ r \in SortedOrders(scores, S)
  BY DEF SelectTopNProbeSmall
<1>2. S \in SUBSET C /\ Cardinality(S) = n
  BY DEF kSubset
<1>3. IsFiniteSet(C)
  BY FS_Interval
<1>4. IsFiniteSet(S)
  BY <1>2, <1>3, FS_Subset
<1>5. BestSet(scores, C, S) /\ C \in SUBSET Int
  BY <1>1, <1>2 DEF BestSet
<1> HIDE DEF C
<1>6. scores \in [C -> Int]
  BY DEF C
<1>7. Best(scores, C, Cardinality(S), r)
  BY <1>1, <1>4, <1>5, <1>6, SortedBest
<1> QED BY <1>2, <1>7 DEF C

(* A heap of the n best of the first m.                                     *)
HeapOk(h, scores, m, n) ==
  /\ h \in SUBSET (0..(m - 1)) /\ IsFiniteSet(h) /\ Cardinality(h) = n
  /\ \A i \in h, j \in (0..(m - 1)) \ h : scores[i] <= scores[j]

(* It has a worst element.                                                  *)
LEMMA HeapWorst ==
  ASSUME NEW C \in SUBSET Int, NEW scores \in [C -> Int],
         NEW h \in SUBSET C, IsFiniteSet(h), Cardinality(h) # 0
  PROVE  \E w \in h : \A j \in h : scores[j] <= scores[w]
<1>1. PICK k \in Nat : Cardinality(h) = k + 1
  <2>1. Cardinality(h) \in Nat
    BY FS_CardinalityType
  <2>2. Cardinality(h) - 1 \in Nat /\ Cardinality(h) = (Cardinality(h) - 1) + 1
    BY <2>1
  <2> QED BY <2>2
<1>2. PICK w : Worst(scores, h, w)
  <2>1. \A c \in C : scores[c] \in Int
    OBVIOUS
  <2> QED BY <1>1, <2>1, WorstExists
<1>3. w \in h /\ \A j \in h : j = w \/ TopKScoreLess(scores, j, w)
  BY <1>2 DEF Worst
<1>4. \A j \in h : scores[j] \in Int
  OBVIOUS
<1>5. \A j \in h : scores[j] <= scores[w]
  BY <1>3, <1>4 DEF TopKScoreLess
<1> QED BY <1>3, <1>5

(* One more score keeps it so.                                              *)
LEMMA HeapStepKeeps ==
  ASSUME NEW count \in Nat, NEW scores \in [0..(count - 1) -> Int],
         NEW n \in Nat \ {0}, NEW m \in 0..(count - 1),
         NEW heaps, \A h \in heaps : HeapOk(h, scores, m, n)
  PROVE  \A g \in HeapStep(scores, heaps, m) : HeapOk(g, scores, m + 1, n)
<1> TAKE g \in HeapStep(scores, heaps, m)
<1> DEFINE worstOf(h) == {w \in h : \A j \in h : scores[j] <= scores[w]}
<1>1. PICK h \in heaps :
        g \in (IF \A w \in worstOf(h) : scores[m] >= scores[w] THEN {h}
               ELSE {(h \ {w}) \cup {m} : w \in worstOf(h)})
  BY DEF HeapStep
<1>2. /\ h \in SUBSET (0..(m - 1)) /\ IsFiniteSet(h) /\ Cardinality(h) = n
      /\ \A i \in h, j \in (0..(m - 1)) \ h : scores[i] <= scores[j]
  BY DEF HeapOk
<1>3. /\ m \in 0..(count - 1) /\ (m + 1) - 1 = m /\ ~(m \in 0..(m - 1))
      /\ \A j \in 0..(m - 1) : j \in 0..m /\ j \in 0..(count - 1)
      /\ \A j \in 0..m : j = m \/ j \in 0..(m - 1)
      /\ m \in 0..m
  OBVIOUS
<1>4. PICK x \in h : \A j \in h : scores[j] <= scores[x]
  <2> DEFINE C == 0..(count - 1)
  <2>1. h \in SUBSET C /\ C \in SUBSET Int /\ scores \in [C -> Int]
    BY <1>2, <1>3
  <2>2. Cardinality(h) # 0
    BY <1>2
  <2> HIDE DEF C
  <2> QED BY <1>2, <2>1, <2>2, HeapWorst
<1>5. scores[m] \in Int /\ \A j \in 0..(m - 1) : scores[j] \in Int
  BY <1>3
<1>6. CASE \A w \in worstOf(h) : scores[m] >= scores[w]
  <2>1. g = h /\ scores[m] >= scores[x]
    BY <1>1, <1>4, <1>6
  <2>2. ASSUME NEW i \in h, NEW j \in (0..m) \ h PROVE scores[i] <= scores[j]
    <3>1. CASE j = m
      BY <1>2, <1>4, <1>5, <2>1, <3>1
    <3>2. CASE j \in 0..(m - 1)
      BY <1>2, <3>2
    <3> QED BY <1>3, <3>1, <3>2
  <2>3. h \in SUBSET (0..m)
    BY <1>2, <1>3
  <2> QED BY <1>2, <1>3, <2>1, <2>2, <2>3 DEF HeapOk
<1>7. CASE ~(\A w \in worstOf(h) : scores[m] >= scores[w])
  <2>1. PICK w \in h : (\A j \in h : scores[j] <= scores[w]) /\ g = (h \ {w}) \cup {m}
    BY <1>1, <1>7
  <2>2. PICK y \in h : (\A j \in h : scores[j] <= scores[y]) /\ ~(scores[m] >= scores[y])
    BY <1>7
  <2>3. scores[m] < scores[w]
    BY <1>2, <1>5, <2>1, <2>2
  <2>4. ASSUME NEW i \in g, NEW j \in (0..m) \ g PROVE scores[i] <= scores[j]
    <3>1. j \in 0..(m - 1) /\ (j = w \/ ~(j \in h))
      BY <1>3, <2>1, <2>4
    <3>2. scores[w] <= scores[j]
      BY <1>2, <1>5, <2>1, <3>1
    <3>3. scores[i] <= scores[w]
      <4>1. CASE i = m
        <5>1. scores[m] \in Int /\ scores[w] \in Int
          BY <1>2, <1>5, <2>1
        <5> QED BY <2>3, <4>1, <5>1
      <4>2. CASE i \in h
        BY <2>1, <4>2
      <4> QED BY <2>1, <4>1, <4>2
    <3>4. scores[i] \in Int /\ scores[j] \in Int /\ scores[w] \in Int
      BY <1>2, <1>5, <2>1, <3>1
    <3>5. CASE j = w
      BY <3>3, <3>5
    <3>6. CASE ~(j \in h)
      BY <3>2, <3>3, <3>4
    <3> QED BY <3>1, <3>5, <3>6
  <2>5. g \in SUBSET (0..m)
    BY <1>2, <1>3, <2>1
  <2>6. IsFiniteSet(g) /\ Cardinality(g) = n
    <3>1. IsFiniteSet(h \ {w}) /\ Cardinality(h \ {w}) = n - 1
      BY <1>2, <2>1, FS_RemoveElement
    <3>2. ~(m \in h \ {w})
      BY <1>2, <1>3
    <3>3. Cardinality(g) = (n - 1) + 1 /\ IsFiniteSet(g)
      BY <2>1, <3>1, <3>2, FS_AddElement
    <3> QED BY <3>3
  <2> QED BY <1>3, <2>4, <2>5, <2>6 DEF HeapOk
<1> QED BY <1>6, <1>7

(* D steps the heaps, of sets of numbers below count.                       *)
HeapSteps(D, scores, count, n, R) ==
  /\ D \in [(SUBSET SUBSET (0..(count - 1))) \X (0..(R - 1)) -> SUBSET SUBSET (0..(count - 1))]
  /\ \A u \in SUBSET SUBSET (0..(count - 1)) : \A k \in 0..(R - 1) :
       D[<<u, k>>] = HeapStep(scores, u, n + k)

(* There is such a run of heaps ...                                         *)
LEMMA HeapStepsExist ==
  ASSUME NEW count \in Nat, NEW scores, NEW n \in 0..count
  PROVE  \E D : HeapSteps(D, scores, count, n, count - n)
<1> DEFINE R == count - n
           V == SUBSET SUBSET (0..(count - 1))
           D == [p \in V \X (0..(R - 1)) |-> HeapStep(scores, p[1], n + p[2])]
<1>1. ASSUME NEW u \in V, NEW k \in 0..(R - 1) PROVE HeapStep(scores, u, n + k) \in V
  <2>1. n + k \in 0..(count - 1)
    OBVIOUS
  <2>2. ASSUME NEW h \in u, NEW w PROVE (h \ {w}) \cup {n + k} \in SUBSET (0..(count - 1))
    BY <2>1
  <2>3. \A h \in u : h \in SUBSET (0..(count - 1))
    OBVIOUS
  <2>4. ASSUME NEW g \in HeapStep(scores, u, n + k) PROVE g \in SUBSET (0..(count - 1))
    <3>1. \E h \in u : g = h \/ \E w : g = (h \ {w}) \cup {n + k}
      BY <2>4 DEF HeapStep
    <3> QED BY <2>2, <2>3, <3>1
  <2> QED BY <2>4
<1>2. D \in [V \X (0..(R - 1)) -> V]
  BY <1>1
<1>3. \A u \in V : \A k \in 0..(R - 1) : D[<<u, k>>] = HeapStep(scores, u, n + k)
  OBVIOUS
<1> QED BY <1>2, <1>3 DEF HeapSteps

Heaps(scores, count, n) ==
  Iterate(count - n, {0..(n - 1)}, LAMBDA heaps, k : HeapStep(scores, heaps, n + k))

(* ... and so does the heap.                                                *)
LEMMA HeapsOk ==
  ASSUME NEW count \in Nat, NEW scores \in [0..(count - 1) -> Int], NEW n \in 1..count
  PROVE  \A h \in Heaps(scores, count, n) : HeapOk(h, scores, count, n)
<1> DEFINE R == count - n
           V == SUBSET SUBSET (0..(count - 1))
           start == {0..(n - 1)}
           B(u, k) == HeapStep(scores, u, n + k)
           Unfolds(x) == x = [k \in 0..R |-> IF k = 0 THEN start ELSE B(x[k - 1], k - 1)]
<1>0. R \in Nat /\ n + R = count /\ n \in Nat \ {0}
  OBVIOUS
<1>1. PICK D : HeapSteps(D, scores, count, n, R)
  <2>1. n \in 0..count
    OBVIOUS
  <2> QED BY <2>1, HeapStepsExist
<1>2. /\ D \in [V \X (0..(R - 1)) -> V]
      /\ \A u \in V : \A k \in 0..(R - 1) : D[<<u, k>>] = B(u, k)
  BY <1>1 DEF HeapSteps
<1>3. start \in V
  <2>1. \A i \in 0..(n - 1) : i \in 0..(count - 1)
    BY <1>0
  <2>2. 0..(n - 1) \in SUBSET (0..(count - 1))
    BY <2>1
  <2> QED BY <2>2
<1> HIDE DEF B, R, V, start
<1>4. PICK f : Steps(f, V, start, R, D)
  BY <1>0, <1>2, <1>3, StepsExist
<1>5. Unfolds(f)
  <2>0. /\ f \in [0..R -> V] /\ f[0] = start
        /\ \A k \in 1..R : f[k] = D[<<f[k - 1], k - 1>>]
    BY <1>4 DEF Steps
  <2>1. ASSUME NEW k \in 1..R PROVE f[k] = B(f[k - 1], k - 1)
    <3>1. k - 1 \in 0..(R - 1) /\ k - 1 \in 0..R
      BY <1>0
    <3>2. f[k - 1] \in V
      BY <2>0, <3>1
    <3> QED BY <1>2, <2>0, <3>1, <3>2
  <2>2. \A k \in 0..R : k = 0 \/ k \in 1..R
    BY <1>0
  <2> QED BY <2>0, <2>1, <2>2
<1> DEFINE x == CHOOSE y : Unfolds(y)
<1>6. Unfolds(x)
  <2> HIDE DEF Unfolds
  <2> QED BY <1>5
<1>7. Heaps(scores, count, n) = x[R]
  BY Zenon DEF Heaps, Iterate, B, R, start
<1> HIDE DEF x
<1>8. x[0] = start /\ \A k \in 1..R : x[k] = B(x[k - 1], k - 1)
  <2>1. 0 \in 0..R /\ \A k \in 1..R : k \in 0..R /\ k # 0
    BY <1>0
  <2> QED BY <1>6, <2>1
<1> HIDE DEF Unfolds
<1> DEFINE Good(k) == k <= R => \A h \in x[k] : HeapOk(h, scores, n + k, n)
           K == {k \in Nat : Good(k)}
<1>9. 0 \in K
  <2>1. IsFiniteSet(0..(n - 1)) /\ Cardinality(0..(n - 1)) = n
    <3>1. 0 \in Int /\ n - 1 \in Int /\ ~(0 > n - 1) /\ (n - 1) - 0 + 1 = n
      BY <1>0
    <3> QED BY <3>1, FS_Interval
  <2>2. \A i : i \in 0..(n - 1) => ~(i \in (0..(n - 1)) \ (0..(n - 1)))
    OBVIOUS
  <2>3. HeapOk(0..(n - 1), scores, n, n)
    BY <2>1 DEF HeapOk
  <2>4. n + 0 = n /\ \A h \in x[0] : h = 0..(n - 1)
    BY <1>0, <1>8 DEF start
  <2> QED BY <2>3, <2>4
<1>10. ASSUME NEW k \in Nat, k \in K PROVE k + 1 \in K
  <2>1. ASSUME k + 1 <= R PROVE \A h \in x[k + 1] : HeapOk(h, scores, n + (k + 1), n)
    <3>1. k + 1 \in 1..R /\ (k + 1) - 1 = k /\ k <= R
      BY <1>0, <2>1
    <3>2. x[k + 1] = HeapStep(scores, x[k], n + k)
      BY <1>8, <3>1 DEF B
    <3>3. \A h \in x[k] : HeapOk(h, scores, n + k, n)
      BY <1>10, <3>1
    <3>4. PICK m \in 0..(count - 1) : m = n + k
      BY <1>0, <3>1
    <3>5. m + 1 = n + (k + 1)
      BY <1>0, <3>4
    <3>6. \A h \in HeapStep(scores, x[k], m) : HeapOk(h, scores, m + 1, n)
      BY <1>0, <3>3, <3>4, HeapStepKeeps
    <3> QED BY <3>2, <3>4, <3>5, <3>6
  <2> QED BY <2>1
<1> HIDE DEF K
<1>11. \A k \in Nat : k \in K
  BY <1>9, <1>10, SubsetInduction
<1>12. \A h \in x[R] : HeapOk(h, scores, count, n)
  BY <1>0, <1>11 DEF K
<1> QED BY <1>7, <1>12

(* ... and whichever is selected with.                                      *)
LEMMA SelectBest ==
  ASSUME NEW count \in Nat, NEW scores \in [0..(count - 1) -> Int], NEW n \in 0..count,
         NEW r \in Select(scores, count, n)
  PROVE  Best(scores, 0..(count - 1), n, r)
<1>1. CASE r \in SelectTopNProbeSmall(scores, count, n)
  BY <1>1, SmallBest
<1>2. CASE r \in SelectTopNProbeSmallSpecialized(scores, count, n) /\ n = 0
  <2>1. r = << >>
    BY <1>2 DEF SelectTopNProbeSmallSpecialized
  <2>2. \A i \in 1..n : FALSE
    BY <1>2
  <2>3. r \in Seq(0..(count - 1)) /\ Len(r) = n
    BY <1>2, <2>1
  <2> QED BY <2>2, <2>3 DEF Best
<1>3. CASE r \in SelectTopNProbeSmallSpecialized(scores, count, n) /\ n # 0
  <2>0. SelectTopNProbeSmallSpecialized(scores, count, n)
        = UNION {SortedOrders(scores, h) : h \in Heaps(scores, count, n)}
    BY <1>3, Zenon DEF SelectTopNProbeSmallSpecialized, Heaps
  <2>1. PICK h \in Heaps(scores, count, n) : r \in SortedOrders(scores, h)
    BY <1>3, <2>0
  <2>2. n \in 1..count
    BY <1>3
  <2>3. HeapOk(h, scores, count, n)
    BY <2>1, <2>2, HeapsOk
  <2>4. IsFiniteSet(h) /\ Cardinality(h) = n /\ BestSet(scores, 0..(count - 1), h)
    BY <2>3 DEF HeapOk, BestSet
  <2> DEFINE C == 0..(count - 1)
  <2>5. C \in SUBSET Int /\ scores \in [C -> Int]
    OBVIOUS
  <2> HIDE DEF C
  <2>6. BestSet(scores, C, h)
    BY <2>4 DEF C
  <2>7. Best(scores, C, Cardinality(h), r)
    BY <2>1, <2>4, <2>5, <2>6, SortedBest
  <2> QED BY <2>4, <2>7 DEF C
<1> QED BY <1>1, <1>2, <1>3 DEF Select

-----------------------------------------------------------------------------
(* The packed layout of the centroids. *)

(* Where a component of a centroid is packed leads back to it.              *)
PlaceIs(B, W0, D, g, b, lane, e, stride, p) ==
  /\ p \in Nat /\ p < (g + 1) * stride
  /\ p % W0 = e /\ (p \div W0) % B = lane
  /\ (p \div (W0 * B)) % D = b /\ p \div stride = g

(* Block, component block, lane and component give back the place.          *)
LEMMA PackedPlace ==
  ASSUME NEW B \in Nat \ {0}, NEW W0 \in Nat \ {0}, NEW D \in Nat \ {0},
         NEW g \in Nat, NEW b \in 0..(D - 1), NEW lane \in 0..(B - 1), NEW e \in 0..(W0 - 1),
         NEW stride, stride = D * B * W0,
         NEW p, p = g * stride + b * B * W0 + lane * W0 + e
  PROVE  PlaceIs(B, W0, D, g, b, lane, e, stride, p)
<1>1. PICK t \in Nat : t = D * g + b
  OBVIOUS
<1>2. PICK u \in Nat : u = B * t + lane
  OBVIOUS
<1>3. p = W0 * u + e
  BY <1>1, <1>2
<1>4. p \div W0 = u /\ p % W0 = e
  BY <1>3, Quotients
<1>5. u % B = lane
  BY <1>2, Quotients
<1>6. PICK c \in Nat \ {0} : c = W0 * B
  <2>1. W0 * B \in Nat \ {0}
    OBVIOUS
  <2> QED BY <2>1
<1>7. PICK s \in 0..(c - 1) : s = lane * W0 + e
  <2>1. (lane + 1) * W0 = lane * W0 + W0 /\ lane * W0 \in Nat
    OBVIOUS
  <2>2. PICK k \in Nat : B = (lane + 1) + k
    <3>1. B - (lane + 1) \in Nat /\ B = (lane + 1) + (B - (lane + 1))
      OBVIOUS
    <3> QED BY <3>1
  <2>3. c = (lane + 1) * W0 + k * W0 /\ k * W0 \in Nat
    BY <1>6, <2>2
  <2> QED BY <2>1, <2>3
<1>8. p = c * t + s
  BY <1>1, <1>6, <1>7
<1>9. p \div c = t
  BY <1>8, Quotients
<1>10. t % D = b
  BY <1>1, Quotients
<1>11. stride = D * c /\ stride \in Nat
  BY <1>6
<1>12. PICK z \in 0..(stride - 1) : z = c * b + s
  <2>1. c * (b + 1) = c * b + c /\ c * b \in Nat
    OBVIOUS
  <2>2. PICK k \in Nat : D = (b + 1) + k
    <3>1. D - (b + 1) \in Nat /\ D = (b + 1) + (D - (b + 1))
      OBVIOUS
    <3> QED BY <3>1
  <2>3. stride = c * (b + 1) + c * k /\ c * k \in Nat
    BY <1>11, <2>2
  <2> QED BY <2>1, <2>3
<1>13. p = stride * g + z
  BY <1>6, <1>7, <1>11, <1>12
<1>14. stride \in Nat \ {0}
  BY <1>11, <1>12
<1>15. p \div stride = g
  BY <1>13, <1>14, Quotients
<1>16. p \in Nat /\ p < (g + 1) * stride
  <2>1. (g + 1) * stride = stride * g + stride /\ stride * g \in Nat
    BY <1>14
  <2> QED BY <1>12, <1>13, <2>1
<1> QED BY <1>4, <1>5, <1>6, <1>9, <1>10, <1>15, <1>16 DEF PlaceIs

(* x, then zeroes up to a whole number of groups.                           *)
Padded(y, x) ==
  /\ y \in Vec(DimBlocks * VecWidth)
  /\ \A d \in 0..(DimBlocks * VecWidth - 1) : y[d] = IF d < CentroidDim THEN x[d] ELSE 0

(* The sizes of the layout.                                                 *)
LEMMA RoutingSizes ==
  /\ CentroidDim \in Nat \ {0} /\ CentroidBlock \in Nat \ {0} /\ VecWidth \in Nat \ {0}
  /\ DimBlocks \in Nat \ {0} /\ CentroidDim <= DimBlocks * VecWidth
  /\ DimBlocks * VecWidth \in Nat
  /\ BlockStride = DimBlocks * CentroidBlock * VecWidth
<1>1. CentroidDim \in Nat \ {0} /\ CentroidBlock \in Nat \ {0} /\ VecWidth \in Nat \ {0}
  BY RoutingAssumption
<1>2. DimBlocks \in Nat \ {0} /\ CentroidDim <= DimBlocks * VecWidth
  BY <1>1, CeilDivIs DEF DimBlocks
<1>3. DimBlocks * VecWidth \in Nat
  BY <1>1, <1>2
<1> QED BY <1>1, <1>2, <1>3 DEF BlockStride

(* The kernel finds a component where the layout has put it.                *)
LEMMA PackedComponent ==
  ASSUME NEW n \in Nat, NEW src \in [0..(n - 1) -> Vec(CentroidDim)],
         NEW c \in 0..(n - 1), NEW d \in 0..(DimBlocks * VecWidth - 1)
  PROVE  BuildCoarsePackedLayout(src, n)
           [(c \div CentroidBlock) * BlockStride + (d \div VecWidth) * CentroidBlock * VecWidth
              + (c % CentroidBlock) * VecWidth + (d % VecWidth)]
         = IF d < CentroidDim THEN src[c][d] ELSE 0
<1> DEFINE B == CentroidBlock
           W0 == VecWidth
           D == DimBlocks
           stride == BlockStride
<1>1. B \in Nat \ {0} /\ W0 \in Nat \ {0} /\ D \in Nat \ {0} /\ stride = D * B * W0
  BY RoutingSizes
<1>2. c \in Nat /\ d \in Nat /\ d < D * W0
  BY RoutingSizes
<1>3. PICK g \in Nat, lane \in 0..(B - 1) : c = B * g + lane /\ c \div B = g /\ c % B = lane
  BY <1>1, <1>2, QuotientOfNat
<1>4. PICK b \in Nat, e \in 0..(W0 - 1) : d = W0 * b + e /\ d \div W0 = b /\ d % W0 = e
  BY <1>1, <1>2, QuotientOfNat
<1> DEFINE p == g * stride + b * B * W0 + lane * W0 + e
           F(q) == LET l == (q \div VecWidth) % CentroidBlock
                       db == (q \div (VecWidth * CentroidBlock)) % DimBlocks
                       centroid == (q \div BlockStride) * CentroidBlock + l
                       j == db * VecWidth + (q % VecWidth)
                   IN IF centroid < n /\ j < CentroidDim THEN src[centroid][j] ELSE 0
<1>5. BuildCoarsePackedLayout(src, n)
      = [q \in 0..(CeilDiv(n, CentroidBlock) * BlockStride - 1) |-> F(q)]
  BY DEF BuildCoarsePackedLayout
<1> HIDE DEF B, W0, D, stride
<1>6. b \in 0..(D - 1)
  <2>1. SUFFICES ASSUME D <= b PROVE FALSE
    BY <1>1
  <2>2. PICK k \in Nat : b = D + k
    BY <1>1, <2>1
  <2>3. W0 * b = D * W0 + k * W0 /\ k * W0 \in Nat /\ D * W0 \in Nat
    BY <1>1, <2>2
  <2> QED BY <1>1, <1>2, <1>4, <2>3
<1>7. /\ p \in Nat /\ p < (g + 1) * stride
      /\ p % W0 = e /\ (p \div W0) % B = lane
      /\ (p \div (W0 * B)) % D = b /\ p \div stride = g
  <2>1. PICK x : x = p
    OBVIOUS
  <2> HIDE DEF p
  <2>2. /\ x \in Nat /\ x < (g + 1) * stride
        /\ x % W0 = e /\ (x \div W0) % B = lane
        /\ (x \div (W0 * B)) % D = b /\ x \div stride = g
    <3>1. x = g * stride + b * B * W0 + lane * W0 + e
      BY <2>1 DEF p
    <3>2. PlaceIs(B, W0, D, g, b, lane, e, stride, x)
      BY <1>1, <1>6, <3>1, PackedPlace
    <3> QED BY <3>2 DEF PlaceIs
  <2> QED BY <2>1, <2>2
<1>8. p \in 0..(CeilDiv(n, B) * stride - 1)
  <2>1. CeilDiv(n, B) \in Nat /\ g < CeilDiv(n, B)
    <3>1. g * B < n
      BY <1>1, <1>3
    <3> QED BY <1>1, <3>1, CeilDivIs
  <2>2. PICK k \in Nat : CeilDiv(n, B) = (g + 1) + k
    <3>1. CeilDiv(n, B) - (g + 1) \in Nat /\ CeilDiv(n, B) = (g + 1) + (CeilDiv(n, B) - (g + 1))
      BY <2>1
    <3> QED BY <3>1
  <2>3. stride \in Nat
    BY <1>1
  <2>4. CeilDiv(n, B) * stride = (g + 1) * stride + k * stride
        /\ k * stride \in Nat /\ (g + 1) * stride \in Nat
    BY <2>2, <2>3
  <2> HIDE DEF p
  <2> QED BY <1>7, <2>4
<1>9. F(p) = IF c < n /\ d < CentroidDim THEN src[c][d] ELSE 0
  <2>1. (p \div BlockStride) * CentroidBlock + ((p \div VecWidth) % CentroidBlock) = c
    <3>1. g * B + lane = c
      BY <1>1, <1>3
    <3> HIDE DEF p
    <3> QED BY <1>7, <3>1 DEF B, W0, D, stride
  <2>2. ((p \div (VecWidth * CentroidBlock)) % DimBlocks) * VecWidth + (p % VecWidth) = d
    <3>1. b * W0 + e = d
      BY <1>1, <1>4
    <3> HIDE DEF p
    <3> QED BY <1>7, <3>1 DEF B, W0, D, stride
  <2> HIDE DEF p
  <2> QED BY <2>1, <2>2, Zenon
<1>10. c < n
  OBVIOUS
<1>11. (c \div CentroidBlock) * BlockStride + (d \div VecWidth) * CentroidBlock * VecWidth
              + (c % CentroidBlock) * VecWidth + (d % VecWidth) = p
  BY <1>3, <1>4, Zenon DEF B, W0, D, stride
<1> HIDE DEF F, p
<1>12. BuildCoarsePackedLayout(src, n)[p] = F(p)
  BY <1>5, <1>8, Zenon DEF B, stride
<1> QED BY <1>9, <1>10, <1>11, <1>12

(* So a score is the inner product, negated.                                *)
LEMMA PackedScores ==
  ASSUME NEW n \in Nat, NEW src \in [0..(n - 1) -> Vec(CentroidDim)],
         NEW x \in Vec(CentroidDim), NEW y, Padded(y, x), NEW c \in 0..(n - 1)
  PROVE  ComputeCoarseIPScores(y, BuildCoarsePackedLayout(src, n), n)[c] = -Inner(x, src[c])
<1> DEFINE N == DimBlocks * VecWidth
           layout == BuildCoarsePackedLayout(src, n)
           at(d) == (c \div CentroidBlock) * BlockStride + (d \div VecWidth) * CentroidBlock * VecWidth
                      + (c % CentroidBlock) * VecWidth + (d % VecWidth)
           f == [d \in 0..(N - 1) |-> y[d] * layout[at(d)]]
           h == [d \in 0..(CentroidDim - 1) |-> x[d] * src[c][d]]
<1>1. ComputeCoarseIPScores(y, layout, n)[c] = -Total(N, f)
  BY DEF ComputeCoarseIPScores, SumTo
<1>2. \A d \in 0..(N - 1) : layout[at(d)] = IF d < CentroidDim THEN src[c][d] ELSE 0
  BY PackedComponent
<1>3. N \in Nat /\ CentroidDim <= N /\ CentroidDim \in Nat
  BY RoutingSizes
<1>4. /\ y \in Vec(N)
      /\ \A d \in 0..(N - 1) : y[d] = IF d < CentroidDim THEN x[d] ELSE 0
  BY DEF Padded
<1> HIDE DEF N, layout, at
<1>5. ASSUME NEW d \in 0..(N - 1)
      PROVE  f[d] = IF d < CentroidDim THEN x[d] * src[c][d] ELSE 0
  BY <1>2, <1>3, <1>4
<1>6. \A d \in 0..(CentroidDim - 1) : x[d] \in Int /\ src[c][d] \in Int /\ x[d] * src[c][d] \in Int
  <2> TAKE d \in 0..(CentroidDim - 1)
  <2>1. src[c] \in Vec(CentroidDim)
    OBVIOUS
  <2>2. x[d] \in Int /\ src[c][d] \in Int
    BY <2>1 DEF Vec
  <2> QED BY <2>2
<1>7. DOMAIN f = 0..(N - 1)
  OBVIOUS
<1>8. f = [d \in 0..(N - 1) |-> f[d]]
  OBVIOUS
<1> HIDE DEF f
<1>9. f \in [0..(N - 1) -> Int]
  <2>1. ASSUME NEW d \in 0..(N - 1) PROVE f[d] \in Int
    <3>1. CASE d < CentroidDim
      <4>1. d \in 0..(CentroidDim - 1)
        BY <1>3, <3>1
      <4> QED BY <1>5, <1>6, <3>1, <4>1
    <3>2. CASE ~(d < CentroidDim)
      BY <1>5, <3>2
    <3> QED BY <3>1, <3>2
  <2> QED BY <1>8, <2>1
<1>10. \A d \in 0..(N - 1) : ~(d \in 0..(0 + CentroidDim - 1)) => f[d] = 0
  BY <1>3, <1>5
<1> DEFINE from == 0
<1>11. from \in Nat /\ from + CentroidDim <= N /\ \A d \in 0..(N - 1) : ~(d \in from..(from + CentroidDim - 1)) => f[d] = 0
  BY <1>3, <1>10
<1> HIDE DEF from
<1>12. Total(N, f) = Total(CentroidDim, [j \in 0..(CentroidDim - 1) |-> f[from + j]])
  BY <1>3, <1>9, <1>11, TotalOfWindow
<1>13. [j \in 0..(CentroidDim - 1) |-> f[from + j]] = h
  <2>1. ASSUME NEW j \in 0..(CentroidDim - 1) PROVE f[from + j] = x[j] * src[c][j]
    <3>1. from + j = j /\ j \in 0..(N - 1) /\ j < CentroidDim
      BY <1>3 DEF from
    <3> QED BY <1>5, <3>1
  <2> QED BY <2>1
<1>14. Inner(x, src[c]) = Total(CentroidDim, h)
  <2>1. src[c] \in Vec(CentroidDim)
    OBVIOUS
  <2> QED BY <1>3, <2>1, InnerIs
<1> QED BY <1>1, <1>12, <1>13, <1>14 DEF layout

-----------------------------------------------------------------------------
(* The scores are the distances the caller asked about. *)

(* Seen and Distance of a metric.                                           *)
SeenBy(metric, v) == IF metric = "cosine" THEN NormalizeVector(v) ELSE v

DistanceBy(metric, q, c) ==
  IF metric = "l2" THEN L2Sqr(q, Centroids[c])
  ELSE -Inner(SeenBy(metric, q), SeenBy(metric, Centroids[c]))

RoutingVectors == Queries \cup SuperVectors \cup {Centroids[c] : c \in Clusters}

(* All vectors have CentroidDim components.                                 *)
LEMMA RoutingVectorsAreVectors ==
  /\ RoutingVectors \subseteq Vec(CentroidDim)
  /\ NList \in Nat \ {0} /\ Centroids \in [Clusters -> Vec(CentroidDim)]
<1>1. NList \in Nat \ {0} /\ Centroids \in [Clusters -> Vec(CentroidDim)]
  BY RoutingAssumption DEF Clusters, Vec
<1>2. Queries \cup SuperVectors \subseteq Vec(CentroidDim)
  BY RoutingAssumption DEF Vec
<1> QED BY <1>1, <1>2 DEF RoutingVectors

(* Normalised or not, the kernels are given a vector ...                    *)
LEMMA SeenType ==
  ASSUME NEW metric \in RoutingMetrics, NEW v \in RoutingVectors
  PROVE  SeenBy(metric, v) \in Vec(CentroidDim)
<1>1. v \in Vec(CentroidDim) /\ CentroidDim \in Nat
  BY RoutingVectorsAreVectors, RoutingSizes
<1>2. CASE metric # "cosine" \/ Inner(v, v) = 0
  BY <1>1, <1>2 DEF SeenBy, NormalizeVector
<1>3. CASE metric = "cosine" /\ Inner(v, v) # 0
  <2>1. \E n \in 1..Inner(v, v) : n * n = Inner(v, v)
    BY <1>3, WholeLengths DEF RoutingVectors, Clusters
  <2> DEFINE norm == CHOOSE n \in 1..Inner(v, v) : n * n = Inner(v, v)
  <2>2. norm \in 1..Inner(v, v)
    BY <2>1
  <2>3. SeenBy(metric, v) = [d \in 0..(CentroidDim - 1) |-> (Scale * v[d]) \div norm]
    BY <1>3 DEF SeenBy, NormalizeVector
  <2> HIDE DEF norm
  <2>4. norm \in Nat \ {0}
    <3>1. Inner(v, v) \in Int
      BY <1>1, InnerIs
    <3> QED BY <2>2, <3>1
  <2>5. ASSUME NEW d \in 0..(CentroidDim - 1) PROVE (Scale * v[d]) \div norm \in Int
    <3>1. v[d] \in Int /\ Scale \in Int
      BY <1>1, RoutingAssumption DEF Vec
    <3>2. PICK x \in Int : x = Scale * v[d]
      BY <3>1
    <3>3. x \div norm \in Int
      BY <2>4
    <3> QED BY <3>2, <3>3
  <2> QED BY <2>3, <2>5 DEF Vec
<1> QED BY <1>2, <1>3

(* ... whose distances are integers, by either metric.                      *)
LEMMA L2Type ==
  ASSUME NEW u \in Vec(CentroidDim), NEW v \in Vec(CentroidDim)
  PROVE  L2Sqr(u, v) \in Int
<1> DEFINE f == [d \in 0..(CentroidDim - 1) |-> (u[d] - v[d]) * (u[d] - v[d])]
<1>1. \A d \in 0..(CentroidDim - 1) : (u[d] - v[d]) * (u[d] - v[d]) \in Int
  <2> TAKE d \in 0..(CentroidDim - 1)
  <2>1. u[d] \in Int /\ v[d] \in Int
    BY DEF Vec
  <2>2. PICK x \in Int : x = u[d] - v[d]
    BY <2>1
  <2>3. x * x \in Int
    OBVIOUS
  <2> QED BY <2>2, <2>3
<1>2. f \in [0..(CentroidDim - 1) -> Int]
  BY <1>1
<1>3. L2Sqr(u, v) = Total(CentroidDim, f)
  BY Zenon DEF L2Sqr, SumTo
<1>4. CentroidDim \in Nat
  BY RoutingSizes
<1> HIDE DEF f
<1> QED BY <1>2, <1>3, <1>4, TotalType

(* So is what the caller asked about.                                       *)
LEMMA DistanceType ==
  ASSUME NEW metric \in RoutingMetrics, NEW q \in RoutingVectors, NEW c \in Clusters
  PROVE  DistanceBy(metric, q, c) \in Int
<1>1. Centroids[c] \in RoutingVectors
  BY DEF RoutingVectors
<1>2. q \in Vec(CentroidDim) /\ Centroids[c] \in Vec(CentroidDim) /\ CentroidDim \in Nat
  BY <1>1, RoutingVectorsAreVectors, RoutingSizes
<1>3. SeenBy(metric, q) \in Vec(CentroidDim) /\ SeenBy(metric, Centroids[c]) \in Vec(CentroidDim)
  BY <1>1, SeenType
<1>4. Inner(SeenBy(metric, q), SeenBy(metric, Centroids[c])) \in Int
  BY <1>2, <1>3, InnerIs
<1>5. L2Sqr(q, Centroids[c]) \in Int
  BY <1>2, L2Type
<1> QED BY <1>4, <1>5 DEF DistanceBy

(* A query is padded with zeroes.                                           *)
LEMMA QueryPadded ==
  ASSUME requested_metric \in RoutingMetrics, NEW q \in Queries
  PROVE  Padded(QueryBuffer(q), SeenBy(requested_metric, q))
<1>1. SeenBy(requested_metric, q) \in Vec(CentroidDim)
  BY SeenType DEF RoutingVectors
<1>2. Seen(q) = SeenBy(requested_metric, q)
  BY DEF Seen, SeenBy
<1> DEFINE N == DimBlocks * VecWidth
           x == SeenBy(requested_metric, q)
<1>3. QueryBuffer(q) = [d \in 0..(N - 1) |-> IF d < CentroidDim THEN x[d] ELSE 0]
  BY <1>2 DEF QueryBuffer
<1>4. N \in Nat /\ CentroidDim \in Nat
  BY RoutingSizes
<1> HIDE DEF N, x
<1>5. ASSUME NEW d \in 0..(N - 1) PROVE (IF d < CentroidDim THEN x[d] ELSE 0) \in Int
  <2>1. CASE d < CentroidDim
    <3>1. d \in 0..(CentroidDim - 1)
      BY <1>4, <2>1
    <3> QED BY <1>1, <2>1, <3>1 DEF Vec, x
  <2> QED BY <2>1
<1> QED BY <1>3, <1>5 DEF Padded, Vec, N, x

(* The scores of a query over any centroids ...                             *)
LEMMA IPScoresAre ==
  ASSUME requested_metric \in RoutingMetrics, NEW q \in Queries, NEW n \in Nat,
         NEW src \in [0..(n - 1) -> RoutingVectors]
  PROVE  /\ IPScores(q, src, n) \in [0..(n - 1) -> Int]
         /\ \A c \in 0..(n - 1) : IPScores(q, src, n)[c]
              = -Inner(SeenBy(requested_metric, q), SeenBy(requested_metric, src[c]))
<1> DEFINE seen == [c \in 0..(n - 1) |-> Seen(src[c])]
           x == SeenBy(requested_metric, q)
<1>1. \A v : Seen(v) = SeenBy(requested_metric, v)
  BY DEF Seen, SeenBy
<1>2. ASSUME NEW c \in 0..(n - 1) PROVE SeenBy(requested_metric, src[c]) \in Vec(CentroidDim)
  <2>1. src[c] \in RoutingVectors
    OBVIOUS
  <2> QED BY <2>1, SeenType
<1>3. /\ seen \in [0..(n - 1) -> Vec(CentroidDim)]
      /\ \A c \in 0..(n - 1) : seen[c] = SeenBy(requested_metric, src[c])
  BY <1>1, <1>2
<1>4. x \in Vec(CentroidDim) /\ CentroidDim \in Nat
  BY SeenType, RoutingSizes DEF RoutingVectors
<1>5. IPScores(q, src, n)
      = ComputeCoarseIPScores(QueryBuffer(q), BuildCoarsePackedLayout(seen, n), n)
  <2>1. IPScores(q, src, n) = ComputeCoarseIPScores(Table(QueryBuffer(q)),
                                Table(BuildCoarsePackedLayout(seen, n)), n)
    BY Zenon DEF IPScores
  <2>2. Table(QueryBuffer(q)) = QueryBuffer(q)
    BY TableIs
  <2> HIDE DEF seen
  <2>3. PICK layout : layout = BuildCoarsePackedLayout(seen, n)
    OBVIOUS
  <2>4. Table(layout) = layout
    BY TableIs
  <2> QED BY <2>1, <2>2, <2>3, <2>4
<1>6. Padded(QueryBuffer(q), x)
  BY QueryPadded
<1> HIDE DEF seen, x
<1>7. PICK y : y = QueryBuffer(q)
  OBVIOUS
<1>8. PICK layout : layout = BuildCoarsePackedLayout(seen, n)
  OBVIOUS
<1>9. \A c \in 0..(n - 1) : ComputeCoarseIPScores(y, BuildCoarsePackedLayout(seen, n), n)[c] = -Inner(x, seen[c])
  BY <1>3, <1>4, <1>6, <1>7, PackedScores
<1>10. \A c \in 0..(n - 1) : Inner(x, seen[c]) \in Int
  BY <1>3, <1>4, InnerIs
<1>11. \A c \in 0..(n - 1) : IPScores(q, src, n)[c] = -Inner(x, seen[c]) /\ IPScores(q, src, n)[c] \in Int
  BY <1>5, <1>7, <1>9, <1>10
<1>12. IPScores(q, src, n) = [c \in 0..(n - 1) |-> IPScores(q, src, n)[c]]
  <2>1. ComputeCoarseIPScores(y, layout, n)
        = [c \in 0..(n - 1) |-> ComputeCoarseIPScores(y, layout, n)[c]]
    BY DEF ComputeCoarseIPScores
  <2> QED BY <1>5, <1>7, <1>8, <2>1
<1> QED BY <1>3, <1>11, <1>12 DEF x

(* ... and over those of the index: its distances.                          *)
LEMMA ScoresAre ==
  ASSUME requested_metric \in RoutingMetrics, NEW q \in Queries
  PROVE  /\ Scores(q) \in [0..(NList - 1) -> Int]
         /\ \A c \in 0..(NList - 1) : Scores(q)[c] = DistanceBy(requested_metric, q, c)
<1>1. Clusters = 0..(NList - 1) /\ NList \in Nat /\ Centroids \in [Clusters -> Vec(CentroidDim)]
  BY RoutingVectorsAreVectors DEF Clusters
<1>2. CASE requested_metric = "l2"
  <2>1. Scores(q) = [c \in 0..(NList - 1) |-> L2Sqr(q, Centroids[c])]
    BY <1>1, <1>2, TableIs DEF Scores, effective_metric
  <2>2. ASSUME NEW c \in 0..(NList - 1) PROVE Scores(q)[c] = DistanceBy(requested_metric, q, c)
    BY <1>2, <2>1 DEF DistanceBy
  <2>3. ASSUME NEW c \in 0..(NList - 1) PROVE L2Sqr(q, Centroids[c]) \in Int
    <3>1. q \in Vec(CentroidDim) /\ Centroids[c] \in Vec(CentroidDim)
      BY <1>1, RoutingVectorsAreVectors DEF RoutingVectors
    <3> QED BY <3>1, L2Type
  <2>4. Scores(q) \in [0..(NList - 1) -> Int]
    BY <2>1, <2>3
  <2> QED BY <2>2, <2>4
<1>3. CASE requested_metric # "l2"
  <2>1. Scores(q) = IPScores(q, Centroids, NList)
    BY <1>3, TableIs DEF Scores, effective_metric
  <2>2. Centroids \in [0..(NList - 1) -> RoutingVectors]
    BY <1>1 DEF RoutingVectors
  <2>3. /\ IPScores(q, Centroids, NList) \in [0..(NList - 1) -> Int]
        /\ \A c \in 0..(NList - 1) : IPScores(q, Centroids, NList)[c]
              = -Inner(SeenBy(requested_metric, q), SeenBy(requested_metric, Centroids[c]))
    BY <1>1, <2>2, IPScoresAre
  <2> QED BY <1>3, <2>1, <2>3 DEF DistanceBy
<1> QED BY <1>2, <1>3

-----------------------------------------------------------------------------
(* The hierarchy: the clusters under their super centroids. *)

(* The hierarchy a training has led to.                                     *)
IsGrouping(k, v, a) ==
  k \in 1..NList /\ v \in [0..(k - 1) -> SuperVectors] /\ a \in [Clusters -> 0..(k - 1)]

(* Those of the smaller super centroids come first, in the sorted order.    *)
LEMMA SortedPrefix ==
  ASSUME NEW k, NEW v, NEW a, IsGrouping(k, v, a), NEW s \in Int
  PROVE  LET o == SortedByScore(a, Clusters)
         IN  /\ o \in [1..NList -> Clusters]
             /\ \A i, j \in 1..NList : o[i] = o[j] => i = j
             /\ \A c \in Clusters : \E i \in 1..NList : o[i] = c
             /\ Cardinality({c \in Clusters : a[c] < s}) \in 0..NList
             /\ \A i \in 1..NList : a[o[i]] < s <=> i <= Cardinality({c \in Clusters : a[c] < s})
<1> DEFINE o == SortedByScore(a, Clusters)
           P == {i \in 1..NList : a[o[i]] < s}
           S == {c \in Clusters : a[c] < s}
<1>1. NList \in Nat \ {0} /\ Clusters \in SUBSET Int /\ IsFiniteSet(Clusters) /\ Cardinality(Clusters) = NList
  <2>1. NList \in Nat \ {0}
    BY RoutingVectorsAreVectors
  <2>2. 0 \in Int /\ NList - 1 \in Int /\ ~(0 > NList - 1) /\ (NList - 1) - 0 + 1 = NList
    BY <2>1
  <2>3. IsFiniteSet(0..(NList - 1)) /\ Cardinality(0..(NList - 1)) = NList
    BY <2>2, FS_Interval
  <2> QED BY <2>1, <2>3 DEF Clusters
<1>2. \A c \in Clusters : a[c] \in Int
  BY DEF IsGrouping
<1>3. Enumerates(o, Clusters) /\ Ascends(a, o, NList)
  BY <1>1, <1>2, SortedByScoreIs
<1> HIDE DEF o
<1>4. /\ o \in [1..NList -> Clusters]
      /\ \A i, j \in 1..NList : o[i] = o[j] => i = j
      /\ \A c \in Clusters : \E i \in 1..NList : o[i] = c
  BY <1>1, <1>3 DEF Enumerates
<1>5. ASSUME NEW i \in 1..NList, NEW j \in 1..NList, j < i, a[o[i]] < s PROVE a[o[j]] < s
  <2>1. TopKScoreLess(a, o[j], o[i])
    BY <1>3, <1>5 DEF Ascends
  <2>2. a[o[i]] \in Int /\ a[o[j]] \in Int
    BY <1>2, <1>4
  <2> QED BY <1>5, <2>1, <2>2 DEF TopKScoreLess
<1>6. P \in SUBSET (1..NList) /\ \A i \in P, j \in 1..NList : j < i => j \in P
  BY <1>5
<1>7. IsFiniteSet(P) /\ Cardinality(P) <= NList
  <2>1. 1 \in Int /\ NList \in Int /\ ~(1 > NList) /\ NList - 1 + 1 = NList
    BY <1>1
  <2>2. IsFiniteSet(1..NList) /\ Cardinality(1..NList) = NList
    BY <2>1, FS_Interval
  <2> QED BY <1>6, <2>2, FS_Subset
<1>8. Cardinality(S) = Cardinality(P)
  <2> DEFINE f == [i \in P |-> o[i]]
  <2>1. f \in Bijection(P, S)
    <3>1. f \in [P -> S]
      BY <1>4
    <3>2. \A i, j \in P : f[i] = f[j] => i = j
      BY <1>4
    <3>3. \A c \in S : \E i \in P : f[i] = c
      <4> TAKE c \in S
      <4>1. PICK i \in 1..NList : o[i] = c
        BY <1>4
      <4>2. i \in P
        BY <4>1
      <4> QED BY <4>1, <4>2
    <3> HIDE DEF f, P, S
    <3> QED BY <3>1, <3>2, <3>3 DEF Bijection, Injection, IsInjective, Surjection
  <2>2. ExistsBijection(P, S)
    BY <2>1 DEF ExistsBijection
  <2> QED BY <1>7, <2>2, FS_Bijection
<1>9. P = 1..Cardinality(P)
  BY <1>1, <1>6, NoGapBelow
<1>10. Cardinality(P) \in Nat
  BY <1>7, FS_CardinalityType
<1>11. PICK m \in Nat : m = Cardinality(S) /\ m <= NList /\ P = 1..m
  BY <1>7, <1>8, <1>9, <1>10
<1>12. \A i \in 1..NList : a[o[i]] < s <=> i <= m
  <2> TAKE i \in 1..NList
  <2>1. a[o[i]] < s <=> i \in P
    OBVIOUS
  <2>2. i \in 1..m <=> i <= m
    BY <1>11
  <2> QED BY <1>11, <2>1, <2>2
<1> HIDE DEF P, S
<1>13. Cardinality(S) \in 0..NList /\ \A i \in 1..NList : a[o[i]] < s <=> i <= Cardinality(S)
  BY <1>1, <1>11, <1>12
<1> QED BY <1>4, <1>13 DEF o, S

(* The children of a super centroid: its part of child_ids goes through     *)
(* the clusters assigned to it, once.                                       *)
GroupIs(h, s, members) ==
  /\ h.child_offsets[s] \in 0..NList /\ h.child_offsets[s + 1] \in 0..NList
  /\ h.child_offsets[s] <= h.child_offsets[s + 1]
  /\ h.child_ids \in [1..NList -> Clusters]
  /\ \A i, j \in 1..NList : h.child_ids[i] = h.child_ids[j] => i = j
  /\ Children(h, s) = members

GroupsAre(h, k, a) ==
  \A s \in 0..(k - 1) : GroupIs(h, s, {c \in Clusters : a[c] = s})

HierarchyFits(h, k, v, a) ==
  h.ready = TRUE /\ h.n_super = k /\ h.supers = v /\ GroupsAre(h, k, a)

(* The counting sort groups the clusters by their super centroid.           *)
LEMMA HierarchyIs ==
  ASSUME NEW k, NEW v, NEW a, IsGrouping(k, v, a)
  PROVE  HierarchyFits(HierarchyOf(v, a), k, v, a)
<1> DEFINE h == HierarchyOf(v, a)
           o == SortedByScore(a, Clusters)
           count(s) == Cardinality({c \in Clusters : a[c] < s})
<1>1. k \in 1..NList /\ v \in [0..(k - 1) -> SuperVectors] /\ a \in [Clusters -> 0..(k - 1)]
  BY DEF IsGrouping
<1>2. NList \in Nat
  BY RoutingVectorsAreVectors
<1>3. Cardinality(DOMAIN v) = k
  <2>1. 0 \in Int /\ k - 1 \in Int /\ ~(0 > k - 1) /\ (k - 1) - 0 + 1 = k
    BY <1>1
  <2> QED BY <1>1, <2>1, FS_Interval
<1>4. /\ h.ready = TRUE /\ h.n_super = k /\ h.supers = v
      /\ h.child_offsets = [s \in 0..k |-> count(s)] /\ h.child_ids = o
  BY <1>3 DEF HierarchyOf
<1> HIDE DEF h, o
<1>5. ASSUME NEW s \in 0..(k - 1) PROVE GroupIs(h, s, {c \in Clusters : a[c] = s})
  <2>1. s \in Int /\ s + 1 \in Int /\ s \in 0..k /\ s + 1 \in 0..k
    BY <1>1
  <2>2. /\ o \in [1..NList -> Clusters]
        /\ \A i, j \in 1..NList : o[i] = o[j] => i = j
        /\ \A c \in Clusters : \E i \in 1..NList : o[i] = c
        /\ count(s) \in 0..NList
        /\ \A i \in 1..NList : a[o[i]] < s <=> i <= count(s)
    BY <2>1, SortedPrefix DEF o
  <2>3. /\ count(s + 1) \in 0..NList
        /\ \A i \in 1..NList : a[o[i]] < s + 1 <=> i <= count(s + 1)
    BY <2>1, SortedPrefix DEF o
  <2>4. h.child_offsets[s] = count(s) /\ h.child_offsets[s + 1] = count(s + 1)
    BY <1>4, <2>1
  <2> HIDE DEF count
  <2>5. PICK m \in 0..NList, n \in 0..NList : m = count(s) /\ n = count(s + 1)
    BY <2>2, <2>3
  <2>6. \A i \in 1..NList : a[o[i]] \in Int
    BY <1>1, <2>2
  <2>7. \A i \in 1..NList : (i <= m => i <= n)
    BY <2>1, <2>2, <2>3, <2>5, <2>6
  <2>8. m <= n
    <3>1. CASE m = 0
      BY <1>2, <3>1
    <3>2. CASE m # 0
      <4>1. m \in 1..NList
        BY <1>2, <3>2
      <4> QED BY <2>7, <4>1
    <3> QED BY <3>1, <3>2
  <2>9. \A i \in 1..NList : a[o[i]] = s <=> i \in (m + 1)..n
    <3> TAKE i \in 1..NList
    <3>1. a[o[i]] = s <=> (a[o[i]] < s + 1 /\ ~(a[o[i]] < s))
      BY <2>1, <2>6
    <3>2. (a[o[i]] < s + 1 <=> i <= n) /\ (a[o[i]] < s <=> i <= m)
      BY <2>2, <2>3, <2>5
    <3> QED BY <1>2, <3>1, <3>2
  <2>10. \A i \in (m + 1)..n : i \in 1..NList
    BY <1>2
  <2>11. Children(h, s) = {o[i] : i \in (m + 1)..n}
    BY <1>4, <2>4, <2>5 DEF Children
  <2>12. {o[i] : i \in (m + 1)..n} = {c \in Clusters : a[c] = s}
    <3>1. ASSUME NEW i \in (m + 1)..n PROVE o[i] \in Clusters /\ a[o[i]] = s
      BY <2>2, <2>9, <2>10
    <3>2. ASSUME NEW c \in Clusters, a[c] = s PROVE \E i \in (m + 1)..n : o[i] = c
      <4>1. PICK i \in 1..NList : o[i] = c
        BY <2>2
      <4> QED BY <2>9, <3>2, <4>1
    <3> QED BY <3>1, <3>2
  <2> QED BY <1>4, <2>2, <2>4, <2>5, <2>8, <2>11, <2>12 DEF GroupIs
<1> QED BY <1>4, <1>5 DEF h, GroupsAre, HierarchyFits

-----------------------------------------------------------------------------
(* Its children, scored and pushed. *)

(* The heap holds the n best of the children pushed.                        *)
TopOk(heap, scores, seen, n) ==
  /\ heap \in SUBSET seen /\ IsFiniteSet(heap) /\ Cardinality(heap) <= n
  /\ Cardinality(heap) < n => heap = seen
  /\ \A i \in heap, j \in seen \ heap : scores[i] <= scores[j]

(* One more child pushed keeps it so.                                       *)
LEMMA PushKeeps ==
  ASSUME NEW C \in SUBSET Int, NEW scores \in [C -> Int], NEW n \in Nat \ {0},
         NEW seen \in SUBSET C, NEW child \in C \ seen, NEW heap, TopOk(heap, scores, seen, n)
  PROVE  TopOk(PushChildTopK(scores, heap, n, child), scores, seen \cup {child}, n)
<1> DEFINE worst == CHOOSE w \in heap : \A c \in heap \ {w} : TopKScoreLess(scores, c, w)
           g == PushChildTopK(scores, heap, n, child)
           more == seen \cup {child}
<1>0. SUFFICES TopOk(g, scores, more, n)
  OBVIOUS
<1>1. /\ heap \in SUBSET seen /\ IsFiniteSet(heap) /\ Cardinality(heap) <= n
      /\ Cardinality(heap) < n => heap = seen
      /\ \A i \in heap, j \in seen \ heap : scores[i] <= scores[j]
  BY DEF TopOk
<1>2. Cardinality(heap) \in Nat
  BY <1>1, FS_CardinalityType
<1>3. g = IF Cardinality(heap) < n THEN heap \cup {child}
          ELSE IF TopKScoreLess(scores, child, worst) THEN (heap \ {worst}) \cup {child}
          ELSE heap
  BY DEF PushChildTopK
<1>4. \A c \in C : scores[c] \in Int
  OBVIOUS
<1>5. CASE Cardinality(heap) < n
  <2>1. g = more /\ heap = seen
    BY <1>1, <1>3, <1>5
  <2>2. ~(child \in heap)
    BY <2>1
  <2>3. IsFiniteSet(g) /\ Cardinality(g) = Cardinality(heap) + 1
    BY <1>1, <2>1, <2>2, FS_AddElement
  <2>4. Cardinality(g) <= n
    BY <1>2, <1>5, <2>3
  <2> HIDE DEF g, more
  <2> QED BY <2>1, <2>3, <2>4 DEF TopOk
<1>6. CASE ~(Cardinality(heap) < n)
  <2>1. Cardinality(heap) = n
    BY <1>1, <1>2, <1>6
  <2>2. heap \in SUBSET C
    BY <1>1
  <2>3. PICK k \in Nat : Cardinality(heap) = k + 1
    <3>1. n - 1 \in Nat /\ n = (n - 1) + 1
      OBVIOUS
    <3> QED BY <2>1, <3>1
  <2>4. \E w : Worst(scores, heap, w)
    BY <1>1, <1>4, <2>2, <2>3, WorstExists
  <2>5. worst \in heap /\ \A c \in heap \ {worst} : TopKScoreLess(scores, c, worst)
    BY <2>4 DEF Worst
  <2> HIDE DEF worst
  <2>6. \A i \in heap : scores[i] <= scores[worst]
    <3> TAKE i \in heap
    <3>1. scores[i] \in Int /\ scores[worst] \in Int
      BY <1>4, <2>2, <2>5
    <3>2. i = worst \/ TopKScoreLess(scores, i, worst)
      BY <2>5
    <3> QED BY <3>1, <3>2 DEF TopKScoreLess
  <2>7. CASE TopKScoreLess(scores, child, worst)
    <3>1. g = (heap \ {worst}) \cup {child}
      BY <1>3, <1>6, <2>7
    <3>2. scores[child] <= scores[worst]
      <4>1. scores[child] \in Int /\ scores[worst] \in Int
        BY <1>4, <2>2, <2>5
      <4> QED BY <2>7, <4>1 DEF TopKScoreLess
    <3>3. IsFiniteSet(g) /\ Cardinality(g) = n
      <4>1. IsFiniteSet(heap \ {worst}) /\ Cardinality(heap \ {worst}) = n - 1
        BY <1>1, <2>1, <2>5, FS_RemoveElement
      <4>2. ~(child \in heap \ {worst})
        BY <1>1
      <4>3. IsFiniteSet(g) /\ Cardinality(g) = (n - 1) + 1
        BY <3>1, <4>1, <4>2, FS_AddElement
      <4> QED BY <4>3
    <3>4. ASSUME NEW i \in g, NEW j \in more \ g PROVE scores[i] <= scores[j]
      <4>1. j \in seen /\ (j = worst \/ j \in seen \ heap)
        BY <1>1, <2>5, <3>1
      <4>2. scores[worst] <= scores[j]
        <5>1. scores[worst] \in Int
          BY <1>4, <2>2, <2>5
        <5> QED BY <1>1, <2>5, <4>1, <5>1
      <4>3. scores[i] <= scores[worst]
        BY <2>6, <3>1, <3>2
      <4>4. scores[i] \in Int /\ scores[j] \in Int /\ scores[worst] \in Int
        BY <1>4, <2>2, <2>5, <3>1, <4>1
      <4> QED BY <4>2, <4>3, <4>4
    <3>5. g \in SUBSET more
      BY <1>1, <3>1
    <3>6. Cardinality(g) <= n /\ ~(Cardinality(g) < n)
      BY <3>3
    <3> HIDE DEF g, more
    <3> QED BY <3>3, <3>4, <3>5, <3>6 DEF TopOk
  <2>8. CASE ~TopKScoreLess(scores, child, worst)
    <3>1. g = heap
      BY <1>3, <1>6, <2>8
    <3>2. scores[worst] <= scores[child]
      <4>1. scores[child] \in Int /\ scores[worst] \in Int
        BY <1>4, <2>2, <2>5
      <4> QED BY <2>8, <4>1 DEF TopKScoreLess
    <3>3. ASSUME NEW i \in heap, NEW j \in more \ heap PROVE scores[i] <= scores[j]
      <4>1. CASE j \in seen
        BY <1>1, <4>1
      <4>2. CASE j = child
        <5>1. scores[i] \in Int /\ scores[child] \in Int /\ scores[worst] \in Int
          BY <1>4, <2>2, <2>5
        <5> QED BY <2>6, <3>2, <4>2, <5>1
      <4> QED BY <4>1, <4>2
    <3>4. Cardinality(g) <= n /\ ~(Cardinality(g) < n)
      BY <2>1, <3>1
    <3>5. g \in SUBSET more /\ IsFiniteSet(g)
      BY <1>1, <3>1
    <3> HIDE DEF g, more
    <3> QED BY <3>1, <3>3, <3>4, <3>5 DEF TopOk
  <2> QED BY <2>7, <2>8
<1> QED BY <1>5, <1>6

(* D pushes the children in order.                                          *)
Pushes(D, scores, C, n, order) ==
  /\ D \in [(SUBSET C) \X (0..(Len(order) - 1)) -> SUBSET C]
  /\ \A u \in SUBSET C : \A k \in 0..(Len(order) - 1) :
       D[<<u, k>>] = PushChildTopK(scores, u, n, order[k + 1])

(* The heap goes through such a run of pushes.                              *)
LEMMA PushesExist ==
  ASSUME NEW C, NEW scores, NEW n \in Nat \ {0}, NEW order \in Seq(C)
  PROVE  \E D : Pushes(D, scores, C, n, order)
<1> DEFINE D == [p \in (SUBSET C) \X (0..(Len(order) - 1)) |-> PushChildTopK(scores, p[1], n, order[p[2] + 1])]
<1>1. Len(order) \in Nat
  BY LenProperties
<1>2. ASSUME NEW u \in SUBSET C, NEW k \in 0..(Len(order) - 1)
      PROVE  PushChildTopK(scores, u, n, order[k + 1]) \in SUBSET C
  <2>1. order[k + 1] \in C
    <3>1. k + 1 \in 1..Len(order)
      BY <1>1
    <3> QED BY <3>1, ElementOfSeq
  <2> DEFINE worst == CHOOSE w \in u : \A c \in u \ {w} : TopKScoreLess(scores, c, w)
             child == order[k + 1]
  <2>2. PushChildTopK(scores, u, n, child) \in {u \cup {child}, (u \ {worst}) \cup {child}, u}
    BY DEF PushChildTopK
  <2> HIDE DEF worst
  <2> QED BY <2>1, <2>2
<1>3. D \in [(SUBSET C) \X (0..(Len(order) - 1)) -> SUBSET C]
  BY <1>2
<1>4. \A u \in SUBSET C : \A k \in 0..(Len(order) - 1) :
        D[<<u, k>>] = PushChildTopK(scores, u, n, order[k + 1])
  OBVIOUS
<1> QED BY <1>3, <1>4 DEF Pushes

TopK(scores, n, order) ==
  Iterate(Len(order), {}, LAMBDA heap, i : PushChildTopK(scores, heap, n, order[i + 1]))

(* So the heap of all children is of the n best of them.                    *)
LEMMA TopKOk ==
  ASSUME NEW C \in SUBSET Int, NEW scores \in [C -> Int], NEW n \in Nat \ {0},
         NEW order \in Seq(C), Distinct(order)
  PROVE  TopOk(TopK(scores, n, order), scores, ToSet(order), n)
<1> DEFINE R == Len(order)
           V == SUBSET C
           start == {}
           B(u, k) == PushChildTopK(scores, u, n, order[k + 1])
           Unfolds(x) == x = [k \in 0..R |-> IF k = 0 THEN start ELSE B(x[k - 1], k - 1)]
<1>0. R \in Nat /\ order \in [1..R -> C]
  BY LenProperties
<1>1. PICK D : Pushes(D, scores, C, n, order)
  BY PushesExist
<1>2. /\ D \in [V \X (0..(R - 1)) -> V]
      /\ \A u \in V : \A k \in 0..(R - 1) : D[<<u, k>>] = B(u, k)
  BY <1>1 DEF Pushes
<1>3. start \in V
  OBVIOUS
<1> HIDE DEF B, R, V, start
<1>4. PICK f : Steps(f, V, start, R, D)
  BY <1>0, <1>2, <1>3, StepsExist
<1>5. Unfolds(f)
  <2>0. /\ f \in [0..R -> V] /\ f[0] = start
        /\ \A k \in 1..R : f[k] = D[<<f[k - 1], k - 1>>]
    BY <1>4 DEF Steps
  <2>1. ASSUME NEW k \in 1..R PROVE f[k] = B(f[k - 1], k - 1)
    <3>1. k - 1 \in 0..(R - 1) /\ k - 1 \in 0..R
      BY <1>0
    <3>2. f[k - 1] \in V
      BY <2>0, <3>1
    <3> QED BY <1>2, <2>0, <3>1, <3>2
  <2>2. \A k \in 0..R : k = 0 \/ k \in 1..R
    BY <1>0
  <2> QED BY <2>0, <2>1, <2>2
<1> DEFINE x == CHOOSE y : Unfolds(y)
<1>6. Unfolds(x)
  <2> HIDE DEF Unfolds
  <2> QED BY <1>5
<1>7. TopK(scores, n, order) = x[R]
  BY Zenon DEF TopK, Iterate, B, R, start
<1> HIDE DEF x
<1>8. x[0] = start /\ \A k \in 1..R : x[k] = B(x[k - 1], k - 1)
  <2>1. 0 \in 0..R /\ \A k \in 1..R : k \in 0..R /\ k # 0
    BY <1>0
  <2> QED BY <1>6, <2>1
<1> HIDE DEF Unfolds
<1> DEFINE seen(k) == {order[i] : i \in 1..k}
           Good(k) == k <= R => TopOk(x[k], scores, seen(k), n)
           K == {k \in Nat : Good(k)}
<1>9. 0 \in K
  <2>1. x[0] = {} /\ seen(0) = {}
    <3>1. 1..0 = {}
      OBVIOUS
    <3> QED BY <1>8, <3>1 DEF start
  <2>2. IsFiniteSet({}) /\ Cardinality({}) = 0 /\ 0 <= n
    BY FS_EmptySet
  <2>3. TopOk({}, scores, {}, n)
    BY <2>2 DEF TopOk
  <2> QED BY <2>1, <2>3
<1>10. ASSUME NEW k \in Nat, k \in K PROVE k + 1 \in K
  <2>1. ASSUME k + 1 <= R PROVE TopOk(x[k + 1], scores, seen(k + 1), n)
    <3>1. k + 1 \in 1..R /\ (k + 1) - 1 = k /\ k <= R
      BY <1>0, <2>1
    <3>2. PICK child \in C : child = order[k + 1]
      BY <1>0, <3>1
    <3>3. x[k + 1] = PushChildTopK(scores, x[k], n, child)
      BY <1>8, <3>1, <3>2 DEF B
    <3>4. TopOk(x[k], scores, seen(k), n)
      BY <1>10, <3>1
    <3>5. seen(k + 1) = seen(k) \cup {child}
      <4>1. 1..(k + 1) = (1..k) \cup {k + 1}
        OBVIOUS
      <4> QED BY <3>2, <4>1
    <3>6. seen(k) \in SUBSET C
      <4>1. \A i \in 1..k : i \in 1..R
        BY <1>0, <3>1
      <4> QED BY <1>0, <4>1
    <3>7. ~(child \in seen(k))
      <4>1. \A i \in 1..k : i \in 1..R /\ i # k + 1
        BY <1>0, <3>1
      <4>2. \A i \in 1..k : order[i] # order[k + 1]
        BY <3>1, <4>1 DEF Distinct, R
      <4> QED BY <3>2, <4>2
    <3>8. PICK sofar \in SUBSET C : sofar = seen(k)
      BY <3>6
    <3>9. PICK heap : heap = x[k]
      OBVIOUS
    <3> HIDE DEF seen
    <3>10. TopOk(PushChildTopK(scores, heap, n, child), scores, sofar \cup {child}, n)
      BY <3>4, <3>7, <3>8, <3>9, PushKeeps
    <3> QED BY <3>3, <3>5, <3>8, <3>9, <3>10
  <2> QED BY <2>1
<1> HIDE DEF K
<1>11. \A k \in Nat : k \in K
  BY <1>9, <1>10, SubsetInduction
<1>12. TopOk(x[R], scores, seen(R), n)
  <2> HIDE DEF Good
  <2>1. R \in K /\ R <= R
    BY <1>0, <1>11
  <2>2. Good(R)
    BY <2>1 DEF K
  <2> HIDE DEF seen
  <2> QED BY <2>1, <2>2 DEF Good
<1>13. ToSet(order) = seen(R)
  BY <1>0 DEF ToSet
<1> QED BY <1>7, <1>12, <1>13

(* The children of a super centroid, as they are scored.                    *)
LEMMA GroupSlice ==
  ASSUME NEW h, NEW s, NEW members, GroupIs(h, s, members),
         NEW part, part = ChildIds(h, s)
  PROVE  part \in Seq(Clusters) /\ Distinct(part) /\ ToSet(part) = members
<1>1. /\ h.child_offsets[s] \in 0..NList /\ h.child_offsets[s + 1] \in 0..NList
      /\ h.child_offsets[s] <= h.child_offsets[s + 1]
      /\ h.child_ids \in [1..NList -> Clusters]
      /\ \A i, j \in 1..NList : h.child_ids[i] = h.child_ids[j] => i = j
      /\ {h.child_ids[i] : i \in (h.child_offsets[s] + 1)..h.child_offsets[s + 1]} = members
  BY DEF GroupIs, Children
<1>2. PICK x \in 0..NList, y \in 0..NList : x = h.child_offsets[s] /\ y = h.child_offsets[s + 1]
  BY <1>1
<1>3. PICK o \in [1..NList -> Clusters] : o = h.child_ids
  BY <1>1
<1>4. NList \in Nat
  BY RoutingVectorsAreVectors
<1>5. o \in Seq(Clusters) /\ Len(o) = NList /\ x <= y
  BY <1>1, <1>2, <1>4
<1>6. part = SubSeq(o, x + 1, y)
  BY <1>2, <1>3 DEF ChildIds
<1>7. /\ part \in Seq(Clusters) /\ Len(part) = y - x
      /\ \A i \in 1..(y - x) : part[i] = o[x + i]
  <2>1. x \in Nat /\ y \in Nat /\ x <= y /\ y <= Len(o)
    BY <1>4, <1>5
  <2>2. /\ SubSeq(o, x + 1, y) \in Seq(Clusters) /\ Len(SubSeq(o, x + 1, y)) = y - x
        /\ \A i \in 1..(y - x) : SubSeq(o, x + 1, y)[i] = o[x + i]
    BY <1>5, <2>1, SliceElements, Zenon
  <2> QED BY <1>6, <2>2
<1>8. \A i \in 1..(y - x) : x + i \in 1..NList /\ x + i \in (x + 1)..y
  BY <1>4
<1>9. Distinct(part)
  <2>1. \A i, j \in 1..NList : o[i] = o[j] => i = j
    BY <1>1, <1>3
  <2>2. ASSUME NEW i \in 1..(y - x), NEW j \in 1..(y - x), part[i] = part[j] PROVE i = j
    <3>1. x + i = x + j
      BY <1>7, <1>8, <2>1, <2>2
    <3> QED BY <3>1
  <2> QED BY <1>7, <2>2 DEF Distinct
<1>10. ToSet(part) = members
  <2>1. DOMAIN part = 1..(y - x)
    BY <1>7, LenProperties
  <2>2. members = {o[i] : i \in (x + 1)..y}
    BY <1>1, <1>2, <1>3
  <2>3. ASSUME NEW c \in ToSet(part) PROVE c \in members
    <3>1. PICK i \in 1..(y - x) : c = part[i]
      BY <2>1, <2>3 DEF ToSet
    <3> QED BY <1>7, <1>8, <2>2, <3>1
  <2>4. ASSUME NEW c \in members PROVE c \in ToSet(part)
    <3>1. PICK j \in (x + 1)..y : c = o[j]
      BY <2>2, <2>4
    <3>2. PICK i \in 1..(y - x) : j = x + i
      <4>1. j - x \in 1..(y - x) /\ j = x + (j - x)
        OBVIOUS
      <4> QED BY <4>1
    <3>3. part[i] = c
      BY <1>7, <3>1, <3>2
    <3> QED BY <2>1, <3>3 DEF ToSet
  <2> QED BY <2>3, <2>4
<1> QED BY <1>7, <1>9, <1>10

(* Each child of a layout is scored by its distance, under its own id.      *)
LEMMA ScoredChildrenAre ==
  ASSUME requested_metric \in RoutingMetrics, requested_metric # "l2",
         NEW q \in Queries, NEW ids \in Seq(Clusters)
  PROVE  /\ \A e \in ScoredChildren(q, ids) :
              e.score = DistanceBy(requested_metric, q, e.child)
         /\ \A c \in ToSet(ids) : \E e \in ScoredChildren(q, ids) : e.child = c
<1>1. PICK m \in Nat : m = Len(ids)
  BY LenProperties
<1>2. ids \in [1..m -> Clusters] /\ DOMAIN ids = 1..m
  BY <1>1, LenProperties
<1>3. PICK src : src = FromChildIds(ids)
  OBVIOUS
<1>4. src = [i \in 0..(m - 1) |-> Centroids[ids[i + 1]]]
  BY <1>1, <1>3 DEF FromChildIds
<1>5. ASSUME NEW i \in 0..(m - 1) PROVE Centroids[ids[i + 1]] \in RoutingVectors
  <2>1. i + 1 \in 1..m
    OBVIOUS
  <2>2. ids[i + 1] \in Clusters
    BY <1>2, <2>1
  <2> QED BY <2>2 DEF RoutingVectors
<1>6. src \in [0..(m - 1) -> RoutingVectors]
  BY <1>4, <1>5
<1>7. PICK local : local = IPScores(q, src, m)
  OBVIOUS
<1>8. \A c \in 0..(m - 1) :
        local[c] = -Inner(SeenBy(requested_metric, q), SeenBy(requested_metric, src[c]))
  BY <1>6, <1>7, IPScoresAre
<1>9. ASSUME NEW i \in 1..m
      PROVE  local[i - 1] = DistanceBy(requested_metric, q, ids[i])
  <2>1. i - 1 \in 0..(m - 1) /\ (i - 1) + 1 = i
    OBVIOUS
  <2>2. src[i - 1] = Centroids[ids[i]]
    BY <1>4, <2>1
  <2> QED BY <1>8, <2>1, <2>2 DEF DistanceBy
<1>10. ScoredChildren(q, ids) = {[child |-> ids[i], score |-> local[i - 1]] : i \in 1..m}
  <2>1. ScoredChildren(q, ids)
        = {[child |-> ids[i], score |-> IPScores(q, FromChildIds(ids), Len(ids))[i - 1]] :
             i \in DOMAIN ids}
    BY Zenon DEF ScoredChildren
  <2> QED BY <1>1, <1>2, <1>3, <1>7, <2>1, Zenon
<1>11. ASSUME NEW e \in ScoredChildren(q, ids)
       PROVE  e.score = DistanceBy(requested_metric, q, e.child)
  <2>1. PICK i \in 1..m : e = [child |-> ids[i], score |-> local[i - 1]]
    BY <1>10
  <2>2. e.child = ids[i] /\ e.score = local[i - 1]
    BY <2>1
  <2> QED BY <1>9, <2>2
<1>12. ASSUME NEW c \in ToSet(ids)
       PROVE  \E e \in ScoredChildren(q, ids) : e.child = c
  <2>1. PICK i \in 1..m : c = ids[i]
    BY <1>2 DEF ToSet
  <2>2. PICK e : e = [child |-> ids[i], score |-> local[i - 1]]
    OBVIOUS
  <2>3. e \in ScoredChildren(q, ids)
    BY <1>10, <2>2
  <2>4. e.child = c
    BY <2>1, <2>2
  <2> QED BY <2>3, <2>4
<1> QED BY <1>11, <1>12

(* What is pushed: C, the children of the super centroids probed.           *)
PushedAre(h, probed, C) ==
  /\ \A i \in 1..Len(probed) : ChildIds(h, probed[i]) \in Seq(Clusters)
  /\ C = ToSet(PushedChildren(h, probed))
  /\ C = UNION {ToSet(ChildIds(h, probed[i])) : i \in 1..Len(probed)}

(* So the scores of everything pushed are distances.                        *)
LEMMA ChildScoresAre ==
  ASSUME requested_metric \in RoutingMetrics, requested_metric # "l2",
         NEW q \in Queries, NEW h, NEW probed,
         NEW C \in SUBSET Clusters, PushedAre(h, probed, C)
  PROVE  /\ ChildScores(q, h, probed) \in [C -> Int]
         /\ \A c \in C : ChildScores(q, h, probed)[c] = DistanceBy(requested_metric, q, c)
<1> DEFINE scored == UNION {ScoredChildren(q, ChildIds(h, probed[i])) : i \in 1..Len(probed)}
           Score(c) == (CHOOSE e \in scored : e.child = c).score
<1> USE DEF PushedAre
<1>1. ChildScores(q, h, probed) = [c \in C |-> Score(c)]
  <2> DEFINE f == [c \in C |-> Score(c)]
  <2>1. ChildScores(q, h, probed) = Table(f)
    BY Zenon DEF ChildScores
  <2> HIDE DEF f
  <2>2. ChildScores(q, h, probed) = f
    BY <2>1, TableIs
  <2> QED BY <2>2 DEF f
<1>2. ASSUME NEW e \in scored PROVE e.score = DistanceBy(requested_metric, q, e.child)
  <2>1. PICK i \in 1..Len(probed) : e \in ScoredChildren(q, ChildIds(h, probed[i]))
    OBVIOUS
  <2>2. PICK ids \in Seq(Clusters) : ids = ChildIds(h, probed[i])
    OBVIOUS
  <2>3. e \in ScoredChildren(q, ids)
    BY <2>1, <2>2
  <2> QED BY <2>3, ScoredChildrenAre
<1>3. ASSUME NEW c \in C PROVE \E e \in scored : e.child = c
  <2>1. PICK i \in 1..Len(probed) : c \in ToSet(ChildIds(h, probed[i]))
    OBVIOUS
  <2>2. PICK ids \in Seq(Clusters) : ids = ChildIds(h, probed[i])
    OBVIOUS
  <2>3. PICK e \in ScoredChildren(q, ids) : e.child = c
    BY <2>1, <2>2, ScoredChildrenAre
  <2>4. e \in scored
    BY <2>2, <2>3
  <2> QED BY <2>3, <2>4
<1> HIDE DEF scored
<1>4. ASSUME NEW c \in C
      PROVE  /\ Score(c) = DistanceBy(requested_metric, q, c)
             /\ DistanceBy(requested_metric, q, c) \in Int
  <2>1. PICK e : e = CHOOSE x \in scored : x.child = c
    OBVIOUS
  <2>2. e \in scored /\ e.child = c
    BY <1>3, <2>1
  <2>3. e.score = DistanceBy(requested_metric, q, c)
    BY <1>2, <2>2
  <2>4. DistanceBy(requested_metric, q, c) \in Int
    <3>1. PICK metric \in RoutingMetrics : metric = requested_metric
      OBVIOUS
    <3>2. c \in Clusters /\ q \in RoutingVectors
      BY DEF RoutingVectors
    <3>3. DistanceBy(metric, q, c) \in Int
      BY <3>2, DistanceType
    <3> QED BY <3>1, <3>3
  <2> QED BY <2>1, <2>3, <2>4
<1> HIDE DEF Score
<1> QED BY <1>1, <1>4

(* Scoring the children of some super centroids finds the best of them.     *)
ScoredIs(scored, scores, n, C) ==
  /\ scored.candidates = C
  /\ Cardinality(C) >= n => Best(scores, C, n, scored.result)

(* Best by the distances from a query.                                      *)
ScoredByDistance(metric, q, scored, n, C) ==
  \E scores \in [C -> Int] :
    /\ \A c \in C : scores[c] = DistanceBy(metric, q, c)
    /\ ScoredIs(scored, scores, n, C)

(* The n nearest children are returned, if there are as many.               *)
LEMMA ScoreChildrenIs ==
  ASSUME requested_metric \in RoutingMetrics, requested_metric # "l2",
         NEW q \in Queries,
         NEW k, NEW v, NEW a, IsGrouping(k, v, a), NEW h, h = HierarchyOf(v, a),
         NEW n \in Nat \ {0}, NEW probed \in Seq(0..(k - 1)), Distinct(probed)
  PROVE  /\ UNION {Children(h, probed[i]) : i \in 1..Len(probed)} \subseteq Clusters
         /\ ScoredByDistance(requested_metric, q, ScoreChildren(q, n, h, probed), n,
                             UNION {Children(h, probed[i]) : i \in 1..Len(probed)})
<1>1. PICK p \in Nat : p = Len(probed)
  BY LenProperties
<1>2. probed \in [1..p -> 0..(k - 1)] /\ \A i, j \in 1..p : probed[i] = probed[j] => i = j
  BY <1>1, LenProperties DEF Distinct
<1>3. \A s \in 0..(k - 1) : GroupIs(h, s, {c \in Clusters : a[c] = s})
  <2>1. GroupsAre(h, k, a)
    BY HierarchyIs DEF HierarchyFits
  <2> QED BY <2>1 DEF GroupsAre
<1>4. \A s \in 0..(k - 1) : Children(h, s) = {c \in Clusters : a[c] = s}
  BY <1>3 DEF GroupIs
<1>s. PICK scores : scores = ChildScores(q, h, probed)
  OBVIOUS
<1> DEFINE parts == [i \in 1..Len(probed) |-> ChildIds(h, probed[i])]
           C == UNION {Children(h, probed[i]) : i \in 1..p}
           order == FlattenSeq(parts)
           topk == TopK(scores, n, order)
           scored == ScoreChildren(q, n, h, probed)
<1>5. ASSUME NEW i \in 1..p
      PROVE  /\ parts[i] \in Seq(Clusters) /\ Distinct(parts[i])
             /\ ToSet(parts[i]) = Children(h, probed[i])
  <2>1. PICK s \in 0..(k - 1) : s = probed[i]
    BY <1>2
  <2>2. PICK part : part = ChildIds(h, s)
    OBVIOUS
  <2>3. parts[i] = part
    BY <1>1, <2>1, <2>2
  <2>4. GroupIs(h, s, Children(h, s))
    BY <1>3, <1>4
  <2>5. part \in Seq(Clusters) /\ Distinct(part) /\ ToSet(part) = Children(h, s)
    BY <2>2, <2>4, GroupSlice
  <2> QED BY <2>1, <2>3, <2>5
<1>6. DOMAIN parts = 1..p /\ parts = [i \in 1..p |-> parts[i]]
  BY <1>1
<1>o. order = PushedChildren(h, probed)
  BY Zenon DEF PushedChildren
<1>7. scored = [candidates |-> ToSet(order), result |-> SortedByScore(scores, topk)]
  <2>1. scored = [candidates |-> ToSet(PushedChildren(h, probed)),
                  result |-> SortedByScore(ChildScores(q, h, probed),
                               TopK(ChildScores(q, h, probed), n, PushedChildren(h, probed)))]
    BY Zenon DEF ScoreChildren, TopK
  <2> HIDE DEF order
  <2> QED BY <1>s, <1>o, <2>1
<1>p. \A i \in 1..p : parts[i] = ChildIds(h, probed[i])
  BY <1>1
<1> HIDE DEF parts
<1>8. parts \in Seq(Seq(Clusters)) /\ Len(parts) = p
  BY <1>5, <1>6
<1>9. \A i, j \in 1..p : i # j => ToSet(parts[i]) \cap ToSet(parts[j]) = {}
  <2> TAKE i \in 1..p, j \in 1..p
  <2> HAVE i # j
  <2>1. probed[i] # probed[j] /\ probed[i] \in 0..(k - 1) /\ probed[j] \in 0..(k - 1)
    BY <1>2
  <2>2. ToSet(parts[i]) = {c \in Clusters : a[c] = probed[i]}
    BY <1>4, <1>5, <2>1
  <2>3. ToSet(parts[j]) = {c \in Clusters : a[c] = probed[j]}
    BY <1>4, <1>5, <2>1
  <2> QED BY <2>1, <2>2, <2>3
<1>10. /\ order \in Seq(Clusters) /\ Distinct(order)
       /\ ToSet(order) = UNION {ToSet(parts[i]) : i \in 1..p}
  BY <1>5, <1>8, <1>9, FlattenDistinct
<1>11. ToSet(order) = C
  BY <1>5, <1>10
<1>12. C \subseteq Clusters /\ Clusters \in SUBSET Int /\ IsFiniteSet(Clusters)
  <2>1. NList - 1 \in Int /\ 0 \in Int
    BY RoutingVectorsAreVectors
  <2>2. IsFiniteSet(0..(NList - 1))
    BY <2>1, FS_Interval
  <2>3. C \subseteq Clusters
    BY <1>2, <1>4
  <2> QED BY <2>2, <2>3 DEF Clusters
<1> HIDE DEF order
<1>q. PushedAre(h, probed, C)
  <2>1. C = UNION {ToSet(ChildIds(h, probed[i])) : i \in 1..Len(probed)}
    BY <1>1, <1>5, <1>p
  <2>2. \A i \in 1..Len(probed) : ChildIds(h, probed[i]) \in Seq(Clusters)
    BY <1>1, <1>5, <1>p
  <2> HIDE DEF C
  <2> QED BY <1>o, <1>11, <2>1, <2>2 DEF PushedAre
<1> HIDE DEF C
<1>r. /\ scores \in [C -> Int]
      /\ \A c \in C : scores[c] = DistanceBy(requested_metric, q, c)
  <2>1. C \in SUBSET Clusters
    BY <1>12
  <2> QED BY <1>s, <1>q, <2>1, ChildScoresAre
<1>13. TopOk(topk, scores, ToSet(order), n)
  <2>1. order \in Seq(C)
    <3>1. PICK m \in Nat : m = Len(order)
      BY <1>10, LenProperties
    <3>2. order \in [1..m -> Clusters] /\ \A i \in 1..m : order[i] \in ToSet(order)
      BY <1>10, <3>1, LenProperties DEF ToSet
    <3>3. order \in [1..m -> C]
      BY <1>11, <3>2
    <3> QED BY <3>3
  <2>2. C \in SUBSET Int
    BY <1>12
  <2> QED BY <1>10, <1>r, <2>1, <2>2, TopKOk
<1> HIDE DEF topk, scored
<1>14. /\ topk \in SUBSET C /\ IsFiniteSet(topk) /\ Cardinality(topk) <= n
       /\ Cardinality(topk) < n => topk = C
       /\ \A i \in topk, j \in C \ topk : scores[i] <= scores[j]
  BY <1>11, <1>13 DEF TopOk
<1>15. ASSUME Cardinality(C) >= n PROVE Best(scores, C, n, SortedByScore(scores, topk))
  <2>1. Cardinality(topk) = n
    <3>1. Cardinality(topk) \in Nat
      BY <1>14, FS_CardinalityType
    <3> QED BY <1>14, <1>15, <3>1
  <2>2. topk \in SUBSET Int /\ \A c \in topk : scores[c] \in Int
    BY <1>12, <1>14, <1>r
  <2> DEFINE r == SortedByScore(scores, topk)
  <2>3. Enumerates(r, topk) /\ Ascends(scores, r, n)
    BY <1>14, <2>1, <2>2, SortedByScoreIs
  <2> HIDE DEF r
  <2>4. r \in Seq(topk) /\ Len(r) = n /\ ToSet(r) = topk
    BY <1>14, <2>1, <2>3, EnumerationIsSeq
  <2>5. r \in [1..n -> topk] /\ \A i, j \in 1..n : r[i] = r[j] => i = j
    BY <2>1, <2>3 DEF Enumerates
  <2>6. r \in Seq(C)
    <3>1. r \in [1..n -> C]
      BY <1>14, <2>5
    <3> QED BY <3>1
  <2>7. ASSUME NEW i \in 1..n, NEW j \in 1..n, i < j PROVE scores[r[i]] <= scores[r[j]]
    <3>1. TopKScoreLess(scores, r[i], r[j])
      BY <2>3, <2>7 DEF Ascends
    <3>2. scores[r[i]] \in Int /\ scores[r[j]] \in Int
      BY <2>2, <2>5
    <3> QED BY <3>1, <3>2 DEF TopKScoreLess
  <2>8. \A c \in C \ ToSet(r), i \in 1..n : scores[r[i]] <= scores[c]
    BY <1>14, <2>4, <2>5
  <2>9. Best(scores, C, n, r)
    <3>1. \A i, j \in 1..n : r[i] = r[j] => i = j
      BY <2>5
    <3> QED BY <2>4, <2>6, <2>7, <2>8, <3>1 DEF Best
  <2> QED BY <2>9 DEF r
<1>16. ScoredIs(scored, scores, n, C)
  <2>1. scored.candidates = C /\ scored.result = SortedByScore(scores, topk)
    BY <1>7, <1>11
  <2> QED BY <1>15, <2>1 DEF ScoredIs
<1>17. ScoredByDistance(requested_metric, q, scored, n, C)
  BY <1>16, <1>r DEF ScoredByDistance
<1> QED BY <1>1, <1>12, <1>17 DEF C, scored

-----------------------------------------------------------------------------
(* How many super centroids there are, and are probed. *)

(* What the routing needs of its settings.                                  *)
SettingsOk ==
  /\ settings.super_count \in Nat /\ settings.super_factor \in Nat
  /\ settings.budget_factor \in Nat \ {0}

(* There is at least one super centroid, and no more than clusters.         *)
LEMMA SuperCountIs ==
  ASSUME SettingsOk, NEW nprobe \in Nat \ {0}
  PROVE  ResolveTwoLevelSuperCount(nprobe) \in 1..NList
<1>1. NList \in Nat \ {0}
  BY RoutingVectorsAreVectors
<1>2. \A m \in Nat : Resolved(m) \in 1..NList
  BY <1>1 DEF Resolved, AtMost, AtLeast
<1>3. PICK x \in Nat, y \in Nat : x = settings.super_count /\ y = settings.super_factor
  BY DEF SettingsOk
<1>4. y * nprobe \in Nat
  OBVIOUS
<1>5. CeilDiv(NList, 128) \in Nat
  <2> DEFINE b == 128
  <2>1. b \in Nat \ {0}
    OBVIOUS
  <2> HIDE DEF b
  <2>2. CeilDiv(NList, b) \in Nat
    BY <1>1, <2>1, CeilDivIs
  <2> QED BY <2>2 DEF b
<1> QED BY <1>2, <1>3, <1>4, <1>5 DEF ResolveTwoLevelSuperCount

(* Enough super centroids are probed to fill the budget.                    *)
LEMMA SuperProbesIs ==
  ASSUME SettingsOk, NEW nprobe \in Nat \ {0}, NEW k \in 1..NList
  PROVE  LET probes == SuperProbes(AtMost(nprobe, NList), k)
         IN  /\ probes \in 1..k
             /\ \/ probes = k
                \/ probes * CeilDiv(NList, k) >= ResolveTwoLevelCandidateBudget(nprobe)
<1>1. NList \in Nat \ {0}
  BY RoutingVectorsAreVectors
<1>2. PICK f \in Nat \ {0} : f = settings.budget_factor
  BY DEF SettingsOk
<1>3. PICK n \in Nat \ {0} : n = AtMost(nprobe, NList) /\ (n = nprobe \/ (n = NList /\ NList <= nprobe))
  <2>1. AtMost(nprobe, NList) = nprobe \/ (AtMost(nprobe, NList) = NList /\ NList <= nprobe)
    BY <1>1 DEF AtMost
  <2> QED BY <1>1, <2>1
<1>4. PICK avg \in Nat \ {0} : avg = CeilDiv(NList, k)
  <2>1. k \in Nat \ {0}
    BY <1>1
  <2> QED BY <1>1, <2>1, CeilDivIs
<1> DEFINE budget(m) == ResolveTwoLevelCandidateBudget(m)
<1>5. PICK x \in Nat : x = f * n /\ NList <= f * NList
  <2>1. PICK g \in Nat : f = g + 1
    <3>1. f - 1 \in Nat /\ f = (f - 1) + 1
      OBVIOUS
    <3> QED BY <3>1
  <2>2. f * NList = g * NList + NList /\ g * NList \in Nat
    BY <1>1, <2>1
  <2>3. f * n \in Nat
    OBVIOUS
  <2> QED BY <1>1, <2>2, <2>3
<1>6. budget(n) = AtMost(NList, x)
  BY <1>2, <1>3, <1>5 DEF ResolveTwoLevelCandidateBudget
<1>7. budget(n) = budget(nprobe)
  <2>1. CASE n = nprobe
    BY <2>1
  <2>2. CASE n = NList /\ NList <= nprobe
    <3>1. PICK y \in Nat : y = f * nprobe
      OBVIOUS
    <3>2. x <= y /\ NList <= x
      <4>1. PICK d \in Nat : nprobe = NList + d
        <5>1. nprobe - NList \in Nat /\ nprobe = NList + (nprobe - NList)
          BY <1>1, <2>2
        <5> QED BY <5>1
      <4>2. f * nprobe = f * NList + f * d /\ f * d \in Nat /\ f * NList \in Nat
        BY <1>1, <4>1
      <4> QED BY <1>1, <1>5, <2>2, <3>1, <4>2
    <3>3. AtMost(NList, y) = AtMost(NList, x)
      BY <1>1, <3>2 DEF AtMost
    <3>4. budget(nprobe) = AtMost(NList, y)
      BY <1>2, <3>1 DEF ResolveTwoLevelCandidateBudget
    <3> QED BY <1>6, <3>3, <3>4
  <2> QED BY <1>3, <2>1, <2>2
<1>8. PICK b \in Nat : b = budget(n)
  BY <1>1, <1>6 DEF AtMost
<1>9. PICK z \in Nat : z = CeilDiv(b, avg) /\ b <= z * avg
  BY CeilDivIs
<1> DEFINE probes == SuperProbes(n, k)
<1>10. probes = AtMost(k, AtLeast(1, z))
  <2>1. AtLeast(1, avg) = avg
    BY DEF AtLeast
  <2> QED BY <1>4, <1>8, <1>9, <2>1 DEF SuperProbes
<1>11. probes \in 1..k
  BY <1>1, <1>10 DEF AtMost, AtLeast
<1>12. probes = k \/ probes = AtLeast(1, z)
  BY <1>10 DEF AtMost
<1>13. ASSUME probes = AtLeast(1, z) PROVE probes * avg >= b
  <2>1. PICK d \in Nat : probes = z + d
    <3>1. AtLeast(1, z) = z \/ (z = 0 /\ AtLeast(1, z) = z + 1)
      BY DEF AtLeast
    <3> QED BY <1>13, <3>1
  <2>2. probes * avg = z * avg + d * avg /\ z * avg \in Nat /\ d * avg \in Nat
    BY <2>1
  <2> QED BY <1>9, <2>2
<1> HIDE DEF probes, budget
<1>14. probes \in 1..k /\ (probes = k \/ probes * CeilDiv(NList, k) >= budget(nprobe))
  BY <1>4, <1>7, <1>8, <1>11, <1>12, <1>13
<1> QED BY <1>3, <1>14 DEF probes, budget

-----------------------------------------------------------------------------
(* The answers. *)

(* What a query was answered with, by a metric.                             *)
AnswerOk(metric, ans) ==
  LET r == ans.result
      q == ans.query
  IN /\ Len(r) = AtMost(ans.nprobe, NList)
     /\ Cardinality(ToSet(r)) = Len(r)
     /\ \A i, j \in DOMAIN r : i < j => ~(DistanceBy(metric, q, r[j]) < DistanceBy(metric, q, r[i]))
     /\ \A c \in ans.candidates \ ToSet(r), i \in DOMAIN r :
          ~(DistanceBy(metric, q, c) < DistanceBy(metric, q, r[i]))

(* AnswerIsNearest says so of the answer given.                             *)
LEMMA AnswerIsNearestBy ==
  AnswerIsNearest <=> (answer # NoAnswer => AnswerOk(requested_metric, answer))
<1>1. \A q, c : Distance(q, c) = DistanceBy(requested_metric, q, c)
  BY DEF Distance, DistanceBy, effective_metric, Seen, SeenBy
<1> QED BY <1>1, Zenon DEF AnswerIsNearest, AnswerOk, Nearer

(* The best by the distances are such an answer.                            *)
LEMMA BestIsAnswer ==
  ASSUME NEW metric \in RoutingMetrics, NEW q \in Queries, NEW nprobe \in Nat \ {0},
         NEW C \in SUBSET Clusters, NEW scores,
         \A c \in C : scores[c] = DistanceBy(metric, q, c), NEW r, Best(scores, C, AtMost(nprobe, NList), r),
         NEW ans, ans.result = r, ans.query = q, ans.nprobe = nprobe, ans.candidates = C
  PROVE  AnswerOk(metric, ans)
<1>1. PICK n \in Nat : n = AtMost(nprobe, NList)
  BY RoutingVectorsAreVectors DEF AtMost
<1>2. /\ r \in Seq(C) /\ Len(r) = n
      /\ \A i, j \in 1..n : r[i] = r[j] => i = j
      /\ \A i, j \in 1..n : i < j => scores[r[i]] <= scores[r[j]]
      /\ \A c \in C \ ToSet(r), i \in 1..n : scores[r[i]] <= scores[c]
  BY <1>1 DEF Best
<1>3. DOMAIN r = 1..n /\ r \in [1..n -> C]
  BY <1>2, LenProperties
<1>4. Cardinality(ToSet(r)) = n
  <2>1. IsFiniteSet(1..n) /\ Cardinality(1..n) = n
    <3>1. 1 \in Int /\ n \in Int /\ (IF 1 > n THEN 0 ELSE n - 1 + 1) = n
      BY <1>1
    <3> QED BY <3>1, FS_Interval
  <2>2. r \in Bijection(1..n, ToSet(r))
    <3>1. r \in [1..n -> ToSet(r)]
      BY <1>3 DEF ToSet
    <3>2. \A c \in ToSet(r) : \E i \in 1..n : r[i] = c
      BY <1>3 DEF ToSet
    <3> QED BY <1>2, <3>1, <3>2 DEF Bijection, Injection, IsInjective, Surjection
  <2>3. ExistsBijection(1..n, ToSet(r))
    BY <2>2 DEF ExistsBijection
  <2> QED BY <2>1, <2>3, FS_Bijection
<1>5. \A c \in C : DistanceBy(metric, q, c) \in Int /\ DistanceBy(metric, q, c) = scores[c]
  <2> TAKE c \in C
  <2>1. c \in Clusters /\ q \in RoutingVectors
    BY DEF RoutingVectors
  <2> QED BY <2>1, DistanceType
<1>6. ASSUME NEW i \in 1..n, NEW j \in 1..n, i < j
      PROVE  ~(DistanceBy(metric, q, r[j]) < DistanceBy(metric, q, r[i]))
  <2>1. r[i] \in C /\ r[j] \in C
    BY <1>3
  <2>2. scores[r[i]] <= scores[r[j]]
    BY <1>2, <1>6
  <2> QED BY <1>5, <2>1, <2>2
<1>7. ASSUME NEW c \in C \ ToSet(r), NEW i \in 1..n
      PROVE  ~(DistanceBy(metric, q, c) < DistanceBy(metric, q, r[i]))
  <2>1. r[i] \in C
    BY <1>3
  <2>2. scores[r[i]] <= scores[c]
    BY <1>2
  <2> QED BY <1>5, <2>1, <2>2
<1> QED BY <1>1, <1>2, <1>3, <1>4, <1>6, <1>7 DEF AnswerOk

(* Exact routing answers with the nearest clusters.                         *)
LEMMA ExactIsNearest ==
  ASSUME requested_metric \in RoutingMetrics, NEW q \in Queries, NEW nprobe \in Nat \ {0},
         NEW fallback, FindNearestClustersExact(q, nprobe, fallback)
  PROVE  AnswerOk(requested_metric, answer') /\ answer'.mode = "exact"
<1>1. PICK scores : scores = Scores(q)
  OBVIOUS
<1>2. PICK result \in Select(scores, NList, AtMost(nprobe, NList)) :
        answer' = ExactAnswer(q, nprobe, fallback, result)
  BY <1>1 DEF FindNearestClustersExact
<1>3. /\ scores \in [0..(NList - 1) -> Int]
      /\ \A c \in 0..(NList - 1) : scores[c] = DistanceBy(requested_metric, q, c)
  BY <1>1, ScoresAre
<1>4. NList \in Nat \ {0}
  BY RoutingVectorsAreVectors
<1>5. PICK n \in 0..NList : n = AtMost(nprobe, NList)
  BY <1>4 DEF AtMost
<1>6. Best(scores, 0..(NList - 1), n, result)
  BY <1>2, <1>3, <1>4, <1>5, SelectBest
<1>7. PICK ans : ans = ExactAnswer(q, nprobe, fallback, result)
  OBVIOUS
<1>8. /\ ans.result = result /\ ans.query = q /\ ans.nprobe = nprobe
      /\ ans.candidates = Clusters /\ ans.mode = "exact"
  BY <1>7 DEF ExactAnswer
<1>9. AnswerOk(requested_metric, ans)
  <2>1. PICK metric \in RoutingMetrics : metric = requested_metric
    OBVIOUS
  <2>2. Clusters \in SUBSET Clusters /\ Best(scores, Clusters, AtMost(nprobe, NList), result)
        /\ \A c \in Clusters : scores[c] = DistanceBy(metric, q, c)
    BY <1>3, <1>5, <1>6, <2>1 DEF Clusters
  <2>3. AnswerOk(metric, ans)
    BY <1>8, <2>2, BestIsAnswer
  <2> QED BY <2>1, <2>3
<1> QED BY <1>2, <1>7, <1>8, <1>9

(* How far a super centroid is from a query.                                *)
SuperDistanceBy(metric, q, v, s) == -Inner(SeenBy(metric, q), SeenBy(metric, v[s]))

(* A query answered through the hierarchy of v and a: these were probed.    *)
RoutedIs(metric, q, nprobe, v, a, k, probes, probed, ans) ==
  LET h == HierarchyOf(v, a)
  IN /\ Best([s \in 0..(k - 1) |-> SuperDistanceBy(metric, q, v, s)], 0..(k - 1), probes, probed)
     /\ ans.mode = "routed" /\ ans.query = q /\ ans.nprobe = nprobe /\ ans.super_probes = probes
     /\ ans.candidates = UNION {Children(h, probed[i]) : i \in 1..Len(probed)}
     /\ AnswerOk(metric, ans)

(* Some such super centroids, as many as SuperProbes says.                  *)
RoutedAnswer(metric, q, nprobe, v, a, k, ans) ==
  \E probed : RoutedIs(metric, q, nprobe, v, a, k, SuperProbes(AtMost(nprobe, NList), k), probed, ans)

(* Two-level routing answers so, or falls back.                             *)
LEMMA RouteThroughIs ==
  ASSUME requested_metric \in RoutingMetrics, requested_metric # "l2", SettingsOk,
         NEW q \in Queries, NEW nprobe \in Nat \ {0},
         NEW k, NEW v, NEW a, IsGrouping(k, v, a), RouteThrough(q, nprobe, HierarchyOf(v, a))
  PROVE  \/ FindNearestClustersExact(q, nprobe, TRUE)
         \/ RoutedAnswer(requested_metric, q, nprobe, v, a, k, answer')
<1> DEFINE h == HierarchyOf(v, a)
           n == AtMost(nprobe, NList)
           probes == SuperProbes(n, k)
<1>1. h.n_super = k /\ h.supers = v
  <2> HIDE DEF h
  <2>1. HierarchyFits(HierarchyOf(v, a), k, v, a)
    BY HierarchyIs
  <2> QED BY <2>1, Zenon DEF HierarchyFits, h
<1>2. k \in 1..NList /\ v \in [0..(k - 1) -> SuperVectors]
  BY DEF IsGrouping
<1>3. NList \in Nat \ {0}
  BY RoutingVectorsAreVectors
<1>4. n \in Nat \ {0}
  BY <1>3 DEF AtMost
<1>5. probes \in 1..k
  BY <1>2, SuperProbesIs
<1> HIDE DEF h, n, probes
<1>7. PICK super_scores : super_scores = IPScores(q, v, k)
  OBVIOUS
<1>8. PICK probed \in SelectTopNProbeSmall(super_scores, k, probes) :
        \E scored \in {ScoreChildren(q, n, h, probed)} :
           \/ /\ Cardinality(scored.candidates) < n
              /\ FindNearestClustersExact(q, nprobe, TRUE)
           \/ /\ Cardinality(scored.candidates) >= n
              /\ \E overlap \in Overlap(q, n, scored.result) :
                   answer' =
                     [mode |-> "routed", query |-> q, nprobe |-> nprobe,
                      candidates |-> scored.candidates, result |-> scored.result,
                      super_probes |-> probes, overlap |-> overlap]
  <2>1. RouteThrough(q, nprobe, h)
    BY DEF h
  <2>2. \E probed \in SelectTopNProbeSmall(IPScores(q, h.supers, h.n_super), h.n_super,
                                           SuperProbes(n, h.n_super)) :
        \E scored \in {ScoreChildren(q, n, h, probed)} :
           \/ /\ Cardinality(scored.candidates) < n
              /\ FindNearestClustersExact(q, nprobe, TRUE)
           \/ /\ Cardinality(scored.candidates) >= n
              /\ \E overlap \in Overlap(q, n, scored.result) :
                   answer' =
                     [mode |-> "routed", query |-> q, nprobe |-> nprobe,
                      candidates |-> scored.candidates, result |-> scored.result,
                      super_probes |-> SuperProbes(n, h.n_super), overlap |-> overlap]
    BY <2>1, Zenon DEF RouteThrough, n
  <2> QED BY <1>1, <1>7, <2>2, Zenon DEF probes
<1>9. PICK scored : /\ scored = ScoreChildren(q, n, h, probed)
                    /\ \/ /\ Cardinality(scored.candidates) < n
                          /\ FindNearestClustersExact(q, nprobe, TRUE)
                       \/ /\ Cardinality(scored.candidates) >= n
                          /\ \E overlap \in Overlap(q, n, scored.result) :
                               answer' =
                                 [mode |-> "routed", query |-> q, nprobe |-> nprobe,
                                  candidates |-> scored.candidates, result |-> scored.result,
                                  super_probes |-> probes, overlap |-> overlap]
  BY <1>8, Zenon
<1>10. CASE FindNearestClustersExact(q, nprobe, TRUE)
  BY <1>10
<1>11. CASE ~FindNearestClustersExact(q, nprobe, TRUE)
  <2> DEFINE C == UNION {Children(h, probed[i]) : i \in 1..Len(probed)}
  <2>1. PICK overlap : /\ Cardinality(scored.candidates) >= n
                       /\ answer' = [mode |-> "routed", query |-> q, nprobe |-> nprobe,
                                     candidates |-> scored.candidates, result |-> scored.result,
                                     super_probes |-> probes, overlap |-> overlap]
    BY <1>9, <1>11, Zenon
  <2>2. PICK ans : ans = [mode |-> "routed", query |-> q, nprobe |-> nprobe,
                          candidates |-> scored.candidates, result |-> scored.result,
                          super_probes |-> probes, overlap |-> overlap]
    OBVIOUS
  <2>3. /\ ans.mode = "routed" /\ ans.query = q /\ ans.nprobe = nprobe /\ ans.super_probes = probes
        /\ ans.candidates = scored.candidates /\ ans.result = scored.result
    BY <2>2
  <2>4. /\ super_scores \in [0..(k - 1) -> Int]
        /\ \A s \in 0..(k - 1) : super_scores[s] = SuperDistanceBy(requested_metric, q, v, s)
    <3>1. v \in [0..(k - 1) -> RoutingVectors] /\ k \in Nat
      BY <1>2, <1>3 DEF RoutingVectors
    <3>2. /\ IPScores(q, v, k) \in [0..(k - 1) -> Int]
          /\ \A s \in 0..(k - 1) : IPScores(q, v, k)[s]
               = -Inner(SeenBy(requested_metric, q), SeenBy(requested_metric, v[s]))
      BY <3>1, IPScoresAre
    <3> QED BY <1>7, <3>2 DEF SuperDistanceBy
  <2>5. super_scores = [s \in 0..(k - 1) |-> SuperDistanceBy(requested_metric, q, v, s)]
    BY <2>4
  <2>6. Best(super_scores, 0..(k - 1), probes, probed)
    <3>1. k \in Nat /\ probes \in Nat
      BY <1>2, <1>3, <1>5
    <3> QED BY <1>8, <2>4, <3>1, SmallBest
  <2>7. probed \in Seq(0..(k - 1)) /\ Distinct(probed)
    BY <2>6 DEF Best, Distinct
  <2>8. C \in SUBSET Clusters /\ ScoredByDistance(requested_metric, q, scored, n, C)
    <3>1. h = HierarchyOf(v, a)
      BY DEF h
    <3>2. /\ C \subseteq Clusters
          /\ ScoredByDistance(requested_metric, q, ScoreChildren(q, n, h, probed), n, C)
      BY <1>4, <2>7, <3>1, ScoreChildrenIs
    <3> QED BY <1>9, <3>2
  <2> HIDE DEF C
  <2>9. PICK scores \in [C -> Int] :
          /\ \A c \in C : scores[c] = DistanceBy(requested_metric, q, c)
          /\ ScoredIs(scored, scores, n, C)
    BY <2>8 DEF ScoredByDistance
  <2>10. scored.candidates = C /\ Best(scores, C, n, scored.result)
    BY <2>1, <2>9 DEF ScoredIs
  <2>11. AnswerOk(requested_metric, ans)
    <3>1. PICK metric \in RoutingMetrics : metric = requested_metric
      OBVIOUS
    <3>2. \A c \in C : scores[c] = DistanceBy(metric, q, c)
      BY <2>9, <3>1
    <3>3. PICK r : r = scored.result
      OBVIOUS
    <3>4. Best(scores, C, AtMost(nprobe, NList), r) /\ C \in SUBSET Clusters
      BY <2>8, <2>10, <3>3 DEF n
    <3>5. ans.result = r /\ ans.query = q /\ ans.nprobe = nprobe /\ ans.candidates = C
      BY <2>3, <2>10, <3>3
    <3>6. AnswerOk(metric, ans)
      BY <3>2, <3>4, <3>5, BestIsAnswer
    <3> QED BY <3>1, <3>6
  <2>12. RoutedIs(requested_metric, q, nprobe, v, a, k, probes, probed, ans)
    BY <2>3, <2>5, <2>6, <2>10, <2>11 DEF RoutedIs, C, h
  <2>13. answer' = ans
    BY <2>1, <2>2
  <2> QED BY <2>12, <2>13, Zenon DEF RoutedAnswer, probes, n
<1> QED BY <1>10, <1>11

(* RoutedByCurrentHierarchy, of one hierarchy and one answer.               *)
RoutedBy(h, ans, metric) ==
  LET supers == 0..(h.n_super - 1)
      probed == {s \in supers : Children(h, s) \cap ans.candidates # {}}
      SuperDistance(s) == -Inner(SeenBy(metric, ans.query), SeenBy(metric, h.supers[s]))
  IN /\ h.ready /\ h.n_super = ResolveTwoLevelSuperCount(ans.nprobe)
     /\ \A c \in Clusters : Cardinality({s \in supers : c \in Children(h, s)}) = 1
     /\ ans.candidates = UNION {Children(h, s) : s \in probed}
     /\ \A s \in probed, t \in supers \ probed :
          Children(h, t) = {} \/ SuperDistance(s) <= SuperDistance(t)
     /\ \/ ans.super_probes = h.n_super
        \/ ans.super_probes * CeilDiv(NList, h.n_super)
             >= ResolveTwoLevelCandidateBudget(ans.nprobe)

(* Such an answer is what RoutedByCurrentHierarchy asks for.                *)
LEMMA RoutedAnswerIsCurrent ==
  ASSUME SettingsOk, NEW metric \in RoutingMetrics,
         NEW q \in Queries, NEW nprobe \in Nat \ {0},
         NEW k, NEW v, NEW a, IsGrouping(k, v, a), k = ResolveTwoLevelSuperCount(nprobe),
         NEW ans, RoutedAnswer(metric, q, nprobe, v, a, k, ans)
  PROVE  RoutedBy(HierarchyOf(v, a), ans, metric)
<1>1. PICK h : h = HierarchyOf(v, a)
  OBVIOUS
<1>2. h.ready = TRUE /\ h.n_super = k /\ h.supers = v /\ GroupsAre(h, k, a)
  <2>1. HierarchyFits(HierarchyOf(v, a), k, v, a)
    BY HierarchyIs
  <2> QED BY <1>1, <2>1 DEF HierarchyFits
<1>3. k \in 1..NList /\ a \in [Clusters -> 0..(k - 1)] /\ NList \in Nat
  BY RoutingVectorsAreVectors DEF IsGrouping
<1>4. \A s \in 0..(k - 1) : Children(h, s) = {c \in Clusters : a[c] = s}
  BY <1>2 DEF GroupsAre, GroupIs
<1>5. PICK probes : probes = SuperProbes(AtMost(nprobe, NList), k)
  OBVIOUS
<1>6. PICK probed : RoutedIs(metric, q, nprobe, v, a, k, probes, probed, ans)
  BY <1>5 DEF RoutedAnswer
<1> DEFINE Far(s) == SuperDistanceBy(metric, q, v, s)
           far == [s \in 0..(k - 1) |-> Far(s)]
           Near == {s \in 0..(k - 1) : Children(h, s) \cap ans.candidates # {}}
<1>7. /\ Best(far, 0..(k - 1), probes, probed)
      /\ ans.query = q /\ ans.nprobe = nprobe /\ ans.super_probes = probes
      /\ ans.candidates = UNION {Children(h, probed[i]) : i \in 1..Len(probed)}
  BY <1>1, <1>6 DEF RoutedIs
<1> HIDE DEF Far
<1>8. PICK p \in Nat : p = Len(probed)
  BY <1>7, LenProperties DEF Best
<1>9. /\ probed \in [1..p -> 0..(k - 1)] /\ p = probes
      /\ \A t \in (0..(k - 1)) \ ToSet(probed), i \in 1..p : Far(probed[i]) <= Far(t)
  <2>1. probed \in Seq(0..(k - 1)) /\ p = probes
    BY <1>7, <1>8 DEF Best
  <2>2. probed \in [1..p -> 0..(k - 1)]
    BY <1>8, <2>1, LenProperties
  <2>3. \A t \in (0..(k - 1)) \ ToSet(probed), i \in 1..p : far[probed[i]] <= far[t]
    BY <1>7, <2>1 DEF Best
  <2> QED BY <2>1, <2>2, <2>3
<1> HIDE DEF far
<1>10. \A c \in Clusters : Cardinality({s \in 0..(k - 1) : c \in Children(h, s)}) = 1
  <2> TAKE c \in Clusters
  <2>1. {s \in 0..(k - 1) : c \in Children(h, s)} = {a[c]}
    BY <1>3, <1>4
  <2> QED BY <2>1, FS_Singleton
<1>11. \A i \in 1..p : Children(h, probed[i]) # {} => probed[i] \in Near
  BY <1>7, <1>8, <1>9
<1>12. \A s \in Near : \E i \in 1..p : s = probed[i]
  <2> TAKE s \in Near
  <2>1. PICK c \in Children(h, s) : c \in ans.candidates
    OBVIOUS
  <2>2. PICK i \in 1..p : c \in Children(h, probed[i])
    BY <1>7, <1>8, <2>1
  <2>3. c \in Clusters /\ a[c] = s /\ a[c] = probed[i]
    BY <1>4, <1>9, <2>1, <2>2
  <2> QED BY <2>3
<1>13. ans.candidates = UNION {Children(h, s) : s \in Near}
  <2>1. ASSUME NEW c \in ans.candidates PROVE c \in UNION {Children(h, s) : s \in Near}
    <3>1. PICK i \in 1..p : c \in Children(h, probed[i])
      BY <1>7, <1>8, <2>1
    <3> QED BY <1>11, <3>1
  <2>2. ASSUME NEW s \in Near, NEW c \in Children(h, s) PROVE c \in ans.candidates
    BY <1>7, <1>8, <1>12
  <2> QED BY <2>1, <2>2
<1>14. \A s \in Near, t \in (0..(k - 1)) \ Near : Children(h, t) = {} \/ Far(s) <= Far(t)
  <2> TAKE s \in Near, t \in (0..(k - 1)) \ Near
  <2>1. PICK i \in 1..p : s = probed[i]
    BY <1>12
  <2>2. CASE t \in ToSet(probed)
    <3>1. PICK j \in 1..p : t = probed[j]
      BY <1>9, <2>2 DEF ToSet
    <3> QED BY <1>11, <3>1
  <2>3. CASE t \notin ToSet(probed)
    BY <1>9, <2>1, <2>3
  <2> QED BY <2>2, <2>3
<1>15. probes = k \/ probes * CeilDiv(NList, k) >= ResolveTwoLevelCandidateBudget(nprobe)
  BY <1>3, <1>5, SuperProbesIs
<1>16. \A s : Far(s) = -Inner(SeenBy(metric, ans.query), SeenBy(metric, h.supers[s]))
  BY <1>2, <1>7 DEF Far, SuperDistanceBy
<1> HIDE DEF Near
<1>17. RoutedBy(h, ans, metric)
  BY <1>2, <1>7, <1>10, <1>13, <1>14, <1>15, <1>16, Zenon DEF RoutedBy, Near
<1> QED BY <1>1, <1>17

-----------------------------------------------------------------------------
(* The calls. *)

(* What the index caches: nothing, or the hierarchy of some grouping.       *)
HierarchyOk(h) ==
  h = NoHierarchy \/ \E k, v, a : IsGrouping(k, v, a) /\ h = HierarchyOf(v, a)

(* Nothing, or a hierarchy of k super centroids.                            *)
EnsuredOk(h, k) ==
  h = NoHierarchy \/ \E v, a : IsGrouping(k, v, a) /\ h = HierarchyOf(v, a)

(* The hierarchy a query gets is the one its settings ask for.              *)
LEMMA EnsureIs ==
  ASSUME SettingsOk, HierarchyOk(hierarchy), NEW nprobe \in Nat \ {0},
         EnsureCoarseHierarchy(nprobe)
  PROVE  EnsuredOk(hierarchy', ResolveTwoLevelSuperCount(nprobe))
<1>1. PICK k \in 1..NList : k = ResolveTwoLevelSuperCount(nprobe)
  BY SuperCountIs
<1>2. CASE Cached(hierarchy, nprobe)
  <2>1. hierarchy' = hierarchy /\ hierarchy.ready /\ hierarchy.n_super = k
    BY <1>1, <1>2 DEF EnsureCoarseHierarchy, Cached
  <2>2. PICK h : h = hierarchy
    OBVIOUS
  <2>3. h.ready /\ h.n_super = k /\ HierarchyOk(h)
    BY <2>1, <2>2
  <2>4. h # NoHierarchy
    BY <2>3 DEF NoHierarchy
  <2>5. PICK m, v, a : IsGrouping(m, v, a) /\ h = HierarchyOf(v, a)
    BY <2>3, <2>4 DEF HierarchyOk
  <2>6. HierarchyFits(HierarchyOf(v, a), m, v, a)
    BY <2>5, HierarchyIs
  <2>7. m = k
    BY <2>3, <2>5, <2>6 DEF HierarchyFits
  <2>8. EnsuredOk(h, k)
    BY <2>5, <2>7 DEF EnsuredOk
  <2> QED BY <1>1, <2>1, <2>2, <2>8
<1>3. CASE ~Cached(hierarchy, nprobe)
  <2>1. hierarchy' \in Trained(nprobe)
    BY <1>3, Zenon DEF EnsureCoarseHierarchy
  <2>2. PICK h \in Trained(nprobe) : h = hierarchy'
    BY <2>1
  <2> DEFINE S == 0..(ResolveTwoLevelSuperCount(nprobe) - 1)
             near(v) == Table([c \in Clusters |-> NearestSupers(v, c)])
             groups(v) == {HierarchyOf(v, a) :
                             a \in {b \in [Clusters -> S] : \A c \in Clusters : b[c] \in near(v)[c]}}
  <2>3. Trained(nprobe) = {NoHierarchy} \cup
            UNION {groups(v) : v \in {w \in [S -> SuperVectors] : IsInjective(w)}}
    BY DEF Trained
  <2>4. CASE h = NoHierarchy
    BY <1>1, <2>2, <2>4 DEF EnsuredOk
  <2>5. CASE h # NoHierarchy
    <3> HIDE DEF groups
    <3>0. S = 0..(k - 1)
      BY <1>1
    <3> HIDE DEF S
    <3>1. PICK v \in [S -> SuperVectors] : h \in groups(v)
      BY <2>2, <2>3, <2>5
    <3>2. PICK a \in [Clusters -> S] : h = HierarchyOf(v, a)
      BY <3>1, Zenon DEF groups
    <3>3. IsGrouping(k, v, a)
      BY <3>0, <3>1, <3>2 DEF IsGrouping
    <3>4. EnsuredOk(h, k)
      BY <3>2, <3>3 DEF EnsuredOk
    <3> QED BY <1>1, <2>2, <3>4
  <2> QED BY <2>4, <2>5
<1> QED BY <1>2, <1>3

(* What holds between the calls.                                            *)
RoutingInv ==
  /\ requested_metric \in RoutingMetrics
  /\ SettingsOk
  /\ HierarchyOk(hierarchy)
  /\ AnswerIsNearest

(* So a two-level query keeps the invariant.                                *)
LEMMA FindTwoLevelIs ==
  ASSUME RoutingInv, NEW q \in Queries, NEW nprobe \in Nat \ {0}, FindTwoLevel(q, nprobe)
  PROVE  /\ HierarchyOk(hierarchy')
         /\ AnswerOk(requested_metric, answer')
         /\ answer'.mode = "exact" \/ RoutedBy(hierarchy', answer', requested_metric)
<1>1. EnsureCoarseHierarchy(nprobe)
  BY Zenon DEF FindTwoLevel, FindNearestClustersTwoLevel
<1>2. requested_metric \in RoutingMetrics /\ SettingsOk /\ HierarchyOk(hierarchy)
  BY DEF RoutingInv
<1>3. PICK h : h = hierarchy'
  OBVIOUS
<1>4. PICK k \in 1..NList : k = ResolveTwoLevelSuperCount(nprobe)
  BY <1>2, SuperCountIs
<1>5. EnsuredOk(h, k)
  BY <1>1, <1>2, <1>3, <1>4, EnsureIs
<1>6. HierarchyOk(h)
  BY <1>5 DEF HierarchyOk, EnsuredOk
<1>7. \/ FindNearestClustersExact(q, nprobe, TRUE)
      \/ h.ready /\ RouteThrough(q, nprobe, h)
  BY <1>3, Zenon DEF FindTwoLevel, FindNearestClustersTwoLevel
<1>8. CASE FindNearestClustersExact(q, nprobe, TRUE)
  BY <1>2, <1>3, <1>6, <1>8, ExactIsNearest
<1>9. CASE ~FindNearestClustersExact(q, nprobe, TRUE)
  <2>1. h.ready /\ RouteThrough(q, nprobe, h)
    BY <1>7, <1>9
  <2>2. h # NoHierarchy
    BY <2>1 DEF NoHierarchy
  <2>3. PICK v, a : IsGrouping(k, v, a) /\ h = HierarchyOf(v, a)
    BY <1>5, <2>2 DEF EnsuredOk
  <2>4. RouteThrough(q, nprobe, HierarchyOf(v, a))
    BY <2>1, <2>3
  <2>5. RoutedAnswer(requested_metric, q, nprobe, v, a, k, answer')
    <3>1. requested_metric # "l2"
      BY DEF FindTwoLevel, UseTwoLevel, effective_metric
    <3> QED BY <1>2, <1>9, <2>3, <2>4, <3>1, RouteThroughIs
  <2>6. PICK metric, ans : /\ metric \in RoutingMetrics /\ metric = requested_metric
                           /\ ans = answer'
    BY <1>2
  <2>7. RoutedAnswer(metric, q, nprobe, v, a, k, ans)
    BY <2>5, <2>6
  <2>8. RoutedBy(h, ans, metric)
    <3>1. RoutedBy(HierarchyOf(v, a), ans, metric)
      BY <1>2, <1>4, <2>3, <2>6, <2>7, RoutedAnswerIsCurrent
    <3> QED BY <2>3, <3>1
  <2>9. AnswerOk(metric, ans)
    BY <2>7 DEF RoutedAnswer, RoutedIs
  <2> QED BY <1>3, <1>6, <2>6, <2>8, <2>9
<1> QED BY <1>8, <1>9

(* It holds of a fresh index.                                               *)
LEMMA RoutingInitial == RoutingInit => RoutingInv
<1> SUFFICES ASSUME RoutingInit PROVE RoutingInv
  OBVIOUS
<1>1. requested_metric \in RoutingMetrics /\ HierarchyOk(hierarchy) /\ AnswerIsNearest
  BY DEF RoutingInit, HierarchyOk, AnswerIsNearest
<1>2. SettingsOk
  BY DEF RoutingInit, SettingsOk
<1> QED BY <1>1, <1>2 DEF RoutingInv

(* One step.                                                                *)
RoutingStepOk ==
  /\ requested_metric' = requested_metric
  /\ SettingsOk'
  /\ HierarchyOk(hierarchy')
  /\ answer' = NoAnswer \/ AnswerOk(requested_metric, answer')
  /\ \/ answer' = NoAnswer
     \/ answer'.mode = "exact"
     \/ RoutedBy(hierarchy', answer', requested_metric)

(* Every call keeps it, and is as RoutedByCurrentHierarchy says.            *)
LEMMA RoutingStep ==
  ASSUME RoutingInv, RoutingNext
  PROVE  RoutingStepOk
<1>1. requested_metric \in RoutingMetrics /\ SettingsOk /\ HierarchyOk(hierarchy)
  BY DEF RoutingInv
<1>2. NProbes \subseteq Nat \ {0}
  BY RoutingAssumption
<1>3. settings' = settings => SettingsOk'
  BY <1>1 DEF SettingsOk
<1>4. ASSUME NEW new \in Settings, SetTwoLevelCoarseRouting(new) PROVE RoutingStepOk
  <2>1. new.super_count \in Nat /\ new.super_factor \in Nat /\ new.budget_factor \in Nat \ {0}
    <3>1. /\ new.super_count \in SuperCounts /\ new.super_factor \in SuperFactors
          /\ \E b \in BudgetFactors : new.budget_factor = AtLeast(1, b)
      BY DEF Settings
    <3>2. \A b \in BudgetFactors : b \in Nat
      BY RoutingAssumption
    <3>3. SuperCounts \subseteq Nat /\ SuperFactors \subseteq Nat
      BY RoutingAssumption
    <3>4. PICK b \in BudgetFactors : new.budget_factor = AtLeast(1, b)
      BY <3>1
    <3>5. AtLeast(1, b) \in Nat \ {0}
      BY <3>2 DEF AtLeast
    <3> QED BY <3>1, <3>3, <3>4, <3>5
  <2>2. settings' = new /\ answer' = NoAnswer /\ requested_metric' = requested_metric
    BY <1>4 DEF SetTwoLevelCoarseRouting
  <2>3. hierarchy' = hierarchy \/ hierarchy' = NoHierarchy
    BY <1>4, Zenon DEF SetTwoLevelCoarseRouting
  <2>4. HierarchyOk(hierarchy')
    BY <1>1, <2>3 DEF HierarchyOk
  <2>5. SettingsOk'
    BY <2>1, <2>2 DEF SettingsOk
  <2> QED BY <2>2, <2>4, <2>5 DEF RoutingStepOk
<1>5. ASSUME NEW mode, SetUseCoarseSelect(mode) PROVE RoutingStepOk
  BY <1>1, <1>3, <1>5 DEF SetUseCoarseSelect, RoutingStepOk
<1>6. ASSUME NEW nprobe \in NProbes, PrepareTwoLevelCoarseRouting(nprobe) PROVE RoutingStepOk
  <2>1. /\ EnsureCoarseHierarchy(nprobe) /\ answer' = NoAnswer
        /\ requested_metric' = requested_metric /\ settings' = settings
    BY <1>6 DEF PrepareTwoLevelCoarseRouting
  <2>2. EnsuredOk(hierarchy', ResolveTwoLevelSuperCount(nprobe))
    BY <1>1, <1>2, <2>1, EnsureIs
  <2>3. HierarchyOk(hierarchy')
    BY <2>2 DEF EnsuredOk, HierarchyOk
  <2> QED BY <1>3, <2>1, <2>3 DEF RoutingStepOk
<1>7. ASSUME NEW q \in Queries, NEW nprobe \in NProbes, FindExact(q, nprobe) PROVE RoutingStepOk
  <2>1. /\ FindNearestClustersExact(q, nprobe, FALSE) /\ hierarchy' = hierarchy
        /\ requested_metric' = requested_metric /\ settings' = settings
    BY <1>7 DEF FindExact
  <2>2. AnswerOk(requested_metric, answer') /\ answer'.mode = "exact"
    BY <1>1, <1>2, <2>1, ExactIsNearest
  <2> QED BY <1>1, <1>3, <2>1, <2>2 DEF RoutingStepOk
<1>8. ASSUME NEW q \in Queries, NEW nprobe \in NProbes, FindTwoLevel(q, nprobe) PROVE RoutingStepOk
  <2>1. requested_metric' = requested_metric /\ settings' = settings
    BY <1>8 DEF FindTwoLevel
  <2>2. /\ HierarchyOk(hierarchy') /\ AnswerOk(requested_metric, answer')
        /\ answer'.mode = "exact" \/ RoutedBy(hierarchy', answer', requested_metric)
    BY <1>2, <1>8, FindTwoLevelIs
  <2> QED BY <1>3, <2>1, <2>2 DEF RoutingStepOk
<1> QED BY <1>4, <1>5, <1>6, <1>7, <1>8, Zenon DEF RoutingNext

(* RoutingInv is invariant.                                                 *)
LEMMA RoutingInvariant == RoutingSpec => []RoutingInv
<1>1. RoutingInv /\ [RoutingNext]_routingVars => RoutingInv'
  <2> SUFFICES ASSUME RoutingInv, [RoutingNext]_routingVars PROVE RoutingInv'
    OBVIOUS
  <2>1. CASE RoutingNext
    <3>1. RoutingStepOk
      BY <2>1, RoutingStep
    <3>2. answer' # NoAnswer => AnswerOk(requested_metric', answer')
      BY <3>1, Zenon DEF RoutingStepOk
    <3>3. AnswerIsNearest' <=> (answer' # NoAnswer => AnswerOk(requested_metric', answer'))
      <4>1. \A q, c : Distance(q, c)' = DistanceBy(requested_metric', q, c)
        BY DEF Distance, DistanceBy, effective_metric, Seen, SeenBy
      <4> QED BY <4>1, Zenon DEF AnswerIsNearest, AnswerOk, Nearer
    <3> QED BY <3>1, <3>2, <3>3, Zenon DEF RoutingInv, RoutingStepOk
  <2>2. CASE UNCHANGED routingVars
    BY <2>2 DEF RoutingInv, routingVars, SettingsOk, AnswerIsNearest, Nearer, Distance,
                effective_metric, Seen
  <2> QED BY <2>1, <2>2
<1> QED BY <1>1, RoutingInitial, PTL DEF RoutingSpec

(* For every index, every query, every setting and either selection: a      *)
(* query is answered with min(nprobe, nlist) different clusters, nearest    *)
(* first, and no cluster scored for it but left out is nearer than one of   *)
(* them (FindNearestClusters, exact and two-level).                         *)
THEOREM NearestAnswers == RoutingSpec => []AnswerIsNearest
<1>1. RoutingInv => AnswerIsNearest
  BY DEF RoutingInv
<1> QED BY <1>1, RoutingInvariant, PTL

(* However often the settings have changed between the queries: a routed    *)
(* answer comes from a hierarchy of as many super centroids as the settings *)
(* now ask for, which holds every cluster once, and from the nearest of its *)
(* super centroids (EnsureCoarseHierarchy, FindNearestClustersTwoLevel).    *)
THEOREM RoutedAnswersAreCurrent == RoutingSpec => RoutedByCurrentHierarchy
<1> DEFINE Step ==
      (answer' # answer /\ answer'.mode = "routed") =>
         LET h == hierarchy'
             supers == 0..(h.n_super - 1)
             probed == {s \in supers : Children(h, s) \cap answer'.candidates # {}}
             SuperDistance(s) == -Inner(Seen(answer'.query), Seen(h.supers[s]))
         IN /\ h.ready /\ h.n_super = ResolveTwoLevelSuperCount(answer'.nprobe)
            /\ \A c \in Clusters : Cardinality({s \in supers : c \in Children(h, s)}) = 1
            /\ answer'.candidates = UNION {Children(h, s) : s \in probed}
            /\ \A s \in probed, t \in supers \ probed :
                 Children(h, t) = {} \/ SuperDistance(s) <= SuperDistance(t)
            /\ \/ answer'.super_probes = h.n_super
               \/ answer'.super_probes * CeilDiv(NList, h.n_super)
                    >= ResolveTwoLevelCandidateBudget(answer'.nprobe)
<1>1. ASSUME RoutingInv, [RoutingNext]_routingVars PROVE Step \/ UNCHANGED routingVars
  <2> SUFFICES ASSUME answer' # answer, answer'.mode = "routed" PROVE Step
    BY Zenon
  <2>1. RoutingStepOk
    BY <1>1, RoutingStep DEF routingVars
  <2>2. RoutedBy(hierarchy', answer', requested_metric)
    BY <2>1 DEF RoutingStepOk, NoAnswer
  <2>3. \A w : Seen(w) = SeenBy(requested_metric, w)
    BY DEF Seen, SeenBy
  <2> QED BY <2>2, <2>3, Zenon DEF RoutedBy
<1> QED BY <1>1, RoutingInvariant, PTL DEF RoutingSpec, RoutedByCurrentHierarchy
=============================================================================
