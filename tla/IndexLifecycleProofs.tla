------------------------- MODULE IndexLifecycleProofs -------------------------
(* What an index directory can look like to the object that opens it. *)
EXTENDS IndexLifecycle, AddressColumnProofs

(* The data file alone. *)
Address == [offset : Nat, size : Nat]

(* The writer is at the end of the last record and on a page boundary, as   *)
(* long as no piece of a record was refused: an error leaves current_offset *)
(* amid a record, and no address is given out after it.                     *)
DataInv ==
  /\ issued \in Seq(Address)
  /\ \A i \in DOMAIN issued :
       issued[i].offset % DataPage = 0 /\ issued[i].size % DataPage = 0
  /\ Adjacent(issued)
  /\ dat_writer = "open" =>
       /\ raw_dim \in RawDims
       /\ current_offset \in Nat /\ current_offset % DataPage = 0
       /\ issued # << >> =>
            current_offset = issued[Len(issued)].offset + issued[Len(issued)].size

LEMMA MultipleIsAligned ==
  ASSUME NEW k \in Nat, NEW p \in Nat \ {0}
  PROVE  (k * p) % p = 0
  BY Z3

LEMMA AlignedSum ==
  ASSUME NEW a \in Nat, NEW b \in Nat, NEW p \in Nat \ {0}, a % p = 0, b % p = 0
  PROVE  (a + b) % p = 0
<1>1. PICK i \in Nat : i * p = a
  BY WholePages
<1>2. PICK j \in Nat : j * p = b
  BY WholePages
<1> DEFINE k == i + j
<1>3. k \in Nat
  OBVIOUS
<1>4. k * p = a + b
  BY <1>1, <1>2, Z3
<1> HIDE DEF k
<1>5. (k * p) % p = 0
  BY <1>3, MultipleIsAligned
<1> QED BY <1>4, <1>5

LEMMA CeilDivCovers ==
  ASSUME NEW a \in Nat, NEW b \in Nat \ {0}
  PROVE  CeilDiv(a, b) \in Nat /\ CeilDiv(a, b) * b >= a
<1>1. CeilDiv(a, b) \in Nat
  BY DEF CeilDiv
<1>2. ((a + b - 1) \div b) * b >= a
  BY Z3
<1> QED BY <1>1, <1>2 DEF CeilDiv

(* Padding only adds cells, up to a whole number of pages. *)
LEMMA PaddedIsAligned ==
  ASSUME NEW n \in Nat
  PROVE  /\ n + PadCells(n) \in Nat
         /\ (n + PadCells(n)) % DataPage = 0
<1> DEFINE m == CeilDiv(n, DataPage)
<1>0. DataPage \in Nat \ {0}
  BY DataAssumption
<1>1. CASE DataPage = 1
  BY <1>1 DEF PadCells
<1>2. CASE DataPage > 1
  <2>1. m \in Nat /\ m * DataPage \in Nat
    BY <1>0 DEF CeilDiv
  <2>2. n + PadCells(n) = m * DataPage
    <3> HIDE DEF m
    <3>1. PadCells(n) = m * DataPage - n
      BY <1>2 DEF PadCells, m
    <3> QED BY <2>1, <3>1
  <2> HIDE DEF m
  <2> QED BY <1>0, <2>1, <2>2, MultipleIsAligned
<1> QED BY <1>0, <1>1, <1>2

LEMMA DataInit == DatInit => DataInv
  BY DEF DatInit, DataInv, Adjacent

LEMMA DataStep == DataInv /\ [DatNext]_datVars => DataInv'
<1> SUFFICES ASSUME DataInv, [DatNext]_datVars PROVE DataInv'
  OBVIOUS
<1> USE DEF DataInv
<1>0. DataPage \in Nat \ {0} /\ MaxRecords \in Nat /\ RawDims \subseteq Nat
  BY DataAssumption
<1>1. ASSUME NEW dim \in RawDims, DatOpen(dim) PROVE DataInv'
  BY <1>0, <1>1 DEF DatOpen, Adjacent
<1>2. ASSUME NEW payload \in Payloads, WriteRecord(payload) PROVE DataInv'
  <2> DEFINE r == Len(issued) + 1
             n == Len(RecordCells(r, raw_dim, payload))
             size == n + PadCells(n)
             e == [offset |-> current_offset, size |-> size]
  <2>1. r \in 1..MaxRecords /\ raw_dim \in RawDims
    BY <1>2 DEF WriteRecord
  <2>2. n \in Nat /\ size < Word
    BY <2>1, RecordSizeAssumption
  <2>3. size \in Nat /\ size % DataPage = 0
    BY <2>2, PaddedIsAligned
  <2>4. U32(size) = size
    <3> HIDE DEF size
    <3> QED BY <2>2, <2>3, U32Small
  <2>5. /\ issued' = Append(issued, e)
        /\ current_offset' = current_offset + size
        /\ dat_writer = "open" /\ dat_writer' = "open" /\ raw_dim' = raw_dim
    BY <1>2, <2>4 DEF WriteRecord
  <2> HIDE DEF size, n
  <2>6. e \in Address /\ e.offset % DataPage = 0 /\ e.size % DataPage = 0
    BY <2>3, <2>5 DEF Address
  <2>7. /\ issued' \in Seq(Address) /\ Len(issued') = Len(issued) + 1
        /\ issued'[Len(issued')] = e
        /\ \A i \in DOMAIN issued : issued'[i] = issued[i]
        /\ DOMAIN issued' = 1..(Len(issued) + 1) /\ DOMAIN issued = 1..Len(issued)
    <3> HIDE DEF e
    <3> QED BY <2>5, <2>6
  <2>8. \A i \in DOMAIN issued' :
          issued'[i].offset % DataPage = 0 /\ issued'[i].size % DataPage = 0
    <3> HIDE DEF e
    <3> TAKE i \in DOMAIN issued'
    <3>1. CASE i \in DOMAIN issued
      BY <2>7, <3>1
    <3>2. CASE i = Len(issued')
      BY <2>6, <2>7, <3>2
    <3> QED BY <2>7, <3>1, <3>2
  <2>9. Adjacent(issued')
    <3> SUFFICES ASSUME NEW i \in 1..(Len(issued') - 1)
                 PROVE  issued'[i + 1].offset = issued'[i].offset + issued'[i].size
      BY DEF Adjacent
    <3>1. i \in DOMAIN issued /\ issued'[i] = issued[i]
      BY <2>7
    <3>2. CASE i = Len(issued)
      <4>1. issued # << >>
        BY <3>1, <2>7
      <4>2. current_offset = issued[i].offset + issued[i].size
        BY <4>1, <3>2, <2>5
      <4>3. issued'[i + 1] = e
        BY <3>2, <2>7
      <4> QED BY <3>1, <4>2, <4>3
    <3>3. CASE i # Len(issued)
      <4>1. i \in 1..(Len(issued) - 1) /\ i + 1 \in DOMAIN issued
        BY <3>1, <3>3, <2>7
      <4> QED BY <3>1, <4>1, <2>7 DEF Adjacent
    <3> QED BY <3>2, <3>3
  <2>10. /\ current_offset' \in Nat /\ current_offset' % DataPage = 0
         /\ current_offset' = issued'[Len(issued')].offset + issued'[Len(issued')].size
    BY <1>0, <2>3, <2>5, <2>7, AlignedSum
  <2> QED BY <2>1, <2>5, <2>7, <2>8, <2>9, <2>10
<1>3. ASSUME NEW payload \in Payloads, WriteRecordFails(payload) PROVE DataInv'
  BY <1>3 DEF WriteRecordFails
<1>4. CASE DatFinalize
  BY <1>4 DEF DatFinalize
<1>5. CASE DatAbandon
  BY <1>5 DEF DatAbandon
<1>6. CASE UNCHANGED datVars
  BY <1>6 DEF datVars, Adjacent
<1> QED BY <1>1, <1>2, <1>3, <1>4, <1>5, <1>6 DEF DatNext

THEOREM DataInvariant == DatSpec => []DataInv
  BY DataInit, DataStep, PTL DEF DatSpec

(* Records follow one another without gap or overlap, whatever failed. *)
THEOREM RecordsAreAdjacent == DatSpec => []RecordsAdjacent
<1>1. DataInv => RecordsAdjacent
  BY DEF DataInv, RecordsAdjacent
<1> QED BY <1>1, DataInvariant, PTL

(* The raw table of cluster.clu gives back every address the writer has     *)
(* returned, although the builder asks neither validator: WriteRecord keeps *)
(* to whole pages, and no address is given out once one did not.            *)
THEOREM TableKeepsEveryAddress == DatSpec => []TableKeepsAddresses
<1>1. DataInv => TableKeepsAddresses
  <2> SUFFICES ASSUME DataInv, FitsRawTable(issued, DataPage)
               PROVE  Decode(EncodeRawTableV2(issued, DataPage))
                        = [ok |-> TRUE, entries |-> issued]
    BY DEF TableKeepsAddresses
  <2>1. DataPage \in Nat \ {0}
    BY DataAssumption
  <2>2. issued \in Seq([offset : Nat, size : Nat])
    BY DEF DataInv, Address
  <2>3. ValidateRawTableV2Alignment(issued, DataPage)
    BY <2>1 DEF DataInv, ValidateRawTableV2Alignment
  <2> QED BY <2>1, <2>2, <2>3, RawTableRoundTrip
<1> QED BY <1>1, DataInvariant, PTL
-----------------------------------------------------------------------------
(* A record as cells. *)
Cell == [k : {"vec", "col", "len", "zero"}, rec : Nat, col : Nat, at : Nat]

Data(r, payload) == [c \in DOMAIN payload |-> WriteDatum(r, c, payload[c])]
Values(r, payload) == [c \in DOMAIN Schemas |-> ValueCells(r, c, payload[c])]

LEMMA RecordTypes ==
  ASSUME NEW r \in Nat, NEW dim \in Nat, NEW payload \in Payloads
  PROVE  /\ VecCells(r, dim) \in Seq(Cell) /\ Len(VecCells(r, dim)) = dim
         /\ \A c \in Nat, n \in Nat :
              ValueCells(r, c, n) \in Seq(Cell) /\ Len(ValueCells(r, c, n)) = n
         /\ \A n \in Nat : <<LenCell(n)>> \in Seq(Cell)
         /\ Data(r, payload) \in Seq(Seq(Cell)) /\ Len(Data(r, payload)) = Len(Schemas)
         /\ Values(r, payload) \in Seq(Seq(Cell)) /\ Len(Values(r, payload)) = Len(Schemas)
         /\ \A c \in 1..Len(Schemas) :
              payload[c] \in Nat /\ Data(r, payload)[c] = WriteDatum(r, c, payload[c])
         /\ RecordCells(r, dim, payload) = VecCells(r, dim) \o FlattenSeq(Data(r, payload))
         /\ FlattenSeq(Data(r, payload)) \in Seq(Cell)
         /\ RecordCells(r, dim, payload) \in Seq(Cell)
<1>1. VecCells(r, dim) \in Seq(Cell) /\ Len(VecCells(r, dim)) = dim
  <2>1. VecCells(r, dim) \in [1..dim -> Cell]
    BY DEF VecCells, VecCell, Cell
  <2> QED BY <2>1
<1>2. ASSUME NEW c \in Nat, NEW n \in Nat
      PROVE  ValueCells(r, c, n) \in Seq(Cell) /\ Len(ValueCells(r, c, n)) = n
  <2>1. ValueCells(r, c, n) \in [1..n -> Cell]
    BY DEF ValueCells, ColCell, Cell
  <2> QED BY <2>1
<1>3. ASSUME NEW n \in Nat PROVE <<LenCell(n)>> \in Seq(Cell)
  <2>1. LenCell(n) \in Cell
    BY DEF LenCell, Cell
  <2> QED BY <2>1
<1>4. /\ payload \in Seq(Nat) /\ Len(payload) = Len(Schemas) /\ Schemas \in Seq(Nat)
      /\ DOMAIN payload = 1..Len(Schemas) /\ DOMAIN Schemas = 1..Len(Schemas)
      /\ Len(Schemas) \in Nat
      /\ \A c \in 1..Len(Schemas) : payload[c] \in Nat
  BY DataAssumption
<1>5. ASSUME NEW c \in 1..Len(Schemas) PROVE WriteDatum(r, c, payload[c]) \in Seq(Cell)
  <2>1. ValueCells(r, c, payload[c]) \in Seq(Cell) /\ <<LenCell(payload[c])>> \in Seq(Cell)
    BY <1>2, <1>3, <1>4
  <2>2. <<LenCell(payload[c])>> \o ValueCells(r, c, payload[c]) \in Seq(Cell)
    <3> HIDE DEF Cell
    <3> QED BY <2>1, ConcatElements
  <2> QED BY <2>1, <2>2 DEF WriteDatum
<1>6. /\ Data(r, payload) \in Seq(Seq(Cell)) /\ Len(Data(r, payload)) = Len(Schemas)
      /\ \A c \in 1..Len(Schemas) : Data(r, payload)[c] = WriteDatum(r, c, payload[c])
  <2>1. Data(r, payload) \in [1..Len(Schemas) -> Seq(Cell)]
    BY <1>4, <1>5 DEF Data
  <2>2. Len(Data(r, payload)) = Len(Schemas)
    BY <1>4, <2>1
  <2> QED BY <1>4, <2>1, <2>2 DEF Data
<1>7. Values(r, payload) \in Seq(Seq(Cell)) /\ Len(Values(r, payload)) = Len(Schemas)
  <2>1. Values(r, payload) \in [1..Len(Schemas) -> Seq(Cell)]
    BY <1>2, <1>4 DEF Values
  <2> QED BY <1>4, <2>1
<1>8. FlattenSeq(Data(r, payload)) \in Seq(Cell)
  BY <1>6, FlattenType
<1>9. RecordCells(r, dim, payload) = VecCells(r, dim) \o FlattenSeq(Data(r, payload))
  BY DEF RecordCells, Data
<1>10. RecordCells(r, dim, payload) \in Seq(Cell)
  BY <1>1, <1>8, <1>9, ConcatElements
<1> QED BY <1>1, <1>2, <1>3, <1>4, <1>6, <1>7, <1>8, <1>9, <1>10

(* What the parser has of a record after c columns. *)
ColumnEnd(r, dim, payload, c) == dim + Len(FlattenSeq(SubSeq(Data(r, payload), 1, c)))
ParsedOwn(r, dim, payload, c) ==
  [ok |-> TRUE, at |-> ColumnEnd(r, dim, payload, c),
   columns |-> SubSeq(Values(r, payload), 1, c)]

LEMMA TakesColumn ==
  ASSUME NEW buf \in Seq(Cell), NEW at \in Nat, NEW value \in Seq(Cell), NEW columns,
         LiesAt(buf, at, value)
  PROVE  TakeColumn(buf, at, Len(value), columns)
           = [ok |-> TRUE, at |-> at + Len(value), columns |-> Append(columns, value)]
<1>1. SubSeq(buf, at + 1, at + Len(value)) = value
  BY LiesAtRead
<1>2. ~(at + Len(value) > Len(buf))
  <2>1. Len(buf) \in Nat /\ Len(value) \in Nat
    BY LenProperties
  <2> QED BY <2>1 DEF LiesAt
<1> QED BY <1>1, <1>2 DEF TakeColumn

(* The end of a value that lies in the buffer does not wrap.                *)
LEMMA TakesVariable ==
  ASSUME NEW buf \in Seq(Cell), NEW at \in Nat, NEW value \in Seq(Cell), NEW columns,
         LiesAt(buf, at, value)
  PROVE  TakeVariable(buf, at, Len(value), columns)
           = [ok |-> TRUE, at |-> at + Len(value), columns |-> Append(columns, value)]
<1>1. ~(at + Len(value) > Len(buf))
  <2>1. Len(buf) \in Nat /\ Len(value) \in Nat
    BY LenProperties
  <2> QED BY <2>1 DEF LiesAt
<1>2. TakeVariable(buf, at, Len(value), columns) = TakeColumn(buf, at, Len(value), columns)
  BY <1>1 DEF TakeVariable
<1> QED BY <1>2, TakesColumn

LEMMA ParsesColumn ==
  ASSUME NEW r \in Nat, NEW dim \in Nat, NEW payload \in Payloads, NEW buf \in Seq(Cell),
         LiesAt(buf, 0, RecordCells(r, dim, payload)), NEW c \in 1..Len(Schemas)
  PROVE  ParseColumn(buf, Schemas[c], ParsedOwn(r, dim, payload, c - 1))
           = {ParsedOwn(r, dim, payload, c)}
<1> DEFINE data == Data(r, payload)
           own == Values(r, payload)
           n == payload[c]
           at == ColumnEnd(r, dim, payload, c - 1)
           cols == SubSeq(own, 1, c - 1)
           value == ValueCells(r, c, n)
           before == FlattenSeq(SubSeq(data, 1, c - 1))
<1>1. /\ VecCells(r, dim) \in Seq(Cell) /\ Len(VecCells(r, dim)) = dim
      /\ n \in Nat /\ c \in Nat /\ value \in Seq(Cell) /\ Len(value) = n
      /\ <<LenCell(n)>> \in Seq(Cell)
      /\ data \in Seq(Seq(Cell)) /\ Len(data) = Len(Schemas)
      /\ own \in Seq(Seq(Cell)) /\ Len(own) = Len(Schemas)
      /\ data[c] = WriteDatum(r, c, n)
      /\ RecordCells(r, dim, payload) = VecCells(r, dim) \o FlattenSeq(data)
      /\ FlattenSeq(data) \in Seq(Cell)
  <2>1. c \in Nat /\ n \in Nat
    BY RecordTypes
  <2>2. \A k \in Nat, m \in Nat :
          ValueCells(r, k, m) \in Seq(Cell) /\ Len(ValueCells(r, k, m)) = m
    BY RecordTypes
  <2>3. value \in Seq(Cell) /\ Len(value) = n
    BY <2>1, <2>2
  <2>4. <<LenCell(n)>> \in Seq(Cell)
    BY <2>1, RecordTypes
  <2>5. /\ VecCells(r, dim) \in Seq(Cell) /\ Len(VecCells(r, dim)) = dim
        /\ data \in Seq(Seq(Cell)) /\ Len(data) = Len(Schemas)
        /\ own \in Seq(Seq(Cell)) /\ Len(own) = Len(Schemas)
    BY RecordTypes
  <2>6. data[c] = WriteDatum(r, c, n)
    BY RecordTypes
  <2>7. /\ RecordCells(r, dim, payload) = VecCells(r, dim) \o FlattenSeq(data)
        /\ FlattenSeq(data) \in Seq(Cell)
    BY RecordTypes
  <2> HIDE DEF n, value, data, own
  <2> QED BY <2>1, <2>3, <2>4, <2>5, <2>6, <2>7
<1>2. /\ before \in Seq(Cell) /\ data[c] \in Seq(Cell)
      /\ FlattenSeq(SubSeq(data, 1, c)) = before \o data[c]
      /\ LiesAt(FlattenSeq(data), Len(before), data[c])
  <2> HIDE DEF data
  <2> QED BY <1>1, FlattenPart, FlattenPartLies
<1>3. /\ at \in Nat /\ Len(before) \in Nat /\ at = dim + Len(before)
      /\ ColumnEnd(r, dim, payload, c) = at + Len(data[c])
  <2> HIDE DEF before
  <2>1. Len(before) \in Nat /\ Len(before \o data[c]) = Len(before) + Len(data[c])
        /\ Len(data[c]) \in Nat
    BY <1>2, ConcatElements
  <2>2. at = dim + Len(before)
    BY DEF ColumnEnd, before
  <2>3. ColumnEnd(r, dim, payload, c) = dim + Len(FlattenSeq(SubSeq(data, 1, c)))
    BY DEF ColumnEnd
  <2> HIDE DEF at, data
  <2>4. Len(FlattenSeq(SubSeq(data, 1, c))) = Len(before) + Len(data[c])
    BY <1>2, <2>1
  <2> DEFINE b == Len(before)
  <2>5. at \in Nat
    <3>1. b \in Nat /\ at = dim + b
      BY <2>1, <2>2
    <3> HIDE DEF b
    <3> QED BY <3>1
  <2>6. ColumnEnd(r, dim, payload, c) = at + Len(data[c])
    <3> DEFINE d == Len(data[c])
    <3>1. b \in Nat /\ d \in Nat /\ at = dim + b /\ ColumnEnd(r, dim, payload, c) = dim + (b + d)
      BY <2>1, <2>2, <2>3, <2>4
    <3> HIDE DEF b, d
    <3>2. ColumnEnd(r, dim, payload, c) = at + d
      BY <3>1
    <3> QED BY <3>2 DEF d
  <2> QED BY <2>1, <2>2, <2>5, <2>6
<1>4. LiesAt(buf, at, data[c])
  <2> HIDE DEF at, data, before
  <2>1. LiesAt(buf, 0, VecCells(r, dim) \o FlattenSeq(data))
    BY <1>1
  <2>2. LiesAt(buf, 0 + dim, FlattenSeq(data))
    BY <1>1, <2>1, LiesAtParts
  <2>3. LiesAt(buf, dim, FlattenSeq(data))
    BY <2>2
  <2>4. LiesAt(buf, dim + Len(before), data[c])
    BY <1>1, <1>2, <1>3, <2>3, LiesAtWithin
  <2> QED BY <1>3, <2>4
<1>5. SubSeq(own, 1, c) = Append(cols, value)
  <2>1. c \in 1..Len(own) /\ 1 \in 1..Len(own) /\ c \in 1..Len(own)
    BY <1>1
  <2>2. own[c] = value
    BY DataAssumption DEF Values
  <2> HIDE DEF own, value
  <2>3. SubSeq(own, 1, c) = SubSeq(own, 1, c - 1) \o <<own[c]>>
    BY <1>1, <2>1, SubSeqRecursiveSecond
  <2>4. cols \in Seq(Seq(Cell))
    <3>1. \A i \in 1..(c - 1) : own[i] \in Seq(Cell)
      BY <1>1, ElementOfSeq
    <3> QED BY <3>1, SubSeqProperties
  <2> HIDE DEF cols
  <2>5. Append(cols, value) = cols \o <<value>>
    BY <1>1, <2>4, AppendIsConcat
  <2> QED BY <2>2, <2>3, <2>5 DEF cols
<1> DEFINE p == ParsedOwn(r, dim, payload, c - 1)
<1>6. p.ok /\ p.at = at /\ p.columns = cols
  BY DEF ParsedOwn
<1>7. ParsedOwn(r, dim, payload, c)
        = [ok |-> TRUE, at |-> at + Len(data[c]), columns |-> Append(cols, value)]
  BY <1>3, <1>5 DEF ParsedOwn
<1> HIDE DEF p, at, cols, data, own, before, value
<1>8. CASE ~IsVariable(Schemas[c])
  <2>1. n = Schemas[c] /\ data[c] = value
    <3>1. c \in DOMAIN Schemas
      BY DataAssumption
    <3>2. n = Schemas[c]
      BY <1>8, <3>1, DataAssumption
    <3> QED BY <1>1, <1>8, <3>2 DEF WriteDatum, value
  <2>2. TakeColumn(buf, at, Schemas[c], cols)
          = [ok |-> TRUE, at |-> at + Len(data[c]), columns |-> Append(cols, value)]
    <3>1. LiesAt(buf, at, value) /\ Len(value) = Schemas[c] /\ value \in Seq(Cell) /\ at \in Nat
      BY <1>1, <1>3, <1>4, <2>1
    <3>2. TakeColumn(buf, at, Len(value), cols)
            = [ok |-> TRUE, at |-> at + Len(value), columns |-> Append(cols, value)]
      BY <3>1, TakesColumn
    <3> QED BY <2>1, <3>1, <3>2
  <2>3. ParseColumn(buf, Schemas[c], p) = {TakeColumn(buf, at, Schemas[c], cols)}
    BY <1>6, <1>8 DEF ParseColumn
  <2> QED BY <1>7, <2>2, <2>3 DEF p
<1>9. CASE IsVariable(Schemas[c])
  <2>1. data[c] = <<LenCell(n)>> \o value
    BY <1>1, <1>9 DEF WriteDatum, value
  <2>2. LiesAt(buf, at, <<LenCell(n)>>) /\ LiesAt(buf, at + 1, value)
    <3>1. LiesAt(buf, at + Len(<<LenCell(n)>>), value) /\ LiesAt(buf, at, <<LenCell(n)>>)
      BY <1>1, <1>3, <1>4, <2>1, LiesAtParts, ZenonT(40)
    <3> QED BY <3>1
  <2>3. /\ buf[at + 1] = LenCell(n) /\ ~(at + 1 > Len(buf))
    <3>1. Len(buf) \in Nat
      BY LenProperties
    <3> HIDE DEF LenCell
    <3>2. at + 1 <= Len(buf)
      BY <2>2 DEF LiesAt
    <3>3. <<LenCell(n)>>[1] = LenCell(n) /\ 1 \in 1..Len(<<LenCell(n)>>)
      OBVIOUS
    <3> QED BY <1>3, <2>2, <3>1, <3>2, <3>3 DEF LiesAt
  <2>4. Lengths(buf[at + 1]) = {n}
    BY <2>3 DEF Lengths, LenCell
  <2>5. ParseColumn(buf, Schemas[c], p) = {TakeVariable(buf, at + 1, n, cols)}
    <3>1. ParseColumn(buf, Schemas[c], p)
            = {TakeVariable(buf, at + 1, len, cols) : len \in Lengths(buf[at + 1])}
      BY <1>6, <1>9, <2>3 DEF ParseColumn
    <3> QED BY <2>4, <3>1
  <2>6. TakeVariable(buf, at + 1, n, cols)
          = [ok |-> TRUE, at |-> at + 1 + n, columns |-> Append(cols, value)]
    <3>1. value \in Seq(Cell) /\ at + 1 \in Nat /\ Len(value) = n
      BY <1>1, <1>3
    <3>2. TakeVariable(buf, at + 1, Len(value), cols)
            = [ok |-> TRUE, at |-> at + 1 + Len(value), columns |-> Append(cols, value)]
      BY <2>2, <3>1, TakesVariable
    <3> QED BY <3>1, <3>2
  <2>7. at + Len(data[c]) = at + 1 + n
    <3>1. value \in Seq(Cell) /\ <<LenCell(n)>> \in Seq(Cell) /\ Len(value) = n /\ n \in Nat
          /\ at \in Nat
      BY <1>1, <1>3
    <3>2. Len(data[c]) = Len(<<LenCell(n)>>) + Len(value)
      BY <2>1, <3>1, ConcatElements
    <3>3. Len(<<LenCell(n)>>) = 1
      OBVIOUS
    <3>4. Len(data[c]) = 1 + n
      BY <3>1, <3>2, <3>3
    <3> HIDE DEF n, data
    <3>5. n \in Nat /\ at \in Nat
      BY <3>1
    <3> QED BY <3>4, <3>5
  <2> QED BY <1>7, <2>5, <2>6, <2>7 DEF p
<1> QED BY <1>8, <1>9

Parsing(buf, from, schemas) ==
  CHOOSE parsed : parsed =
    [c \in 0..Len(schemas) |->
       IF c = 0 THEN {[ok |-> TRUE, at |-> from, columns |-> << >>]}
       ELSE UNION {ParseColumn(buf, schemas[c], p) : p \in parsed[c - 1]}]

ParsesTo(buf, from, columns) ==
  \E at : ParsePayload(buf, from, Schemas) = {[ok |-> TRUE, at |-> at, columns |-> columns]}

(* The parser has one outcome on a buffer that starts with a record: its    *)
(* columns.                                                                 *)
LEMMA ParsesRecord ==
  ASSUME NEW r \in Nat, NEW dim \in Nat, NEW payload \in Payloads, NEW buf \in Seq(Cell),
         LiesAt(buf, 0, RecordCells(r, dim, payload))
  PROVE  ParsesTo(buf, dim, Values(r, payload))
<1> DEFINE n == Len(Schemas)
           first == {[ok |-> TRUE, at |-> dim, columns |-> << >>]}
           Rest(f, c) == UNION {ParseColumn(buf, Schemas[c], p) : p \in f[c - 1]}
           Eq(f) == f = [c \in 0..n |-> IF c = 0 THEN first ELSE Rest(f, c)]
           P(c) == ParsedOwn(r, dim, payload, c)
           g == [c \in 0..n |-> {P(c)}]
           f == Parsing(buf, dim, Schemas)
<1>0. n \in Nat
  BY DataAssumption, LenProperties
<1>1. ParsePayload(buf, dim, Schemas) = f[n]
  BY Zenon DEF ParsePayload, Parsing
<1>2. {P(0)} = first
  <2>1. SubSeq(Data(r, payload), 1, 0) = << >> /\ SubSeq(Values(r, payload), 1, 0) = << >>
    BY SubSeqEmpty
  <2>2. FlattenSeq(SubSeq(Data(r, payload), 1, 0)) = << >>
    BY <2>1, FlattenNone
  <2>3. ColumnEnd(r, dim, payload, 0) = dim
    BY <2>2 DEF ColumnEnd
  <2> QED BY <2>1, <2>3 DEF ParsedOwn
<1>3. ASSUME NEW c \in 1..n, NEW h, h[c - 1] = {P(c - 1)}
      PROVE  Rest(h, c) = {P(c)}
  <2>0. c \in 1..Len(Schemas)
    BY <1>3
  <2>1. ParseColumn(buf, Schemas[c], P(c - 1)) = {P(c)}
    <3>1. \A k \in 1..Len(Schemas) :
            ParseColumn(buf, Schemas[k], ParsedOwn(r, dim, payload, k - 1))
              = {ParsedOwn(r, dim, payload, k)}
      BY ParsesColumn, ZenonT(40)
    <3> QED BY <2>0, <3>1
  <2> HIDE DEF P
  <2>2. Rest(h, c) = UNION {ParseColumn(buf, Schemas[c], P(c - 1))}
    BY <1>3
  <2> QED BY <2>1, <2>2
<1> HIDE DEF P, first
<1>4. \E h : Eq(h)
  <2>1. \A c \in 0..n : g[c] = IF c = 0 THEN first ELSE Rest(g, c)
    <3> TAKE c \in 0..n
    <3>1. CASE c = 0
      BY <1>0, <1>2, <3>1
    <3>2. CASE c # 0
      <4>1. c \in 1..n /\ g[c - 1] = {P(c - 1)}
        BY <1>0, <3>2
      <4>2. Rest(g, c) = {P(c)}
        <5> HIDE DEF g, Rest
        <5> QED BY <1>3, <4>1
      <4> QED BY <3>2, <4>2
    <3> QED BY <3>1, <3>2
  <2>2. g = [c \in 0..n |-> g[c]]
    OBVIOUS
  <2> HIDE DEF g, Rest
  <2>3. Eq(g)
    BY <2>1, <2>2
  <2> QED BY <2>3
<1>5. Eq(f)
  BY <1>4, Zenon DEF Parsing, first
<1>6. \A c \in 0..n : f[c] = IF c = 0 THEN first ELSE Rest(f, c)
  <2> HIDE DEF f, Rest
  <2> QED BY <1>5
<1> HIDE DEF f, Rest
<1> DEFINE T == {c \in Nat : c <= n => f[c] = {P(c)}}
<1>7. 0 \in T
  BY <1>0, <1>2, <1>6
<1>8. ASSUME NEW c \in Nat, c \in T PROVE c + 1 \in T
  <2> SUFFICES ASSUME c + 1 <= n PROVE f[c + 1] = {P(c + 1)}
    OBVIOUS
  <2>1. c + 1 \in 1..n /\ c + 1 \in 0..n /\ c + 1 # 0 /\ (c + 1) - 1 = c /\ c <= n
    BY <1>0
  <2>2. f[(c + 1) - 1] = {P((c + 1) - 1)}
    BY <1>8, <2>1
  <2>3. Rest(f, c + 1) = {P(c + 1)}
    BY <1>3, <2>1, <2>2
  <2> QED BY <1>6, <2>1, <2>3
<1> HIDE DEF T
<1>9. \A c \in Nat : c \in T
  BY <1>7, <1>8, SubsetInduction
<1>10. f[n] = {P(n)}
  BY <1>0, <1>9 DEF T
<1>11. SubSeq(Values(r, payload), 1, n) = Values(r, payload)
  BY RecordTypes, SubSeqFull
<1> QED BY <1>1, <1>10, <1>11 DEF P, ParsedOwn, ParsesTo

(* An address at which a record lies reads as that record or as an error.   *)
LEMMA ReadsRecord ==
  ASSUME NEW r \in Nat, NEW dim \in Nat, NEW payload \in Payloads,
         stream \in Seq(Cell), persisted \in 0..Len(stream), NEW addr \in Address,
         LiesAt(stream, addr.offset, RecordCells(r, dim, payload)),
         Len(RecordCells(r, dim, payload)) <= addr.size
  PROVE  /\ ReadRecord(addr, dim, Schemas) =
              IF InFile(addr.offset, addr.size)
              THEN {[ok |-> TRUE, vec |-> VecCells(r, dim), columns |-> Values(r, payload)]}
              ELSE {ReadError}
         /\ ReadVector(addr, dim) =
              IF InFile(addr.offset, dim) THEN [ok |-> TRUE, vec |-> VecCells(r, dim)]
              ELSE ReadError
<1> DEFINE off == addr.offset
           size == addr.size
           cells == RecordCells(r, dim, payload)
           data == FlattenSeq(Data(r, payload))
           vec == VecCells(r, dim)
           buf == ReadRaw(off, size)
<1>1. /\ off \in Nat /\ size \in Nat /\ Len(stream) \in Nat /\ persisted \in Nat
      /\ persisted <= Len(stream)
  BY LenProperties DEF Address
<1>2. /\ vec \in Seq(Cell) /\ Len(vec) = dim /\ data \in Seq(Cell) /\ cells \in Seq(Cell)
      /\ cells = vec \o data
  BY RecordTypes
<1>3. Len(cells) \in Nat /\ dim <= Len(cells) /\ Len(cells) <= size
  <2> HIDE DEF vec, data, cells, size
  <2>1. Len(cells) = Len(vec) + Len(data) /\ Len(data) \in Nat
    BY <1>2, ConcatElements
  <2> QED BY <1>2, <2>1 DEF cells, size
<1>4. SubSeq(stream, off + 1, off + dim) = vec
  <2>1. LiesAt(stream, off, vec)
    <3>1. LiesAt(stream, off, vec \o data)
      BY <1>2
    <3> HIDE DEF vec, data, off
    <3> QED BY <1>1, <1>2, <3>1, LiesAtParts
  <2> HIDE DEF vec, off
  <2>2. SubSeq(stream, off + 1, off + Len(vec)) = vec
    BY <1>1, <1>2, <2>1, LiesAtRead
  <2> QED BY <1>2, <2>2
<1>5. ReadVector(addr, dim) = IF InFile(off, dim) THEN [ok |-> TRUE, vec |-> vec] ELSE ReadError
  <2>1. ~(size < dim)
    <3> HIDE DEF cells, size
    <3> QED BY <1>1, <1>3
  <2> HIDE DEF vec
  <2> QED BY <1>4, <2>1 DEF ReadVector, ReadRaw
<1>6. CASE ~InFile(off, size)
  BY <1>5, <1>6 DEF ReadRecord
<1>7. CASE InFile(off, size)
  <2>1. off + size <= Len(stream)
    BY <1>1, <1>7 DEF InFile
  <2>2. /\ buf \in Seq(Cell) /\ Len(buf) = size
        /\ \A j \in 1..size : buf[j] = stream[off + j]
    <3> HIDE DEF off, size
    <3>1. \A i \in (off + 1)..(off + size) : stream[i] \in Cell
      <4>1. \A i \in (off + 1)..(off + size) : i \in 1..Len(stream)
        BY <1>1, <2>1
      <4> QED BY <4>1, ElementOfSeq
    <3>2. /\ buf \in Seq(Cell)
          /\ Len(buf) = IF off + 1 <= off + size THEN (off + size) - (off + 1) + 1 ELSE 0
          /\ \A i \in 1..((off + size) - (off + 1) + 1) : buf[i] = stream[(off + 1) + i - 1]
      <4> DEFINE m == off + 1
                 k == off + size
      <4>1. m \in Int /\ k \in Int /\ \A i \in m..k : stream[i] \in Cell
        BY <1>1, <3>1
      <4>2. buf = SubSeq(stream, m, k)
        BY DEF ReadRaw
      <4> HIDE DEF m, k, buf
      <4>3. /\ buf \in Seq(Cell) /\ Len(buf) = IF m <= k THEN k - m + 1 ELSE 0
            /\ \A i \in 1..(k - m + 1) : buf[i] = stream[m + i - 1]
        BY <4>1, <4>2, SubSeqProperties
      <4> QED BY <4>3 DEF m, k
    <3>3. (off + size) - (off + 1) + 1 = size
      BY <1>1
    <3> HIDE DEF buf
    <3>4. Len(buf) = size
      BY <1>1, <3>2, <3>3
    <3>5. ASSUME NEW j \in 1..size PROVE buf[j] = stream[off + j]
      <4>1. (off + 1) + j - 1 = off + j
        BY <1>1
      <4> QED BY <3>2, <3>3, <4>1
    <3> QED BY <3>2, <3>4, <3>5
  <2>3. LiesAt(buf, 0, cells)
    <3>1. \A j \in 1..Len(cells) : stream[off + j] = cells[j]
      BY DEF LiesAt
    <3> HIDE DEF buf, cells, off, size
    <3>2. \A j \in 1..Len(cells) : j \in 1..size /\ 0 + j = j
      BY <1>1, <1>3
    <3>3. 0 + Len(cells) <= Len(buf)
      BY <1>3, <2>2
    <3>4. ASSUME NEW j \in 1..Len(cells) PROVE buf[0 + j] = cells[j]
      BY <2>2, <3>1, <3>2
    <3> QED BY <3>3, <3>4, Zenon DEF LiesAt
  <2>4. PICK at : ParsePayload(buf, dim, Schemas)
                    = {[ok |-> TRUE, at |-> at, columns |-> Values(r, payload)]}
    <3>1. ParsesTo(buf, dim, Values(r, payload))
      <4> HIDE DEF buf
      <4> QED BY <2>2, <2>3, ParsesRecord
    <3> QED BY <3>1 DEF ParsesTo
  <2>5. SubSeq(buf, 1, dim) = vec
    <3>1. LiesAt(buf, 0, vec)
      <4> HIDE DEF buf, vec, data
      <4> QED BY <1>2, <2>2, <2>3, LiesAtParts
    <3> HIDE DEF buf, vec
    <3>2. SubSeq(buf, 0 + 1, 0 + Len(vec)) = vec
      BY <1>2, <2>2, <3>1, LiesAtRead
    <3> QED BY <1>2, <3>2
  <2>6. ~(size < dim)
    <3> HIDE DEF cells, size
    <3> QED BY <1>1, <1>3
  <2> DEFINE q == [ok |-> TRUE, at |-> at, columns |-> Values(r, payload)]
             Outcome(p) == IF p.ok THEN [ok |-> TRUE, vec |-> SubSeq(buf, 1, dim),
                                         columns |-> p.columns]
                           ELSE ReadError
  <2>7. ReadRecord(addr, dim, Schemas) = {Outcome(p) : p \in ParsePayload(buf, dim, Schemas)}
    BY <1>7, <2>6 DEF ReadRecord
  <2>8. Outcome(q) = [ok |-> TRUE, vec |-> vec, columns |-> Values(r, payload)]
    <3> HIDE DEF buf, vec
    <3> QED BY <2>5
  <2>9. {Outcome(p) : p \in {q}} = {Outcome(q)}
    <3> HIDE DEF Outcome, q
    <3> QED OBVIOUS
  <2> HIDE DEF Outcome
  <2>10. ReadRecord(addr, dim, Schemas) = {Outcome(q)}
    BY <2>4, <2>7, <2>9
  <2> QED BY <1>5, <1>7, <2>8, <2>10
<1> QED BY <1>6, <1>7
-----------------------------------------------------------------------------
(* What was appended stays, at the address that was returned for it. *)
RecordStored(r) ==
  LET cells == RecordCells(r, raw_dim, written[r])
  IN  /\ LiesAt(stream, issued[r].offset, cells)
      /\ Len(cells) <= issued[r].size
      /\ issued[r].offset + issued[r].size <= Len(stream)

RecordsInv ==
  /\ DataInv
  /\ raw_dim \in Nat
  /\ stream \in Seq(Cell) /\ persisted \in 0..Len(stream)
  /\ written \in Seq(Payloads) /\ Len(written) = Len(issued)
  /\ \A r \in 1..Len(issued) : RecordStored(r)
  /\ dat_writer = "open" => current_offset = Len(stream)

LEMMA RecordsInit == DatInit => RecordsInv
  BY DataInit DEF DatInit, RecordsInv

LEMMA RecordsStep == RecordsInv /\ [DatNext]_datVars => RecordsInv'
<1> SUFFICES ASSUME RecordsInv, [DatNext]_datVars PROVE RecordsInv'
  OBVIOUS
<1>0. DataInv' /\ DataInv /\ RawDims \subseteq Nat /\ Len(stream) \in Nat
      /\ issued \in Seq(Address) /\ Len(issued) \in Nat
  BY DataStep, DataAssumption, LenProperties DEF RecordsInv, DataInv
<1>1. ASSUME NEW dim \in RawDims, DatOpen(dim) PROVE RecordsInv'
  BY <1>0, <1>1 DEF RecordsInv, DatOpen
<1>2. ASSUME NEW payload \in Payloads, WriteRecord(payload) PROVE RecordsInv'
  <2> DEFINE n == Len(issued)
             cells == RecordCells(n + 1, raw_dim, payload)
             pad == PadCells(Len(cells))
             zeros == [i \in 1..pad |-> ZeroCell]
             size == Len(cells) + pad
             end == Len(stream)
  <2>1. /\ cells \in Seq(Cell) /\ Len(cells) \in Nat
        /\ size \in Nat /\ size < Word
    <3>1. raw_dim \in Nat /\ raw_dim \in RawDims /\ n + 1 \in Nat /\ n + 1 \in 1..MaxRecords
      BY <1>0, <1>2 DEF RecordsInv, DataInv, WriteRecord
    <3>2. cells \in Seq(Cell)
      BY <3>1, RecordTypes
    <3>3. Len(cells) \in Nat
      <4> HIDE DEF cells
      <4> QED BY <3>2, LenProperties
    <3>4. size < Word
      BY <3>1, RecordSizeAssumption
    <3>5. size \in Nat
      <4> HIDE DEF cells
      <4> QED BY <3>3, PaddedIsAligned
    <3> QED BY <3>2, <3>3, <3>4, <3>5
  <2>2. /\ pad \in Nat /\ Len(cells) <= size
    <3> HIDE DEF cells
    <3>1. DataPage \in Nat \ {0}
      BY DataAssumption
    <3>2. CASE DataPage = 1
      BY <2>1, <3>2 DEF PadCells
    <3>3. CASE DataPage > 1
      <4>1. CeilDiv(Len(cells), DataPage) * DataPage >= Len(cells)
            /\ CeilDiv(Len(cells), DataPage) \in Nat
        BY <2>1, <3>1, CeilDivCovers
      <4> DEFINE m == CeilDiv(Len(cells), DataPage)
      <4> HIDE DEF m
      <4>2. m * DataPage \in Nat /\ m * DataPage >= Len(cells)
        BY <3>1, <4>1 DEF m
      <4>3. pad = m * DataPage - Len(cells)
        BY <3>3 DEF PadCells, m
      <4> HIDE DEF pad
      <4> QED BY <2>1, <4>2, <4>3
    <3> QED BY <3>1, <3>2, <3>3
  <2>3. zeros \in Seq(Cell) /\ Len(zeros) = pad
    <3>1. zeros \in [1..pad -> Cell]
      BY DEF ZeroCell, Cell
    <3> HIDE DEF pad
    <3> QED BY <2>2, <3>1
  <2>4. U32(size) = size
    <3> HIDE DEF size
    <3> QED BY <2>1, U32Small
  <2>5. /\ stream' = (stream \o cells) \o zeros
        /\ current_offset' = current_offset + size
        /\ issued' = Append(issued, [offset |-> current_offset, size |-> size])
        /\ written' = Append(written, payload)
        /\ dat_writer = "open" /\ dat_writer' = "open"
        /\ raw_dim' = raw_dim /\ persisted' = persisted
        /\ current_offset = end
    <3>1. dat_writer = "open"
      BY <1>2 DEF WriteRecord
    <3> QED BY <1>2, <2>4, <3>1 DEF WriteRecord, RecordsInv
  <2> HIDE DEF cells, zeros, pad
  <2>6. /\ stream \in Seq(Cell) /\ stream \o cells \in Seq(Cell) /\ stream' \in Seq(Cell)
        /\ Len(stream') = end + size
    <3>1. stream \in Seq(Cell)
      BY DEF RecordsInv
    <3>2. stream \o cells \in Seq(Cell) /\ Len(stream \o cells) = Len(stream) + Len(cells)
      BY <2>1, <3>1, ConcatElements
    <3>3. stream' \in Seq(Cell) /\ Len(stream') = Len(stream \o cells) + Len(zeros)
      BY <2>3, <2>5, <3>2, ConcatElements
    <3> DEFINE a == Len(stream)
               b == Len(cells)
    <3>4. a \in Nat /\ b \in Nat /\ Len(stream') = (a + b) + pad
      BY <1>0, <2>1, <2>3, <3>2, <3>3
    <3>5. size = b + pad /\ end = a
      OBVIOUS
    <3> HIDE DEF a, b, size, end
    <3> QED BY <2>2, <3>1, <3>2, <3>3, <3>4, <3>5
  <2>7. ASSUME NEW at \in Nat, NEW s \in Seq(Cell), LiesAt(stream, at, s)
        PROVE  LiesAt(stream', at, s)
    <3>1. LiesAt(stream \o cells, at, s)
      BY <2>1, <2>6, <2>7, LiesAtGrows
    <3> QED BY <2>3, <2>5, <2>6, <3>1, LiesAtGrows
  <2>8. LiesAt(stream', end, cells)
    <3>1. LiesAt(stream \o cells, end, cells)
      BY <2>1, <2>6, LiesAtEnd
    <3> QED BY <1>0, <2>1, <2>3, <2>5, <2>6, <3>1, LiesAtGrows
  <2> DEFINE e == [offset |-> end, size |-> size]
  <2>9. e \in Address /\ e.offset = end /\ e.size = size
    BY <1>0, <2>1 DEF Address
  <2> HIDE DEF e
  <2>10. /\ Len(issued') = n + 1 /\ issued'[n + 1] = e
         /\ \A r \in 1..n : issued'[r] = issued[r]
    BY <1>0, <2>5, <2>9 DEF e
  <2>11. /\ written' \in Seq(Payloads) /\ Len(written') = n + 1 /\ written'[n + 1] = payload
         /\ \A r \in 1..n : written'[r] = written[r]
    <3>1. written \in Seq(Payloads) /\ Len(written) = n
      BY DEF RecordsInv
    <3> HIDE DEF n
    <3> QED BY <2>5, <3>1
  <2>12. ASSUME NEW r \in 1..(n + 1) PROVE RecordStored(r)'
    <3>1. CASE r = n + 1
      <4>1. RecordCells(r, raw_dim', written'[r]) = cells
        BY <2>5, <2>11, <3>1 DEF cells
      <4>2. issued'[r].offset = end /\ issued'[r].size = size
        BY <2>9, <2>10, <3>1
      <4> HIDE DEF end, size
      <4>3. end + size <= Len(stream')
        BY <1>0, <2>1, <2>6 DEF end
      <4> QED BY <2>2, <2>8, <4>1, <4>2, <4>3 DEF RecordStored
    <3>2. CASE r # n + 1
      <4> DEFINE own == RecordCells(r, raw_dim, written[r])
      <4>1. r \in 1..n /\ r \in Nat
        BY <1>0, <3>2
      <4>2. RecordStored(r) /\ issued[r] \in Address
        BY <1>0, <4>1, ElementOfSeq DEF RecordsInv
      <4>3. /\ RecordCells(r, raw_dim', written'[r]) = own /\ issued'[r] = issued[r]
        BY <2>5, <2>10, <2>11, <4>1
      <4>4. own \in Seq(Cell)
        <5>1. written[r] \in Payloads
          BY <4>1, ElementOfSeq DEF RecordsInv
        <5> QED BY <4>1, <5>1, RecordTypes DEF RecordsInv
      <4> HIDE DEF own
      <4>5. /\ LiesAt(stream, issued[r].offset, own) /\ Len(own) <= issued[r].size
            /\ issued[r].offset + issued[r].size <= end
        BY <4>2 DEF RecordStored, own
      <4>6. issued[r].offset \in Nat /\ issued[r].size \in Nat
        BY <4>2 DEF Address
      <4>7. LiesAt(stream', issued[r].offset, own)
        BY <2>7, <4>4, <4>5, <4>6
      <4>8. issued[r].offset + issued[r].size <= Len(stream')
        <5> HIDE DEF end, size
        <5> QED BY <1>0, <2>1, <2>6, <4>5, <4>6 DEF end
      <4> QED BY <4>3, <4>5, <4>7, <4>8 DEF RecordStored
    <3> QED BY <3>1, <3>2
  <2>13. persisted' \in 0..Len(stream') /\ current_offset' = Len(stream')
    <3>1. persisted \in 0..Len(stream)
      BY DEF RecordsInv
    <3> HIDE DEF size
    <3> QED BY <1>0, <2>1, <2>5, <2>6, <3>1
  <2> QED BY <1>0, <2>5, <2>6, <2>10, <2>11, <2>12, <2>13 DEF RecordsInv
<1>3. ASSUME NEW payload \in Payloads, WriteRecordFails(payload) PROVE RecordsInv'
  <2> DEFINE cells == RecordCells(Len(issued) + 1, raw_dim, payload)
  <2>1. PICK k \in 0..Len(cells) : stream' = stream \o SubSeq(cells, 1, k)
    BY <1>3 DEF WriteRecordFails
  <2>2. /\ dat_writer' = "failed" /\ UNCHANGED <<raw_dim, issued, written>>
        /\ persisted' \in persisted..Len(stream')
    BY <1>3 DEF WriteRecordFails
  <2>3. cells \in Seq(Cell)
    <3>1. raw_dim \in Nat /\ Len(issued) + 1 \in Nat
      BY <1>0 DEF RecordsInv
    <3> QED BY <3>1, RecordTypes
  <2> DEFINE part == SubSeq(cells, 1, k)
  <2>4. part \in Seq(Cell)
    <3> HIDE DEF cells
    <3>1. Len(cells) \in Nat /\ \A i \in 1..k : cells[i] \in Cell
      BY <2>3, ElementOfSeq, LenProperties
    <3> QED BY <3>1, SubSeqProperties
  <2> HIDE DEF part
  <2>5. /\ stream \in Seq(Cell) /\ stream' = stream \o part /\ stream' \in Seq(Cell)
        /\ Len(stream') \in Nat /\ Len(stream) <= Len(stream')
    <3>1. stream \in Seq(Cell) /\ stream' = stream \o part
      BY <2>1 DEF RecordsInv, part
    <3>2. stream' \in Seq(Cell) /\ Len(stream') = Len(stream) + Len(part) /\ Len(part) \in Nat
      BY <2>4, <3>1, ConcatElements
    <3> QED BY <1>0, <3>1, <3>2
  <2>6. ASSUME NEW r \in 1..Len(issued) PROVE RecordStored(r)'
    <3> DEFINE own == RecordCells(r, raw_dim, written[r])
    <3>1. own \in Seq(Cell)
      <4>0. written \in Seq(Payloads) /\ r \in 1..Len(written)
        BY DEF RecordsInv
      <4>1. written[r] \in Payloads
        BY <4>0, ElementOfSeq
      <4>2. r \in Nat /\ raw_dim \in Nat
        BY DEF RecordsInv
      <4> QED BY <4>1, <4>2, RecordTypes
    <3>2. issued[r] \in Address
      BY <1>0, ElementOfSeq
    <3>3. issued[r].offset \in Nat /\ issued[r].size \in Nat
      BY <3>2 DEF Address
    <3> HIDE DEF own
    <3>4. /\ LiesAt(stream, issued[r].offset, own) /\ Len(own) <= issued[r].size
          /\ issued[r].offset + issued[r].size <= Len(stream)
      BY DEF RecordsInv, RecordStored, own
    <3>5. LiesAt(stream', issued[r].offset, own)
      BY <2>4, <2>5, <3>1, <3>3, <3>4, LiesAtGrows
    <3>6. issued[r].offset + issued[r].size <= Len(stream')
      BY <1>0, <2>5, <3>3, <3>4
    <3> QED BY <2>2, <3>4, <3>5, <3>6 DEF RecordStored, own
  <2>7. persisted' \in 0..Len(stream')
    <3>1. persisted \in 0..Len(stream)
      BY DEF RecordsInv
    <3> QED BY <1>0, <2>2, <2>5, <3>1
  <2> QED BY <1>0, <2>2, <2>5, <2>6, <2>7 DEF RecordsInv
<1>4. CASE DatFinalize \/ DatAbandon
  <2>1. /\ dat_writer' # "open" /\ UNCHANGED <<stream, raw_dim, issued, written>>
        /\ persisted' \in persisted..Len(stream)
    BY <1>4 DEF DatFinalize, DatAbandon
  <2>2. persisted \in 0..Len(stream)
    BY DEF RecordsInv
  <2>3. \A r \in 1..Len(issued) : RecordStored(r)'
    BY <2>1 DEF RecordsInv, RecordStored
  <2>4. persisted' \in 0..Len(stream)
    BY <1>0, <2>1, <2>2
  <2> QED BY <1>0, <2>1, <2>3, <2>4 DEF RecordsInv
<1>5. CASE UNCHANGED datVars
  BY <1>0, <1>5 DEF datVars, RecordsInv, RecordStored
<1> QED BY <1>1, <1>2, <1>3, <1>4, <1>5 DEF DatNext

(* Every record of which an address was returned stays where that address   *)
(* says, whatever is written, refused or lost after it.                     *)
THEOREM RecordsStayStored == DatSpec => []RecordsInv
  BY RecordsInit, RecordsStep, PTL DEF DatSpec
-----------------------------------------------------------------------------
(* The data file as a build drives it. *)
(* The builder uses DataFileWriter as its specification allows. *)
ConfigInv ==
  /\ configs \in Seq([dim : RawDims, metric : Metrics])
  /\ Working => Current > 0

LEMMA ConfigInit == Init => ConfigInv
  BY DEF Init, ConfigInv, Working, NextStage

LEMMA ConfigStep == ConfigInv /\ [Next]_lifecycleVars => ConfigInv'
<1> SUFFICES ASSUME ConfigInv, [Next]_lifecycleVars PROVE ConfigInv'
  OBVIOUS
<1> USE DEF ConfigInv, Current
<1>1. ASSUME NEW dim \in RawDims, NEW metric \in Metrics, Build(dim, metric)
      PROVE  ConfigInv'
  <2>1. configs' = Append(configs, [dim |-> dim, metric |-> metric])
    BY <1>1 DEF Build
  <2> QED BY <2>1
<1>2. ASSUME NEW f \in Files, WriteFile(f) PROVE ConfigInv'
  <2>1. configs' = configs /\ Working
    BY <1>2 DEF WriteFile, Working, NextStage, Files
  <2> QED BY <2>1
<1>3. CASE OpenData
  BY <1>3 DEF OpenData, Working, NextStage
<1>4. CASE AddRecord
  <2>1. configs' = configs /\ Working
    BY <1>4 DEF AddRecord, Working, NextStage
  <2> QED BY <2>1
<1>5. CASE FinishData
  BY <1>5 DEF FinishData, Working, NextStage
<1>6. CASE WriteClusters
  <2>1. configs' = configs /\ Working
    BY <1>6 DEF WriteClusters, Working, NextStage
  <2> QED BY <2>1
<1>7. CASE Stop
  BY <1>7 DEF Stop
<1>8. ASSUME NEW failed, Open(failed) PROVE ConfigInv'
  BY <1>8 DEF Open, Working
<1>9. CASE Discard
  BY <1>9 DEF Discard, Working
<1>10. CASE UNCHANGED lifecycleVars
  BY <1>10 DEF lifecycleVars, Working
<1> QED BY <1>1, <1>2, <1>3, <1>4, <1>5, <1>6, <1>7, <1>8, <1>9, <1>10
     DEF Next, Files, WriteRotation, WriteRotatedCentroids, WriteCentroids,
         WriteSegmentMeta, WriteBuildMetadata

LEMMA DataActions == ConfigInv /\ [Next]_lifecycleVars => [DatNext]_datVars
<1> SUFFICES ASSUME ConfigInv, [Next]_lifecycleVars PROVE [DatNext]_datVars
  OBVIOUS
<1>1. CASE OpenData
  <2>1. Current \in 1..Len(configs)
    BY <1>1 DEF ConfigInv, OpenData, Working, NextStage, Current
  <2>2. configs[Current].dim \in RawDims
    <3>1. configs \in Seq([dim : RawDims, metric : Metrics])
      BY DEF ConfigInv
    <3>2. configs[Current] \in [dim : RawDims, metric : Metrics]
      BY <2>1, <3>1, ElementOfSeq
    <3> QED BY <3>2
  <2> QED BY <1>1, <2>2 DEF OpenData, DatNext
<1>2. CASE AddRecord
  BY <1>2 DEF AddRecord, DatNext
<1>3. CASE FinishData
  BY <1>3 DEF FinishData, DatNext
<1>4. CASE Stop
  BY <1>4 DEF Stop, DatNext
<1>5. ASSUME NEW f, WriteFile(f) PROVE UNCHANGED datVars
  BY <1>5 DEF WriteFile
<1>6. ASSUME NEW failed, Open(failed) PROVE UNCHANGED datVars
  BY <1>6 DEF Open
<1>7. CASE WriteClusters
  BY <1>7 DEF WriteClusters
<1>8. CASE Discard
  BY <1>8 DEF Discard
<1>9. ASSUME NEW dim \in RawDims, NEW metric \in Metrics, Build(dim, metric)
      PROVE  UNCHANGED datVars
  BY <1>9 DEF Build
<1>10. CASE UNCHANGED lifecycleVars
  BY <1>10 DEF lifecycleVars
<1> QED BY <1>1, <1>2, <1>3, <1>4, <1>5, <1>6, <1>7, <1>8, <1>9, <1>10
     DEF Next, WriteRotation, WriteRotatedCentroids, WriteCentroids,
         WriteSegmentMeta, WriteBuildMetadata

(* A build drives DataFileWriter within its contract, through failed        *)
(* records, rebuilds into the directory and crashes.                        *)
THEOREM BuildsUseDataFile == Spec => DatSpec
<1>1. Init => DatInit
  BY DEF Init
<1>2. Spec => []ConfigInv
  BY ConfigInit, ConfigStep, PTL DEF Spec
<1> QED BY <1>1, <1>2, DataActions, PTL DEF Spec, DatSpec

(* Whatever happens to the builder, the table of cluster.clu leads to the   *)
(* records written so far.                                                  *)
THEOREM BuiltTableKeepsAddresses == Spec => []TableKeepsAddresses
  BY BuildsUseDataFile, TableKeepsEveryAddress, PTL
-----------------------------------------------------------------------------
(* The directory while builds come and go.  After[f] are the stages at      *)
(* which the build that runs has written f.                                 *)
After ==
  [rotation |-> {"rotated_centroids", "centroids", "open_data", "records", "clu", "meta",
                 "sidecar", "done"},
   rotated_centroids |-> {"centroids", "open_data", "records", "clu", "meta", "sidecar",
                          "done"},
   centroids |-> {"open_data", "records", "clu", "meta", "sidecar", "done"},
   clu |-> {"meta", "sidecar", "done"},
   meta |-> {"sidecar", "done"},
   sidecar |-> {"done"}]

DataOpened == {"records", "clu", "meta", "sidecar", "done"}
DataFinished == {"clu", "meta", "sidecar", "done"}
Stages == {"idle", "stopped", "done"} \cup DOMAIN NextStage

FileInv(f) ==
  /\ dir[f].build \in 0..Current
  /\ dir[f].size \in Int
  /\ dir[f].build > 0 => dir[f].size <= FullSize(f, dir[f].build)
  /\ stage \in After[f] => dir[f].build = Current
  /\ Working /\ stage \notin After[f] => dir[f].build < Current

DirInv ==
  /\ stage \in Stages
  /\ dir = [f \in Files |-> dir[f]]
  /\ \A f \in Files : FileInv(f)
  /\ stage \in After["clu"] => dir["clu"].size = 1

DatInv ==
  /\ dat_build \in 0..Current
  /\ dat_build > 0 => raw_dim = configs[dat_build].dim
  /\ stage \in DataOpened => dat_build = Current
  /\ Working /\ stage \notin DataOpened => dat_build < Current
  /\ stage \in DataFinished => Len(issued) = MaxRecords

(* The table in a cluster.clu is that of the data.dat of the same build. *)
TableOfBuild(clu) ==
  /\ clu.build \in 0..dat_build
  /\ clu.build = dat_build /\ dat_build > 0 => clu.table = EncodeRawTableV2(issued, DataPage)

(* segment.meta is written when all that it speaks of is there. *)
MetaIsLast ==
  dir["meta"].build = Current /\ Current > 0 =>
    /\ stage \in {"sidecar", "done", "stopped"}
    /\ \A f \in {"rotation", "rotated_centroids", "centroids", "clu"} : dir[f].build = Current
    /\ dir["clu"].size = 1
    /\ dat_build = Current /\ Len(issued) = MaxRecords

IndexFields == {"ok", "open", "meta", "dim", "logical_dim", "metric", "centroids", "normalized",
                "rotation", "rotated_centroids", "schemas", "clu", "dat"}
IsIndex(i) == i = [g \in IndexFields |-> i[g]]

IndexInv ==
  /\ IsIndex(index) /\ index.open \in BOOLEAN
  /\ index.clu.build <= dir["clu"].build
  /\ index.open => dat_build > 0 /\ index.clu.build > 0
  /\ index.open /\ Current = 1 => dir["meta"].build = 1

BuildInv ==
  /\ ConfigInv
  /\ DirInv /\ DatInv /\ MetaIsLast
  /\ TableOfBuild(dir["clu"]) /\ TableOfBuild(index.clu)
  /\ IndexInv /\ OpenedIsOneBuild

LEMMA EffectiveDimType ==
  ASSUME NEW dim \in Nat
  PROVE  EffectiveDim(dim) \in Nat
<1>1. PadMultiple \in Nat \ {0}
  BY LifecycleAssumption
<1>2. CeilDiv(dim, PadMultiple) \in Nat
  BY <1>1 DEF CeilDiv
<1>3. CeilDiv(dim, PadMultiple) * PadMultiple \in Nat
  BY <1>1, <1>2
<1> QED BY <1>3 DEF EffectiveDim, RoundUpToMultiple

LEMMA ConfigFields ==
  ASSUME ConfigInv, NEW b \in 1..Current
  PROVE  configs[b].dim \in RawDims /\ configs[b].dim \in Nat /\ configs[b].metric \in Metrics
<1>1. configs \in Seq([dim : RawDims, metric : Metrics])
  BY DEF ConfigInv
<1>2. configs[b] \in [dim : RawDims, metric : Metrics]
  BY <1>1, ElementOfSeq DEF Current
<1> QED BY <1>2, DataAssumption

LEMMA FullSizeType ==
  ASSUME ConfigInv, NEW b \in 1..Current, NEW f \in Files
  PROVE  FullSize(f, b) \in Nat
  BY ConfigFields, EffectiveDimType DEF FullSize

LEMMA BuildInit == Init => BuildInv
<1> SUFFICES ASSUME Init PROVE BuildInv
  OBVIOUS
<1>1. Current = 0 /\ stage = "idle" /\ dat_build = 0 /\ ~Working /\ issued = << >>
  BY DEF Init, DatInit, Current, Working, NextStage
<1>2. dir = [f \in Files |-> Missing] /\ index = FreshIndex
  BY DEF Init
<1>3. ConfigInv
  BY ConfigInit
<1>4. DirInv
  BY <1>1, <1>2 DEF DirInv, FileInv, Stages, Missing, After, Files
<1>5. DatInv
  BY <1>1 DEF DatInv, DataOpened, DataFinished
<1>6. MetaIsLast /\ OpenedIsOneBuild
  BY <1>1 DEF MetaIsLast, OpenedIsOneBuild
<1>7. TableOfBuild(dir["clu"]) /\ TableOfBuild(index.clu)
  BY <1>1, <1>2 DEF TableOfBuild, FreshIndex, Closed, Missing, Files
<1>8. IndexInv
  BY <1>1, <1>2 DEF IndexInv, IsIndex, IndexFields, FreshIndex, Closed, Missing, Files
<1> QED BY <1>3, <1>4, <1>5, <1>6, <1>7, <1>8 DEF BuildInv

LEMMA BuildKeeps ==
  ASSUME BuildInv, NEW dim \in RawDims, NEW metric \in Metrics, Build(dim, metric)
  PROVE  BuildInv'
<1>1. /\ Current' = Current + 1 /\ Current \in Nat
      /\ \A b \in 1..Current : configs'[b] = configs[b]
  BY DEF BuildInv, ConfigInv, Build, Current
<1>2. /\ stage' = "rotation" /\ Working'
      /\ UNCHANGED <<datVars, dat_build, dir, index>>
  BY DEF Build, Working, NextStage
<1>3. ConfigInv'
  <2>1. Next
    BY DEF Next
  <2> QED BY <2>1, ConfigStep DEF BuildInv
<1>4. \A f \in Files : dir[f].build \in 0..Current /\ dir[f].size \in Int
  BY DEF BuildInv, DirInv, FileInv
<1>5. ASSUME NEW f \in Files, dir[f].build > 0
      PROVE  FullSize(f, dir[f].build)' = FullSize(f, dir[f].build)
  <2>1. dir[f].build \in 1..Current /\ dir' = dir
    BY <1>2, <1>4, <1>5
  <2> QED BY <1>1, <2>1 DEF FullSize
<1>6. DirInv'
  <2>1. \A f \in Files : "rotation" \notin After[f]
    BY DEF Files, After
  <2>2. \A f \in Files : FileInv(f)'
    BY <1>1, <1>2, <1>4, <1>5, <2>1 DEF BuildInv, DirInv, FileInv
  <2>3. dir' = [f \in Files |-> dir'[f]]
    BY <1>2 DEF BuildInv, DirInv
  <2> QED BY <1>2, <2>1, <2>2, <2>3 DEF DirInv, Stages, NextStage, Files
<1>7. DatInv'
  BY <1>1, <1>2 DEF BuildInv, DatInv, datVars, DataOpened, DataFinished
<1>8. MetaIsLast'
  <2>1. dir["meta"].build \in 0..Current
    BY <1>4 DEF Files
  <2> QED BY <1>1, <1>2, <2>1 DEF MetaIsLast
<1>9. TableOfBuild(dir["clu"])' /\ TableOfBuild(index.clu)'
  BY <1>2 DEF BuildInv, TableOfBuild, datVars
<1>10. IndexInv' /\ OpenedIsOneBuild'
  <2>1. Current' = 1 => ~index'.open
    BY <1>1, <1>2 DEF BuildInv, IndexInv, DatInv
  <2> QED BY <1>2, <2>1 DEF BuildInv, IndexInv, OpenedIsOneBuild, IsIndex
<1> QED BY <1>3, <1>6, <1>7, <1>8, <1>9, <1>10 DEF BuildInv

Written == {"rotation", "rotated_centroids", "centroids", "meta", "sidecar"}

LEMMA WriteFileKeeps ==
  ASSUME BuildInv, NEW f \in Written, WriteFile(f)
  PROVE  BuildInv'
<1>1. PICK size \in (FullSize(f, Current) - 1)..FullSize(f, Current) :
        /\ dir' = [dir EXCEPT ![f] = [build |-> Current, size |-> size, table |-> << >>]]
        /\ stage' \in {NextStage[f]}
                        \cup (IF size < FullSize(f, Current) THEN {"stopped"} ELSE {})
  BY DEF WriteFile
<1>2. /\ stage = f /\ f \in Files /\ Working
      /\ UNCHANGED <<datVars, configs, dat_build, index>>
      /\ stage' \in {NextStage[f], "stopped"}
  BY <1>1 DEF WriteFile, Written, Files, Working, NextStage
<1>3. Current' = Current /\ Current \in Nat \ {0}
  BY <1>2 DEF Current, BuildInv, ConfigInv
<1>4. /\ FullSize(f, Current) \in Nat
      /\ size \in Int /\ size <= FullSize(f, Current)
  <2>1. Current \in 1..Current
    BY <1>3
  <2>2. FullSize(f, Current) \in Nat
    BY <1>2, <2>1, FullSizeType DEF BuildInv
  <2> QED BY <2>2
<1>5. /\ dir' = [g \in Files |-> dir'[g]]
      /\ dir'[f] = [build |-> Current, size |-> size, table |-> << >>]
      /\ \A g \in Files \ {f} : dir'[g] = dir[g]
  BY <1>1, <1>2 DEF BuildInv, DirInv
<1>6. /\ \A g \in Files \ {f} : (stage' \in After[g] => stage \in After[g])
      /\ \A g \in Files \ {f} : (Working' /\ stage' \notin After[g] => stage \notin After[g])
      /\ Working' => stage' \in After[f]
      /\ stage' \in Stages
  <2>1. CASE stage' = "stopped"
    BY <2>1 DEF Files, After, Working, NextStage, Stages
  <2>2. CASE stage' = NextStage[f]
    <3>1. CASE f = "rotation"
      BY <1>2, <2>2, <3>1 DEF Files, After, Working, NextStage, Stages
    <3>2. CASE f = "rotated_centroids"
      BY <1>2, <2>2, <3>2 DEF Files, After, Working, NextStage, Stages
    <3>3. CASE f = "centroids"
      BY <1>2, <2>2, <3>3 DEF Files, After, Working, NextStage, Stages
    <3>4. CASE f = "meta"
      BY <1>2, <2>2, <3>4 DEF Files, After, Working, NextStage, Stages
    <3>5. CASE f = "sidecar"
      BY <1>2, <2>2, <3>5 DEF Files, After, Working, NextStage, Stages
    <3> QED BY <3>1, <3>2, <3>3, <3>4, <3>5 DEF Written
  <2> QED BY <1>2, <2>1, <2>2
<1>7. ConfigInv'
  <2>1. Next
    BY DEF Next, Written, WriteRotation, WriteRotatedCentroids, WriteCentroids,
           WriteSegmentMeta, WriteBuildMetadata
  <2> QED BY <2>1, ConfigStep DEF BuildInv
<1>8. DirInv'
  <2>1. ASSUME NEW g \in Files \ {f} PROVE FileInv(g)'
    <3>1. FileInv(g)
      BY DEF BuildInv, DirInv
    <3>2. FullSize(g, dir[g].build)' = FullSize(g, dir[g].build)
      BY <1>2, <1>5 DEF FullSize
    <3> QED BY <1>2, <1>3, <1>5, <1>6, <3>1, <3>2 DEF FileInv
  <2>2. FileInv(f)'
    <3>1. dir'[f].build = Current /\ dir'[f].size = size
      BY <1>5
    <3>2. FullSize(f, dir[f].build)' = FullSize(f, Current)
      BY <1>2, <3>1 DEF FullSize
    <3> QED BY <1>3, <1>4, <1>6, <3>1, <3>2 DEF FileInv
  <2>3. stage' \in After["clu"] => dir'["clu"].size = 1
    BY <1>5, <1>6 DEF BuildInv, DirInv, Files, Written
  <2> QED BY <1>5, <1>6, <2>1, <2>2, <2>3 DEF DirInv
<1>9. DatInv'
  <2>1. /\ (stage' \in DataOpened => stage \in DataOpened)
        /\ (Working' /\ stage' \notin DataOpened => stage \notin DataOpened)
        /\ (stage' \in DataFinished => stage \in DataFinished)
    BY <1>2 DEF Written, NextStage, DataOpened, DataFinished, Working
  <2> QED BY <1>2, <1>3, <2>1 DEF BuildInv, DatInv, datVars
<1>10. MetaIsLast'
  <2> SUFFICES ASSUME dir'["meta"].build = Current
               PROVE  /\ stage' \in {"sidecar", "done", "stopped"}
                      /\ \A g \in {"rotation", "rotated_centroids", "centroids", "clu"} :
                           dir'[g].build = Current
                      /\ dir'["clu"].size = 1
                      /\ dat_build = Current /\ Len(issued) = MaxRecords
    BY <1>2, <1>3 DEF MetaIsLast, datVars
  <2>1. CASE f = "meta"
    <3>1. stage' \in {"sidecar", "stopped"}
      BY <1>2, <2>1 DEF NextStage
    <3>2. \A g \in {"rotation", "rotated_centroids", "centroids", "clu"} :
            g \in Files \ {f} /\ stage \in After[g]
      BY <1>2, <2>1 DEF After, Files
    <3>3. dat_build = Current /\ Len(issued) = MaxRecords
      BY <1>2, <2>1 DEF BuildInv, DatInv, DataOpened, DataFinished
    <3> QED BY <1>5, <3>1, <3>2, <3>3 DEF BuildInv, DirInv, FileInv
  <2>2. CASE f # "meta"
    <3>1. dir["meta"].build = Current
      BY <1>5, <2>2 DEF Files
    <3>2. f = "sidecar"
      BY <1>2, <1>3, <2>2, <3>1 DEF BuildInv, MetaIsLast, Written
    <3> QED BY <1>2, <1>3, <1>5, <3>1, <3>2 DEF BuildInv, MetaIsLast, Files, NextStage
  <2> QED BY <2>1, <2>2
<1>11. TableOfBuild(dir["clu"])' /\ TableOfBuild(index.clu)'
  <2>1. dir'["clu"] = dir["clu"]
    BY <1>5 DEF Files, Written
  <2> QED BY <1>2, <2>1 DEF BuildInv, TableOfBuild, datVars
<1>12. IndexInv'
  <2>1. dir'["clu"] = dir["clu"]
    BY <1>5 DEF Files, Written
  <2>2. Current = 1 /\ dir["meta"].build = 1 => dir'["meta"].build = 1
    BY <1>5 DEF Files
  <2> QED BY <1>2, <1>3, <2>1, <2>2 DEF BuildInv, IndexInv, IsIndex
<1>13. OpenedIsOneBuild'
  <2> SUFFICES ASSUME index.open, Current = 1
               PROVE  /\ AllOf(index, 1)
                      /\ \A g \in Files \ {"sidecar"} : Whole(g)'
                      /\ Len(issued) = MaxRecords
    BY <1>2, <1>3 DEF OpenedIsOneBuild, AllOf, datVars
  <2>1. AllOf(index, 1) /\ (\A g \in Files \ {"sidecar"} : Whole(g)) /\ Len(issued) = MaxRecords
    BY DEF BuildInv, OpenedIsOneBuild
  <2>2. f = "sidecar"
    BY <1>2 DEF BuildInv, IndexInv, MetaIsLast, Written
  <2>3. ASSUME NEW g \in Files \ {"sidecar"} PROVE Whole(g)'
    <3>1. dir'[g] = dir[g] /\ Whole(g)
      BY <1>5, <2>1, <2>2
    <3> QED BY <1>2, <3>1 DEF Whole, FullSize
  <2> QED BY <2>1, <2>3
<1> QED BY <1>7, <1>8, <1>9, <1>10, <1>11, <1>12, <1>13 DEF BuildInv

(* A step that writes none of the files but perhaps data.dat. *)
LEMMA DataKeeps ==
  ASSUME BuildInv, OpenData \/ AddRecord \/ FinishData \/ Stop
  PROVE  BuildInv'
<1>1. /\ Working /\ UNCHANGED <<configs, dir, index>> /\ Current' = Current
      /\ Current \in Nat \ {0}
  <2>1. Working /\ UNCHANGED <<configs, dir, index>>
    BY DEF OpenData, AddRecord, FinishData, Stop, Working, NextStage
  <2> QED BY <2>1 DEF Current, BuildInv, ConfigInv
<1>2. \/ stage' = "stopped"
      \/ stage = "open_data" /\ stage' = "records"
      \/ stage = "records" /\ stage' = "records"
      \/ stage = "records" /\ stage' = "clu"
  BY DEF OpenData, AddRecord, FinishData, Stop, NextStage
<1>3. stage' = "stopped" \/ stage \in {"open_data", "records"}
  BY <1>2
<1>4. /\ stage' \in Stages
      /\ \A f \in Files : stage' \in After[f] => stage \in After[f]
      /\ \A f \in Files : Working' /\ stage' \notin After[f] => stage \notin After[f]
  <2>1. CASE stage' = "stopped"
    BY <2>1 DEF Stages, Files, After, Working, NextStage
  <2>2. CASE stage = "open_data" /\ stage' = "records"
    BY <2>2 DEF Stages, Files, After, NextStage
  <2>3. CASE stage = "records" /\ stage' = "records"
    BY <2>3 DEF Stages, Files, After, NextStage
  <2>4. CASE stage = "records" /\ stage' = "clu"
    BY <2>4 DEF Stages, Files, After, NextStage
  <2> QED BY <1>2, <2>1, <2>2, <2>3, <2>4
<1>5. ConfigInv'
  <2>1. Next
    BY DEF Next
  <2> QED BY <2>1, ConfigStep DEF BuildInv
<1>6. DirInv'
  <2>1. ASSUME NEW f \in Files PROVE FileInv(f)'
    <3>1. FullSize(f, dir[f].build)' = FullSize(f, dir[f].build)
      BY <1>1 DEF FullSize
    <3> QED BY <1>1, <1>4, <3>1 DEF BuildInv, DirInv, FileInv
  <2> QED BY <1>1, <1>4, <2>1 DEF BuildInv, DirInv, Files
<1>7. dir["clu"].build \in 0..Current
      /\ (stage \in {"open_data", "records"} => dir["clu"].build < Current)
  BY <1>1 DEF BuildInv, DirInv, FileInv, Files, After
<1>8. /\ DatInv'
      /\ \/ UNCHANGED <<dat_build, raw_dim, issued>>
         \/ dat_build' = Current /\ stage \in {"open_data", "records"}
  <2>1. CASE OpenData
    BY <1>1, <1>2, <2>1 DEF OpenData, DatOpen, DatInv, DataOpened, DataFinished, NextStage
  <2>2. CASE AddRecord
    BY <1>1, <1>2, <2>2 DEF BuildInv, AddRecord, WriteRecord, WriteRecordFails, DatInv,
                            DataOpened, DataFinished, Working, NextStage
  <2>3. CASE FinishData
    BY <1>1, <1>2, <2>3 DEF BuildInv, FinishData, DatFinalize, DatInv, DataOpened,
                            DataFinished, Working, NextStage
  <2>4. CASE Stop
    <3>1. stage' = "stopped" /\ UNCHANGED <<dat_build, raw_dim, issued>>
      BY <2>4 DEF Stop, DatAbandon, datVars
    <3> QED BY <1>1, <3>1 DEF BuildInv, DatInv, DataOpened, DataFinished, Working, NextStage
  <2> QED BY <2>1, <2>2, <2>3, <2>4
<1>9. dir["meta"].build = Current => stage' = "stopped" /\ UNCHANGED <<dat_build, issued>>
  <2>1. dir["meta"].build = Current => stage \in {"sidecar", "done", "stopped"}
    BY <1>1 DEF BuildInv, MetaIsLast
  <2> QED BY <1>3, <1>8, <2>1
<1>10. MetaIsLast'
  BY <1>1, <1>9 DEF BuildInv, MetaIsLast
<1>11. ASSUME NEW clu, TableOfBuild(clu), clu.build <= dir["clu"].build
       PROVE  /\ clu.build \in 0..dat_build'
              /\ clu.build = dat_build' /\ dat_build' > 0 =>
                   clu.table = EncodeRawTableV2(issued', DataPage)
  BY <1>1, <1>7, <1>8, <1>11 DEF TableOfBuild, BuildInv, DatInv
<1>12. TableOfBuild(dir["clu"])' /\ TableOfBuild(index.clu)'
  <2>1. dir["clu"].build <= dir["clu"].build /\ index.clu.build <= dir["clu"].build
    BY <1>7 DEF BuildInv, IndexInv
  <2> QED BY <1>1, <1>11, <2>1 DEF BuildInv, TableOfBuild
<1>13. IndexInv'
  BY <1>1, <1>8 DEF BuildInv, IndexInv, IsIndex
<1>14. OpenedIsOneBuild'
  <2> SUFFICES ASSUME index.open, Current = 1
               PROVE  /\ AllOf(index, 1)
                      /\ \A g \in Files \ {"sidecar"} : Whole(g)'
                      /\ Len(issued') = MaxRecords
    BY <1>1 DEF OpenedIsOneBuild, AllOf
  <2>1. issued' = issued
    BY <1>9 DEF BuildInv, IndexInv
  <2>2. \A g \in Files \ {"sidecar"} : Whole(g)' = Whole(g)
    BY <1>1 DEF Whole, FullSize
  <2> QED BY <2>1, <2>2 DEF BuildInv, OpenedIsOneBuild
<1> QED BY <1>5, <1>6, <1>8, <1>10, <1>12, <1>13, <1>14 DEF BuildInv

LEMMA WriteClustersKeeps ==
  ASSUME BuildInv, WriteClusters
  PROVE  BuildInv'
<1>1. PICK size \in 0..1 :
        /\ dir' = [dir EXCEPT !["clu"] =
                     [build |-> Current, size |-> size,
                      table |-> EncodeRawTableV2(issued, DataPage)]]
        /\ stage' = IF size = 1 THEN NextStage[stage] ELSE "stopped"
  BY DEF WriteClusters
<1>2. /\ stage = "clu" /\ Working
      /\ UNCHANGED <<datVars, configs, dat_build, index>> /\ Current' = Current
      /\ Current \in Nat \ {0} /\ dat_build = Current
  BY DEF WriteClusters, Working, NextStage, Current, BuildInv, ConfigInv, DatInv, DataOpened
<1>3. \/ stage' = "stopped"
      \/ stage' = "meta" /\ size = 1
  BY <1>1, <1>2 DEF NextStage
<1>4. /\ dir' = [g \in Files |-> dir'[g]]
      /\ dir'["clu"] = [build |-> Current, size |-> size,
                        table |-> EncodeRawTableV2(issued, DataPage)]
      /\ \A g \in Files \ {"clu"} : dir'[g] = dir[g]
  <2>1. "clu" \in Files
    BY DEF Files
  <2> QED BY <1>1, <2>1 DEF BuildInv, DirInv
<1>5. ConfigInv'
  <2>1. Next
    BY DEF Next
  <2> QED BY <2>1, ConfigStep DEF BuildInv
<1>6. DirInv'
  <2>1. /\ \A g \in Files \ {"clu"} : (stage' \in After[g] => stage \in After[g])
        /\ \A g \in Files \ {"clu"} : (Working' /\ stage' \notin After[g] => stage \notin After[g])
        /\ Working' => stage' \in After["clu"]
        /\ stage' \in Stages
    <3>1. CASE stage' = "stopped"
      BY <3>1 DEF Files, After, Working, NextStage, Stages
    <3>2. CASE stage' = "meta"
      BY <1>2, <3>2 DEF Files, After, Working, NextStage, Stages
    <3> QED BY <1>3, <3>1, <3>2
  <2>2. ASSUME NEW g \in Files \ {"clu"} PROVE FileInv(g)'
    <3>1. FullSize(g, dir[g].build)' = FullSize(g, dir[g].build)
      BY <1>2, <1>4 DEF FullSize
    <3> QED BY <1>2, <1>4, <2>1, <3>1 DEF BuildInv, DirInv, FileInv
  <2>3. FileInv("clu")'
    <3>1. dir'["clu"].build = Current /\ dir'["clu"].size = size
      BY <1>4
    <3>2. FullSize("clu", dir["clu"].build)' = 1
      BY DEF FullSize
    <3> QED BY <1>2, <2>1, <3>1, <3>2 DEF FileInv
  <2>4. stage' \in After["clu"] => dir'["clu"].size = 1
    BY <1>3, <1>4 DEF After
  <2> QED BY <1>4, <2>1, <2>2, <2>3, <2>4 DEF DirInv
<1>7. DatInv'
  BY <1>2, <1>3 DEF BuildInv, DatInv, datVars, DataOpened, DataFinished, Working, NextStage
<1>8. dir["meta"].build < Current /\ dir'["meta"] = dir["meta"] /\ dir["clu"].build < Current
  BY <1>2, <1>4 DEF BuildInv, DirInv, FileInv, Files, After
<1>9. MetaIsLast'
  BY <1>2, <1>8 DEF MetaIsLast, BuildInv, DirInv, FileInv, Files
<1>10. TableOfBuild(dir["clu"])'
  <2>1. dir'["clu"].build = Current /\ dir'["clu"].table = EncodeRawTableV2(issued, DataPage)
    BY <1>4
  <2> QED BY <1>2, <2>1 DEF TableOfBuild, datVars
<1>11. TableOfBuild(index.clu)'
  BY <1>2 DEF BuildInv, TableOfBuild, datVars
<1>12. IndexInv' /\ OpenedIsOneBuild'
  <2>1. ~(index.open /\ Current = 1)
    BY <1>8 DEF BuildInv, IndexInv
  <2>2. index.clu.build <= dir'["clu"].build
    BY <1>2, <1>4, <1>8 DEF BuildInv, IndexInv, TableOfBuild, DirInv, FileInv, Files
  <2> QED BY <1>2, <2>1, <2>2 DEF BuildInv, IndexInv, IsIndex, OpenedIsOneBuild
<1> QED BY <1>5, <1>6, <1>7, <1>9, <1>10, <1>11, <1>12 DEF BuildInv

LEMMA FieldSet ==
  ASSUME NEW i, IsIndex(i), NEW f \in IndexFields, NEW v
  PROVE  LET r == [i EXCEPT ![f] = v]
         IN  IsIndex(r) /\ r[f] = v /\ \A g \in IndexFields \ {f} : r[g] = i[g]
  BY DEF IsIndex

(* What each part of Open leaves of the object it is given. *)
LEMMA Refused ==
  ASSUME NEW i, IsIndex(i)
  PROVE  /\ IsIndex(Failed(i)) /\ Failed(i).ok = FALSE
         /\ \A g \in IndexFields \ {"ok"} : Failed(i)[g] = i[g]
<1>1. "ok" \in IndexFields
  BY DEF IndexFields
<1> QED BY <1>1, FieldSet DEF Failed

LEMMA MetaOpened ==
  ASSUME NEW i, IsIndex(i), NEW failed
  PROVE  LET r == OpenMeta(i, failed)
         IN  /\ IsIndex(r)
             /\ \A g \in IndexFields \ {"ok", "meta", "dim", "metric", "logical_dim"} :
                  r[g] = i[g]
             /\ r.ok \in {i.ok, FALSE}
             /\ CanOpen("meta", failed) /\ Whole("meta") => r.ok = i.ok
             /\ r.ok /\ i.ok =>
                  /\ Whole("meta")
                  /\ r.meta = dir["meta"].build
                  /\ r.dim = EffectiveDim(configs[dir["meta"].build].dim)
                  /\ r.metric = SidecarMetric(i, failed)
                  /\ r.logical_dim = SidecarDim(failed, r.dim)
<1> DEFINE dim == EffectiveDim(configs[dir["meta"].build].dim)
           metric == SidecarMetric(i, failed)
           logical == SidecarDim(failed, dim)
           r1 == [i EXCEPT !.meta = dir["meta"].build]
           r2 == [r1 EXCEPT !.dim = dim]
           r3 == [r2 EXCEPT !.metric = metric]
           r4 == [r3 EXCEPT !.logical_dim = logical]
<1>0. {"ok", "meta", "dim", "metric", "logical_dim"} \subseteq IndexFields
  BY DEF IndexFields
<1>1. CASE /\ OpenMeta(i, failed) = Failed(i)
           /\ ~CanOpen("meta", failed) \/ ~Whole("meta")
  BY <1>0, <1>1, Refused
<1>2. CASE Whole("meta") /\ OpenMeta(i, failed) = r4
  <2> HIDE DEF dim, metric, logical
  <2>1. IsIndex(r1) /\ r1.meta = dir["meta"].build
        /\ \A g \in IndexFields \ {"meta"} : r1[g] = i[g]
    BY <1>0, FieldSet
  <2> HIDE DEF r1
  <2>2. IsIndex(r2) /\ r2.dim = dim /\ \A g \in IndexFields \ {"dim"} : r2[g] = r1[g]
    BY <1>0, <2>1, FieldSet
  <2> HIDE DEF r2
  <2>3. IsIndex(r3) /\ r3.metric = metric /\ \A g \in IndexFields \ {"metric"} : r3[g] = r2[g]
    BY <1>0, <2>2, FieldSet
  <2> HIDE DEF r3
  <2>4. IsIndex(r4) /\ r4.logical_dim = logical
        /\ \A g \in IndexFields \ {"logical_dim"} : r4[g] = r3[g]
    BY <1>0, <2>3, FieldSet
  <2> HIDE DEF r4
  <2>5. /\ \A g \in IndexFields \ {"ok", "meta", "dim", "metric", "logical_dim"} : r4[g] = i[g]
        /\ r4["ok"] = i["ok"] /\ r4["meta"] = dir["meta"].build /\ r4["dim"] = dim
        /\ r4["metric"] = metric
    BY <1>0, <2>1, <2>2, <2>3, <2>4
  <2> QED BY <1>2, <2>4, <2>5 DEF dim, metric, logical
<1> QED BY <1>1, <1>2 DEF OpenMeta

LEMMA CentroidsOpened ==
  ASSUME NEW i, IsIndex(i), NEW failed
  PROVE  LET r == OpenCentroids(i, failed)
         IN  /\ IsIndex(r)
             /\ \A g \in IndexFields \ {"ok", "centroids", "normalized"} : r[g] = i[g]
             /\ r.ok \in {i.ok, FALSE}
             /\ CanOpen("centroids", failed) /\ ~(dir["centroids"].size < i.dim) => r.ok = i.ok
             /\ r.ok /\ i.ok =>
                  /\ dir["centroids"].build > 0 /\ ~(dir["centroids"].size < i.dim)
                  /\ r.centroids = dir["centroids"].build
                  /\ i.metric = "cosine" => r.normalized = dir["centroids"].build
<1> DEFINE b == dir["centroids"].build
           n == IF i.metric = "cosine" THEN b ELSE i.normalized
           r1 == [i EXCEPT !.centroids = b]
           r2 == [r1 EXCEPT !.normalized = n]
<1>0. {"ok", "centroids", "normalized"} \subseteq IndexFields
  BY DEF IndexFields
<1>1. CASE /\ OpenCentroids(i, failed) = Failed(i)
           /\ ~CanOpen("centroids", failed) \/ dir["centroids"].size < i.dim
  BY <1>0, <1>1, Refused
<1>2. CASE /\ b > 0 /\ ~(dir["centroids"].size < i.dim)
           /\ OpenCentroids(i, failed) = r2
  <2>0. i.metric = "cosine" => n = b
    OBVIOUS
  <2> HIDE DEF n
  <2>1. IsIndex(r1) /\ r1.centroids = b /\ \A g \in IndexFields \ {"centroids"} : r1[g] = i[g]
    BY <1>0, FieldSet
  <2> HIDE DEF r1
  <2>2. IsIndex(r2) /\ r2.normalized = n
        /\ \A g \in IndexFields \ {"normalized"} : r2[g] = r1[g]
    BY <1>0, <2>1, FieldSet
  <2> HIDE DEF r2
  <2>3. /\ \A g \in IndexFields \ {"ok", "centroids", "normalized"} : r2[g] = i[g]
        /\ r2["ok"] = i["ok"] /\ r2["centroids"] = b
    BY <1>0, <2>1, <2>2
  <2> QED BY <1>2, <2>0, <2>2, <2>3
<1> QED BY <1>1, <1>2 DEF OpenCentroids, CanOpen

LEMMA RotationOpened ==
  ASSUME NEW i, IsIndex(i), NEW failed
  PROVE  LET r == OpenRotation(i, failed)
         IN  /\ IsIndex(r)
             /\ \A g \in IndexFields \ {"ok", "rotation"} : r[g] = i[g]
             /\ r.ok \in {i.ok, FALSE}
             /\ CanOpen("rotation", failed) /\ Whole("rotation")
                  /\ EffectiveDim(configs[dir["rotation"].build].dim) = i.dim => r.ok = i.ok
             /\ r.ok /\ i.ok =>
                  /\ Whole("rotation")
                  /\ EffectiveDim(configs[dir["rotation"].build].dim) = i.dim
                  /\ r.rotation = dir["rotation"].build
<1> DEFINE b == dir["rotation"].build
           r1 == [i EXCEPT !.rotation = b]
<1>0. {"ok", "rotation"} \subseteq IndexFields
  BY DEF IndexFields
<1>1. CASE /\ OpenRotation(i, failed) = Failed(i)
           /\ ~(/\ CanOpen("rotation", failed) /\ Whole("rotation")
                /\ EffectiveDim(configs[b].dim) = i.dim)
  BY <1>0, <1>1, Refused
<1>2. CASE /\ Whole("rotation") /\ EffectiveDim(configs[b].dim) = i.dim
           /\ OpenRotation(i, failed) = r1
  <2>1. IsIndex(r1) /\ r1.rotation = b /\ \A g \in IndexFields \ {"rotation"} : r1[g] = i[g]
    BY <1>0, FieldSet
  <2> HIDE DEF r1
  <2> QED BY <1>0, <1>2, <2>1
<1> QED BY <1>1, <1>2 DEF OpenRotation

LEMMA RotatedCentroidsOpened ==
  ASSUME NEW i, IsIndex(i), NEW failed
  PROVE  LET r == OpenRotatedCentroids(i, failed)
         IN  /\ IsIndex(r)
             /\ \A g \in IndexFields \ {"ok", "rotated_centroids"} : r[g] = i[g]
             /\ r.ok \in {i.ok, FALSE}
             /\ CanOpen("rotated_centroids", failed)
                  /\ ~(dir["rotated_centroids"].size < i.dim) => r.ok = i.ok
             /\ r.ok /\ i.ok =>
                  /\ dir["rotated_centroids"].build > 0
                  /\ ~(dir["rotated_centroids"].size < i.dim)
                  /\ r.rotated_centroids = dir["rotated_centroids"].build
<1> DEFINE b == dir["rotated_centroids"].build
           r1 == [i EXCEPT !.rotated_centroids = b]
<1>0. {"ok", "rotated_centroids"} \subseteq IndexFields
  BY DEF IndexFields
<1>1. CASE /\ OpenRotatedCentroids(i, failed) = Failed(i)
           /\ ~CanOpen("rotated_centroids", failed) \/ dir["rotated_centroids"].size < i.dim
  BY <1>0, <1>1, Refused
<1>2. CASE /\ b > 0 /\ ~(dir["rotated_centroids"].size < i.dim)
           /\ OpenRotatedCentroids(i, failed) = r1
  <2>1. IsIndex(r1) /\ r1.rotated_centroids = b
        /\ \A g \in IndexFields \ {"rotated_centroids"} : r1[g] = i[g]
    BY <1>0, FieldSet
  <2> HIDE DEF r1
  <2> QED BY <1>0, <1>2, <2>1
<1> QED BY <1>1, <1>2 DEF OpenRotatedCentroids, CanOpen

LEMMA SegmentOpened ==
  ASSUME NEW i, IsIndex(i), NEW failed
  PROVE  LET r == OpenSegment(i, failed)
         IN  /\ IsIndex(r)
             /\ \A g \in IndexFields \ {"ok", "schemas", "clu", "dat", "open"} : r[g] = i[g]
             /\ r.ok \in {i.ok, FALSE}
             /\ r.clu \in {i.clu, dir["clu"]}
             /\ ~r.ok /\ i.ok => r.open = i.open
             /\ i.clu = Closed /\ CanOpen("clu", failed) /\ dir["clu"].size # 0
                  /\ dat_build # 0 /\ failed # "data" => r.ok = i.ok
             /\ r.ok /\ i.ok =>
                  /\ dir["clu"].build > 0 /\ dat_build # 0
                  /\ r.open = TRUE /\ r.clu = dir["clu"]
                  /\ r.dat = [build |-> dat_build, dim |-> i.logical_dim,
                              schemas |-> i.schemas \o Schemas]
<1> DEFINE sch == i.schemas \o Schemas
           s == [i EXCEPT !.schemas = @ \o Schemas]
           c == [s EXCEPT !.clu = dir["clu"]]
           d == [build |-> dat_build, dim |-> i.logical_dim, schemas |-> sch]
           t == [c EXCEPT !.dat = d]
           u == [t EXCEPT !.open = TRUE]
<1>0. {"ok", "schemas", "clu", "dat", "open"} \subseteq IndexFields
  BY DEF IndexFields
<1>1. s = [i EXCEPT !.schemas = sch]
  OBVIOUS
<1> HIDE DEF s, sch
<1>2. IsIndex(s) /\ s.schemas = sch /\ \A g \in IndexFields \ {"schemas"} : s[g] = i[g]
  BY <1>0, <1>1, FieldSet
<1> HIDE DEF c
<1>3. IsIndex(c) /\ c.clu = dir["clu"] /\ \A g \in IndexFields \ {"clu"} : c[g] = s[g]
  BY <1>0, <1>2, FieldSet DEF c
<1> HIDE DEF d
<1> HIDE DEF t
<1>4. IsIndex(t) /\ t.dat = d /\ \A g \in IndexFields \ {"dat"} : t[g] = c[g]
  BY <1>0, <1>3, FieldSet DEF t
<1> HIDE DEF u
<1>5. IsIndex(u) /\ u.open = TRUE /\ \A g \in IndexFields \ {"open"} : u[g] = t[g]
  BY <1>0, <1>4, FieldSet DEF u
<1>6. CASE /\ OpenSegment(i, failed) = Failed(s)
           /\ ~(i.clu = Closed /\ CanOpen("clu", failed) /\ dir["clu"].size # 0)
  <2>1. /\ IsIndex(Failed(s)) /\ Failed(s).ok = FALSE
        /\ \A g \in IndexFields \ {"ok"} : Failed(s)[g] = s[g]
    BY <1>2, Refused
  <2>2. /\ Failed(s).clu = i.clu /\ Failed(s).open = i.open
        /\ \A g \in IndexFields \ {"ok", "schemas", "clu", "dat", "open"} : Failed(s)[g] = i[g]
    BY <1>2, <2>1 DEF IndexFields
  <2> QED BY <1>6, <2>1, <2>2
<1>7. CASE /\ OpenSegment(i, failed) = Failed(c)
           /\ dat_build = 0 \/ failed = "data"
  BY <1>0, <1>2, <1>3, <1>7, Refused, ZenonT(40)
<1>8. CASE /\ dir["clu"].build > 0 /\ ~(dat_build = 0)
           /\ OpenSegment(i, failed) = u
  BY <1>0, <1>2, <1>3, <1>4, <1>5, <1>8, ZenonT(40) DEF d, sch
<1>9. d = [build |-> dat_build, dim |-> i.logical_dim, schemas |-> s.schemas]
  BY <1>2 DEF d
<1>10. s.clu = i.clu
  BY <1>2 DEF IndexFields
<1> QED BY <1>6, <1>7, <1>8, <1>9, <1>10 DEF OpenSegment, CanOpen, s, c, t, u

(* All that an Open with a fresh cluster reader needs. *)
Openable(object, failed) ==
  LET dim == EffectiveDim(configs[dir["meta"].build].dim)
  IN  /\ \A f \in Files \ {"sidecar"} : CanOpen(f, failed)
      /\ Whole("meta") /\ Whole("rotation")
      /\ \A f \in {"centroids", "rotated_centroids"} : ~(dir[f].size < dim)
      /\ EffectiveDim(configs[dir["rotation"].build].dim) = dim
      /\ object.clu = Closed /\ dir["clu"].size # 0
      /\ dat_build # 0 /\ failed # "data"

(* An Open that succeeds has seen everything it reports; one that fails     *)
(* leaves at most the cluster reader open.                                  *)
LEMMA OpenTried ==
  ASSUME NEW object, IsIndex(object), NEW failed
  PROVE  LET r == OpenResult(object, failed)
             dim == EffectiveDim(configs[dir["meta"].build].dim)
         IN  /\ IsIndex(r)
             /\ r.clu \in {object.clu, dir["clu"]}
             /\ r.ok \in BOOLEAN
             /\ ~r.ok => r.open = object.open
             /\ Openable(object, failed) => r.ok
             /\ r.ok =>
                  /\ r.dat.dim = SidecarDim(failed, dim)
                  /\ r.dat.schemas = object.schemas \o Schemas
                  /\ CanOpen("sidecar", failed) /\ Whole("sidecar")
                       => r.metric = configs[dir["sidecar"].build].metric
                  /\ Whole("meta") /\ Whole("rotation")
                  /\ \A f \in {"centroids", "rotated_centroids"} :
                       dir[f].build > 0 /\ ~(dir[f].size < dim)
                  /\ dir["clu"].build > 0 /\ dat_build # 0
                  /\ EffectiveDim(configs[dir["rotation"].build].dim) = dim
                  /\ r.open = TRUE /\ r.clu = dir["clu"] /\ r.dat.build = dat_build
                  /\ \A f \in {"meta", "rotation", "rotated_centroids", "centroids"} :
                       r[f] = dir[f].build
                  /\ r.metric = "cosine" => r.normalized = dir["centroids"].build
<1> DEFINE i0 == [object EXCEPT !.ok = TRUE]
           i1 == OpenMeta(i0, failed)
           i2 == IF i1.ok THEN OpenCentroids(i1, failed) ELSE i1
           i3 == IF i2.ok THEN OpenRotation(i2, failed) ELSE i2
           i4 == IF i3.ok THEN OpenRotatedCentroids(i3, failed) ELSE i3
           i5 == IF i4.ok THEN OpenSegment(i4, failed) ELSE i4
           dim == EffectiveDim(configs[dir["meta"].build].dim)
<1>0. OpenResult(object, failed) = i5
  BY DEF OpenResult
<1>f. IndexFields = {"ok", "open", "meta", "dim", "logical_dim", "metric", "centroids",
                     "normalized", "rotation", "rotated_centroids", "schemas", "clu", "dat"}
  BY DEF IndexFields
<1>1. IsIndex(i0) /\ i0.ok = TRUE /\ i0.clu = object.clu /\ i0.open = object.open
      /\ i0.schemas = object.schemas
  BY <1>f, FieldSet
<1> HIDE DEF i0
<1>2. /\ IsIndex(i1) /\ i1.ok \in BOOLEAN
      /\ i1.clu = object.clu /\ i1.open = object.open /\ i1.schemas = object.schemas
      /\ Openable(object, failed) => i1.ok
      /\ i1.ok => /\ Whole("meta") /\ i1.meta = dir["meta"].build /\ i1.dim = dim
                  /\ i1.logical_dim = SidecarDim(failed, dim)
                  /\ CanOpen("sidecar", failed) /\ Whole("sidecar")
                       => i1.metric = configs[dir["sidecar"].build].metric
  <2>1. /\ IsIndex(i1) /\ i1.ok \in BOOLEAN
        /\ i1.clu = object.clu /\ i1.open = object.open /\ i1.schemas = object.schemas
        /\ CanOpen("meta", failed) /\ Whole("meta") => i1.ok
        /\ i1.ok => /\ Whole("meta") /\ i1.meta = dir["meta"].build /\ i1.dim = dim
                    /\ i1.logical_dim = SidecarDim(failed, i1.dim)
                    /\ i1.metric = SidecarMetric(i0, failed)
    BY <1>f, <1>1, MetaOpened
  <2>2. Openable(object, failed) => CanOpen("meta", failed) /\ Whole("meta")
    BY DEF Openable, Files
  <2>3. CanOpen("sidecar", failed) /\ Whole("sidecar")
          => SidecarMetric(i0, failed) = configs[dir["sidecar"].build].metric
    BY DEF SidecarMetric
  <2> HIDE DEF i1, dim
  <2> QED BY <2>1, <2>2, <2>3
<1> HIDE DEF i1, dim
<1>3. /\ IsIndex(i2) /\ i2.ok \in BOOLEAN /\ (i2.ok => i1.ok)
      /\ i2.clu = object.clu /\ i2.open = object.open /\ i2.schemas = object.schemas
      /\ Openable(object, failed) => i2.ok
      /\ i2.ok => /\ dir["centroids"].build > 0 /\ ~(dir["centroids"].size < dim)
                  /\ i2.meta = i1.meta /\ i2.dim = i1.dim /\ i2.logical_dim = i1.logical_dim
                  /\ i2.metric = i1.metric
                  /\ i2.centroids = dir["centroids"].build
                  /\ i2.metric = "cosine" => i2.normalized = dir["centroids"].build
  <2>1. Openable(object, failed)
          => CanOpen("centroids", failed) /\ ~(dir["centroids"].size < dim)
    BY DEF Openable, Files, dim
  <2>2. CASE i1.ok
    <3> DEFINE r == OpenCentroids(i1, failed)
    <3>1. /\ IsIndex(r)
          /\ \A g \in IndexFields \ {"ok", "centroids", "normalized"} : r[g] = i1[g]
          /\ r.ok \in {i1.ok, FALSE}
          /\ CanOpen("centroids", failed) /\ ~(dir["centroids"].size < i1.dim) => r.ok = i1.ok
          /\ r.ok /\ i1.ok =>
               /\ dir["centroids"].build > 0 /\ ~(dir["centroids"].size < i1.dim)
               /\ r.centroids = dir["centroids"].build
               /\ i1.metric = "cosine" => r.normalized = dir["centroids"].build
      BY <1>2, CentroidsOpened
    <3>2. i2 = r
      BY <2>2
    <3> HIDE DEF r, i2
    <3> QED BY <1>f, <1>2, <2>1, <2>2, <3>1, <3>2
  <2>3. CASE ~i1.ok
    BY <1>2, <2>3
  <2> QED BY <2>2, <2>3
<1> HIDE DEF i2
<1>4. /\ IsIndex(i3) /\ i3.ok \in BOOLEAN /\ (i3.ok => i2.ok)
      /\ i3.clu = object.clu /\ i3.open = object.open /\ i3.schemas = object.schemas
      /\ Openable(object, failed) => i3.ok
      /\ i3.ok => /\ Whole("rotation")
                  /\ EffectiveDim(configs[dir["rotation"].build].dim) = i2.dim
                  /\ \A g \in {"meta", "dim", "logical_dim", "centroids", "metric",
                               "normalized"} : i3[g] = i2[g]
                  /\ i3.rotation = dir["rotation"].build
  <2>1. Openable(object, failed)
          => /\ CanOpen("rotation", failed) /\ Whole("rotation")
             /\ EffectiveDim(configs[dir["rotation"].build].dim) = dim
    BY DEF Openable, Files, dim
  <2>2. CASE i2.ok
    <3> DEFINE r == OpenRotation(i2, failed)
               own == EffectiveDim(configs[dir["rotation"].build].dim)
    <3>1. /\ IsIndex(r)
          /\ \A g \in IndexFields \ {"ok", "rotation"} : r[g] = i2[g]
          /\ r.ok \in {i2.ok, FALSE}
          /\ CanOpen("rotation", failed) /\ Whole("rotation") /\ own = i2.dim => r.ok = i2.ok
          /\ r.ok /\ i2.ok =>
               Whole("rotation") /\ own = i2.dim /\ r.rotation = dir["rotation"].build
      BY <1>3, RotationOpened
    <3>2. i3 = r
      BY <2>2
    <3>3. i2.dim = dim
      BY <1>2, <1>3, <2>2
    <3>4. Openable(object, failed)
            => CanOpen("rotation", failed) /\ Whole("rotation") /\ own = dim
      BY <2>1
    <3> HIDE DEF r, i3, own
    <3>5. /\ IsIndex(i3) /\ i3.ok \in BOOLEAN
          /\ i3.clu = object.clu /\ i3.open = object.open /\ i3.schemas = object.schemas
          /\ \A g \in {"meta", "dim", "logical_dim", "centroids", "metric",
                       "normalized"} : i3[g] = i2[g]
      BY <1>f, <1>3, <3>1, <3>2
    <3>6. Openable(object, failed) => i3.ok
      BY <1>3, <3>1, <3>2, <3>3, <3>4
    <3>7. i3.ok => Whole("rotation") /\ own = i2.dim /\ i3.rotation = dir["rotation"].build
      BY <2>2, <3>1, <3>2
    <3> QED BY <2>2, <3>5, <3>6, <3>7 DEF own
  <2>3. CASE ~i2.ok
    BY <1>3, <2>3
  <2> QED BY <2>2, <2>3
<1> HIDE DEF i3
<1>5. /\ IsIndex(i4) /\ i4.ok \in BOOLEAN /\ (i4.ok => i3.ok)
      /\ i4.clu = object.clu /\ i4.open = object.open /\ i4.schemas = object.schemas
      /\ Openable(object, failed) => i4.ok
      /\ i4.ok => /\ dir["rotated_centroids"].build > 0
                  /\ ~(dir["rotated_centroids"].size < i3.dim)
                  /\ \A g \in {"meta", "dim", "logical_dim", "centroids", "metric",
                               "normalized", "rotation"} : i4[g] = i3[g]
                  /\ i4.rotated_centroids = dir["rotated_centroids"].build
  <2>1. Openable(object, failed)
          => CanOpen("rotated_centroids", failed) /\ ~(dir["rotated_centroids"].size < dim)
    BY DEF Openable, Files, dim
  <2>2. CASE i3.ok
    <3> DEFINE r == OpenRotatedCentroids(i3, failed)
               b == dir["rotated_centroids"].build
               short == dir["rotated_centroids"].size < i3.dim
    <3>1. /\ IsIndex(r)
          /\ \A g \in IndexFields \ {"ok", "rotated_centroids"} : r[g] = i3[g]
          /\ r.ok \in {i3.ok, FALSE}
          /\ CanOpen("rotated_centroids", failed) /\ ~short => r.ok = i3.ok
          /\ r.ok /\ i3.ok => b > 0 /\ ~short /\ r.rotated_centroids = b
      BY <1>4, RotatedCentroidsOpened
    <3>2. i4 = r
      BY <2>2
    <3>3. i3.dim = dim
      BY <1>2, <1>3, <1>4, <2>2
    <3>4. Openable(object, failed) => CanOpen("rotated_centroids", failed) /\ ~short
      BY <2>1, <3>3
    <3> HIDE DEF r, i4, b, short
    <3>5. /\ IsIndex(i4) /\ i4.ok \in BOOLEAN
          /\ i4.clu = object.clu /\ i4.open = object.open /\ i4.schemas = object.schemas
          /\ \A g \in {"meta", "dim", "logical_dim", "centroids", "metric",
                       "normalized", "rotation"} : i4[g] = i3[g]
      BY <1>f, <1>4, <3>1, <3>2
    <3>6. Openable(object, failed) => i4.ok
      BY <1>4, <3>1, <3>2, <3>4
    <3>7. i4.ok => b > 0 /\ ~short /\ i4.rotated_centroids = b
      BY <2>2, <3>1, <3>2
    <3> QED BY <2>2, <3>5, <3>6, <3>7 DEF b, short
  <2>3. CASE ~i3.ok
    BY <1>4, <2>3
  <2> QED BY <2>2, <2>3
<1> HIDE DEF i4
<1>6. /\ IsIndex(i5) /\ i5.ok \in BOOLEAN /\ (i5.ok => i4.ok)
      /\ i5.clu \in {object.clu, dir["clu"]} /\ (~i5.ok => i5.open = object.open)
      /\ Openable(object, failed) => i5.ok
      /\ i5.ok => /\ dir["clu"].build > 0 /\ dat_build # 0
                  /\ i5.open = TRUE /\ i5.clu = dir["clu"] /\ i5.dat.build = dat_build
                  /\ i5.dat.dim = i4.logical_dim /\ i5.dat.schemas = object.schemas \o Schemas
                  /\ \A g \in {"meta", "centroids", "metric", "normalized", "rotation",
                               "rotated_centroids"} : i5[g] = i4[g]
  <2>1. CASE i4.ok
    <3> DEFINE r == OpenSegment(i4, failed)
               d == [build |-> dat_build, dim |-> i4.logical_dim,
                     schemas |-> i4.schemas \o Schemas]
    <3>1. /\ IsIndex(r)
          /\ \A g \in IndexFields \ {"ok", "schemas", "clu", "dat", "open"} : r[g] = i4[g]
          /\ r.ok \in {i4.ok, FALSE}
          /\ r.clu \in {i4.clu, dir["clu"]}
          /\ ~r.ok /\ i4.ok => r.open = i4.open
          /\ i4.clu = Closed /\ CanOpen("clu", failed) /\ dir["clu"].size # 0
               /\ dat_build # 0 /\ failed # "data" => r.ok = i4.ok
          /\ r.ok /\ i4.ok =>
               /\ dir["clu"].build > 0 /\ dat_build # 0
               /\ r.open = TRUE /\ r.clu = dir["clu"] /\ r.dat = d
      BY <1>5, SegmentOpened
    <3>2. /\ d.build = dat_build /\ d.dim = i4.logical_dim
          /\ d.schemas = object.schemas \o Schemas
      BY <1>5
    <3>4. Openable(object, failed)
            => /\ i4.clu = Closed /\ CanOpen("clu", failed) /\ dir["clu"].size # 0
               /\ dat_build # 0 /\ failed # "data"
      BY <1>5 DEF Openable, Files
    <3>3. i5 = r
      BY <2>1
    <3> HIDE DEF i5, r, d
    <3> QED BY <1>f, <1>5, <2>1, <3>1, <3>2, <3>3, <3>4, ZenonT(40)
  <2>2. CASE ~i4.ok
    BY <1>5, <2>2
  <2> QED BY <1>5, <2>1, <2>2
<1> HIDE DEF i5
<1>7. ASSUME i5.ok
      PROVE  /\ \A f \in {"meta", "rotation", "rotated_centroids", "centroids"} :
                  i5[f] = dir[f].build
             /\ i5.metric = "cosine" => i5.normalized = dir["centroids"].build
             /\ i2.dim = dim /\ i3.dim = dim
             /\ i5.dat.dim = SidecarDim(failed, dim)
             /\ CanOpen("sidecar", failed) /\ Whole("sidecar")
                  => i5.metric = configs[dir["sidecar"].build].metric
  BY <1>7, <1>2, <1>3, <1>4, <1>5, <1>6
<1>8. ASSUME i5.ok
      PROVE  i1.ok /\ i2.ok /\ i3.ok /\ i4.ok
  BY <1>8, <1>3, <1>4, <1>5, <1>6
<1> QED BY <1>0, <1>2, <1>3, <1>4, <1>5, <1>6, <1>7, <1>8 DEF dim

LEMMA OpenKeeps ==
  ASSUME BuildInv, NEW failed, Open(failed)
  PROVE  BuildInv'
<1> DEFINE r == OpenResult(index, failed)
           dim == EffectiveDim(configs[dir["meta"].build].dim)
<1>1. /\ ~index.open /\ index' = r
      /\ UNCHANGED <<datVars, configs, dat_build, stage, dir>>
      /\ Current' = Current
  BY DEF Open, Current
<1>2. IsIndex(index) /\ index.open \in BOOLEAN
  BY DEF BuildInv, IndexInv
<1>3. /\ IsIndex(r)
      /\ r.clu \in {index.clu, dir["clu"]}
      /\ r.ok \in BOOLEAN
      /\ ~r.ok => r.open = index.open
      /\ r.ok =>
           /\ Whole("meta") /\ Whole("rotation")
           /\ \A f \in {"centroids", "rotated_centroids"} :
                dir[f].build > 0 /\ ~(dir[f].size < dim)
           /\ dir["clu"].build > 0 /\ dat_build # 0
           /\ r.open = TRUE /\ r.clu = dir["clu"] /\ r.dat.build = dat_build
           /\ \A f \in {"meta", "rotation", "rotated_centroids", "centroids"} :
                r[f] = dir[f].build
           /\ r.metric = "cosine" => r.normalized = dir["centroids"].build
  BY <1>2, OpenTried
<1> HIDE DEF r
<1>4. r.open \in BOOLEAN /\ (r.open => r.ok)
  BY <1>1, <1>2, <1>3
<1>5. ConfigInv' /\ DirInv' /\ DatInv' /\ MetaIsLast' /\ TableOfBuild(dir["clu"])'
  BY <1>1 DEF BuildInv, ConfigInv, DirInv, FileInv, DatInv, MetaIsLast, TableOfBuild, Working,
              FullSize, datVars
<1>6. TableOfBuild(index.clu)'
  BY <1>1, <1>3 DEF BuildInv, TableOfBuild, datVars
<1>7. \A f \in Files : FileInv(f)
  BY DEF BuildInv, DirInv
<1>8. r.open /\ Current = 1 =>
        /\ \A f \in {"meta", "rotation", "rotated_centroids", "centroids", "clu"} :
             dir[f].build = 1
        /\ dir["clu"].size = 1 /\ dat_build = 1 /\ Len(issued) = MaxRecords
  <2> SUFFICES ASSUME r.ok, Current = 1
               PROVE  /\ \A f \in {"meta", "rotation", "rotated_centroids", "centroids", "clu"} :
                           dir[f].build = 1
                      /\ dir["clu"].size = 1 /\ dat_build = 1 /\ Len(issued) = MaxRecords
    BY <1>4
  <2>1. dir["meta"].build = 1
    BY <1>3, <1>7 DEF Whole, FileInv, Files
  <2> QED BY <2>1 DEF BuildInv, MetaIsLast
<1>9. IndexInv'
  <2>1. r.clu.build <= dir["clu"].build
    BY <1>3, <1>7 DEF BuildInv, IndexInv, FileInv, Files
  <2>2. r.open => dat_build > 0 /\ r.clu.build > 0
    BY <1>3, <1>4 DEF BuildInv, DatInv
  <2> QED BY <1>1, <1>3, <1>4, <1>8, <2>1, <2>2 DEF IndexInv
<1>10. OpenedIsOneBuild'
  <2> SUFFICES ASSUME r.ok, r.open, Current = 1
               PROVE  /\ AllOf(r, 1)
                      /\ \A f \in Files \ {"sidecar"} : Whole(f)
                      /\ Len(issued) = MaxRecords
    BY <1>1, <1>4 DEF OpenedIsOneBuild, AllOf, Whole, FullSize, datVars
  <2>1. AllOf(r, 1)
    BY <1>3, <1>8 DEF AllOf
  <2>2. Whole("meta") /\ Whole("rotation")
    BY <1>3
  <2>3. Whole("clu")
    BY <1>8 DEF Whole, FullSize
  <2>4. ASSUME NEW f \in {"centroids", "rotated_centroids"} PROVE Whole(f)
    <3>1. FullSize(f, dir[f].build) = dim
      BY <1>8 DEF FullSize
    <3>2. dim \in Nat
      <4>1. dir["meta"].build \in 1..Current
        BY <1>8
      <4> QED BY <4>1, ConfigFields, EffectiveDimType DEF BuildInv
    <3>3. dir[f].build > 0 /\ ~(dir[f].size < dim)
      BY <1>3
    <3>4. dir[f].size \in Int /\ dir[f].size <= FullSize(f, dir[f].build)
      BY <1>7, <3>3 DEF FileInv, Files
    <3> QED BY <3>1, <3>2, <3>3, <3>4 DEF Whole
  <2> QED BY <1>8, <2>1, <2>2, <2>3, <2>4 DEF Files
<1> QED BY <1>5, <1>6, <1>9, <1>10 DEF BuildInv

LEMMA DiscardKeeps ==
  ASSUME BuildInv, Discard
  PROVE  BuildInv'
<1>1. index' = FreshIndex /\ UNCHANGED <<datVars, configs, dat_build, stage, dir>>
      /\ Current' = Current
  BY DEF Discard, Current
<1>2. ConfigInv' /\ DirInv' /\ DatInv' /\ MetaIsLast' /\ TableOfBuild(dir["clu"])'
  BY <1>1 DEF BuildInv, ConfigInv, DirInv, FileInv, DatInv, MetaIsLast, TableOfBuild, Working,
              FullSize, datVars
<1>3. /\ IsIndex(FreshIndex) /\ FreshIndex.open \in BOOLEAN /\ ~FreshIndex.open
      /\ FreshIndex.clu.build = 0
  BY DEF IsIndex, IndexFields, FreshIndex, Closed
<1>4. TableOfBuild(index.clu)'
  BY <1>1, <1>3 DEF BuildInv, TableOfBuild, DatInv
<1>5. IndexInv' /\ OpenedIsOneBuild'
  <2>1. dir["clu"].build \in Nat
    BY DEF BuildInv, DirInv, FileInv, Files
  <2>2. /\ index'.open \in BOOLEAN /\ ~index'.open
        /\ index'.clu.build = 0 /\ IsIndex(index)'
    <3> HIDE DEF FreshIndex
    <3> QED BY <1>1, <1>3 DEF IsIndex
  <2>3. IndexInv'
    <3>1. dir' = dir
      BY <1>1
    <3> QED BY <2>1, <2>2, <3>1 DEF IndexInv, IsIndex
  <2> QED BY <2>2, <2>3 DEF OpenedIsOneBuild
<1> QED BY <1>2, <1>4, <1>5 DEF BuildInv

LEMMA BuildStep == BuildInv /\ [Next]_lifecycleVars => BuildInv'
<1> SUFFICES ASSUME BuildInv, [Next]_lifecycleVars PROVE BuildInv'
  OBVIOUS
<1>1. ASSUME NEW dim \in RawDims, NEW metric \in Metrics, Build(dim, metric) PROVE BuildInv'
  BY <1>1, BuildKeeps
<1>2. ASSUME WriteRotation \/ WriteRotatedCentroids \/ WriteCentroids \/ WriteSegmentMeta
               \/ WriteBuildMetadata
      PROVE  BuildInv'
  <2>1. PICK f \in Written : WriteFile(f)
    BY <1>2 DEF Written, WriteRotation, WriteRotatedCentroids, WriteCentroids,
                WriteSegmentMeta, WriteBuildMetadata
  <2> QED BY <2>1, WriteFileKeeps
<1>3. CASE OpenData \/ AddRecord \/ FinishData \/ Stop
  BY <1>3, DataKeeps
<1>4. CASE WriteClusters
  BY <1>4, WriteClustersKeeps
<1>5. ASSUME NEW failed, Open(failed) PROVE BuildInv'
  BY <1>5, OpenKeeps
<1>6. CASE Discard
  BY <1>6, DiscardKeeps
<1>7. CASE UNCHANGED lifecycleVars
  <2>1. UNCHANGED <<datVars, configs, dat_build, stage, dir, index>> /\ Current' = Current
    BY <1>7 DEF lifecycleVars, Current
  <2>2. ConfigInv' /\ DirInv' /\ DatInv' /\ MetaIsLast'
    BY <2>1 DEF BuildInv, ConfigInv, DirInv, FileInv, DatInv, MetaIsLast, Working, FullSize,
                datVars
  <2>3. TableOfBuild(dir["clu"])' /\ TableOfBuild(index.clu)' /\ IndexInv'
    BY <2>1 DEF BuildInv, TableOfBuild, IndexInv, IsIndex, datVars
  <2>4. OpenedIsOneBuild'
    BY <2>1 DEF BuildInv, OpenedIsOneBuild, AllOf, Whole, FullSize, datVars
  <2> QED BY <2>2, <2>3, <2>4 DEF BuildInv
<1> QED BY <1>1, <1>2, <1>3, <1>4, <1>5, <1>6, <1>7 DEF Next

THEOREM BuildInvariant == Spec => []BuildInv
  BY BuildInit, BuildStep, PTL DEF Spec

(* An index that opens in a directory that held none before is that of the  *)
(* one build and whole, wherever the builder stopped and whatever was lost  *)
(* on the way to the disk.                                                  *)
THEOREM OpenedIndexIsOneBuild == Spec => []OpenedIsOneBuild
<1>1. BuildInv => OpenedIsOneBuild
  BY DEF BuildInv
<1> QED BY <1>1, BuildInvariant, PTL
-----------------------------------------------------------------------------
(* From an address of cluster.clu to the record. *)
BuiltInv == BuildInv /\ RecordsInv /\ TableKeepsAddresses

LEMMA BuiltInvariant == Spec => []BuiltInv
  BY BuildInvariant, BuildsUseDataFile, RecordsStayStored, BuiltTableKeepsAddresses, PTL
     DEF BuiltInv

LEMMA TableLeadsToRecords ==
  ASSUME BuiltInv, FitsRawTable(issued, DataPage), dat_build > 0,
         NEW clu, TableOfBuild(clu), clu.build = dat_build, NEW r \in 1..Len(issued)
  PROVE  /\ Decode(clu.table).entries[r] = issued[r]
         /\ ReadRecord(issued[r], raw_dim, Schemas) =
              IF InFile(issued[r].offset, issued[r].size)
              THEN {[ok |-> TRUE, vec |-> OwnVector(r), columns |-> OwnColumns(r)]}
              ELSE {ReadError}
         /\ ReadVector(issued[r], raw_dim) =
              IF InFile(issued[r].offset, raw_dim) THEN [ok |-> TRUE, vec |-> OwnVector(r)]
              ELSE ReadError
         /\ persisted = Len(stream) =>
              InFile(issued[r].offset, issued[r].size) /\ InFile(issued[r].offset, raw_dim)
<1>1. Decode(clu.table) = [ok |-> TRUE, entries |-> issued]
  BY DEF BuiltInv, TableKeepsAddresses, TableOfBuild
<1>2. /\ raw_dim \in Nat /\ stream \in Seq(Cell) /\ persisted \in 0..Len(stream)
      /\ written \in Seq(Payloads) /\ Len(written) = Len(issued)
      /\ RecordStored(r) /\ issued \in Seq(Address)
  BY DEF BuiltInv, RecordsInv, DataInv
<1>3. written[r] \in Payloads /\ issued[r] \in Address /\ r \in Nat
  BY <1>2, ElementOfSeq
<1>4. OwnVector(r) = VecCells(r, raw_dim) /\ OwnColumns(r) = Values(r, written[r])
  BY DEF OwnVector, OwnColumns, Values
<1> DEFINE cells == RecordCells(r, raw_dim, written[r])
<1>5. /\ LiesAt(stream, issued[r].offset, cells) /\ Len(cells) <= issued[r].size
      /\ issued[r].offset + issued[r].size <= Len(stream)
  BY <1>2 DEF RecordStored
<1>6. /\ ReadRecord(issued[r], raw_dim, Schemas) =
           IF InFile(issued[r].offset, issued[r].size)
           THEN {[ok |-> TRUE, vec |-> VecCells(r, raw_dim), columns |-> Values(r, written[r])]}
           ELSE {ReadError}
      /\ ReadVector(issued[r], raw_dim) =
           IF InFile(issued[r].offset, raw_dim) THEN [ok |-> TRUE, vec |-> VecCells(r, raw_dim)]
           ELSE ReadError
  BY <1>2, <1>3, <1>5, ReadsRecord
<1>7. persisted = Len(stream) =>
        InFile(issued[r].offset, issued[r].size) /\ InFile(issued[r].offset, raw_dim)
  <2> DEFINE vec == VecCells(r, raw_dim)
             data == FlattenSeq(Data(r, written[r]))
  <2>1. /\ vec \in Seq(Cell) /\ Len(vec) = raw_dim /\ data \in Seq(Cell) /\ cells = vec \o data
    BY <1>2, <1>3, RecordTypes
  <2> HIDE DEF vec, data, cells
  <2>2. Len(cells) = raw_dim + Len(data) /\ Len(data) \in Nat
    BY <2>1, ConcatElements
  <2>3. /\ issued[r].offset \in Nat /\ issued[r].size \in Nat
        /\ issued[r].offset + issued[r].size <= Len(stream)
    BY <1>3, <1>5 DEF Address
  <2>4. raw_dim <= issued[r].size
    BY <1>2, <1>5, <2>2, <2>3
  <2>5. Len(stream) \in Nat
    BY <1>2, LenProperties
  <2> QED BY <1>2, <2>3, <2>4, <2>5 DEF InFile
<1> QED BY <1>1, <1>4, <1>6, <1>7

(* The address cluster.clu has for a record leads to that record, its       *)
(* vector and every column, or to an error where data.dat lost its tail,    *)
(* for every page size, schema and order of builds, failures and crashes,   *)
(* while the offsets fit the 32 bits of pages that the table keeps.         *)
THEOREM AddressLeadsToItsRecord ==
  Spec => [](FitsRawTable(issued, DataPage) => RecordIsOwnOrError)
<1>1. BuiltInv => (FitsRawTable(issued, DataPage) => RecordIsOwnOrError)
  <2> SUFFICES ASSUME BuiltInv, FitsRawTable(issued, DataPage), index.open,
                      index.clu.build = dat_build, ReaderMatches(index),
                      NEW r \in 1..Len(issued)
               PROVE  LET addr == Decode(index.clu.table).entries[r]
                      IN  /\ \/ OwnRecord(index, r, addr)
                             \/ ReadRecord(addr, index.dat.dim, index.dat.schemas) = {ReadError}
                          /\ \/ OwnVectorRead(index, r, addr)
                             \/ ReadVector(addr, index.dat.dim) = ReadError
    BY DEF RecordIsOwnOrError
  <2>1. dat_build > 0 /\ TableOfBuild(index.clu)
    BY DEF BuiltInv, BuildInv, IndexInv
  <2>2. index.dat.dim = raw_dim /\ index.dat.schemas = Schemas
    BY DEF ReaderMatches
  <2>3. Decode(index.clu.table).entries[r] = issued[r]
    BY <2>1, TableLeadsToRecords
  <2>4. /\ \/ OwnRecord(index, r, issued[r])
           \/ ReadRecord(issued[r], index.dat.dim, index.dat.schemas) = {ReadError}
        /\ \/ OwnVectorRead(index, r, issued[r])
           \/ ReadVector(issued[r], index.dat.dim) = ReadError
    BY <2>1, <2>2, TableLeadsToRecords DEF OwnRecord, OwnVectorRead
  <2> QED BY <2>3, <2>4
<1> QED BY <1>1, BuiltInvariant, PTL

(* A build that finished and lost nothing opens with every part its own and *)
(* serves each record, whatever earlier builds left in the directory.       *)
THEOREM FinishedBuildServesEveryRecord ==
  Spec => [](FitsRawTable(issued, DataPage) => FinishedBuildOpens)
<1>1. BuiltInv => (FitsRawTable(issued, DataPage) => FinishedBuildOpens)
  <2> DEFINE i == OpenResult(FreshIndex, "headless")
             dim == EffectiveDim(configs[dir["meta"].build].dim)
  <2> SUFFICES ASSUME BuiltInv, FitsRawTable(issued, DataPage), stage = "done",
                      \A f \in Files : Whole(f), persisted = Len(stream)
               PROVE  /\ i.open
                      /\ AllOf(i, Current) /\ i.metric = configs[Current].metric
                      /\ ReaderMatches(i)
                      /\ \A r \in 1..MaxRecords :
                           LET addr == Decode(i.clu.table).entries[r]
                           IN  OwnRecord(i, r, addr) /\ OwnVectorRead(i, r, addr)
    BY DEF FinishedBuildOpens
  <2>1. /\ \A f \in Files : dir[f].build = Current /\ dir[f].build > 0
        /\ dat_build = Current /\ Len(issued) = MaxRecords /\ dir["clu"].size = 1
        /\ raw_dim = configs[Current].dim /\ TableOfBuild(dir["clu"])
    <3>1. \A f \in Files : stage \in After[f]
      BY DEF Files, After
    <3>2. \A f \in Files : dir[f].build = Current /\ dir[f].build > 0
      BY <3>1 DEF BuiltInv, BuildInv, DirInv, FileInv, Whole
    <3>3. dir["clu"].size = 1
      BY <3>1 DEF BuiltInv, BuildInv, DirInv, Files
    <3> QED BY <3>2, <3>3 DEF BuiltInv, BuildInv, DatInv, DataOpened, DataFinished, Files
  <2>2. Current \in Nat \ {0} /\ Current \in 1..Current
    BY <2>1 DEF BuiltInv, BuildInv, ConfigInv, Current, Files
  <2>3. dim \in Nat
    <3>1. configs[Current].dim \in Nat
      BY <2>2, ConfigFields DEF BuiltInv, BuildInv
    <3> QED BY <2>1, <3>1, EffectiveDimType DEF Files
  <2>4. IsIndex(FreshIndex) /\ FreshIndex.clu = Closed /\ FreshIndex.schemas = << >>
    BY DEF IsIndex, IndexFields, FreshIndex
  <2>5. Openable(FreshIndex, "headless")
    <3>1. \A f \in Files : CanOpen(f, "headless")
      BY <2>1 DEF CanOpen, Files
    <3>2. \A f \in {"centroids", "rotated_centroids"} : dir[f].size = dim
      BY <2>1 DEF Whole, FullSize, Files
    <3>3. EffectiveDim(configs[dir["rotation"].build].dim) = dim
      BY <2>1 DEF Files
    <3>4. ~(dim < dim)
      BY <2>3
    <3> HIDE DEF dim
    <3>5. \A f \in {"centroids", "rotated_centroids"} : ~(dir[f].size < dim)
      BY <3>2, <3>4
    <3> QED BY <2>1, <2>2, <2>4, <3>1, <3>3, <3>5 DEF Openable, Files, dim
  <2>6. /\ i.ok
        /\ i.open = TRUE /\ i.clu = dir["clu"] /\ i.dat.build = dat_build
        /\ i.dat.dim = SidecarDim("headless", dim)
        /\ i.dat.schemas = FreshIndex.schemas \o Schemas
        /\ \A f \in {"meta", "rotation", "rotated_centroids", "centroids"} : i[f] = dir[f].build
        /\ i.metric = "cosine" => i.normalized = dir["centroids"].build
        /\ CanOpen("sidecar", "headless") /\ Whole("sidecar")
             => i.metric = configs[dir["sidecar"].build].metric
    <3> HIDE DEF FreshIndex
    <3> QED BY <2>4, <2>5, OpenTried
  <2> HIDE DEF i, dim
  <2>7. CanOpen("sidecar", "headless") /\ Whole("sidecar")
    BY <2>1 DEF CanOpen, Files
  <2>8. i.metric = configs[Current].metric
    BY <2>1, <2>6, <2>7 DEF Files
  <2>9. ReaderMatches(i)
    <3>1. i.dat.dim = raw_dim
      BY <2>1, <2>6, <2>7 DEF SidecarDim, Files
    <3>2. << >> \o Schemas = Schemas
      BY DataAssumption
    <3> QED BY <2>4, <2>6, <3>1, <3>2 DEF ReaderMatches
  <2>10. AllOf(i, Current)
    BY <2>1, <2>6 DEF AllOf, Files
  <2>11. ASSUME NEW r \in 1..MaxRecords
         PROVE  LET addr == Decode(i.clu.table).entries[r]
                IN  OwnRecord(i, r, addr) /\ OwnVectorRead(i, r, addr)
    <3>1. /\ r \in 1..Len(issued) /\ dat_build > 0 /\ i.clu = dir["clu"]
          /\ dir["clu"].build = dat_build
      BY <2>1, <2>2, <2>6 DEF Files
    <3>2. Decode(i.clu.table).entries[r] = issued[r]
      BY <2>1, <3>1, TableLeadsToRecords
    <3>3. /\ ReadRecord(issued[r], raw_dim, Schemas)
               = {[ok |-> TRUE, vec |-> OwnVector(r), columns |-> OwnColumns(r)]}
          /\ ReadVector(issued[r], raw_dim) = [ok |-> TRUE, vec |-> OwnVector(r)]
      BY <2>1, <3>1, TableLeadsToRecords
    <3> QED BY <2>9, <3>2, <3>3 DEF OwnRecord, OwnVectorRead, ReaderMatches
  <2> QED BY <2>6, <2>8, <2>9, <2>10, <2>11
<1> QED BY <1>1, BuiltInvariant, PTL
=============================================================================
