------------------------------- MODULE DataFile -------------------------------
(***************************************************************************)
(* data.dat (src/storage/data_file_writer.cpp, data_file_reader.cpp): the   *)
(* records of an index one after the other, each a raw vector and its       *)
(* payload columns, padded to whole pages.                                  *)
(*                                                                         *)
(* Sizes count cells of four bytes: a float, the length prefix of a         *)
(* variable column, or a piece of a column.  The file is only appended to,  *)
(* so what the kernel has of it is a prefix of what the stream accepted;    *)
(* which one is left open until the writer is done with the file.           *)
(***************************************************************************)
EXTENDS AddressColumn

CONSTANTS
  Schemas,   \* payload_schemas: the cells of each column, 0 if it is variable
  Payloads,  \* payloads a record may have: the cells of each column's value
  DataPage,  \* page_size_
  RawDims,   \* dimensions the client may use
  MaxRecords \* bound: records of a file

VARIABLES
  stream,     \* everything the stream accepted
  persisted,  \* how much of it the kernel has
  dat_writer, \* "closed", "open", "failed" (an error was returned), "finalized"
  raw_dim,    \* dim_ of the writer
  current_offset,
  issued,     \* the addresses WriteRecord returned with OK
  written     \* the payloads of those records

datVars == <<stream, persisted, dat_writer, raw_dim, current_offset, issued, written>>

(* Cells: component i of the vector of record r, piece j of its column c, a *)
(* length prefix, padding.                                                  *)
VecCell(r, i) == [k |-> "vec", rec |-> r, col |-> 0, at |-> i]
ColCell(r, c, j) == [k |-> "col", rec |-> r, col |-> c, at |-> j]
LenCell(n) == [k |-> "len", rec |-> 0, col |-> 0, at |-> n]
ZeroCell == [k |-> "zero", rec |-> 0, col |-> 0, at |-> 0]
Beyond == [k |-> "beyond", rec |-> 0, col |-> 0, at |-> 0]  \* not of the file

VecCells(r, dim) == [i \in 1..dim |-> VecCell(r, i)]
ValueCells(r, c, n) == [j \in 1..n |-> ColCell(r, c, j)]

IsVariable(width) == width = 0

(* WriteDatum: a variable column has its length in front. *)
WriteDatum(r, c, n) ==
  IF IsVariable(Schemas[c]) THEN <<LenCell(n)>> \o ValueCells(r, c, n)
  ELSE ValueCells(r, c, n)

RecordCells(r, dim, payload) ==
  VecCells(r, dim)
    \o FlattenSeq([c \in DOMAIN payload |-> WriteDatum(r, c, payload[c])])

PadCells(n) == IF DataPage > 1 THEN CeilDiv(n, DataPage) * DataPage - n ELSE 0

DatInit ==
  /\ stream = << >> /\ persisted = 0
  /\ dat_writer = "closed"
  /\ raw_dim = 0 /\ current_offset = 0
  /\ issued = << >> /\ written = << >>

(* Opening truncates. *)
DatOpen(dim) ==
  /\ dat_writer \in {"closed", "failed", "finalized"}
  /\ stream' = << >> /\ persisted' = 0
  /\ dat_writer' = "open"
  /\ raw_dim' = dim /\ current_offset' = 0
  /\ issued' = << >> /\ written' = << >>

(* Seeded fault: the padding is not counted in the record's size. *)
WriteRecordUnpaddedSize(payload) ==
  LET r == Len(issued) + 1
      cells == RecordCells(r, raw_dim, payload)
      size == Len(cells) + PadCells(Len(cells))
  IN  /\ dat_writer = "open"
      /\ r <= MaxRecords
      /\ stream' = stream \o cells \o [i \in 1..PadCells(Len(cells)) |-> ZeroCell]
      /\ current_offset' = current_offset + Len(cells)
      /\ issued' = Append(issued, [offset |-> current_offset, size |-> U32(size)])
      /\ written' = Append(written, payload)
      /\ UNCHANGED <<persisted, dat_writer, raw_dim>>

(* Every piece is checked right after it was handed to the stream.          *)
WriteRecord(payload) ==
  LET r == Len(issued) + 1
      cells == RecordCells(r, raw_dim, payload)
      size == Len(cells) + PadCells(Len(cells))
  IN  /\ dat_writer = "open"
      /\ r <= MaxRecords
      /\ stream' = stream \o cells \o [i \in 1..PadCells(Len(cells)) |-> ZeroCell]
      /\ current_offset' = current_offset + size
      /\ issued' = Append(issued, [offset |-> current_offset, size |-> U32(size)])
      /\ written' = Append(written, payload)
      /\ UNCHANGED <<persisted, dat_writer, raw_dim>>

(* A piece could not be written: the pieces before it stay in the stream    *)
(* and in current_offset_, no address is returned, and every later record   *)
(* meets the same bad stream.                                               *)
WriteRecordFails(payload) ==
  LET cells == RecordCells(Len(issued) + 1, raw_dim, payload)
  IN  /\ dat_writer = "open"
      /\ Len(issued) < MaxRecords
      /\ \E n \in 0..Len(cells) :
           /\ stream' = stream \o SubSeq(cells, 1, n)
           /\ current_offset' = current_offset + n
      /\ persisted' \in persisted..Len(stream')
      /\ dat_writer' = "failed"
      /\ UNCHANGED <<raw_dim, issued, written>>

(* The writer is destroyed, or the process dies. *)
DatAbandon ==
  /\ dat_writer = "open"
  /\ dat_writer' = "failed"
  /\ persisted' \in persisted..Len(stream)
  /\ UNCHANGED <<stream, raw_dim, current_offset, issued, written>>

(* Finalize flushes and closes and looks at neither result: it returns OK   *)
(* whatever became of the tail.                                             *)
DatFinalize ==
  /\ dat_writer = "open"
  /\ dat_writer' = "finalized"
  /\ persisted' \in persisted..Len(stream)
  /\ UNCHANGED <<stream, raw_dim, current_offset, issued, written>>

DatNext ==
  \/ \E dim \in RawDims : DatOpen(dim)
  \/ \E payload \in Payloads : WriteRecord(payload) \/ WriteRecordFails(payload)
  \/ DatFinalize \/ DatAbandon

DatSpec == DatInit /\ [][DatNext]_datVars
-----------------------------------------------------------------------------
(* DataFileReader.  A reader is its dimension and its schemas; a result has *)
(* a vector and columns, or is an error.                                    *)
ReadError == [ok |-> FALSE]

(* ReadRaw: an extent that ends behind the file is an error. *)
InFile(offset, length) == offset + length <= persisted
ReadRaw(offset, length) == SubSeq(stream, offset + 1, offset + length)

(* The number a cell has when it is read as a length: any, if it is part of *)
(* a vector or of a value.                                                  *)
Lengths(cell) ==
  IF cell.k = "len" THEN {cell.at}
  ELSE IF cell.k = "zero" THEN {0}
  ELSE 0..(Word - 1)

(* One column of ParsePayload: its value and where the next one starts.     *)
TakeColumn(buf, at, width, columns) ==
  IF at + width > Len(buf) THEN ReadError
  ELSE [ok |-> TRUE, at |-> at + width,
        columns |-> Append(columns, SubSeq(buf, at + 1, at + width))]

(* The end of a variable column is computed in 32 bits: a foreign length    *)
(* can wrap it back into the buffer, and passes with bytes behind it.       *)
TakeVariable(buf, at, len, columns) ==
  IF at + len > Len(buf) /\ U32(at + len) <= Len(buf)
  THEN [ok |-> TRUE, at |-> U32(at + len),
        columns |-> Append(columns, [j \in 1..len |-> Beyond])]
  ELSE TakeColumn(buf, at, len, columns)

(* Seeded fault: the prefix is not skipped. *)
ParseColumnAtPrefix(buf, width, parsed) ==
  IF ~parsed.ok THEN {ReadError}
  ELSE IF ~IsVariable(width)
  THEN {TakeColumn(buf, parsed.at, width, parsed.columns)}
  ELSE IF parsed.at + 1 > Len(buf) THEN {ReadError}
  ELSE {TakeVariable(buf, parsed.at, len, parsed.columns) :
          len \in Lengths(buf[parsed.at + 1])}

ParseColumn(buf, width, parsed) ==
  IF ~parsed.ok THEN {ReadError}
  ELSE IF ~IsVariable(width)
  THEN {TakeColumn(buf, parsed.at, width, parsed.columns)}
  ELSE IF parsed.at + 1 > Len(buf) THEN {ReadError}
  ELSE {TakeVariable(buf, parsed.at + 1, len, parsed.columns) :
          len \in Lengths(buf[parsed.at + 1])}

ParsePayload(buf, from, schemas) ==
  LET parsed[c \in 0..Len(schemas)] ==
        IF c = 0 THEN {[ok |-> TRUE, at |-> from, columns |-> << >>]}
        ELSE UNION {ParseColumn(buf, schemas[c], p) : p \in parsed[c - 1]}
  IN  parsed[Len(schemas)]

(* All outcomes of ReadRecord for a reader opened with dim and schemas. *)
ReadRecord(addr, dim, schemas) ==
  LET buf == ReadRaw(addr.offset, addr.size)
  IN  IF ~InFile(addr.offset, addr.size) \/ addr.size < dim THEN {ReadError}
      ELSE {IF p.ok THEN [ok |-> TRUE, vec |-> SubSeq(buf, 1, dim),
                          columns |-> p.columns]
            ELSE ReadError : p \in ParsePayload(buf, dim, schemas)}

ReadVector(addr, dim) ==
  IF addr.size < dim \/ ~InFile(addr.offset, dim) THEN ReadError
  ELSE [ok |-> TRUE, vec |-> ReadRaw(addr.offset, dim)]

(* What record r is. *)
OwnVector(r) == VecCells(r, raw_dim)
OwnColumns(r) == [c \in DOMAIN Schemas |-> ValueCells(r, c, written[r][c])]
-----------------------------------------------------------------------------
ASSUME DataAssumption ==
  /\ DataPage \in Nat \ {0}
  /\ MaxRecords \in Nat /\ RawDims \subseteq Nat
  /\ Schemas \in Seq(Nat)
  /\ \A p \in Payloads : p \in Seq(Nat) /\ Len(p) = Len(Schemas)
  /\ \A p \in Payloads, c \in DOMAIN Schemas :
       ~IsVariable(Schemas[c]) => p[c] = Schemas[c]

(* A record's size fits the 32 bits of AddressEntry::size. *)
ASSUME RecordSizeAssumption ==
  \A r \in 1..MaxRecords, dim \in RawDims, p \in Payloads :
    LET n == Len(RecordCells(r, dim, p))
    IN  n \in Nat /\ n + PadCells(n) < Word

(* The table cluster.clu keeps (EncodeRawTableV2 divides by the page size    *)
(* and keeps 32 bits, and the builder calls neither validator) decodes to    *)
(* the addresses WriteRecord returned, after any number of records and in   *)
(* spite of failed ones, as long as they are in its range.                  *)
TableKeepsAddresses ==
  FitsRawTable(issued, DataPage) =>
    Decode(EncodeRawTableV2(issued, DataPage)) = [ok |-> TRUE, entries |-> issued]

(* Records do not overlap and leave no gap: each starts where the one       *)
(* before it ends, so the column V1 could store them as well.               *)
RecordsAdjacent == Adjacent(issued)
=============================================================================
