------------------------------ MODULE Columns ------------------------------
(***************************************************************************)
(* ColumnStore, one ColumnChunkWriter and one ColumnChunkReader per column: *)
(* rows are ingested column by column, serialised into one .cols buffer and *)
(* read back by the locators the ingest returned, which are relative to the *)
(* column and carry no row number.                                          *)
(*                                                                         *)
(* A buffer is a sequence of cells: a byte of a value, an entry of an       *)
(* offset table and each field of the header take one.  A column of width 0 *)
(* is of variable length.  chunk_id and base_offset are always 0.           *)
(***************************************************************************)
EXTENDS Integers, Sequences, FiniteSets, FiniteSetsExt, SequencesExt

CONSTANTS
  ColumnIds,  \* 1..n, in the order of the schema
  Width,      \* of each column, 0 when its values are of variable length
  Data,       \* what a caller may pass for a column: sequences of bytes
  MaxCells    \* bound: cells in the columns together

Bytes == UNION {{value[i] : i \in DOMAIN value} : value \in Data}

ASSUME ColumnsAssumption ==
  /\ ColumnIds # {} /\ Cardinality(ColumnIds) \in Nat
  /\ ColumnIds = 1..Cardinality(ColumnIds)
  /\ Width \in [ColumnIds -> Nat]
  /\ Data \subseteq Seq(Bytes)
  /\ MaxCells \in Nat

VARIABLES
  writers,   \* per column: data_buf and offsets; none before Open
  num_rows,  \* rows ingested
  cols,      \* the .cols file, or the buffer SerialiseAll returned
  reading,   \* read_buf and region_offsets after a successful OpenForRead
  rows,      \* what the callers of Ingest hold: the values and the locators
  saved      \* ... of the rows in cols, and whether cols is whole

columnsVars == <<writers, num_rows, cols, reading, rows, saved>>

NotOpen == <<>>
NoReader == [open |-> FALSE]
Error == [ok |-> FALSE]
NumCols == Cardinality(ColumnIds)
HeaderSize == 1 + NumCols
-----------------------------------------------------------------------------
(* Writing. *)
NewWriter(c) == [data |-> <<>>, offsets |-> IF Width[c] = 0 THEN <<0>> ELSE <<>>]

Fits(c, value) == Width[c] = 0 \/ Len(value) = Width[c]

Appended(c, w, value) ==
  [data |-> w.data \o value,
   offsets |-> IF Width[c] = 0 THEN Append(w.offsets, Len(w.data) + Len(value)) ELSE <<>>]

Locator(c, w, value) ==
  [data_offset |-> Len(w.data), data_length |-> Len(value),
   offset_table_pos |-> IF Width[c] = 0 THEN Len(w.offsets) - 1 ELSE 0]

(* Open(schemas) *)
OpenColumns ==
  /\ writers' = [c \in ColumnIds |-> NewWriter(c)]
  /\ num_rows' = 0
  /\ rows' = <<>>
  /\ UNCHANGED <<cols, reading, saved>>

(* The columns before the first that is missing or does not fit keep the    *)
(* value of the row that failed.                                            *)
Ingest(row) ==
  LET Bad(c) == c \notin DOMAIN row \/ ~Fits(c, row[c])
      taken == {c \in ColumnIds : \A b \in 1..c : ~Bad(b)}
  IN /\ writers # NotOpen
     /\ writers' = [c \in ColumnIds |->
          IF c \in taken THEN Appended(c, writers[c], row[c]) ELSE writers[c]]
     /\ IF taken = ColumnIds
        THEN /\ num_rows' = num_rows + 1
             /\ rows' = Append(rows, [values |-> row,
                  locs |-> [c \in ColumnIds |-> Locator(c, writers[c], row[c])]])
        ELSE UNCHANGED <<num_rows, rows>>
     /\ UNCHANGED <<cols, reading, saved>>
-----------------------------------------------------------------------------
(* Serialising. *)
RegionSize(w) == Len(w.data) + Len(w.offsets)

(* A fault for the runs: the offset tables take no room. *)
RegionOffsetDataOnly(c) ==
  LET cursor[b \in ColumnIds] ==
        IF b = 1 THEN 0 ELSE cursor[b - 1] + Len(writers[b - 1].data)
  IN  cursor[c]

RegionOffset(c) ==
  LET cursor[b \in ColumnIds] ==
        IF b = 1 THEN 0 ELSE cursor[b - 1] + RegionSize(writers[b - 1])
  IN  cursor[c]

SerialiseAll ==
  <<NumCols>>
    \o [c \in ColumnIds |-> RegionOffset(c)]
    \o FlattenSeq([c \in ColumnIds |-> writers[c].data \o writers[c].offsets])

(* The buffer whole, or a file cut off by a failed write or a crash. *)
Flush ==
  /\ writers # NotOpen
  /\ \E n \in 0..Len(SerialiseAll) :
       /\ cols' = SubSeq(SerialiseAll, 1, n)
       /\ saved' = [rows |-> rows, whole |-> n = Len(SerialiseAll)]
  /\ UNCHANGED <<writers, num_rows, reading, rows>>
-----------------------------------------------------------------------------
(* Reading.  After an open that failed the readers of the one before it are *)
(* left over a replaced buffer; a caller reads only after a success.        *)
OpenForRead ==
  /\ reading' =
       IF Len(cols) < HeaderSize \/ cols[1] # NumCols THEN NoReader
       ELSE [open |-> TRUE,
             buf |-> SubSeq(cols, HeaderSize + 1, Len(cols)),
             region_offsets |-> SubSeq(cols, 2, HeaderSize),
             saved |-> saved]
  /\ UNCHANGED <<writers, num_rows, cols, rows, saved>>

ReadColumn(c, loc) ==
  LET start == loc.data_offset + reading.region_offsets[c]
      end == start + loc.data_length
  IN IF loc.data_length = 0 /\ Width[c] = 0 THEN [ok |-> TRUE, datum |-> <<>>]
     ELSE IF end > Len(reading.buf) THEN Error
          ELSE [ok |-> TRUE, datum |-> SubSeq(reading.buf, start + 1, end)]

(* The columns asked for, or the first error. *)
ReadColumns(locs, ids) ==
  LET read == [c \in ids |-> ReadColumn(c, locs[c])]
  IN IF \E c \in ids : ~read[c].ok THEN Error
     ELSE [ok |-> TRUE, row |-> [c \in ids |-> read[c].datum]]
-----------------------------------------------------------------------------
ColumnsInit ==
  /\ writers = NotOpen /\ num_rows = 0 /\ rows = <<>>
  /\ cols = <<>> /\ saved = [rows |-> <<>>, whole |-> FALSE]
  /\ reading = NoReader

(* What a caller may pass: any of the columns, with any of the data. *)
Row == UNION {[ids -> Data] : ids \in SUBSET ColumnIds}

CellsUsed == MapThenSumSet(LAMBDA c : RegionSize(writers[c]), ColumnIds)

ColumnsNext ==
  \/ OpenColumns
  \/ \E row \in Row : Ingest(row) /\ CellsUsed < MaxCells
  \/ Flush
  \/ OpenForRead

ColumnsSpec == ColumnsInit /\ [][ColumnsNext]_columnsVars
-----------------------------------------------------------------------------
(* Every row ingested before the file was written reads back, in any        *)
(* projection, as the values it was ingested with, or as an error from a    *)
(* file cut off - never as another row's - whatever rows failed in between, *)
(* were ingested later, or belong to a later Open; and from a whole file    *)
(* there is no error.                                                       *)
RowsReadBack ==
  reading.open =>
    \A k \in DOMAIN reading.saved.rows, ids \in SUBSET ColumnIds :
      LET ingested == reading.saved.rows[k]
          read == ReadColumns(ingested.locs, ids)
      IN \/ read.ok /\ read.row = [c \in ids |-> ingested.values[c]]
         \/ ~read.ok /\ ~reading.saved.whole
=============================================================================
