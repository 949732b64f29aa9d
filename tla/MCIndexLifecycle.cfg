SPECIFICATION Spec
CONSTANTS
  Word = 64
  Schemas <- TwoColumns
  Payloads <- ShortAndLong
  DataPage = 3
  RawDims = {1, 3}
  MaxRecords = 2
  PadMultiple = 4
  Metrics = {"cosine"}
  MaxBuilds = 1
  MaxTries = 2
INVARIANTS DataReaderMatchesWriter
CHECK_DEADLOCK FALSE
