SPECIFICATION FairSpec
CONSTANTS
  b1 = b1 b2 = b2 b3 = b3 x1 = x1 x2 = x2
  Tokens = {0, 1, 2}
  Buffers = {b1, b2, b3}
  Extents = {x1, x2}
  NoData = NoData
  QueueDepth = 2
  MaxBatch = 2
  CounterModulus = 8
  SubmitMayFallShort = FALSE
  ReadMayFail = FALSE
  MaxReads = 4
INVARIANTS EitherDataFirst
PROPERTIES EitherImplementsAsyncReader EveryReadDelivered
