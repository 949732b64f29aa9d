SPECIFICATION FairSpec
CONSTANTS
  r1 = r1 r2 = r2 r3 = r3
  b1 = b1 b2 = b2 b3 = b3 b4 = b4 b5 = b5 b6 = b6
  Records = {r1, r3}
  PayloadBytes <- MixedPayloads
  VecBytes = 3
  SafeInAllThreshold = 5
  NProbe = 1
  SubmitBatch = 2
  FlushThreshold = 32
  TopK = 2
  Slots = {0, 1}
  Buffers = {b1,b2,b3,b4}
  PageSize = 4
  FixedBufs = {b1}
  PrimedBufs = {b2}
  NoData = NoData
  Free = Free
  NoBuf = NoBuf
  QueueDepth = 1
  MaxBatch = 1
  CounterModulus = 16
  SubmitMayFallShort = FALSE
  ReadMayFail = FALSE
  IdBound = 0
PROPERTIES SearchAnswers
