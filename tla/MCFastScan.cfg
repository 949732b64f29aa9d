SPECIFICATION FastScanSpec
CONSTANTS
  Dim = 1600
  LutPerIters = {2, 4}
  MaxVal = 8191
  RotatedQueries <- WideQueries
  NormsQc = {1}
  VectorBlocks <- WideBlocks
  Frontiers = {0}
  Margins = {0}
  SafeInBases = {0}
INVARIANTS LaneSumsOwnSigns
