SPECIFICATION PartsSpec
CHECK_DEADLOCK FALSE
CONSTANTS
  Parts = {"files", "columns", "rotation", "routing", "codes"}
  Word = 64
  Schemas <- TwoColumns
  Payloads <- ShortAndLong
  DataPage = 3
  RawDims = {1, 3}
  MaxRecords = 2
  PadMultiple = 4
  Metrics = {"cosine"}
  MaxBuilds = 2
  MaxTries = 1
  ColumnIds = {1, 2}
  Width <- VariableFirst
  Data <- SomeValues
  MaxCells = 3
  Dims = {4, 5, 6}
  Signs <- SignsOf
  Shuffles <- ShufflesOf
  Orthogonal <- OrthogonalOf
  RoundMultiple = 2
  NumRounds = 4
  NList = 4
  CentroidDim = 3
  Centroids <- FourCentroids
  Queries <- TwoQueries
  SuperVectors <- SuperVectorsOf
  RoutingMetrics = {"l2", "ip", "cosine"}
  Scale = 5
  CentroidBlock = 2
  VecWidth = 2
  NProbes = {1, 2, 5}
  Thresholds = {0, 4}
  SuperCounts = {0, 3}
  SuperFactors = {0, 1}
  BudgetFactors = {0, 2}
  Dim = 16
  LutPerIters = {2, 4}
  MaxVal = 100
  RotatedQueries <- SomeQueries
  NormsQc = {1, 2}
  VectorBlocks <- SomeBlocks
  Frontiers = {0, 4}
  Margins = {0, 1}
  SafeInBases = {4}
INVARIANTS
  OpenedIsOneBuild RecordIsOwnOrError FinishedBuildOpens TableKeepsAddresses
  RowsReadBack RotationIsIsometry LoadedRotatesAlike
  AnswerIsNearest LaneSumsOwnSigns MasksAreOfOwnDistance
PROPERTIES RoutedByCurrentHierarchy
