SPECIFICATION Spec
CONSTANTS
  r1 = r1 r2 = r2 r3 = r3 r4 = r4 c1 = c1 c2 = c2 c3 = c3
  Records = {r1, r2, r3, r4}
  Clusters = {c1, c2, c3}
  Blocks <- MCBlocksWide
  Dist <- MCDist
  Err <- MCErr
  OutMargin <- MCOutMargin
  InMargin <- MCInMargin
  Small = {r1, r2, r4}
  Inf = 100
  TopK = 1
  NProbe = 3
  UseSafeOut = TRUE
  SafeInMode = "Frontier"
  SafeInDk = 8
  Stage1SafeIn = TRUE
  HasStage2 = TRUE
  MinProbes = 1 StableProbes = 1 AbsTol = 0 RelTol = 5
  DeferInitial = 1 DeferUntilReady = TRUE DeferMax = 0
  SmallPool = 1
  Budget = 1
  EarlySubmit = TRUE EarlyInterval = 1 EarlyCount = 1 EarlyMax = 1
INVARIANTS TypeOK BudgetKeepsBest ReadsBounded EveryCandidateAccounted
