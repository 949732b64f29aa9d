SPECIFICATION Spec
CONSTANTS
  Word = 64
  NumClusters = 2
  Ids = {0, 1, 2}
  Sizes = {0, 1, 3}
  Layouts = {"none", "fixed", "variable"}
  Addresses <- MCAddresses
  PageSize = 2
  PackedSize = 1
  FsLanes = 2
  ExLanes = 2
  AlignSize = 4
  SlabAlign = 2
\* A file whose header was lost can never be opened, and its writer is done.
CHECK_DEADLOCK FALSE
INVARIANTS
  PublishedEntryParses
  LoadedIsWritten
  ResidentIsTheFile
  FinalizedFileComplete
PROPERTIES
  BlocksNeverOverwritten
