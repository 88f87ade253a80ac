SPECIFICATION MCSpec
CONSTANTS
  BLOCK_ITEMS = 5
  MAX_BLOCKS = 1
  Tags = {t1, t2}
  ANY_TAG = ANY_TAG
  PROC_NULL = PROC_NULL
  Stale = Stale
  SendCount = 2
  MaxPosts = 4
  MaxComms = 2
  ListData = {1, 2}
  MaxItems = 4
  MaxAdd = 3
  MaxLists = 2
  Words = 4
  MaxCalls = 2
  Sizes = {1, 2}
  Bytes = {0, 1}
  PackSize = 5
INVARIANTS
  TypeOK
  ListsSound
  PendingListed
  CompletionTruthful
  WholeMessage
  StatusTruthful
  HandlesAccounted
  WorldKept
  NothingLost
  UnpackInvertsPack
PROPERTIES
  MatchingSpec
  SequencesSpec
  CollectivesSpec
SYMMETRY TagSymmetry
CHECK_DEADLOCK FALSE
