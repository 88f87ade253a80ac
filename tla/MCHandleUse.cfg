SPECIFICATION Spec
CONSTANTS
  BLOCK_ITEMS = 3
  MAX_BLOCKS = 2
INVARIANTS
  TypeOK
  FreeListSound
  FreeOrHeld
  HeldUnlinked
PROPERTIES
  StoreSpec
  HighWaterMark
CHECK_DEADLOCK FALSE
