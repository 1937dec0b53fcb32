SPECIFICATION Spec
CONSTANTS
  PAGE_SIZE = 16
  MEM_SIZE = 96
  DATA_SIZE = 16
  STACK_SIZE = 32
  INT_MAX = 191
  AllocSizes = {12}
  Increments <- LimitIncrements
  StoreWords <- LimitStoreWords
  Values = {4}
  MaxDepth = 3
  DataLimit = 8
  StackLimit = 64
  FollowOverrun = TRUE
INVARIANT SegmentsApart
CHECK_DEADLOCK FALSE
