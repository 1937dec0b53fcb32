SPECIFICATION Spec
CONSTANTS
  PAGE_SIZE = 16
  MEM_SIZE = 96
  DATA_SIZE = 16
  STACK_SIZE = 32
  INT_MAX = 191
  AllocSizes = {12}
  Increments <- MCIncrements
  StoreWords <- MCStoreWords
  Values = {4}
  MaxDepth = 3
  DataLimit = 8
  StackLimit = 64
  FollowOverrun = TRUE
INVARIANTS TypeOK FrameChain FrameLayout FaultMeansOverrun HeapMapped
PROPERTIES ImplementsObjectStore SbrkExact
CHECK_DEADLOCK FALSE
