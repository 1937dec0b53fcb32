SPECIFICATION Spec
CONSTANTS
  Calls <- ShortCalls
  MaxArgs = 4
  StackPointer = 32
  LocalSize = 32
INVARIANT LocalsKept
CHECK_DEADLOCK FALSE
