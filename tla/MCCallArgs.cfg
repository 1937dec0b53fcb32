SPECIFICATION Spec
CONSTANTS
  Calls <- AllCalls
  MaxArgs = 33
  StackPointer = 264
  LocalSize = 264
INVARIANTS TypeOK UnpackedAsPacked DescendingKeepsLocals
CHECK_DEADLOCK FALSE
