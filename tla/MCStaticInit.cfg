SPECIFICATION Spec
CONSTANTS
  Programs <- MCPrograms
  PackedGlobals <- MCPackedGlobals
  PackedFields <- MCPackedFields
  Methods = {1, 2}
INVARIANTS TypeOK PointersResolved AddressesApart StaysInBlock PlainDataReadable
CHECK_DEADLOCK FALSE
