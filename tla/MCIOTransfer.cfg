SPECIFICATION Spec
CONSTANTS
  OPEN_MAX = 5
  INT_MAX = 2
  Paths = {p, q}
  Flags <- TransferFlags
  Modes <- TransferModes
  UsedDescriptors <- TransferDescriptors
  Counts = {0, 2}
  Offsets <- TransferOffsets
  Failures = {"truncate", "read", "write"}
  MaxHandles = 5
  MaxFiles = 2
  MaxLength = 4
  MaxOps = 3
PROPERTY BytesChangeUnderOffset
SYMMETRY PathSymmetry
CHECK_DEADLOCK FALSE
