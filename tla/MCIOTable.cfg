SPECIFICATION Spec
CONSTANTS
  OPEN_MAX = 5
  INT_MAX = 2
  Paths = {p, q}
  Flags <- TableFlags
  Modes <- TableModes
  UsedDescriptors <- TableDescriptors
  Counts = {1}
  Offsets = {}
  Failures = {"create", "open", "truncate", "close"}
  MaxHandles = 6
  MaxFiles = 2
  MaxLength = 1
  MaxOps = 1
INVARIANTS TypeOK OpenHandlesReachable ExitClosesAll
PROPERTIES DescriptorNeverReused FailedOpenLeavesFiles
SYMMETRY PathSymmetry
CHECK_DEADLOCK FALSE
