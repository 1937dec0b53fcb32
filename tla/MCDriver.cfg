SPECIFICATION Spec
CONSTANTS
  Defines <- MCDefines
  Uses <- MCUses
  Jars <- MCJars
  Dirs <- MCDirs
  ClassOrder <- MCClassOrder
  Invocations <- MCInvocations
  Edited = {"b"}
  MaxVersion = 2
  MaxRuns = 4
INVARIANTS TypeOK OutputFromInputs OnlyLeftovers InputsKept JFilesLinked LinkOrderIrrelevant LinkFailureExplained
CHECK_DEADLOCK FALSE
