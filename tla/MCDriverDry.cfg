SPECIFICATION Spec
CONSTANTS
  Defines <- MCDefines
  Uses <- MCUses
  Jars <- MCJars
  Dirs <- MCDirs
  ClassOrder <- MCClassOrder
  Invocations <- MCInvocations
  Edited = {"b"}
  MaxVersion = 2
  MaxRuns = 3
INVARIANTS DryRunPrintsOnly
CHECK_DEADLOCK FALSE
