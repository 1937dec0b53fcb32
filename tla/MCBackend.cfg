SPECIFICATION Spec
CONSTANTS
  Width <- MCWidth
  Constants <- MCConstants
  EdgePhis <- MCEdgePhis
INVARIANTS TypeOK ValuesAgree ControlAgrees StackEmpty
CHECK_DEADLOCK FALSE
