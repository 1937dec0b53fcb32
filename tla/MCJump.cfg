SPECIFICATION Spec
CONSTANTS
  Functions = {"f", "g"}
  Sites <- MCSites
  Envs = {e1, e2}
  MaxActs = 4
  MaxJumps = 3
  MaxLive = 3
INVARIANTS TypeOK FramesMatch ResumesAtTarget HeldJumpNotLost
PROPERTY UnwindingEnds
CHECK_DEADLOCK FALSE
