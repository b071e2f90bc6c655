CONSTANTS
  Worlds <- BranchingOnly
  Stages <- StagePlan
  MaxNodes = 9
  Uninterrupted <- Whole
SPECIFICATION Spec
INVARIANT OneSessionPerKey
CHECK_DEADLOCK FALSE
