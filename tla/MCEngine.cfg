CONSTANTS
  Worlds <- AllWorlds
  Stages <- StagePlan
  MaxNodes = 9
  Uninterrupted <- Whole
SPECIFICATION Spec
INVARIANTS EngineOK PlanOrder NothingStranded MailOnce
PROPERTIES ImplementsGraph ChildIsHeard ActorServes
CHECK_DEADLOCK FALSE
