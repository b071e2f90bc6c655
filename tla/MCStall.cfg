CONSTANTS
  Depth = 1
  MaxCalls <- AskCalls
  Offers <- AskOffers
  MaxTurnCalls = 1
  MaxEvents = 3
  MaxAttempts = 2
  Budgeted = TRUE
  Interruptible = TRUE
  Fallible <- Sessions
  MaxFaults = 0
  Retriable <- OnlyRoot
  MaxUser = 1
SPECIFICATION Spec
PROPERTIES AnswerResumes
CHECK_DEADLOCK FALSE
