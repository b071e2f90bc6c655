CONSTANTS
  Depth = 1
  MaxCalls <- RootCalls
  Offers <- RootOffers
  MaxTurnCalls = 2
  MaxEvents = 3
  MaxAttempts = 2
  Budgeted = TRUE
  Interruptible = TRUE
  Fallible <- Sessions
  MaxFaults = 1
  Retriable <- OnlyRoot
  MaxUser = 2
SPECIFICATION Spec
INVARIANTS OneResultPerCall MailIsExpected
PROPERTIES CancelledIsSilent AnswerResumes UserServed OnContract
CHECK_DEADLOCK FALSE
