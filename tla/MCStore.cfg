CONSTANTS
  s1 = s1  s2 = s2
  Sessions = {s1, s2}
  Workers = {w1}
  Definitions = {d1}
  Contracts = {c1}
  Mail = {m1}
  Keys = {k1}
  MaxAttempts = 2
  MaxEvents = 1
  LeaseSeconds = 1
  Deadlines = {1}
  Backoffs = {1}
  MaxClaims = 3
  MaxRevision = 2
  None = None
SPECIFICATION Spec
CONSTRAINT OneRoot
SYMMETRY Symmetry
INVARIANTS
  TypeOK
  ExactlyOnce
  HolderIsCurrent
  CauseKept
  TimerOncePerCheckpoint
  CompleteIsDrained
  SentIffCheckpointed
PROPERTIES
  PendingSurvives
  ImplementsContract
