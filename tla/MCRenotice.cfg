CONSTANTS
  a = a  b = b  c = c  da = da  db = db  dc = dc  s1 = s1  s2 = s2
  Sessions = {s1, s2}
  Workers = {p1, p2, p3, p4}
  Definitions = {db}
  Contracts = {c1}
  Mail <- Notices
  Keys = {}
  MaxAttempts = 1
  MaxEvents = 1
  LeaseSeconds = 1
  Deadlines = {}
  Backoffs = {1}
  MaxClaims = 3
  MaxRevision = 1
  None = None
  Order <- OnlyB
  Definition <- MCDefinition
  Eager = {}
  Reserved <- MCReserved
  Parallel <- AlwaysOne
  Resident = {}
  Pool = 1
  Notify = s1
  MaxBackoff = 1
  MaxRetries = 1
  MaxFaults = 0
SPECIFICATION RSpec
PROPERTY FailureNoticed
