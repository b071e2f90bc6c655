CONSTANTS
  a = a  b = b  c = c  da = da  db = db  dc = dc  s1 = s1  s2 = s2
  Sessions = {s1}
  Workers = {p1, p2, p3, p4, p5}
  Definitions = {db}
  Contracts = {c1}
  Mail <- Notices
  Keys = {}
  MaxAttempts = 2
  MaxEvents = 1
  LeaseSeconds = 1
  Deadlines = {}
  Backoffs = {1}
  MaxClaims = 2
  MaxRevision = 1
  None = None
  Order <- OnlyB
  Definition <- MCDefinition
  Eager = {}
  Reserved <- MCReserved
  Parallel <- AlwaysTwo
  Resident = {}
  Pool = 2
  Notify = None
  MaxBackoff = 1
  MaxRetries = 0
  MaxFaults = 0
SPECIFICATION RSpec
PROPERTIES HungIsKilled
