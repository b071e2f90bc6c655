CONSTANTS
  a = a  b = b  c = c  da = da  db = db  dc = dc  s1 = s1  s2 = s2
  Sessions = {s1, s2}
  Workers = {p1, p2, p3}
  Definitions = {db, dc}
  Contracts = {c1}
  Mail <- Notices
  Keys = {}
  MaxAttempts = 1
  MaxEvents = 1
  LeaseSeconds = 1
  Deadlines = {}
  Backoffs = {1}
  MaxClaims = 2
  MaxRevision = 1
  None = None
  Order <- BC
  Definition <- MCDefinition
  Eager = {}
  Reserved <- MCReserved
  Parallel <- AlwaysOne
  Resident = {}
  Pool = 1
  Notify = s1
  MaxBackoff = 1
  MaxRetries = 0
  MaxFaults = 0
SPECIFICATION RSpec
PROPERTIES HungIsKilled ReadyServed
