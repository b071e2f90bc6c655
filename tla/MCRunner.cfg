CONSTANTS
  a = a  b = b  c = c  da = da  db = db  dc = dc  s1 = s1  s2 = s2
  Sessions = {s1, s2}
  Workers = {p1, p2, p3, p4}
  Definitions = {da, db}
  Contracts = {c1}
  Mail <- Notices
  Keys = {}
  MaxAttempts = 1
  MaxEvents = 1
  LeaseSeconds = 1
  Deadlines = {}
  Backoffs = {1}
  MaxClaims = 2
  MaxRevision = 0
  None = None
  Order <- AB
  Definition <- MCDefinition
  Eager = {a}
  Reserved <- MCReserved
  Parallel <- TwoOfA
  Resident = {a}
  Pool = 1
  Notify = None
  MaxBackoff = 1
  MaxRetries = 1
  MaxFaults = 1
SPECIFICATION RSpec
INVARIANTS RunnerOK ParallelBound PoolBound
SYMMETRY Alike
CONSTRAINT OneTrouble
